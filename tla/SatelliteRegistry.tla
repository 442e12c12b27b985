------------------------- MODULE SatelliteRegistry -------------------------
(***************************************************************************)
(* What mbop promises about satellite registrations, with no statement,    *)
(* handler or replica in sight: a set of registrations, and requests that  *)
(* are asked, take effect at one instant between the question and the      *)
(* answer, and are answered, or are abandoned because the process that     *)
(* served them died.  RegistrationService is shown to implement it.        *)
(***************************************************************************)
EXTENDS Integers

CONSTANTS Requests,   \* the requests that may be in flight together
          Orgs,       \* tenants
          UIDs,       \* satellite ids, also the CNs of their certificates
          Names,      \* display names
          None        \* "no value"

VARIABLES registry,   \* the registrations
          ask,        \* what each request asks, Nothing when there is none
          answer      \* what it was answered, Unanswered until then

vars == <<registry, ask, answer>>

Registration == [org : Orgs, uid : UIDs, name : Names]

Ask ==
       [kind : {"register"}, row : Registration]
  \cup [kind : {"unregister"}, org : Orgs, uid : UIDs]
  \cup [kind : {"lookup", "check"}, uid : UIDs]
  \cup [kind : {"other"}]

Nothing == [kind |-> "none"]

Answer(status, owner) == [status |-> status, owner |-> owner]

Unanswered == Answer(0, None)

\* the answer to a request that does not concern the registry
Done == Answer(200, None)

\* A uid is registered once; a display name once in its organisation.
Taken(row) ==
  \E x \in registry : x.uid = row.uid \/ (x.org = row.org /\ x.name = row.name)

Init ==
  /\ registry = {}
  /\ ask = [r \in Requests |-> Nothing]
  /\ answer = [r \in Requests |-> Unanswered]

Invoke(r) ==
  /\ ask[r] = Nothing
  /\ \E a \in Ask : ask' = [ask EXCEPT ![r] = a]
  /\ UNCHANGED <<registry, answer>>

Asked(r, kind) == ask[r].kind = kind /\ answer[r] = Unanswered

Reply(r, status, owner) ==
  /\ answer' = [answer EXCEPT ![r] = Answer(status, owner)]
  /\ UNCHANGED ask

\* The effect of a request on the registry.
Effect(r) ==
  \/ /\ ask[r].kind = "register"
     /\ ~Taken(ask[r].row)
     /\ registry' = registry \cup {ask[r].row}
  \/ /\ ask[r].kind = "unregister"
     /\ \E x \in registry :
          /\ x.org = ask[r].org /\ x.uid = ask[r].uid
          /\ registry' = registry \ {x}

Register(r) ==
  /\ Asked(r, "register")
  /\ \/ Effect(r) /\ Reply(r, 201, None)
     \/ Taken(ask[r].row) /\ Reply(r, 409, None) /\ UNCHANGED registry

\* A registration may be turned away at the gate whatever the registry holds.
TurnAway(r) == Asked(r, "register") /\ Reply(r, 403, None) /\ UNCHANGED registry

Unregister(r) ==
  /\ Asked(r, "unregister")
  /\ \/ Effect(r) /\ Reply(r, 204, None)
     \/ /\ ~\E x \in registry : x.org = ask[r].org /\ x.uid = ask[r].uid
        /\ Reply(r, 404, None)
        /\ UNCHANGED registry

\* Only the holder of a registered uid is let in, and into its organisation.
Lookup(r) ==
  /\ Asked(r, "lookup")
  /\ \/ \E x \in registry : x.uid = ask[r].uid /\ Reply(r, 200, x.org)
     \/ (\A x \in registry : x.uid # ask[r].uid) /\ Reply(r, 401, None)
  /\ UNCHANGED registry

\* A positive check is true; a negative one (403) promises nothing.
Check(r) ==
  /\ Asked(r, "check")
  /\ \/ \E x \in registry : x.uid = ask[r].uid /\ Reply(r, 200, x.org)
     \/ Reply(r, 403, None)
  /\ UNCHANGED registry

Ignore(r) ==
  /\ Asked(r, "other")
  /\ answer' = [answer EXCEPT ![r] = Done]
  /\ UNCHANGED <<registry, ask>>

\* A failure is owned up to, and leaves open whether the effect took place.
Fail(r) ==
  /\ \E kind \in {"register", "unregister", "lookup"} : Asked(r, kind)
  /\ Reply(r, 500, None)
  /\ UNCHANGED registry \/ Effect(r)

Return(r) ==
  /\ answer[r] # Unanswered
  /\ ask' = [ask EXCEPT ![r] = Nothing]
  /\ answer' = [answer EXCEPT ![r] = Unanswered]
  /\ UNCHANGED registry

Abandon(gone) ==
  /\ ask' = [r \in Requests |-> IF r \in gone THEN Nothing ELSE ask[r]]
  /\ answer' = [r \in Requests |-> IF r \in gone THEN Unanswered ELSE answer[r]]
  /\ UNCHANGED registry

Next ==
  \/ \E r \in Requests :
       \/ Invoke(r) \/ Register(r) \/ TurnAway(r) \/ Unregister(r)
       \/ Lookup(r) \/ Check(r) \/ Ignore(r) \/ Fail(r) \/ Return(r)
  \/ \E gone \in SUBSET Requests : Abandon(gone)

Spec == Init /\ [][Next]_vars
=============================================================================
