--------------------- MODULE RegistrationServiceProofs ---------------------
(***************************************************************************)
(* Theorems about RegistrationService, for all organisations, satellites,  *)
(* blocks, calls and faults.                                               *)
(***************************************************************************)
EXTENDS RegistrationService, TLAPS

USE SystemAssumption, NoneAssumption, BlocksAssumption, CallsAssumption,
    SwitchesAssumption

(***************************************************************************)
(* What the handlers know of a call when they reach the database.          *)
(***************************************************************************)

\* A handler that refuses a call answers 400 or 403.
LEMMA RefusalStatus ==
  ASSUME NEW c \in Call
  PROVE  Refusal(c) \in {0, 400, 403}
BY DEF Call, Refusal

\* A create that reaches its insert is an org admin's, complete, and for the
\* satellite its certificate names.
LEMMA AcceptedCreate ==
  ASSUME NEW c \in Call, c.kind = "create", Refusal(c) = 0
  PROVE  /\ RowOf(c) \in Registration
         /\ c.admin = TRUE
         /\ c.cn = c.uid
<1>1. c \in [kind : {"create"}, org : Orgs, admin : BOOLEAN, username : BOOLEAN,
             uid : UIDs \cup {None}, name : Names \cup {None},
             cn : UIDs \cup {None}, addr : Addrs]
  BY DEF Call
<1>2. c.uid # None /\ c.name # None /\ c.admin /\ c.cn = c.uid
  BY <1>1 DEF Refusal
<1> QED BY <1>1, <1>2 DEF RowOf, Registration

\* A change of the allowlist that reaches its statement is an org admin's of
\* an organisation, and the row it adds is one.
LEMMA AcceptedEntry ==
  ASSUME NEW c \in Call, c.kind \in {"allow", "deny"}, Refusal(c) = 0
  PROVE  /\ c.org \in Orgs
         /\ c.admin = TRUE
         /\ NewEntry(c) \in Entry
<1>1. c \in [kind : {"allow", "deny"}, org : Orgs, admin : BOOLEAN,
             block : Blocks \cup {None}]
  BY DEF Call
<1>2. c.admin /\ c.block # None
  BY <1>1 DEF Refusal
<1> QED BY <1>1, <1>2 DEF NewEntry, Entry

(***************************************************************************)
(* Type correctness.                                                       *)
(***************************************************************************)

\* A statement leaves registrations and allowlist rows in the tables.
LEMMA ExecuteType ==
  ASSUME rows \subseteq Registration, allowlist \subseteq Entry,
         NEW c \in Call, Refusal(c) = 0, Execute(c)
  PROVE  rows' \subseteq Registration /\ allowlist' \subseteq Entry
<1>1. CASE c.kind = "create"
  BY <1>1, AcceptedCreate DEF Execute
<1>2. CASE c.kind = "delete"
  BY <1>2 DEF Execute
<1>3. CASE c.kind = "allow"
  BY <1>3, AcceptedEntry DEF Execute
<1>4. CASE c.kind = "deny"
  BY <1>4 DEF Execute
<1> QED BY <1>1, <1>2, <1>3, <1>4 DEF Execute

\* An answer keeps the table of requests well formed.
LEMMA AnswerType ==
  ASSUME RequestsOK, NEW r \in Requests, req[r].pc # "idle",
         NEW status \in Status, NEW owner \in Orgs \cup {None},
         Answer(r, status, owner)
  PROVE  RequestsOK'
BY DEF RequestsOK, Answer, Status

LEMMA WatchType ==
  ASSUME window \in [Requests -> SUBSET Entry], allowlist' \subseteq Entry, Watch
  PROVE  window' \in [Requests -> SUBSET Entry]
BY DEF Watch

THEOREM TypeInvariant == Spec => []TypeOK
<1>1. Init => TypeOK
  BY DEF Init, TypeOK, RequestsOK, Entry, Idle
<1>2. TypeOK /\ [Next]_vars => TypeOK'
  <2> SUFFICES ASSUME TypeOK, [Next]_vars PROVE TypeOK'
    OBVIOUS
  <2> USE DEF TypeOK
  <2>1. CASE UNCHANGED vars
    BY <2>1 DEF vars, RequestsOK
  <2>2. ASSUME NEW r \in Requests, Receive(r) PROVE TypeOK'
    <3>1. RequestsOK'
      BY <2>2 DEF Receive, RequestsOK, Call
    <3> QED BY <2>2, <3>1, WatchType DEF Receive
  <2>3. ASSUME NEW r \in Requests, Serve(r) PROVE TypeOK'
    <3> DEFINE c == req[r].call
    <3>1. Status = {200, 201, 204, 400, 401, 403, 404, 409, 500}
      BY DEF Status
    <3>2. ASSUME req[r].pc = "handle"
          PROVE  c \in Calls /\ c \in Call /\ Refusal(c) \in {0, 400, 403}
      BY <3>2, RefusalStatus DEF RequestsOK
    <3>3. CASE PassGate(r)
      <4>1. RequestsOK'
        BY <3>3 DEF PassGate, RequestsOK
      <4> QED BY <3>3, <4>1, WatchType DEF PassGate
    <3>4. CASE FailGate(r)
      <4>1. RequestsOK'
        BY <3>1, <3>4, AnswerType DEF FailGate
      <4> QED BY <3>4, <4>1, WatchType DEF FailGate
    <3>15. CASE CutBody(r)
      <4>1. RequestsOK'
        BY <3>1, <3>15, AnswerType DEF CutBody
      <4> QED BY <3>15, <4>1, WatchType DEF CutBody
    <3>5. CASE Refuse(r)
      <4>1. RequestsOK'
        BY <3>1, <3>2, <3>5, AnswerType DEF Refuse
      <4> QED BY <3>5, <4>1, WatchType DEF Refuse
    <3>6. CASE Create(r)
      <4>1. RequestsOK'
        BY <3>1, <3>6, AnswerType DEF Create, AtStatement
      <4>2. rows' \subseteq Registration /\ allowlist' \subseteq Entry
        BY <3>2, <3>6, ExecuteType DEF Create, AtStatement
      <4> QED BY <3>6, <4>1, <4>2, WatchType DEF Create
    <3>7. CASE Delete(r)
      <4>1. RequestsOK'
        BY <3>1, <3>7, AnswerType DEF Delete, AtStatement
      <4>2. rows' \subseteq Registration /\ allowlist' \subseteq Entry
        BY <3>2, <3>7, ExecuteType DEF Delete, AtStatement
      <4> QED BY <3>7, <4>1, <4>2, WatchType DEF Delete
    <3>8. CASE FindByUID(r)
      <4>1. \E status \in Status, owner \in Orgs \cup {None} : Answer(r, status, owner)
        <5>1. ASSUME NEW x \in Selected(c.cn), Answer(r, 200, x.org)
              PROVE  \E owner \in Orgs \cup {None} : Answer(r, 200, owner)
          BY <5>1 DEF Selected, Registration
        <5> QED BY <3>1, <3>8, <5>1 DEF FindByUID
      <4>2. RequestsOK'
        BY <3>8, <4>1, AnswerType DEF FindByUID, AtStatement
      <4> QED BY <3>8, <4>2, WatchType DEF FindByUID
    <3>9. CASE AllowAddress(r)
      <4>1. RequestsOK'
        BY <3>1, <3>9, AnswerType DEF AllowAddress, AtStatement
      <4>2. rows' \subseteq Registration /\ allowlist' \subseteq Entry
        BY <3>2, <3>9, ExecuteType DEF AllowAddress, AtStatement
      <4> QED BY <3>9, <4>1, <4>2, WatchType DEF AllowAddress
    <3>10. CASE DenyAddress(r)
      <4>1. RequestsOK'
        BY <3>1, <3>10, AnswerType DEF DenyAddress, AtStatement
      <4>2. rows' \subseteq Registration /\ allowlist' \subseteq Entry
        BY <3>2, <3>10, ExecuteType DEF DenyAddress, AtStatement
      <4> QED BY <3>10, <4>1, <4>2, WatchType DEF DenyAddress
    <3>11. CASE AllowedAddresses(r)
      <4>1. RequestsOK'
        BY <3>1, <3>11, AnswerType DEF AllowedAddresses, AtStatement
      <4> QED BY <3>11, <4>1, WatchType DEF AllowedAddresses
    <3>12. CASE StatementLost(r)
      <4>1. RequestsOK'
        BY <3>1, <3>12, AnswerType DEF StatementLost, AtStatement, FailureStatus
      <4>2. rows' \subseteq Registration /\ allowlist' \subseteq Entry
        BY <3>2, <3>12, ExecuteType DEF StatementLost, AtStatement
      <4> QED BY <3>12, <4>1, <4>2, WatchType DEF StatementLost
    <3>13. CASE StatementRejected(r)
      <4>1. RequestsOK'
        BY <3>1, <3>13, AnswerType
        DEF StatementRejected, AtStatement, FailureStatus, RejectedStatus
      <4> QED BY <3>13, <4>1, WatchType DEF StatementRejected
    <3>14. CASE Respond(r)
      <4>1. RequestsOK'
        BY <3>14 DEF Respond, RequestsOK, Idle
      <4> QED BY <3>14, <4>1, WatchType DEF Respond
    <3> QED BY <2>3, <3>3, <3>4, <3>5, <3>6, <3>7, <3>8, <3>9, <3>10, <3>11,
               <3>12, <3>13, <3>14, <3>15 DEF Serve
  <2>4. ASSUME NEW gone \in SUBSET Requests, Crash(gone) PROVE TypeOK'
    <3>1. RequestsOK'
      BY <2>4 DEF Crash, RequestsOK, Idle
    <3> QED BY <2>4, <3>1, WatchType DEF Crash
  <2> QED BY <2>1, <2>2, <2>3, <2>4 DEF Next
<1> QED BY <1>1, <1>2, PTL DEF Spec

(***************************************************************************)
(* What can change the tables: one statement of one request.               *)
(***************************************************************************)
LEMMA OneStatementPerStep ==
  ASSUME TypeOK, [Next]_vars
  PROVE  \/ UNCHANGED <<rows, allowlist>>
         \/ \E r \in Requests :
              Answers(r) /\ AtStatement(r, AllKinds) /\ Execute(req[r].call)
<1> USE DEF TypeOK
<1>1. ASSUME NEW r \in Requests, NEW status, NEW owner, Answer(r, status, owner),
             AtStatement(r, AllKinds)
      PROVE  Answers(r)
  BY <1>1 DEF Answer, Answers, AtStatement, RequestsOK
<1>2. ASSUME NEW r \in Requests, NEW kinds \in SUBSET AllKinds, AtStatement(r, kinds)
      PROVE  AtStatement(r, AllKinds)
  BY <1>2 DEF AtStatement
<1>3. ASSUME NEW r \in Requests, Serve(r), ~UNCHANGED <<rows, allowlist>>
      PROVE  Answers(r) /\ AtStatement(r, AllKinds) /\ Execute(req[r].call)
  <2>1. CASE Create(r)
    BY <1>1, <1>2, <1>3, <2>1 DEF Create, AllKinds
  <2>2. CASE Delete(r)
    BY <1>1, <1>2, <1>3, <2>2 DEF Delete, AllKinds
  <2>3. CASE AllowAddress(r)
    BY <1>1, <1>2, <1>3, <2>3 DEF AllowAddress, AllKinds
  <2>4. CASE DenyAddress(r)
    BY <1>1, <1>2, <1>3, <2>4 DEF DenyAddress, AllKinds
  <2>5. CASE StatementLost(r)
    BY <1>1, <1>3, <2>5 DEF StatementLost
  <2> QED
    BY <1>3, <2>1, <2>2, <2>3, <2>4, <2>5
    DEF Serve, PassGate, FailGate, CutBody, Refuse, FindByUID, AllowedAddresses,
        StatementRejected, Respond
<1> QED BY <1>3 DEF Next, vars, Receive, Crash

(***************************************************************************)
(* Uniqueness of registrations.                                            *)
(***************************************************************************)
THEOREM RegistrationsAreUnique == Spec => []UniqueRegistrations
<1>1. Init => UniqueRegistrations
  BY DEF Init, UniqueRegistrations
<1>2. TypeOK /\ UniqueRegistrations /\ [Next]_vars => UniqueRegistrations'
  <2> SUFFICES ASSUME TypeOK, UniqueRegistrations, [Next]_vars
               PROVE  UniqueRegistrations'
    OBVIOUS
  <2>1. CASE rows' \subseteq rows
    BY <2>1 DEF UniqueRegistrations
  <2>2. ASSUME NEW c, Execute(c), c.kind = "create" PROVE UniqueRegistrations'
    <3>1. Conflicts(RowOf(c)) = {} /\ rows' = rows \cup {RowOf(c)}
      BY <2>2 DEF Execute
    <3> QED BY <3>1 DEF UniqueRegistrations, Conflicts
  <2>3. ASSUME NEW c, Execute(c), c.kind # "create" PROVE rows' \subseteq rows
    BY <2>3 DEF Execute
  <2> QED BY <2>1, <2>2, <2>3, OneStatementPerStep
<1> QED BY <1>1, <1>2, TypeInvariant, PTL DEF Spec

(***************************************************************************)
(* Isolation of tenants.                                                   *)
(***************************************************************************)
THEOREM TenantsAreIsolated == Spec => TenantIsolation
<1>1. TypeOK /\ [Next]_vars => [IsolatedStep]_vars
  <2> SUFFICES ASSUME TypeOK, [Next]_vars, ~UNCHANGED <<rows, allowlist>>
               PROVE  IsolatedStep
    BY DEF IsolatedStep
  <2> USE DEF IsolatedStep
  <2>1. PICK r \in Requests :
          Answers(r) /\ AtStatement(r, AllKinds) /\ Execute(req[r].call)
    BY OneStatementPerStep
  <2> DEFINE c == req[r].call
  <2>2. c \in Call /\ Refusal(c) = 0
    BY <2>1 DEF TypeOK, RequestsOK, AtStatement
  <2>3. CASE c.kind = "create"
    <3>1. rows' = rows \cup {RowOf(c)} /\ allowlist' = allowlist
      BY <2>1, <2>3 DEF Execute
    <3>2. RowOf(c).org = c.org /\ RowOf(c).uid = c.uid /\ c.admin
      BY <2>2, <2>3, AcceptedCreate DEF RowOf
    <3> QED BY <2>1, <2>3, <3>1, <3>2
  <2>4. CASE c.kind = "delete"
    <3>1. rows' = rows \ Doomed(c) /\ allowlist' = allowlist
      BY <2>1, <2>4 DEF Execute
    <3>2. c.admin
      BY <2>2, <2>4 DEF Call, Refusal
    <3> QED BY <2>1, <2>4, <3>1, <3>2 DEF Doomed
  <2>5. CASE c.kind = "allow"
    <3>1. rows' = rows /\ allowlist' = allowlist \cup {NewEntry(c)}
      BY <2>1, <2>5 DEF Execute
    <3>2. NewEntry(c)[2] = c.org /\ c.admin
      BY <2>2, <2>5, AcceptedEntry DEF NewEntry
    <3> QED BY <2>1, <2>5, <3>1, <3>2
  <2>6. CASE c.kind = "deny"
    <3>1. rows' = rows /\ allowlist' = allowlist \ Denied(c)
      BY <2>1, <2>6 DEF Execute
    <3>2. c.admin
      BY <2>2, <2>6, AcceptedEntry
    <3> QED BY <2>1, <2>6, <3>1, <3>2 DEF Denied
  <2> QED BY <2>1, <2>3, <2>4, <2>5, <2>6 DEF Execute
<1> QED BY <1>1, TypeInvariant, PTL DEF Spec, TenantIsolation

(***************************************************************************)
(* The gate.                                                               *)
(***************************************************************************)

\* While a request stays pending its history grows to hold the allowlist;
\* nothing drops out of it.
LEMMA WatchGrows ==
  ASSUME TypeOK, GateInvariant, Watch, NEW r \in Requests, Pending(r)'
  PROVE  /\ allowlist' \subseteq window'[r]
         /\ Pending(r) => window[r] \subseteq window'[r]
BY DEF TypeOK, GateInvariant, Watch

\* A create that passes the gate was admitted by a row of its history.
LEMMA GateVets ==
  ASSUME TypeOK, GateInvariant, NEW r \in Requests, PassGate(r)
  PROVE  Vetted(r)
<1> DEFINE c == req[r].call
<1>1. PICK seen \in Seen(c.org) : \E b \in seen : Admits(b, c.addr)
  BY DEF PassGate
<1>2. PICK b \in seen : Admits(b, c.addr)
  BY <1>1
<1>3. b \in Visible(c.org)
  BY <1>1, <1>2 DEF Seen
<1>4. allowlist \subseteq window[r]
  BY DEF GateInvariant, Pending, PassGate
<1>5. CASE <<b, c.org>> \in allowlist
  <2>1. <<b, c.org>>[1] = b /\ <<b, c.org>>[2] = c.org
    OBVIOUS
  <2> QED BY <1>2, <1>4, <1>5, <2>1 DEF Vetted
<1>6. CASE <<b, System>> \in allowlist
  <2>1. <<b, System>>[1] = b /\ <<b, System>>[2] = System
    OBVIOUS
  <2> QED BY <1>2, <1>4, <1>6, <2>1 DEF Vetted
<1> QED BY <1>3, <1>5, <1>6 DEF Visible

\* A step of another request, or one that leaves a pending create past the
\* gate, keeps it vetted.
LEMMA StaysVetted ==
  ASSUME TypeOK, GateInvariant, Watch, NEW r \in Requests,
         Pending(r), Pending(r)', req'[r].call = req[r].call, Vetted(r)
  PROVE  Vetted(r)'
<1>1. window[r] \subseteq window'[r]
  BY WatchGrows
<1> QED BY <1>1 DEF Vetted, Admits

\* Where a request comes from that is past the gate after a step.
LEMMA HandleFrom ==
  ASSUME TypeOK, [Next]_vars, NEW r \in Requests, req'[r].pc = "handle"
  PROVE  \/ req'[r] = req[r]
         \/ PassGate(r) /\ req'[r].call = req[r].call
         \/ ~(AllowlistEnabled /\ req'[r].call.kind = "create")
<1> USE DEF TypeOK, RequestsOK
<1>1. CASE UNCHANGED vars
  BY <1>1 DEF vars
<1>2. ASSUME NEW s \in Requests, Receive(s)
      PROVE  \/ req'[r] = req[r]
             \/ ~(AllowlistEnabled /\ req'[r].call.kind = "create")
  BY <1>2 DEF Receive
<1>3. ASSUME NEW s \in Requests, NEW status, NEW owner, Answer(s, status, owner)
      PROVE  req'[r] = req[r]
  BY <1>3 DEF Answer
<1>4. ASSUME NEW s \in Requests, PassGate(s)
      PROVE  req'[r] = req[r] \/ (s = r /\ req'[r].call = req[r].call)
  BY <1>4 DEF PassGate
<1>5. ASSUME NEW s \in Requests, Respond(s)
      PROVE  req'[r] = req[r]
  BY <1>5 DEF Respond, Idle
<1>6. ASSUME NEW gone \in SUBSET Requests, Crash(gone)
      PROVE  req'[r] = req[r]
  BY <1>6 DEF Crash, Idle
<1>7. ASSUME NEW s \in Requests, Serve(s)
      PROVE  \/ req'[r] = req[r]
             \/ PassGate(r) /\ req'[r].call = req[r].call
  <2>1. CASE PassGate(s) \/ Respond(s)
    BY <1>4, <1>5, <2>1
  <2>2. CASE FailGate(s)
    BY <1>3, <2>2 DEF FailGate
  <2>3. CASE CutBody(s) \/ Refuse(s)
    BY <1>3, <2>3 DEF CutBody, Refuse
  <2>4. CASE Create(s) \/ Delete(s)
    BY <1>3, <2>4 DEF Create, Delete
  <2>5. CASE FindByUID(s)
    BY <1>3, <2>5 DEF FindByUID
  <2>6. CASE AllowAddress(s) \/ DenyAddress(s) \/ AllowedAddresses(s)
    BY <1>3, <2>6 DEF AllowAddress, DenyAddress, AllowedAddresses
  <2>7. CASE StatementLost(s) \/ StatementRejected(s)
    BY <1>3, <2>7 DEF StatementLost, StatementRejected
  <2> QED BY <1>7, <2>1, <2>2, <2>3, <2>4, <2>5, <2>6, <2>7 DEF Serve
<1> QED BY <1>1, <1>2, <1>6, <1>7 DEF Next

\* The history is kept in every step.
LEMMA AlwaysWatched == Next => Watch
BY DEF Next, Receive, Crash, Serve, PassGate, FailGate, CutBody, Refuse, Create, Delete,
       FindByUID, AllowAddress, DenyAddress, AllowedAddresses, StatementLost,
       StatementRejected, Respond

THEOREM GateHolds == Spec => []GateInvariant
<1>1. Init => GateInvariant
  <2>1. ASSUME Init, NEW r \in Requests PROVE req[r].pc = "idle"
    BY <2>1 DEF Init, Idle
  <2> QED BY <2>1 DEF GateInvariant, Pending
<1>2. TypeOK /\ GateInvariant /\ [Next]_vars => GateInvariant'
  <2> SUFFICES ASSUME TypeOK, GateInvariant, [Next]_vars PROVE GateInvariant'
    OBVIOUS
  <2>1. CASE UNCHANGED vars
    BY <2>1 DEF vars, GateInvariant, Pending, Vetted, Admits
  <2>2. CASE Next
    <3> SUFFICES ASSUME NEW r \in Requests
                 PROVE  /\ Pending(r)' => allowlist' \subseteq window'[r]
                        /\ /\ AllowlistEnabled
                           /\ req'[r].pc = "handle" /\ req'[r].call.kind = "create"
                           => Vetted(r)'
      BY DEF GateInvariant
    <3>1. Watch
      BY <2>2, AlwaysWatched
    <3>2. Pending(r)' => allowlist' \subseteq window'[r]
      BY <3>1, WatchGrows
    <3>3. ASSUME AllowlistEnabled, req'[r].pc = "handle", req'[r].call.kind = "create"
          PROVE  Vetted(r)'
      <4>1. Pending(r)'
        BY <3>3 DEF Pending
      <4>2. CASE req'[r] = req[r]
        <5>1. Vetted(r) /\ Pending(r)
          BY <3>3, <4>2 DEF GateInvariant, Pending
        <5> QED BY <3>1, <4>1, <4>2, <5>1, StaysVetted
      <4>3. CASE PassGate(r) /\ req'[r].call = req[r].call
        <5>1. Pending(r)
          BY <4>3 DEF PassGate, Pending
        <5>2. Vetted(r)
          BY <4>3, GateVets
        <5> QED BY <3>1, <4>1, <4>3, <5>1, <5>2, StaysVetted
      <4> QED BY <3>3, <4>2, <4>3, HandleFrom
    <3> QED BY <3>2, <3>3
  <2> QED BY <2>1, <2>2
<1> QED BY <1>1, <1>2, TypeInvariant, PTL DEF Spec

THEOREM RegistrationsAreVetted == Spec => OnlyVettedRegistrations
<1>1. TypeOK /\ GateInvariant /\ [Next]_vars => [VettedStep]_vars
  <2> SUFFICES ASSUME TypeOK, GateInvariant, [Next]_vars,
                      NEW x \in rows', x \notin rows
               PROVE  \E r \in Requests :
                        /\ Answers(r)
                        /\ req[r].call.kind = "create" /\ RowOf(req[r].call) = x
                        /\ req[r].call.admin /\ req[r].call.cn = x.uid
                        /\ AllowlistEnabled => Vetted(r)
    BY DEF VettedStep
  <2>1. PICK r \in Requests :
          Answers(r) /\ AtStatement(r, AllKinds) /\ Execute(req[r].call)
    BY OneStatementPerStep
  <2> DEFINE c == req[r].call
  <2>2. c.kind = "create" /\ RowOf(c) = x
    BY <2>1 DEF Execute
  <2>3. c \in Call /\ Refusal(c) = 0
    BY <2>1 DEF TypeOK, RequestsOK, AtStatement
  <2>4. c.admin /\ c.cn = x.uid
    <3>1. x.uid = c.uid
      BY <2>2 DEF RowOf
    <3> QED BY <2>2, <2>3, <3>1, AcceptedCreate
  <2>5. AllowlistEnabled => Vetted(r)
    BY <2>1, <2>2 DEF GateInvariant, AtStatement
  <2> QED BY <2>1, <2>2, <2>4, <2>5
<1> QED BY <1>1, TypeInvariant, GateHolds, PTL DEF Spec, OnlyVettedRegistrations
=============================================================================
