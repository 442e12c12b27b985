------------------------ MODULE RegistrationService ------------------------
(***************************************************************************)
(* Satellite registrations and the address allowlist of mbop with the      *)
(* PostgreSQL store: the handlers of registration_handler.go,              *)
(* allowlist_handler.go, auth_v1_handler.go and checkRegistration of the   *)
(* catch-all server, over postgres_store_impl.go.                          *)
(*                                                                         *)
(* Every request runs in a goroutine of some replica; all share the two    *)
(* tables.  A step is one SQL statement with the handler code up to the    *)
(* next one, so steps of different requests interleave at statements.      *)
(* Registering is the one operation of two statements: the allowlist query *)
(* and, later, the insert.                                                 *)
(***************************************************************************)
EXTENDS Integers

CONSTANTS
  Requests,          \* requests that may be in flight together
  Orgs,              \* tenants: the org_id of an identity header
  System,            \* the org_id of the allowlist rows that hold for all
  UIDs,              \* satellite ids, and the CNs of gateway certificates
  Names,             \* display names
  Addrs,             \* addresses the gateway may report in its header
  Blocks,            \* what an ip_block can hold, masks or bare addresses
  Malformed,         \* the blocks net.ParseCIDR refuses
  Contains,          \* the addresses in each well-formed block
  WithMask,          \* a block with "/32" appended when it has no "/"
  SystemBlocks,      \* the rows the deployment put under System
  Calls,             \* the calls the clients make
  AllowlistEnabled,  \* ALLOWLIST_ENABLED
  Faults,            \* what may go wrong: database, replica or client
  None               \* an absent value

\* A call as its handler sees it.  None stands for a field that is absent or
\* empty, or whose body, header or certificate CN does not parse.
Call ==
       [kind : {"create"}, org : Orgs, admin : BOOLEAN, username : BOOLEAN,
        uid : UIDs \cup {None}, name : Names \cup {None},
        cn : UIDs \cup {None}, addr : Addrs]
  \cup [kind : {"delete"}, org : Orgs, admin : BOOLEAN, uid : UIDs]
  \cup [kind : {"auth", "check"}, cn : UIDs \cup {None}]
  \cup [kind : {"allow", "deny"}, org : Orgs, admin : BOOLEAN,
        block : Blocks \cup {None}]
  \cup [kind : {"list"}, org : Orgs, admin : BOOLEAN]

\* "rejected":  PostgreSQL refuses a statement (a PgError), with no effect
\* "lost":      the connection breaks before or after a statement commits
\* "shortread": the connection breaks while the rows of a query are read
\* "crash":     a replica stops, and the requests it serves with it
\* "cutbody":   the body of a request breaks off while it is read
ServiceFaults == {"rejected", "lost", "shortread", "crash", "cutbody"}

ASSUME SystemAssumption == System \notin Orgs
ASSUME NoneAssumption == None \notin Orgs \cup UIDs \cup Names \cup Blocks \cup Call
ASSUME BlocksAssumption ==
  /\ Malformed \subseteq Blocks
  /\ SystemBlocks \subseteq Blocks
  /\ Contains \in [Blocks -> SUBSET Addrs]
  /\ WithMask \in [Blocks -> Blocks]
ASSUME CallsAssumption == Calls \subseteq Call
ASSUME SwitchesAssumption ==
  AllowlistEnabled \in BOOLEAN /\ Faults \subseteq ServiceFaults

VARIABLES
  rows,       \* table registrations
  allowlist,  \* table allowlist: pairs of ip_block and org_id
  req,        \* the requests: where each is in its handler, and its answer
  window      \* history: allowlist rows seen while a registration is pending

vars == <<rows, allowlist, req, window>>

Registration == [org : Orgs, uid : UIDs, name : Names]
Entry == Blocks \X (Orgs \cup {System})
Status == {200, 201, 204, 400, 401, 403, 404, 409, 500}

\* The owner is the organisation a 200 of auth or check lets the caller into.
Idle == [pc |-> "idle", call |-> None, status |-> 0, owner |-> None]

Pending(r) == req[r].pc \in {"gate", "handle"}

(***************************************************************************)
(* Steps of the handlers.                                                  *)
(***************************************************************************)
Answer(r, status, owner) ==
  req' = [req EXCEPT ![r] = [pc |-> "reply", call |-> req[r].call,
                             status |-> status, owner |-> owner]]

\* The history variable: every allowlist row that existed at some moment of
\* a pending request.
Watch ==
  window' = [r \in Requests |->
               IF ~Pending(r)' THEN {}
               ELSE IF Pending(r) THEN window[r] \cup allowlist'
               ELSE allowlist']

\* The status a handler answers before it reaches its statement, 0 when the
\* call passes; the tests are in the order of the handlers.
Refusal(c) ==
  CASE c.kind = "create" ->
         IF c.uid = None \/ c.name = None THEN 400
         ELSE IF ~c.admin THEN 403
         ELSE IF ~c.username \/ c.cn # c.uid THEN 400
         ELSE 0
    [] c.kind = "auth" -> IF c.cn = None THEN 400 ELSE 0
    [] c.kind = "check" -> IF c.cn = None THEN 403 ELSE 0
    [] c.kind = "allow" ->
         IF ~c.admin THEN 403
         ELSE IF c.block = None THEN 400
         ELSE IF WithMask[c.block] \in Malformed THEN 400
         ELSE 0
    [] c.kind = "deny" ->
         IF ~c.admin THEN 403 ELSE IF c.block = None THEN 400 ELSE 0
    [] c.kind \in {"delete", "list"} -> IF ~c.admin THEN 403 ELSE 0

AtStatement(r, kinds) ==
  /\ req[r].pc = "handle"
  /\ req[r].call.kind \in kinds
  /\ Refusal(req[r].call) = 0

(***************************************************************************)
(* The statements of the store.  A definition marked "mutant" is a variant *)
(* of the one below it that a plausible bug would make of it; nothing uses *)
(* it but the mutation entries of PROJECT.json.                            *)
(***************************************************************************)
RowOf(c) == [org |-> c.org, uid |-> c.uid, name |-> c.name]

\* The unique constraints on uid and on (display_name, org_id); the index on
\* (org_id, uid) is implied by the first.
ConflictsOnUID(row) == {x \in rows : x.uid = row.uid}    \* mutant
ConflictsGlobally(row) ==                                \* mutant
  {x \in rows : x.uid = row.uid \/ x.name = row.name}
Conflicts(row) ==
  {x \in rows : x.uid = row.uid \/ (x.org = row.org /\ x.name = row.name)}

Selected(uid) == {x \in rows : x.uid = uid}

DoomedInAnyOrg(c) == {x \in rows : x.uid = c.uid}         \* mutant
Doomed(c) == {x \in rows : x.org = c.org /\ x.uid = c.uid}

\* The blocks the allowlist query returns for an organisation.
VisibleOfAll(org) == {b \in Blocks : \E o \in Orgs \cup {System} : <<b, o>> \in allowlist}  \* mutant
Visible(org) == {b \in Blocks : <<b, org>> \in allowlist \/ <<b, System>> \in allowlist}

NewEntry(c) == <<WithMask[c.block], c.org>>

DeniedInAnyOrg(c) == {e \in allowlist : e[1] = c.block}   \* mutant
Denied(c) == {e \in allowlist : e[1] = c.block /\ e[2] = c.org}

\* What a statement of a call does to the tables when it does something.
Execute(c) ==
  \/ /\ c.kind = "create" /\ Conflicts(RowOf(c)) = {}
     /\ rows' = rows \cup {RowOf(c)}
     /\ UNCHANGED allowlist
  \/ /\ c.kind = "delete" /\ Doomed(c) # {}
     /\ rows' = rows \ Doomed(c)
     /\ UNCHANGED allowlist
  \/ /\ c.kind = "allow" /\ NewEntry(c) \notin allowlist
     /\ allowlist' = allowlist \cup {NewEntry(c)}
     /\ UNCHANGED rows
  \/ /\ c.kind = "deny" /\ Denied(c) # {}
     /\ allowlist' = allowlist \ Denied(c)
     /\ UNCHANGED rows

\* The status of a call whose statement the handler sees fail: checkRegistration
\* takes every error for "not registered".
FailureStatus(c) == IF c.kind = "check" THEN 403 ELSE 500

\* postgresStore.Create returns the error of a broken connection, but falls
\* through a PgError other than 23505 to its success path.
RejectedStatus(c) == IF c.kind = "create" THEN 201 ELSE FailureStatus(c)

(***************************************************************************)
(* Init and the actions.                                                   *)
(***************************************************************************)
Init ==
  /\ rows = {}
  /\ allowlist = SystemBlocks \X {System}
  /\ req = [r \in Requests |-> Idle]
  /\ window = [r \in Requests |-> {}]

Receive(r) ==
  /\ req[r].pc = "idle"
  /\ \E c \in Calls :
       req' = [req EXCEPT ![r] =
                 [pc |-> IF c.kind = "create" /\ AllowlistEnabled
                         THEN "gate" ELSE "handle",
                  call |-> c, status |-> 0, owner |-> None]]
  /\ UNCHANGED <<rows, allowlist>>
  /\ Watch

\* What the query of AllowedIP may hand to its loop: an error while reading
\* the rows is never looked at, so the loop may see only some of the blocks.
Seen(org) ==
  {Visible(org)} \cup (IF "shortread" \in Faults THEN SUBSET Visible(org) ELSE {})

Admits(block, addr) == block \notin Malformed /\ addr \in Contains[block]

PassGate(r) ==
  /\ req[r].pc = "gate"
  /\ \E seen \in Seen(req[r].call.org) :
       \E b \in seen : Admits(b, req[r].call.addr)
  /\ req' = [req EXCEPT ![r] = [pc |-> "handle", call |-> req[r].call,
                                status |-> 0, owner |-> None]]
  /\ UNCHANGED <<rows, allowlist>>
  /\ Watch

\* The loop goes through the rows in the order the database returns them, which
\* is not specified: a malformed block ends it wherever it stands.
FailGate(r) ==
  /\ req[r].pc = "gate"
  /\ \/ \E seen \in Seen(req[r].call.org) :
          \/ (\A b \in seen : ~Admits(b, req[r].call.addr) /\ b \notin Malformed)
               /\ Answer(r, 403, None)
          \/ seen \cap Malformed # {} /\ Answer(r, 500, None)
     \/ Faults \cap {"rejected", "lost"} # {} /\ Answer(r, 500, None)
  /\ UNCHANGED <<rows, allowlist>>
  /\ Watch

\* The create handler reads its body once the gate is passed, before any other
\* test.  The allow handler decodes from the connection, so that a body cut
\* short is one that does not parse.
CutBody(r) ==
  /\ "cutbody" \in Faults
  /\ req[r].pc = "handle"
  /\ req[r].call.kind = "create"
  /\ Answer(r, 500, None)
  /\ UNCHANGED <<rows, allowlist>>
  /\ Watch

Refuse(r) ==
  /\ req[r].pc = "handle"
  /\ Refusal(req[r].call) # 0
  /\ Answer(r, Refusal(req[r].call), None)
  /\ UNCHANGED <<rows, allowlist>>
  /\ Watch

Create(r) ==
  /\ AtStatement(r, {"create"})
  /\ \/ Execute(req[r].call) /\ Answer(r, 201, None)
     \/ /\ Conflicts(RowOf(req[r].call)) # {}
        /\ Answer(r, 409, None)
        /\ UNCHANGED <<rows, allowlist>>
  /\ Watch

Delete(r) ==
  /\ AtStatement(r, {"delete"})
  /\ \/ Execute(req[r].call) /\ Answer(r, 204, None)
     \/ /\ Doomed(req[r].call) = {}
        /\ Answer(r, 404, None)
        /\ UNCHANGED <<rows, allowlist>>
  /\ Watch

FindByUID(r) ==
  /\ AtStatement(r, {"auth", "check"})
  /\ \/ \E x \in Selected(req[r].call.cn) : Answer(r, 200, x.org)
     \/ /\ Selected(req[r].call.cn) = {}
        /\ Answer(r, IF req[r].call.kind = "auth" THEN 401 ELSE 403, None)
  /\ UNCHANGED <<rows, allowlist>>
  /\ Watch

\* A block that is already there violates the primary key: 500.
AllowAddress(r) ==
  /\ AtStatement(r, {"allow"})
  /\ \/ Execute(req[r].call) /\ Answer(r, 201, None)
     \/ /\ NewEntry(req[r].call) \in allowlist
        /\ Answer(r, 500, None)
        /\ UNCHANGED <<rows, allowlist>>
  /\ Watch

DenyAddress(r) ==
  /\ AtStatement(r, {"deny"})
  /\ \/ Execute(req[r].call) /\ Answer(r, 204, None)
     \/ /\ Denied(req[r].call) = {}
        /\ Answer(r, 404, None)
        /\ UNCHANGED <<rows, allowlist>>
  /\ Watch

AllowedAddresses(r) ==
  /\ AtStatement(r, {"list"})
  /\ Answer(r, 200, None)
  /\ UNCHANGED <<rows, allowlist>>
  /\ Watch

AllKinds == {"create", "delete", "auth", "check", "allow", "deny", "list"}

StatementLost(r) ==
  /\ "lost" \in Faults
  /\ AtStatement(r, AllKinds)
  /\ Execute(req[r].call) \/ UNCHANGED <<rows, allowlist>>
  /\ Answer(r, FailureStatus(req[r].call), None)
  /\ Watch

StatementRejected(r) ==
  /\ "rejected" \in Faults
  /\ AtStatement(r, AllKinds)
  /\ UNCHANGED <<rows, allowlist>>
  /\ Answer(r, RejectedStatus(req[r].call), None)
  /\ Watch

RespondWithoutReset(r) ==                                \* mutant
  /\ req[r].pc = "reply"
  /\ req' = [req EXCEPT ![r].pc = "idle"]
  /\ UNCHANGED <<rows, allowlist>>
  /\ Watch

RespondOrRetry(r) ==                                     \* mutant
  /\ req[r].pc = "reply"
  /\ req' = [req EXCEPT ![r] =
               IF req[r].status # 500 THEN Idle
               ELSE [pc |-> "handle", call |-> req[r].call,
                     status |-> 0, owner |-> None]]
  /\ UNCHANGED <<rows, allowlist>>
  /\ Watch

Respond(r) ==
  /\ req[r].pc = "reply"
  /\ req' = [req EXCEPT ![r] = Idle]
  /\ UNCHANGED <<rows, allowlist>>
  /\ Watch

\* main returns at the signal without waiting for its handlers, so a stop
\* and a crash of a replica are alike: the requests it serves are gone.
Crash(gone) ==
  /\ "crash" \in Faults
  /\ \E r \in gone : req[r].pc # "idle"
  /\ req' = [r \in Requests |-> IF r \in gone THEN Idle ELSE req[r]]
  /\ UNCHANGED <<rows, allowlist>>
  /\ Watch

Serve(r) ==
  \/ PassGate(r) \/ FailGate(r) \/ CutBody(r) \/ Refuse(r)
  \/ Create(r) \/ Delete(r) \/ FindByUID(r)
  \/ AllowAddress(r) \/ DenyAddress(r) \/ AllowedAddresses(r)
  \/ StatementLost(r) \/ StatementRejected(r)
  \/ Respond(r)

Next ==
  \/ \E r \in Requests : Receive(r) \/ Serve(r)
  \/ \E gone \in SUBSET Requests : Crash(gone)

Spec == Init /\ [][Next]_vars

\* The goroutine of a request keeps running and the database answers each
\* statement or breaks the connection; nobody has to call.
FairSpec == Spec /\ \A r \in Requests : WF_vars(Serve(r))

(***************************************************************************)
(* Properties.                                                             *)
(***************************************************************************)
\* What the store promises, seen through the requests: a create that its own
\* handler refuses, and the calls on the allowlist, do not concern it.
AskOf(c) ==
  IF Refusal(c) # 0 \/ c.kind \in {"allow", "deny", "list"} THEN [kind |-> "other"]
  ELSE IF c.kind = "create" THEN [kind |-> "register", row |-> RowOf(c)]
  ELSE IF c.kind = "delete" THEN [kind |-> "unregister", org |-> c.org, uid |-> c.uid]
  ELSE IF c.kind = "auth" THEN [kind |-> "lookup", uid |-> c.cn]
  ELSE [kind |-> "check", uid |-> c.cn]

asks ==
  [r \in Requests |->
     IF req[r].pc = "idle" THEN [kind |-> "none"] ELSE AskOf(req[r].call)]

answers ==
  [r \in Requests |->
     IF req[r].pc # "reply" THEN [status |-> 0, owner |-> None]
     ELSE IF AskOf(req[r].call).kind = "other" THEN [status |-> 200, owner |-> None]
     ELSE [status |-> req[r].status, owner |-> req[r].owner]]

Registry == INSTANCE SatelliteRegistry WITH
  registry <- rows, ask <- asks, answer <- answers

\* Refinement: every interleaving of the handlers' statements, with lost
\* connections and crashed replicas, answers as if each registration, removal,
\* login and check had taken effect at one instant of the promised registry.
ImplementsRegistry == Registry!Spec

RequestsOK ==
  /\ req \in [Requests ->
               [pc : {"idle", "gate", "handle", "reply"},
                call : Calls \cup {None},
                status : Status \cup {0},
                owner : Orgs \cup {None}]]
  /\ \A r \in Requests :
       /\ req[r].call = None <=> req[r].pc = "idle"
       /\ req[r].pc = "gate" => req[r].call.kind = "create"
       /\ req[r].status = 0 <=> req[r].pc # "reply"

\* Type invariant of the tables, the requests and the history.
TypeOK ==
  /\ rows \subseteq Registration
  /\ allowlist \subseteq Entry
  /\ RequestsOK
  /\ window \in [Requests -> SUBSET Entry]

\* However creates race, a uid belongs to one registration and a display name
\* to one registration of its organisation: auth_v1_handler.go may take the
\* row of a uid for the only one.
UniqueRegistrations ==
  \A x, y \in rows :
    x.uid = y.uid \/ (x.org = y.org /\ x.name = y.name) => x = y

\* The request that takes a step from its statement to its answer.
Answers(r) == req[r].pc = "handle" /\ req'[r].pc = "reply"

\* No interleaving lets a tenant touch another tenant's data: a registration
\* or an allowlist row only comes or goes with a call of an admin of its own
\* organisation that names it, and the rows of System stay for good.
IsolatedStep ==
  /\ \A x \in (rows \ rows') \cup (rows' \ rows) :
       \E r \in Requests :
         /\ Answers(r)
         /\ req[r].call.kind \in {"create", "delete"}
         /\ req[r].call.admin
         /\ req[r].call.org = x.org /\ req[r].call.uid = x.uid
  /\ \A e \in (allowlist \ allowlist') \cup (allowlist' \ allowlist) :
       \E r \in Requests :
         /\ Answers(r)
         /\ req[r].call.kind \in {"allow", "deny"}
         /\ req[r].call.admin
         /\ req[r].call.org = e[2]

TenantIsolation == [][IsolatedStep]_vars

\* The address of a create was in a block of its organisation, or of System,
\* at some moment between the arrival of the request and its insert.
Vetted(r) ==
  \E e \in window[r] :
    /\ e[2] \in {req[r].call.org, System}
    /\ Admits(e[1], req[r].call.addr)

\* What makes the gate sound: the history of a pending request holds every row
\* the allowlist query can return, and a create past the gate is vetted, also
\* when the row that admitted it is gone by now.
GateInvariant ==
  \A r \in Requests :
    /\ Pending(r) => allowlist \subseteq window[r]
    /\ /\ AllowlistEnabled
       /\ req[r].pc = "handle" /\ req[r].call.kind = "create"
       => Vetted(r)

\* A registration appears only for an org admin whose gateway certificate
\* names the satellite, and with ALLOWLIST_ENABLED only from an address the
\* allowlist admitted while the request was pending, whatever the allowlist
\* handlers and the faults of the database do between query and insert.
VettedStep ==
  \A x \in rows' \ rows :
    \E r \in Requests :
      /\ Answers(r)
      /\ req[r].call.kind = "create" /\ RowOf(req[r].call) = x
      /\ req[r].call.admin /\ req[r].call.cn = x.uid
      /\ AllowlistEnabled => Vetted(r)

OnlyVettedRegistrations == [][VettedStep]_vars

\* Each request is answered, or goes with its replica: no handler waits for
\* another one.
EveryRequestAnswered ==
  \A r \in Requests : req[r].pc # "idle" ~> req[r].pc = "idle"

\* "Successfully registered" (registration_handler.go:153): a create that is
\* answered 201 leaves its row in the table.
CreatedIsRegistered ==
  [][\A r \in Requests :
       Answers(r) /\ req[r].call.kind = "create" /\ req'[r].status = 201
         => RowOf(req[r].call) \in rows']_vars

\* "ip not allowlisted" (allowlist_handler.go:79): a block whose removal is
\* answered 404 is not on the list of the organisation in the form in which
\* the create handler stores it.
NotAllowlistedIsTrue ==
  [][\A r \in Requests :
       Answers(r) /\ req[r].call.kind = "deny" /\ req'[r].status = 404
         => NewEntry(req[r].call) \notin allowlist']_vars
=============================================================================
