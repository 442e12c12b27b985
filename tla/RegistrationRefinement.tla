----------------------- MODULE RegistrationRefinement -----------------------
(***************************************************************************)
(* RegistrationService implements SatelliteRegistry, for all constants,    *)
(* as long as PostgreSQL rejects no statement: each step of a handler is a *)
(* step of the registry or leaves it alone.                                *)
(***************************************************************************)
EXTENDS RegistrationServiceProofs

\* A function that differs from another in one place.
LEMMA DiffersAt ==
  ASSUME NEW S, NEW f, NEW g, NEW x \in S, NEW v,
         f = [y \in S |-> f[y]], g = [y \in S |-> g[y]],
         g[x] = v, \A y \in S \ {x} : g[y] = f[y]
  PROVE  g = [f EXCEPT ![x] = v]
<1>1. \A y \in S : g[y] = [f EXCEPT ![x] = v][y]
  OBVIOUS
<1> QED BY <1>1

USE NoneAssumption, CallsAssumption DEF asks, answers

\* What a request that reaches its statement asks.
LEMMA AskOfAccepted ==
  ASSUME NEW c \in Call, Refusal(c) = 0
  PROVE  /\ c.kind = "create" =>
              /\ AskOf(c).kind = "register"
              /\ AskOf(c).row = RowOf(c)
         /\ c.kind = "delete" =>
              /\ AskOf(c).kind = "unregister"
              /\ AskOf(c).org = c.org /\ AskOf(c).uid = c.uid
         /\ c.kind = "auth" => AskOf(c).kind = "lookup" /\ AskOf(c).uid = c.cn
         /\ c.kind = "check" => AskOf(c).kind = "check" /\ AskOf(c).uid = c.cn
         /\ c.kind \in {"allow", "deny", "list"} => AskOf(c).kind = "other"
BY DEF AskOf

\* Every call asks something of the registry.
LEMMA AskOfCall ==
  ASSUME NEW c \in Call
  PROVE  AskOf(c) \in Registry!Ask
<1>1. CASE Refusal(c) # 0 \/ c.kind \in {"allow", "deny", "list"}
  BY <1>1 DEF AskOf, Registry!Ask
<1>2. CASE Refusal(c) = 0 /\ c.kind = "create"
  BY <1>2, AcceptedCreate DEF AskOf, Registry!Ask, Registry!Registration, Registration
<1>3. CASE Refusal(c) = 0 /\ c.kind = "delete"
  BY <1>3 DEF AskOf, Registry!Ask, Call
<1>4. CASE Refusal(c) = 0 /\ c.kind \in {"auth", "check"}
  <2>1. c.cn \in UIDs
    BY <1>4 DEF Call, Refusal
  <2> QED BY <1>4, <2>1 DEF AskOf, Registry!Ask
<1> QED BY <1>1, <1>2, <1>3, <1>4 DEF Call

\* A step that answers a request answers what it asked.
LEMMA AnswerIsReply ==
  ASSUME TypeOK, NEW r \in Requests, Pending(r),
         NEW status \in Status, NEW owner, Answer(r, status, owner)
  PROVE  /\ Registry!Asked(r, AskOf(req[r].call).kind)
         /\ AskOf(req[r].call).kind = "other" =>
              /\ answers' = [answers EXCEPT ![r] = Registry!Done]
              /\ asks' = asks
         /\ AskOf(req[r].call).kind # "other" => Registry!Reply(r, status, owner)
<1> USE DEF TypeOK, RequestsOK, Pending, Answer
<1>1. asks' = asks
  OBVIOUS
<1>2. asks[r] = AskOf(req[r].call) /\ answers[r] = Registry!Unanswered
  BY DEF Registry!Unanswered, Registry!Answer
<1>3. answers' = [answers EXCEPT ![r] =
                     IF AskOf(req[r].call).kind = "other" THEN Registry!Done
                     ELSE Registry!Answer(status, owner)]
  <2>1. /\ req'[r].pc = "reply" /\ req'[r].call = req[r].call
        /\ req'[r].status = status /\ req'[r].owner = owner
        /\ \A s \in Requests \ {r} : req'[s] = req[s]
    OBVIOUS
  <2> DEFINE v == IF AskOf(req[r].call).kind = "other" THEN Registry!Done
                  ELSE Registry!Answer(status, owner)
  <2>2. answers'[r] = v
    BY <2>1, Zenon DEF Registry!Done, Registry!Answer
  <2>3. \A s \in Requests \ {r} : answers'[s] = answers[s]
    BY <2>1, Zenon
  <2>4. /\ answers = [s \in Requests |-> answers[s]]
        /\ answers' = [s \in Requests |-> answers'[s]]
    OBVIOUS
  <2>5. answers' = [answers EXCEPT ![r] = v]
    <3> HIDE DEF answers, asks, v, TypeOK, RequestsOK, Pending, Answer
    <3> QED BY <2>2, <2>3, <2>4, DiffersAt, Zenon
  <2> QED BY <2>5
<1> HIDE DEF asks, answers
<1> QED BY <1>1, <1>2, <1>3 DEF Registry!Asked, Registry!Reply

LEMMA AtStatementAsks ==
  ASSUME TypeOK, NEW r \in Requests, NEW kinds, AtStatement(r, kinds)
  PROVE  /\ Pending(r)
         /\ asks[r] = AskOf(req[r].call)
         /\ req[r].call \in Call /\ Refusal(req[r].call) = 0
BY DEF AtStatement, TypeOK, RequestsOK, Pending

\* A conflict of the table is a name or uid that is taken.
LEMMA ConflictIsTaken ==
  ASSUME NEW row
  PROVE  Registry!Taken(row) <=> Conflicts(row) # {}
BY DEF Registry!Taken, Conflicts

\* What a statement on the registrations does is the effect of its request;
\* a removal hits one row because uids are unique.
LEMMA ExecuteIsEffect ==
  ASSUME TypeOK, UniqueRegistrations, NEW r \in Requests,
         AtStatement(r, {"create", "delete"}), Execute(req[r].call)
  PROVE  Registry!Effect(r)
<1> DEFINE c == req[r].call
<1>1. asks[r] = AskOf(c) /\ c \in Call /\ Refusal(c) = 0
  BY AtStatementAsks
<1> HIDE DEF asks
<1>2. CASE c.kind = "create"
  <2>1. Conflicts(RowOf(c)) = {} /\ rows' = rows \cup {RowOf(c)}
    BY <1>2 DEF Execute
  <2> QED BY <1>1, <1>2, <2>1, AskOfAccepted, ConflictIsTaken DEF Registry!Effect
<1>3. CASE c.kind = "delete"
  <2>1. PICK x \in rows : x.org = c.org /\ x.uid = c.uid
    BY <1>3 DEF Execute, Doomed
  <2>2. Doomed(c) = {x}
    BY <2>1 DEF Doomed, UniqueRegistrations
  <2>3. rows' = rows \ {x}
    BY <1>3, <2>2 DEF Execute
  <2> QED BY <1>1, <1>3, <2>1, <2>3, AskOfAccepted DEF Registry!Effect
<1> QED BY <1>2, <1>3 DEF AtStatement

(***************************************************************************)
(* The steps.                                                              *)
(***************************************************************************)
LEMMA ReceiveRefines ==
  ASSUME TypeOK, NEW r \in Requests, Receive(r)
  PROVE  Registry!Invoke(r)
<1>1. PICK c \in Calls : req' = [req EXCEPT ![r] =
                 [pc |-> IF c.kind = "create" /\ AllowlistEnabled
                         THEN "gate" ELSE "handle",
                  call |-> c, status |-> 0, owner |-> None]]
  BY DEF Receive
<1>2. asks[r] = Registry!Nothing
  BY DEF Receive, Registry!Nothing
<1>3. asks' = [asks EXCEPT ![r] = AskOf(c)]
  BY <1>1 DEF TypeOK, RequestsOK
<1>4. answers' = answers
  BY <1>1 DEF TypeOK, RequestsOK, Receive
<1>5. AskOf(c) \in Registry!Ask /\ rows' = rows
  BY AskOfCall DEF Receive
<1> HIDE DEF asks, answers
<1> QED BY <1>2, <1>3, <1>4, <1>5 DEF Registry!Invoke

\* A step of a request that changes no table and is answered like "other".
LEMMA OtherIsIgnored ==
  ASSUME TypeOK, NEW r \in Requests, Pending(r), rows' = rows,
         NEW status \in Status, NEW owner, Answer(r, status, owner),
         AskOf(req[r].call).kind = "other"
  PROVE  Registry!Ignore(r)
<1> HIDE DEF asks, answers
<1> QED BY AnswerIsReply DEF Registry!Ignore

LEMMA FailGateRefines ==
  ASSUME TypeOK, NEW r \in Requests, FailGate(r)
  PROVE  Registry!Ignore(r) \/ Registry!TurnAway(r) \/ Registry!Fail(r)
<1> DEFINE c == req[r].call
<1> HIDE DEF asks, answers
<1>1. PICK status \in {403, 500} : Answer(r, status, None)
  BY DEF FailGate
<1>2. status \in Status /\ Pending(r) /\ rows' = rows
  BY <1>1 DEF FailGate, Status, Pending
<1>3. c \in Call /\ c.kind = "create"
  BY DEF FailGate, TypeOK, RequestsOK
<1>4. CASE Refusal(c) # 0
  <2>1. AskOf(c).kind = "other"
    BY <1>4 DEF AskOf
  <2> QED BY <1>1, <1>2, <2>1, OtherIsIgnored
<1>5. CASE Refusal(c) = 0
  <2>1. AskOf(c).kind = "register"
    BY <1>3, <1>5, AskOfAccepted
  <2>2. Registry!Asked(r, "register") /\ Registry!Reply(r, status, None)
    BY <1>1, <1>2, <2>1, AnswerIsReply
  <2> QED BY <1>1, <1>2, <2>2 DEF Registry!TurnAway, Registry!Fail
<1> QED BY <1>4, <1>5

\* A registration whose body breaks off has failed, without an effect.
LEMMA CutBodyRefines ==
  ASSUME TypeOK, NEW r \in Requests, CutBody(r)
  PROVE  Registry!Ignore(r) \/ Registry!Fail(r)
<1> DEFINE c == req[r].call
<1> HIDE DEF asks, answers
<1>1. 500 \in Status /\ Pending(r) /\ rows' = rows /\ Answer(r, 500, None)
  BY DEF CutBody, Status, Pending
<1>2. c \in Call /\ c.kind = "create"
  BY DEF CutBody, TypeOK, RequestsOK
<1>3. CASE Refusal(c) # 0
  <2>1. AskOf(c).kind = "other"
    BY <1>3 DEF AskOf
  <2> QED BY <1>1, <2>1, OtherIsIgnored
<1>4. CASE Refusal(c) = 0
  <2>1. AskOf(c).kind = "register"
    BY <1>2, <1>4, AskOfAccepted
  <2>2. Registry!Asked(r, "register") /\ Registry!Reply(r, 500, None)
    BY <1>1, <2>1, AnswerIsReply
  <2> QED BY <1>1, <2>2 DEF Registry!Fail
<1> QED BY <1>3, <1>4

LEMMA RefuseRefines ==
  ASSUME TypeOK, NEW r \in Requests, Refuse(r)
  PROVE  Registry!Ignore(r)
<1> DEFINE c == req[r].call
<1>1. Refusal(c) \in Status /\ Pending(r) /\ rows' = rows
  <2>1. c \in Call /\ Refusal(c) # 0
    BY DEF Refuse, TypeOK, RequestsOK
  <2> QED BY <2>1, RefusalStatus DEF Refuse, Status, Pending
<1>2. AskOf(c).kind = "other"
  BY DEF Refuse, AskOf
<1> QED BY <1>1, <1>2, OtherIsIgnored DEF Refuse

LEMMA CreateRefines ==
  ASSUME TypeOK, UniqueRegistrations, NEW r \in Requests, Create(r)
  PROVE  Registry!Register(r)
<1> DEFINE c == req[r].call
<1>1. Pending(r) /\ asks[r] = AskOf(c) /\ c \in Call /\ Refusal(c) = 0
  BY AtStatementAsks DEF Create
<1> HIDE DEF asks, answers
<1>2. AskOf(c).kind = "register" /\ AskOf(c).row = RowOf(c)
  BY <1>1, AskOfAccepted DEF Create, AtStatement
<1>3. CASE Execute(c) /\ Answer(r, 201, None)
  <2>1. Registry!Effect(r)
    BY <1>3, ExecuteIsEffect DEF Create, AtStatement
  <2>2. Registry!Asked(r, "register") /\ Registry!Reply(r, 201, None)
    BY <1>1, <1>2, <1>3, AnswerIsReply DEF Status
  <2> QED BY <2>1, <2>2 DEF Registry!Register
<1>4. CASE Conflicts(RowOf(c)) # {} /\ Answer(r, 409, None) /\ rows' = rows
  <2>1. Registry!Taken(asks[r].row)
    BY <1>1, <1>2, <1>4, ConflictIsTaken
  <2>2. Registry!Asked(r, "register") /\ Registry!Reply(r, 409, None)
    BY <1>1, <1>2, <1>4, AnswerIsReply DEF Status
  <2> QED BY <1>4, <2>1, <2>2 DEF Registry!Register
<1> QED BY <1>3, <1>4 DEF Create

LEMMA DeleteRefines ==
  ASSUME TypeOK, UniqueRegistrations, NEW r \in Requests, Delete(r)
  PROVE  Registry!Unregister(r)
<1> DEFINE c == req[r].call
<1>1. Pending(r) /\ asks[r] = AskOf(c) /\ c \in Call /\ Refusal(c) = 0
  BY AtStatementAsks DEF Delete
<1> HIDE DEF asks, answers
<1>2. AskOf(c).kind = "unregister" /\ AskOf(c).org = c.org /\ AskOf(c).uid = c.uid
  BY <1>1, AskOfAccepted DEF Delete, AtStatement
<1>3. CASE Execute(c) /\ Answer(r, 204, None)
  <2>1. Registry!Effect(r)
    BY <1>3, ExecuteIsEffect DEF Delete, AtStatement
  <2>2. Registry!Asked(r, "unregister") /\ Registry!Reply(r, 204, None)
    BY <1>1, <1>2, <1>3, AnswerIsReply DEF Status
  <2> QED BY <2>1, <2>2 DEF Registry!Unregister
<1>4. CASE Doomed(c) = {} /\ Answer(r, 404, None) /\ rows' = rows
  <2>1. ~\E x \in rows : x.org = asks[r].org /\ x.uid = asks[r].uid
    BY <1>1, <1>2, <1>4 DEF Doomed
  <2>2. Registry!Asked(r, "unregister") /\ Registry!Reply(r, 404, None)
    BY <1>1, <1>2, <1>4, AnswerIsReply DEF Status
  <2> QED BY <1>4, <2>1, <2>2 DEF Registry!Unregister
<1> QED BY <1>3, <1>4 DEF Delete

LEMMA FindByUIDRefines ==
  ASSUME TypeOK, NEW r \in Requests, FindByUID(r)
  PROVE  Registry!Lookup(r) \/ Registry!Check(r)
<1> DEFINE c == req[r].call
<1>1. Pending(r) /\ asks[r] = AskOf(c) /\ c \in Call /\ Refusal(c) = 0
  BY AtStatementAsks DEF FindByUID
<1> HIDE DEF asks, answers
<1>2. /\ AskOf(c).kind = (IF c.kind = "auth" THEN "lookup" ELSE "check")
      /\ AskOf(c).uid = c.cn
  BY <1>1, AskOfAccepted DEF FindByUID, AtStatement
<1>3. rows' = rows /\ c.kind \in {"auth", "check"}
  BY DEF FindByUID, AtStatement
<1>4. ASSUME NEW x \in Selected(c.cn), Answer(r, 200, x.org)
      PROVE  Registry!Lookup(r) \/ Registry!Check(r)
  <2>1. x \in rows /\ x.uid = asks[r].uid
    BY <1>1, <1>2, <1>4 DEF Selected
  <2>2. Registry!Reply(r, 200, x.org) /\ Registry!Asked(r, AskOf(c).kind)
    BY <1>1, <1>2, <1>4, AnswerIsReply DEF Status
  <2> QED BY <1>2, <1>3, <2>1, <2>2 DEF Registry!Lookup, Registry!Check
<1>5. ASSUME Selected(c.cn) = {},
             Answer(r, IF c.kind = "auth" THEN 401 ELSE 403, None)
      PROVE  Registry!Lookup(r) \/ Registry!Check(r)
  <2>1. \A x \in rows : x.uid # asks[r].uid
    BY <1>1, <1>2, <1>5 DEF Selected
  <2>2. /\ Registry!Reply(r, IF c.kind = "auth" THEN 401 ELSE 403, None)
        /\ Registry!Asked(r, AskOf(c).kind)
    BY <1>1, <1>2, <1>5, AnswerIsReply DEF Status
  <2> QED BY <1>2, <1>3, <2>1, <2>2 DEF Registry!Lookup, Registry!Check
<1> QED BY <1>4, <1>5 DEF FindByUID

LEMMA AllowlistRefines ==
  ASSUME TypeOK, NEW r \in Requests,
         AllowAddress(r) \/ DenyAddress(r) \/ AllowedAddresses(r)
  PROVE  Registry!Ignore(r)
<1> DEFINE c == req[r].call
<1>1. AtStatement(r, {"allow", "deny", "list"})
  BY DEF AllowAddress, DenyAddress, AllowedAddresses, AtStatement
<1>2. Pending(r) /\ AskOf(c).kind = "other"
  BY <1>1, AtStatementAsks, AskOfAccepted DEF AtStatement
<1>3. rows' = rows
  BY <1>1 DEF AllowAddress, DenyAddress, AllowedAddresses, Execute, AtStatement
<1>4. \E status \in Status : Answer(r, status, None)
  BY DEF AllowAddress, DenyAddress, AllowedAddresses, Status
<1> QED BY <1>2, <1>3, <1>4, OtherIsIgnored

LEMMA StatementLostRefines ==
  ASSUME TypeOK, UniqueRegistrations, NEW r \in Requests, StatementLost(r)
  PROVE  Registry!Fail(r) \/ Registry!Check(r) \/ Registry!Ignore(r)
<1> DEFINE c == req[r].call
<1>1. Pending(r) /\ asks[r] = AskOf(c) /\ c \in Call /\ Refusal(c) = 0
  BY AtStatementAsks DEF StatementLost
<1> HIDE DEF asks, answers
<1>2. c.kind \in AllKinds /\ (Execute(c) \/ rows' = rows)
  BY DEF StatementLost, AtStatement
<1>3. CASE c.kind \in {"create", "delete", "auth"}
  <2>1. /\ Registry!Asked(r, AskOf(c).kind)
        /\ Registry!Reply(r, 500, None)
        /\ AskOf(c).kind \in {"register", "unregister", "lookup"}
    BY <1>1, <1>3, AnswerIsReply, AskOfAccepted
    DEF StatementLost, FailureStatus, Status
  <2>2. rows' = rows \/ Registry!Effect(r)
    <3>1. CASE c.kind \in {"create", "delete"}
      BY <1>2, <3>1, ExecuteIsEffect DEF StatementLost, AtStatement
    <3>2. CASE c.kind = "auth"
      BY <1>2, <3>2 DEF Execute
    <3> QED BY <1>3, <3>1, <3>2
  <2> QED BY <2>1, <2>2 DEF Registry!Fail
<1>4. CASE c.kind = "check"
  <2>1. Registry!Asked(r, "check") /\ Registry!Reply(r, 403, None)
    BY <1>1, <1>4, AnswerIsReply, AskOfAccepted
    DEF StatementLost, FailureStatus, Status
  <2>2. rows' = rows
    BY <1>2, <1>4 DEF Execute
  <2> QED BY <2>1, <2>2 DEF Registry!Check
<1>5. CASE c.kind \in {"allow", "deny", "list"}
  <2>1. rows' = rows
    BY <1>2, <1>5 DEF Execute
  <2>2. AskOf(c).kind = "other" /\ Answer(r, 500, None)
    BY <1>1, <1>5, AskOfAccepted DEF StatementLost, FailureStatus
  <2> QED BY <1>1, <2>1, <2>2, OtherIsIgnored DEF Status
<1> QED BY <1>2, <1>3, <1>4, <1>5 DEF AllKinds

LEMMA PassGateRefines ==
  ASSUME TypeOK, NEW r \in Requests, PassGate(r)
  PROVE  UNCHANGED Registry!vars
<1>1. asks' = asks /\ answers' = answers
  BY DEF PassGate, TypeOK, RequestsOK
<1> HIDE DEF asks, answers
<1> QED BY <1>1 DEF PassGate, Registry!vars

LEMMA RespondRefines ==
  ASSUME TypeOK, NEW r \in Requests, Respond(r)
  PROVE  Registry!Return(r)
<1>1. asks' = [asks EXCEPT ![r] = Registry!Nothing]
  BY DEF Respond, Idle, TypeOK, RequestsOK, Registry!Nothing
<1>2. answers' = [answers EXCEPT ![r] = Registry!Unanswered]
  BY DEF Respond, Idle, TypeOK, RequestsOK, Registry!Unanswered, Registry!Answer
<1>3. answers[r] # Registry!Unanswered
  BY DEF Respond, TypeOK, RequestsOK, Registry!Unanswered, Registry!Answer
<1> HIDE DEF asks, answers
<1> QED BY <1>1, <1>2, <1>3 DEF Respond, Registry!Return

LEMMA CrashRefines ==
  ASSUME TypeOK, NEW gone \in SUBSET Requests, Crash(gone)
  PROVE  Registry!Abandon(gone)
<1>1. asks' = [r \in Requests |-> IF r \in gone THEN Registry!Nothing ELSE asks[r]]
  BY DEF Crash, Idle, TypeOK, RequestsOK, Registry!Nothing
<1>2. answers' = [r \in Requests |->
                    IF r \in gone THEN Registry!Unanswered ELSE answers[r]]
  BY DEF Crash, Idle, TypeOK, RequestsOK, Registry!Unanswered, Registry!Answer
<1> HIDE DEF asks, answers
<1> QED BY <1>1, <1>2 DEF Crash, Registry!Abandon

(***************************************************************************)
(* The theorem.                                                            *)
(***************************************************************************)

\* Every handler of registration_handler.go, auth_v1_handler.go and
\* checkRegistration answers as the registry promises, and those of
\* allowlist_handler.go leave it alone, whatever interleaves with them.
THEOREM Refinement ==
  ASSUME "rejected" \notin Faults
  PROVE  Spec => ImplementsRegistry
<1>1. Init => Registry!Init
  BY DEF Init, Idle, Registry!Init, Registry!Nothing, Registry!Unanswered,
         Registry!Answer
<1>2. TypeOK /\ UniqueRegistrations /\ [Next]_vars => [Registry!Next]_(Registry!vars)
  <2> SUFFICES ASSUME TypeOK, UniqueRegistrations, [Next]_vars
               PROVE  Registry!Next \/ UNCHANGED Registry!vars
    OBVIOUS
  <2>1. CASE UNCHANGED vars
    BY <2>1 DEF vars, Registry!vars
  <2>2. ASSUME NEW r \in Requests, Receive(r)
        PROVE  Registry!Next
    BY <2>2, ReceiveRefines DEF Registry!Next
  <2>3. ASSUME NEW r \in Requests, Serve(r)
        PROVE  Registry!Next \/ UNCHANGED Registry!vars
    <3> HIDE DEF asks, answers
    <3>1. CASE PassGate(r)
      BY <3>1, PassGateRefines
    <3>2. CASE FailGate(r)
      BY <3>2, FailGateRefines DEF Registry!Next
    <3>11. CASE CutBody(r)
      BY <3>11, CutBodyRefines DEF Registry!Next
    <3>3. CASE Refuse(r)
      BY <3>3, RefuseRefines DEF Registry!Next
    <3>4. CASE Create(r)
      BY <3>4, CreateRefines DEF Registry!Next
    <3>5. CASE Delete(r)
      BY <3>5, DeleteRefines DEF Registry!Next
    <3>6. CASE FindByUID(r)
      BY <3>6, FindByUIDRefines DEF Registry!Next
    <3>7. CASE AllowAddress(r) \/ DenyAddress(r) \/ AllowedAddresses(r)
      BY <3>7, AllowlistRefines DEF Registry!Next
    <3>8. CASE StatementLost(r)
      BY <3>8, StatementLostRefines DEF Registry!Next
    <3>9. CASE StatementRejected(r)
      BY <3>9 DEF StatementRejected
    <3>10. CASE Respond(r)
      BY <3>10, RespondRefines DEF Registry!Next
    <3> QED BY <2>3, <3>1, <3>2, <3>3, <3>4, <3>5, <3>6, <3>7, <3>8, <3>9, <3>10,
               <3>11 DEF Serve
  <2>4. ASSUME NEW gone \in SUBSET Requests, Crash(gone)
        PROVE  Registry!Next
    BY <2>4, CrashRefines DEF Registry!Next
  <2> QED BY <2>1, <2>2, <2>3, <2>4 DEF Next
<1> QED
  BY <1>1, <1>2, TypeInvariant, RegistrationsAreUnique, PTL
  DEF Spec, ImplementsRegistry, Registry!Spec
=============================================================================
