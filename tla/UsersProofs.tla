---------------------------- MODULE UsersProofs ----------------------------
(***************************************************************************)
(* Theorems about the user queries: over a user module, for any requests   *)
(* at once, accounts, inputs and modules; and over the catch-all server,   *)
(* for any realm, requests, limits and listings (the second half).         *)
(***************************************************************************)
EXTENDS UsersService, FiniteSetTheorems, SequenceTheorems, WellFoundedInduction, TLAPS

(***************************************************************************)
(* The inductive invariant, request by request.                            *)
(***************************************************************************)
AtWork == {"connect", "order", "store", "storeText", "storeLength", "reload", "accounts",
           "roles", "token", "service"}
Places == {"idle", "reply", "dropped"} \cup AtWork
Statuses == {Null, 200, 400, 500}

Queries == UNION {Inputs[m] : m \in Modules}
People == Accounts \cup UNION {Made(i) : i \in Queries}
Words == Seq({i.sort : i \in Queries} \cup {Torn})

Req == [pc : Places, in : {Null} \cup Queries, status : Statuses,
        users : SUBSET People, flagged : SUBSET People,
        words : Words, held : SUBSET Accounts, kept : SUBSET Accounts]

\* What the answer to a query may hold.
InScope(i, S) ==
  /\ i.call # "v1" /\ (i.plain \/ usersModule # "ams") => \A a \in S : a[1] = i.org
  /\ /\ i.call = "v1" /\ Names(i) \notin {Null, <<>>}
     /\ i.plain \/ usersModule = "mock"
     => S \subseteq ToSet(i.names)

\* A request that has begun keeps to its input; nothing is found but in scope,
\* and the status is 400 from the beginning or never.
Proper(q) ==
  q.pc # "idle" =>
    /\ q.in \in Inputs[usersModule]
    /\ q.flagged \subseteq q.users /\ InScope(q.in, q.users)
    /\ q.pc \in AtWork => /\ q.flagged = {} /\ q.status \in {Null, 400}
                          /\ ~Refused(q.in) /\ q.users \subseteq Accounts
    /\ (Refused(q.in) \/ ~q.in.parses) <=> q.status = 400

\* held and kept enclose the bindings while a request is at work, and its flags
\* afterwards.
Fresh(q) ==
  /\ q.pc \in AtWork => bindings \subseteq q.held /\ q.kept \subseteq bindings
  /\ q.pc = "reply" /\ q.status = 200 /\ usersModule \in {"ams", "keycloak"} =>
       /\ q.flagged \subseteq q.held
       /\ \/ usersModule = "ams" /\ Cardinality(q.users) > PageSize
          \/ q.kept \cap q.users \subseteq q.flagged

Good(q) == q \in Req /\ Proper(q) /\ Fresh(q)

Orders == [text : Words, length : Words]

LookupInv ==
  /\ usersModule \in Modules
  /\ bindings \in SUBSET Accounts
  /\ order \in Orders
  /\ req \in [Requests -> Req]
  /\ \A r \in Requests : Good(req[r])

(***************************************************************************)
(* Changes of a request's record.                                          *)
(***************************************************************************)
LEMMA Moved ==
  ASSUME NEW q \in Req, NEW pc \in Places
  PROVE  LET n == [q EXCEPT !.pc = pc]
         IN  /\ n \in Req /\ n.pc = pc
             /\ n.in = q.in /\ n.status = q.status /\ n.users = q.users
             /\ n.flagged = q.flagged /\ n.held = q.held /\ n.kept = q.kept
BY DEF Req

GoneOn(q, pc, words) == [q EXCEPT !.pc = pc, !.words = words]
HasFound(q, pc, words, users) == [q EXCEPT !.pc = pc, !.words = words, !.users = users]

LEMMA GoneOnRecord ==
  ASSUME NEW q \in Req, NEW pc \in Places, NEW words \in Words
  PROVE  LET n == GoneOn(q, pc, words)
         IN  /\ n \in Req /\ n.pc = pc
             /\ n.in = q.in /\ n.status = q.status /\ n.users = q.users
             /\ n.flagged = q.flagged /\ n.held = q.held /\ n.kept = q.kept
BY DEF Req, GoneOn

LEMMA HasFoundRecord ==
  ASSUME NEW q \in Req, NEW pc \in Places, NEW words \in Words, NEW users \in SUBSET People
  PROVE  LET n == HasFound(q, pc, words, users)
         IN  /\ n \in Req /\ n.pc = pc
             /\ n.in = q.in /\ n.status = q.status /\ n.users = users
             /\ n.flagged = q.flagged /\ n.held = q.held /\ n.kept = q.kept
BY DEF Req, HasFound

Begun(q, i, bound, status, pc) ==
  [q EXCEPT !.in = i, !.held = bound, !.kept = bound, !.status = status, !.pc = pc]
Failed(q, status) ==
  [q EXCEPT !.status = status, !.pc = "reply", !.words = <<>>,
            !.users = {}, !.held = {}, !.kept = {}]
Ended(q, status, users, flagged) ==
  [q EXCEPT !.status = status, !.pc = "reply", !.users = users, !.flagged = flagged]

LEMMA BegunRecord ==
  ASSUME NEW q \in Req, NEW i \in Queries, NEW bound \in SUBSET Accounts,
         NEW status \in Statuses, NEW pc \in Places
  PROVE  LET n == Begun(q, i, bound, status, pc)
         IN  /\ n \in Req /\ n.pc = pc
             /\ n.in = i /\ n.status = status /\ n.users = q.users
             /\ n.flagged = q.flagged /\ n.held = bound /\ n.kept = bound
<1> DEFINE n == Begun(q, i, bound, status, pc)
<1>1. n \in Req
  BY DEF Req, Begun
<1>2. /\ n.pc = pc /\ n.in = i /\ n.status = status /\ n.users = q.users
      /\ n.flagged = q.flagged /\ n.held = bound /\ n.kept = bound
  BY DEF Req, Begun
<1>3. QED
  BY <1>1, <1>2

LEMMA FailedRecord ==
  ASSUME NEW q \in Req, NEW status \in Statuses
  PROVE  LET n == Failed(q, status)
         IN  /\ n \in Req /\ n.pc = "reply"
             /\ n.in = q.in /\ n.status = status /\ n.users = {}
             /\ n.flagged = q.flagged
<1> DEFINE n == Failed(q, status)
<1>1. ASSUME NEW pc \in Places, NEW words \in Words, NEW users \in SUBSET People,
             NEW held \in SUBSET Accounts
      PROVE  [q EXCEPT !.status = status, !.pc = pc, !.words = words,
                       !.users = users, !.held = held, !.kept = held] \in Req
  BY DEF Req
<1>2. "reply" \in Places /\ <<>> \in Words
  BY EmptySeq DEF Places, Words
<1>3. {} \in SUBSET People /\ {} \in SUBSET Accounts
  OBVIOUS
<1>4. n \in Req
  BY <1>1, <1>2, <1>3 DEF Failed
<1>5. /\ n.pc = "reply" /\ n.in = q.in /\ n.status = status /\ n.users = {}
      /\ n.flagged = q.flagged
  BY DEF Req, Failed
<1>6. QED
  BY <1>4, <1>5

LEMMA EndedRecord ==
  ASSUME NEW q \in Req, NEW status \in Statuses,
         NEW users \in SUBSET People, NEW flagged \in SUBSET People
  PROVE  LET n == Ended(q, status, users, flagged)
         IN  /\ n \in Req /\ n.pc = "reply"
             /\ n.in = q.in /\ n.status = status /\ n.users = users
             /\ n.flagged = flagged /\ n.held = q.held /\ n.kept = q.kept
<1> DEFINE n == Ended(q, status, users, flagged)
<1>1. ASSUME NEW pc \in Places
      PROVE  [q EXCEPT !.status = status, !.pc = pc, !.users = users, !.flagged = flagged] \in Req
  BY DEF Req
<1>2. "reply" \in Places
  BY DEF Places
<1>3. n \in Req
  BY <1>1, <1>2 DEF Ended
<1>4. /\ n.pc = "reply" /\ n.in = q.in /\ n.status = status /\ n.users = users
      /\ n.flagged = flagged /\ n.held = q.held /\ n.kept = q.kept
  BY DEF Req, Ended
<1>5. QED
  BY <1>3, <1>4

(***************************************************************************)
(* What a query finds.                                                     *)
(***************************************************************************)
LEMMA PlainInScope ==
  ASSUME NEW i, NEW S \in SUBSET Matching(i)
  PROVE  InScope(i, S)
<1>1. CASE i.call = "v1"
  BY <1>1 DEF InScope, Matching, ByUsernames, Names
<1>2. CASE i.call # "v1"
  BY <1>2 DEF InScope, Matching, ByOrg
<1>3. QED
  BY <1>1, <1>2

LEMMA MatchesInScope ==
  ASSUME usersModule = "ams", NEW i, NEW M \in Matches(i), NEW S \in SUBSET M
  PROVE  InScope(i, S)
<1>1. CASE i.plain
  BY <1>1, PlainInScope DEF Matches
<1>2. CASE ~i.plain
  BY <1>2 DEF InScope
<1>3. QED
  BY <1>1, <1>2

LEMMA AnswerableInScope ==
  ASSUME usersModule = "keycloak", NEW i, NEW S \in SUBSET Answerable(i)
  PROVE  InScope(i, S)
<1>1. CASE i.plain
  BY <1>1, PlainInScope DEF Answerable
<1>2. CASE ~i.plain
  BY <1>2 DEF InScope, Answerable
<1>3. QED
  BY <1>1, <1>2

LEMMA MadeInScope ==
  ASSUME NEW i
  PROVE  InScope(i, Made(i))
<1>1. CASE i.call = "v1"
  BY <1>1 DEF InScope, Made, Names
<1>2. CASE i.call # "v1"
  BY <1>2 DEF InScope, Made
<1>3. QED
  BY <1>1, <1>2

\* Whom a query finds that was not refused.
LEMMA QueryFinds ==
  ASSUME LookupInv, ~NoModule, NEW i \in Inputs[usersModule], ~Refused(i)
  PROVE  /\ i \in Queries /\ Made(i) \subseteq People
         /\ Matches(i) \subseteq SUBSET Accounts /\ Answerable(i) \subseteq Accounts
<1>1. i \in Queries /\ usersModule \in Modules \ {""}
  BY DEF LookupInv, Queries, NoModule
<1>2. Made(i) \subseteq People
  BY <1>1 DEF People
<1>3. Matching(i) \subseteq Accounts
  <2>1. i.call \in {"v1", "users", "usersBy"} /\ (i.match # Null => i.match \subseteq Accounts)
    BY <1>1, InputsAssumption DEF InputsAssumption
  <2>2. i.call = "usersBy" => i.match # Null
    BY DEF Refused
  <2>3. QED
    BY <2>1, <2>2 DEF Matching, ByUsernames, ByOrg
<1>4. Matches(i) \subseteq SUBSET Accounts
  BY <1>3 DEF Matches
<1>5. Answerable(i) \subseteq Accounts
  BY <1>3 DEF Answerable
<1>6. QED
  BY <1>1, <1>2, <1>4, <1>5

(***************************************************************************)
(* Steps of one request.                                                   *)
(***************************************************************************)
\* A request that changes and stays good keeps the invariant.
LEMMA OneMoves ==
  ASSUME LookupInv, NEW r \in Requests, NEW q, Good(q), req' = [req EXCEPT ![r] = q],
         UNCHANGED <<usersModule, bindings>>, order' \in Orders
  PROVE  LookupInv'
<1>1. req' \in [Requests -> Req]
  BY DEF LookupInv, Good
<1>2. \A s \in Requests : Good(req'[s])
  BY DEF LookupInv
<1>3. ASSUME NEW s \in Requests PROVE Good(req[s])'
  BY <1>2 DEF Good, Proper, Fresh, InScope
<1>4. QED
  BY <1>1, <1>3 DEF LookupInv

\* A request at work that goes on with users of its query stays good.
LEMMA GoesOn ==
  ASSUME NEW q, Good(q), q.pc \in AtWork, NEW n, n \in Req, n.pc \in AtWork,
         n.in = q.in, n.status = q.status, n.flagged = q.flagged,
         n.held = q.held, n.kept = q.kept,
         n.users = q.users \/ (n.users \subseteq Accounts /\ InScope(n.in, n.users))
  PROVE  Good(n)
<1>1. q.pc # "idle" /\ n.pc \notin {"idle", "reply"}
  BY DEF AtWork
<1>2. Proper(n)
  BY <1>1 DEF Good, Proper
<1>3. Fresh(n)
  BY <1>1 DEF Good, Fresh
<1>4. QED
  BY <1>2, <1>3 DEF Good

\* A query that fails is answered 500, or its 400.
LEMMA FailIsGood ==
  ASSUME LookupInv, NEW r \in Requests, req[r].pc \in AtWork, Fail(r),
         UNCHANGED <<usersModule, bindings, order>>
  PROVE  LookupInv'
<1> DEFINE q == req[r]
           status == WriteHeader(q.status, 500)
           n == Failed(q, status)
<1>1. q \in Req /\ Good(q) /\ order' \in Orders
  BY DEF LookupInv
<1>2. status \in {400, 500} /\ (status = 400 <=> q.status = 400)
  BY <1>1, NullAssumption DEF Good, Proper, AtWork, WriteHeader, NullAssumption
<1>3. status \in Statuses
  BY <1>2 DEF Statuses
<1> HIDE DEF status
<1>4. /\ n \in Req /\ n.pc = "reply" /\ n.in = q.in /\ n.status = status /\ n.users = {}
      /\ n.flagged = q.flagged
  BY <1>1, <1>3, FailedRecord
<1>5. req' = [req EXCEPT ![r] = n]
  BY DEF Fail, Failed, status
<1> HIDE DEF n
<1>6. Good(n)
  BY <1>1, <1>2, <1>4 DEF Good, Proper, Fresh, InScope, AtWork
<1>7. QED
  BY <1>1, <1>5, <1>6, OneMoves

\* A query that finds users in its scope is answered 200, or its 400.
LEMMA FoundIsGood ==
  ASSUME LookupInv, NEW r \in Requests, req[r].pc \in AtWork,
         NEW users \in SUBSET People, NEW flagged \in SUBSET users, InScope(req[r].in, users),
         usersModule \in {"ams", "keycloak"} =>
           /\ flagged \subseteq bindings
           /\ \/ usersModule = "ams" /\ Cardinality(users) > PageSize
              \/ bindings \cap users \subseteq flagged,
         Found(r, users, flagged), UNCHANGED <<usersModule, bindings, order>>
  PROVE  LookupInv'
<1> DEFINE q == req[r]
           status == WriteHeader(q.status, 200)
           n == Ended(q, status, users, flagged)
<1>1. q \in Req /\ Good(q) /\ order' \in Orders
  BY DEF LookupInv
<1>2. status \in {200, 400} /\ (status = 400 <=> q.status = 400)
  BY <1>1, NullAssumption DEF Good, Proper, AtWork, WriteHeader, NullAssumption
<1>3. status \in Statuses /\ flagged \in SUBSET People
  BY <1>2 DEF Statuses
<1> HIDE DEF status
<1>4. /\ n \in Req /\ n.pc = "reply" /\ n.in = q.in /\ n.status = status /\ n.users = users
      /\ n.flagged = flagged /\ n.held = q.held /\ n.kept = q.kept
  BY <1>1, <1>3, EndedRecord
<1>5. req' = [req EXCEPT ![r] = n]
  BY DEF Found, Ended, status
<1>6. bindings \subseteq q.held /\ q.kept \subseteq bindings
  BY <1>1 DEF Good, Fresh
<1> HIDE DEF n
<1>7. Proper(n)
  BY <1>1, <1>2, <1>4 DEF Good, Proper, AtWork
<1>8. Fresh(n)
  BY <1>4, <1>6 DEF Fresh, AtWork
<1>9. QED
  BY <1>1, <1>4, <1>5, <1>7, <1>8, OneMoves DEF Good

(***************************************************************************)
(* The actions.                                                            *)
(***************************************************************************)
LEMMA IdleIsGood == Idle \in Req /\ Good(Idle)
<1>1. Idle \in Req
  BY EmptySeq DEF Idle, Req, Places, Statuses, Words
<1>2. QED
  BY <1>1 DEF Idle, Good, Proper, Fresh, AtWork

LEMMA ReceiveKeeps ==
  ASSUME LookupInv, ~NoModule, NEW r \in Requests, NEW i \in Inputs[usersModule], Receive(r, i)
  PROVE  LookupInv'
<1> DEFINE status == IF Refused(i) \/ ~i.parses THEN 400 ELSE Null
           pc == IF Refused(i) THEN "reply"
                 ELSE IF usersModule = "keycloak" THEN "token" ELSE "connect"
           n == Begun(Idle, i, bindings, status, pc)
<1>1. i \in Queries /\ bindings \in SUBSET Accounts /\ order' \in Orders
  BY DEF LookupInv, Queries, Receive, orders
<1>2. status \in Statuses /\ (status = 400 <=> Refused(i) \/ ~i.parses) /\ status \in {Null, 400}
  BY NullAssumption DEF Statuses, NullAssumption
<1>3. pc = "reply" \/ (~Refused(i) /\ pc \in AtWork)
  BY DEF AtWork
<1>4. req' = [req EXCEPT ![r] = n] /\ UNCHANGED <<usersModule, bindings>>
  BY DEF Receive, Begun, admins
<1> HIDE DEF status, pc
<1>5. pc \in Places
  BY <1>3 DEF Places
<1>6. /\ n \in Req /\ n.pc = pc /\ n.in = i /\ n.status = status
      /\ n.users = {} /\ n.flagged = {} /\ n.held = bindings /\ n.kept = bindings
  <2>1. Idle.users = {} /\ Idle.flagged = {}
    BY DEF Idle
  <2>2. QED
    BY <1>1, <1>2, <1>5, <2>1, IdleIsGood, BegunRecord
<1> HIDE DEF n
<1>7. Proper(n)
  BY <1>2, <1>3, <1>6 DEF Proper, InScope, AtWork
<1>8. Fresh(n)
  BY <1>2, <1>3, <1>6, NullAssumption DEF Fresh, AtWork, NullAssumption
<1>9. QED
  BY <1>1, <1>4, <1>6, <1>7, <1>8, OneMoves DEF Good

LEMMA ReplyKeeps ==
  ASSUME LookupInv, NEW r \in Requests, Reply(r)
  PROVE  LookupInv'
<1>1. /\ req' = [req EXCEPT ![r] = Idle] /\ order' \in Orders
      /\ UNCHANGED <<usersModule, bindings>>
  BY DEF Reply, orders, admins, LookupInv
<1>2. QED
  BY <1>1, IdleIsGood, OneMoves

LEMMA InitSdkConnectionKeeps ==
  ASSUME LookupInv, NEW r \in Requests, InitSdkConnection(r)
  PROVE  LookupInv'
<1> DEFINE q == req[r]
           pc == IF req[r].in.call = "v1" THEN "accounts" ELSE "order"
           n == [q EXCEPT !.pc = pc]
<1>1. q \in Req /\ Good(q) /\ order' \in Orders /\ UNCHANGED <<usersModule, bindings, order>>
  BY DEF LookupInv, InitSdkConnection, orders, admins
<1>2. q.pc \in AtWork /\ pc \in AtWork /\ pc \in Places
  BY DEF InitSdkConnection, AtWork, Places
<1>3. CASE req' = [req EXCEPT ![r].pc = pc]
  <2>1. req' = [req EXCEPT ![r] = n]
    BY <1>3
  <2> HIDE DEF pc
  <2>2. /\ n \in Req /\ n.pc = pc /\ n.in = q.in /\ n.status = q.status /\ n.users = q.users
        /\ n.flagged = q.flagged /\ n.held = q.held /\ n.kept = q.kept
    BY <1>1, <1>2, Moved
  <2> HIDE DEF n
  <2>3. Good(n)
    BY <1>1, <1>2, <2>2, GoesOn
  <2>4. QED
    BY <1>1, <2>1, <2>3, OneMoves
<1>4. CASE Fail(r)
  BY <1>1, <1>2, <1>4, FailIsGood
<1>5. QED
  BY <1>3, <1>4 DEF InitSdkConnection

\* A request that asks on, with the words and the users it has.
LEMMA WordsKeep ==
  ASSUME LookupInv, NEW r \in Requests, req[r].pc \in AtWork,
         NEW pc \in AtWork, NEW words \in Words,
         req' = [req EXCEPT ![r] = GoneOn(req[r], pc, words)],
         UNCHANGED <<usersModule, bindings, order>>
  PROVE  LookupInv'
<1> DEFINE q == req[r]
           n == GoneOn(q, pc, words)
<1>1. q \in Req /\ Good(q) /\ order' \in Orders /\ pc \in Places
  BY DEF LookupInv, Places
<1>2. /\ n \in Req /\ n.pc = pc /\ n.in = q.in /\ n.status = q.status /\ n.users = q.users
      /\ n.flagged = q.flagged /\ n.held = q.held /\ n.kept = q.kept
  BY <1>1, GoneOnRecord
<1>3. Good(n)
  BY <1>1, <1>2, GoesOn
<1>4. QED
  BY <1>1, <1>3, OneMoves

LEMMA LoadedWords ==
  ASSUME LookupInv
  PROVE  Loaded(order) \in Words
<1>1. order.text \in Words
  BY DEF LookupInv, Orders
<1>2. <<Torn>> \in Words
  BY DEF Words
<1>3. QED
  BY <1>1, <1>2 DEF Loaded

LEMMA LoadOrderKeeps ==
  ASSUME LookupInv, NEW r \in Requests, LoadOrder(r)
  PROVE  LookupInv'
<1> DEFINE sort == req[r].in.sort
           pc == IF sort = "" THEN "accounts" ELSE "store"
           words == Loaded(order) \o (IF sort = "" THEN <<>> ELSE <<sort>>)
<1>1. /\ req[r].pc = "order" /\ UNCHANGED <<usersModule, bindings, order>>
      /\ req' = [req EXCEPT ![r] = GoneOn(req[r], pc, words)]
  BY DEF LoadOrder, admins, GoneOn
<1>2. req[r].pc \in AtWork /\ pc \in AtWork
  BY <1>1 DEF AtWork
<1>3. words \in Words
  <2> DEFINE Directions == {i.sort : i \in Queries} \cup {Torn}
  <2>1. req[r].in \in Queries
    <3>1. req[r].in \in Inputs[usersModule]
      BY <1>1 DEF LookupInv, Good, Proper
    <3>2. QED
      BY <3>1 DEF LookupInv, Queries
  <2>2. sort \in Directions
    BY <2>1
  <2>3. Loaded(order) \in Seq(Directions)
    BY LoadedWords DEF Words
  <2> HIDE DEF Directions, sort
  <2>4. (IF sort = "" THEN <<>> ELSE <<sort>>) \in Seq(Directions)
    <3>1. <<>> \in Seq(Directions) /\ <<sort>> \in Seq(Directions)
      BY <2>2
    <3>2. QED
      BY <3>1
  <2>5. words \in Seq(Directions)
    BY <2>3, <2>4, ConcatProperties
  <2>6. QED
    BY <2>5 DEF Words, Directions
<1> HIDE DEF pc, words
<1>4. QED
  BY <1>1, <1>2, <1>3, WordsKeep

LEMMA StoreOrderKeeps ==
  ASSUME LookupInv, NEW r \in Requests, StoreOrder(r)
  PROVE  LookupInv'
<1> DEFINE q == req[r]
<1>1. q \in Req /\ Good(q) /\ UNCHANGED <<usersModule, bindings>>
  BY DEF LookupInv, StoreOrder, admins
<1>2. q.pc \in {"store", "storeText", "storeLength"} /\ q.pc \in AtWork
  BY DEF StoreOrder, AtWork
<1>3. order' \in Orders
  <2>1. q.words \in Words
    BY <1>1 DEF Req
  <2>2. [order EXCEPT !.text = q.words] \in Orders /\ [order EXCEPT !.length = q.words] \in Orders
    BY <2>1 DEF LookupInv, Orders
  <2>3. QED
    BY <2>2 DEF StoreOrder
<1>4. PICK pc \in {"storeText", "storeLength", "reload"} : req' = [req EXCEPT ![r].pc = pc]
  BY DEF StoreOrder
<1> DEFINE n == [q EXCEPT !.pc = pc]
<1>5. pc \in AtWork /\ pc \in Places
  BY DEF AtWork, Places
<1>6. req' = [req EXCEPT ![r] = n]
  BY <1>4
<1>7. /\ n \in Req /\ n.pc = pc /\ n.in = q.in /\ n.status = q.status /\ n.users = q.users
      /\ n.flagged = q.flagged /\ n.held = q.held /\ n.kept = q.kept
  BY <1>1, <1>5, Moved
<1>8. Good(n)
  BY <1>1, <1>2, <1>5, <1>7, GoesOn
<1>9. QED
  BY <1>1, <1>3, <1>6, <1>8, OneMoves

LEMMA ReturnOrderKeeps ==
  ASSUME LookupInv, NEW r \in Requests, ReturnOrder(r)
  PROVE  LookupInv'
<1>1. /\ req[r].pc = "reload" /\ UNCHANGED <<usersModule, bindings, order>>
      /\ req[r] \in Req
  BY DEF ReturnOrder, admins, orders, LookupInv
<1>2. PICK words \in {req[r].words, Loaded(order)} :
        req' = [req EXCEPT ![r] = GoneOn(req[r], "accounts", words)]
  BY DEF ReturnOrder, GoneOn
<1>3. words \in Words
  BY <1>1, LoadedWords DEF Req
<1>4. req[r].pc \in AtWork /\ "accounts" \in AtWork
  BY <1>1 DEF AtWork
<1>5. QED
  BY <1>1, <1>2, <1>3, <1>4, WordsKeep

LEMMA PageIsPart == ASSUME NEW S, NEW size, NEW p, NEW T \in Page(S, size, p) PROVE T \subseteq S
BY DEF Page

\* The input of a request at work, which was not refused.
LEMMA InputAtWork ==
  ASSUME LookupInv, ~NoModule, NEW r \in Requests, req[r].pc \in AtWork
  PROVE  LET i == req[r].in
         IN  /\ i \in Inputs[usersModule] /\ i \in Queries /\ ~Refused(i)
             /\ Made(i) \subseteq People
             /\ Matches(i) \subseteq SUBSET Accounts /\ Answerable(i) \subseteq Accounts
<1>1. req[r].in \in Inputs[usersModule] /\ ~Refused(req[r].in)
  BY DEF LookupInv, Good, Proper, AtWork
<1>2. QED
  BY <1>1, QueryFinds

LEMMA GetAccountsKeeps ==
  ASSUME LookupInv, ~NoModule, NEW r \in Requests, GetAccounts(r)
  PROVE  LookupInv'
<1> DEFINE q == req[r]
<1>1. q \in Req /\ Good(q) /\ order' \in Orders /\ UNCHANGED <<usersModule, bindings, order>>
  BY DEF LookupInv, GetAccounts, orders, admins
<1>2. q.pc \in AtWork /\ usersModule = "ams"
  BY DEF GetAccounts, AtWork
<1>3. ASSUME NEW M \in Matches(q.in), NEW users \in SUBSET M,
             req' = [req EXCEPT ![r] = HasFound(q, "roles", <<>>, users)]
      PROVE  LookupInv'
  <2> DEFINE n == HasFound(q, "roles", <<>>, users)
  <2>1. users \in SUBSET Accounts /\ users \in SUBSET People /\ InScope(q.in, users)
    BY <1>2, InputAtWork, MatchesInScope DEF People
  <2>2. "roles" \in Places /\ "roles" \in AtWork /\ <<>> \in Words
    BY EmptySeq DEF Places, AtWork, Words
  <2>3. /\ n \in Req /\ n.pc = "roles" /\ n.in = q.in /\ n.status = q.status /\ n.users = users
        /\ n.flagged = q.flagged /\ n.held = q.held /\ n.kept = q.kept
    BY <1>1, <2>1, <2>2, HasFoundRecord
  <2>4. Good(n)
    BY <1>1, <1>2, <2>1, <2>2, <2>3, GoesOn
  <2>5. QED
    BY <1>1, <1>3, <2>4, OneMoves
<1>4. CASE Fail(r)
  BY <1>1, <1>2, <1>4, FailIsGood
<1>5. CASE ~Fail(r)
  <2>1. PICK M \in Matches(q.in) :
          \E users \in IF q.in.call = "v1" THEN Page(M, PageSize, 1)
                       ELSE Page(M, q.in.limit, q.in.offset) :
            req' = [req EXCEPT ![r] = HasFound(q, "roles", <<>>, users)]
    BY <1>5 DEF GetAccounts, FailAndLeak, HasFound
  <2>2. PICK users \in SUBSET M : req' = [req EXCEPT ![r] = HasFound(q, "roles", <<>>, users)]
    BY <2>1, PageIsPart
  <2>3. QED
    BY <1>3, <2>1, <2>2
<1>6. QED
  BY <1>4, <1>5

\* A page that has room for the bindings of all users that were found has them.
LEMMA AllHolders ==
  ASSUME bindings \in SUBSET Accounts, NEW users \in SUBSET Accounts,
         ~(Cardinality(users) > PageSize), users # {},
         NEW found \in Page(Holders(users), PageSize, 1)
  PROVE  found = bindings \cap users
<1> DEFINE S == bindings \cap users
<1>1. IsFiniteSet(users) /\ IsFiniteSet(S) /\ Cardinality(S) <= Cardinality(users)
  <2>1. IsFiniteSet(users)
    BY AccountsAssumption, FS_Subset DEF AccountsAssumption
  <2>2. QED
    BY <2>1, FS_Subset
<1>2. Cardinality(S) \in Nat /\ Cardinality(users) \in Nat /\ PageSize \in Nat
  BY <1>1, FS_CardinalityType, BoundsAssumption DEF BoundsAssumption
<1>3. Cardinality(S) <= PageSize
  BY <1>1, <1>2
<1>4. found \subseteq S /\ Cardinality(found) = PageLength(Cardinality(S), PageSize, 1)
  BY DEF Page, Holders
<1>5. PageLength(Cardinality(S), PageSize, 1) = Cardinality(S)
  BY <1>2, <1>3 DEF PageLength
<1>6. QED
  BY <1>1, <1>4, <1>5, FS_Subset

LEMMA GetOrgAdminKeeps ==
  ASSUME LookupInv, NEW r \in Requests, GetOrgAdmin(r)
  PROVE  LookupInv'
<1> DEFINE q == req[r]
<1>1. q \in Req /\ Good(q) /\ UNCHANGED <<usersModule, bindings, order>>
  BY DEF LookupInv, GetOrgAdmin, orders, admins
<1>2. q.pc \in AtWork /\ q.pc # "idle"
  BY DEF GetOrgAdmin, AtWork
<1>3. q.users \in SUBSET Accounts /\ q.users \in SUBSET People /\ InScope(q.in, q.users)
  BY <1>1, <1>2 DEF Good, Proper, People
<1>4. ASSUME NEW found \in Page(Holders(q.users), PageSize, 1),
             Found(r, q.users, found \cap q.users)
      PROVE  LookupInv'
  <2> DEFINE flagged == found \cap q.users
  <2>1. found \subseteq bindings
    BY PageIsPart DEF Holders
  <2>2. \/ Cardinality(q.users) > PageSize
        \/ bindings \cap q.users \subseteq flagged
    BY <1>3, AllHolders DEF LookupInv
  <2>3. usersModule = "ams"
    BY DEF GetOrgAdmin
  <2>4. flagged \in SUBSET q.users
    OBVIOUS
  <2>5. QED
    BY <1>1, <1>2, <1>3, <1>4, <2>1, <2>2, <2>3, <2>4, FoundIsGood
<1>5. CASE Fail(r)
  BY <1>1, <1>2, <1>5, FailIsGood
<1>6. QED
  BY <1>4, <1>5 DEF GetOrgAdmin, FailAndLeak

LEMMA MockAnswersKeeps ==
  ASSUME LookupInv, ~NoModule, NEW r \in Requests, MockAnswers(r)
  PROVE  LookupInv'
<1> DEFINE q == req[r]
           made == Made(q.in)
           n == [q EXCEPT !.pc = "dropped"]
<1>1. /\ q \in Req /\ Good(q) /\ UNCHANGED <<usersModule, bindings, order>>
      /\ order' \in Orders /\ usersModule = "mock"
  BY DEF LookupInv, MockAnswers, orders, admins
<1>2. q.pc \in AtWork /\ q.pc # "idle"
  BY DEF MockAnswers, AtWork
<1>3. CASE Fail(r)
  BY <1>1, <1>2, <1>3, FailIsGood
<1>4. CASE Found(r, made, made)
  <2>1. made \in SUBSET People /\ InScope(q.in, made) /\ made \in SUBSET made
    BY <1>2, InputAtWork, MadeInScope
  <2>2. usersModule \notin {"ams", "keycloak"}
    BY <1>1
  <2> HIDE DEF made
  <2>3. QED
    BY <1>1, <1>2, <1>4, <2>1, <2>2, FoundIsGood
<1>5. CASE Panic(r)
  <2>1. req' = [req EXCEPT ![r] = n]
    BY <1>5 DEF Panic
  <2>2. "dropped" \in Places
    BY DEF Places
  <2>3. /\ n \in Req /\ n.pc = "dropped" /\ n.in = q.in /\ n.status = q.status
        /\ n.users = q.users /\ n.flagged = q.flagged /\ n.held = q.held /\ n.kept = q.kept
    BY <1>1, <2>2, Moved
  <2> HIDE DEF n
  <2>4. Good(n)
    BY <1>1, <1>2, <2>3 DEF Good, Proper, Fresh, AtWork
  <2>5. QED
    BY <1>1, <2>1, <2>4, OneMoves
<1>6. QED
  BY <1>3, <1>4, <1>5 DEF MockAnswers

LEMMA GetAccessTokenKeeps ==
  ASSUME LookupInv, NEW r \in Requests, GetAccessToken(r)
  PROVE  LookupInv'
<1> DEFINE q == req[r]
           n == [q EXCEPT !.pc = "service"]
<1>1. /\ q \in Req /\ Good(q) /\ UNCHANGED <<usersModule, bindings, order>>
      /\ order' \in Orders
  BY DEF LookupInv, GetAccessToken, orders, admins
<1>2. q.pc \in AtWork /\ "service" \in AtWork /\ "service" \in Places
  BY DEF GetAccessToken, AtWork, Places
<1>3. CASE Fail(r)
  BY <1>1, <1>2, <1>3, FailIsGood
<1>4. CASE req' = [req EXCEPT ![r].pc = "service"]
  <2>1. req' = [req EXCEPT ![r] = n]
    BY <1>4
  <2>2. /\ n \in Req /\ n.pc = "service" /\ n.in = q.in /\ n.status = q.status
        /\ n.users = q.users /\ n.flagged = q.flagged /\ n.held = q.held /\ n.kept = q.kept
    BY <1>1, <1>2, Moved
  <2> HIDE DEF n
  <2>3. Good(n)
    BY <1>1, <1>2, <2>2, GoesOn
  <2>4. QED
    BY <1>1, <2>1, <2>3, OneMoves
<1>5. QED
  BY <1>3, <1>4 DEF GetAccessToken

LEMMA ServiceKeeps ==
  ASSUME LookupInv, ~NoModule, NEW r \in Requests, ServiceAnswers(r) \/ ServiceTimesOut(r)
  PROVE  LookupInv'
<1> DEFINE q == req[r]
<1>1. UNCHANGED <<usersModule, bindings, order>>
  BY DEF ServiceAnswers, ServiceTimesOut, orders, admins
<1>2. q.pc \in AtWork
  BY DEF ServiceAnswers, ServiceTimesOut, AtWork
<1>3. CASE Fail(r)
  BY <1>1, <1>2, <1>3, FailIsGood
<1>4. ASSUME usersModule = "keycloak",
             NEW users \in ServiceUsers(q.in), Found(r, users, users \cap bindings)
      PROVE  LookupInv'
  <2>1. users \in SUBSET Answerable(q.in)
    BY DEF ServiceUsers
  <2>2. users \in SUBSET People /\ InScope(q.in, users)
    BY <1>2, <1>4, <2>1, InputAtWork, AnswerableInScope DEF People
  <2> DEFINE flagged == users \cap bindings
  <2>3. flagged \in SUBSET users /\ flagged \subseteq bindings /\ bindings \cap users \subseteq flagged
    OBVIOUS
  <2>4. QED
    BY <1>1, <1>2, <1>4, <2>2, <2>3, FoundIsGood
<1>5. QED
  BY <1>3, <1>4 DEF ServiceAnswers, ServiceTimesOut

LEMMA ChangeBindingKeeps ==
  ASSUME LookupInv, NEW a \in Accounts, ChangeBinding(a)
  PROVE  LookupInv'
<1> DEFINE touched(r) == [req[r] EXCEPT !.held = @ \cup bindings', !.kept = @ \cap bindings']
<1>1. /\ bindings' \in SUBSET Accounts /\ order' \in Orders
      /\ UNCHANGED usersModule
      /\ \A r \in Requests : req[r] \in Req /\ Good(req[r])
  BY DEF LookupInv, ChangeBinding, orders
<1>2. req' = [r \in Requests |-> IF req[r].pc = "idle" \/ req[r].status = 500 THEN req[r]
                                ELSE touched(r)]
  BY DEF ChangeBinding
<1>3. ASSUME NEW r \in Requests
      PROVE  /\ touched(r) \in Req /\ touched(r).pc = req[r].pc
             /\ touched(r).in = req[r].in /\ touched(r).status = req[r].status
             /\ touched(r).users = req[r].users /\ touched(r).flagged = req[r].flagged
             /\ touched(r).held = req[r].held \cup bindings'
             /\ touched(r).kept = req[r].kept \cap bindings'
  <2>1. req[r] \in Req /\ req[r].held \cup bindings' \in SUBSET Accounts
        /\ req[r].kept \cap bindings' \in SUBSET Accounts
    BY <1>1 DEF Req
  <2>2. touched(r) \in Req
    BY <2>1 DEF Req
  <2>3. QED
    BY <2>1, <2>2 DEF Req
<1> HIDE DEF touched
<1>4. ASSUME NEW r \in Requests, req[r].pc = "idle" \/ req[r].status = 500
      PROVE  Good(req[r])'
  <2>1. req'[r] = req[r]
    BY <1>2, <1>4
  <2>2. req[r].pc \notin AtWork
    BY <1>1, <1>4, NullAssumption DEF Good, Proper, AtWork, NullAssumption
  <2>3. ~(req[r].pc = "reply" /\ req[r].status = 200)
    BY <1>4
  <2>4. QED
    BY <1>1, <2>1, <2>2, <2>3 DEF Good, Proper, Fresh, InScope
<1>5. ASSUME NEW r \in Requests, ~(req[r].pc = "idle" \/ req[r].status = 500)
      PROVE  Good(req[r])'
  <2>1. req'[r] = touched(r)
    BY <1>2, <1>5
  <2>2. Proper(req[r])'
    BY <1>1, <1>3, <2>1 DEF Good, Proper, InScope
  <2>3. Fresh(req[r])'
    BY <1>1, <1>3, <2>1 DEF Good, Fresh
  <2>4. QED
    BY <1>3, <2>1, <2>2, <2>3 DEF Good
<1>6. req' \in [Requests -> Req]
  BY <1>1, <1>2, <1>3
<1>7. QED
  BY <1>1, <1>4, <1>5, <1>6 DEF LookupInv

LEMMA RestartKeeps ==
  ASSUME LookupInv, Restart
  PROVE  LookupInv'
<1>1. /\ usersModule' \in Modules /\ bindings' \in SUBSET Accounts
      /\ req' = [r \in Requests |-> Idle]
  BY DEF LookupInv, Restart, admins
<1>2. order' \in Orders
  BY EmptySeq DEF Restart, Orders, Words
<1>3. Idle \in Req /\ Idle.pc = "idle"
  BY IdleIsGood DEF Idle
<1>4. \A r \in Requests : Good(req[r])'
  BY <1>1, <1>3 DEF Good, Proper, Fresh, AtWork
<1>5. QED
  BY <1>1, <1>2, <1>3, <1>4 DEF LookupInv

(***************************************************************************)
(* The theorems.                                                           *)
(***************************************************************************)
LEMMA InitLookup == Init => LookupInv
<1> SUFFICES ASSUME Init PROVE LookupInv
  OBVIOUS
<1>1. /\ usersModule \in Modules /\ bindings \in SUBSET Accounts
      /\ req = [r \in Requests |-> Idle]
  BY BindingsAssumption DEF Init, LookupInit, BindingsAssumption
<1>2. order \in Orders
  BY EmptySeq DEF Init, LookupInit, Orders, Words
<1>3. QED
  BY <1>1, <1>2, IdleIsGood DEF LookupInv

LEMMA NextLookup == LookupInv /\ [Next]_vars => LookupInv'
<1> SUFFICES ASSUME LookupInv, [Next]_vars PROVE LookupInv'
  OBVIOUS
<1>1. CASE UNCHANGED lookupVars
  BY <1>1 DEF lookupVars, LookupInv, Good, Proper, Fresh, InScope
<1>2. CASE ~NoModule /\ LookupNext
  <2>1. ASSUME NEW r \in Requests, Handler(r) PROVE LookupInv'
    BY <1>2, <2>1, InitSdkConnectionKeeps, LoadOrderKeeps, StoreOrderKeeps, ReturnOrderKeeps,
       GetAccountsKeeps, GetOrgAdminKeeps, MockAnswersKeeps, GetAccessTokenKeeps,
       ServiceKeeps, ReplyKeeps DEF Handler
  <2>2. QED
    BY <1>2, <2>1, ReceiveKeeps, ChangeBindingKeeps, RestartKeeps DEF LookupNext
<1>3. QED
  BY <1>1, <1>2 DEF Next, vars

\* The invariant of the requests holds in every state.
LEMMA LookupInvariant == Spec => []LookupInv
BY InitLookup, NextLookup, PTL DEF Spec

\* Whatever requests run at once, and however bindings change and the process
\* restarts: an answer holds nobody but accounts of the organisation, or of the
\* usernames, that the request named.  Of AMS this is shown for values that its
\* search string keeps apart.
THEOREM TenantsAreApart == Spec => []OwnTenantOnly
<1>1. LookupInv => OwnTenantOnly
  <2> SUFFICES ASSUME LookupInv, NEW r \in Requests, req[r].pc = "reply"
               PROVE  InScope(req[r].in, Answer(r))
    BY DEF OwnTenantOnly, InScope
  <2>1. InScope(req[r].in, req[r].users) /\ req[r].flagged \subseteq req[r].users
    BY DEF LookupInv, Good, Proper
  <2>2. QED
    BY <2>1 DEF InScope, Answer
<1>2. QED
  BY <1>1, LookupInvariant, PTL

\* A request that is refused, or whose body does not parse, is answered 400, and
\* no other request is.
THEOREM RefusalsAreFinal == Spec => []RefusedStays400
<1>1. LookupInv => RefusedStays400
  BY DEF LookupInv, Good, Proper, RefusedStays400
<1>2. QED
  BY <1>1, LookupInvariant, PTL

\* Role bindings that change during a request never flag an account that was no
\* administrator at any time of it, and never hide one that always was, but for
\* AMS answers of more users than one page of role bindings holds.
THEOREM FlagsAreFresh == Spec => []AdminFlagsAreFresh
<1>1. LookupInv => AdminFlagsAreFresh
  BY DEF LookupInv, Good, Fresh, AdminFlagsAreFresh, Answer
<1>2. QED
  BY <1>1, LookupInvariant, PTL

(***************************************************************************)
(* The connections.                                                        *)
(***************************************************************************)
\* The requests that have a connection of their own.
Connected == {r \in Requests :
  usersModule = "ams" /\ req[r].pc \notin {"idle", "connect", "reply", "dropped"}}

LeakInv ==
  /\ open \in Int /\ failures \in Int
  /\ open = failures + Cardinality(Connected)
  /\ usersModule = "ams" => \A r \in Requests : req[r].pc \notin {"token", "service"}

LEMMA ConnectedFinite == IsFiniteSet(Connected) /\ Cardinality(Connected) \in Nat
<1>1. IsFiniteSet(Connected)
  BY AccountsAssumption, FS_Subset DEF AccountsAssumption, Connected
<1>2. QED
  BY <1>1, FS_CardinalityType

\* Whether a request at this place has a connection.
AtSdk(pc) == usersModule = "ams" /\ pc \notin {"idle", "connect", "reply", "dropped"}

LEMMA ConnectedMoves ==
  ASSUME LookupInv, LeakInv, NEW r \in Requests, NEW n, req' = [req EXCEPT ![r] = n],
         UNCHANGED usersModule, usersModule = "ams" => n.pc \notin {"token", "service"}
  PROVE  /\ Connected' = IF AtSdk(n.pc) THEN Connected \cup {r} ELSE Connected \ {r}
         /\ usersModule' = "ams" => \A s \in Requests : req'[s].pc \notin {"token", "service"}
<1>1. \A s \in Requests : req'[s] = IF s = r THEN n ELSE req[s]
  BY DEF LookupInv
<1>2. Connected' = IF AtSdk(n.pc) THEN Connected \cup {r} ELSE Connected \ {r}
  BY <1>1 DEF Connected, AtSdk
<1>3. QED
  BY <1>1, <1>2 DEF LeakInv

LEMMA Stays ==
  ASSUME LookupInv, LeakInv, NEW r \in Requests, NEW n, req' = [req EXCEPT ![r] = n],
         UNCHANGED <<usersModule, open, failures>>,
         usersModule = "ams" => n.pc \notin {"token", "service"},
         AtSdk(req[r].pc) <=> AtSdk(n.pc)
  PROVE  LeakInv'
<1>1. Connected' = Connected
  BY ConnectedMoves DEF Connected, AtSdk
<1>2. QED
  BY <1>1, ConnectedMoves DEF LeakInv

LEMMA Connects ==
  ASSUME LookupInv, LeakInv, NEW r \in Requests, NEW n, req' = [req EXCEPT ![r] = n],
         UNCHANGED <<usersModule, failures>>, open' = open + 1, n.pc \notin {"token", "service"},
         ~AtSdk(req[r].pc), AtSdk(n.pc)
  PROVE  LeakInv'
<1>1. Connected' = Connected \cup {r} /\ r \notin Connected
  BY ConnectedMoves DEF Connected, AtSdk
<1>2. Cardinality(Connected') = Cardinality(Connected) + 1
  BY <1>1, ConnectedFinite, FS_AddElement
<1>3. open' \in Int /\ failures' \in Int /\ open' = failures' + Cardinality(Connected')
  BY <1>2, ConnectedFinite DEF LeakInv
<1>4. QED
  BY <1>3, ConnectedMoves DEF LeakInv

LEMMA Disconnects ==
  ASSUME LookupInv, LeakInv, NEW r \in Requests, NEW n, req' = [req EXCEPT ![r] = n],
         UNCHANGED usersModule, n.pc \notin {"token", "service"},
         \/ open' = open - 1 /\ failures' = failures
         \/ open' = open /\ failures' = failures + 1,
         AtSdk(req[r].pc), ~AtSdk(n.pc)
  PROVE  LeakInv'
<1>1. Connected' = Connected \ {r} /\ r \in Connected
  BY ConnectedMoves DEF Connected, AtSdk
<1>2. Cardinality(Connected') = Cardinality(Connected) - 1
  BY <1>1, ConnectedFinite, FS_RemoveElement
<1>3. open' \in Int /\ failures' \in Int /\ open' = failures' + Cardinality(Connected')
  BY <1>2, ConnectedFinite DEF LeakInv
<1>4. QED
  BY <1>3, ConnectedMoves DEF LeakInv

\* The record of a request whose query fails, or ends.
LEMMA ReplyRecord ==
  ASSUME LookupInv, NEW r \in Requests
  PROVE  /\ Fail(r) => \E n : n.pc = "reply" /\ req' = [req EXCEPT ![r] = n]
         /\ \A users, flagged : Found(r, users, flagged) =>
              \E n : n.pc = "reply" /\ req' = [req EXCEPT ![r] = n]
<1>1. req[r] \in Req
  BY DEF LookupInv
<1>2. ASSUME NEW status PROVE Failed(req[r], status).pc = "reply"
  BY <1>1 DEF Req, Failed
<1>3. ASSUME NEW status, NEW users, NEW flagged
      PROVE  Ended(req[r], status, users, flagged).pc = "reply"
  BY <1>1 DEF Req, Ended
<1>4. Fail(r) => req' = [req EXCEPT ![r] = Failed(req[r], WriteHeader(req[r].status, 500))]
  BY DEF Fail, Failed
<1>5. ASSUME NEW users, NEW flagged, Found(r, users, flagged)
      PROVE  req' = [req EXCEPT ![r] = Ended(req[r], WriteHeader(req[r].status, 200), users, flagged)]
  BY <1>5 DEF Found, Ended
<1>6. QED
  BY <1>2, <1>3, <1>4, <1>5

\* A step of the handler keeps the connections of those that are at work.
LEMMA HandlerLeaks ==
  ASSUME LookupInv, LeakInv, NEW r \in Requests, Handler(r)
  PROVE  LeakInv'
<1>1. UNCHANGED usersModule
  BY DEF Handler, InitSdkConnection, LoadOrder, StoreOrder, ReturnOrder, GetAccounts,
         GetOrgAdmin, MockAnswers, GetAccessToken, ServiceAnswers, ServiceTimesOut, Reply
<1>2. req[r] \in Req /\ Idle.pc = "idle" /\ open \in Int /\ failures \in Int
  BY DEF LookupInv, Idle, LeakInv
<1>3. ASSUME NEW pc
      PROVE  LET n == [req[r] EXCEPT !.pc = pc]
             IN  n.pc = pc /\ [req EXCEPT ![r].pc = pc] = [req EXCEPT ![r] = n]
  BY <1>2 DEF Req
<1>4. ASSUME NEW pc, NEW words PROVE GoneOn(req[r], pc, words).pc = pc
  BY <1>2 DEF Req, GoneOn
<1>5. CASE InitSdkConnection(r)
  <2>1. usersModule = "ams" /\ ~AtSdk(req[r].pc) /\ UNCHANGED failures
    BY <1>5 DEF InitSdkConnection, AtSdk
  <2>2. CASE Fail(r) /\ UNCHANGED open
    <3>1. PICK n : n.pc = "reply" /\ req' = [req EXCEPT ![r] = n]
      BY <2>2, ReplyRecord
    <3>2. QED
      BY <1>1, <2>1, <2>2, <3>1, Stays DEF AtSdk
  <2> DEFINE pc == IF req[r].in.call = "v1" THEN "accounts" ELSE "order"
             n == [req[r] EXCEPT !.pc = pc]
  <2>3. CASE open' = open + 1 /\ req' = [req EXCEPT ![r].pc = pc]
    <3>1. req' = [req EXCEPT ![r] = n] /\ n.pc = pc
      BY <1>3, <2>3
    <3>2. n.pc \in {"accounts", "order"}
      BY <3>1
    <3> HIDE DEF n, pc
    <3>3. AtSdk(n.pc) /\ n.pc \notin {"token", "service"}
      BY <2>1, <3>2 DEF AtSdk
    <3>4. QED
      BY <1>1, <2>1, <2>3, <3>1, <3>3, Connects
  <2>4. QED
    BY <1>5, <2>2, <2>3 DEF InitSdkConnection
<1>6. CASE LoadOrder(r)
  <2> DEFINE pc == IF req[r].in.sort = "" THEN "accounts" ELSE "store"
             words == Loaded(order) \o (IF req[r].in.sort = "" THEN <<>> ELSE <<req[r].in.sort>>)
  <2>1. /\ req' = [req EXCEPT ![r] = GoneOn(req[r], pc, words)] /\ pc \in {"accounts", "store"}
        /\ UNCHANGED <<open, failures>> /\ req[r].pc = "order"
    BY <1>6 DEF LoadOrder, GoneOn, connections
  <2> HIDE DEF pc, words
  <2>2. AtSdk(req[r].pc) <=> AtSdk(GoneOn(req[r], pc, words).pc)
    BY <1>4, <2>1 DEF AtSdk
  <2>3. QED
    BY <1>1, <1>4, <2>1, <2>2, Stays
<1>7. CASE StoreOrder(r)
  <2>1. PICK pc \in {"storeText", "storeLength", "reload"} : req' = [req EXCEPT ![r].pc = pc]
    BY <1>7 DEF StoreOrder
  <2>2. /\ UNCHANGED <<open, failures>>
        /\ req[r].pc \in {"store", "storeText", "storeLength"}
    BY <1>7 DEF StoreOrder, connections
  <2> DEFINE n == [req[r] EXCEPT !.pc = pc]
  <2>3. req' = [req EXCEPT ![r] = n] /\ n.pc = pc
    BY <1>3, <2>1
  <2> HIDE DEF n
  <2>4. AtSdk(req[r].pc) <=> AtSdk(n.pc)
    BY <2>1, <2>2, <2>3 DEF AtSdk
  <2>5. QED
    BY <1>1, <2>1, <2>2, <2>3, <2>4, Stays
<1>8. CASE ReturnOrder(r)
  <2>1. PICK words : req' = [req EXCEPT ![r] = GoneOn(req[r], "accounts", words)]
    BY <1>8 DEF ReturnOrder, GoneOn
  <2>2. UNCHANGED <<open, failures>> /\ req[r].pc = "reload"
    BY <1>8 DEF ReturnOrder, connections
  <2>3. AtSdk(req[r].pc) <=> AtSdk(GoneOn(req[r], "accounts", words).pc)
    BY <1>4, <2>2 DEF AtSdk
  <2>4. QED
    BY <1>1, <1>4, <2>1, <2>2, <2>3, Stays
<1>9. CASE GetAccounts(r)
  <2>1. usersModule = "ams" /\ AtSdk(req[r].pc)
    BY <1>9 DEF GetAccounts, AtSdk
  <2>2. CASE FailAndLeak(r)
    <3>1. PICK n : n.pc = "reply" /\ req' = [req EXCEPT ![r] = n]
      BY <2>2, ReplyRecord DEF FailAndLeak
    <3>2. QED
      BY <1>1, <2>1, <2>2, <3>1, Disconnects DEF AtSdk, FailAndLeak
  <2>3. CASE ~FailAndLeak(r)
    <3>1. UNCHANGED <<open, failures>>
      BY <1>9, <2>3 DEF GetAccounts, connections
    <3>2. PICK users : req' = [req EXCEPT ![r] = HasFound(req[r], "roles", <<>>, users)]
      BY <1>9, <2>3 DEF GetAccounts, HasFound
    <3>3. HasFound(req[r], "roles", <<>>, users).pc = "roles"
      BY <1>2 DEF Req, HasFound
    <3>4. QED
      BY <1>1, <2>1, <3>1, <3>2, <3>3, Stays DEF AtSdk
  <2>4. QED
    BY <2>2, <2>3
<1>10. CASE GetOrgAdmin(r)
  <2>1. AtSdk(req[r].pc)
    BY <1>10 DEF GetOrgAdmin, AtSdk
  <2>2. \/ open' = open - 1 /\ failures' = failures
        \/ open' = open /\ failures' = failures + 1
    BY <1>10 DEF GetOrgAdmin, CloseSdkConnection, FailAndLeak
  <2>3. PICK n : n.pc = "reply" /\ req' = [req EXCEPT ![r] = n]
    BY <1>10, ReplyRecord DEF GetOrgAdmin, FailAndLeak
  <2>4. QED
    BY <1>1, <2>1, <2>2, <2>3, Disconnects DEF AtSdk
<1>11. CASE MockAnswers(r)
  <2>1. usersModule # "ams" /\ UNCHANGED <<open, failures>>
    BY <1>11 DEF MockAnswers, connections
  <2>2. PICK n : req' = [req EXCEPT ![r] = n]
    BY <1>11, <1>3, ReplyRecord DEF MockAnswers, Panic
  <2>3. QED
    BY <1>1, <2>1, <2>2, Stays DEF AtSdk
<1>12. CASE GetAccessToken(r) \/ ServiceAnswers(r) \/ ServiceTimesOut(r)
  <2>1. usersModule # "ams" /\ UNCHANGED <<open, failures>>
    BY <1>12 DEF GetAccessToken, ServiceAnswers, ServiceTimesOut, LeakInv, connections
  <2>2. PICK n : req' = [req EXCEPT ![r] = n]
    BY <1>12, <1>3, ReplyRecord DEF GetAccessToken, ServiceAnswers, ServiceTimesOut
  <2>3. QED
    BY <1>1, <2>1, <2>2, Stays DEF AtSdk
<1>13. CASE Reply(r)
  <2>1. UNCHANGED <<open, failures>> /\ req' = [req EXCEPT ![r] = Idle] /\ ~AtSdk(req[r].pc)
    BY <1>13 DEF Reply, AtSdk, connections
  <2>2. QED
    BY <1>1, <1>2, <2>1, Stays DEF AtSdk
<1>14. QED
  BY <1>5, <1>6, <1>7, <1>8, <1>9, <1>10, <1>11, <1>12, <1>13, Zenon DEF Handler

LEMMA NextLeak == LookupInv /\ LeakInv /\ [Next]_vars => LeakInv'
<1> SUFFICES ASSUME LookupInv, LeakInv, [Next]_vars PROVE LeakInv'
  OBVIOUS
<1>1. CASE UNCHANGED lookupVars
  BY <1>1 DEF lookupVars, LeakInv, Connected
<1>2. CASE ~NoModule /\ LookupNext
  <2>1. ASSUME NEW r \in Requests, NEW i \in Inputs[usersModule], Receive(r, i)
        PROVE  LeakInv'
    <3> DEFINE status == IF Refused(i) \/ ~i.parses THEN 400 ELSE Null
               pc == IF Refused(i) THEN "reply"
                     ELSE IF usersModule = "keycloak" THEN "token" ELSE "connect"
               n == Begun(Idle, i, bindings, status, pc)
    <3>1. /\ req' = [req EXCEPT ![r] = n] /\ UNCHANGED <<usersModule, open, failures>>
          /\ req[r].pc = "idle"
      BY <2>1 DEF Receive, Begun, connections
    <3>2. usersModule = "ams" => pc \in {"reply", "connect"}
      OBVIOUS
    <3> HIDE DEF pc, status
    <3>3. n.pc = pc
      BY DEF Begun, Idle
    <3> HIDE DEF n
    <3>4. QED
      BY <3>1, <3>2, <3>3, Stays DEF AtSdk
  <2>2. ASSUME NEW a \in Accounts, ChangeBinding(a) PROVE LeakInv'
    <3>1. UNCHANGED <<usersModule, open, failures>>
      BY <2>2 DEF ChangeBinding, connections
    <3>2. \A r \in Requests : req'[r].pc = req[r].pc
      <4> SUFFICES ASSUME NEW r \in Requests PROVE req'[r].pc = req[r].pc
        OBVIOUS
      <4>1. req[r] \in Req
        BY DEF LookupInv
      <4>2. [req[r] EXCEPT !.held = req[r].held \cup bindings',
                           !.kept = req[r].kept \cap bindings'].pc = req[r].pc
        BY <4>1 DEF Req
      <4>3. \/ req'[r] = req[r]
            \/ req'[r] = [req[r] EXCEPT !.held = req[r].held \cup bindings',
                                        !.kept = req[r].kept \cap bindings']
        BY <2>2 DEF ChangeBinding
      <4>4. CASE req'[r] = req[r]
        BY <4>4
      <4>5. CASE req'[r] = [req[r] EXCEPT !.held = req[r].held \cup bindings',
                                          !.kept = req[r].kept \cap bindings']
        BY <4>2, <4>5, Zenon
      <4>6. QED
        BY <4>3, <4>4, <4>5, Zenon
    <3>3. Connected' = Connected
      BY <3>1, <3>2 DEF Connected
    <3>4. QED
      BY <3>1, <3>2, <3>3 DEF LeakInv
  <2>3. CASE Restart
    <3>1. /\ open' = 0 /\ failures' = 0
          /\ \A r \in Requests : req'[r].pc = "idle"
      BY <2>3 DEF Restart, Idle
    <3>2. Connected' = {}
      BY <3>1 DEF Connected
    <3>3. Cardinality(Connected') = 0
      BY <3>2, FS_EmptySet
    <3>4. QED
      BY <3>1, <3>3 DEF LeakInv
  <2>4. QED
    BY <1>2, <2>1, <2>2, <2>3, HandlerLeaks DEF LookupNext
<1>3. QED
  BY <1>1, <1>2 DEF Next, vars

LEMMA LeakInvariant == Spec => []LeakInv
<1>1. Init => LeakInv
  <2> SUFFICES ASSUME Init PROVE LeakInv
    OBVIOUS
  <2>1. open = 0 /\ failures = 0 /\ \A r \in Requests : req[r].pc = "idle"
    BY DEF Init, LookupInit, Idle
  <2>2. Connected = {}
    BY <2>1 DEF Connected
  <2>3. QED
    BY <2>1, <2>2, FS_EmptySet DEF LeakInv
<1>2. QED
  BY <1>1, NextLeak, LookupInvariant, PTL DEF Spec

\* However many requests come, fail and restart: connections are open for the
\* requests that are at work and for those whose query failed.
THEOREM FailuresLeak == Spec => []OnlyFailuresLeak
<1>1. LeakInv => OnlyFailuresLeak
  BY DEF LeakInv, OnlyFailuresLeak, Connected
<1>2. QED
  BY <1>1, LeakInvariant, PTL

(***************************************************************************)
(* The steps of a request, as the shared order sees them.                  *)
(***************************************************************************)
OrderPlaces == {"store", "storeText", "storeLength", "reload"}

LoadsOrder(r, n) ==
  LET sort == req[r].in.sort
  IN  /\ req[r].pc = "order" /\ n.in = req[r].in
      /\ n.pc = IF sort = "" THEN "accounts" ELSE "store"
      /\ n.words = Loaded(order) \o (IF sort = "" THEN <<>> ELSE <<sort>>)
      /\ asked' = IF sort = "" THEN asked ELSE Append(asked, sort)
      /\ UNCHANGED order
      /\ overlapped' = (overlapped \/ \E s \in Requests : UsesOrder(s))

StoresOrder(r, n) ==
  /\ n.in = req[r].in /\ n.words = req[r].words /\ n.pc \in OrderPlaces
  /\ \/ /\ req[r].pc \in {"store", "storeText"}
        /\ order' = [order EXCEPT !.text = req[r].words]
        /\ n.pc = IF req[r].pc = "store" THEN "storeLength" ELSE "reload"
     \/ /\ req[r].pc \in {"store", "storeLength"}
        /\ order' = [order EXCEPT !.length = req[r].words]
        /\ n.pc = IF req[r].pc = "store" THEN "storeText" ELSE "reload"
  /\ UNCHANGED <<asked, overlapped>>

ReturnsOrder(r, n) ==
  /\ req[r].pc = "reload" /\ n.pc = "accounts" /\ n.in = req[r].in
  /\ n.words \in {req[r].words, Loaded(order)}
  /\ UNCHANGED orders

\* Elsewhere in the handler.
LeavesOrder(r, n) ==
  /\ req[r].pc \notin OrderPlaces \cup {"idle", "order"}
  /\ n.pc \notin OrderPlaces \cup {"connect"}
  /\ n.pc = "accounts" => n.in.call = "v1"
  /\ n.pc = "order" => req[r].pc = "connect" /\ n.in = req[r].in
  /\ n.pc = "idle" => n = Idle
  /\ open' \in {open, open - 1} \/ (req[r].pc = "connect" /\ open' = open + 1)
  /\ failures' \in {failures, failures + 1}
  /\ UNCHANGED orders

\* One request has a turn.
Turn(r, n) ==
  /\ req' = [req EXCEPT ![r] = n]
  /\ UNCHANGED <<usersModule, changes>>
  /\ \/ (LoadsOrder(r, n) \/ StoresOrder(r, n) \/ ReturnsOrder(r, n)) /\ UNCHANGED connections
     \/ LeavesOrder(r, n)

LEMMA HandlerTurns ==
  ASSUME LookupInv, NEW r \in Requests, Handler(r)
  PROVE  \E n : Turn(r, n)
<1> DEFINE q == req[r]
<1>1. q \in Req /\ Idle.pc = "idle"
  BY DEF LookupInv, Idle
<1>2. ASSUME NEW pc
      PROVE  LET n == [q EXCEPT !.pc = pc]
             IN  /\ n.pc = pc /\ n.in = q.in /\ n.words = q.words
                 /\ [req EXCEPT ![r].pc = pc] = [req EXCEPT ![r] = n]
  BY <1>1 DEF Req
<1>3. ASSUME NEW pc, NEW words
      PROVE  /\ GoneOn(q, pc, words).pc = pc /\ GoneOn(q, pc, words).in = q.in
             /\ GoneOn(q, pc, words).words = words
  BY <1>1 DEF Req, GoneOn
<1>4. CASE InitSdkConnection(r)
  <2>1. /\ q.pc = "connect" /\ UNCHANGED <<usersModule, changes>> /\ UNCHANGED orders
        /\ UNCHANGED failures
    BY <1>4 DEF InitSdkConnection, admins
  <2>2. CASE Fail(r) /\ UNCHANGED open
    <3>1. PICK n : n.pc = "reply" /\ req' = [req EXCEPT ![r] = n]
      BY <2>2, ReplyRecord
    <3>2. LeavesOrder(r, n)
      BY <2>1, <2>2, <3>1 DEF LeavesOrder, OrderPlaces
    <3>3. QED
      BY <2>1, <3>1, <3>2 DEF Turn
  <2> DEFINE pc == IF q.in.call = "v1" THEN "accounts" ELSE "order"
             n == [q EXCEPT !.pc = pc]
  <2>3. CASE open' = open + 1 /\ req' = [req EXCEPT ![r].pc = pc]
    <3>1. req' = [req EXCEPT ![r] = n] /\ n.pc = pc /\ n.in = q.in
      BY <1>2, <2>3
    <3> HIDE DEF n
    <3>2. LeavesOrder(r, n)
      BY <2>1, <2>3, <3>1 DEF LeavesOrder, OrderPlaces
    <3>3. QED
      BY <2>1, <3>1, <3>2 DEF Turn
  <2>4. QED
    BY <1>4, <2>2, <2>3 DEF InitSdkConnection
<1>5. CASE LoadOrder(r)
  <2> DEFINE sort == q.in.sort
             pc == IF sort = "" THEN "accounts" ELSE "store"
             words == Loaded(order) \o (IF sort = "" THEN <<>> ELSE <<sort>>)
             n == GoneOn(q, pc, words)
  <2>1. /\ req' = [req EXCEPT ![r] = n] /\ UNCHANGED connections
        /\ UNCHANGED <<usersModule, changes, order>> /\ q.pc = "order"
        /\ asked' = IF sort = "" THEN asked ELSE Append(asked, sort)
    BY <1>5 DEF LoadOrder, GoneOn, admins
  <2>2. overlapped' = (overlapped \/ \E s \in Requests : UsesOrder(s))
    BY <1>5 DEF LoadOrder
  <2> HIDE DEF pc, words
  <2>3. n.pc = pc /\ n.in = q.in /\ n.words = words
    BY <1>3
  <2> HIDE DEF n
  <2>4. LoadsOrder(r, n)
    BY <2>1, <2>2, <2>3 DEF LoadsOrder, pc, words
  <2>5. QED
    BY <2>1, <2>4 DEF Turn
<1>6. CASE StoreOrder(r)
  <2>1. /\ UNCHANGED <<usersModule, changes, asked>> /\ UNCHANGED connections
    BY <1>6 DEF StoreOrder, admins
  <2>2. overlapped' = overlapped
    BY <1>6, Zenon DEF StoreOrder
  <2>3. \E pc \in OrderPlaces :
          /\ req' = [req EXCEPT ![r].pc = pc]
          /\ \/ /\ q.pc \in {"store", "storeText"}
                /\ order' = [order EXCEPT !.text = q.words]
                /\ pc = IF q.pc = "store" THEN "storeLength" ELSE "reload"
             \/ /\ q.pc \in {"store", "storeLength"}
                /\ order' = [order EXCEPT !.length = q.words]
                /\ pc = IF q.pc = "store" THEN "storeText" ELSE "reload"
    BY <1>6 DEF StoreOrder, OrderPlaces
  <2>4. PICK pc \in OrderPlaces :
          /\ req' = [req EXCEPT ![r].pc = pc]
          /\ \/ /\ q.pc \in {"store", "storeText"}
                /\ order' = [order EXCEPT !.text = q.words]
                /\ pc = IF q.pc = "store" THEN "storeLength" ELSE "reload"
             \/ /\ q.pc \in {"store", "storeLength"}
                /\ order' = [order EXCEPT !.length = q.words]
                /\ pc = IF q.pc = "store" THEN "storeText" ELSE "reload"
    BY <2>3
  <2> DEFINE n == [q EXCEPT !.pc = pc]
  <2>5. req' = [req EXCEPT ![r] = n] /\ n.pc = pc /\ n.in = q.in /\ n.words = q.words
    BY <1>2, <2>4
  <2> HIDE DEF n
  <2>6. StoresOrder(r, n)
    BY <2>1, <2>2, <2>4, <2>5 DEF StoresOrder
  <2>7. QED
    BY <2>1, <2>5, <2>6 DEF Turn
<1>7. CASE ReturnOrder(r)
  <2>1. PICK words \in {q.words, Loaded(order)} :
          req' = [req EXCEPT ![r] = GoneOn(q, "accounts", words)]
    BY <1>7 DEF ReturnOrder, GoneOn
  <2>2. /\ q.pc = "reload" /\ UNCHANGED <<usersModule, changes>> /\ UNCHANGED connections
        /\ UNCHANGED orders
    BY <1>7 DEF ReturnOrder, admins
  <2>3. ReturnsOrder(r, GoneOn(q, "accounts", words))
    BY <1>3, <2>1, <2>2 DEF ReturnsOrder
  <2>4. QED
    BY <2>1, <2>2, <2>3 DEF Turn
<1>8. CASE GetAccounts(r) \/ GetOrgAdmin(r)
  <2>1. /\ q.pc \in {"accounts", "roles"} /\ UNCHANGED <<usersModule, changes>>
        /\ UNCHANGED orders
    BY <1>8 DEF GetAccounts, GetOrgAdmin, admins
  <2>2. open' \in {open, open - 1} /\ failures' \in {failures, failures + 1}
    BY <1>8 DEF GetAccounts, GetOrgAdmin, FailAndLeak, CloseSdkConnection, connections
  <2>3. ASSUME NEW n, n.pc \in {"roles", "reply"}, req' = [req EXCEPT ![r] = n]
        PROVE  Turn(r, n)
    <3>1. LeavesOrder(r, n)
      BY <2>1, <2>2, <2>3 DEF LeavesOrder, OrderPlaces
    <3>2. QED
      BY <2>1, <2>3, <3>1 DEF Turn
  <2>4. CASE Fail(r) \/ \E users, flagged : Found(r, users, flagged)
    BY <2>3, <2>4, ReplyRecord
  <2>5. CASE \E users : req' = [req EXCEPT ![r] = HasFound(q, "roles", <<>>, users)]
    <3>1. PICK users : req' = [req EXCEPT ![r] = HasFound(q, "roles", <<>>, users)]
      BY <2>5
    <3>2. HasFound(q, "roles", <<>>, users).pc = "roles"
      BY <1>1 DEF Req, HasFound
    <3> DEFINE n == HasFound(q, "roles", <<>>, users)
    <3> HIDE DEF n
    <3>3. LeavesOrder(r, n)
      BY <2>1, <2>2, <3>2 DEF LeavesOrder, OrderPlaces, n
    <3>4. Turn(r, n)
      BY <2>1, <3>1, <3>3 DEF Turn, n
    <3>5. QED
      BY <3>4
  <2>6. QED
    BY <1>8, <2>4, <2>5 DEF GetAccounts, GetOrgAdmin, FailAndLeak, HasFound
<1>9. CASE MockAnswers(r) \/ GetAccessToken(r) \/ ServiceAnswers(r) \/ ServiceTimesOut(r)
  <2>1. /\ q.pc \in {"connect", "token", "service"} /\ UNCHANGED <<usersModule, changes>>
        /\ UNCHANGED orders /\ UNCHANGED <<open, failures>>
    BY <1>9 DEF MockAnswers, GetAccessToken, ServiceAnswers, ServiceTimesOut, admins, connections
  <2>2. ASSUME NEW n, n.pc \in {"service", "dropped", "reply"}, req' = [req EXCEPT ![r] = n]
        PROVE  Turn(r, n)
    <3>1. LeavesOrder(r, n)
      BY <2>1, <2>2 DEF LeavesOrder, OrderPlaces
    <3>2. QED
      BY <2>1, <2>2, <3>1 DEF Turn
  <2>3. CASE Fail(r) \/ \E users, flagged : Found(r, users, flagged)
    BY <2>2, <2>3, ReplyRecord
  <2>4. CASE \E pc \in {"service", "dropped"} : req' = [req EXCEPT ![r].pc = pc]
    <3>1. PICK pc \in {"service", "dropped"} : req' = [req EXCEPT ![r].pc = pc]
      BY <2>4
    <3> DEFINE n == [q EXCEPT !.pc = pc]
    <3>2. n.pc = pc /\ req' = [req EXCEPT ![r] = n]
      BY <1>2, <3>1
    <3> HIDE DEF n
    <3>3. LeavesOrder(r, n)
      BY <2>1, <3>1, <3>2 DEF LeavesOrder, OrderPlaces
    <3>4. Turn(r, n)
      BY <2>1, <3>2, <3>3 DEF Turn
    <3>5. QED
      BY <3>4
  <2>5. QED
    BY <1>9, <2>3, <2>4
       DEF MockAnswers, GetAccessToken, ServiceAnswers, ServiceTimesOut, Panic
<1>10. CASE Reply(r)
  <2>1. /\ q.pc \in {"reply", "dropped"} /\ UNCHANGED <<usersModule, changes>>
        /\ UNCHANGED orders /\ UNCHANGED <<open, failures>> /\ req' = [req EXCEPT ![r] = Idle]
    BY <1>10 DEF Reply, admins, connections
  <2>2. LeavesOrder(r, Idle)
    BY <1>1, <2>1 DEF LeavesOrder, OrderPlaces
  <2>3. QED
    BY <2>1, <2>2 DEF Turn
<1>11. QED
  BY <1>4, <1>5, <1>6, <1>7, <1>8, <1>9, <1>10 DEF Handler

(***************************************************************************)
(* The shared order.                                                       *)
(***************************************************************************)
Heard(words) == ToSet(words) \subseteq ToSet(asked)

\* A request has the words that end with its own direction.
OwnLast(q) == Heard(q.words) /\ (q.in.sort # "" => Last(q.words) = q.in.sort)

\* How far a request is with the two words of the order.
Ordered(q) ==
  /\ q.pc \in OrderPlaces => OwnLast(q)
  /\ q.pc = "accounts" /\ q.in.call # "v1" => OwnLast(q)
  /\ q.pc = "store" => order.text = order.length
  /\ q.pc = "storeText" => order.length = q.words
  /\ q.pc = "storeLength" => order.text = q.words
  /\ q.pc = "reload" => order.text = q.words /\ order.length = q.words

\* What holds as long as no two uses of the order overlapped.
InTurn ==
  /\ \A r, s \in Requests : UsesOrder(r) /\ UsesOrder(s) => r = s
  /\ (\A r \in Requests : ~UsesOrder(r)) => order.text = order.length
  /\ Heard(order.text) /\ Heard(order.length)
  /\ \A r \in Requests : Ordered(req[r])

OrderInv == asked \in Words /\ (~overlapped => InTurn)

LEMMA LongerWords ==
  ASSUME NEW words \in Words, NEW sort, sort \in {i.sort : i \in Queries} \cup {Torn}
  PROVE  /\ words \o <<sort>> \in Words
         /\ ToSet(words \o <<sort>>) = ToSet(words) \cup {sort}
         /\ Last(words \o <<sort>>) = sort
         /\ Append(words, sort) = words \o <<sort>>
<1> DEFINE S == {i.sort : i \in Queries} \cup {Torn}
<1>1. words \in Seq(S) /\ <<sort>> \in Seq(S) /\ Len(<<sort>>) = 1 /\ <<sort>>[1] = sort
  BY DEF Words
<1> HIDE DEF S
<1>2. Append(words, sort) = words \o <<sort>>
  BY <1>1, AppendIsConcat DEF S
<1> DEFINE longer == words \o <<sort>>
           n == Len(words)
<1>3. /\ n \in Nat /\ longer \in Seq(S) /\ Len(longer) = n + 1
      /\ \A i \in 1..(n + 1) : longer[i] = IF i <= n THEN words[i] ELSE sort
  <2>1. /\ longer \in Seq(S) /\ Len(longer) = n + 1
        /\ \A i \in 1..(n + 1) : longer[i] = IF i <= n THEN words[i] ELSE <<sort>>[i - n]
    BY <1>1, ConcatProperties
  <2>2. n \in Nat
    BY <1>1, LenProperties
  <2>3. \A i \in 1..(n + 1) : ~(i <= n) => i - n = 1
    BY <2>2
  <2>4. QED
    BY <1>1, <2>1, <2>2, <2>3
<1>4. DOMAIN longer = 1..(n + 1) /\ DOMAIN words = 1..n
  BY <1>1, <1>3, LenProperties
<1> HIDE DEF longer, n
<1>5. ToSet(longer) = ToSet(words) \cup {sort}
  <2>1. ToSet(longer) = {longer[i] : i \in 1..(n + 1)} /\ ToSet(words) = {words[i] : i \in 1..n}
    BY <1>4 DEF ToSet
  <2>2. n + 1 \in 1..(n + 1) /\ longer[n + 1] = sort
    BY <1>3
  <2>3. \A i \in 1..n : i \in 1..(n + 1) /\ longer[i] = words[i]
    BY <1>3
  <2>4. \A i \in 1..(n + 1) : longer[i] = sort \/ i \in 1..n
    BY <1>3
  <2>5. QED
    BY <2>1, <2>2, <2>3, <2>4
<1>6. Last(longer) = sort
  BY <1>3 DEF Last
<1>7. QED
  BY <1>1, <1>2, <1>3, <1>5, <1>6 DEF longer, Words, S

\* Other requests keep their words while one has its turn.
LEMMA OthersOrdered ==
  ASSUME LookupInv, InTurn, asked \in Words, NEW r \in Requests, NEW n,
         req' = [req EXCEPT ![r] = n], ToSet(asked) \subseteq ToSet(asked'),
         NEW s \in Requests, s # r, ~UsesOrder(s)
  PROVE  Ordered(req[s])'
<1>1. req'[s] = req[s]
  BY DEF LookupInv
<1>2. Ordered(req[s]) /\ req[s].pc \notin {"store", "storeText", "storeLength", "reload"}
  BY DEF InTurn, UsesOrder
<1>3. QED
  BY <1>1, <1>2 DEF Ordered, OwnLast, Heard, OrderPlaces

LEMMA LoadsInTurn ==
  ASSUME LookupInv, InTurn, asked \in Words, NEW r \in Requests, NEW n,
         req' = [req EXCEPT ![r] = n], LoadsOrder(r, n), \A s \in Requests : ~UsesOrder(s)
  PROVE  InTurn' /\ asked' \in Words
<1> DEFINE sort == req[r].in.sort
<1>1. /\ req[r] \in Req /\ req[r].pc = "order" /\ order' = order /\ order \in Orders
      /\ order.text \in Words /\ order.text = order.length /\ Heard(order.text)
      /\ Loaded(order) = order.text
  BY DEF LookupInv, LoadsOrder, InTurn, Loaded, Orders
<1>2. req[r].in \in Queries
  BY <1>1, InputAtWork DEF LookupInv, AtWork, Good, Proper, Queries
<1>3. sort \in {i.sort : i \in Queries} \cup {Torn}
  BY <1>2
<1>4. \A s \in Requests : req'[s] = IF s = r THEN n ELSE req[s]
  BY DEF LookupInv
<1>5. n.in = req[r].in
  BY DEF LoadsOrder
<1>6. CASE sort = ""
  <2>1. n.pc = "accounts" /\ asked' = asked /\ n.words = order.text
    <3>1. n.words = order.text \o <<>>
      BY <1>1, <1>6 DEF LoadsOrder
    <3>2. QED
      BY <1>1, <1>6, <3>1, ConcatEmptySeq DEF LoadsOrder, Words
  <2>2. Ordered(req[r])'
    BY <1>1, <1>4, <1>5, <1>6, <2>1 DEF Ordered, OwnLast, Heard, OrderPlaces
  <2>3. \A s \in Requests : Ordered(req[s])'
    BY <2>1, <2>2, OthersOrdered
  <2>4. QED
    BY <1>1, <1>4, <2>1, <2>3 DEF InTurn, UsesOrder, Heard
<1>7. CASE sort # ""
  <2> HIDE DEF sort
  <2>1. n.pc = "store" /\ asked' = Append(asked, sort) /\ n.words = order.text \o <<sort>>
    BY <1>1, <1>7 DEF LoadsOrder, sort
  <2>2. asked' \in Words /\ ToSet(asked') = ToSet(asked) \cup {sort}
    BY <1>3, <2>1, LongerWords
  <2>3. ToSet(n.words) = ToSet(order.text) \cup {sort} /\ Last(n.words) = sort
    BY <1>1, <1>3, <2>1, LongerWords
  <2>4. Ordered(req[r])'
    BY <1>1, <1>4, <1>5, <2>1, <2>2, <2>3 DEF Ordered, OwnLast, Heard, sort
  <2>5. \A s \in Requests : Ordered(req[s])'
    BY <2>2, <2>4, OthersOrdered
  <2>6. QED
    BY <1>1, <1>4, <2>1, <2>2, <2>5 DEF InTurn, UsesOrder, Heard
<1>8. QED
  BY <1>6, <1>7

LEMMA StoresInTurn ==
  ASSUME LookupInv, InTurn, asked \in Words, NEW r \in Requests, NEW n,
         req' = [req EXCEPT ![r] = n], StoresOrder(r, n)
  PROVE  InTurn'
<1>1. /\ UsesOrder(r) /\ req[r].pc \in OrderPlaces /\ asked' = asked
      /\ n.pc \in OrderPlaces /\ n.in = req[r].in /\ n.words = req[r].words
  BY DEF StoresOrder, UsesOrder, OrderPlaces
<1>2. \A s \in Requests : s # r => ~UsesOrder(s)
  BY <1>1 DEF InTurn
<1>3. \A s \in Requests : req'[s] = IF s = r THEN n ELSE req[s]
  BY DEF LookupInv
<1>4. Ordered(req[r]) /\ Heard(req[r].words)
  BY <1>1 DEF InTurn, Ordered, OwnLast
<1>5. Heard(order.text)' /\ Heard(order.length)' /\ Ordered(req[r])'
  <2>1. order = [text |-> order.text, length |-> order.length]
    BY DEF LookupInv, Orders
  <2>2. ToSet(n.words) \subseteq ToSet(asked) /\ (n.in.sort # "" => Last(n.words) = n.in.sort)
    BY <1>1, <1>4 DEF Ordered, OwnLast, Heard
  <2>3. CASE order' = [order EXCEPT !.text = req[r].words]
    <3>1. order'.text = req[r].words /\ order'.length = order.length
      BY <2>1, <2>3
    <3>2. order.length # req[r].words => n.pc = "storeLength"
      BY <1>4, <2>1, <2>3 DEF StoresOrder, Ordered
    <3>3. QED
      BY <1>1, <1>3, <1>4, <2>2, <3>1, <3>2 DEF InTurn, Heard, Ordered, OwnLast, OrderPlaces
  <2>4. CASE order' = [order EXCEPT !.length = req[r].words]
    <3>1. order'.length = req[r].words /\ order'.text = order.text
      BY <2>1, <2>4
    <3>2. order.text # req[r].words => n.pc = "storeText"
      BY <1>4, <2>1, <2>4 DEF StoresOrder, Ordered
    <3>3. QED
      BY <1>1, <1>3, <1>4, <2>2, <3>1, <3>2 DEF InTurn, Heard, Ordered, OwnLast, OrderPlaces
  <2>5. QED
    BY <2>3, <2>4 DEF StoresOrder
<1>6. \A s \in Requests : Ordered(req[s])'
  BY <1>1, <1>2, <1>5, OthersOrdered
<1>7. \A s \in Requests : s # r => ~UsesOrder(s)'
  BY <1>2, <1>3 DEF UsesOrder
<1>8. UsesOrder(r)'
  BY <1>1, <1>3 DEF UsesOrder, OrderPlaces
<1>9. QED
  BY <1>5, <1>6, <1>7, <1>8 DEF InTurn

LEMMA ReturnsInTurn ==
  ASSUME LookupInv, InTurn, asked \in Words, NEW r \in Requests, NEW n,
         req' = [req EXCEPT ![r] = n], ReturnsOrder(r, n)
  PROVE  InTurn'
<1>1. /\ UsesOrder(r) /\ req[r].pc = "reload" /\ UNCHANGED <<asked, order>>
      /\ n.pc = "accounts" /\ n.in = req[r].in
  BY DEF ReturnsOrder, UsesOrder, orders
<1>2. \A s \in Requests : s # r => ~UsesOrder(s)
  BY <1>1 DEF InTurn
<1>3. \A s \in Requests : req'[s] = IF s = r THEN n ELSE req[s]
  BY DEF LookupInv
<1>4. OwnLast(req[r]) /\ order.text = req[r].words /\ order.length = req[r].words
  BY <1>1 DEF InTurn, Ordered, OrderPlaces
<1>5. n.words = req[r].words
  BY <1>4 DEF ReturnsOrder, Loaded
<1>6. Ordered(req[r])'
  BY <1>1, <1>3, <1>4, <1>5 DEF Ordered, OwnLast, Heard, OrderPlaces
<1>7. \A s \in Requests : Ordered(req[s])'
  BY <1>1, <1>2, <1>6, OthersOrdered
<1>8. \A s \in Requests : ~UsesOrder(s)'
  BY <1>1, <1>2, <1>3 DEF UsesOrder
<1>9. QED
  BY <1>1, <1>4, <1>7, <1>8 DEF InTurn, Heard

LEMMA LeavesInTurn ==
  ASSUME LookupInv, InTurn, NEW r \in Requests, NEW n,
         req' = [req EXCEPT ![r] = n], UNCHANGED <<order, asked>>,
         req[r].pc \notin OrderPlaces, n.pc \notin OrderPlaces,
         n.pc = "accounts" => n.in.call = "v1"
  PROVE  InTurn'
<1>1. \A s \in Requests : req'[s] = IF s = r THEN n ELSE req[s]
  BY DEF LookupInv
<1>2. \A s \in Requests : UsesOrder(s)' <=> UsesOrder(s)
  BY <1>1 DEF UsesOrder, OrderPlaces
<1>3. ASSUME NEW s \in Requests PROVE Ordered(req[s])'
  <2>1. Ordered(req[s]) /\ (s = r => Ordered(n)')
    BY DEF InTurn, Ordered, OrderPlaces
  <2>2. QED
    BY <1>1, <2>1 DEF Ordered, OwnLast, Heard
<1>4. QED
  BY <1>2, <1>3 DEF InTurn, Heard

LEMMA TurnKeepsOrder ==
  ASSUME LookupInv, OrderInv, NEW r \in Requests, NEW n, Turn(r, n)
  PROVE  OrderInv'
<1>1. asked \in Words /\ req' = [req EXCEPT ![r] = n]
  BY DEF OrderInv, Turn
<1>2. CASE LoadsOrder(r, n)
  <2>1. asked' \in Words
    <3>1. req[r] \in Req /\ Good(req[r]) /\ req[r].pc = "order"
      BY <1>2 DEF LookupInv, LoadsOrder
    <3>2. req[r].in \in Queries
      BY <3>1 DEF LookupInv, Good, Proper, Queries
    <3>3. asked' = asked \/ asked' = Append(asked, req[r].in.sort)
      BY <1>2 DEF LoadsOrder
    <3>4. QED
      BY <1>1, <3>2, <3>3, LongerWords
  <2>2. ~overlapped' => ~overlapped /\ \A s \in Requests : ~UsesOrder(s)
    <3>1. overlapped' = (overlapped \/ \E s \in Requests : UsesOrder(s))
      BY <1>2 DEF LoadsOrder
    <3>2. QED
      BY <3>1, Zenon
  <2>3. ~overlapped' => InTurn /\ \A s \in Requests : ~UsesOrder(s)
    BY <2>2, Zenon DEF OrderInv
  <2>4. InTurn /\ (\A s \in Requests : ~UsesOrder(s)) => InTurn'
    BY <1>1, <1>2, LoadsInTurn
  <2>5. QED
    BY <2>1, <2>3, <2>4, Zenon DEF OrderInv
<1>3. ASSUME asked' = asked, overlapped' = overlapped, InTurn => InTurn'
      PROVE  OrderInv'
  BY <1>1, <1>3, Zenon DEF OrderInv
<1>4. CASE StoresOrder(r, n)
  <2>1. asked' = asked
    BY <1>4 DEF StoresOrder
  <2>2. overlapped' = overlapped
    BY <1>4, Zenon DEF StoresOrder
  <2>3. QED
    BY <1>1, <1>3, <1>4, <2>1, <2>2, StoresInTurn
<1>5. CASE ReturnsOrder(r, n)
  <2>1. asked' = asked
    BY <1>5 DEF ReturnsOrder, orders
  <2>2. overlapped' = overlapped
    BY <1>5, Zenon DEF ReturnsOrder, orders
  <2>3. QED
    BY <1>1, <1>3, <1>5, <2>1, <2>2, ReturnsInTurn
<1>6. CASE LeavesOrder(r, n)
  <2>1. asked' = asked /\ order' = order
    BY <1>6 DEF LeavesOrder, orders
  <2>2. overlapped' = overlapped
    BY <1>6, Zenon DEF LeavesOrder, orders
  <2>3. /\ req[r].pc \notin OrderPlaces /\ n.pc \notin OrderPlaces
        /\ n.pc = "accounts" => n.in.call = "v1"
    BY <1>6 DEF LeavesOrder
  <2>4. QED
    BY <1>1, <1>3, <2>1, <2>2, <2>3, LeavesInTurn
<1>7. QED
  BY <1>2, <1>4, <1>5, <1>6 DEF Turn

\* A process that begins has the default order and no request.
LEMMA BeginsInTurn ==
  ASSUME req = [r \in Requests |-> Idle], order = [text |-> <<>>, length |-> <<>>], asked = <<>>
  PROVE  InTurn /\ asked \in Words
<1>1. \A r \in Requests : req[r] = Idle /\ Idle.pc = "idle"
  BY DEF Idle
<1>2. order.text = <<>> /\ order.length = <<>> /\ asked \in Words
  BY EmptySeq DEF Words
<1>3. Heard(order.text) /\ Heard(order.length)
  BY <1>2 DEF Heard
<1>4. ASSUME NEW r \in Requests PROVE Ordered(req[r]) /\ ~UsesOrder(r)
  <2>1. req[r].pc = "idle"
    BY <1>1
  <2>2. QED
    BY <2>1 DEF Ordered, OrderPlaces, UsesOrder
<1>5. QED
  BY <1>2, <1>3, <1>4 DEF InTurn

\* A request begins, before it comes to the order.
LEMMA ReceiveBegins ==
  ASSUME LookupInv, NEW r \in Requests, NEW i \in Inputs[usersModule], Receive(r, i)
  PROVE  \E n : /\ req' = [req EXCEPT ![r] = n]
                /\ req[r].pc = "idle" /\ n.in = i /\ n.pc \in {"reply", "token", "connect"}
                /\ UNCHANGED <<order, asked, open, failures, changes>>
<1> DEFINE status == IF Refused(i) \/ ~i.parses THEN 400 ELSE Null
           pc == IF Refused(i) THEN "reply"
                 ELSE IF usersModule = "keycloak" THEN "token" ELSE "connect"
           n == Begun(Idle, i, bindings, status, pc)
<1>1. /\ req' = [req EXCEPT ![r] = n] /\ req[r].pc = "idle"
      /\ UNCHANGED <<order, asked, open, failures, changes>>
  BY DEF Receive, Begun, orders, connections, admins
<1>2. pc \in {"reply", "token", "connect"}
  OBVIOUS
<1> HIDE DEF pc, status
<1>3. n.pc = pc /\ n.in = i
  BY DEF Begun, Idle
<1> HIDE DEF n
<1>4. QED
  BY <1>1, <1>2, <1>3

\* A change of bindings touches the history of a request only.
LEMMA BindingsTouch ==
  ASSUME LookupInv, NEW a \in Accounts, ChangeBinding(a), NEW r \in Requests
  PROVE  /\ req'[r].pc = req[r].pc /\ req'[r].in = req[r].in /\ req'[r].words = req[r].words
         /\ req[r].pc = "idle" => req'[r] = req[r]
<1>1. req[r] \in Req
  BY DEF LookupInv
<1> DEFINE n == [req[r] EXCEPT !.held = @ \cup bindings', !.kept = @ \cap bindings']
<1>2. n.pc = req[r].pc /\ n.in = req[r].in /\ n.words = req[r].words
  BY <1>1 DEF Req
<1>3. req'[r] = IF req[r].pc = "idle" \/ req[r].status = 500 THEN req[r] ELSE n
  BY DEF ChangeBinding
<1> HIDE DEF n
<1>4. QED
  BY <1>2, <1>3

LEMMA NextOrder == LookupInv /\ OrderInv /\ [Next]_vars => OrderInv'
<1> SUFFICES ASSUME LookupInv, OrderInv, [Next]_vars PROVE OrderInv'
  OBVIOUS
<1>1. ASSUME asked' = asked, overlapped' = overlapped, InTurn => InTurn'
      PROVE  OrderInv'
  BY <1>1, Zenon DEF OrderInv
<1>2. CASE UNCHANGED lookupVars
  <2>1. overlapped' = overlapped
    BY <1>2, Zenon DEF lookupVars
  <2>2. UNCHANGED <<req, order, asked>>
    BY <1>2 DEF lookupVars
  <2>3. InTurn => InTurn'
    BY <2>2 DEF InTurn, UsesOrder, Heard, Ordered, OwnLast
  <2>4. QED
    BY <1>1, <2>1, <2>2, <2>3
<1>3. CASE ~NoModule /\ LookupNext
  <2>1. ASSUME NEW r \in Requests, Handler(r) PROVE OrderInv'
    BY <2>1, HandlerTurns, TurnKeepsOrder
  <2>2. ASSUME NEW r \in Requests, NEW i \in Inputs[usersModule], Receive(r, i)
        PROVE  OrderInv'
    <3>1. overlapped' = overlapped
      BY <2>2, Zenon DEF Receive, orders
    <3>2. PICK n : /\ req' = [req EXCEPT ![r] = n]
                   /\ req[r].pc = "idle" /\ n.in = i /\ n.pc \in {"reply", "token", "connect"}
                   /\ UNCHANGED <<order, asked, open, failures, changes>>
      BY <2>2, ReceiveBegins
    <3>3. InTurn => InTurn'
      BY <3>2, LeavesInTurn DEF OrderPlaces
    <3>4. QED
      BY <1>1, <3>1, <3>2, <3>3
  <2>3. ASSUME NEW a \in Accounts, ChangeBinding(a) PROVE OrderInv'
    <3>1. overlapped' = overlapped
      BY <2>3, Zenon DEF ChangeBinding, orders
    <3>2. UNCHANGED <<order, asked>>
      BY <2>3 DEF ChangeBinding, orders
    <3>3. \A r \in Requests :
            req'[r].pc = req[r].pc /\ req'[r].in = req[r].in /\ req'[r].words = req[r].words
      BY <2>3, BindingsTouch
    <3>4. \A r \in Requests : UsesOrder(r)' <=> UsesOrder(r)
      BY <3>3 DEF UsesOrder
    <3>5. \A r \in Requests : Ordered(req[r])' <=> Ordered(req[r])
      BY <3>2, <3>3 DEF Ordered, OwnLast, Heard
    <3>6. Heard(order.text)' = Heard(order.text) /\ Heard(order.length)' = Heard(order.length)
      BY <3>2 DEF Heard
    <3>7. InTurn => InTurn'
      BY <3>2, <3>4, <3>5, <3>6 DEF InTurn
    <3>8. QED
      BY <1>1, <3>1, <3>2, <3>7
  <2>4. CASE Restart
    <3>1. (InTurn /\ asked \in Words)'
      <4>1. /\ req' = [r \in Requests |-> Idle] /\ order' = [text |-> <<>>, length |-> <<>>]
            /\ asked' = <<>>
        BY <2>4 DEF Restart
      <4>2. \A r \in Requests : req'[r].pc = "idle"
        BY <4>1 DEF Idle
      <4>3. asked' \in Words /\ order'.text = <<>> /\ order'.length = <<>>
        BY <4>1, EmptySeq DEF Words
      <4>4. Heard(order.text)' /\ Heard(order.length)'
        BY <4>1, <4>3 DEF Heard
      <4>5. ASSUME NEW r \in Requests PROVE Ordered(req[r])' /\ ~UsesOrder(r)'
        BY <4>2 DEF Ordered, OrderPlaces, UsesOrder
      <4>6. QED
        BY <4>3, <4>4, <4>5 DEF InTurn
    <3>2. QED
      BY <3>1, Zenon DEF OrderInv
  <2>5. QED
    BY <1>3, <2>1, <2>2, <2>3, <2>4 DEF LookupNext
<1>4. QED
  BY <1>2, <1>3 DEF Next, vars

LEMMA OrderInvariant == Spec => []OrderInv
<1>1. Init => OrderInv
  <2> SUFFICES ASSUME Init PROVE OrderInv
    OBVIOUS
  <2>1. InTurn /\ asked \in Words
    BY BeginsInTurn DEF Init, LookupInit
  <2>2. QED
    BY <2>1, Zenon DEF OrderInv
<1>2. QED
  BY <1>1, NextOrder, LookupInvariant, PTL DEF Spec

\* As long as no two requests use the order at the same time, a sorted query ends
\* with its own direction, and sends none that nobody asked for.
THEOREM DirectionsAreOwn == Spec => []OwnDirectionLast
<1>1. OrderInv => OwnDirectionLast
  <2> SUFFICES ASSUME OrderInv, NEW r \in Requests,
                      req[r].pc = "accounts", req[r].in.call # "v1", ~overlapped
               PROVE  /\ ToSet(req[r].words) \subseteq ToSet(asked)
                      /\ req[r].in.sort # "" => Last(req[r].words) = req[r].in.sort
    BY Zenon DEF OwnDirectionLast
  <2>1. InTurn
    BY Zenon DEF OrderInv
  <2>2. QED
    BY <2>1 DEF InTurn, Ordered, OwnLast, Heard
<1>2. QED
  BY <1>1, OrderInvariant, PTL

(***************************************************************************)
(* The bounds.                                                             *)
(***************************************************************************)
Waiting == {r \in Requests : req[r].pc = "connect"}
Sorting == {r \in Requests : SortPending(r)}

\* No word is longer than the directions that were asked for, torn or not.
Short(words) == Len(words) <= Len(asked)

BoundsInv ==
  /\ asked \in Words /\ failures \in Nat /\ changes \in 0..MaxChanges
  /\ open + Cardinality(Waiting) <= MaxOpen
  /\ Len(asked) + Cardinality(Sorting) <= MaxWords
  /\ Short(order.text) /\ Short(order.length)
  /\ \A r \in Requests :
       /\ req[r].pc \in OrderPlaces => Short(req[r].words)
       /\ req[r].pc = "idle" => req[r] = Idle

LEMMA Counts ==
  ASSUME NEW S \in SUBSET Requests, NEW T \in SUBSET S
  PROVE  /\ IsFiniteSet(S) /\ Cardinality(S) \in Nat /\ Cardinality(T) \in Nat
         /\ Cardinality(T) <= Cardinality(S)
<1>1. IsFiniteSet(S)
  BY AccountsAssumption, FS_Subset DEF AccountsAssumption
<1>2. IsFiniteSet(T) /\ Cardinality(T) <= Cardinality(S)
  BY <1>1, FS_Subset
<1>3. QED
  BY <1>1, <1>2, FS_CardinalityType

LEMMA CountWithout ==
  ASSUME NEW S \in SUBSET Requests, NEW r \in S, NEW T \in SUBSET (S \ {r})
  PROVE  Cardinality(T) + 1 <= Cardinality(S)
<1>1. Cardinality(S \ {r}) = Cardinality(S) - 1
  BY Counts, FS_RemoveElement
<1>2. Cardinality(T) \in Nat /\ Cardinality(S) \in Nat /\ Cardinality(T) <= Cardinality(S \ {r})
  BY Counts
<1>3. QED
  BY <1>1, <1>2

LEMMA CountWith ==
  ASSUME NEW S \in SUBSET Requests, NEW r \in Requests, NEW T \in SUBSET (S \cup {r})
  PROVE  Cardinality(T) <= Cardinality(S) + 1
<1>1. Cardinality(S \cup {r}) <= Cardinality(S) + 1
  BY Counts, FS_AddElement
<1>2. Cardinality(T) \in Nat /\ Cardinality(S) \in Nat /\ Cardinality(T) <= Cardinality(S \cup {r})
  BY Counts
<1>3. QED
  BY <1>1, <1>2, Counts

LEMMA LoadedShort ==
  ASSUME LookupInv, BoundsInv
  PROVE  Loaded(order) \in Words /\ Short(Loaded(order))
<1> DEFINE S == {i.sort : i \in Queries} \cup {Torn}
<1>1. /\ order.text \in Seq(S) /\ order.length \in Seq(S) /\ asked \in Seq(S)
      /\ Short(order.text) /\ Short(order.length)
  BY DEF LookupInv, BoundsInv, Orders, Words
<1>2. <<Torn>> \in Seq(S) /\ Len(<<Torn>>) = 1
  OBVIOUS
<1> HIDE DEF S
<1>3. order.text # order.length => Len(asked) >= 1
  <2>1. Len(order.text) \in Nat /\ Len(order.length) \in Nat /\ Len(asked) \in Nat
    BY <1>1, LenProperties
  <2>2. Len(order.text) = 0 /\ Len(order.length) = 0 => order.text = order.length
    BY <1>1, SeqEqual
  <2>3. QED
    BY <1>1, <2>1, <2>2 DEF Short
<1>4. QED
  BY <1>1, <1>2, <1>3 DEF Loaded, Short, Words, S

\* What a turn of a request does to the counts.
LEMMA TurnCounts ==
  ASSUME LookupInv, NEW r \in Requests, NEW n, req' = [req EXCEPT ![r] = n]
  PROVE  /\ Waiting' = IF n.pc = "connect" THEN Waiting \cup {r} ELSE Waiting \ {r}
         /\ Sorting' = IF n.pc \in {"connect", "order"} /\ n.in.sort # ""
                       THEN Sorting \cup {r} ELSE Sorting \ {r}
<1>1. \A s \in Requests : req'[s] = IF s = r THEN n ELSE req[s]
  BY DEF LookupInv
<1>2. Waiting' = IF n.pc = "connect" THEN Waiting \cup {r} ELSE Waiting \ {r}
  BY <1>1 DEF Waiting
<1>3. \A s \in Requests : SortPending(s)' <=>
        IF s = r THEN n.pc \in {"connect", "order"} /\ n.in.sort # "" ELSE SortPending(s)
  BY <1>1 DEF SortPending
<1>4. Sorting' = IF n.pc \in {"connect", "order"} /\ n.in.sort # ""
                 THEN Sorting \cup {r} ELSE Sorting \ {r}
  BY <1>3 DEF Sorting
<1>5. QED
  BY <1>2, <1>4

\* The bounds that a request keeps by itself.
ReqShort(q) ==
  /\ q.pc \in OrderPlaces => Short(q.words)
  /\ q.pc = "idle" => q = Idle

LEMMA OthersShort ==
  ASSUME LookupInv, BoundsInv, NEW r \in Requests, NEW n, req' = [req EXCEPT ![r] = n],
         ReqShort(n)', Len(asked) <= Len(asked'), asked' \in Words
  PROVE  /\ \A s \in Requests : ReqShort(req[s])'
         /\ Short(order.text) => Len(order.text) <= Len(asked')
         /\ Short(order.length) => Len(order.length) <= Len(asked')
<1>1. Len(asked) \in Nat /\ Len(asked') \in Nat
  BY LenProperties DEF BoundsInv, Words
<1>2. Len(order.text) \in Nat /\ Len(order.length) \in Nat
  BY LenProperties DEF LookupInv, Orders, Words
<1>3. ASSUME NEW s \in Requests PROVE ReqShort(req[s])'
  <2>1. req'[s] = IF s = r THEN n ELSE req[s]
    BY DEF LookupInv
  <2>2. Len(req[s].words) \in Nat
    BY LenProperties DEF LookupInv, Req, Words
  <2>3. ReqShort(req[s])
    BY DEF BoundsInv, ReqShort
  <2>4. QED
    BY <1>1, <2>1, <2>2, <2>3 DEF ReqShort, Short
<1>4. QED
  BY <1>1, <1>2, <1>3 DEF Short

LEMMA BoundsAreNumbers == MaxOpen \in Nat /\ MaxWords \in Nat /\ MaxChanges \in Nat
BY BoundsAssumption DEF BoundsAssumption

LEMMA LoadsKeepsBounds ==
  ASSUME LookupInv, BoundsInv, NEW r \in Requests, NEW n,
         req' = [req EXCEPT ![r] = n], LoadsOrder(r, n), UNCHANGED <<changes, connections>>,
         open \in Int
  PROVE  BoundsInv'
<1> DEFINE sort == req[r].in.sort
<1>1. /\ req[r] \in Req /\ Good(req[r]) /\ req[r].pc = "order" /\ n.in = req[r].in
      /\ n.pc = IF sort = "" THEN "accounts" ELSE "store"
      /\ asked' = IF sort = "" THEN asked ELSE Append(asked, sort)
      /\ n.words = Loaded(order) \o (IF sort = "" THEN <<>> ELSE <<sort>>)
      /\ order' = order /\ open' = open /\ failures' = failures /\ changes' = changes
  BY DEF LookupInv, LoadsOrder, connections
<1>2. sort \in {i.sort : i \in Queries} \cup {Torn}
  <2>1. req[r].in \in Inputs[usersModule] /\ usersModule \in Modules
    BY <1>1 DEF LookupInv, Good, Proper
  <2>2. req[r].in \in Queries
    BY <2>1 DEF Queries
  <2>3. QED
    BY <2>2
<1>3. Waiting' \subseteq Waiting /\ Sorting' = Sorting \ {r} /\ Waiting \subseteq Requests
      /\ Sorting \subseteq Requests
  BY <1>1, TurnCounts DEF Waiting, Sorting
<1>4. Cardinality(Waiting') <= Cardinality(Waiting)
      /\ Cardinality(Waiting) \in Nat /\ Cardinality(Waiting') \in Nat
  BY <1>3, Counts
<1>5. /\ Cardinality(Sorting') \in Nat /\ Cardinality(Sorting) \in Nat
      /\ Cardinality(Sorting') <= Cardinality(Sorting)
      /\ sort # "" => Cardinality(Sorting') + 1 <= Cardinality(Sorting)
  <2>1. sort # "" => r \in Sorting
    BY <1>1 DEF Sorting, SortPending
  <2>2. QED
    BY <1>3, <2>1, Counts, CountWithout
<1> HIDE DEF sort
<1>6. /\ asked' \in Words
      /\ Len(asked') = IF sort = "" THEN Len(asked) ELSE Len(asked) + 1
  <2> DEFINE S == {i.sort : i \in Queries} \cup {Torn}
  <2>1. asked \in Seq(S) /\ sort \in S
    BY <1>2 DEF BoundsInv, Words
  <2> HIDE DEF S
  <2>2. /\ Append(asked, sort) \in Seq(S) /\ Len(asked) \in Nat
        /\ Len(Append(asked, sort)) = Len(asked) + 1
    BY <2>1, AppendProperties, LenProperties
  <2>3. asked' \in Seq(S)
    BY <1>1, <2>1, <2>2
  <2>4. QED
    BY <1>1, <2>2, <2>3 DEF Words, S
<1>7. Len(asked) \in Nat /\ Len(asked) + Cardinality(Sorting) <= MaxWords
  BY LenProperties DEF BoundsInv, Words
<1>8. sort # "" => Len(n.words) <= Len(asked')
  <2>1. Loaded(order) \in Words /\ Len(Loaded(order)) <= Len(asked)
    BY LoadedShort DEF Short
  <2>2. Len(Loaded(order)) \in Nat
    BY <2>1, LenProperties DEF Words
  <2>3. sort # "" => Len(n.words) = Len(Loaded(order)) + 1
    <3>1. SUFFICES ASSUME sort # "" PROVE Len(n.words) = Len(Loaded(order)) + 1
      OBVIOUS
    <3>2. n.words = Append(Loaded(order), sort)
      BY <1>1, <1>2, <2>1, <3>1, LongerWords
    <3>3. QED
      BY <1>2, <2>1, <3>2, AppendProperties DEF Words
  <2>4. Len(Loaded(order)) + 1 <= Len(asked) + 1
    BY <1>7, <2>1, <2>2
  <2>5. QED
    BY <1>6, <2>3, <2>4
<1>9. ReqShort(n)'
  BY <1>1, <1>8 DEF ReqShort, Short, OrderPlaces
<1>10. /\ \A s \in Requests : ReqShort(req[s])'
       /\ Short(order.text)' /\ Short(order.length)'
  <2>1. Len(asked) <= Len(asked')
    <3>1. Len(asked) <= Len(asked) /\ Len(asked) <= Len(asked) + 1
      BY <1>7
    <3>2. QED
      BY <1>6, <3>1
  <2>2. order' = order /\ Short(order.text) /\ Short(order.length)
    BY <1>1 DEF BoundsInv
  <2>3. QED
    BY <1>6, <1>9, <2>1, <2>2, OthersShort DEF Short
<1>11. open' + Cardinality(Waiting') <= MaxOpen
  <2>1. open' = open /\ open + Cardinality(Waiting) <= MaxOpen
    BY <1>1 DEF BoundsInv
  <2>2. QED
    BY <1>4, <2>1, BoundsAreNumbers
<1>12. Len(asked') + Cardinality(Sorting') <= MaxWords
  <2>1. /\ Cardinality(Sorting') \in Nat /\ Cardinality(Sorting) \in Nat
        /\ Cardinality(Sorting') <= Cardinality(Sorting)
    BY <1>5
  <2>2. Len(asked) + Cardinality(Sorting') <= MaxWords
    BY <1>7, <2>1, BoundsAreNumbers
  <2>3. Cardinality(Sorting') + 1 <= Cardinality(Sorting)
          => Len(asked) + 1 + Cardinality(Sorting') <= MaxWords
    BY <1>7, <2>1, BoundsAreNumbers
  <2>4. sort # "" => Len(asked) + 1 + Cardinality(Sorting') <= MaxWords
    BY <1>5, <2>3
  <2>5. QED
    BY <1>6, <2>2, <2>4
<1>13. QED
  BY <1>1, <1>6, <1>10, <1>11, <1>12 DEF BoundsInv, ReqShort

LEMMA StoresKeepsBounds ==
  ASSUME LookupInv, BoundsInv, NEW r \in Requests, NEW n, open \in Int,
         req' = [req EXCEPT ![r] = n], UNCHANGED <<changes, connections>>,
         StoresOrder(r, n) \/ ReturnsOrder(r, n)
  PROVE  BoundsInv'
<1>1. /\ req[r] \in Req /\ req[r].pc \in OrderPlaces /\ ReqShort(req[r])
      /\ asked' = asked /\ open' = open /\ failures' = failures /\ changes' = changes
      /\ n.pc \in OrderPlaces \cup {"accounts"}
  BY DEF LookupInv, BoundsInv, ReqShort, StoresOrder, ReturnsOrder, orders, connections, OrderPlaces
<1>2. Waiting' = Waiting /\ Sorting' = Sorting
  BY <1>1, TurnCounts DEF Waiting, Sorting, SortPending, OrderPlaces
<1>3. Short(req[r].words)
  BY <1>1 DEF ReqShort
<1>4. Short(order.text)' /\ Short(order.length)'
  <2>1. order = [text |-> order.text, length |-> order.length]
    BY DEF LookupInv, Orders
  <2>2. \/ order' = order
        \/ order' = [order EXCEPT !.text = req[r].words]
        \/ order' = [order EXCEPT !.length = req[r].words]
    BY DEF StoresOrder, ReturnsOrder, orders
  <2>3. QED
    BY <1>1, <1>3, <2>1, <2>2 DEF BoundsInv, Short
<1>5. ReqShort(n)'
  <2>1. n.pc \in OrderPlaces => n.words = req[r].words
    BY DEF StoresOrder, ReturnsOrder, OrderPlaces
  <2>2. n.pc # "idle"
    BY <1>1 DEF OrderPlaces
  <2>3. QED
    BY <1>1, <1>3, <2>1, <2>2 DEF ReqShort, Short
<1>6. \A s \in Requests : ReqShort(req[s])'
  <2>1. Len(asked) <= Len(asked') /\ asked' \in Words
    BY <1>1, LenProperties DEF BoundsInv, Words
  <2>2. QED
    BY <1>5, <2>1, OthersShort
<1>7. QED
  BY <1>1, <1>2, <1>4, <1>6 DEF BoundsInv, ReqShort

LEMMA LeavesKeepsBounds ==
  ASSUME LookupInv, BoundsInv, NEW r \in Requests, NEW n, open \in Int,
         req' = [req EXCEPT ![r] = n], UNCHANGED changes, LeavesOrder(r, n)
  PROVE  BoundsInv'
<1>1. /\ req[r] \in Req /\ asked' = asked /\ order' = order
      /\ failures' \in Nat /\ changes' = changes
      /\ n.pc \notin OrderPlaces \cup {"connect"} /\ (n.pc = "idle" => n = Idle)
      /\ open' \in {open, open - 1} \/ (req[r].pc = "connect" /\ open' = open + 1)
  BY DEF LookupInv, BoundsInv, LeavesOrder, orders
<1>2. Waiting' = Waiting \ {r} /\ Waiting \subseteq Requests /\ Sorting \subseteq Requests
  BY <1>1, TurnCounts DEF Waiting, Sorting
<1>3. Sorting' \subseteq Sorting
  <2>1. n.pc \in {"connect", "order"} /\ n.in.sort # "" => SortPending(r)
    BY DEF LeavesOrder, SortPending
  <2>2. QED
    BY <2>1, TurnCounts DEF Sorting
<1>4. /\ Cardinality(Sorting') <= Cardinality(Sorting)
      /\ Cardinality(Sorting) \in Nat /\ Cardinality(Sorting') \in Nat
  BY <1>2, <1>3, Counts
<1>5. /\ Cardinality(Waiting') <= Cardinality(Waiting)
      /\ Cardinality(Waiting) \in Nat /\ Cardinality(Waiting') \in Nat
      /\ req[r].pc = "connect" => Cardinality(Waiting') + 1 <= Cardinality(Waiting)
  <2>1. req[r].pc = "connect" => r \in Waiting
    BY DEF Waiting
  <2>2. QED
    BY <1>2, <2>1, Counts, CountWithout
<1>6. open' + Cardinality(Waiting') <= MaxOpen
  BY <1>1, <1>5, BoundsAreNumbers DEF BoundsInv
<1>7. Len(asked') \in Nat /\ Len(asked') + Cardinality(Sorting') <= MaxWords
  <2>1. Len(asked) \in Nat
    BY LenProperties DEF BoundsInv, Words
  <2>2. QED
    BY <1>1, <1>4, <2>1, BoundsAreNumbers DEF BoundsInv
<1>8. \A s \in Requests : ReqShort(req[s])'
  <2>1. Len(asked) <= Len(asked') /\ asked' \in Words /\ ReqShort(n)'
    BY <1>1, <1>7 DEF BoundsInv, ReqShort
  <2>2. QED
    BY <2>1, OthersShort
<1>9. QED
  BY <1>1, <1>6, <1>7, <1>8 DEF BoundsInv, ReqShort, Short

LEMMA ReceiveKeepsBounds ==
  ASSUME LookupInv, BoundsInv, open \in Int, NEW r \in Requests,
         NEW i \in Inputs[usersModule], Receive(r, i)
  PROVE  BoundsInv'
<1>1. PICK n : /\ req' = [req EXCEPT ![r] = n]
               /\ req[r].pc = "idle" /\ n.in = i /\ n.pc \in {"reply", "token", "connect"}
               /\ UNCHANGED <<order, asked, open, failures, changes>>
  BY ReceiveBegins
<1>2. /\ Waiting' \subseteq Waiting \cup {r} /\ Waiting \subseteq Requests
      /\ Sorting' \subseteq Sorting \cup {r} /\ Sorting \subseteq Requests
      /\ i.sort = "" => Sorting' \subseteq Sorting
  <2>1. Sorting' = IF n.pc \in {"connect", "order"} /\ i.sort # ""
                   THEN Sorting \cup {r} ELSE Sorting \ {r}
    BY <1>1, TurnCounts
  <2>2. Waiting' \subseteq Waiting \cup {r}
    BY <1>1, TurnCounts
  <2>3. QED
    BY <2>1, <2>2 DEF Waiting, Sorting
<1>3. /\ open + Cardinality(Waiting) < MaxOpen
      /\ i.sort # "" => Len(asked) + Cardinality(Sorting) < MaxWords
  BY DEF Receive, WithinBounds, Waiting, Sorting
<1>4. /\ Cardinality(Waiting') <= Cardinality(Waiting) + 1
      /\ Cardinality(Sorting') <= Cardinality(Sorting) + 1
      /\ i.sort = "" => Cardinality(Sorting') <= Cardinality(Sorting)
  BY <1>2, CountWith, Counts
<1>5. /\ Cardinality(Waiting) \in Nat /\ Cardinality(Sorting) \in Nat
      /\ Cardinality(Waiting') \in Nat /\ Cardinality(Sorting') \in Nat
  <2>1. Waiting' \subseteq Requests /\ Sorting' \subseteq Requests
    BY <1>2
  <2>2. QED
    BY <1>2, <2>1, Counts
<1>6. Len(asked) \in Nat
  BY LenProperties DEF BoundsInv, Words
<1>7. open' + Cardinality(Waiting') <= MaxOpen
  <2>1. open' = open /\ open + Cardinality(Waiting) < MaxOpen
    BY <1>1, <1>3
  <2>2. /\ Cardinality(Waiting') <= Cardinality(Waiting) + 1
        /\ Cardinality(Waiting) \in Nat /\ Cardinality(Waiting') \in Nat
    BY <1>4, <1>5
  <2>3. QED
    BY <2>1, <2>2, BoundsAreNumbers
<1>8. Len(asked') + Cardinality(Sorting') <= MaxWords
  <2>1. asked' = asked /\ Len(asked) + Cardinality(Sorting) <= MaxWords
    BY <1>1 DEF BoundsInv
  <2>2. /\ Cardinality(Sorting) \in Nat /\ Cardinality(Sorting') \in Nat
        /\ \/ Cardinality(Sorting') <= Cardinality(Sorting)
           \/ /\ Cardinality(Sorting') <= Cardinality(Sorting) + 1
              /\ Len(asked) + Cardinality(Sorting) < MaxWords
    BY <1>3, <1>4, <1>5
  <2>3. QED
    BY <1>6, <2>1, <2>2, BoundsAreNumbers
<1>9. \A s \in Requests : ReqShort(req[s])'
  <2>1. Len(asked) <= Len(asked') /\ asked' \in Words /\ ReqShort(n)'
    BY <1>1, <1>6 DEF BoundsInv, ReqShort, OrderPlaces
  <2>2. QED
    BY <1>1, <2>1, OthersShort
<1>10. QED
  BY <1>1, <1>7, <1>8, <1>9 DEF BoundsInv, ReqShort, Short

\* A turn does not touch the number of changes, and LeakInv says that open is a number.
LEMMA TurnKeepsBounds ==
  ASSUME LookupInv, LeakInv, BoundsInv, NEW r \in Requests, NEW n, Turn(r, n)
  PROVE  BoundsInv'
<1>1. open \in Int /\ req' = [req EXCEPT ![r] = n] /\ UNCHANGED changes
  BY DEF LeakInv, Turn
<1>2. CASE LoadsOrder(r, n) /\ UNCHANGED connections
  BY <1>1, <1>2, LoadsKeepsBounds
<1>3. CASE (StoresOrder(r, n) \/ ReturnsOrder(r, n)) /\ UNCHANGED connections
  BY <1>1, <1>3, StoresKeepsBounds
<1>4. CASE LeavesOrder(r, n)
  BY <1>1, <1>4, LeavesKeepsBounds
<1>5. QED
  BY <1>2, <1>3, <1>4 DEF Turn

\* All requests of a process that begins are idle.
LEMMA NobodyCounted ==
  ASSUME NEW S, S = {}
  PROVE  Cardinality(S) = 0
BY FS_EmptySet

LEMMA NextBounds == LookupInv /\ LeakInv /\ BoundsInv /\ [Next]_vars => BoundsInv'
<1> SUFFICES ASSUME LookupInv, LeakInv, BoundsInv, [Next]_vars PROVE BoundsInv'
  OBVIOUS
<1>1. CASE UNCHANGED lookupVars
  <2>1. UNCHANGED <<req, order, asked, open, failures, changes>>
    BY <1>1 DEF lookupVars
  <2>2. Waiting' = Waiting /\ Sorting' = Sorting
    BY <2>1 DEF Waiting, Sorting, SortPending
  <2>3. QED
    BY <2>1, <2>2 DEF BoundsInv, Short
<1>2. CASE ~NoModule /\ LookupNext
  <2>1. ASSUME NEW r \in Requests, Handler(r) PROVE BoundsInv'
    BY <2>1, HandlerTurns, TurnKeepsBounds
  <2>2. ASSUME NEW r \in Requests, NEW i \in Inputs[usersModule], Receive(r, i)
        PROVE  BoundsInv'
    BY <2>2, ReceiveKeepsBounds DEF LeakInv
  <2>3. ASSUME NEW a \in Accounts, ChangeBinding(a) PROVE BoundsInv'
    <3>1. UNCHANGED <<order, asked, open, failures>>
      BY <2>3 DEF ChangeBinding, orders, connections
    <3>2. changes' \in 0..MaxChanges
      <4>1. changes < MaxChanges /\ changes' = changes + 1
        BY <2>3 DEF ChangeBinding
      <4>2. QED
        BY <4>1, BoundsAreNumbers DEF BoundsInv
    <3>3. \A r \in Requests :
            /\ req'[r].pc = req[r].pc /\ req'[r].in = req[r].in /\ req'[r].words = req[r].words
            /\ req[r].pc = "idle" => req'[r] = req[r]
      BY <2>3, BindingsTouch
    <3>4. Waiting' = Waiting /\ Sorting' = Sorting
      BY <3>3 DEF Waiting, Sorting, SortPending
    <3>5. QED
      BY <3>1, <3>2, <3>3, <3>4 DEF BoundsInv, Short
  <2>4. CASE Restart
    <3>1. /\ \A r \in Requests : req'[r] = Idle /\ Idle.pc = "idle"
          /\ order'.text = <<>> /\ order'.length = <<>> /\ asked' = <<>>
          /\ open' = 0 /\ failures' = 0 /\ changes' = changes
      BY <2>4 DEF Restart, Idle, admins
    <3>2. Waiting' = {} /\ Sorting' = {}
      BY <3>1 DEF Waiting, Sorting, SortPending
    <3>3. Cardinality(Waiting') = 0 /\ Cardinality(Sorting') = 0
      BY <3>2, NobodyCounted
    <3>4. asked' \in Words /\ Len(asked') = 0
      BY <3>1, EmptySeq DEF Words
    <3>5. Short(order.text)' /\ Short(order.length)'
      BY <3>1, <3>4 DEF Short
    <3>6. open' + Cardinality(Waiting') <= MaxOpen /\ Len(asked') + Cardinality(Sorting') <= MaxWords
      BY <3>1, <3>3, <3>4, BoundsAreNumbers
    <3>7. \A r \in Requests : req'[r].pc \notin OrderPlaces
      BY <3>1 DEF OrderPlaces
    <3>8. failures' \in Nat /\ changes' \in 0..MaxChanges
      BY <3>1 DEF BoundsInv
    <3>9. QED
      BY <3>1, <3>4, <3>5, <3>6, <3>7, <3>8 DEF BoundsInv
  <2>5. QED
    BY <1>2, <2>1, <2>2, <2>3, <2>4 DEF LookupNext
<1>3. QED
  BY <1>1, <1>2 DEF Next, vars

LEMMA InitBounds == Init => BoundsInv
<1> SUFFICES ASSUME Init PROVE BoundsInv
  OBVIOUS
<1>1. /\ \A r \in Requests : req[r] = Idle /\ Idle.pc = "idle"
      /\ order.text = <<>> /\ order.length = <<>> /\ asked = <<>>
      /\ open = 0 /\ failures = 0 /\ changes = 0
  BY DEF Init, LookupInit, Idle
<1>2. Waiting = {} /\ Sorting = {}
  BY <1>1 DEF Waiting, Sorting, SortPending
<1>3. Cardinality(Waiting) = 0 /\ Cardinality(Sorting) = 0
  BY <1>2, NobodyCounted
<1>4. asked \in Words /\ Len(asked) = 0
  BY <1>1, EmptySeq DEF Words
<1>5. Short(order.text) /\ Short(order.length)
  BY <1>1, <1>4 DEF Short
<1>6. open + Cardinality(Waiting) <= MaxOpen /\ Len(asked) + Cardinality(Sorting) <= MaxWords
  BY <1>1, <1>3, <1>4, BoundsAreNumbers
<1>7. failures \in Nat /\ changes \in 0..MaxChanges
  BY <1>1, BoundsAreNumbers
<1>8. \A r \in Requests : req[r].pc \notin OrderPlaces
  BY <1>1 DEF OrderPlaces
<1>9. QED
  BY <1>1, <1>4, <1>5, <1>6, <1>7, <1>8 DEF BoundsInv

\* The types of the lookup; connections and words stay within their bounds, and
\* a torn order is no longer than a whole one.
THEOREM LookupTypeInvariant == Spec => []LookupTypeOK
<1>1. LookupInv /\ LeakInv /\ BoundsInv => LookupTypeOK
  <2> SUFFICES ASSUME LookupInv, LeakInv, BoundsInv PROVE LookupTypeOK
    OBVIOUS
  <2>1. usersModule \in Modules /\ bindings \subseteq Accounts /\ changes \in 0..MaxChanges
    BY DEF LookupInv, BoundsInv
  <2>2. ASSUME NEW r \in Requests
        PROVE  /\ req[r].pc \in {"idle", "connect", "order", "store", "storeText", "storeLength",
                                 "reload", "accounts", "roles", "token", "service", "reply", "dropped"}
               /\ req[r].pc # "idle" => req[r].in \in Inputs[usersModule]
               /\ req[r].status \in {Null, 200, 400, 500}
               /\ req[r].flagged \subseteq req[r].users
    <3>1. req[r] \in Req /\ Proper(req[r])
      BY DEF LookupInv, Good
    <3>2. req[r].pc \in Places /\ req[r].status \in Statuses
      BY <3>1 DEF Req
    <3>3. req[r].pc = "idle" => req[r].flagged = {}
      BY DEF BoundsInv, Idle
    <3>4. QED
      BY <3>1, <3>2, <3>3 DEF Proper, Places, AtWork, Statuses
  <2>3. open \in 0..MaxOpen
    <3>1. Waiting \subseteq Requests
      BY DEF Waiting
    <3>2. Cardinality(Waiting) \in Nat
      BY <3>1, Counts
    <3>3. open \in Int /\ open = failures + Cardinality(Connected) /\ failures \in Nat
      BY DEF LeakInv, BoundsInv
    <3>4. open + Cardinality(Waiting) <= MaxOpen
      BY DEF BoundsInv
    <3>5. QED
      BY <3>2, <3>3, <3>4, ConnectedFinite, BoundsAreNumbers
  <2>4. Len(asked) \in Nat /\ Len(asked) <= MaxWords
    <3>1. Sorting \subseteq Requests
      BY DEF Sorting
    <3>2. Cardinality(Sorting) \in Nat /\ Len(asked) \in Nat
      BY <3>1, Counts, LenProperties DEF BoundsInv, Words
    <3>3. Len(asked) + Cardinality(Sorting) <= MaxWords
      BY DEF BoundsInv
    <3>4. QED
      BY <3>2, <3>3, BoundsAreNumbers
  <2>5. Len(order.text) <= MaxWords /\ Len(order.length) <= MaxWords
    <3>1. Len(order.text) \in Nat /\ Len(order.length) \in Nat
      BY LenProperties DEF LookupInv, Orders, Words
    <3>2. Len(order.text) <= Len(asked) /\ Len(order.length) <= Len(asked)
      BY DEF BoundsInv, Short
    <3>3. QED
      BY <2>4, <3>1, <3>2, BoundsAreNumbers
  <2>6. QED
    BY <2>1, <2>2, <2>3, <2>4, <2>5 DEF LookupTypeOK
<1>2. QED
  BY <1>1, InitBounds, NextBounds, LookupInvariant, LeakInvariant, PTL DEF Spec

(***************************************************************************)
(* Places in a finite set of numbers.                                      *)
(***************************************************************************)
Upto(A, j) == {i \in A : i <= j}
Place(A, j) == Cardinality(Upto(A, j))

LEMMA PlaceType ==
  ASSUME NEW A \in SUBSET Int, IsFiniteSet(A), NEW j
  PROVE  /\ IsFiniteSet(Upto(A, j)) /\ Cardinality(A) \in Nat
         /\ Place(A, j) \in Nat /\ Place(A, j) <= Cardinality(A)
<1>1. Upto(A, j) \in SUBSET A
  BY DEF Upto
<1>2. QED
  BY <1>1, FS_Subset, FS_CardinalityType DEF Place

LEMMA PlaceInSet ==
  ASSUME NEW A \in SUBSET Int, IsFiniteSet(A), NEW j \in A
  PROVE  Place(A, j) \in 1..Cardinality(A)
<1>1. j \in Upto(A, j)
  BY DEF Upto
<1>2. Place(A, j) # 0
  BY <1>1, PlaceType, FS_EmptySet DEF Place
<1>3. QED
  BY <1>2, PlaceType

LEMMA PlaceGrows ==
  ASSUME NEW A \in SUBSET Int, IsFiniteSet(A), NEW i \in Int, NEW j \in A, i < j
  PROVE  Place(A, i) < Place(A, j)
<1>1. Upto(A, i) \in SUBSET (Upto(A, j) \ {j}) /\ j \in Upto(A, j)
  <2>1. j <= j /\ \A k \in A : k \in Int /\ (k <= i => k <= j /\ k # j)
    OBVIOUS
  <2>2. QED
    BY <2>1 DEF Upto
<1>2. IsFiniteSet(Upto(A, j)) /\ Place(A, j) \in Nat /\ Place(A, i) \in Nat
  BY PlaceType
<1>3. IsFiniteSet(Upto(A, j) \ {j}) /\ Cardinality(Upto(A, j) \ {j}) = Place(A, j) - 1
  BY <1>1, <1>2, FS_RemoveElement DEF Place
<1>4. Place(A, i) <= Place(A, j) - 1
  BY <1>1, <1>3, FS_Subset DEF Place
<1>5. QED
  BY <1>2, <1>4

LEMMA PlaceInjective ==
  ASSUME NEW A \in SUBSET Int, IsFiniteSet(A), NEW i \in A, NEW j \in A, Place(A, i) = Place(A, j)
  PROVE  i = j
<1>1. ~(i < j) /\ ~(j < i)
  BY PlaceGrows, PlaceInSet
<1>2. QED
  BY <1>1

LEMMA PlaceOnto ==
  ASSUME NEW A \in SUBSET Int, IsFiniteSet(A), NEW k \in 1..Cardinality(A)
  PROVE  \E j \in A : Place(A, j) = k
<1> DEFINE n == Cardinality(A)
           f == [j \in A |-> Place(A, j)]
<1>1. n \in Nat
  BY FS_CardinalityType
<1>2. IsFiniteSet(1..n) /\ Cardinality(1..n) = n
  BY <1>1, FS_Interval
<1>3. f \in Injection(A, 1..n)
  <2>1. f \in [A -> 1..n]
    BY PlaceInSet
  <2>2. \A i, j \in DOMAIN f : f[i] = f[j] => i = j
    BY PlaceInjective
  <2>3. QED
    BY <2>1, <2>2 DEF Injection, IsInjective
<1> HIDE DEF f
<1>4. f \in Surjection(A, 1..n)
  BY <1>2, <1>3, FS_Injection
<1>5. \E j \in A : f[j] = k
  BY <1>4 DEF Surjection
<1>6. QED
  BY <1>5 DEF f

\* An element after all others.
LEMMA PlaceLast ==
  ASSUME NEW A \in SUBSET Int, IsFiniteSet(A), NEW x \in Int, \A i \in A : i < x
  PROVE  /\ \A j \in A : Place(A \cup {x}, j) = Place(A, j)
         /\ Place(A \cup {x}, x) = Cardinality(A) + 1
<1>1. \A j \in A : Upto(A \cup {x}, j) = Upto(A, j)
  BY DEF Upto
<1>2. Upto(A \cup {x}, x) = A \cup {x} /\ x \notin A
  <2>1. x <= x /\ \A i \in A : i <= x /\ i # x
    OBVIOUS
  <2>2. QED
    BY <2>1 DEF Upto
<1>3. QED
  BY <1>1, <1>2, FS_AddElement DEF Place

(***************************************************************************)
(* What a loop keeps that ends at a limit: the first of the positions that *)
(* match, in their order.                                                  *)
(***************************************************************************)
First(A, limit) == {j \in A : limit > 0 => Place(A, j) <= limit}

Lists(q, A, limit, list) ==
  /\ q \in Seq(Roster) /\ Len(q) = Cardinality(First(A, limit))
  /\ \A j \in First(A, limit) : q[Place(A, j)] = list[j]

LEMMA FirstType ==
  ASSUME NEW A \in SUBSET Int, IsFiniteSet(A), NEW limit \in Int
  PROVE  /\ First(A, limit) \in SUBSET A /\ First(A, limit) \in SUBSET Int
         /\ IsFiniteSet(First(A, limit)) /\ Cardinality(First(A, limit)) \in Nat
         /\ Cardinality(First(A, limit)) <= Cardinality(A)
<1>1. First(A, limit) \in SUBSET A
  BY DEF First
<1>2. QED
  BY <1>1, FS_Subset, FS_CardinalityType

\* The first ones have the same places among themselves.
LEMMA FirstPlaces ==
  ASSUME NEW A \in SUBSET Int, IsFiniteSet(A), NEW limit \in Int, NEW j \in First(A, limit)
  PROVE  Place(First(A, limit), j) = Place(A, j)
<1>1. j \in A /\ j \in Int /\ (limit > 0 => Place(A, j) <= limit)
  BY DEF First
<1>2. ASSUME NEW i \in A, i <= j PROVE i \in First(A, limit)
  <2>1. Place(A, i) <= Place(A, j)
    <3>1. i = j \/ i < j
      BY <1>1, <1>2
    <3>2. QED
      BY <1>1, <3>1, PlaceGrows, PlaceType
  <2>2. QED
    BY <1>1, <2>1, PlaceType DEF First
<1>3. Upto(First(A, limit), j) = Upto(A, j)
  BY <1>2, FirstType DEF Upto
<1>4. QED
  BY <1>3 DEF Place

LEMMA FirstOnto ==
  ASSUME NEW A \in SUBSET Int, IsFiniteSet(A), NEW limit \in Int,
         NEW k \in 1..Cardinality(First(A, limit))
  PROVE  \E j \in First(A, limit) : Place(A, j) = k
<1>1. PICK j \in First(A, limit) : Place(First(A, limit), j) = k
  BY FirstType, PlaceOnto
<1>2. QED
  BY <1>1, FirstPlaces

LEMMA FirstInRange ==
  ASSUME NEW A \in SUBSET Int, IsFiniteSet(A), NEW limit \in Int, NEW j \in First(A, limit)
  PROVE  Place(A, j) \in 1..Cardinality(First(A, limit))
BY FirstType, FirstPlaces, PlaceInSet

LEMMA ListsUnique ==
  ASSUME NEW A \in SUBSET Int, IsFiniteSet(A), NEW limit \in Int, NEW list,
         NEW q, NEW r, Lists(q, A, limit, list), Lists(r, A, limit, list)
  PROVE  q = r
<1>1. q \in Seq(Roster) /\ r \in Seq(Roster) /\ Len(q) = Len(r)
  BY DEF Lists
<1>2. ASSUME NEW k \in 1..Len(q) PROVE q[k] = r[k]
  <2>1. PICK j \in First(A, limit) : Place(A, j) = k
    BY <1>2, FirstOnto DEF Lists
  <2>2. QED
    BY <2>1 DEF Lists
<1>3. QED
  BY <1>1, <1>2, SeqEqual

\* A position more: it is one of the first unless the limit is reached.
LEMMA FirstStep ==
  ASSUME NEW A \in SUBSET Int, IsFiniteSet(A), NEW limit \in Int, NEW x \in Int, \A i \in A : i < x
  PROVE  IF limit > 0 /\ Cardinality(First(A, limit)) >= limit
         THEN First(A \cup {x}, limit) = First(A, limit)
         ELSE First(A, limit) = A /\ First(A \cup {x}, limit) = A \cup {x}
<1> DEFINE n == Cardinality(First(A, limit))
           B == A \cup {x}
<1>1. /\ \A j \in A : Place(B, j) = Place(A, j)
      /\ Place(B, x) = Cardinality(A) + 1
  BY PlaceLast
<1>2. n \in Nat /\ Cardinality(A) \in Nat /\ n <= Cardinality(A)
  BY FirstType, PlaceType
<1>3. \A j \in A : Place(A, j) \in 1..Cardinality(A)
  BY PlaceInSet
<1>4. CASE limit > 0 /\ n >= limit
  <2>1. ~(Place(B, x) <= limit)
    BY <1>1, <1>2, <1>4
  <2>2. First(B, limit) = First(A, limit)
    BY <1>1, <1>4, <2>1 DEF First
  <2>3. QED
    BY <1>4, <2>2
<1>5. CASE ~(limit > 0 /\ n >= limit)
  <2>1. limit > 0 => Cardinality(A) < limit
    <3>1. SUFFICES ASSUME limit > 0, Cardinality(A) >= limit PROVE FALSE
      BY <1>2
    <3>2. PICK j \in A : Place(A, j) = limit
      BY <1>2, <3>1, PlaceOnto
    <3>3. j \in First(A, limit)
      BY <3>1, <3>2 DEF First
    <3>4. limit <= n
      BY <3>2, <3>3, FirstInRange
    <3>5. QED
      BY <1>5, <3>1, <3>4, <1>2
  <2>2. \A j \in A : limit > 0 => Place(A, j) <= limit
    BY <1>2, <1>3, <2>1
  <2>3. limit > 0 => Place(B, x) <= limit
    BY <1>1, <1>2, <2>1
  <2>4. First(A, limit) = A /\ First(B, limit) = B
    BY <1>1, <2>2, <2>3 DEF First
  <2>5. QED
    BY <1>5, <2>4
<1>6. QED
  BY <1>4, <1>5

LEMMA ListsStep ==
  ASSUME NEW A \in SUBSET Int, IsFiniteSet(A), NEW limit \in Int, NEW x \in Int, \A i \in A : i < x,
         NEW list, list[x] \in Roster, NEW q, Lists(q, A, limit, list)
  PROVE  Lists(IF limit > 0 /\ Len(q) >= limit THEN q ELSE Append(q, list[x]),
               A \cup {x}, limit, list)
<1> DEFINE B == A \cup {x}
           n == Cardinality(First(A, limit))
<1>1. /\ \A j \in A : Place(B, j) = Place(A, j)
      /\ Place(B, x) = Cardinality(A) + 1
  BY PlaceLast
<1>2. q \in Seq(Roster) /\ Len(q) = n /\ n \in Nat
      /\ First(A, limit) \subseteq A /\ x \notin A
  <2>1. x \notin A
    OBVIOUS
  <2>2. QED
    BY <2>1, FirstType DEF Lists
<1>3. CASE limit > 0 /\ Len(q) >= limit
  <2>1. First(B, limit) = First(A, limit)
    BY <1>2, <1>3, FirstStep
  <2>2. Lists(q, B, limit, list)
    BY <1>1, <1>2, <2>1 DEF Lists
  <2>3. QED
    BY <1>3, <2>2
<1>4. CASE ~(limit > 0 /\ Len(q) >= limit)
  <2>1. First(A, limit) = A /\ First(B, limit) = B
    BY <1>2, <1>4, FirstStep
  <2> DEFINE r == Append(q, list[x])
  <2>2. /\ r \in Seq(Roster) /\ Len(r) = Len(q) + 1 /\ r[Len(q) + 1] = list[x]
        /\ \A k \in 1..Len(q) : r[k] = q[k]
    BY <1>2, AppendProperties
  <2>3. Cardinality(B) = Cardinality(A) + 1
    BY <1>2, FS_AddElement
  <2> HIDE DEF r
  <2>4. ASSUME NEW j \in B PROVE r[Place(B, j)] = list[j]
    <3>1. CASE j = x
      BY <1>1, <1>2, <2>1, <2>2, <3>1
    <3>2. CASE j \in A
      <4>1. Place(A, j) \in 1..Len(q) /\ q[Place(A, j)] = list[j]
        BY <1>2, <2>1, <3>2, FirstInRange DEF Lists
      <4>2. QED
        BY <1>1, <2>2, <3>2, <4>1
    <3>3. QED
      BY <3>1, <3>2
  <2>5. Lists(r, B, limit, list)
    BY <1>2, <2>1, <2>2, <2>3, <2>4 DEF Lists
  <2>6. QED
    BY <1>4, <2>5 DEF r
<1>5. QED
  BY <1>3, <1>4

(***************************************************************************)
(* The loop.                                                               *)
(***************************************************************************)
Kept(c, q, u) ==
  IF c.limit > 0 /\ Len(q) >= c.limit THEN q ELSE IF Keeps(c, u) THEN Append(q, u) ELSE q

\* A function from sets of positions to what the loop has kept of them.
Loops(c, list, kept) ==
  kept = [s \in SUBSET DOMAIN list |->
            IF s = {} THEN <<>> ELSE Kept(c, kept[s \ {Max(s)}], list[Max(s)])]

LEMMA LoopIsFold ==
  ASSUME NEW c, NEW list
  PROVE  Loop(c, list) = (CHOOSE kept : Loops(c, list, kept))[DOMAIN list]
BY DEF Loop, FoldLeft, MapThenFoldSet, Loops, Kept

LEMMA GreatestOf ==
  ASSUME NEW n \in Nat, NEW s \in SUBSET (1..n), s # {}
  PROVE  /\ Max(s) \in s /\ \A i \in s \ {Max(s)} : i < Max(s)
<1>1. \E x \in s : \A y \in s : x >= y
  <2> DEFINE R == OpToRel(<, Nat)
             T == {k \in 0..n : n - k \in s}
  <2>1. IsWellFoundedOn(R, Nat)
    BY NatLessThanWellFounded
  <2>2. \A a, b \in Nat : a < b => <<a, b>> \in R
    BY DEF OpToRel
  <2> HIDE DEF R
  <2>3. T \subseteq Nat /\ T # {}
    <3>1. PICK y \in s : TRUE
      OBVIOUS
    <3>2. n - y \in 0..n /\ n - (n - y) = y
      OBVIOUS
    <3>3. n - y \in T
      BY <3>1, <3>2
    <3>4. \A k \in T : k \in Nat
      OBVIOUS
    <3> HIDE DEF T
    <3>5. QED
      BY <3>3, <3>4
  <2>4. PICK k \in T : \A m \in T : ~(<<m, k>> \in R)
    BY <2>1, <2>3, WFMin
  <2>5. ASSUME NEW y \in s PROVE n - k >= y
    <3>1. y \in 1..n
      BY <2>5
    <3>2. n - y \in 0..n /\ n - (n - y) = y
      BY <3>1
    <3>3. n - y \in T
      BY <2>5, <3>2
    <3>4. n - y \in Nat /\ k \in Nat
      BY <3>2, <2>4
    <3> HIDE DEF T
    <3>5. ~(n - y < k)
      BY <2>2, <2>4, <3>3, <3>4
    <3>6. QED
      BY <3>1, <3>4, <3>5
  <2>6. QED
    BY <2>4, <2>5
<1>2. Max(s) \in s /\ \A y \in s : Max(s) >= y
  BY <1>1 DEF Max
<1>3. \A y \in s : y \in Int
  OBVIOUS
<1> DEFINE m == Max(s)
<1>4. m \in Int /\ m \in s /\ \A y \in s : m >= y
  BY <1>2, <1>3
<1> HIDE DEF m
<1>5. \A y \in s \ {m} : y < m
  BY <1>3, <1>4
<1>6. QED
  BY <1>4, <1>5 DEF m

\* The positions whose users match.
Matched(c, list, s) == {j \in s : Keeps(c, list[j])}

\* A sequence that lists the first positions that match.
IsKept(q, c, list, s) == Lists(q, Matched(c, list, s), c.limit, list)

LEMMA MatchedType ==
  ASSUME NEW c, NEW list \in Seq(Roster), NEW s \in SUBSET DOMAIN list
  PROVE  /\ Matched(c, list, s) \in SUBSET Int /\ IsFiniteSet(Matched(c, list, s))
         /\ IsFiniteSet(s) /\ s \in SUBSET (1..Len(list)) /\ Len(list) \in Nat
         /\ \A j \in s : j \in Int /\ list[j] \in Roster
<1>1. DOMAIN list = 1..Len(list) /\ Len(list) \in Nat
  BY LenProperties
<1>2. IsFiniteSet(1..Len(list))
  BY <1>1, FS_Interval
<1>3. IsFiniteSet(s)
  BY <1>1, <1>2, FS_Subset
<1>4. Matched(c, list, s) \in SUBSET s
  BY DEF Matched
<1>5. IsFiniteSet(Matched(c, list, s))
  BY <1>3, <1>4, FS_Subset
<1>6. \A j \in s : j \in 1..Len(list)
  BY <1>1
<1>7. \A j \in s : j \in Int /\ list[j] \in Roster
  BY <1>1, <1>6, ElementOfSeq
<1>8. QED
  BY <1>1, <1>3, <1>4, <1>5, <1>6, <1>7

LEMMA ListsExists ==
  ASSUME NEW A \in SUBSET Int, IsFiniteSet(A), NEW limit \in Int, NEW list,
         \A j \in A : list[j] \in Roster
  PROVE  \E q : Lists(q, A, limit, list)
<1> DEFINE n == Cardinality(First(A, limit))
           at(k) == CHOOSE j \in First(A, limit) : Place(A, j) = k
           q == [k \in 1..n |-> list[at(k)]]
<1>1. n \in Nat /\ First(A, limit) \subseteq A
  BY FirstType
<1>2. ASSUME NEW k \in 1..n PROVE at(k) \in First(A, limit) /\ Place(A, at(k)) = k
  BY <1>2, FirstOnto
<1>3. \A k \in 1..n : list[at(k)] \in Roster
  BY <1>1, <1>2
<1>4. q \in Seq(Roster) /\ Len(q) = n
  <2> HIDE DEF at, n
  <2>1. q \in [1..n -> Roster]
    BY <1>3
  <2> HIDE DEF q
  <2>2. QED
    BY <1>1, <2>1, LenProperties
<1>5. ASSUME NEW j \in First(A, limit) PROVE q[Place(A, j)] = list[j]
  <2>1. Place(A, j) \in 1..n
    BY FirstInRange
  <2>2. at(Place(A, j)) = j
    <3> DEFINE i == at(Place(A, j))
    <3>1. i \in A /\ j \in A /\ Place(A, i) = Place(A, j)
      BY <1>1, <1>2, <2>1
    <3> HIDE DEF i
    <3>2. i = j
      BY <3>1, PlaceInjective
    <3>3. QED
      BY <3>2 DEF i
  <2>3. QED
    BY <2>1, <2>2
<1>6. QED
  BY <1>4, <1>5 DEF Lists

LEMMA KeptStep ==
  ASSUME NEW c, c.limit \in Int, NEW list \in Seq(Roster), NEW s \in SUBSET DOMAIN list, s # {},
         NEW q, IsKept(q, c, list, s \ {Max(s)})
  PROVE  IsKept(Kept(c, q, list[Max(s)]), c, list, s)
<1> DEFINE m == Max(s)
           A == Matched(c, list, s \ {m})
<1>1. m \in s /\ \A i \in s \ {m} : i < m
  BY MatchedType, GreatestOf
<1>2. m \in Int /\ list[m] \in Roster /\ s \ {m} \in SUBSET DOMAIN list
  BY <1>1, MatchedType
<1>3. A \in SUBSET Int /\ IsFiniteSet(A)
  BY <1>2, MatchedType
<1> HIDE DEF m
<1>4. \A i \in A : i < m
  BY <1>1 DEF Matched
<1>5. Lists(q, A, c.limit, list)
  BY DEF IsKept, m
<1>6. CASE Keeps(c, list[m])
  <2>1. Matched(c, list, s) = A \cup {m}
    BY <1>1, <1>6 DEF Matched
  <2>2. Kept(c, q, list[m]) = IF c.limit > 0 /\ Len(q) >= c.limit THEN q ELSE Append(q, list[m])
    BY <1>6 DEF Kept
  <2> HIDE DEF A
  <2>3. Lists(Kept(c, q, list[m]), A \cup {m}, c.limit, list)
    BY <1>2, <1>3, <1>4, <1>5, <2>2, ListsStep
  <2>4. QED
    BY <2>1, <2>3 DEF IsKept, m
<1>7. CASE ~Keeps(c, list[m])
  <2>1. Matched(c, list, s) = A
    BY <1>1, <1>7 DEF Matched
  <2>2. Kept(c, q, list[m]) = q
    BY <1>7 DEF Kept
  <2>3. QED
    BY <1>5, <2>1, <2>2 DEF IsKept, m
<1>8. QED
  BY <1>6, <1>7

LEMMA NothingKept ==
  ASSUME NEW c, c.limit \in Int, NEW list
  PROVE  IsKept(<<>>, c, list, {})
<1>1. Matched(c, list, {}) = {} /\ First({}, c.limit) = {}
  BY DEF Matched, First
<1>2. <<>> \in Seq(Roster) /\ Len(<<>>) = 0 /\ Cardinality({}) = 0
  BY EmptySeq, FS_EmptySet
<1>3. QED
  BY <1>1, <1>2 DEF IsKept, Lists

LEMMA KeptUnique ==
  ASSUME NEW c, c.limit \in Int, NEW list \in Seq(Roster), NEW s \in SUBSET DOMAIN list,
         NEW q, NEW r, IsKept(q, c, list, s), IsKept(r, c, list, s)
  PROVE  q = r
BY MatchedType, ListsUnique DEF IsKept

LEMMA LoopsExist ==
  ASSUME NEW c, c.limit \in Int, NEW list \in Seq(Roster)
  PROVE  \E kept : Loops(c, list, kept)
<1> DEFINE D == SUBSET DOMAIN list
           kept == [s \in D |-> CHOOSE q : IsKept(q, c, list, s)]
<1>1. ASSUME NEW s \in D PROVE IsKept(kept[s], c, list, s)
  <2>1. \A j \in Matched(c, list, s) : list[j] \in Roster
    BY MatchedType DEF Matched
  <2>2. \E q : IsKept(q, c, list, s)
    BY <2>1, MatchedType, ListsExists DEF IsKept
  <2>3. QED
    BY <2>2
<1> DEFINE next(s) == IF s = {} THEN <<>> ELSE Kept(c, kept[s \ {Max(s)}], list[Max(s)])
<1>2. kept = [s \in D |-> kept[s]]
  OBVIOUS
<1> HIDE DEF kept
<1>3. ASSUME NEW s \in D PROVE kept[s] = next(s)
  <2>1. CASE s = {}
    BY <1>1, <2>1, NothingKept, KeptUnique
  <2>2. CASE s # {}
    <3>1. IsKept(kept[s \ {Max(s)}], c, list, s \ {Max(s)})
      BY <1>1
    <3>2. IsKept(Kept(c, kept[s \ {Max(s)}], list[Max(s)]), c, list, s)
      BY <2>2, <3>1, KeptStep
    <3>3. QED
      BY <1>1, <2>2, <3>2, KeptUnique
  <2>3. QED
    BY <2>1, <2>2
<1>4. kept = [s \in D |-> next(s)]
  <2> HIDE DEF next
  <2>1. QED
    BY <1>2, <1>3
<1>5. Loops(c, list, kept)
  BY <1>4 DEF Loops
<1>6. QED
  BY <1>5

\* However the loop is computed, it has kept the first users that match.
LEMMA LoopsKeep ==
  ASSUME NEW c, c.limit \in Int, NEW list \in Seq(Roster), NEW kept, Loops(c, list, kept),
         NEW s \in SUBSET DOMAIN list
  PROVE  IsKept(kept[s], c, list, s)
<1> DEFINE D == DOMAIN list
           wrong == {t \in SUBSET D : ~IsKept(kept[t], c, list, t)}
<1>1. SUFFICES ASSUME wrong # {} PROVE FALSE
  OBVIOUS
<1> DEFINE R == StrictSubsetOrdering(D)
<1>2. wrong \subseteq FiniteSubsetsOf(D)
  BY MatchedType DEF FiniteSubsetsOf
<1>3. IsWellFoundedOn(R, FiniteSubsetsOf(D))
  BY FS_StrictSubsetOrderingWellFounded
<1> HIDE DEF R, wrong
<1>4. PICK t \in wrong : \A u \in wrong : ~(<<u, t>> \in R)
  BY <1>1, <1>2, <1>3, WFMin
<1>5. t \in SUBSET D /\ ~IsKept(kept[t], c, list, t)
  BY <1>4 DEF wrong
<1>6. t # {}
  <2>1. t = {} => kept[t] = <<>>
    BY <1>5 DEF Loops
  <2>2. QED
    BY <1>5, <2>1, NothingKept
<1> DEFINE u == t \ {Max(t)}
<1>7. Max(t) \in t
  BY <1>5, <1>6, MatchedType, GreatestOf
<1>8. kept[t] = Kept(c, kept[u], list[Max(t)])
  BY <1>5, <1>6 DEF Loops
<1>9. u \in SUBSET D /\ <<u, t>> \in R
  BY <1>5, <1>7 DEF R, StrictSubsetOrdering
<1>10. IsKept(kept[u], c, list, u)
  BY <1>4, <1>9 DEF wrong
<1>11. IsKept(kept[t], c, list, t)
  BY <1>5, <1>6, <1>8, <1>10, KeptStep
<1>12. QED
  BY <1>5, <1>11

LEMMA LoopKeeps ==
  ASSUME NEW c, c.limit \in Int, NEW list \in Seq(Roster)
  PROVE  IsKept(Loop(c, list), c, list, DOMAIN list)
<1> DEFINE kept == CHOOSE kept : Loops(c, list, kept)
<1>1. Loops(c, list, kept)
  BY LoopsExist
<1>2. Loop(c, list) = kept[DOMAIN list]
  BY LoopIsFold
<1> HIDE DEF kept
<1>3. QED
  BY <1>1, <1>2, LoopsKeep

(***************************************************************************)
(* Sorting.                                                                *)
(***************************************************************************)
Rearrangements(list) ==
  {[j \in DOMAIN list |-> list[p[j]]] :
     p \in {f \in [DOMAIN list -> DOMAIN list] : IsInjective(f)}}

Descends(list, s) == \A j, k \in DOMAIN list : j < k => s[j].name >= s[k].name

\* No two users of the list have one name.
DistinctNames(list) == \A j, k \in DOMAIN list : list[j].name = list[k].name => j = k

\* The names of a list, and how many they are.
LEMMA NamesOf ==
  ASSUME NEW list \in Seq(Roster), DistinctNames(list)
  PROVE  LET N == {list[j].name : j \in DOMAIN list}
         IN  N \in SUBSET Int /\ IsFiniteSet(N) /\ Cardinality(N) = Len(list)
<1> DEFINE D == DOMAIN list
           N == {list[j].name : j \in D}
           f == [j \in D |-> list[j].name]
<1>1. D = 1..Len(list) /\ Len(list) \in Nat /\ \A j \in D : list[j] \in Roster
  BY LenProperties, ElementOfSeq
<1>2. N \in SUBSET Int
  BY <1>1, RosterAssumption DEF RosterAssumption
<1>3. IsFiniteSet(D) /\ Cardinality(D) = Len(list)
  BY <1>1, FS_Interval
<1>4. f \in Injection(D, N)
  BY DEF Injection, IsInjective, DistinctNames
<1>5. f \in Surjection(D, N)
  BY DEF Surjection
<1> HIDE DEF f, N
<1>6. IsFiniteSet(N) /\ Cardinality(N) = Cardinality(D)
  BY <1>3, <1>4, <1>5, FS_Surjection
<1>7. QED
  BY <1>2, <1>3, <1>6 DEF N

LEMMA SortedExists ==
  ASSUME NEW list \in Seq(Roster), DistinctNames(list)
  PROVE  \E s \in Rearrangements(list) : Descends(list, s)
<1> DEFINE D == DOMAIN list
           n == Len(list)
           N == {list[j].name : j \in D}
           at(k) == CHOOSE j \in D : Place(N, list[j].name) = n + 1 - k
           p == [k \in D |-> at(k)]
           s == [k \in D |-> list[p[k]]]
<1>1. D = 1..n /\ n \in Nat
  BY LenProperties
<1>2. N \in SUBSET Int /\ IsFiniteSet(N) /\ Cardinality(N) = n
  BY NamesOf
<1>3. ASSUME NEW k \in D PROVE at(k) \in D /\ Place(N, list[at(k)].name) = n + 1 - k
  <2>1. n + 1 - k \in 1..n
    BY <1>1
  <2> HIDE DEF n
  <2>2. \E x \in N : Place(N, x) = n + 1 - k
    BY <1>2, <2>1, PlaceOnto
  <2>3. \E j \in D : Place(N, list[j].name) = n + 1 - k
    BY <2>2
  <2>4. QED
    BY <2>3
<1> HIDE DEF at
<1>4. p \in [D -> D] /\ \A k \in D : p[k] \in D /\ Place(N, list[p[k]].name) = n + 1 - k
  BY <1>3
<1>5. \A k \in D : list[p[k]].name \in N /\ list[p[k]].name \in Int
  BY <1>2, <1>4
<1> HIDE DEF p, N
<1>6. IsInjective(p)
  <2>1. ASSUME NEW j \in D, NEW k \in D, p[j] = p[k] PROVE j = k
    <3>1. n + 1 - j = n + 1 - k
      BY <1>4, <2>1
    <3>2. j \in Int /\ k \in Int
      BY <1>1
    <3>3. QED
      BY <1>1, <3>1, <3>2
  <2>2. QED
    BY <1>4, <2>1 DEF IsInjective
<1>7. ASSUME NEW j \in D, NEW k \in D, j < k PROVE s[j].name >= s[k].name
  <2> DEFINE x == list[p[j]].name
             y == list[p[k]].name
  <2>1. x \in N /\ y \in N /\ x \in Int /\ y \in Int
    BY <1>5
  <2>2. Place(N, x) = n + 1 - j /\ Place(N, y) = n + 1 - k
    BY <1>4
  <2>3. s[j].name = x /\ s[k].name = y
    OBVIOUS
  <2> HIDE DEF x, y
  <2>4. ~(x < y)
    <3>1. x < y => Place(N, x) < Place(N, y)
      BY <1>2, <2>1, PlaceGrows
    <3>2. ~(n + 1 - j < n + 1 - k)
      BY <1>1, <1>7
    <3>3. QED
      BY <2>2, <3>1, <3>2
  <2>5. x >= y
    BY <2>1, <2>4
  <2>6. QED
    BY <2>3, <2>5
<1>8. s \in Rearrangements(list)
  BY <1>4, <1>6 DEF Rearrangements
<1> HIDE DEF s
<1>9. Descends(list, s)
  BY <1>7 DEF Descends
<1>10. QED
  BY <1>8, <1>9

\* What sort.Slice returns: the same users, and their names descend.
LEMMA SortedDescends ==
  ASSUME NEW c, c.sort = "des", NEW list \in Seq(Roster), DistinctNames(list)
  PROVE  /\ Sorted(c, list) \in Seq(Roster) /\ Len(Sorted(c, list)) = Len(list)
         /\ ToSet(Sorted(c, list)) = ToSet(list)
         /\ \A j, k \in DOMAIN Sorted(c, list) :
              j < k => Sorted(c, list)[j].name > Sorted(c, list)[k].name
<1> DEFINE s == Sorted(c, list)
           D == DOMAIN list
           n == Len(list)
<1>1. s = CHOOSE t \in Rearrangements(list) : Descends(list, t)
  BY DEF Sorted, Rearrangements, Descends
<1>2. s \in Rearrangements(list) /\ Descends(list, s)
  BY <1>1, SortedExists
<1> HIDE DEF s
<1>3. PICK p \in [D -> D] : IsInjective(p) /\ s = [j \in D |-> list[p[j]]]
  BY <1>2 DEF Rearrangements
<1>4. D = 1..n /\ n \in Nat /\ \A j \in D : list[j] \in Roster /\ list[j].name \in Int
  BY LenProperties, ElementOfSeq, RosterAssumption DEF RosterAssumption
<1>5. s \in [1..n -> Roster] /\ \A j \in D : s[j] = list[p[j]] /\ p[j] \in D
  BY <1>3, <1>4
<1>6. s \in Seq(Roster) /\ Len(s) = n /\ DOMAIN s = D
  <2>1. s \in Seq(Roster)
    BY <1>4, <1>5
  <2>2. DOMAIN s = D
    BY <1>4, <1>5
  <2>3. QED
    BY <1>4, <2>1, <2>2, LenProperties
<1>7. ToSet(s) = ToSet(list)
  <2>1. IsFiniteSet(D)
    BY <1>4, FS_Interval
  <2>2. p \in Injection(D, D)
    BY <1>3 DEF Injection
  <2>3. p \in Surjection(D, D)
    BY <2>1, <2>2, FS_Injection
  <2>4. \A j \in D : \E k \in D : p[k] = j
    BY <2>3 DEF Surjection
  <2>5. ToSet(s) = {s[j] : j \in D} /\ ToSet(list) = {list[j] : j \in D}
    BY <1>6 DEF ToSet
  <2>6. QED
    BY <1>5, <2>4, <2>5
<1>8. ASSUME NEW j \in D, NEW k \in D, j < k PROVE s[j].name > s[k].name
  <2> DEFINE x == list[p[j]].name
             y == list[p[k]].name
  <2>1. s[j].name = x /\ s[k].name = y /\ x >= y
    BY <1>2, <1>5, <1>8 DEF Descends
  <2>2. x # y
    <3>1. p[j] # p[k]
      <4>1. j # k
        BY <1>4, <1>8
      <4>2. QED
        BY <1>3, <4>1 DEF IsInjective
    <3>2. QED
      BY <1>5, <3>1 DEF DistinctNames
  <2>3. x \in Int /\ y \in Int
    BY <1>4, <1>5
  <2> HIDE DEF x, y
  <2>4. x > y
    BY <2>1, <2>2, <2>3
  <2>5. QED
    BY <2>1, <2>4
<1>9. QED
  BY <1>6, <1>7, <1>8 DEF s

(***************************************************************************)
(* What a query answers.                                                   *)
(***************************************************************************)
\* The users of the first positions that match, in their order or sorted.
IsAnswer(c, seen, list) ==
  LET due == First(Matched(c, seen, DOMAIN seen), c.limit)
  IN  /\ list \in Seq(Roster) /\ Len(list) = Cardinality(due)
      /\ ToSet(list) = {seen[j] : j \in due}
      /\ IF c.sort = "des"
         THEN \A j, k \in DOMAIN list : j < k => list[j].name > list[k].name
         ELSE \A j \in due : list[Place(Matched(c, seen, DOMAIN seen), j)] = seen[j]

\* A listing has users of the realm, each once.
LEMMA ListingsAreDistinct ==
  ASSUME realm \in SUBSET Roster, UniqueNames(realm), NEW listing \in Listings
  PROVE  /\ listing \in Seq(Roster) /\ ToSet(listing) \subseteq realm /\ DistinctNames(listing)
<1> DEFINE n == IF Cardinality(realm) < MaxListed THEN Cardinality(realm) ELSE MaxListed
<1>1. IsFiniteSet(realm)
  BY FS_Subset, RosterAssumption DEF RosterAssumption
<1>2. Cardinality(realm) \in Nat
  BY <1>1, FS_CardinalityType
<1>3. n \in Nat
  BY <1>2, ListingAssumption DEF ListingAssumption
<1>4. listing \in [1..n -> realm] /\ IsInjective(listing)
  BY DEF Listings
<1> HIDE DEF n
<1>5. DOMAIN listing = 1..n /\ \A j \in 1..n : listing[j] \in realm /\ listing[j] \in Roster
  BY <1>4
<1>6. listing \in Seq(Roster)
  <2>1. listing \in [1..n -> Roster]
    BY <1>4
  <2>2. QED
    BY <1>3, <2>1
<1>7. ToSet(listing) \subseteq realm
  BY <1>5 DEF ToSet
<1>8. DistinctNames(listing)
  <2> SUFFICES ASSUME NEW j \in 1..n, NEW k \in 1..n, listing[j].name = listing[k].name
               PROVE  j = k
    BY <1>5 DEF DistinctNames
  <2>1. listing[j] = listing[k]
    BY <1>5 DEF UniqueNames
  <2>2. QED
    BY <1>5, <1>4, <2>1 DEF IsInjective
<1>9. QED
  BY <1>6, <1>7, <1>8

LEMMA LoopAnswers ==
  ASSUME NEW c, c.limit \in Int, NEW seen \in Seq(Roster), DistinctNames(seen)
  PROVE  LET due == First(Matched(c, seen, DOMAIN seen), c.limit)
             out == Loop(c, seen)
         IN  /\ out \in Seq(Roster) /\ Len(out) = Cardinality(due)
             /\ ToSet(out) = {seen[j] : j \in due}
             /\ \A j \in due : out[Place(Matched(c, seen, DOMAIN seen), j)] = seen[j]
             /\ DistinctNames(out)
<1> DEFINE D == DOMAIN seen
           A == Matched(c, seen, D)
           due == First(A, c.limit)
           out == Loop(c, seen)
<1>1. Lists(out, A, c.limit, seen)
  BY LoopKeeps DEF IsKept
<1> HIDE DEF out
<1>2. A \in SUBSET Int /\ IsFiniteSet(A) /\ A \subseteq D
  BY MatchedType DEF Matched
<1> HIDE DEF A
<1>3. /\ out \in Seq(Roster) /\ Len(out) = Cardinality(due)
      /\ \A j \in due : out[Place(A, j)] = seen[j]
  BY <1>1 DEF Lists
<1>4. due \subseteq D /\ DOMAIN out = 1..Cardinality(due)
  BY <1>2, <1>3, FirstType, LenProperties
<1>5. \A j \in due : Place(A, j) \in 1..Cardinality(due)
  BY <1>2, FirstInRange
<1>6. \A k \in 1..Cardinality(due) : \E j \in due : Place(A, j) = k
  BY <1>2, FirstOnto
<1> HIDE DEF due
<1>7. ToSet(out) = {seen[j] : j \in due}
  <2>1. ToSet(out) = {out[k] : k \in 1..Cardinality(due)}
    BY <1>4 DEF ToSet
  <2>2. QED
    BY <1>3, <1>5, <1>6, <2>1
<1>8. DistinctNames(out)
  <2> SUFFICES ASSUME NEW k \in 1..Cardinality(due), NEW l \in 1..Cardinality(due),
                      out[k].name = out[l].name
               PROVE  k = l
    BY <1>4 DEF DistinctNames
  <2>1. PICK i \in due : Place(A, i) = k
    BY <1>6
  <2>2. PICK j \in due : Place(A, j) = l
    BY <1>6
  <2>3. seen[i].name = seen[j].name
    BY <1>3, <2>1, <2>2
  <2>4. i = j
    BY <1>4, <2>3 DEF DistinctNames
  <2>5. QED
    BY <2>1, <2>2, <2>4
<1>9. QED
  BY <1>3, <1>7, <1>8 DEF due, A, out

LEMMA QueryAnswers ==
  ASSUME NEW c, c.limit \in Int, NEW seen \in Seq(Roster), DistinctNames(seen)
  PROVE  IsAnswer(c, seen, Sorted(c, Loop(c, seen)))
<1> DEFINE A == Matched(c, seen, DOMAIN seen)
           due == First(A, c.limit)
           out == Loop(c, seen)
<1>1. /\ out \in Seq(Roster) /\ Len(out) = Cardinality(due)
      /\ ToSet(out) = {seen[j] : j \in due}
      /\ \A j \in due : out[Place(A, j)] = seen[j]
      /\ DistinctNames(out)
  BY LoopAnswers
<1> HIDE DEF out, due
<1>2. CASE c.sort = "des"
  <2>1. /\ Sorted(c, out) \in Seq(Roster) /\ Len(Sorted(c, out)) = Len(out)
        /\ ToSet(Sorted(c, out)) = ToSet(out)
        /\ \A j, k \in DOMAIN Sorted(c, out) :
             j < k => Sorted(c, out)[j].name > Sorted(c, out)[k].name
    BY <1>1, <1>2, SortedDescends
  <2>2. QED
    BY <1>1, <1>2, <2>1 DEF IsAnswer, due, out
<1>3. CASE c.sort # "des"
  <2>1. Sorted(c, out) = out
    BY <1>3 DEF Sorted
  <2>2. QED
    BY <1>1, <1>3, <2>1 DEF IsAnswer, due, out
<1>4. QED
  BY <1>2, <1>3

(***************************************************************************)
(* The inductive invariant of the catch-all server.                        *)
(***************************************************************************)
JobPlaces == {"none", "dispatch", "list", "password", "answered", "dropped"}
Codes == {Missing, 200, 403, 404, 405, 500, 502}
Logins == {"login", "entitlements"}

Jobs == [pc : JobPlaces, call : {Missing} \cup Calls, status : Codes, list : Seq(Roster),
         accepted : {Missing} \cup {c.user : c \in Calls}, seen : Seq(Roster)]

\* A request keeps to its call, has no answer until it is answered, and is
\* answered with users that were listed.
Orderly(j) ==
  /\ j.pc # "none" => j.call \in Calls
  /\ j.pc \in {"none", "dispatch", "password", "list"} => j.list = <<>> /\ j.seen = <<>>
  /\ j.pc = "password" => j.call.kind \in Logins
  /\ j.pc = "list" => \/ j.call.kind = "query"
                      \/ j.call.kind \in Logins /\ j.accepted = j.call.user
  /\ ToSet(j.list) \subseteq ToSet(j.seen)

Answered(j) ==
  j.pc = "answered" =>
    /\ j.call.kind = "query" /\ j.status = 200 /\ j.seen # <<>> => IsAnswer(j.call, j.seen, j.list)
    /\ j.call.kind \in Logins =>
         /\ j.list # <<>> => Len(j.list) = 1 /\ j.list[1].name = j.accepted.name
         /\ j.status = 200 => j.list # <<>> \/ (allPass /\ j.call.kind = "entitlements")
         /\ j.status \in {200, 403, 404}

CatchallInv ==
  /\ disabled \in BOOLEAN /\ allPass \in BOOLEAN /\ edits \in 0..MaxEdits
  /\ realm \in SUBSET Roster /\ UniqueNames(realm)
  /\ job \in Jobs /\ Orderly(job) /\ Answered(job)

LEMMA JobMoved ==
  ASSUME NEW q \in Jobs, NEW pc \in JobPlaces
  PROVE  LET n == [q EXCEPT !.pc = pc]
         IN  /\ n \in Jobs /\ n.pc = pc /\ n.call = q.call /\ n.status = q.status
             /\ n.list = q.list /\ n.accepted = q.accepted /\ n.seen = q.seen
BY DEF Jobs

WithStatus(q, code) == [q EXCEPT !.pc = "answered", !.status = code]
LEMMA JobStatus ==
  ASSUME NEW q \in Jobs, NEW code \in Codes
  PROVE  LET n == WithStatus(q, code)
         IN  /\ n \in Jobs /\ n.pc = "answered" /\ n.call = q.call /\ n.status = code
             /\ n.list = q.list /\ n.accepted = q.accepted /\ n.seen = q.seen
BY DEF Jobs, JobPlaces, WithStatus

WithAccepted(q, user) == [q EXCEPT !.pc = "list", !.accepted = user]
LEMMA JobAccepted ==
  ASSUME NEW q \in Jobs, NEW user \in {c.user : c \in Calls}
  PROVE  LET n == WithAccepted(q, user)
         IN  /\ n \in Jobs /\ n.pc = "list" /\ n.call = q.call /\ n.status = q.status
             /\ n.list = q.list /\ n.accepted = user /\ n.seen = q.seen
BY DEF Jobs, JobPlaces, WithAccepted

WithList(q, code, seen, list) ==
  [q EXCEPT !.pc = "answered", !.status = code, !.seen = seen, !.list = list]
LEMMA JobListed ==
  ASSUME NEW q \in Jobs, NEW code \in Codes, NEW seen \in Seq(Roster), NEW list \in Seq(Roster)
  PROVE  LET n == WithList(q, code, seen, list)
         IN  /\ n \in Jobs /\ n.pc = "answered" /\ n.call = q.call /\ n.status = code
             /\ n.list = list /\ n.accepted = q.accepted /\ n.seen = seen
BY DEF Jobs, JobPlaces, WithList

LEMMA NoJobIsOrderly == NoJob \in Jobs /\ Orderly(NoJob) /\ NoJob.pc = "none"
<1>1. NoJob \in Jobs /\ NoJob.pc = "none"
  BY EmptySeq DEF NoJob, Jobs, JobPlaces, Codes
<1>2. QED
  BY <1>1 DEF NoJob, Orderly

\* A step of the request that keeps it orderly keeps the invariant.
LEMMA JobStep ==
  ASSUME CatchallInv, NEW n, n \in Jobs, Orderly(n), Answered(n), job' = n,
         UNCHANGED <<settings, realm, edits>>
  PROVE  CatchallInv'
<1>1. allPass' = allPass /\ disabled' = disabled
  BY Zenon DEF settings
<1>2. Answered(n)'
  BY <1>1, Zenon DEF Answered
<1>3. disabled' \in BOOLEAN /\ allPass' \in BOOLEAN
  BY <1>1, Zenon DEF CatchallInv
<1>4. edits' \in 0..MaxEdits /\ realm' \in SUBSET Roster /\ UniqueNames(realm')
  BY DEF CatchallInv
<1>5. QED
  BY <1>2, <1>3, <1>4, Zenon DEF CatchallInv

LEMMA ErrorKeeps ==
  ASSUME CatchallInv, NEW code \in Codes, Error(code), job.list = <<>>, job.call \in Calls,
         job.call.kind = "query" => code # 200 \/ job.seen = <<>>,
         job.call.kind \in Logins => code \in {403, 404},
         UNCHANGED <<settings, realm, edits>>
  PROVE  CatchallInv'
<1> DEFINE n == WithStatus(job, code)
<1>1. job \in Jobs /\ Orderly(job)
  BY DEF CatchallInv
<1>2. job' = n
  BY DEF Error, WithStatus
<1>3. /\ n \in Jobs /\ n.pc = "answered" /\ n.call = job.call /\ n.status = code
      /\ n.list = job.list /\ n.accepted = job.accepted /\ n.seen = job.seen
  BY <1>1, JobStatus
<1> HIDE DEF n
<1>4. Orderly(n)
  BY <1>1, <1>3 DEF Orderly
<1>5. Answered(n)
  BY <1>3 DEF Answered, Logins
<1>6. QED
  BY <1>2, <1>3, <1>4, <1>5, JobStep

LEMMA DropKeeps ==
  ASSUME CatchallInv, Drop, job.call \in Calls, UNCHANGED <<settings, realm, edits>>
  PROVE  CatchallInv'
<1> DEFINE n == [job EXCEPT !.pc = "dropped"]
<1>1. job \in Jobs /\ Orderly(job) /\ "dropped" \in JobPlaces
  BY DEF CatchallInv, JobPlaces
<1>2. job' = n
  BY DEF Drop
<1>3. /\ n \in Jobs /\ n.pc = "dropped" /\ n.call = job.call
      /\ n.list = job.list /\ n.seen = job.seen
  BY <1>1, JobMoved
<1> HIDE DEF n
<1>4. Orderly(n) /\ Answered(n)
  BY <1>1, <1>3 DEF Orderly, Answered
<1>5. QED
  BY <1>2, <1>3, <1>4, JobStep

LEMMA RequestKeeps ==
  ASSUME CatchallInv, NEW c \in Calls, Request(c)
  PROVE  CatchallInv'
<1> DEFINE n == [NoJob EXCEPT !.pc = "dispatch", !.call = c]
<1>1. job' = n /\ UNCHANGED <<settings, realm, edits>>
  BY DEF Request
<1>2. /\ n = [NoJob EXCEPT !.pc = "dispatch", !.call = c]
      /\ n.pc = "dispatch" /\ n.call = c /\ n.list = <<>> /\ n.seen = <<>>
  BY DEF NoJob
<1>3. n \in Jobs
  BY NoJobIsOrderly DEF Jobs, JobPlaces
<1> HIDE DEF n
<1>4. Orderly(n) /\ Answered(n)
  BY <1>2 DEF Orderly, Answered
<1>5. QED
  BY <1>1, <1>3, <1>4, JobStep

\* An answer without users, to what is no query and no login without ALL_PASS.
LEMMA EmptyAnswerKeeps ==
  ASSUME CatchallInv, Answer200(<<>>), job.call \in Calls, job.call.kind # "query",
         job.call.kind \in Logins => allPass /\ job.call.kind = "entitlements",
         UNCHANGED <<settings, realm, edits>>
  PROVE  CatchallInv'
<1> DEFINE n == [job EXCEPT !.pc = "answered", !.status = 200, !.list = <<>>]
<1>1. job \in Jobs /\ Orderly(job)
  BY DEF CatchallInv
<1>2. job' = n
  BY DEF Answer200
<1>3. ASSUME NEW list \in Seq(Roster), NEW code \in Codes
      PROVE  [job EXCEPT !.pc = "answered", !.status = code, !.list = list] \in Jobs
  BY <1>1 DEF Jobs, JobPlaces
<1>4. n \in Jobs
  <2>1. <<>> \in Seq(Roster) /\ 200 \in Codes
    BY EmptySeq DEF Codes
  <2>2. QED
    BY <1>3, <2>1
<1>5. n.pc = "answered" /\ n.call = job.call /\ n.status = 200 /\ n.list = <<>>
  BY <1>1 DEF Jobs
<1> HIDE DEF n
<1>6. Orderly(n)
  BY <1>5 DEF Orderly, ToSet
<1>7. Answered(n)
  <2>1. n.call.kind \in Logins => allPass /\ n.call.kind = "entitlements"
    BY <1>5
  <2>2. n.call.kind # "query" /\ n.list = <<>> /\ n.status \in {200, 403, 404}
    BY <1>5
  <2>3. QED
    BY <2>1, <2>2, Zenon DEF Answered
<1>8. QED
  BY <1>2, <1>4, <1>6, <1>7, JobStep

LEMMA GotoKeeps ==
  ASSUME CatchallInv, NEW pc \in {"list", "password"}, Goto(pc), job.pc = "dispatch",
         IF pc = "list" THEN job.call.kind = "query" ELSE job.call.kind \in Logins,
         UNCHANGED <<settings, realm, edits>>
  PROVE  CatchallInv'
<1> DEFINE n == [job EXCEPT !.pc = pc]
<1>1. job \in Jobs /\ Orderly(job) /\ pc \in JobPlaces
  BY DEF CatchallInv, JobPlaces
<1>2. job' = n
  BY DEF Goto
<1>3. n \in Jobs /\ n.pc = pc /\ n.call = job.call /\ n.list = job.list /\ n.seen = job.seen
  BY <1>1, JobMoved
<1> HIDE DEF n
<1>4. Orderly(n) /\ Answered(n)
  BY <1>1, <1>3 DEF Orderly, Answered
<1>5. QED
  BY <1>2, <1>3, <1>4, JobStep

LEMMA MainHandlerKeeps ==
  ASSUME CatchallInv, MainHandler
  PROVE  CatchallInv'
<1> DEFINE c == job.call
<1>1. /\ job.pc = "dispatch" /\ job.list = <<>> /\ job.seen = <<>> /\ c \in Calls
      /\ UNCHANGED <<settings, realm, edits>>
  BY DEF CatchallInv, Orderly, MainHandler
<1>2. /\ c.kind \in {"query", "login", "entitlements", "jwt", "cut", "other"}
      /\ c.kind = "query" => c.api \in {"users", "v1", "v2", "v3"}
      /\ c.kind \in Logins => c.header \in {"none", "cut", "basic"}
  BY <1>1, CallsAssumption DEF CallsAssumption, Logins
<1>3. CASE Error(404) \/ Drop
  BY <1>1, <1>3, ErrorKeeps, DropKeeps DEF Codes
<1>4. CASE ~disabled
  <2>1. CASE c.kind = "cut"
    <3>1. Drop
      BY <1>4, <2>1 DEF MainHandler
    <3>2. QED
      BY <1>3, <3>1
  <2>2. CASE c.kind = "other"
    <3>1. Answer200(<<>>)
      BY <1>4, <2>2 DEF MainHandler
    <3>2. QED
      BY <1>1, <2>2, <3>1, EmptyAnswerKeeps DEF Logins
  <2>3. CASE c.kind = "jwt"
    <3>1. Answer200(<<>>) \/ Error(502)
      BY <1>4, <2>3 DEF MainHandler
    <3>2. QED
      BY <1>1, <2>3, <3>1, EmptyAnswerKeeps, ErrorKeeps DEF Logins, Codes
  <2>4. CASE c.kind = "query"
    <3>1. Error(405) \/ Goto("list") \/ Error(Refusals[c.api])
      BY <1>4, <2>4 DEF MainHandler, Begin
    <3>2. Refusals[c.api] \in {200, 500}
      BY <1>2, <2>4 DEF Refusals
    <3>3. QED
      BY <1>1, <2>4, <3>1, <3>2, GotoKeeps, ErrorKeeps DEF Logins, Codes
  <2>5. CASE c.kind \in Logins
    <3>1. \/ allPass /\ c.kind = "entitlements" /\ Answer200(<<>>)
          \/ CASE c.header = "none" -> Error(403)
               [] c.header = "cut" -> Drop
               [] c.header = "basic" -> Goto("password")
      BY <1>4, <2>5 DEF MainHandler, Logins
    <3>2. CASE allPass /\ c.kind = "entitlements" /\ Answer200(<<>>)
      <4>1. c.kind \in Logins => allPass /\ c.kind = "entitlements"
        BY <3>2, Zenon
      <4>2. c.kind # "query" /\ Answer200(<<>>)
        BY <3>2
      <4>3. QED
        BY <1>1, <4>1, <4>2, EmptyAnswerKeeps
    <3>3. CASE CASE c.header = "none" -> Error(403)
                 [] c.header = "cut" -> Drop
                 [] c.header = "basic" -> Goto("password")
      <4>1. Error(403) \/ Drop \/ Goto("password")
        BY <1>2, <2>5, <3>3
      <4>2. QED
        BY <1>1, <2>5, <4>1, ErrorKeeps, DropKeeps, GotoKeeps DEF Logins, Codes
    <3>4. QED
      BY <3>1, <3>2, <3>3
  <2>6. QED
    BY <1>2, <2>1, <2>2, <2>3, <2>4, <2>5 DEF Logins
<1>5. CASE disabled
  <2>1. Error(404)
    BY <1>5 DEF MainHandler
  <2>2. QED
    BY <1>3, <2>1
<1>6. QED
  BY <1>4, <1>5, Zenon

LEMMA FindUsersByKeeps ==
  ASSUME CatchallInv, FindUsersBy
  PROVE  CatchallInv'
<1> DEFINE c == job.call
<1>1. /\ job \in Jobs /\ job.pc = "list" /\ c.kind = "query" /\ job.list = <<>> /\ job.seen = <<>>
      /\ c \in Calls /\ UNCHANGED <<settings, realm, edits>>
      /\ realm \in SUBSET Roster /\ UniqueNames(realm)
  BY DEF CatchallInv, Orderly, FindUsersBy
<1>2. c.limit \in Int
  BY <1>1, CallsAssumption DEF CallsAssumption
<1>3. CASE Drop \/ Error(500)
  BY <1>1, <1>3, ErrorKeeps, DropKeeps DEF Codes, Logins
<1>4. ASSUME NEW listing \in Listings,
             job' = WithList(job, 200, listing, Sorted(c, Loop(c, listing)))
      PROVE  CatchallInv'
  <2> DEFINE list == Sorted(c, Loop(c, listing))
             n == WithList(job, 200, listing, list)
  <2>1. listing \in Seq(Roster) /\ DistinctNames(listing)
    BY <1>1, ListingsAreDistinct
  <2>2. IsAnswer(c, listing, list)
    BY <1>2, <2>1, QueryAnswers
  <2> HIDE DEF list
  <2>3. list \in Seq(Roster) /\ ToSet(list) \subseteq ToSet(listing)
    <3> DEFINE due == First(Matched(c, listing, DOMAIN listing), c.limit)
    <3>1. list \in Seq(Roster) /\ ToSet(list) = {listing[j] : j \in due}
      BY <2>2 DEF IsAnswer
    <3>2. due \subseteq DOMAIN listing
      BY DEF First, Matched
    <3> HIDE DEF due
    <3>3. QED
      BY <3>1, <3>2 DEF ToSet
  <2>4. 200 \in Codes
    BY DEF Codes
  <2>5. /\ n \in Jobs /\ n.pc = "answered" /\ n.call = job.call
        /\ n.list = list /\ n.seen = listing
    BY <1>1, <2>1, <2>3, <2>4, JobListed
  <2>6. job' = n
    BY <1>4 DEF list
  <2> HIDE DEF n
  <2>7. Orderly(n)
    BY <1>1, <2>3, <2>5 DEF Orderly
  <2>8. Answered(n)
    BY <1>1, <2>2, <2>5 DEF Answered, Logins
  <2>9. QED
    BY <1>1, <2>5, <2>6, <2>7, <2>8, JobStep
<1>5. QED
  BY <1>3, <1>4 DEF FindUsersBy, Unlisted, WithList

LEMMA CheckPasswordKeeps ==
  ASSUME CatchallInv, CheckPassword
  PROVE  CatchallInv'
<1>1. /\ job \in Jobs /\ job.pc = "password" /\ job.call.kind \in Logins
      /\ job.list = <<>> /\ job.seen = <<>>
      /\ job.call \in Calls /\ UNCHANGED <<settings, realm, edits>>
  BY DEF CatchallInv, Orderly, CheckPassword
<1>2. CASE Error(403)
  BY <1>1, <1>2, ErrorKeeps DEF Codes, Logins
<1>3. CASE Accept
  <2> DEFINE n == WithAccepted(job, job.call.user)
  <2>1. job' = n
    BY <1>3 DEF Accept, WithAccepted
  <2>2. job.call.user \in {c.user : c \in Calls}
    BY <1>1
  <2>3. /\ n \in Jobs /\ n.pc = "list" /\ n.call = job.call /\ n.list = job.list
        /\ n.accepted = job.call.user /\ n.seen = job.seen
    BY <1>1, <2>2, JobAccepted
  <2> HIDE DEF n
  <2>4. Orderly(n) /\ Answered(n)
    BY <1>1, <2>3 DEF Orderly, Answered, ToSet
  <2>5. QED
    BY <1>1, <2>1, <2>3, <2>4, JobStep
<1>4. QED
  BY <1>2, <1>3 DEF CheckPassword

LEMMA OneAsSequence ==
  ASSUME NEW u
  PROVE  SetToSeq({u}) = <<u>>
<1>1. Cardinality({u}) = 1
  BY FS_Singleton
<1>2. <<u>> \in [1..1 -> {u}] /\ IsInjective(<<u>>)
  BY DEF IsInjective
<1>3. SetToSeq({u}) \in [1..1 -> {u}]
  BY <1>1, <1>2 DEF SetToSeq
<1>4. \A f \in [1..1 -> {u}] : f = <<u>>
  OBVIOUS
<1>5. QED
  BY <1>3, <1>4

LEMMA FindUserByIDKeeps ==
  ASSUME CatchallInv, FindUserByID
  PROVE  CatchallInv'
<1>1. /\ job \in Jobs /\ job.pc = "list" /\ job.call.kind \in Logins
      /\ job.accepted = job.call.user /\ job.list = <<>> /\ job.seen = <<>>
      /\ job.call \in Calls /\ UNCHANGED <<settings, realm, edits>>
      /\ realm \in SUBSET Roster /\ UniqueNames(realm)
  BY DEF CatchallInv, Orderly, FindUserByID
<1>2. CASE Drop \/ Error(403)
  BY <1>1, <1>2, ErrorKeeps, DropKeeps DEF Codes, Logins
<1>3. ASSUME NEW listing \in Listings, Named(listing) # {},
             job' = WithList(job, 200, listing, SetToSeq(Named(listing)))
      PROVE  CatchallInv'
  <2>1. listing \in Seq(Roster) /\ ToSet(listing) \subseteq realm
    BY <1>1, ListingsAreDistinct
  <2>2. PICK u \in Named(listing) : TRUE
    BY <1>3
  <2>3. u \in ToSet(listing) /\ u.name = job.call.user.name /\ u \in Roster
    BY <1>1, <2>1, <2>2 DEF Named
  <2>4. Named(listing) = {u}
    <3>1. \A v \in Named(listing) : v \in realm /\ v.name = u.name
      BY <2>1, <2>3 DEF Named
    <3>2. QED
      BY <1>1, <2>1, <2>2, <2>3, <3>1 DEF UniqueNames
  <2> DEFINE n == WithList(job, 200, listing, <<u>>)
  <2>5. job' = n
    BY <1>3, <2>4, OneAsSequence
  <2>6. <<u>> \in Seq(Roster) /\ Len(<<u>>) = 1 /\ <<u>>[1] = u /\ <<u>> # <<>>
    BY <2>3
  <2>7. ToSet(<<u>>) = {u}
    BY DEF ToSet
  <2>8. 200 \in Codes
    BY DEF Codes
  <2>9. /\ n \in Jobs /\ n.pc = "answered" /\ n.call = job.call /\ n.status = 200
        /\ n.list = <<u>> /\ n.accepted = job.accepted /\ n.seen = listing
    <3> DEFINE list == <<u>>
    <3>1. list \in Seq(Roster)
      BY <2>6
    <3> HIDE DEF list
    <3>2. /\ WithList(job, 200, listing, list) \in Jobs
          /\ WithList(job, 200, listing, list).pc = "answered"
          /\ WithList(job, 200, listing, list).call = job.call
          /\ WithList(job, 200, listing, list).status = 200
          /\ WithList(job, 200, listing, list).list = list
          /\ WithList(job, 200, listing, list).accepted = job.accepted
          /\ WithList(job, 200, listing, list).seen = listing
      BY <1>1, <2>1, <2>8, <3>1, JobListed
    <3>3. QED
      BY <3>2, Zenon DEF list
  <2> HIDE DEF n
  <2>10. Orderly(n)
    BY <1>1, <2>3, <2>7, <2>9 DEF Orderly
  <2>11. Answered(n)
    BY <1>1, <2>3, <2>6, <2>9 DEF Answered, Logins
  <2>12. QED
    BY <1>1, <2>5, <2>9, <2>10, <2>11, JobStep
<1>4. QED
  BY <1>2, <1>3 DEF FindUserByID, Unlisted, WithList

LEMMA ReturnKeeps ==
  ASSUME CatchallInv, Return
  PROVE  CatchallInv'
<1>1. job' = NoJob /\ UNCHANGED <<settings, realm, edits>>
  BY DEF Return
<1>2. Answered(NoJob)
  BY NoJobIsOrderly DEF Answered
<1>3. QED
  BY <1>1, <1>2, NoJobIsOrderly, JobStep

LEMMA SameAnswered ==
  ASSUME Answered(job), job' = job, allPass' = allPass
  PROVE  Answered(job)'
<1> SUFFICES ASSUME job'.pc = "answered"
             PROVE  (/\ /\ job.call.kind = "query" /\ job.status = 200 /\ job.seen # <<>>
                        => IsAnswer(job.call, job.seen, job.list)
                     /\ job.call.kind \in Logins =>
                         /\ job.list # <<>> => Len(job.list) = 1 /\ job.list[1].name = job.accepted.name
                         /\ job.status = 200 => job.list # <<>> \/ (allPass /\ job.call.kind = "entitlements")
                         /\ job.status \in {200, 403, 404})'
  BY Zenon DEF Answered
<1>1. job.pc = "answered"
  OBVIOUS
<1>2. (job.call.kind = "query" /\ job.status = 200 /\ job.seen # <<>>
         => IsAnswer(job.call, job.seen, job.list))'
  <2>1. job.call.kind = "query" /\ job.status = 200 /\ job.seen # <<>>
          => IsAnswer(job.call, job.seen, job.list)
    BY <1>1, Zenon DEF Answered
  <2>2. QED
    BY <2>1, Zenon
<1>3. (job.call.kind \in Logins =>
         (job.list # <<>> => Len(job.list) = 1 /\ job.list[1].name = job.accepted.name))'
  BY <1>1, Zenon DEF Answered
<1>4. (job.call.kind \in Logins /\ job.status = 200
         => job.list # <<>> \/ (allPass /\ job.call.kind = "entitlements"))'
  <2>1. job.call.kind \in Logins /\ job.status = 200
         => job.list # <<>> \/ (allPass /\ job.call.kind = "entitlements")
    BY <1>1, Zenon DEF Answered
  <2>2. QED
    BY <2>1, Zenon
<1>5. (job.call.kind \in Logins => job.status \in {200, 403, 404})'
  BY <1>1, Zenon DEF Answered
<1>6. QED
  BY <1>2, <1>3, <1>4, <1>5, Zenon

LEMMA EditRealmKeeps ==
  ASSUME CatchallInv, NEW u \in Roster, EditRealm(u)
  PROVE  CatchallInv'
<1>1. allPass' = allPass /\ disabled' = disabled
  BY Zenon DEF EditRealm, settings
<1>2. job' = job /\ realm' \in SUBSET Roster /\ UniqueNames(realm')
  BY DEF EditRealm, CatchallInv
<1>3. edits' \in 0..MaxEdits
  BY ListingAssumption DEF EditRealm, CatchallInv, ListingAssumption
<1>4. Answered(job)'
  <2>1. Answered(job)
    BY DEF CatchallInv
  <2>2. QED
    BY <1>1, <1>2, <2>1, SameAnswered
<1>5. disabled' \in BOOLEAN /\ allPass' \in BOOLEAN
  BY <1>1, Zenon DEF CatchallInv
<1>6. job' \in Jobs /\ Orderly(job')
  BY <1>2 DEF CatchallInv
<1>7. QED
  BY <1>2, <1>3, <1>4, <1>5, <1>6, Zenon DEF CatchallInv

LEMMA NextCatchall ==
  ASSUME CatchallInv, [Next]_vars
  PROVE  CatchallInv'
<1>1. CASE UNCHANGED catchallVars
  <2>1. allPass' = allPass /\ disabled' = disabled
    BY <1>1, Zenon DEF catchallVars
  <2>2. job' = job /\ realm' = realm /\ edits' = edits
    BY <1>1 DEF catchallVars
  <2>3. QED
    <3>1. Answered(job)'
      BY <2>1, <2>2, SameAnswered DEF CatchallInv
    <3>2. disabled' \in BOOLEAN /\ allPass' \in BOOLEAN
      BY <2>1, Zenon DEF CatchallInv
    <3>3. /\ job' \in Jobs /\ Orderly(job') /\ edits' \in 0..MaxEdits
          /\ realm' \in SUBSET Roster /\ UniqueNames(realm')
      BY <2>2 DEF CatchallInv
    <3>4. QED
      BY <3>1, <3>2, <3>3, Zenon DEF CatchallInv
<1>2. CASE CatchallNext
  <2>1. ASSUME NEW c \in Calls, Request(c)
        PROVE  CatchallInv'
    BY <2>1, RequestKeeps
  <2>2. ASSUME NEW u \in Roster, EditRealm(u)
        PROVE  CatchallInv'
    BY <2>2, EditRealmKeeps
  <2>3. QED
    BY <1>2, <2>1, <2>2, MainHandlerKeeps, FindUsersByKeeps, CheckPasswordKeeps,
       FindUserByIDKeeps, ReturnKeeps DEF CatchallNext
<1>3. CASE UNCHANGED vars
  BY <1>1, <1>3 DEF vars
<1>4. QED
  BY <1>1, <1>2, <1>3, Zenon DEF Next

LEMMA InitCatchall ==
  ASSUME Init
  PROVE  CatchallInv
<1>1. disabled \in BOOLEAN /\ allPass \in BOOLEAN
  BY Zenon DEF Init, CatchallInit
<1>2. edits \in 0..MaxEdits /\ realm \in SUBSET Roster /\ UniqueNames(realm)
  BY ListingAssumption DEF Init, CatchallInit, ListingAssumption
<1>3. job = NoJob
  BY DEF Init, CatchallInit
<1>4. job \in Jobs /\ Orderly(job) /\ job.pc = "none"
  BY <1>3, NoJobIsOrderly
<1>5. Answered(job)
  BY <1>4, Zenon DEF Answered
<1>6. QED
  BY <1>1, <1>2, <1>4, <1>5, Zenon DEF CatchallInv

LEMMA CatchallInvariance == Spec => []CatchallInv
BY InitCatchall, NextCatchall, PTL DEF Spec

\* Whatever the realm and the requests, and in whatever order Keycloak lists the
\* users: the catch-all server keeps its type, and answers with users it listed.
THEOREM CatchallTypeInvariant == Spec => []CatchallTypeOK
<1>1. ASSUME CatchallInv
      PROVE  CatchallTypeOK
  <2>1. disabled \in BOOLEAN /\ allPass \in BOOLEAN
    BY <1>1, Zenon DEF CatchallInv
  <2>2. realm \subseteq Roster /\ edits \in 0..MaxEdits /\ job \in Jobs /\ Orderly(job)
    BY <1>1 DEF CatchallInv
  <2>3. job.pc \in {"none", "dispatch", "list", "password", "answered", "dropped"}
    BY <2>2 DEF Jobs, JobPlaces
  <2>4. job.status \in {Missing, 200, 403, 404, 405, 500, 502}
    BY <2>2 DEF Jobs, Codes
  <2>5. /\ job.pc # "none" => job.call \in Calls
        /\ ToSet(job.list) \subseteq ToSet(job.seen)
    BY <2>2 DEF Orderly
  <2>6. QED
    BY <2>1, <2>2, <2>3, <2>4, <2>5, Zenon DEF CatchallTypeOK
<1>2. QED
  BY <1>1, CatchallInvariance, PTL

\* However the realm changes between the check of a password and the listing that
\* follows it, and wherever that listing stops: a login that is answered with a
\* user is answered with one, of the name whose password was right.
THEOREM LoginsAreOwn == Spec => []LoginIsOwnUser
<1>1. ASSUME CatchallInv
      PROVE  LoginIsOwnUser
  <2>1. Answered(job)
    BY <1>1 DEF CatchallInv
  <2>2. QED
    BY <2>1, Zenon DEF Answered, LoginIsOwnUser, Logins
<1>2. QED
  BY <1>1, CatchallInvariance, PTL

\* For a realm of any size, in any order, and for every combination of filters: a
\* query is answered with the users that match, in the order listed, as many as
\* the limit lets through, and in descending order when that is asked.
THEOREM QueriesAreExact == Spec => []QueryIsExact
<1>1. ASSUME CatchallInv
      PROVE  QueryIsExact
  <2> DEFINE c == job.call
             matches(u) == /\ c.org \in {"", u.org} /\ c.account \in {"", u.account}
                           /\ c.admin = "true" => u.admin
                           /\ c.active = "enabled" => u.active
                           /\ c.active = "disabled" => ~u.active
                           /\ c.match # Missing => u \in c.match
             hits == {j \in DOMAIN job.seen : matches(job.seen[j])}
             place(j) == Cardinality({i \in hits : i <= j})
             due == {j \in hits : c.limit > 0 => place(j) <= c.limit}
  <2> SUFFICES ASSUME job.pc = "answered", c.kind = "query", job.status = 200, job.seen # <<>>
               PROVE  /\ Len(job.list) = Cardinality(due)
                      /\ ToSet(job.list) = {job.seen[j] : j \in due}
                      /\ IF c.sort = "des"
                         THEN \A j, k \in DOMAIN job.list :
                                j < k => job.list[j].name > job.list[k].name
                         ELSE \A j \in due : job.list[place(j)] = job.seen[j]
    BY Zenon DEF QueryIsExact
  <2>1. IsAnswer(c, job.seen, job.list)
    BY <1>1 DEF CatchallInv, Answered
  <2>2. \A u : matches(u) <=> Keeps(c, u)
    BY DEF Keeps
  <2>3. hits = Matched(c, job.seen, DOMAIN job.seen)
    BY <2>2 DEF Matched
  <2> HIDE DEF hits
  <2>4. \A j : place(j) = Place(hits, j)
    BY DEF Place, Upto
  <2>5. due = First(hits, c.limit)
    BY <2>4 DEF First
  <2>6. /\ Len(job.list) = Cardinality(First(hits, c.limit))
        /\ ToSet(job.list) = {job.seen[j] : j \in First(hits, c.limit)}
        /\ IF c.sort = "des"
           THEN \A j, k \in DOMAIN job.list : j < k => job.list[j].name > job.list[k].name
           ELSE \A j \in First(hits, c.limit) : job.list[Place(hits, j)] = job.seen[j]
    BY <2>1, <2>3 DEF IsAnswer
  <2> HIDE DEF due, place
  <2>7. QED
    BY <2>4, <2>5, <2>6
<1>2. QED
  BY <1>1, CatchallInvariance, PTL
=============================================================================
