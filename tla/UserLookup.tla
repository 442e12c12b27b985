----------------------------- MODULE UserLookup -----------------------------
(***************************************************************************)
(* The user queries: POST /v1/users, GET /v3/accounts/{orgID}/users and    *)
(* POST /v3/accounts/{orgID}/usersBy with a user module: AMS through the   *)
(* OCM SDK, its mock, or the Keycloak user service.  Handlers are          *)
(* goroutines of one process; what they share is the order of the v3       *)
(* queries, a package variable of ocm_impl.go that nobody locks, and the   *)
(* connections they leave open.                                            *)
(*                                                                         *)
(* An account is <<organisation, number>>.  What a service answers to a    *)
(* search is any page of the accounts that match it: a v3 query has one    *)
(* organisation and sorts by organization.id, which orders nothing.        *)
(***************************************************************************)
EXTENDS Integers, Sequences, FiniteSets, SequencesExt

CONSTANTS
  Requests,      \* the requests that are handled at once
  Modules,       \* the values of USERS_MODULE
  Accounts,      \* the accounts of the services
  Inputs,        \* the requests that clients send, for each module
  EmptyOrg, FailingName,  \* "empty" and "errorTest" of the mock
  FirstBindings, \* bound: the role bindings at the beginning
  PageSize,      \* entries of an AMS answer when the query gives no size
  MaxWords,      \* bound: sorted v3 queries since the start of the process
  MaxOpen,       \* bound: connections open at once
  MaxChanges,    \* bound: role bindings that come or go
  Torn, Null

ASSUME AccountsAssumption == IsFiniteSet(Accounts) /\ IsFiniteSet(Requests)
ASSUME BindingsAssumption == \A B \in FirstBindings : B \subseteq Accounts
ASSUME InputsAssumption ==
  \A m \in Modules \ {""} : \A i \in Inputs[m] :
    /\ i.call \in {"v1", "users", "usersBy"} /\ i.plain \in BOOLEAN
    /\ i.match # Null => i.match \subseteq Accounts
ASSUME NullAssumption == Null \notin {200, 400, 500}
ASSUME BoundsAssumption == {PageSize, MaxWords, MaxOpen, MaxChanges} \subseteq Nat

VARIABLES
  usersModule,   \* config.UsersModule
  req,           \* the requests
  order,         \* the package variable order of ocm_impl.go
  bindings,      \* the accounts that have the OrganizationAdmin role
  changes,       \* how often bindings changed
  open,          \* OCM connections that nobody closed
  failures,      \* history: AMS requests that failed with a connection
  asked,         \* history: directions of the sorted v3 queries, in order
  overlapped     \* history: whether two uses of order overlapped

lookupVars == <<usersModule, req, order, bindings, changes, open, failures, asked, overlapped>>
orders == <<order, asked, overlapped>>
connections == <<open, failures>>
admins == <<bindings, changes>>

(***************************************************************************)
(* The order is a Go string, two words in memory: text and length.  Here   *)
(* each is the list of the directions in the string it belongs to:         *)
(* "organization.id" is <<>>, and a direction appends " asc" or " desc".   *)
(* Two words that do not belong together read as Torn: a text cut at the   *)
(* length of another, or the memory behind it.  The words are stored one   *)
(* by one.  They are loaded together: a load of one before and the other   *)
(* after a store reads as one between the words of a store does, Torn.     *)
(***************************************************************************)
Loaded(o) == IF o.text = o.length THEN o.text ELSE <<Torn>>

(***************************************************************************)
(* Requests.                                                               *)
(***************************************************************************)
\* call: "v1", "users", "usersBy"; parses: whether the body does; bad: the query
\* parameters that have a bad value; names: a list of usernames, or Null; org;
\* match: the accounts that satisfy the filter of usersBy, Null for an empty
\* filter; plain: whether no value of the query has a character that means
\* something where the value is put, as the apostrophe of a surname does;
\* sort: "", "asc", "desc"; admin: admin_only; limit, offset.
Idle == [pc |-> "idle", in |-> Null, status |-> Null, users |-> {}, flagged |-> {},
         words |-> <<>>, held |-> {}, kept |-> {}]

LookupInit ==
  /\ usersModule \in Modules
  /\ req = [r \in Requests |-> Idle]
  /\ order = [text |-> <<>>, length |-> <<>>]
  /\ bindings \in FirstBindings
  /\ changes = 0
  /\ open = 0 /\ failures = 0
  /\ asked = <<>> /\ overlapped = FALSE

WriteLast(old, code) == code                                    \* mutant
\* The first status that a handler writes is the one on the wire.
WriteHeader(old, code) == IF old = Null THEN code ELSE old

\* The sorted queries that come yet stay within the bound.
SortPending(r) == req[r].pc \in {"connect", "order"} /\ req[r].in.sort # ""
WithinBounds(i) ==
  /\ open + Cardinality({r \in Requests : req[r].pc = "connect"}) < MaxOpen
  /\ i.sort # "" => Len(asked) + Cardinality({r \in Requests : SortPending(r)}) < MaxWords

\* The parameters that a handler parses; a bad value of another is ignored.
Parameters(call) ==
  {"sortOrder"} \cup IF call = "v1" THEN {"queryBy"} ELSE {"admin_only", "limit", "offset"}

\* What the handlers refuse before they ask anybody.
Refused(i) ==
  \/ i.bad \cap Parameters(i.call) # {}
  \/ i.call # "v1" /\ ~i.parses
  \/ i.call = "usersBy" /\ i.match = Null

\* A v1 handler that cannot parse the body answers 400 and goes on, without
\* usernames.
Receive(r, i) ==
  /\ req[r].pc = "idle" /\ WithinBounds(i)
  /\ req' = [req EXCEPT ![r] =
       [Idle EXCEPT !.in = i, !.held = bindings, !.kept = bindings,
                    !.status = IF Refused(i) \/ ~i.parses THEN 400 ELSE Null,
                    !.pc = IF Refused(i) THEN "reply"
                           ELSE IF usersModule = "keycloak" THEN "token" ELSE "connect"]]
  /\ UNCHANGED <<usersModule, orders, connections, admins>>

Names(i) == IF i.parses THEN i.names ELSE Null

Fail(r) ==
  req' = [req EXCEPT ![r] =
    [@ EXCEPT !.status = WriteHeader(req[r].status, 500), !.pc = "reply",
              !.words = <<>>, !.users = {}, !.held = {}, !.kept = {}]]

Found(r, users, flagged) ==
  req' = [req EXCEPT ![r] =
    [@ EXCEPT !.status = WriteHeader(req[r].status, 200), !.pc = "reply",
              !.users = users, !.flagged = flagged]]

EveryoneFound(r) == req[r].users                                \* mutant
\* RemoveNonOrgAdmins for admin_only; a v1 query has no such parameter.
Answer(r) == IF req[r].in.admin THEN req[r].flagged ELSE req[r].users

\* A handler that panics: net/http drops the connection.
Panic(r) == req' = [req EXCEPT ![r].pc = "dropped"]

Reply(r) ==
  /\ req[r].pc \in {"reply", "dropped"}
  /\ req' = [req EXCEPT ![r] = Idle]
  /\ UNCHANGED <<usersModule, orders, connections, admins>>

(***************************************************************************)
(* AMS: a connection, the order, the accounts, their role bindings.        *)
(***************************************************************************)
InitSdkConnection(r) ==
  /\ req[r].pc = "connect" /\ usersModule = "ams"
  /\ \/ /\ req' = [req EXCEPT ![r].pc = IF req[r].in.call = "v1" THEN "accounts" ELSE "order"]
        /\ open' = open + 1
     \/ Fail(r) /\ UNCHANGED open
  /\ UNCHANGED <<usersModule, orders, failures, admins>>

UsesOrder(r) == req[r].pc \in {"store", "storeText", "storeLength", "reload"}

\* Extends the order only when it is the default.
LoadDefault(r) ==                                               \* mutant
  /\ req[r].pc = "order"
  /\ LET sort == req[r].in.sort
         old  == Loaded(order)
     IN  /\ asked' = IF sort = "" THEN asked ELSE Append(asked, sort)
         /\ req' = [req EXCEPT ![r] =
              [@ EXCEPT !.pc = IF sort = "" THEN "accounts" ELSE "store",
                        !.words = IF sort = "" \/ old # <<>> THEN old ELSE <<sort>>]]
  /\ overlapped' = (overlapped \/ \E s \in Requests : UsesOrder(s))
  /\ UNCHANGED <<usersModule, order, connections, admins>>

\* createV3QueryOrder appends the direction to order and returns order; a query
\* without a direction only reads it.
LoadOrder(r) ==
  /\ req[r].pc = "order"
  /\ LET sort == req[r].in.sort
     IN  /\ asked' = IF sort = "" THEN asked ELSE Append(asked, sort)
         /\ req' = [req EXCEPT ![r] =
              [@ EXCEPT !.pc = IF sort = "" THEN "accounts" ELSE "store",
                        !.words = Loaded(order) \o (IF sort = "" THEN <<>> ELSE <<sort>>)]]
  /\ overlapped' = (overlapped \/ \E s \in Requests : UsesOrder(s))
  /\ UNCHANGED <<usersModule, order, connections, admins>>

\* The build may store either word first.
StoreOrder(r) ==
  /\ \/ /\ req[r].pc \in {"store", "storeText"}
        /\ order' = [order EXCEPT !.text = req[r].words]
        /\ req' = [req EXCEPT ![r].pc = IF req[r].pc = "store" THEN "storeLength" ELSE "reload"]
     \/ /\ req[r].pc \in {"store", "storeLength"}
        /\ order' = [order EXCEPT !.length = req[r].words]
        /\ req' = [req EXCEPT ![r].pc = IF req[r].pc = "store" THEN "storeText" ELSE "reload"]
  /\ UNCHANGED <<usersModule, asked, overlapped, connections, admins>>

\* What is returned is the variable again, or what was stored in it.
ReturnOrder(r) ==
  /\ req[r].pc = "reload"
  /\ \E words \in {req[r].words, Loaded(order)} :
       req' = [req EXCEPT ![r] = [@ EXCEPT !.pc = "accounts", !.words = words]]
  /\ UNCHANGED <<usersModule, orders, connections, admins>>

\* Without usernames the search string is empty, and matches all.
ByUsernames(i) == IF Names(i) \in {Null, <<>>} THEN Accounts ELSE Accounts \cap ToSet(Names(i))

ByFilter(i) == IF i.call = "users" THEN Accounts ELSE i.match   \* mutant
ByOrg(i) ==
  {a \in IF i.call = "users" THEN Accounts ELSE i.match : a[1] = i.org}

\* The accounts that a query asks for.
Matching(i) == IF i.call = "v1" THEN ByUsernames(i) ELSE ByOrg(i)

\* What the accounts that match a query may be.  The values are put into the
\* search string of AMS as they are, between apostrophes: what another one in a
\* value makes of the string is up to AMS.
Matches(i) == IF i.plain THEN {Matching(i)} ELSE SUBSET Accounts

\* The length of page p of n entries, of the given size; pages count from 1, and
\* page 0 is the first as well.  The offset of the request is sent as the page.
PageLength(n, size, p) ==
  LET before == (IF p = 0 THEN 0 ELSE p - 1) * size
  IN  IF n <= before THEN 0 ELSE IF n - before <= size THEN n - before ELSE size

Page(S, size, p) == {T \in SUBSET S : Cardinality(T) = PageLength(Cardinality(S), size, p)}

FailAndLeak(r) ==
  /\ Fail(r)
  /\ failures' = failures + 1
  /\ UNCHANGED open

GetAccounts(r) ==
  /\ req[r].pc = "accounts" /\ usersModule = "ams"
  /\ LET i == req[r].in
     IN  \/ /\ \E S \in Matches(i) :
               \E users \in IF i.call = "v1" THEN Page(S, PageSize, 1)
                            ELSE Page(S, i.limit, i.offset) :
                 req' = [req EXCEPT ![r] =
                   [@ EXCEPT !.pc = "roles", !.words = <<>>, !.users = users]]
            /\ UNCHANGED connections
         \/ FailAndLeak(r)
  /\ UNCHANGED <<usersModule, orders, admins>>

\* The role bindings that match the search string: of the users that were found,
\* or all when there are none.
Holders(users) == IF users = {} THEN bindings ELSE bindings \cap users

CloseNothing == UNCHANGED open                                  \* mutant
CloseTwice == open' = open - 2                                  \* mutant
CloseSdkConnection == open' = open - 1

GetOrgAdmin(r) ==
  /\ req[r].pc = "roles" /\ usersModule = "ams"
  /\ \/ /\ \E found \in Page(Holders(req[r].users), PageSize, 1) :
             Found(r, req[r].users, found \cap req[r].users)
        /\ CloseSdkConnection
        /\ UNCHANGED failures
     \/ FailAndLeak(r)
  /\ UNCHANGED <<usersModule, orders, admins>>

(***************************************************************************)
(* The mock makes its users up, and looks at the first of them.            *)
(***************************************************************************)
Made(i) ==
  IF i.call = "v1" THEN IF Names(i) = Null THEN {} ELSE ToSet(Names(i))
  ELSE IF i.org = EmptyOrg THEN {}
  ELSE {<<i.org, n>> : n \in (i.offset + 1)..i.limit}

MockFails(i) ==
  IF i.call = "v1" THEN Made(i) # {} /\ Head(Names(i)) = FailingName ELSE i.org = FailingName

MockAnswers(r) ==
  /\ req[r].pc = "connect" /\ usersModule = "mock"
  /\ LET made == Made(req[r].in)
     IN  IF MockFails(req[r].in) THEN Fail(r)
         ELSE IF made = {} THEN Panic(r)
         ELSE Found(r, made, made)
  /\ UNCHANGED <<usersModule, orders, connections, admins>>

(***************************************************************************)
(* Keycloak: a token, then the user service.                               *)
(***************************************************************************)
\* The token is posted for with a client that has no timeout.  The status of the
\* answer is not looked at: an error is an empty token, and no JSON an error.
GetAccessToken(r) ==
  /\ req[r].pc = "token"
  /\ req' = [req EXCEPT ![r].pc = "service"] \/ Fail(r)
  /\ UNCHANGED <<usersModule, orders, connections, admins>>

\* Parameters are encoded: org_id is the organisation whatever its value, but
\* usernames and emails are lists, which a comma in a value divides otherwise.
Answerable(i) ==
  IF i.plain THEN Matching(i) ELSE {a \in Accounts : i.call # "v1" => a[1] = i.org}

\* What the service may answer to the parameters of the request; an error with a
\* body has no users, and its status is not looked at.
ServiceUsers(i) ==
  {S \in SUBSET Answerable(i) : i.call # "v1" => Cardinality(S) <= i.limit}

ServiceAnswers(r) ==
  /\ req[r].pc = "service" /\ usersModule = "keycloak"
  /\ \E users \in ServiceUsers(req[r].in) : Found(r, users, users \cap bindings)
  /\ UNCHANGED <<usersModule, orders, connections, admins>>

NeverTimesOut(r) == FALSE /\ UNCHANGED lookupVars               \* mutant
\* KeyCloakUserServiceTimeout, a broken connection, or a body that is no JSON.
ServiceTimesOut(r) ==
  /\ req[r].pc = "service"
  /\ Fail(r)
  /\ UNCHANGED <<usersModule, orders, connections, admins>>

(***************************************************************************)
(* The environment.                                                        *)
(***************************************************************************)
ChangeBinding(a) ==
  /\ changes < MaxChanges
  /\ changes' = changes + 1
  /\ bindings' = IF a \in bindings THEN bindings \ {a} ELSE bindings \cup {a}
  /\ req' = [r \in Requests |->
       IF req[r].pc = "idle" \/ req[r].status = 500 THEN req[r]
       ELSE [req[r] EXCEPT !.held = @ \cup bindings', !.kept = @ \cap bindings']]
  /\ UNCHANGED <<usersModule, orders, connections>>

\* The process ends, and another one begins.
Restart ==
  /\ order' = [text |-> <<>>, length |-> <<>>]
  /\ req' = [r \in Requests |-> Idle]
  /\ open' = 0 /\ failures' = 0
  /\ asked' = <<>> /\ overlapped' = FALSE
  /\ UNCHANGED <<usersModule, admins>>

Handler(r) ==
  \/ InitSdkConnection(r) \/ LoadOrder(r) \/ StoreOrder(r) \/ ReturnOrder(r)
  \/ GetAccounts(r) \/ GetOrgAdmin(r) \/ MockAnswers(r)
  \/ GetAccessToken(r) \/ ServiceAnswers(r) \/ ServiceTimesOut(r) \/ Reply(r)

LookupNext ==
  \/ \E r \in Requests : Handler(r) \/ \E i \in Inputs[usersModule] : Receive(r, i)
  \/ \E a \in Accounts : ChangeBinding(a)
  \/ Restart

(***************************************************************************)
(* Properties.                                                             *)
(***************************************************************************)
Usernames == UNION {ToSet(i.names) : i \in {j \in UNION Range(Inputs) : j.names # Null}}

\* Type invariant of the lookup.
LookupTypeOK ==
  /\ usersModule \in Modules \cup {""}
  /\ \A r \in Requests :
       /\ req[r].pc \in {"idle", "connect", "order", "store", "storeText", "storeLength", "reload",
                         "accounts", "roles", "token", "service", "reply", "dropped"}
       /\ req[r].pc # "idle" => req[r].in \in Inputs[usersModule]
       /\ req[r].status \in {Null, 200, 400, 500}
       /\ req[r].flagged \subseteq req[r].users
  /\ bindings \subseteq Accounts /\ changes \in 0..MaxChanges
  /\ open \in 0..MaxOpen /\ Len(asked) <= MaxWords
  /\ Len(order.text) <= MaxWords /\ Len(order.length) <= MaxWords

\* Whichever requests run at the same time, a query of an organisation is
\* answered with accounts of that organisation, and a query for usernames with
\* those.  Of AMS it is claimed for plain values only; Keycloak and the mock keep
\* to the organisation whatever the values are, and the mock to the usernames.
OwnTenantOnly ==
  \A r \in Requests : req[r].pc = "reply" =>
    LET i == req[r].in
    IN  /\ i.call # "v1" /\ (i.plain \/ usersModule # "ams") => \A a \in Answer(r) : a[1] = i.org
        /\ /\ i.call = "v1" /\ Names(i) \notin {Null, <<>>}
           /\ i.plain \/ usersModule = "mock"
           => Answer(r) \subseteq ToSet(i.names)

\* Accounts and role bindings are two queries, and bindings change between them
\* and before: who is answered as administrator had the role at some time of the
\* request, and who had it all the time is answered as one, when the bindings of
\* all users that were found fit into one page.
AdminFlagsAreFresh ==
  usersModule \in {"ams", "keycloak"} =>
    \A r \in Requests : req[r].pc = "reply" /\ req[r].status = 200 =>
      /\ req[r].flagged \subseteq req[r].held
      /\ \/ usersModule = "ams" /\ Cardinality(req[r].users) > PageSize
         \/ req[r].kept \cap req[r].users \subseteq req[r].flagged
      /\ req[r].in.admin => Answer(r) \subseteq req[r].held

\* As long as no two requests have used the variable order at the same time, a
\* sorted v3 query ends with its own direction, and none sends a direction that
\* nobody asked for.
OwnDirectionLast ==
  \A r \in Requests :
    req[r].pc = "accounts" /\ req[r].in.call # "v1" /\ ~overlapped =>
      /\ ToSet(req[r].words) \subseteq ToSet(asked)
      /\ req[r].in.sort # "" => Last(req[r].words) = req[r].in.sort

\* However many requests come, connections stay open for the requests that are
\* at work and for those whose query failed, and for nobody else.
OnlyFailuresLeak ==
  open = failures + Cardinality({r \in Requests :
           usersModule = "ams" /\ req[r].pc \notin {"idle", "connect", "reply", "dropped"}})

\* A request that is refused, for its body or its parameters, is answered 400,
\* whatever the handler does and finds after that.
RefusedStays400 ==
  \A r \in Requests : req[r].pc = "reply" =>
    (Refused(req[r].in) \/ ~req[r].in.parses <=> req[r].status = 400)

\* A request that has its token is answered, even if the user service is silent.
UserServiceNeverHolds ==
  \A r \in Requests : req[r].pc = "service" ~> req[r].pc = "idle"
=============================================================================
