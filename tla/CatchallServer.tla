--------------------------- MODULE CatchallServer ---------------------------
(***************************************************************************)
(* The catch-all server (ephemeral.go), which answers from the users of a  *)
(* Keycloak realm when no user module is configured: the queries of v1, v2 *)
(* and v3, the login and the entitlements behind it.  Each query lists the *)
(* realm anew and filters in Go; requests share nothing, so one is enough. *)
(* What can happen in between is that the realm changes.                   *)
(*                                                                         *)
(* check_registration is in RegistrationService.                           *)
(***************************************************************************)
EXTENDS Integers, Sequences, FiniteSets, SequencesExt

CONSTANTS
  Roster,     \* the users that a realm may have
  Incomplete, \* those that lack an attribute
  Calls,      \* the requests that clients send
  MaxListed,  \* users that one listing returns at most: max=2000
  MaxEdits,   \* bound: users that enter or leave the realm
  Missing     \* nothing

ASSUME RosterAssumption ==
  IsFiniteSet(Roster) /\ \A u \in Roster : u.name \in Int
ASSUME ListingAssumption == MaxListed \in Nat /\ MaxEdits \in Nat
ASSUME CallsAssumption ==
  \A c \in Calls :
    /\ c.kind \in {"query", "login", "entitlements", "jwt", "cut", "other"}
    /\ c.kind = "query" =>
         c.api \in {"users", "v1", "v2", "v3"} /\ {c.post, c.parses} \subseteq BOOLEAN /\ c.limit \in Int
    /\ c.kind \in {"login", "entitlements"} => c.header \in {"none", "cut", "basic"}

VARIABLES
  disabled,  \* config.DisableCatchall
  allPass,   \* whether ALL_PASS is set
  realm,     \* the users of the realm
  edits,     \* how often it changed
  job        \* the request

catchallVars == <<disabled, allPass, realm, edits, job>>
settings == <<disabled, allPass>>

\* A user: [name: a number that stands for its place in the alphabet, org,
\* account, active, admin].  accepted: the user whose password Keycloak took;
\* seen: the listing the answer was made from.
NoJob == [pc |-> "none", call |-> Missing, status |-> Missing, list |-> <<>>,
          accepted |-> Missing, seen |-> <<>>]

\* A realm has one user of a name at a time.
UniqueNames(S) == \A u, v \in S : u.name = v.name => u = v

CatchallInit ==
  /\ disabled \in BOOLEAN /\ allPass \in BOOLEAN
  /\ realm \in SUBSET Roster /\ UniqueNames(realm)
  /\ edits = 0
  /\ job = NoJob

Answer200(list) == job' = [job EXCEPT !.pc = "answered", !.status = 200, !.list = list]
Error(code) == job' = [job EXCEPT !.pc = "answered", !.status = code]
Goto(pc) == job' = [job EXCEPT !.pc = pc]
\* A panic: the connection is dropped.
Drop == job' = [job EXCEPT !.pc = "dropped"]

(***************************************************************************)
(* The realm.                                                              *)
(***************************************************************************)
\* The users of the realm in any order, or MaxListed of them.
Listings ==
  LET n == IF Cardinality(realm) < MaxListed THEN Cardinality(realm) ELSE MaxListed
  IN  {list \in [1..n -> realm] : IsInjective(list)}

\* getUsers fails: Keycloak may be out of reach, which is logged before the answer
\* that is not there is used; or answer what is no list of users.
Unlisted(code) == Drop \/ Error(code)

\* Each user has all attributes, which are indexed unchecked.
Complete(list) == ToSet(list) \cap Incomplete = {}

(***************************************************************************)
(* Dispatch.  call.kind is "query", "login", "entitlements", "jwt", "cut"  *)
(* (a path too short for MainHandler or its handlers) or "other"; a query  *)
(* is one of /v1/users ("users") or of /v1, /v2 or /v3/accounts.           *)
(***************************************************************************)
Request(c) ==
  /\ job.pc = "none"
  /\ job' = [NoJob EXCEPT !.pc = "dispatch", !.call = c]
  /\ UNCHANGED <<settings, realm, edits>>

BadRequests == [users |-> 400, v1 |-> 400, v2 |-> 200, v3 |-> 200]  \* mutant
\* v1 refuses a body that does not parse, v2 and v3 return without an answer,
\* which net/http makes an empty 200.
Refusals == [users |-> 500, v1 |-> 500, v2 |-> 200, v3 |-> 200]

\* usersV1 takes POST, and GET /v1/users is routed to it as well.
Begin(c) ==
  IF c.api = "users" /\ ~c.post THEN Error(405)
  ELSE IF c.parses THEN Goto("list") ELSE Error(Refusals[c.api])

MainHandler ==
  /\ job.pc = "dispatch"
  /\ LET c == job.call
     IN  IF disabled THEN Error(404)
         ELSE CASE c.kind = "cut" -> Drop
                [] c.kind = "other" -> Answer200(<<>>)
                [] c.kind = "jwt" -> Answer200(<<>>) \/ Error(502)
                [] c.kind = "query" -> Begin(c)
                [] c.kind = "entitlements" /\ allPass -> Answer200(<<>>)
                [] OTHER -> CASE c.header = "none" -> Error(403)
                              [] c.header = "cut" -> Drop
                              [] c.header = "basic" -> Goto("password")
  /\ UNCHANGED <<settings, realm, edits>>

(***************************************************************************)
(* Queries.                                                                *)
(***************************************************************************)
\* Whether the loop of findUsersBy keeps a user; another status is no filter.
Keeps(c, u) ==
  /\ c.admin = "true" => u.admin
  /\ c.active = "enabled" => u.active
  /\ c.active = "disabled" => ~u.active
  /\ c.account # "" => u.account = c.account
  /\ c.org # "" => u.org = c.org
  /\ c.match # Missing => u \in c.match

\* The loop leaves one user later than it should.
LoopToLimit(c, list) ==                                        \* mutant
  FoldLeft(LAMBDA out, u : IF c.limit > 0 /\ Len(out) > c.limit THEN out
                           ELSE IF Keeps(c, u) THEN Append(out, u) ELSE out, <<>>, list)

Loop(c, list) ==
  FoldLeft(LAMBDA out, u : IF c.limit > 0 /\ Len(out) >= c.limit THEN out
                           ELSE IF Keeps(c, u) THEN Append(out, u) ELSE out, <<>>, list)

\* sort.Slice compares usernames.
Sorted(c, list) ==
  IF c.sort # "des" THEN list
  ELSE CHOOSE sorted \in {[j \in DOMAIN list |-> list[p[j]]] :
                             p \in {f \in [DOMAIN list -> DOMAIN list] : IsInjective(f)}} :
         \A j, k \in DOMAIN list : j < k => sorted[j].name >= sorted[k].name

\* admin_only is parsed for each user, so that an empty realm takes any value.
FindUsersBy ==
  /\ job.pc = "list" /\ job.call.kind = "query"
  /\ \/ Unlisted(500)
     \/ \E listing \in Listings :
          IF ~Complete(listing) THEN Drop
          ELSE IF job.call.admin = "bad" /\ listing # <<>> THEN Error(500)
          ELSE job' = [job EXCEPT !.pc = "answered", !.status = 200, !.seen = listing,
                                  !.list = Sorted(job.call, Loop(job.call, listing))]
  /\ UNCHANGED <<settings, realm, edits>>

(***************************************************************************)
(* The login: the password first, then the user from the listing.          *)
(***************************************************************************)
Accept == job' = [job EXCEPT !.pc = "list", !.accepted = job.call.user]

CheckPassword ==
  /\ job.pc = "password"
  /\ \/ job.call.user \in realm /\ job.call.right /\ Accept
     \/ Error(403)
  /\ UNCHANGED <<settings, realm, edits>>

FirstListed(list) == {Head(list)}                               \* mutant
\* The loop of findUserByID ends at the first user of the name.
Named(list) == {u \in ToSet(list) : u.name = job.call.user.name}

FindUserByID ==
  /\ job.pc = "list" /\ job.call.kind # "query"
  /\ \/ Unlisted(403)
     \/ \E listing \in Listings :
          IF ~Complete(listing) THEN Drop
          ELSE IF Named(listing) = {} THEN Error(403)
          ELSE job' = [job EXCEPT !.pc = "answered", !.status = 200, !.seen = listing,
                                  !.list = SetToSeq(Named(listing))]
  /\ UNCHANGED <<settings, realm, edits>>

Return ==
  /\ job.pc \in {"answered", "dropped"}
  /\ job' = NoJob
  /\ UNCHANGED <<settings, realm, edits>>

EditRealm(u) ==
  /\ edits < MaxEdits
  /\ edits' = edits + 1
  /\ realm' = IF u \in realm THEN realm \ {u} ELSE realm \cup {u}
  /\ UniqueNames(realm')
  /\ UNCHANGED <<settings, job>>

CatchallNext ==
  \/ \E c \in Calls : Request(c)
  \/ MainHandler \/ FindUsersBy \/ CheckPassword \/ FindUserByID \/ Return
  \/ \E u \in Roster : EditRealm(u)

(***************************************************************************)
(* Properties.                                                             *)
(***************************************************************************)
\* Type invariant of the catch-all server.
CatchallTypeOK ==
  /\ disabled \in BOOLEAN /\ allPass \in BOOLEAN
  /\ realm \subseteq Roster /\ edits \in 0..MaxEdits
  /\ job.pc \in {"none", "dispatch", "list", "password", "answered", "dropped"}
  /\ job.pc # "none" => job.call \in Calls
  /\ job.status \in {Missing, 200, 403, 404, 405, 500, 502}
  /\ ToSet(job.list) \subseteq ToSet(job.seen)

\* The answer of a query is what its filters ask for, cut at the limit before it
\* is sorted: users that match, all of them if they are fewer than the limit, no
\* later one instead of an earlier one, and in descending order for "des".
QueryIsExact ==
  LET c == job.call
  IN  job.pc = "answered" /\ c.kind = "query" /\ job.status = 200 /\ job.seen # <<>> =>
        LET matches(u) == /\ c.org \in {"", u.org} /\ c.account \in {"", u.account}
                          /\ c.admin = "true" => u.admin
                          /\ c.active = "enabled" => u.active
                          /\ c.active = "disabled" => ~u.active
                          /\ c.match # Missing => u \in c.match
            hits == {j \in DOMAIN job.seen : matches(job.seen[j])}
            place(j) == Cardinality({i \in hits : i <= j})
            due == {j \in hits : c.limit > 0 => place(j) <= c.limit}
        IN  /\ Len(job.list) = Cardinality(due) /\ ToSet(job.list) = {job.seen[j] : j \in due}
            /\ IF c.sort = "des"
               THEN \A j, k \in DOMAIN job.list : j < k => job.list[j].name > job.list[k].name
               ELSE \A j \in due : job.list[place(j)] = job.seen[j]

\* The realm may change between the password and the listing, and a listing may
\* stop before the user: a login is answered with one user, who has the
\* name whose password Keycloak took, or it is refused.
LoginIsOwnUser ==
  job.pc = "answered" /\ job.call.kind \in {"login", "entitlements"} =>
    /\ job.list # <<>> => Len(job.list) = 1 /\ job.list[1].name = job.accepted.name
    /\ job.status = 200 => job.list # <<>> \/ (allPass /\ job.call.kind = "entitlements")
    /\ job.status \in {200, 403, 404}
=============================================================================
