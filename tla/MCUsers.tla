------------------------------ MODULE MCUsers ------------------------------
(* UsersService for TLC.                                                    *)
EXTENDS UsersService

CONSTANTS o1, o2

MCAccounts == {<<o1, 1>>, <<o1, 2>>, <<o2, 1>>}

\* An administrator in each organisation; the other account may become one.
MCFirstBindings == {{<<o1, 1>>, <<o2, 1>>}}

V1(parses, names) ==
  [call |-> "v1", parses |-> parses, plain |-> TRUE, bad |-> {}, names |-> names, org |-> Null,
   match |-> Null, sort |-> "", admin |-> FALSE, limit |-> 0, offset |-> 0]
Users(org, sort, admin, limit, offset) ==
  [call |-> "users", parses |-> TRUE, plain |-> TRUE, bad |-> {}, names |-> Null, org |-> org,
   match |-> Null, sort |-> sort, admin |-> admin, limit |-> limit, offset |-> offset]
UsersBy(parses, org, match, sort, admin) ==
  [call |-> "usersBy", parses |-> parses, plain |-> TRUE, bad |-> {}, names |-> Null, org |-> org,
   match |-> match, sort |-> sort, admin |-> admin, limit |-> 2, offset |-> 0]
Bad(i, parameters) == [i EXCEPT !.bad = parameters]
Quoted(i) == [i EXCEPT !.plain = FALSE]

\* What the sorted queries of AMS share is the order: one finds nobody, the other
\* has a value that the search string does not keep apart.
MCInputs ==
  [m \in {"ams", "mock", "keycloak"} |->
    {V1(FALSE, Null), Users(o1, "", TRUE, 2, 0)}
    \cup CASE m = "ams" -> {V1(TRUE, <<<<o2, 1>>>>), Users(EmptyOrg, "asc", FALSE, 1, 0),
                            Quoted(Users(o1, "desc", FALSE, 1, 0))}
           [] m = "mock" -> {V1(TRUE, <<<<o1, 1>>, <<o2, 1>>>>), V1(TRUE, <<>>),
                             V1(TRUE, <<FailingName, <<o1, 1>>>>),
                             Users(o1, "asc", FALSE, 1, 2), Users(FailingName, "", FALSE, 1, 0),
                             Users(EmptyOrg, "", FALSE, 1, 0),
                             Quoted(UsersBy(TRUE, o1, {<<o1, 1>>}, "", FALSE))}
           [] m = "keycloak" -> {V1(TRUE, <<<<o1, 1>>, <<o2, 1>>>>),
                                 Bad(Users(o1, "", FALSE, 1, 0), {"limit"}),
                                 Bad(V1(FALSE, Null), {"queryBy"}),
                                 Bad(V1(TRUE, <<<<o1, 1>>>>), {"limit"}),
                                 UsersBy(TRUE, o1, {<<o1, 2>>, <<o2, 1>>}, "desc", TRUE),
                                 Quoted(UsersBy(TRUE, o1, {<<o1, 1>>}, "", FALSE)),
                                 Quoted(V1(TRUE, <<<<o1, 1>>>>)),
                                 UsersBy(FALSE, o1, Null, "", FALSE),
                                 UsersBy(TRUE, o1, Null, "", FALSE)}]

\* The realm: two users can have the name 2, one after the other.
User(name, org, active, admin) ==
  [name |-> name, org |-> org, account |-> IF org = o1 THEN "a" ELSE "b",
   active |-> active, admin |-> admin]
Ann == User(1, o1, TRUE, TRUE)
Bob == User(2, o1, TRUE, FALSE)
OtherBob == User(2, o2, FALSE, TRUE)
Eve == User(3, o1, FALSE, TRUE)
Dan == User(4, o2, TRUE, FALSE)

MCRoster == {Ann, Bob, OtherBob, Eve, Dan}
MCIncomplete == {Dan}

Query(api, org, account, match, admin, active, limit, sort) ==
  [kind |-> "query", api |-> api, post |-> TRUE, parses |-> TRUE, org |-> org, account |-> account,
   match |-> match, admin |-> admin, active |-> active, limit |-> limit, sort |-> sort]

MCCalls ==
  {[kind |-> k] : k \in {"cut", "other", "jwt"}}
  \cup {[kind |-> k, header |-> h] : k \in {"login", "entitlements"}, h \in {"none", "cut"}}
  \cup {[kind |-> k, header |-> "basic", user |-> u, right |-> b] :
          k \in {"login", "entitlements"}, u \in {Ann, Bob, Dan}, b \in BOOLEAN}
  \cup {[Query(a, "", "", Missing, "", "", 0, "") EXCEPT !.parses = FALSE] : a \in {"users", "v1", "v2", "v3"}}
  \cup {[Query(a, "", "", Missing, "", "", 0, "") EXCEPT !.post = FALSE] : a \in {"users", "v1"}}
  \cup {Query("users", "", "", match, "", "", limit, sort) :
          match \in {Missing, {}, {Ann, Eve}}, limit \in {0, 1, 2}, sort \in {"", "des"}}
  \cup {Query("v1", "", "a", Missing, "true", "enabled", limit, "") : limit \in {0, 1}}
  \cup {Query("v2", "", "b", {OtherBob}, "bad", "", 0, ""), Query("v2", "", "b", Missing, "", "other", 0, "")}
  \cup {Query("v3", o1, "", match, admin, active, limit, "") :
          match \in {Missing, {Bob, OtherBob}}, admin \in {"false", "true"},
          active \in {"enabled", "disabled"}, limit \in {0, 1}}
=============================================================================
