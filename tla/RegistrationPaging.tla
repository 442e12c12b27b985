------------------------- MODULE RegistrationPaging -------------------------
(***************************************************************************)
(* Listing registrations page by page: RegistrationListHandler over        *)
(* postgresStore.All, while other requests create and delete.              *)
(*                                                                         *)
(* A list request runs two statements on the pool, each with a snapshot of *)
(* its own: the page, ordered by created_at, and the count.  created_at is *)
(* the start of the inserting transaction, so a row may become visible     *)
(* after a younger one; rows with the same stamp come in any order, and in *)
(* another one each time.  A client asks for the pages in turn until the   *)
(* count says that there are no more.                                      *)
(***************************************************************************)
EXTENDS Integers, FiniteSets

CONSTANTS
  Ids,        \* the registrations that may ever be created
  Orgs,       \* tenants
  Listers,    \* clients that list the registrations of their organisation
  OrgOf,      \* the organisation of each lister
  Limit,      \* the page size the clients ask for
  MaxClock    \* bound on the clock

ASSUME LimitAssumption == Limit \in Nat \ {0}
ASSUME ClockAssumption == MaxClock \in Nat
ASSUME ListersAssumption == OrgOf \in [Listers -> Orgs]

VARIABLES
  table,     \* the visible rows
  inserting, \* rows of inserts that have started and not committed
  clock,     \* now()
  walk       \* where each client is in its walk over the pages

vars == <<table, inserting, clock, walk>>

Row == [id : Ids, org : Orgs, at : 0..MaxClock]

Own(org) == {x \in table : x.org = org}

\* A client at rest.  Besides the client's position and what it has seen, a
\* walk records which rows it should see: those there when it started.  It is
\* disturbed when one of its organisation's rows is deleted, or the server
\* reads a page short.
NoWalk == [pc |-> "idle", offset |-> 0, page |-> {}, count |-> 0,
           seen |-> {}, due |-> {}, disturbed |-> FALSE]

Init ==
  /\ table = {}
  /\ inserting = {}
  /\ clock = 0
  /\ walk = [l \in Listers |-> NoWalk]

(***************************************************************************)
(* The other requests.                                                     *)
(***************************************************************************)
Tick ==
  /\ clock < MaxClock
  /\ clock' = clock + 1
  /\ UNCHANGED <<table, inserting, walk>>

BeginInsert(id, org) ==
  /\ \A x \in table \cup inserting : x.id # id
  /\ \A l \in Listers :
       \A x \in walk[l].due \cup walk[l].page \cup walk[l].seen : x.id # id
  /\ inserting' = inserting \cup {[id |-> id, org |-> org, at |-> clock]}
  /\ UNCHANGED <<table, clock, walk>>

CommitInsert(x) ==
  /\ table' = table \cup {x}
  /\ inserting' = inserting \ {x}
  /\ UNCHANGED <<clock, walk>>

Delete(x) ==
  /\ table' = table \ {x}
  /\ walk' = [l \in Listers |->
                [walk[l] EXCEPT !.disturbed = @ \/ OrgOf[l] = x.org]]
  /\ UNCHANGED <<inserting, clock>>

(***************************************************************************)
(* The list request.  The clients are org admins that send numbers for     *)
(* limit and offset: the handler's 403 and 400 come before the statements  *)
(* and change nothing.  A definition marked "mutant" is what a plausible   *)
(* bug would make of the one below it; only PROJECT.json uses it.          *)
(***************************************************************************)
AtMost(n, m) == IF n < m THEN n ELSE m

\* The first k rows of S in some order by created_at, newest first.
AnyHeads(S, k) == {T \in SUBSET S : Cardinality(T) = AtMost(k, Cardinality(S))}  \* mutant
Heads(S, k) ==
  {T \in SUBSET S :
     /\ Cardinality(T) = AtMost(k, Cardinality(S))
     /\ \A x \in T, y \in S \ T : x.at >= y.at}

\* What the page query may return: "limit" rows after "offset" others.
PagesOfAll(org, offset) ==                                          \* mutant
  {T \ H : H \in Heads(table, offset), T \in Heads(table, offset + Limit)}
Pages(org, offset) ==
  {P \in SUBSET Own(org) :
     \E H \in Heads(Own(org), offset), T \in Heads(Own(org), offset + Limit) :
       H \subseteq T /\ P = T \ H}

StartWalk(l) ==
  /\ walk[l].pc \in {"idle", "done"}
  /\ walk' = [walk EXCEPT ![l] = [NoWalk EXCEPT !.pc = "page", !.due = Own(OrgOf[l])]]
  /\ UNCHANGED <<table, inserting, clock>>

QueryPage(l) ==
  /\ walk[l].pc = "page"
  /\ \E page \in Pages(OrgOf[l], walk[l].offset) :
       walk' = [walk EXCEPT ![l].pc = "count", ![l].page = page]
  /\ UNCHANGED <<table, inserting, clock>>

\* The connection breaks while the rows are read: rows.Err is not looked at,
\* and the rows read so far are the page.
QueryPageShort(l) ==
  /\ walk[l].pc = "page"
  /\ \E page \in Pages(OrgOf[l], walk[l].offset) : \E part \in SUBSET page :
       walk' = [walk EXCEPT ![l].pc = "count", ![l].page = part,
                            ![l].disturbed = TRUE]
  /\ UNCHANGED <<table, inserting, clock>>

QueryCount(l) ==
  /\ walk[l].pc = "count"
  /\ walk' = [walk EXCEPT ![l].pc = "answer", ![l].count = Cardinality(Own(OrgOf[l]))]
  /\ UNCHANGED <<table, inserting, clock>>

\* Either statement fails: 500, and the client asks for the page again.
Fail(l) ==
  /\ walk[l].pc \in {"page", "count"}
  /\ walk' = [walk EXCEPT ![l].pc = "page", ![l].page = {}]
  /\ UNCHANGED <<table, inserting, clock>>

TakePageAndKeepIt(l) ==                                             \* mutant
  /\ walk[l].pc = "answer"
  /\ walk' = [walk EXCEPT ![l].pc = "page", ![l].offset = @ + Limit,
                          ![l].seen = @ \cup walk[l].page]
  /\ UNCHANGED <<table, inserting, clock>>

\* The client takes the page and asks for the next one while the count says
\* that there is more.
TakePage(l) ==
  /\ walk[l].pc = "answer"
  /\ LET next == walk[l].offset + Limit IN
       walk' = [walk EXCEPT ![l].pc = IF next < walk[l].count THEN "page" ELSE "done",
                            ![l].offset = next,
                            ![l].seen = @ \cup walk[l].page,
                            ![l].page = {}]
  /\ UNCHANGED <<table, inserting, clock>>

Next ==
  \/ Tick
  \/ \E id \in Ids, org \in Orgs : BeginInsert(id, org)
  \/ \E x \in inserting : CommitInsert(x)
  \/ \E x \in table : Delete(x)
  \/ \E l \in Listers :
       \/ StartWalk(l) \/ QueryPage(l) \/ QueryPageShort(l) \/ QueryCount(l)
       \/ Fail(l) \/ TakePage(l)

Spec == Init /\ [][Next]_vars

(***************************************************************************)
(* Properties.                                                             *)
(***************************************************************************)
\* Type invariant of the table, the inserts under way and the walks.
TypeOK ==
  /\ table \subseteq Row /\ inserting \subseteq Row
  /\ clock \in 0..MaxClock
  /\ \A l \in Listers :
       /\ walk[l].pc \in {"idle", "page", "count", "answer", "done"}
       /\ walk[l].offset \in Nat /\ walk[l].count \in Nat
       /\ walk[l].page \subseteq Row
       /\ walk[l].pc \in {"idle", "page", "done"} => walk[l].page = {}

\* A client is shown registrations of its own organisation only.
OwnRowsOnly ==
  \A l \in Listers : \A x \in walk[l].page \cup walk[l].seen : x.org = OrgOf[l]

\* Page and count are two statements with two snapshots, and still the count
\* covers the page it is answered with: the count is taken after the page, so
\* only a delete can make it smaller.
CountCoversPage ==
  \A l \in Listers :
    walk[l].pc = "answer" /\ ~walk[l].disturbed /\ walk[l].page # {}
      => walk[l].offset + Cardinality(walk[l].page) <= walk[l].count

\* A walk over the pages misses no registration that was there when it began,
\* although others are created meanwhile and every page is a query of its own:
\* new rows only push old ones to later pages.  It takes that no row of the
\* organisation is deleted, that no page is cut short, and that no two of its
\* rows have the same created_at.
Ties(org) == \E x, y \in Own(org) : x # y /\ x.at = y.at

WalkIsComplete ==
  \A l \in Listers :
    walk[l].pc = "done" /\ ~walk[l].disturbed /\ ~Ties(OrgOf[l])
      => walk[l].due \subseteq walk[l].seen
=============================================================================
