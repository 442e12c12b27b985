---------------------------- MODULE PagingProofs ----------------------------
(***************************************************************************)
(* Theorems about RegistrationPaging, for any clients, registrations and   *)
(* organisations, any page size and any clock.                             *)
(***************************************************************************)
EXTENDS RegistrationPaging, FiniteSetTheorems, TLAPS

USE LimitAssumption, ClockAssumption, ListersAssumption
USE DEF LimitAssumption, ClockAssumption, ListersAssumption

(***************************************************************************)
(* The inductive invariant.                                                *)
(***************************************************************************)
Walk == [pc : {"idle", "page", "count", "answer", "done"}, offset : Nat, count : Nat,
         page : SUBSET Row, seen : SUBSET Row, due : SUBSET Row, disturbed : BOOLEAN]

Mine(org) == {x \in Row : x.org = org}

\* What the client of a walk has been shown, and what there is to show, is finite
\* and its own.
Types ==
  /\ TypeOK
  /\ IsFiniteSet(table)
  /\ walk \in [Listers -> Walk]
  /\ \A l \in Listers : IsFiniteSet(walk[l].page)
  /\ OwnRowsOnly

(***************************************************************************)
(* The steps of a walk.                                                    *)
(***************************************************************************)
\* The steps of the walk of l.
Step(l) ==
  \/ StartWalk(l) \/ QueryPage(l) \/ QueryPageShort(l) \/ QueryCount(l)
  \/ Fail(l) \/ TakePage(l)

\* A page has rows of the organisation that asks only.
LEMMA PageIsOwn ==
  ASSUME NEW org, NEW offset, NEW page \in Pages(org, offset)
  PROVE  page \subseteq Own(org)
BY DEF Pages, Heads

\* Pages and parts of pages are rows of the lister's own.
LEMMA OwnIsMine ==
  ASSUME Types, NEW l \in Listers
  PROVE  Own(OrgOf[l]) \in SUBSET Mine(OrgOf[l]) /\ IsFiniteSet(Own(OrgOf[l]))
<1>1. Own(OrgOf[l]) \in SUBSET table
  BY DEF Own
<1>2. QED
  BY <1>1, FS_Subset DEF Types, TypeOK, Own, Mine

LEMMA InitTypes == Init => Types
<1> SUFFICES ASSUME Init PROVE Types
  OBVIOUS
<1>1. IsFiniteSet(table)
  BY FS_EmptySet DEF Init
<1>2. walk \in [Listers -> Walk] /\ \A l \in Listers : walk[l] = NoWalk
  BY DEF Init, Walk, NoWalk
<1>3. TypeOK /\ OwnRowsOnly /\ \A l \in Listers : IsFiniteSet(walk[l].page)
  BY <1>2, FS_EmptySet DEF Init, TypeOK, OwnRowsOnly, NoWalk
<1>4. QED
  BY <1>1, <1>2, <1>3 DEF Types

\* A step of a walk keeps its types.
LEMMA StepTypes ==
  ASSUME Types, NEW l \in Listers, Step(l)
  PROVE  Types' /\ UNCHANGED <<table, inserting, clock>>
<1> DEFINE own == Own(OrgOf[l])
<1>0. UNCHANGED <<table, inserting, clock>>
  BY DEF Step, StartWalk, QueryPage, QueryPageShort, QueryCount, Fail, TakePage
<1>1. own \in SUBSET Mine(OrgOf[l]) /\ own \in SUBSET Row /\ Cardinality(own) \in Nat
  BY OwnIsMine, FS_CardinalityType DEF Mine
<1>2. walk[l] \in Walk /\ walk \in [Listers -> Walk]
  BY DEF Types
<1>3. \E w \in Walk :
        /\ walk' = [walk EXCEPT ![l] = w]
        /\ \A x \in w.page \cup w.seen : x.org = OrgOf[l]
        /\ w.pc \in {"idle", "page", "done"} => w.page = {}
        /\ IsFiniteSet(w.page)
  <2> USE DEF Walk, Mine
  <2>0. \A x \in walk[l].page \cup walk[l].seen : x.org = OrgOf[l]
    BY DEF Types, OwnRowsOnly
  <2>e. IsFiniteSet({}) /\ IsFiniteSet(walk[l].page)
    BY FS_EmptySet DEF Types
  <2>1. CASE StartWalk(l)
    <3> DEFINE w == [NoWalk EXCEPT !.pc = "page", !.due = own]
    <3>1. w \in Walk /\ w.page = {} /\ w.seen = {}
      BY <1>1 DEF NoWalk
    <3>2. QED
      BY <2>1, <2>e, <3>1 DEF StartWalk
  <2>2. CASE QueryPage(l)
    <3>1. PICK page \in Pages(OrgOf[l], walk[l].offset) :
            walk' = [walk EXCEPT ![l].pc = "count", ![l].page = page]
      BY <2>2 DEF QueryPage
    <3>2. page \in SUBSET Row /\ IsFiniteSet(page) /\ \A x \in page : x.org = OrgOf[l]
      BY <1>1, PageIsOwn, OwnIsMine, FS_Subset
    <3> DEFINE w == [walk[l] EXCEPT !.pc = "count", !.page = page]
    <3>3. w \in Walk /\ w.page = page /\ w.seen = walk[l].seen /\ w.pc = "count"
      BY <1>2, <3>2
    <3>4. walk' = [walk EXCEPT ![l] = w]
      BY <1>2, <3>1
    <3>5. QED
      BY <2>0, <3>2, <3>3, <3>4
  <2>3. CASE QueryPageShort(l)
    <3>0. PICK page \in Pages(OrgOf[l], walk[l].offset) : \E part \in SUBSET page :
            walk' = [walk EXCEPT ![l].pc = "count", ![l].page = part, ![l].disturbed = TRUE]
      BY <2>3 DEF QueryPageShort
    <3>1. PICK part \in SUBSET page :
            walk' = [walk EXCEPT ![l].pc = "count", ![l].page = part, ![l].disturbed = TRUE]
      BY <3>0
    <3>2. part \in SUBSET Row /\ IsFiniteSet(part) /\ \A x \in part : x.org = OrgOf[l]
      BY <1>1, PageIsOwn, OwnIsMine, FS_Subset
    <3> DEFINE w == [walk[l] EXCEPT !.pc = "count", !.page = part, !.disturbed = TRUE]
    <3>3. w \in Walk /\ w.page = part /\ w.seen = walk[l].seen /\ w.pc = "count"
      BY <1>2, <3>2
    <3>4. walk' = [walk EXCEPT ![l] = w]
      BY <1>2, <3>1
    <3>5. QED
      BY <2>0, <3>2, <3>3, <3>4
  <2>4. CASE QueryCount(l)
    <3> DEFINE w == [walk[l] EXCEPT !.pc = "answer", !.count = Cardinality(own)]
    <3>1. w \in Walk /\ w.page = walk[l].page /\ w.seen = walk[l].seen /\ w.pc = "answer"
      BY <1>1, <1>2
    <3>2. walk' = [walk EXCEPT ![l] = w]
      BY <1>2, <2>4 DEF QueryCount
    <3>3. QED
      BY <2>0, <2>e, <3>1, <3>2
  <2>5. CASE Fail(l)
    <3> DEFINE w == [walk[l] EXCEPT !.pc = "page", !.page = {}]
    <3>1. w \in Walk /\ w.page = {} /\ w.seen = walk[l].seen
      BY <1>2
    <3>2. walk' = [walk EXCEPT ![l] = w]
      BY <1>2, <2>5 DEF Fail
    <3>3. QED
      BY <2>0, <2>e, <3>1, <3>2
  <2>6. CASE TakePage(l)
    <3> DEFINE next == walk[l].offset + Limit
               pc == IF next < walk[l].count THEN "page" ELSE "done"
               seen == walk[l].seen \cup walk[l].page
               w == [walk[l] EXCEPT !.pc = pc, !.offset = next, !.seen = seen, !.page = {}]
    <3>0. next \in Nat /\ pc \in {"page", "done"} /\ seen \in SUBSET Row
      BY <1>2
    <3> HIDE DEF next, pc, seen
    <3>1. w \in Walk /\ w.page = {} /\ w.seen = seen
      BY <1>2, <3>0
    <3>2. walk' = [walk EXCEPT ![l] = w]
      BY <1>2, <2>6 DEF TakePage, next, pc, seen
    <3>3. QED
      BY <2>0, <2>e, <3>1, <3>2 DEF seen
  <2>7. QED
    BY <2>1, <2>2, <2>3, <2>4, <2>5, <2>6 DEF Step
<1>4. PICK w \in Walk :
        /\ walk' = [walk EXCEPT ![l] = w]
        /\ \A x \in w.page \cup w.seen : x.org = OrgOf[l]
        /\ w.pc \in {"idle", "page", "done"} => w.page = {}
        /\ IsFiniteSet(w.page)
  BY <1>3
<1>5. /\ walk' \in [Listers -> Walk] /\ OwnRowsOnly'
      /\ \A m \in Listers : IsFiniteSet(walk'[m].page)
  BY <1>2, <1>4 DEF Types, OwnRowsOnly
<1>6. TypeOK'
  BY <1>0, <1>2, <1>4, <1>5 DEF Types, TypeOK, Walk
<1>7. QED
  BY <1>0, <1>5, <1>6 DEF Types

\* A delete leaves the walks where they are and disturbs those of the organisation.
LEMMA DeleteDisturbs ==
  ASSUME Types, NEW x, Delete(x), NEW l \in Listers
  PROVE  /\ walk'[l] \in Walk
         /\ walk'[l].pc = walk[l].pc /\ walk'[l].page = walk[l].page
         /\ walk'[l].offset = walk[l].offset /\ walk'[l].count = walk[l].count
         /\ walk'[l].seen = walk[l].seen /\ walk'[l].due = walk[l].due
         /\ ~walk'[l].disturbed => ~walk[l].disturbed /\ OrgOf[l] # x.org
<1> DEFINE d == walk[l].disturbed \/ OrgOf[l] = x.org
<1>1. walk'[l] = [walk[l] EXCEPT !.disturbed = d]
  BY DEF Delete
<1>2. walk[l] \in Walk /\ d \in BOOLEAN
  BY DEF Types
<1>3. ~d => ~walk[l].disturbed /\ OrgOf[l] # x.org
  OBVIOUS
<1> HIDE DEF d
<1>4. QED
  BY <1>1, <1>2, <1>3 DEF Walk

\* A lister's rows stay its own whatever the other requests do, and the table
\* stays finite.
LEMMA NextTypes == Types /\ [Next]_vars => Types'
<1> SUFFICES ASSUME Types, [Next]_vars PROVE Types'
  OBVIOUS
<1> USE DEF Types, TypeOK, OwnRowsOnly
<1>1. CASE Tick
  BY <1>1 DEF Tick
<1>2. ASSUME NEW id \in Ids, NEW org \in Orgs, BeginInsert(id, org) PROVE Types'
  <2>1. [id |-> id, org |-> org, at |-> clock] \in Row
    BY DEF Row
  <2>2. QED
    BY <1>2, <2>1 DEF BeginInsert
<1>3. ASSUME NEW x \in inserting, CommitInsert(x) PROVE Types'
  <2>1. IsFiniteSet(table \cup {x})
    BY FS_AddElement
  <2>2. QED
    BY <1>3, <2>1 DEF CommitInsert
<1>4. ASSUME NEW x \in table, Delete(x) PROVE Types'
  <2>1. IsFiniteSet(table \ {x})
    BY FS_RemoveElement
  <2>2. walk' \in [Listers -> Walk]
    <3>1. walk' = [l \in Listers |-> walk'[l]]
      BY <1>4 DEF Delete
    <3>2. QED
      BY <1>4, <3>1, DeleteDisturbs
  <2>3. \A l \in Listers :
          /\ walk'[l].pc = walk[l].pc /\ walk'[l].page = walk[l].page
          /\ walk'[l].offset = walk[l].offset /\ walk'[l].count = walk[l].count
          /\ walk'[l].seen = walk[l].seen
    BY <1>4, DeleteDisturbs
  <2>4. TypeOK' /\ OwnRowsOnly'
    BY <1>4, <2>3 DEF Delete
  <2>5. QED
    BY <1>4, <2>1, <2>2, <2>3, <2>4 DEF Delete
<1>5. ASSUME NEW l \in Listers, Step(l) PROVE Types'
  BY <1>5, StepTypes
<1>6. CASE UNCHANGED vars
  BY <1>6 DEF vars
<1>7. QED
  BY <1>1, <1>2, <1>3, <1>4, <1>5, <1>6 DEF Next, Step

LEMMA TypesHold == Spec => []Types
BY InitTypes, NextTypes, PTL DEF Spec

\* Type correctness of the table, the inserts and the walks.
THEOREM TypeInvariant == Spec => []TypeOK
BY TypesHold, PTL DEF Types

\* A client is shown registrations of its own organisation only.
THEOREM ListersSeeTheirOwn == Spec => []OwnRowsOnly
BY TypesHold, PTL DEF Types

(***************************************************************************)
(* The walk over the pages.                                                *)
(***************************************************************************)
Newer(l, x) == {y \in Own(OrgOf[l]) : y.at > x.at}

\* The count covers the page, before it is taken and after.
Covered(l) ==
  ~walk[l].disturbed /\ walk[l].page # {} =>
    /\ walk[l].pc = "count" =>
         walk[l].offset + Cardinality(walk[l].page) <= Cardinality(Own(OrgOf[l]))
    /\ walk[l].pc = "answer" =>
         walk[l].offset + Cardinality(walk[l].page) <= walk[l].count

\* What a client should see and has not seen has as many newer rows before it as
\* the pages it has taken hold, so that it is on a page that is still to come;
\* and the count says that there is one.
Ahead(l) ==
  ~walk[l].disturbed /\ ~Ties(OrgOf[l]) /\ walk[l].pc # "idle" =>
    /\ walk[l].due \subseteq Own(OrgOf[l])
    /\ walk[l].pc \in {"page", "count", "answer"} =>
         \A x \in walk[l].due \ walk[l].seen : walk[l].offset <= Cardinality(Newer(l, x))
    /\ walk[l].pc \in {"count", "answer"} =>
         \A x \in walk[l].due \ (walk[l].seen \cup walk[l].page) :
           walk[l].offset + Limit <= Cardinality(Newer(l, x))
    /\ walk[l].pc = "answer" =>
         \A x \in walk[l].due \ (walk[l].seen \cup walk[l].page) :
           walk[l].offset + Limit < walk[l].count
    /\ walk[l].pc = "done" => walk[l].due \subseteq walk[l].seen

WalkInv == Types /\ \A l \in Listers : Covered(l) /\ Ahead(l)

\* How many rows the first k of a finite set are.
LEMMA HeadsCount ==
  ASSUME NEW S, IsFiniteSet(S), NEW k \in Nat, NEW T \in Heads(S, k)
  PROVE  /\ T \in SUBSET S /\ IsFiniteSet(T) /\ Cardinality(T) \in Nat
         /\ Cardinality(T) <= k
         /\ T = S \/ Cardinality(T) = k
<1>1. T \in SUBSET S /\ Cardinality(T) = AtMost(k, Cardinality(S))
  BY DEF Heads
<1>2. Cardinality(S) \in Nat
  BY FS_CardinalityType
<1>3. IsFiniteSet(T) /\ (Cardinality(S) = Cardinality(T) => S = T)
  BY <1>1, FS_Subset
<1>4. QED
  BY <1>1, <1>2, <1>3 DEF AtMost

\* A page that is not empty ends within the rows there are.
LEMMA PageCount ==
  ASSUME NEW org, IsFiniteSet(Own(org)), NEW offset \in Nat,
         NEW page \in Pages(org, offset), page # {}
  PROVE  offset + Cardinality(page) <= Cardinality(Own(org))
<1>1. PICK H \in Heads(Own(org), offset) : \E T \in Heads(Own(org), offset + Limit) :
        H \subseteq T /\ page = T \ H
  BY DEF Pages
<1>2. PICK T \in Heads(Own(org), offset + Limit) : H \subseteq T /\ page = T \ H
  BY <1>1
<1>3. H \in SUBSET Own(org) /\ (H = Own(org) \/ Cardinality(H) = offset)
  BY HeadsCount
<1>4. T \in SUBSET Own(org) /\ IsFiniteSet(T) /\ Cardinality(T) \in Nat
  BY HeadsCount
<1>5. Cardinality(H) = offset
  BY <1>2, <1>3, <1>4
<1>6. T \cap H = H
  BY <1>2
<1>7. Cardinality(page) = Cardinality(T) - offset
  BY <1>2, <1>4, <1>5, <1>6, FS_Difference
<1>8. Cardinality(T) <= Cardinality(Own(org)) /\ Cardinality(Own(org)) \in Nat
  BY <1>4, FS_Subset, FS_CardinalityType
<1>9. QED
  BY <1>4, <1>7, <1>8

\* A row that is not on the page and not before it is behind it, when no two rows
\* have the same time stamp.
LEMMA BehindThePage ==
  ASSUME Types, NEW l \in Listers, ~Ties(OrgOf[l]), NEW offset \in Nat,
         NEW page \in Pages(OrgOf[l], offset), NEW x \in Own(OrgOf[l]) \ page,
         offset <= Cardinality(Newer(l, x))
  PROVE  offset + Limit <= Cardinality(Newer(l, x))
<1> DEFINE own == Own(OrgOf[l])
           N == Newer(l, x)
<1>0. IsFiniteSet(own) /\ \A y \in own : y.at \in Int
  BY OwnIsMine DEF Mine, Row
<1>1. N \in SUBSET own /\ IsFiniteSet(N) /\ Cardinality(N) \in Nat /\ x \notin N
  <2>1. N \in SUBSET own
    BY DEF Newer
  <2>2. QED
    BY <1>0, <2>1, FS_Subset, FS_CardinalityType DEF Newer
<1>2. PICK H \in Heads(own, offset) : \E T \in Heads(own, offset + Limit) :
        H \subseteq T /\ page = T \ H
  BY DEF Pages
<1>3. PICK T \in Heads(own, offset + Limit) : H \subseteq T /\ page = T \ H
  BY <1>2
<1>4. x \notin H
  <2> SUFFICES ASSUME x \in H PROVE FALSE
    OBVIOUS
  <2>1. N \cup {x} \in SUBSET H
    BY <1>0 DEF Heads, Newer
  <2>2. IsFiniteSet(H) /\ Cardinality(H) <= offset /\ Cardinality(H) \in Nat
    BY <1>0, HeadsCount
  <2>3. Cardinality(N \cup {x}) = Cardinality(N) + 1
    BY <1>1, FS_AddElement
  <2>4. Cardinality(N \cup {x}) <= Cardinality(H)
    BY <2>1, <2>2, FS_Subset
  <2>5. QED
    BY <1>1, <2>2, <2>3, <2>4
<1>5. x \notin T
  BY <1>3, <1>4
<1>6. T \in SUBSET N
  <2>1. \A y \in T : y \in own /\ y # x /\ y.at >= x.at
    BY <1>5 DEF Heads
  <2>2. \A y \in T : y.at # x.at
    BY <2>1 DEF Ties
  <2>3. QED
    BY <1>0, <2>1, <2>2 DEF Newer
<1>7. Cardinality(T) = offset + Limit
  BY <1>0, <1>5, HeadsCount
<1>8. QED
  BY <1>1, <1>6, <1>7, FS_Subset

\* A row has fewer newer ones than there are rows.
LEMMA NewerThanOne ==
  ASSUME Types, NEW l \in Listers, NEW x \in Own(OrgOf[l])
  PROVE  Cardinality(Newer(l, x)) < Cardinality(Own(OrgOf[l]))
<1>1. IsFiniteSet(Own(OrgOf[l])) /\ x.at \in Int
  BY OwnIsMine DEF Mine, Row
<1>2. Newer(l, x) \in SUBSET Own(OrgOf[l]) /\ x \notin Newer(l, x)
  BY <1>1 DEF Newer
<1>3. /\ Cardinality(Newer(l, x)) <= Cardinality(Own(OrgOf[l]))
      /\ Cardinality(Own(OrgOf[l])) # Cardinality(Newer(l, x))
  BY <1>1, <1>2, FS_Subset
<1>4. Cardinality(Newer(l, x)) \in Nat /\ Cardinality(Own(OrgOf[l])) \in Nat
  BY <1>1, <1>2, FS_Subset, FS_CardinalityType
<1>5. QED
  BY <1>3, <1>4

\* What other requests do leaves a walk true, unless they disturb it.
LEMMA OthersKeepWalk ==
  ASSUME Types, Types', NEW l \in Listers, Covered(l), Ahead(l),
         walk'[l].pc = walk[l].pc, walk'[l].page = walk[l].page,
         walk'[l].offset = walk[l].offset, walk'[l].count = walk[l].count,
         walk'[l].seen = walk[l].seen, walk'[l].due = walk[l].due,
         ~walk'[l].disturbed => ~walk[l].disturbed /\ Own(OrgOf[l]) \subseteq Own(OrgOf[l])'
  PROVE  Covered(l)' /\ Ahead(l)'
<1> DEFINE own == Own(OrgOf[l])
<1> SUFFICES ASSUME ~walk'[l].disturbed PROVE Covered(l)' /\ Ahead(l)'
  BY DEF Covered, Ahead
<1>1. own \in SUBSET own' /\ IsFiniteSet(own') /\ IsFiniteSet(own)
  <2>1. IsFiniteSet(own')
    <3>1. own' \in SUBSET table'
      BY DEF Own
    <3>2. QED
      BY <3>1, FS_Subset DEF Types
  <2>2. QED
    BY <2>1, OwnIsMine
<1>2. /\ Cardinality(own) \in Nat /\ Cardinality(own') \in Nat
      /\ Cardinality(own) <= Cardinality(own')
  BY <1>1, FS_Subset, FS_CardinalityType
<1>3. /\ walk[l].offset \in Nat /\ walk[l].count \in Nat
      /\ Cardinality(walk[l].page) \in Nat
  BY FS_CardinalityType DEF Types, TypeOK
<1>4. Covered(l)'
  BY <1>2, <1>3 DEF Covered
<1>5. \A x \in own : /\ Cardinality(Newer(l, x)) <= Cardinality(Newer(l, x)')
                     /\ Cardinality(Newer(l, x)) \in Nat /\ Cardinality(Newer(l, x)') \in Nat
  <2> SUFFICES ASSUME NEW x \in own
               PROVE  /\ Cardinality(Newer(l, x)) <= Cardinality(Newer(l, x)')
                      /\ Cardinality(Newer(l, x)) \in Nat /\ Cardinality(Newer(l, x)') \in Nat
    OBVIOUS
  <2>1. Newer(l, x) \in SUBSET Newer(l, x)' /\ Newer(l, x)' \in SUBSET own'
    BY <1>1 DEF Newer
  <2>2. IsFiniteSet(Newer(l, x)')
    BY <1>1, <2>1, FS_Subset
  <2>3. QED
    BY <2>1, <2>2, FS_Subset, FS_CardinalityType
<1>6. Ahead(l)'
  <2> SUFFICES ASSUME ~Ties(OrgOf[l])', walk[l].pc # "idle" PROVE Ahead(l)'
    BY DEF Ahead
  <2>1. ~Ties(OrgOf[l])
    BY <1>1 DEF Ties
  <2>2. QED
    BY <1>1, <1>3, <1>5, <2>1 DEF Ahead
<1>7. QED
  BY <1>4, <1>6

\* Each step of a walk takes it on.
LEMMA StepKeepsWalk ==
  ASSUME Types, NEW l \in Listers, Step(l), Covered(l), Ahead(l)
  PROVE  Covered(l)' /\ Ahead(l)'
<1> DEFINE own == Own(OrgOf[l])
<1>0. own' = own /\ (Ties(OrgOf[l])' <=> Ties(OrgOf[l])) /\ \A x : Newer(l, x)' = Newer(l, x)
  BY StepTypes DEF Own, Ties, Newer
<1>1. own \in SUBSET Mine(OrgOf[l]) /\ IsFiniteSet(own) /\ Cardinality(own) \in Nat
  BY OwnIsMine, FS_CardinalityType
<1>2. walk[l] \in Walk /\ walk \in [Listers -> Walk]
  BY DEF Types
<1>3. \A x \in own : Cardinality(Newer(l, x)) \in Nat
  <2>1. \A x \in own : Newer(l, x) \in SUBSET own
    BY DEF Newer
  <2>2. QED
    BY <1>1, <2>1, FS_Subset, FS_CardinalityType
<1>4. CASE StartWalk(l)
  <2>1. /\ walk'[l].pc = "page" /\ walk'[l].offset = 0 /\ walk'[l].due = own
        /\ walk'[l].page = {}
    BY <1>2, <1>4 DEF StartWalk, NoWalk
  <2>2. QED
    BY <1>0, <1>3, <2>1 DEF Covered, Ahead
<1>5. CASE QueryPage(l)
  <2>1. PICK page \in Pages(OrgOf[l], walk[l].offset) :
          walk' = [walk EXCEPT ![l].pc = "count", ![l].page = page]
    BY <1>5 DEF QueryPage
  <2>2. /\ walk[l].pc = "page" /\ walk'[l].pc = "count" /\ walk'[l].page = page
        /\ walk'[l].offset = walk[l].offset /\ walk'[l].due = walk[l].due
        /\ walk'[l].seen = walk[l].seen /\ walk'[l].disturbed = walk[l].disturbed
    BY <1>2, <1>5, <2>1 DEF QueryPage, Walk
  <2>3. walk[l].offset \in Nat
    BY <1>2 DEF Walk
  <2>4. Covered(l)'
    BY <1>0, <1>1, <2>1, <2>2, <2>3, PageCount DEF Covered
  <2>5. ASSUME ~Ties(OrgOf[l]), NEW x \in own \ page,
               walk[l].offset <= Cardinality(Newer(l, x))
        PROVE  walk[l].offset + Limit <= Cardinality(Newer(l, x))
    BY <2>1, <2>3, <2>5, BehindThePage
  <2>6. Ahead(l)'
    BY <1>0, <2>2, <2>5 DEF Ahead
  <2>7. QED
    BY <2>4, <2>6
<1>6. CASE QueryPageShort(l)
  <2>1. walk'[l].disturbed
    BY <1>2, <1>6 DEF QueryPageShort, Walk
  <2>2. QED
    BY <2>1 DEF Covered, Ahead
<1>7. CASE QueryCount(l)
  <2>1. /\ walk[l].pc = "count" /\ walk'[l].pc = "answer" /\ walk'[l].page = walk[l].page
        /\ walk'[l].offset = walk[l].offset /\ walk'[l].due = walk[l].due
        /\ walk'[l].seen = walk[l].seen /\ walk'[l].disturbed = walk[l].disturbed
        /\ walk'[l].count = Cardinality(own) /\ walk[l].offset \in Nat
    BY <1>2, <1>7 DEF QueryCount, Walk
  <2>2. Covered(l)'
    BY <1>0, <2>1 DEF Covered
  <2>3. \A x \in own : Cardinality(Newer(l, x)) < Cardinality(own)
    BY NewerThanOne
  <2>4. \A x \in own : walk[l].offset + Limit <= Cardinality(Newer(l, x))
                         => walk[l].offset + Limit < Cardinality(own)
    BY <1>1, <1>3, <2>1, <2>3
  <2>5. Ahead(l)'
    BY <1>0, <2>1, <2>4 DEF Ahead
  <2>6. QED
    BY <2>2, <2>5
<1>8. CASE Fail(l)
  <2>1. /\ walk[l].pc \in {"page", "count"} /\ walk'[l].pc = "page" /\ walk'[l].page = {}
        /\ walk'[l].offset = walk[l].offset /\ walk'[l].due = walk[l].due
        /\ walk'[l].seen = walk[l].seen /\ walk'[l].disturbed = walk[l].disturbed
    BY <1>2, <1>8 DEF Fail, Walk
  <2>2. QED
    BY <1>0, <2>1 DEF Covered, Ahead
<1>9. CASE TakePage(l)
  <2> DEFINE next == walk[l].offset + Limit
  <2>1. /\ walk[l].pc = "answer" /\ walk'[l].page = {} /\ walk'[l].offset = next
        /\ walk'[l].pc = IF next < walk[l].count THEN "page" ELSE "done"
        /\ walk'[l].seen = walk[l].seen \cup walk[l].page
        /\ walk'[l].due = walk[l].due /\ walk'[l].disturbed = walk[l].disturbed
    BY <1>2, <1>9 DEF TakePage, Walk
  <2>2. QED
    BY <1>0, <2>1 DEF Covered, Ahead
<1>10. QED
  BY <1>4, <1>5, <1>6, <1>7, <1>8, <1>9 DEF Step

\* The walks of the others, and the tables, change behind it.
LEMMA NextWalk == WalkInv /\ [Next]_vars => WalkInv'
<1> SUFFICES ASSUME WalkInv, [Next]_vars PROVE WalkInv'
  OBVIOUS
<1>0. Types /\ Types' /\ \A l \in Listers : Covered(l) /\ Ahead(l)
  BY NextTypes DEF WalkInv
<1> SUFFICES ASSUME NEW l \in Listers PROVE Covered(l)' /\ Ahead(l)'
  BY <1>0 DEF WalkInv
<1>1. ASSUME walk'[l] = walk[l], table \subseteq table' PROVE Covered(l)' /\ Ahead(l)'
  <2>1. Own(OrgOf[l]) \subseteq Own(OrgOf[l])'
    BY <1>1 DEF Own
  <2>2. QED
    BY <1>0, <1>1, <2>1, OthersKeepWalk
<1>2. CASE Tick \/ \E id \in Ids, org \in Orgs : BeginInsert(id, org)
  BY <1>1, <1>2 DEF Tick, BeginInsert
<1>3. CASE \E x \in inserting : CommitInsert(x)
  BY <1>1, <1>3 DEF CommitInsert
<1>4. ASSUME NEW x \in table, Delete(x) PROVE Covered(l)' /\ Ahead(l)'
  <2>1. OrgOf[l] # x.org => Own(OrgOf[l])' = Own(OrgOf[l])
    BY <1>4 DEF Delete, Own
  <2>2. QED
    BY <1>0, <1>4, <2>1, DeleteDisturbs, OthersKeepWalk
<1>5. ASSUME NEW m \in Listers, Step(m) PROVE Covered(l)' /\ Ahead(l)'
  <2>1. CASE m = l
    BY <1>0, <1>5, <2>1, StepKeepsWalk
  <2>2. CASE m # l
    <3>1. walk'[l] = walk[l]
      BY <1>0, <1>5, <2>2 DEF Types, Step, StartWalk, QueryPage, QueryPageShort, QueryCount,
                              Fail, TakePage
    <3>2. table' = table
      BY <1>0, <1>5, StepTypes
    <3>3. QED
      BY <1>1, <3>1, <3>2
  <2>3. QED
    BY <2>1, <2>2
<1>6. CASE UNCHANGED vars
  BY <1>1, <1>6 DEF vars
<1>7. QED
  BY <1>2, <1>3, <1>4, <1>5, <1>6 DEF Next, Step

LEMMA WalksHold == Spec => []WalkInv
<1>1. Init => WalkInv
  <2> SUFFICES ASSUME Init PROVE WalkInv
    OBVIOUS
  <2>1. \A l \in Listers : walk[l].pc = "idle" /\ walk[l].page = {}
    BY DEF Init, NoWalk
  <2>2. QED
    BY <2>1, InitTypes DEF WalkInv, Covered, Ahead
<1>2. QED
  BY <1>1, NextWalk, PTL DEF Spec

\* The count of a list answer covers its page, although they are two statements.
THEOREM CountsCoverPages == Spec => []CountCoversPage
<1>1. WalkInv => CountCoversPage
  BY DEF WalkInv, Covered, CountCoversPage
<1>2. QED
  BY <1>1, WalksHold, PTL

\* A walk over the pages misses no registration that was there when it began,
\* whatever others create meanwhile.
THEOREM WalksAreComplete == Spec => []WalkIsComplete
<1>1. WalkInv => WalkIsComplete
  BY DEF WalkInv, Ahead, WalkIsComplete
<1>2. QED
  BY <1>1, WalksHold, PTL
=============================================================================
