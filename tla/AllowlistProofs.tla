--------------------------- MODULE AllowlistProofs ---------------------------
(***************************************************************************)
(* Theorems about MemoryAllowlist, for any goroutines, arrays, blocks and  *)
(* calls, and a slice of any length.                                       *)
(***************************************************************************)
EXTENDS MemoryAllowlist, FiniteSetTheorems, SequenceTheorems, TLAPS

(***************************************************************************)
(* The inductive invariant.                                                *)
(***************************************************************************)
AllowPlaces == {"append", "write"}
DenyPlaces == {"scan", "cut", "move"}
WritePlaces == AllowPlaces \cup DenyPlaces
ReadPlaces == {"load", "read"}

\* Where b stands among the first n elements, but for a hole.
At(array, n, hole, b) == {k \in (1..n) \ {hole} : array[k] = b}

\* The first n elements of an array are what is listed, but for the block that
\* is gone from the hole.
Exact(a, n, hole, gone) ==
  /\ n <= Len(heap[a])
  /\ \A k \in 1..n : heap[a][k] \in Listed
  /\ \A b \in Blocks :
       Cardinality(At(heap[a], n, hole, b)) = count[b] - (IF b = gone THEN 1 ELSE 0)

IdleOK(t) == pc[t] = "idle" => i[t] = 0 /\ found[t] = {}

Alone == \A s, t \in Threads : pc[s] \in WritePlaces /\ pc[t] \in WritePlaces => s = t

SliceOK ==
  (\A t \in Threads : pc[t] \notin {"write", "move"}) => Exact(slice.arr, slice.len, 0, Zero)

AppendOK(t) ==
  pc[t] = "write" =>
    /\ h[t].arr \in Arrays /\ h[t].len < Len(heap[h[t].arr])
    /\ Exact(h[t].arr, h[t].len, 0, Zero)
    /\ "arr" \notin left[t] => slice.arr = h[t].arr
    /\ slice.len = IF "len" \in left[t] THEN h[t].len ELSE h[t].len + 1
    /\ "element" \notin left[t] => heap[h[t].arr][h[t].len + 1] = call[t].block

CutOK(t) ==
  /\ pc[t] = "scan" => h[t].len = slice.len /\ i[t] <= h[t].len
  /\ pc[t] = "cut" => i[t] < slice.len /\ heap[slice.arr][i[t] + 1] = call[t].block
  /\ pc[t] = "move" =>
       /\ h[t].arr = slice.arr /\ h[t].len = slice.len - 1 /\ i[t] <= h[t].len
       /\ Exact(slice.arr, slice.len, i[t] + 1, call[t].block)

\* A reader whose header is torn may see anything.
TornOK(r) == pc[r] \in ReadPlaces /\ Zero \in seen[r] => seen[r] = Anything /\ kept[r] = {}

\* One whose header is not sees what was listed at some time, and no more.
Whole(r) == pc[r] \in ReadPlaces /\ Zero \notin seen[r]

ArrayOf(r) == IF pc[r] = "load" THEN slice.arr ELSE h[r].arr

SeesOK(r) ==
  Whole(r) =>
    /\ Listed \subseteq seen[r]
    /\ \A w \in Threads : pc[w] \in AllowPlaces => pc[r] = "read" /\ call[w].block \in seen[r]
    /\ ArrayOf(r) \in Arrays
    /\ h[r].len <= Len(heap[ArrayOf(r)])
    /\ \A k \in 1..h[r].len : heap[ArrayOf(r)][k] \in seen[r]
    /\ found[r] \subseteq seen[r]
    /\ pc[r] = "load" =>
         /\ left[r] \subseteq {"arr", "len"} /\ left[r] # {}
         /\ i[r] = 0
         /\ "arr" \notin left[r] => h[r].arr = slice.arr
    /\ pc[r] = "read" => i[r] <= h[r].len

\* What a reader has behind it, of a list or of a check.
Past(r, b) == IF call[r].kind = "list" THEN b \in found[r] ELSE call[r].ip \notin b.addrs

\* And no deny overlapping it, it has before it what is on the list all the while.
KeepsOK(r) ==
  Whole(r) /\ ~moved[r] =>
    /\ \A w \in Threads : pc[w] \notin DenyPlaces
    /\ pc[r] = "load" =>
         /\ kept[r] \subseteq Listed
         /\ "len" \notin left[r] => h[r].len = slice.len
    /\ pc[r] = "read" =>
         /\ \A b \in kept[r] : \E k \in 1..h[r].len : heap[h[r].arr][k] = b
         /\ \A k \in 1..i[r] : Past(r, heap[h[r].arr][k])
         /\ \A w \in Threads :
              pc[w] = "write" /\ h[w].arr = h[r].arr => h[r].len <= h[w].len
         /\ (\A w \in Threads : pc[w] # "write") /\ slice.arr = h[r].arr
              => h[r].len <= slice.len

DoneOK(t) == Answered(t) => found[t] \subseteq seen[t] /\ (~moved[t] => FindsAll(t))

Undisturbed ==
  /\ Alone
  /\ SliceOK
  /\ \A t \in Threads :
       /\ AppendOK(t) /\ CutOK(t)
       /\ TornOK(t) /\ SeesOK(t) /\ KeepsOK(t) /\ DoneOK(t)

AllowlistInv ==
  /\ TypeOK
  /\ \A t \in Threads : IdleOK(t)
  /\ ~raced => Undisturbed

(***************************************************************************)
(* Types.                                                                  *)
(***************************************************************************)
LEMMA SlotType ==
  ASSUME TypeOK, NEW a, NEW k \in Nat, NEW x \in Slot(a, k)
  PROVE  x \in Anything
BY DEF TypeOK, SharedTypes, Slot

LEMMA GrownType ==
  ASSUME NEW array \in Seq(Anything)
  PROVE  /\ Grown(array) \in Seq(Anything)
         /\ Len(Grown(array)) > Len(array)
         /\ \A k \in 1..Len(array) : Grown(array)[k] = array[k]
<1> DEFINE n == IF array = <<>> THEN 1 ELSE 2 * Len(array)
<1>1. n \in Nat /\ n > Len(array)
  BY EmptySeq, LenProperties
<1>2. \A k \in 1..n : (IF k <= Len(array) THEN array[k] ELSE Zero) \in Anything
  BY DEF Anything
<1>3. Grown(array) = [k \in 1..n |-> IF k <= Len(array) THEN array[k] ELSE Zero]
  BY DEF Grown
<1> HIDE DEF n
<1>4. QED
  BY <1>1, <1>2, <1>3

LEMMA UpdateType ==
  ASSUME NEW S, NEW seq \in Seq(S), NEW k, NEW x \in S
  PROVE  /\ [seq EXCEPT ![k] = x] \in Seq(S)
         /\ Len([seq EXCEPT ![k] = x]) = Len(seq)
         /\ \A j \in 1..Len(seq) : [seq EXCEPT ![k] = x][j] = IF j = k THEN x ELSE seq[j]
<1>1. seq \in [1..Len(seq) -> S] /\ Len(seq) \in Nat
  BY LenProperties, ElementOfSeq
<1>2. [seq EXCEPT ![k] = x] \in [1..Len(seq) -> S]
  BY <1>1
<1>3. [seq EXCEPT ![k] = x] \in Seq(S)
  BY <1>1, <1>2, SeqDef
<1>4. DOMAIN [seq EXCEPT ![k] = x] = 1..Len(seq)
  BY <1>2
<1>5. Len([seq EXCEPT ![k] = x]) = Len(seq)
  BY <1>1, <1>3, <1>4, LenProperties
<1>6. QED
  BY <1>1, <1>3, <1>5

LEMMA InitType == Init => TypeOK /\ \A t \in Threads : IdleOK(t)
<1> SUFFICES ASSUME Init PROVE TypeOK /\ \A t \in Threads : IdleOK(t)
  OBVIOUS
<1>1. <<>> \in Seq(Anything)
  BY EmptySeq
<1>2. SharedTypes
  <2>1. PICK a \in Arrays : slice = [arr |-> a, len |-> 0]
    BY DEF Init
  <2>2. heap \in [Arrays -> Seq(Anything)]
    BY <1>1 DEF Init
  <2>3. slice \in [arr : Arrays, len : Nat]
    BY <2>1
  <2>4. count \in [Blocks -> Int]
    BY DEF Init
  <2>5. raced \in BOOLEAN
    BY Zenon DEF Init
  <2>6. QED
    BY <2>2, <2>3, <2>4, <2>5 DEF SharedTypes
<1>3. ThreadTypes
  BY DEF Init, ThreadTypes, Places, NoSlice
<1>4. PlaceTypes
  BY DEF Init, PlaceTypes
<1>5. \A t \in Threads : IdleOK(t)
  BY DEF Init, IdleOK
<1>6. QED
  BY <1>2, <1>3, <1>4, <1>5 DEF TypeOK

LEMMA StepType ==
  ASSUME TypeOK, \A t \in Threads : IdleOK(t), Next
  PROVE  TypeOK' /\ (\A t \in Threads : IdleOK(t))'
<1> USE ValuesAssumption, CallsAssumption
<1> USE DEF shared, history, Goto, Reply, Advance, Panic
<1>0. PICK t \in Threads : Step(t)
  BY DEF Next
<1>1. ASSUME NEW c \in Calls, BeginRead(t, c) PROVE TypeOK' /\ (\A s \in Threads : IdleOK(s))'
  <2>1. SharedTypes'
    BY <1>1 DEF BeginRead, Start, NoSlice, Anything, Listed, TypeOK, SharedTypes
  <2>2. ThreadTypes'
    BY <1>1 DEF BeginRead, Start, NoSlice, Anything, Listed, TypeOK, ThreadTypes, Places
  <2>3. PlaceTypes'
    BY <1>1 DEF BeginRead, Start, NoSlice, Anything, Listed, TypeOK, ThreadTypes, PlaceTypes, SharedTypes, Places
  <2>4. (\A s \in Threads : IdleOK(s))'
    BY <1>1 DEF BeginRead, Start, NoSlice, Anything, Listed, TypeOK, ThreadTypes, IdleOK
  <2>5. QED
    BY <2>1, <2>2, <2>3, <2>4 DEF TypeOK
<1>2. ASSUME NEW c \in Calls, BeginAllow(t, c) PROVE TypeOK' /\ (\A s \in Threads : IdleOK(s))'
  <2>1. SharedTypes'
    BY <1>2 DEF BeginAllow, Start, NoSlice, Anything, TypeOK, SharedTypes
  <2>2. ThreadTypes'
    BY <1>2 DEF BeginAllow, Start, NoSlice, Anything, TypeOK, ThreadTypes, Places
  <2>3. PlaceTypes'
    BY <1>2 DEF BeginAllow, Start, NoSlice, Anything, TypeOK, ThreadTypes, PlaceTypes, SharedTypes, Places
  <2>4. (\A s \in Threads : IdleOK(s))'
    BY <1>2 DEF BeginAllow, Start, NoSlice, Anything, TypeOK, ThreadTypes, IdleOK
  <2>5. QED
    BY <2>1, <2>2, <2>3, <2>4 DEF TypeOK
<1>3. ASSUME NEW c \in Calls, BeginDeny(t, c) PROVE TypeOK' /\ (\A s \in Threads : IdleOK(s))'
  <2>1. SharedTypes'
    BY <1>3 DEF BeginDeny, Start, NoSlice, TypeOK, SharedTypes
  <2>2. ThreadTypes'
    BY <1>3 DEF BeginDeny, Start, NoSlice, TypeOK, SharedTypes, ThreadTypes, Places
  <2>3. PlaceTypes'
    BY <1>3 DEF BeginDeny, Start, NoSlice, TypeOK, ThreadTypes, PlaceTypes, SharedTypes, Places
  <2>4. (\A s \in Threads : IdleOK(s))'
    BY <1>3 DEF BeginDeny, Start, NoSlice, TypeOK, ThreadTypes, IdleOK
  <2>5. QED
    BY <2>1, <2>2, <2>3, <2>4 DEF TypeOK
<1>4. ASSUME NEW f \in {"arr", "len"}, Load(t, f) PROVE TypeOK' /\ (\A s \in Threads : IdleOK(s))'
  <2>1. SharedTypes'
    BY <1>4 DEF Load, TypeOK, SharedTypes
  <2>2. ThreadTypes'
    BY <1>4 DEF Load, TypeOK, SharedTypes, ThreadTypes, Places
  <2>3. PlaceTypes'
    BY <1>4 DEF Load, TypeOK, ThreadTypes, PlaceTypes, SharedTypes, Places
  <2>4. (\A s \in Threads : IdleOK(s))'
    BY <1>4 DEF Load, TypeOK, ThreadTypes, IdleOK
  <2>5. QED
    BY <2>1, <2>2, <2>3, <2>4 DEF TypeOK
<1>5. CASE ReadElement(t)
  <2>1. SharedTypes'
    BY <1>5 DEF ReadElement, TypeOK, SharedTypes
  <2>2. ThreadTypes'
    BY <1>5, SlotType DEF ReadElement, TypeOK, ThreadTypes, Places
  <2>3. PlaceTypes'
    BY <1>5 DEF ReadElement, TypeOK, ThreadTypes, PlaceTypes, SharedTypes, Places
  <2>4. (\A s \in Threads : IdleOK(s))'
    BY <1>5 DEF ReadElement, TypeOK, ThreadTypes, IdleOK
  <2>5. QED
    BY <2>1, <2>2, <2>3, <2>4 DEF TypeOK
<1>6. CASE EndRead(t)
  <2>1. SharedTypes'
    BY <1>6 DEF EndRead, TypeOK, SharedTypes
  <2>2. ThreadTypes'
    BY <1>6 DEF EndRead, TypeOK, ThreadTypes, Places
  <2>3. PlaceTypes'
    BY <1>6 DEF EndRead, TypeOK, ThreadTypes, PlaceTypes, SharedTypes, Places
  <2>4. (\A s \in Threads : IdleOK(s))'
    BY <1>6 DEF EndRead, TypeOK, ThreadTypes, IdleOK
  <2>5. QED
    BY <2>1, <2>2, <2>3, <2>4 DEF TypeOK
<1>7. CASE LoadAndGrow(t)
  <2>1. SharedTypes'
    BY <1>7, GrownType DEF LoadAndGrow, TypeOK, SharedTypes
  <2>2. ThreadTypes'
    <3>1. \/ h' = [h EXCEPT ![t] = slice]
          \/ \E a \in Arrays : h' = [h EXCEPT ![t] = [arr |-> a, len |-> slice.len]]
      BY <1>7 DEF LoadAndGrow
    <3>2. h' \in [Threads -> [arr : Arrays \cup {None}, len : Nat]]
      <4>1. slice \in [arr : Arrays \cup {None}, len : Nat]
        BY DEF TypeOK, SharedTypes
      <4>2. \A a \in Arrays : [arr |-> a, len |-> slice.len] \in [arr : Arrays \cup {None}, len : Nat]
        BY DEF TypeOK, SharedTypes
      <4>3. QED
        BY <3>1, <4>1, <4>2 DEF TypeOK, ThreadTypes
    <3>3. left' \in [Threads -> SUBSET {"arr", "len", "element"}]
      BY <1>7 DEF LoadAndGrow, TypeOK, ThreadTypes
    <3>4. QED
      BY <1>7, <3>2, <3>3 DEF LoadAndGrow, TypeOK, ThreadTypes, Places
  <2>3. PlaceTypes'
    BY <1>7 DEF LoadAndGrow, TypeOK, ThreadTypes, PlaceTypes, SharedTypes, Places
  <2>4. (\A s \in Threads : IdleOK(s))'
    BY <1>7 DEF LoadAndGrow, TypeOK, ThreadTypes, IdleOK
  <2>5. QED
    BY <2>1, <2>2, <2>3, <2>4 DEF TypeOK
<1>8. ASSUME NEW what \in {"arr", "len", "element"}, Write(t, what) PROVE TypeOK' /\ (\A s \in Threads : IdleOK(s))'
  <2>1. SharedTypes'
    <3>1. pc[t] = "write" /\ h[t] \in [arr : Arrays, len : Nat] /\ call[t].block \in Anything
      BY <1>8 DEF Write, TypeOK, ThreadTypes, PlaceTypes, Anything
    <3>2. slice' \in [arr : Arrays, len : Nat]
      BY <1>8, <3>1 DEF Write, TypeOK, SharedTypes
    <3>3. heap' \in [Arrays -> Seq(Anything)]
      BY <1>8, <3>1, UpdateType DEF Write, TypeOK, SharedTypes
    <3>4. count' \in [Blocks -> Int] /\ raced' \in BOOLEAN
      BY <1>8 DEF Write, TypeOK, SharedTypes
    <3>5. QED
      BY <3>2, <3>3, <3>4 DEF SharedTypes
  <2>2. ThreadTypes'
    <3>1. /\ pc' \in {pc, [pc EXCEPT ![t] = "reply"]}
          /\ status' \in {status, [status EXCEPT ![t] = 201]}
          /\ left' = [left EXCEPT ![t] = @ \ {what}]
          /\ UNCHANGED <<call, h, i, found, seen, kept, moved>>
      BY <1>8 DEF Write
    <3>2. QED
      BY <3>1 DEF TypeOK, ThreadTypes, Places
  <2>3. PlaceTypes'
    BY <1>8 DEF Write, TypeOK, ThreadTypes, PlaceTypes, SharedTypes, Places
  <2>4. (\A s \in Threads : IdleOK(s))'
    BY <1>8 DEF Write, TypeOK, ThreadTypes, IdleOK
  <2>5. QED
    BY <2>1, <2>2, <2>3, <2>4 DEF TypeOK
<1>9. CASE ScanElement(t)
  <2>1. SharedTypes'
    BY <1>9 DEF ScanElement, TypeOK, SharedTypes
  <2>2. ThreadTypes'
    BY <1>9 DEF ScanElement, TypeOK, ThreadTypes, Places
  <2>3. PlaceTypes'
    BY <1>9 DEF ScanElement, TypeOK, ThreadTypes, PlaceTypes, SharedTypes, Places
  <2>4. (\A s \in Threads : IdleOK(s))'
    BY <1>9 DEF ScanElement, TypeOK, ThreadTypes, IdleOK
  <2>5. QED
    BY <2>1, <2>2, <2>3, <2>4 DEF TypeOK
<1>10. CASE EndScan(t)
  <2>1. SharedTypes'
    BY <1>10 DEF EndScan, TypeOK, SharedTypes
  <2>2. ThreadTypes'
    BY <1>10 DEF EndScan, TypeOK, ThreadTypes, Places
  <2>3. PlaceTypes'
    BY <1>10 DEF EndScan, TypeOK, ThreadTypes, PlaceTypes, SharedTypes, Places
  <2>4. (\A s \in Threads : IdleOK(s))'
    BY <1>10 DEF EndScan, TypeOK, ThreadTypes, IdleOK
  <2>5. QED
    BY <2>1, <2>2, <2>3, <2>4 DEF TypeOK
<1>11. CASE Cut(t)
  <2>1. SharedTypes'
    BY <1>11 DEF Cut, TypeOK, SharedTypes
  <2>2. ThreadTypes'
    <3>1. \/ pc' = [pc EXCEPT ![t] = "reply"] /\ status' = [status EXCEPT ![t] = 0] /\ h' = h
          \/ /\ pc' = [pc EXCEPT ![t] = "move"] /\ status' = status /\ ~(i[t] >= slice.len)
             /\ h' = [h EXCEPT ![t] = [arr |-> slice.arr, len |-> slice.len - 1]]
      BY <1>11 DEF Cut
    <3>2. ~(i[t] >= slice.len) => slice.len - 1 \in Nat /\ slice.arr \in Arrays
      BY DEF TypeOK, SharedTypes, ThreadTypes
    <3>3. h' \in [Threads -> [arr : Arrays \cup {None}, len : Nat]]
      BY <3>1, <3>2 DEF TypeOK, ThreadTypes
    <3>4. pc' \in [Threads -> Places] /\ status' \in [Threads -> {0, 200, 201, 204, 403, 404}]
      <4>1. \/ pc' = [pc EXCEPT ![t] = "reply"] /\ status' = [status EXCEPT ![t] = 0]
            \/ pc' = [pc EXCEPT ![t] = "move"] /\ status' = status
        BY <3>1
      <4>2. QED
        BY <4>1 DEF TypeOK, ThreadTypes, Places
    <3>5. QED
      BY <1>11, <3>3, <3>4 DEF Cut, TypeOK, ThreadTypes
  <2>3. PlaceTypes'
    BY <1>11 DEF Cut, TypeOK, ThreadTypes, PlaceTypes, SharedTypes, Places
  <2>4. (\A s \in Threads : IdleOK(s))'
    BY <1>11 DEF Cut, TypeOK, ThreadTypes, IdleOK
  <2>5. QED
    BY <2>1, <2>2, <2>3, <2>4 DEF TypeOK
<1>12. CASE Move(t)
  <2>1. SharedTypes'
    <3>1. PICK x \in Slot(h[t].arr, i[t] + 2) :
            heap' = [heap EXCEPT ![h[t].arr] = [@ EXCEPT ![i[t] + 1] = x]]
      BY <1>12 DEF Move
    <3>2. i[t] + 2 \in Nat /\ h[t].arr \in Arrays /\ heap[h[t].arr] \in Seq(Anything)
      BY <1>12 DEF Move, TypeOK, SharedTypes, ThreadTypes, PlaceTypes
    <3>2a. x \in Anything
      BY <3>2, SlotType
    <3>2b. [heap[h[t].arr] EXCEPT ![i[t] + 1] = x] \in Seq(Anything)
      BY <3>2, <3>2a, UpdateType
    <3>3. heap' \in [Arrays -> Seq(Anything)]
      BY <3>1, <3>2b DEF TypeOK, SharedTypes
    <3>4. QED
      BY <1>12, <3>3 DEF Move, TypeOK, SharedTypes
  <2>2. ThreadTypes'
    BY <1>12 DEF Move, TypeOK, ThreadTypes, Places
  <2>3. PlaceTypes'
    BY <1>12 DEF Move, TypeOK, ThreadTypes, PlaceTypes, SharedTypes, Places
  <2>4. (\A s \in Threads : IdleOK(s))'
    BY <1>12 DEF Move, TypeOK, ThreadTypes, IdleOK
  <2>5. QED
    BY <2>1, <2>2, <2>3, <2>4 DEF TypeOK
<1>13. CASE Shorten(t)
  <2>1. SharedTypes'
    <3>1. h[t] \in [arr : Arrays, len : Nat]
      BY <1>13 DEF Shorten, TypeOK, ThreadTypes, PlaceTypes
    <3>2. slice' \in [arr : Arrays, len : Nat]
      BY <1>13, <3>1 DEF Shorten
    <3>3. heap' \in [Arrays -> Seq(Anything)] /\ raced' \in BOOLEAN
      BY <1>13, Zenon DEF Shorten, TypeOK, SharedTypes
    <3>4. count' \in [Blocks -> Int]
      <4>1. count' = [count EXCEPT ![call[t].block] = @ - 1]
        BY <1>13 DEF Shorten
      <4>2. count \in [Blocks -> Int]
        BY DEF TypeOK, SharedTypes
      <4>3. \A b \in Blocks : count[b] - 1 \in Int
        BY <4>2
      <4>4. QED
        BY <4>1, <4>2, <4>3
    <3>5. QED
      BY <3>2, <3>3, <3>4 DEF SharedTypes
  <2>2. ThreadTypes'
    BY <1>13 DEF Shorten, TypeOK, ThreadTypes, Places
  <2>3. PlaceTypes'
    BY <1>13 DEF Shorten, TypeOK, ThreadTypes, PlaceTypes, SharedTypes, Places
  <2>4. (\A s \in Threads : IdleOK(s))'
    BY <1>13 DEF Shorten, TypeOK, ThreadTypes, IdleOK
  <2>5. QED
    BY <2>1, <2>2, <2>3, <2>4 DEF TypeOK
<1>14. CASE Return(t)
  <2>1. SharedTypes'
    BY <1>14, EmptySeq DEF Return, NoSlice, TypeOK, SharedTypes
  <2>2. ThreadTypes'
    BY <1>14 DEF Return, NoSlice, TypeOK, ThreadTypes, Places
  <2>3. PlaceTypes'
    BY <1>14 DEF Return, NoSlice, TypeOK, ThreadTypes, PlaceTypes, SharedTypes, Places
  <2>4. (\A s \in Threads : IdleOK(s))'
    BY <1>14 DEF Return, NoSlice, TypeOK, ThreadTypes, IdleOK
  <2>5. QED
    BY <2>1, <2>2, <2>3, <2>4 DEF TypeOK
<1>15. QED
  BY <1>0, <1>1, <1>2, <1>3, <1>4, <1>5, <1>6, <1>7, <1>8, <1>9, <1>10, <1>11, <1>12, <1>13, <1>14 DEF Step

(***************************************************************************)
(* Counting the places of a block.                                         *)
(***************************************************************************)
LEMMA AtFinite ==
  ASSUME NEW array, NEW n \in Nat, NEW hole, NEW b
  PROVE  IsFiniteSet(At(array, n, hole, b)) /\ Cardinality(At(array, n, hole, b)) \in Nat
<1>1. IsFiniteSet(1..n)
  BY FS_Interval
<1>2. At(array, n, hole, b) \in SUBSET (1..n)
  BY DEF At
<1>3. QED
  BY <1>1, <1>2, FS_Subset, FS_CardinalityType

\* A block that stands somewhere is counted.
LEMMA AtCounts ==
  ASSUME NEW array, NEW n \in Nat, NEW hole, NEW b
  PROVE  (Cardinality(At(array, n, hole, b)) > 0) <=> (\E k \in (1..n) \ {hole} : array[k] = b)
<1>1. Cardinality(At(array, n, hole, b)) = 0 <=> At(array, n, hole, b) = {}
  BY AtFinite, FS_EmptySet
<1>2. Cardinality(At(array, n, hole, b)) \in Nat
  BY AtFinite
<1>3. QED
  BY <1>1, <1>2 DEF At

SameUpTo(array, other, n) == \A k \in 1..n : other[k] = array[k]

LEMMA AtSame ==
  ASSUME NEW array, NEW other, NEW n \in Nat, NEW hole, NEW b, SameUpTo(array, other, n)
  PROVE  At(other, n, hole, b) = At(array, n, hole, b)
BY DEF At, SameUpTo

\* One element more.
LEMMA AtAppended ==
  ASSUME NEW array, NEW n \in Nat, NEW b
  PROVE  Cardinality(At(array, n + 1, 0, b))
           = Cardinality(At(array, n, 0, b)) + (IF b = array[n + 1] THEN 1 ELSE 0)
<1>1. CASE b = array[n + 1]
  <2>1. At(array, n + 1, 0, b) = At(array, n, 0, b) \cup {n + 1} /\ n + 1 \notin At(array, n, 0, b)
    BY <1>1 DEF At
  <2>2. QED
    BY <1>1, <2>1, AtFinite, FS_AddElement
<1>2. CASE b # array[n + 1]
  <2>1. At(array, n + 1, 0, b) = At(array, n, 0, b)
    BY <1>2 DEF At
  <2>2. QED
    BY <1>2, <2>1, AtFinite
<1>3. QED
  BY <1>1, <1>2

\* A hole where j was.
LEMMA AtPunched ==
  ASSUME NEW array, NEW n \in Nat, NEW j \in 1..n, NEW b
  PROVE  Cardinality(At(array, n, j, b))
           = Cardinality(At(array, n, 0, b)) - (IF b = array[j] THEN 1 ELSE 0)
<1>1. CASE b = array[j]
  <2>1. At(array, n, j, b) = At(array, n, 0, b) \ {j} /\ j \in At(array, n, 0, b)
    BY <1>1 DEF At
  <2>2. QED
    BY <1>1, <2>1, AtFinite, FS_RemoveElement
<1>2. CASE b # array[j]
  <2>1. At(array, n, j, b) = At(array, n, 0, b)
    BY <1>2 DEF At
  <2>2. QED
    BY <1>2, <2>1, AtFinite
<1>3. QED
  BY <1>1, <1>2

\* The element behind the hole moves into it.
MovedDown(array, other, n, j) ==
  \A k \in 1..n : other[k] = IF k = j THEN array[j + 1] ELSE array[k]

LEMMA AtMoved ==
  ASSUME NEW array, NEW other, NEW n \in Nat, NEW j \in 1..n, j + 1 <= n, NEW b,
         MovedDown(array, other, n, j)
  PROVE  Cardinality(At(other, n, j + 1, b)) = Cardinality(At(array, n, j, b))
<1> USE DEF MovedDown
<1> DEFINE rest == {k \in (1..n) \ {j, j + 1} : array[k] = b}
<1>1. IsFiniteSet(rest) /\ j \notin rest /\ j + 1 \notin rest
  <2>1. rest \in SUBSET At(array, n, j, b)
    BY DEF At
  <2>2. QED
    BY <2>1, AtFinite, FS_Subset
<1>2. CASE array[j + 1] = b
  <2>1. At(other, n, j + 1, b) = rest \cup {j}
    BY <1>2 DEF At
  <2>2. At(array, n, j, b) = rest \cup {j + 1}
    BY <1>2 DEF At
  <2> HIDE DEF rest
  <2>3. /\ Cardinality(rest \cup {j}) = Cardinality(rest) + 1
        /\ Cardinality(rest \cup {j + 1}) = Cardinality(rest) + 1
    BY <1>1, FS_AddElement
  <2>4. QED
    BY <2>1, <2>2, <2>3
<1>3. CASE array[j + 1] # b
  <2>1. At(other, n, j + 1, b) = At(array, n, j, b)
    BY <1>3 DEF At
  <2>2. QED
    BY <2>1
<1>4. QED
  BY <1>2, <1>3

\* A hole at the end.
LEMMA AtLast ==
  ASSUME NEW array, NEW n \in Nat, NEW b
  PROVE  At(array, n + 1, n + 1, b) = At(array, n, 0, b)
BY DEF At

(***************************************************************************)
(* Before the first race.                                                  *)
(***************************************************************************)
LEMMA InitUndisturbed == Init => Undisturbed
<1> SUFFICES ASSUME Init PROVE Undisturbed
  OBVIOUS
<1>1. PICK a \in Arrays : slice = [arr |-> a, len |-> 0]
  BY DEF Init
<1>2. \A b \in Blocks : At(heap[a], 0, 0, b) = {}
  BY DEF At
<1>3. Exact(slice.arr, slice.len, 0, Zero)
  <2>1. heap[a] = <<>> /\ Len(<<>>) = 0 /\ \A b \in Blocks : count[b] = 0
    BY EmptySeq, LenProperties DEF Init
  <2>2. \A b \in Blocks : b # Zero
    BY ValuesAssumption
  <2>3. slice.arr = a /\ slice.len = 0
    BY <1>1
  <2>4. \A b \in Blocks : Cardinality(At(heap[a], 0, 0, b)) = 0
    BY <1>2, FS_EmptySet
  <2>5. QED
    BY <2>1, <2>2, <2>3, <2>4 DEF Exact
<1>4. \A t \in Threads : pc[t] = "idle"
  BY DEF Init
<1>5. Alone /\ SliceOK
  BY <1>3, <1>4 DEF Alone, SliceOK, WritePlaces, AllowPlaces, DenyPlaces
<1>6. \A t \in Threads : AppendOK(t) /\ CutOK(t)
  BY <1>4 DEF AppendOK, CutOK
<1>7. \A t \in Threads : TornOK(t) /\ SeesOK(t) /\ KeepsOK(t) /\ DoneOK(t)
  BY <1>4 DEF TornOK, SeesOK, KeepsOK, DoneOK, Whole, ReadPlaces, Answered
<1>8. QED
  BY <1>5, <1>6, <1>7 DEF Undisturbed

\* Who reads and who writes is told by the places.
LEMMA Kinds ==
  ASSUME TypeOK
  PROVE  /\ Under("allow") = {t \in Threads : pc[t] \in AllowPlaces}
         /\ Under("deny") = {t \in Threads : pc[t] \in DenyPlaces}
         /\ Writers = {t \in Threads : pc[t] \in WritePlaces}
         /\ Readers = {t \in Threads : pc[t] \in ReadPlaces}
<1>1. \A t \in Threads : Busy(t) <=> pc[t] \in WritePlaces \cup ReadPlaces
  BY DEF TypeOK, ThreadTypes, Places, Busy, WritePlaces, ReadPlaces, AllowPlaces, DenyPlaces
<1>2. QED
  BY <1>1 DEF TypeOK, PlaceTypes, Under, Writers, Readers, WritePlaces, ReadPlaces, AllowPlaces, DenyPlaces

\* With no allow at work the slice is well formed, and shows nothing but what is listed.
LEMMA SliceShows ==
  ASSUME TypeOK, Undisturbed, \A w \in Threads : pc[w] \notin AllowPlaces
  PROVE  /\ slice.len <= Len(heap[slice.arr])
         /\ \A k \in 1..slice.len : heap[slice.arr][k] \in Listed
<1>1. CASE \E w \in Threads : pc[w] = "move"
  BY <1>1 DEF Undisturbed, CutOK, Exact
<1>2. CASE \A w \in Threads : pc[w] # "move"
  BY <1>2 DEF Undisturbed, SliceOK, AllowPlaces, Exact
<1>3. QED
  BY <1>1, <1>2

\* A goroutine that a step leaves alone.
Same(s) ==
  /\ pc'[s] = pc[s] /\ call'[s] = call[s] /\ status'[s] = status[s] /\ h'[s] = h[s]
  /\ i'[s] = i[s] /\ left'[s] = left[s] /\ found'[s] = found[s]
  /\ seen'[s] = seen[s] /\ kept'[s] = kept[s] /\ moved'[s] = moved[s]

\* A step that touches nothing shared disturbs nobody else.
LEMMA Quiet ==
  ASSUME TypeOK, Undisturbed, NEW t \in Threads, UNCHANGED <<heap, slice, count>>,
         \A s \in Threads \ {t} : Same(s),
         pc[t] \notin AllowPlaces \cup {"move"}, pc'[t] \notin AllowPlaces,
         pc'[t] \in DenyPlaces => pc[t] \in DenyPlaces
  PROVE  /\ Alone' /\ SliceOK'
         /\ \A s \in Threads : AppendOK(s)'
         /\ \A s \in Threads \ {t} :
              CutOK(s)' /\ TornOK(s)' /\ SeesOK(s)' /\ KeepsOK(s)' /\ DoneOK(s)'
<1>1. Alone'
  BY DEF Undisturbed, Alone, Same, WritePlaces
<1>2. SliceOK'
  BY DEF Undisturbed, SliceOK, Same, Exact, Listed, AllowPlaces
<1>3. \A s \in Threads : AppendOK(s)'
  BY DEF Undisturbed, AppendOK, Same, Exact, Listed, AllowPlaces
<1>4. ASSUME NEW s \in Threads \ {t}
      PROVE  CutOK(s)' /\ TornOK(s)' /\ SeesOK(s)' /\ KeepsOK(s)' /\ DoneOK(s)'
  <2>1. CutOK(s)'
    BY DEF Undisturbed, CutOK, Same, Exact, Listed
  <2>2. TornOK(s)'
    BY DEF Undisturbed, TornOK, Same
  <2>3. SeesOK(s)'
    BY DEF Undisturbed, SeesOK, Same, Whole, ArrayOf, Listed
  <2>4. KeepsOK(s)'
    BY DEF Undisturbed, KeepsOK, Same, Whole, Past, Listed, AllowPlaces, DenyPlaces
  <2>5. DoneOK(s)'
    BY DEF Undisturbed, DoneOK, Same, Answered, FindsAll
  <2>6. QED
    BY <2>1, <2>2, <2>3, <2>4, <2>5
<1>5. QED
  BY <1>1, <1>2, <1>3, <1>4

\* What is left to show of such a step: its own part.
LEMMA QuietStep ==
  ASSUME TypeOK, Undisturbed, NEW t \in Threads, UNCHANGED <<heap, slice, count>>,
         \A s \in Threads \ {t} : Same(s),
         pc[t] \notin AllowPlaces \cup {"move"}, pc'[t] \notin AllowPlaces,
         pc'[t] \in DenyPlaces => pc[t] \in DenyPlaces,
         CutOK(t)', TornOK(t)', SeesOK(t)', KeepsOK(t)', DoneOK(t)'
  PROVE  Undisturbed'
<1>1. \A s \in Threads : CutOK(s)' /\ TornOK(s)' /\ SeesOK(s)' /\ KeepsOK(s)' /\ DoneOK(s)'
  BY Quiet
<1>2. QED
  BY <1>1, Quiet DEF Undisturbed

LEMMA EndReadUndisturbed ==
  ASSUME TypeOK, Undisturbed, NEW t \in Threads, EndRead(t)
  PROVE  Undisturbed'
<1> USE DEF EndRead, Reply, shared, history
<1>1. /\ pc[t] = "read" /\ pc'[t] = "reply" /\ i[t] = h[t].len
      /\ status'[t] = IF call[t].kind = "list" THEN 200 ELSE 403
      /\ \A s \in Threads \ {t} : Same(s)
      /\ UNCHANGED <<heap, slice, count, call, h, i, left, found, seen, kept, moved>>
  BY DEF TypeOK, ThreadTypes, Same
<1>2. CutOK(t)' /\ TornOK(t)' /\ SeesOK(t)' /\ KeepsOK(t)'
  BY <1>1 DEF CutOK, TornOK, SeesOK, KeepsOK, Whole, ReadPlaces
<1>3. found[t] \subseteq seen[t]
  <2>1. CASE Zero \in seen[t]
    BY <1>1, <2>1 DEF Undisturbed, TornOK, ReadPlaces, TypeOK, ThreadTypes
  <2>2. CASE Zero \notin seen[t]
    BY <1>1, <2>2 DEF Undisturbed, SeesOK, Whole, ReadPlaces
  <2>3. QED
    BY <2>1, <2>2
<1>4. ASSUME ~moved[t] PROVE FindsAll(t)'
  <2>1. CASE Zero \in seen[t]
    BY <1>1, <2>1 DEF Undisturbed, TornOK, ReadPlaces, FindsAll
  <2>2. CASE Zero \notin seen[t]
    <3>1. /\ \A b \in kept[t] : \E k \in 1..h[t].len : heap[h[t].arr][k] = b
          /\ \A k \in 1..i[t] : Past(t, heap[h[t].arr][k])
      BY <1>1, <1>4, <2>2 DEF Undisturbed, KeepsOK, Whole, ReadPlaces
    <3>2. \A b \in kept[t] : Past(t, b)
      BY <1>1, <3>1
    <3>3. QED
      BY <1>1, <3>2 DEF FindsAll, Past
  <2>3. QED
    BY <2>1, <2>2
<1>5. DoneOK(t)'
  BY <1>1, <1>3, <1>4 DEF DoneOK
<1>6. QED
  BY <1>1, <1>2, <1>5, QuietStep DEF AllowPlaces, DenyPlaces

LEMMA ReadElementUndisturbed ==
  ASSUME TypeOK, Undisturbed, NEW t \in Threads, ReadElement(t)
  PROVE  Undisturbed'
<1> USE ValuesAssumption
<1>1. /\ pc[t] = "read" /\ i[t] < h[t].len
      /\ UNCHANGED <<heap, slice, count, call, h, left, seen, kept, moved>>
  BY DEF ReadElement, shared, history
<1>2. PICK x \in Slot(h[t].arr, i[t] + 1) :
        \/ /\ call[t].kind = "list" /\ pc' = pc /\ status' = status
           /\ i' = [i EXCEPT ![t] = @ + 1] /\ found' = [found EXCEPT ![t] = @ \cup {x}]
        \/ /\ call[t].kind # "list" /\ x = Zero
           /\ pc' = [pc EXCEPT ![t] = "reply"] /\ status' = [status EXCEPT ![t] = 0]
           /\ i' = i /\ found' = found
        \/ /\ call[t].kind # "list" /\ call[t].ip \notin x.addrs /\ pc' = pc /\ status' = status
           /\ i' = [i EXCEPT ![t] = @ + 1] /\ found' = found
        \/ /\ call[t].kind # "list"
           /\ pc' = [pc EXCEPT ![t] = "reply"] /\ status' = [status EXCEPT ![t] = 200]
           /\ i' = i /\ found' = [found EXCEPT ![t] = {x}]
  BY DEF ReadElement, Reply, Panic, Advance
<1>3. i[t] \in Nat /\ h[t].len \in Nat
  BY DEF TypeOK, ThreadTypes
<1>4. x \in Anything
  BY <1>3, SlotType
<1>5. /\ \A s \in Threads \ {t} : Same(s)
      /\ pc'[t] \in {"read", "reply"}
  BY <1>1, <1>2 DEF TypeOK, ThreadTypes, Same
<1>6. CutOK(t)' /\ TornOK(t)'
  <2>1. CutOK(t)'
    BY <1>5 DEF CutOK
  <2>2. QED
    BY <1>1, <2>1 DEF Undisturbed, TornOK, ReadPlaces
<1>7. ASSUME Zero \notin seen[t]
      PROVE  /\ x = heap[h[t].arr][i[t] + 1] /\ x \in seen[t] /\ x # Zero
             /\ found'[t] \subseteq seen[t]
  <2>1. /\ h[t].arr \in Arrays /\ h[t].len <= Len(heap[h[t].arr])
        /\ \A k \in 1..h[t].len : heap[h[t].arr][k] \in seen[t]
        /\ found[t] \subseteq seen[t]
    BY <1>1, <1>7 DEF Undisturbed, SeesOK, Whole, ReadPlaces, ArrayOf
  <2>2. Len(heap[h[t].arr]) \in Nat
    BY <2>1, LenProperties DEF TypeOK, SharedTypes
  <2>3. i[t] + 1 \in 1..h[t].len /\ i[t] + 1 \in 1..Len(heap[h[t].arr])
    BY <1>1, <1>3, <2>1, <2>2
  <2>4. x = heap[h[t].arr][i[t] + 1]
    BY <2>1, <2>3 DEF Slot
  <2>5. x \in seen[t] /\ x # Zero
    BY <1>7, <2>1, <2>3, <2>4
  <2>6. QED
    BY <1>2, <2>1, <2>4, <2>5 DEF TypeOK, ThreadTypes
<1>8. SeesOK(t)'
  <2>1. CASE pc'[t] = "reply"
    BY <2>1 DEF SeesOK, Whole, ReadPlaces
  <2>2. CASE pc'[t] = "read" /\ Zero \notin seen[t]
    <3>1. i'[t] <= h[t].len
      BY <1>1, <1>2, <1>3, <2>2 DEF TypeOK, ThreadTypes
    <3>2. \A w \in Threads : pc'[w] \in AllowPlaces => pc[w] \in AllowPlaces
      BY <1>5 DEF Same, AllowPlaces
    <3>3. QED
      BY <1>1, <1>7, <2>2, <3>1, <3>2 DEF Undisturbed, SeesOK, Whole, ReadPlaces, ArrayOf, Listed
  <2>3. QED
    BY <1>1, <1>5, <2>1, <2>2 DEF SeesOK, Whole
<1>9. KeepsOK(t)'
  <2>1. CASE pc'[t] = "reply"
    BY <2>1 DEF KeepsOK, Whole, ReadPlaces
  <2>2. CASE pc'[t] = "read" /\ Zero \notin seen[t] /\ ~moved[t]
    <3>1. \A w \in Threads : pc'[w] = pc[w]
      BY <1>1, <1>5, <2>2 DEF Same
    <3>2. /\ \A w \in Threads : pc[w] \notin DenyPlaces
          /\ \A b \in kept[t] : \E k \in 1..h[t].len : heap[h[t].arr][k] = b
          /\ \A k \in 1..i[t] : Past(t, heap[h[t].arr][k])
          /\ \A w \in Threads : pc[w] = "write" /\ h[w].arr = h[t].arr => h[t].len <= h[w].len
          /\ (\A w \in Threads : pc[w] # "write") /\ slice.arr = h[t].arr => h[t].len <= slice.len
      BY <1>1, <2>2 DEF Undisturbed, KeepsOK, Whole, ReadPlaces
    <3>3. i'[t] = i[t] + 1 /\ Past(t, x)'
      BY <1>1, <1>2, <2>2 DEF TypeOK, ThreadTypes, Past
    <3>4. found[t] \subseteq found'[t]
      <4>1. \/ found' = [found EXCEPT ![t] = @ \cup {x}]
            \/ found' = found
        BY <1>2, <2>2 DEF TypeOK, ThreadTypes
      <4>2. QED
        BY <4>1 DEF TypeOK, ThreadTypes
    <3>5. \A k \in 1..i'[t] : Past(t, heap[h[t].arr][k])'
      <4>1. SUFFICES ASSUME NEW k \in 1..(i[t] + 1) PROVE Past(t, heap[h[t].arr][k])'
        BY <3>3
      <4>2. CASE k = i[t] + 1
        BY <1>1, <1>7, <2>2, <3>3, <4>2
      <4>3. CASE k # i[t] + 1
        BY <1>1, <1>3, <3>2, <3>4, <4>3 DEF Past
      <4>4. QED
        BY <4>2, <4>3
    <3>6. QED
      BY <1>1, <2>2, <3>1, <3>2, <3>5 DEF KeepsOK
  <2>3. QED
    BY <1>1, <1>5, <2>1, <2>2 DEF KeepsOK, Whole
<1>10. DoneOK(t)'
  <2>1. ASSUME pc'[t] = "reply" PROVE found'[t] \subseteq seen[t]
    <3>1. CASE Zero \in seen[t]
      BY <1>1, <1>2, <1>4, <3>1 DEF Undisturbed, TornOK, ReadPlaces, TypeOK, ThreadTypes
    <3>2. QED
      BY <1>7, <3>1
  <2>2. ASSUME pc'[t] = "reply", ~moved[t] PROVE FindsAll(t)'
    <3>1. CASE Zero \in seen[t]
      BY <1>1, <1>2, <2>2, <3>1 DEF Undisturbed, TornOK, ReadPlaces, FindsAll, TypeOK, ThreadTypes
    <3>2. CASE Zero \notin seen[t]
      BY <1>1, <1>2, <1>7, <2>2, <3>2 DEF FindsAll, TypeOK, ThreadTypes
    <3>3. QED
      BY <3>1, <3>2
  <2>3. QED
    BY <1>1, <2>1, <2>2 DEF DoneOK, Answered
<1>11. QED
  BY <1>1, <1>5, <1>6, <1>8, <1>9, <1>10, QuietStep DEF AllowPlaces, DenyPlaces

LEMMA BeginReadUndisturbed ==
  ASSUME TypeOK, Undisturbed, NEW t \in Threads, IdleOK(t), NEW c \in Calls, BeginRead(t, c)
  PROVE  Undisturbed'
<1> USE ValuesAssumption
<1> DEFINE torn == Under("allow") # {}
<1>1. /\ pc[t] = "idle" /\ pc'[t] = "load" /\ h'[t] = NoSlice /\ left'[t] = {"arr", "len"}
      /\ i'[t] = 0 /\ found'[t] = {} /\ call'[t] = c
      /\ UNCHANGED <<heap, slice, count>>
      /\ seen'[t] = (IF torn THEN Anything ELSE Listed)
      /\ kept'[t] = (IF torn THEN {} ELSE Listed \ {call[s].block : s \in Under("deny")})
      /\ moved'[t] = (Under("deny") # {})
  BY DEF BeginRead, Start, IdleOK, TypeOK, ThreadTypes
<1>2. \A s \in Threads \ {t} : Same(s)
  BY DEF BeginRead, Start, Same, TypeOK, ThreadTypes
<1>3. CutOK(t)' /\ DoneOK(t)'
  BY <1>1 DEF CutOK, DoneOK, Answered
<1>4. TornOK(t)'
  BY <1>1 DEF TornOK, Listed
<1>5. SeesOK(t)'
  <2>1. SUFFICES ASSUME ~torn PROVE SeesOK(t)'
    BY <1>1 DEF SeesOK, Whole, Anything
  <2>2. \A w \in Threads : pc'[w] \notin AllowPlaces
    BY <1>1, <1>2, <2>1, Kinds DEF Same, AllowPlaces
  <2>3. seen'[t] = Listed /\ Listed' = Listed /\ ArrayOf(t)' = slice.arr /\ slice.arr \in Arrays
    BY <1>1, <2>1 DEF Listed, ArrayOf, TypeOK, SharedTypes
  <2>4. h'[t].len = 0 /\ h'[t].len <= Len(heap[slice.arr])
    BY <1>1, <2>3, LenProperties DEF NoSlice, TypeOK, SharedTypes
  <2>5. \A k \in 1..h'[t].len : FALSE
    BY <2>4
  <2>6. left'[t] \subseteq {"arr", "len"} /\ left'[t] # {} /\ "arr" \in left'[t]
    BY <1>1
  <2>7. QED
    BY <1>1, <2>2, <2>3, <2>4, <2>5, <2>6 DEF SeesOK
<1>6. KeepsOK(t)'
  <2>1. ASSUME ~moved'[t] PROVE \A w \in Threads : pc'[w] \notin DenyPlaces
    BY <1>1, <1>2, <2>1, Kinds DEF Same, DenyPlaces
  <2>2. kept'[t] \subseteq Listed'
    BY <1>1 DEF Listed
  <2>3. QED
    BY <1>1, <2>1, <2>2 DEF KeepsOK
<1>7. QED
  BY <1>1, <1>2, <1>3, <1>4, <1>5, <1>6, QuietStep DEF AllowPlaces, DenyPlaces

LEMMA LoadUndisturbed ==
  ASSUME TypeOK, Undisturbed, NEW t \in Threads, NEW f \in {"arr", "len"}, Load(t, f)
  PROVE  Undisturbed'
<1>1. /\ pc[t] = "load" /\ f \in left[t]
      /\ h'[t].arr = (IF f = "arr" THEN slice.arr ELSE h[t].arr)
      /\ h'[t].len = (IF f = "len" THEN slice.len ELSE h[t].len)
      /\ left'[t] = left[t] \ {f}
      /\ pc'[t] = (IF left[t] = {f} THEN "read" ELSE "load")
      /\ UNCHANGED <<heap, slice, count, call, i, found, seen, kept, moved>>
  BY DEF Load, Goto, shared, history, TypeOK, SharedTypes, ThreadTypes
<1>2. \A s \in Threads \ {t} : Same(s)
  BY DEF Load, Goto, shared, history, Same, TypeOK, ThreadTypes
<1>3. CutOK(t)' /\ DoneOK(t)'
  BY <1>1 DEF CutOK, DoneOK, Answered
<1>4. TornOK(t)'
  BY <1>1 DEF Undisturbed, TornOK, ReadPlaces
<1>5. ASSUME Zero \notin seen[t]
      PROVE  /\ Listed \subseteq seen[t]
             /\ \A w \in Threads : pc[w] \notin AllowPlaces
             /\ h[t].len <= Len(heap[slice.arr])
             /\ \A k \in 1..h[t].len : heap[slice.arr][k] \in seen[t]
             /\ found[t] \subseteq seen[t]
             /\ left[t] \subseteq {"arr", "len"} /\ left[t] # {}
             /\ i[t] = 0
             /\ "arr" \notin left[t] => h[t].arr = slice.arr
  BY <1>1, <1>5 DEF Undisturbed, SeesOK, Whole, ReadPlaces, ArrayOf
<1>6. SeesOK(t)'
  <2>1. SUFFICES ASSUME Zero \notin seen[t] PROVE SeesOK(t)'
    BY <1>1 DEF SeesOK, Whole
  <2>2. \A w \in Threads : pc'[w] \notin AllowPlaces
    BY <1>1, <1>2, <1>5, <2>1 DEF Same, AllowPlaces
  <2>3. ArrayOf(t)' = slice.arr /\ slice.arr \in Arrays
    <3>1. CASE left[t] = {f} /\ f = "len"
      BY <1>1, <1>5, <2>1, <3>1 DEF ArrayOf, TypeOK, SharedTypes
    <3>2. CASE left[t] = {f} /\ f = "arr"
      BY <1>1, <3>2 DEF ArrayOf, TypeOK, SharedTypes
    <3>3. CASE left[t] # {f}
      BY <1>1, <3>3 DEF ArrayOf, TypeOK, SharedTypes
    <3>4. QED
      BY <3>1, <3>2, <3>3
  <2>4. h'[t].len <= Len(heap[slice.arr]) /\ \A k \in 1..h'[t].len : heap[slice.arr][k] \in seen[t]
    BY <1>1, <1>5, <2>1, SliceShows
  <2>5. Listed' = Listed
    BY <1>1 DEF Listed
  <2>6. pc'[t] = "load" =>
          /\ left'[t] \subseteq {"arr", "len"} /\ left'[t] # {}
          /\ "arr" \notin left'[t] => h'[t].arr = slice.arr
    BY <1>1, <1>5, <2>1
  <2>7. pc'[t] = "read" => i'[t] <= h'[t].len
    BY <1>1, <1>5, <2>1 DEF TypeOK, SharedTypes, ThreadTypes
  <2>8. QED
    BY <1>1, <1>5, <2>1, <2>2, <2>3, <2>4, <2>5, <2>6, <2>7 DEF SeesOK
<1>7. KeepsOK(t)'
  <2>1. SUFFICES ASSUME Zero \notin seen[t], ~moved[t] PROVE KeepsOK(t)'
    BY <1>1 DEF KeepsOK, Whole
  <2>2. /\ \A w \in Threads : pc[w] \notin DenyPlaces
        /\ kept[t] \subseteq Listed
        /\ "len" \notin left[t] => h[t].len = slice.len
    BY <1>1, <2>1 DEF Undisturbed, KeepsOK, Whole, ReadPlaces
  <2>3. \A w \in Threads : pc'[w] \notin WritePlaces
    BY <1>1, <1>2, <1>5, <2>1, <2>2 DEF Same, WritePlaces, AllowPlaces, DenyPlaces
  <2>4. "len" \notin left'[t] => h'[t].len = slice.len
    BY <1>1, <2>2
  <2>5. ASSUME pc'[t] = "read"
        PROVE  /\ h'[t].len = slice.len /\ h'[t].arr = slice.arr
               /\ \A b \in kept[t] : \E k \in 1..slice.len : heap[slice.arr][k] = b
    <3>1. left[t] = {f}
      BY <1>1, <2>5
    <3>2. h'[t].len = slice.len /\ h'[t].arr = slice.arr
      BY <1>1, <1>5, <2>1, <2>4, <3>1
    <3>3. Exact(slice.arr, slice.len, 0, Zero)
      BY <1>5, <2>1, <2>2 DEF Undisturbed, SliceOK, AllowPlaces, DenyPlaces
    <3>4. ASSUME NEW b \in kept[t] PROVE \E k \in 1..slice.len : heap[slice.arr][k] = b
      <4>1. b \in Blocks /\ b # Zero /\ count[b] > 0
        BY <2>2, ValuesAssumption DEF Listed
      <4>2. Cardinality(At(heap[slice.arr], slice.len, 0, b)) > 0
        BY <3>3, <4>1 DEF Exact, TypeOK, SharedTypes
      <4>3. QED
        BY <4>2, AtCounts DEF TypeOK, SharedTypes
    <3>5. QED
      BY <3>2, <3>4
  <2>6. QED
    <3>1. \A k \in 1..i'[t] : FALSE
      BY <1>1, <1>5, <2>1
    <3>2. Listed' = Listed
      BY <1>1 DEF Listed
    <3>3. slice.len <= slice.len
      BY DEF TypeOK, SharedTypes
    <3>4. QED
      BY <1>1, <2>2, <2>3, <2>4, <2>5, <3>1, <3>2, <3>3 DEF KeepsOK, WritePlaces, AllowPlaces, DenyPlaces
<1>8. QED
  BY <1>1, <1>2, <1>3, <1>4, <1>6, <1>7, QuietStep DEF AllowPlaces, DenyPlaces

\* A deny is no reader.
LEMMA DenyReadsNothing ==
  ASSUME NEW t \in Threads, pc'[t] \notin ReadPlaces, call'[t].kind \in {"allow", "deny"}
  PROVE  TornOK(t)' /\ SeesOK(t)' /\ KeepsOK(t)' /\ DoneOK(t)'
BY DEF TornOK, SeesOK, KeepsOK, DoneOK, Whole, Answered

LEMMA EndScanUndisturbed ==
  ASSUME TypeOK, Undisturbed, NEW t \in Threads, EndScan(t)
  PROVE  Undisturbed'
<1>1. /\ pc[t] = "scan" /\ pc'[t] = "reply" /\ call'[t].kind = "deny"
      /\ UNCHANGED <<heap, slice, count>>
      /\ \A s \in Threads \ {t} : Same(s)
  BY DEF EndScan, Reply, shared, history, Same, TypeOK, ThreadTypes, PlaceTypes
<1>2. CutOK(t)'
  BY <1>1 DEF CutOK
<1>3. TornOK(t)' /\ SeesOK(t)' /\ KeepsOK(t)' /\ DoneOK(t)'
  BY <1>1, DenyReadsNothing DEF ReadPlaces
<1>4. QED
  BY <1>1, <1>2, <1>3, QuietStep DEF AllowPlaces, DenyPlaces

LEMMA ScanElementUndisturbed ==
  ASSUME TypeOK, Undisturbed, NEW t \in Threads, ScanElement(t)
  PROVE  Undisturbed'
<1>1. /\ pc[t] = "scan" /\ i[t] < h[t].len /\ call'[t].kind = "deny"
      /\ UNCHANGED <<heap, slice, count, call, h, left, found, seen, kept, moved>>
  BY DEF ScanElement, shared, history, TypeOK, PlaceTypes
<1>2. \/ pc' = [pc EXCEPT ![t] = "reply"] /\ status' = [status EXCEPT ![t] = 0] /\ i' = i
      \/ /\ call[t].block \in Slot(slice.arr, i[t] + 1)
         /\ pc' = [pc EXCEPT ![t] = "cut"] /\ status' = status /\ i' = i
      \/ pc' = pc /\ status' = status /\ i' = [i EXCEPT ![t] = @ + 1]
  BY DEF ScanElement, Panic, Reply, Goto, Advance
<1>3. /\ \A s \in Threads \ {t} : Same(s)
      /\ pc'[t] \in {"reply", "cut", "scan"}
  BY <1>1, <1>2 DEF Same, TypeOK, ThreadTypes
<1>4. h[t].len = slice.len /\ i[t] \in Nat /\ slice.len \in Nat /\ slice.arr \in Arrays
  BY <1>1 DEF Undisturbed, CutOK, TypeOK, SharedTypes, ThreadTypes
<1>5. \A w \in Threads : pc[w] \notin AllowPlaces
  BY <1>1 DEF Undisturbed, Alone, WritePlaces, AllowPlaces, DenyPlaces
<1>6. CutOK(t)'
  <2>1. CASE pc'[t] = "cut"
    <3>1. call[t].block \in Slot(slice.arr, i[t] + 1) /\ i'[t] = i[t]
      BY <1>1, <1>2, <2>1 DEF TypeOK, ThreadTypes
    <3>2. i[t] + 1 \in 1..Len(heap[slice.arr])
      <4>1. slice.len <= Len(heap[slice.arr]) /\ Len(heap[slice.arr]) \in Nat
        BY <1>4, <1>5, SliceShows, LenProperties DEF TypeOK, SharedTypes
      <4>2. QED
        BY <1>1, <1>4, <4>1
    <3>3. heap[slice.arr][i[t] + 1] = call[t].block
      BY <1>4, <3>1, <3>2 DEF Slot
    <3>4. QED
      BY <1>1, <1>4, <2>1, <3>1, <3>3 DEF CutOK
  <2>2. CASE pc'[t] = "scan"
    <3>1. i'[t] = i[t] + 1
      BY <1>1, <1>2, <2>2 DEF TypeOK, ThreadTypes
    <3>2. QED
      BY <1>1, <1>4, <2>2, <3>1 DEF CutOK
  <2>3. CASE pc'[t] = "reply"
    BY <2>3 DEF CutOK
  <2>4. QED
    BY <1>3, <2>1, <2>2, <2>3
<1>7. TornOK(t)' /\ SeesOK(t)' /\ KeepsOK(t)' /\ DoneOK(t)'
  BY <1>1, <1>3, DenyReadsNothing DEF ReadPlaces
<1>8. QED
  BY <1>1, <1>3, <1>6, <1>7, QuietStep DEF AllowPlaces, DenyPlaces

LEMMA CutUndisturbed ==
  ASSUME TypeOK, Undisturbed, NEW t \in Threads, Cut(t)
  PROVE  Undisturbed'
<1>1. /\ pc[t] = "cut" /\ call'[t].kind = "deny"
      /\ UNCHANGED <<heap, slice, count, call, i, left, found, seen, kept, moved>>
  BY DEF Cut, shared, history, TypeOK, PlaceTypes
<1>2. /\ i[t] \in Nat /\ slice.len \in Nat /\ i[t] < slice.len
      /\ heap[slice.arr][i[t] + 1] = call[t].block
  BY <1>1 DEF Undisturbed, CutOK, TypeOK, SharedTypes, ThreadTypes
<1>3. /\ pc' = [pc EXCEPT ![t] = "move"] /\ status' = status
      /\ h' = [h EXCEPT ![t] = [arr |-> slice.arr, len |-> slice.len - 1]]
  BY <1>2 DEF Cut, Panic, Goto
<1>4. /\ \A s \in Threads \ {t} : Same(s)
      /\ pc'[t] = "move" /\ h'[t].arr = slice.arr /\ h'[t].len = slice.len - 1
  BY <1>1, <1>3 DEF Same, TypeOK, ThreadTypes
<1>5. Exact(slice.arr, slice.len, 0, Zero)
  BY <1>1 DEF Undisturbed, Alone, SliceOK, WritePlaces, AllowPlaces, DenyPlaces
<1>6. Exact(slice.arr, slice.len, i[t] + 1, call[t].block)
  <2>1. i[t] + 1 \in 1..slice.len
    BY <1>2
  <2>2. \A b \in Blocks : b # Zero
    BY ValuesAssumption
  <2>3. ASSUME NEW b \in Blocks
        PROVE Cardinality(At(heap[slice.arr], slice.len, i[t] + 1, b))
                = count[b] - (IF b = call[t].block THEN 1 ELSE 0)
    <3>1. Cardinality(At(heap[slice.arr], slice.len, 0, b)) = count[b]
      BY <1>5, <2>2 DEF Exact, TypeOK, SharedTypes
    <3>2. QED
      BY <1>2, <2>1, <3>1, AtPunched
  <2>4. QED
    BY <1>5, <2>3 DEF Exact
<1>7. CutOK(t)'
  <2>1. Exact(slice.arr, slice.len, i[t] + 1, call[t].block)'
    BY <1>1, <1>6 DEF Exact, Listed
  <2>2. QED
    BY <1>1, <1>2, <1>4, <2>1 DEF CutOK
<1>8. TornOK(t)' /\ SeesOK(t)' /\ KeepsOK(t)' /\ DoneOK(t)'
  BY <1>1, <1>4, DenyReadsNothing DEF ReadPlaces
<1>9. QED
  BY <1>1, <1>4, <1>7, <1>8, QuietStep DEF AllowPlaces, DenyPlaces

LEMMA MoveUndisturbed ==
  ASSUME TypeOK, Undisturbed, NEW t \in Threads, Move(t)
  PROVE  Undisturbed'
<1> DEFINE a == slice.arr
           n == slice.len
           j == i[t] + 1
<1>1. /\ pc[t] = "move" /\ i[t] < h[t].len /\ call[t].kind = "deny"
      /\ i' = [i EXCEPT ![t] = @ + 1]
      /\ UNCHANGED <<slice, count, pc, call, status, h, left, found, seen, kept, moved>>
  BY DEF Move, Advance, history, TypeOK, PlaceTypes
<1>2. /\ h[t].arr = a /\ h[t].len = n - 1
      /\ Exact(a, n, j, call[t].block)
  BY <1>1 DEF Undisturbed, CutOK
<1>3. a \in Arrays /\ n \in Nat /\ i[t] \in Nat /\ heap[a] \in Seq(Anything) /\ Len(heap[a]) \in Nat
  BY LenProperties DEF TypeOK, SharedTypes, ThreadTypes
<1>4. j \in 1..n /\ j + 1 \in 1..n /\ j + 1 <= n /\ i'[t] = i[t] + 1 /\ n <= Len(heap[a])
  BY <1>1, <1>2, <1>3 DEF TypeOK, ThreadTypes, Exact
<1>5. heap' = [heap EXCEPT ![a] = [heap[a] EXCEPT ![j] = heap[a][j + 1]]]
  <2>1. PICK x \in Slot(a, i[t] + 2) : heap' = [heap EXCEPT ![a] = [heap[a] EXCEPT ![j] = x]]
    BY <1>2 DEF Move
  <2>2. i[t] + 2 = j + 1 /\ j + 1 \in 1..Len(heap[a])
    BY <1>3, <1>4
  <2>3. Slot(a, i[t] + 2) = {heap[a][j + 1]}
    BY <1>3, <2>2 DEF Slot
  <2>4. QED
    BY <2>1, <2>3
<1>6. heap[a][j + 1] \in Anything
  BY <1>3, <1>4, ElementOfSeq
<1>7. /\ Len(heap'[a]) = Len(heap[a])
      /\ \A k \in 1..Len(heap[a]) : heap'[a][k] = IF k = j THEN heap[a][j + 1] ELSE heap[a][k]
      /\ \A b \in Arrays \ {a} : heap'[b] = heap[b]
  <2>1. heap'[a] = [heap[a] EXCEPT ![j] = heap[a][j + 1]]
    BY <1>3, <1>5 DEF TypeOK, SharedTypes
  <2>2. \A b \in Arrays \ {a} : heap'[b] = heap[b]
    BY <1>5 DEF TypeOK, SharedTypes
  <2>3. QED
    BY <1>3, <1>6, <2>1, <2>2, UpdateType
<1>8. Listed' = Listed /\ heap[a][j + 1] \in Listed
  BY <1>1, <1>2, <1>4 DEF Listed, Exact
<1>9. \A s \in Threads : pc[s] \in WritePlaces => s = t
  BY <1>1 DEF Undisturbed, Alone, WritePlaces, DenyPlaces
<1> HIDE DEF a, n, j
<1>10. Exact(slice.arr, slice.len, i[t] + 1, call[t].block)'
  <2>1. \A k \in 1..n : heap'[a][k] = IF k = j THEN heap[a][j + 1] ELSE heap[a][k]
    BY <1>3, <1>4, <1>7
  <2>2. \A k \in 1..n : heap'[a][k] \in Listed'
    BY <1>2, <1>8, <2>1 DEF Exact
  <2>2a. MovedDown(heap[a], heap'[a], n, j)
    BY <2>1 DEF MovedDown
  <2>3. \A b \in Blocks : Cardinality(At(heap'[a], n, j + 1, b)) = Cardinality(At(heap[a], n, j, b))
    BY <1>3, <1>4, <2>2a, AtMoved
  <2>4. j + 1 = i'[t] + 1
    BY <1>4 DEF j
  <2>5. /\ n <= Len(heap'[a])
        /\ \A b \in Blocks : Cardinality(At(heap'[a], n, i'[t] + 1, b))
                              = count[b] - (IF b = call[t].block THEN 1 ELSE 0)
    BY <1>2, <1>4, <1>7, <2>3, <2>4 DEF Exact
  <2>6. slice'.arr = a /\ slice'.len = n
    BY <1>1 DEF a, n
  <2>7. QED
    BY <1>1, <2>2, <2>5, <2>6 DEF Exact
<1>11. Alone' /\ SliceOK'
  BY <1>1 DEF Undisturbed, Alone, SliceOK
<1>12. \A s \in Threads : AppendOK(s)'
  BY <1>1, <1>9 DEF AppendOK, WritePlaces, AllowPlaces
<1>13. \A s \in Threads : CutOK(s)'
  <2>1. SUFFICES ASSUME NEW s \in Threads PROVE CutOK(s)'
    OBVIOUS
  <2>2. CASE s # t
    BY <1>1, <1>9, <2>2 DEF CutOK, WritePlaces, DenyPlaces
  <2>3. CASE s = t
    <3>1. h[t].arr = slice.arr /\ h[t].len = slice.len - 1 /\ i[t] + 1 <= h[t].len
      BY <1>1, <1>2, <1>3 DEF a, n, TypeOK, ThreadTypes
    <3>2. QED
      BY <1>1, <1>4, <1>10, <2>3, <3>1 DEF CutOK
  <2>4. QED
    BY <2>2, <2>3
<1>14. \A s \in Threads : TornOK(s)' /\ KeepsOK(s)' /\ DoneOK(s)'
  <2>1. \A s \in Threads : TornOK(s)' /\ DoneOK(s)'
    BY <1>1 DEF Undisturbed, TornOK, DoneOK, Answered, FindsAll
  <2>2. \A s \in Threads : Whole(s) => moved[s]
    BY <1>1 DEF Undisturbed, KeepsOK, DenyPlaces
  <2>3. QED
    BY <1>1, <2>1, <2>2 DEF KeepsOK, Whole
<1>15. ASSUME NEW s \in Threads PROVE SeesOK(s)'
  <2>1. SUFFICES ASSUME Whole(s) PROVE SeesOK(s)'
    BY <1>1 DEF SeesOK, Whole
  <2>2. SeesOK(s) /\ ArrayOf(s)' = ArrayOf(s) /\ s # t
    BY <1>1, <2>1 DEF Undisturbed, ArrayOf, Whole, ReadPlaces
  <2>3. i'[s] = i[s]
    BY <1>1, <2>2 DEF TypeOK, ThreadTypes
  <2>4. /\ ArrayOf(s) \in Arrays /\ h[s].len <= Len(heap[ArrayOf(s)])
        /\ \A k \in 1..h[s].len : heap[ArrayOf(s)][k] \in seen[s]
        /\ Listed \subseteq seen[s]
    BY <2>1, <2>2 DEF SeesOK
  <2>5. /\ Len(heap'[ArrayOf(s)]) = Len(heap[ArrayOf(s)])
        /\ \A k \in 1..h[s].len : heap'[ArrayOf(s)][k] \in seen[s]
    <3>1. CASE ArrayOf(s) = a
      <4>1. h[s].len \in Nat
        BY DEF TypeOK, ThreadTypes
      <4>2. \A k \in 1..h[s].len : k \in 1..Len(heap[a])
        BY <1>3, <2>4, <3>1, <4>1
      <4>3. QED
        BY <1>7, <1>8, <2>4, <3>1, <4>2
    <3>2. CASE ArrayOf(s) # a
      BY <1>7, <2>4, <3>2
    <3>3. QED
      BY <3>1, <3>2
  <2>6. QED
    BY <1>1, <1>8, <2>1, <2>2, <2>3, <2>5 DEF SeesOK, Whole
<1>16. QED
  BY <1>11, <1>12, <1>13, <1>14, <1>15 DEF Undisturbed

LEMMA ShortenUndisturbed ==
  ASSUME TypeOK, Undisturbed, NEW t \in Threads, Shorten(t)
  PROVE  Undisturbed'
<1> DEFINE a == slice.arr
           n == slice.len - 1
           gone == call[t].block
<1>1. /\ pc[t] = "move" /\ i[t] = h[t].len /\ call[t].kind = "deny" /\ slice' = h[t]
      /\ pc'[t] = "reply" /\ count' = [count EXCEPT ![gone] = @ - 1]
      /\ UNCHANGED <<heap, call, h, i, left, found, seen, kept, moved>>
  BY DEF Shorten, Reply, TypeOK, PlaceTypes, ThreadTypes
<1>2. \A s \in Threads \ {t} : Same(s)
  BY DEF Shorten, Reply, Same, TypeOK, ThreadTypes
<1>3. h[t].arr = a /\ h[t].len = n /\ Exact(a, slice.len, slice.len, gone)
  <2>1. /\ h[t].arr = a /\ h[t].len = slice.len - 1
        /\ Exact(slice.arr, slice.len, i[t] + 1, call[t].block)
    BY <1>1 DEF Undisturbed, CutOK
  <2>2. i[t] + 1 = slice.len
    BY <1>1, <2>1 DEF TypeOK, SharedTypes, ThreadTypes
  <2>3. QED
    BY <2>1, <2>2
<1>4. /\ a \in Arrays /\ n \in Nat /\ n + 1 = slice.len /\ gone \in Blocks
      /\ heap[a] \in Seq(Anything) /\ Len(heap[a]) \in Nat
  <2>1. a \in Arrays /\ slice.len \in Nat /\ h[t].len \in Nat
    BY DEF TypeOK, SharedTypes, ThreadTypes
  <2>2. call[t] \in Calls
    BY <1>1 DEF TypeOK, ThreadTypes, PlaceTypes
  <2>3. QED
    BY <1>1, <1>3, <2>1, <2>2, CallsAssumption, LenProperties DEF TypeOK, SharedTypes
<1>5. slice'.arr = a /\ slice'.len = n
  BY <1>1, <1>3
<1>6. \A b \in Blocks : count'[b] = count[b] - (IF b = gone THEN 1 ELSE 0) /\ count'[b] \in Int
  BY <1>1 DEF TypeOK, SharedTypes
<1>7. Listed' \subseteq Listed
  BY <1>6 DEF Listed, TypeOK, SharedTypes
<1> HIDE DEF a, n, gone
<1>8. \A b \in Blocks : Cardinality(At(heap[a], n, 0, b)) = count'[b]
  BY <1>3, <1>4, <1>6, AtLast DEF Exact
<1>9. \A k \in 1..n : heap[a][k] \in Listed'
  <2>1. SUFFICES ASSUME NEW k \in 1..n PROVE heap[a][k] \in Listed'
    OBVIOUS
  <2>2. heap[a][k] \in Blocks
    BY <1>3, <1>4 DEF Exact, Listed
  <2>3. Cardinality(At(heap[a], n, 0, heap[a][k])) > 0
    BY <1>4, AtCounts
  <2>4. QED
    BY <1>8, <2>2, <2>3 DEF Listed
<1>10. SliceOK'
  <2>1. n <= Len(heap[a])
    BY <1>3, <1>4 DEF Exact
  <2>2. \A b \in Blocks : b # Zero
    BY ValuesAssumption
  <2>3. \A b \in Blocks : count'[b] - (IF b = Zero THEN 1 ELSE 0) = count'[b]
    BY <1>6, <2>2
  <2>4. Exact(slice.arr, slice.len, 0, Zero)'
    BY <1>1, <1>5, <1>8, <1>9, <2>1, <2>3 DEF Exact
  <2>5. QED
    BY <2>4 DEF SliceOK
<1>11. \A s \in Threads : pc'[s] \notin WritePlaces
  BY <1>1, <1>2 DEF Undisturbed, Alone, Same, WritePlaces, AllowPlaces, DenyPlaces
<1>12. Alone' /\ \A s \in Threads : AppendOK(s)' /\ CutOK(s)'
  BY <1>11 DEF Alone, AppendOK, CutOK, WritePlaces, AllowPlaces, DenyPlaces
<1>13. TornOK(t)' /\ SeesOK(t)' /\ KeepsOK(t)' /\ DoneOK(t)'
  BY <1>1, DenyReadsNothing DEF ReadPlaces
<1>14. ASSUME NEW s \in Threads \ {t} PROVE TornOK(s)' /\ SeesOK(s)' /\ KeepsOK(s)' /\ DoneOK(s)'
  <2>1. TornOK(s)' /\ DoneOK(s)'
    BY <1>2 DEF Undisturbed, Same, TornOK, DoneOK, Answered, FindsAll
  <2>2. KeepsOK(s)'
    <3>1. Whole(s) => moved[s]
      BY <1>1 DEF Undisturbed, KeepsOK, DenyPlaces
    <3>2. QED
      BY <1>2, <3>1 DEF KeepsOK, Whole, Same
  <2>3. SeesOK(s)'
    <3>1. ArrayOf(s)' = ArrayOf(s)
      BY <1>2, <1>5 DEF ArrayOf, Same, a
    <3>2. SeesOK(s) /\ \A w \in Threads : pc'[w] \notin AllowPlaces
      BY <1>11 DEF Undisturbed, WritePlaces
    <3>3. slice'.arr = slice.arr
      BY <1>5 DEF a
    <3>4. QED
      BY <1>1, <1>2, <1>7, <3>1, <3>2, <3>3 DEF SeesOK, Whole, Same
  <2>4. QED
    BY <2>1, <2>2, <2>3
<1>15. QED
  BY <1>10, <1>12, <1>13, <1>14 DEF Undisturbed

LEMMA BeginAllowUndisturbed ==
  ASSUME TypeOK, Undisturbed, Writers = {}, NEW t \in Threads, NEW c \in Calls, BeginAllow(t, c)
  PROVE  Undisturbed'
<1> USE ValuesAssumption
<1>1. /\ pc[t] = "idle" /\ pc'[t] = "append" /\ call'[t] = c /\ c.kind = "allow" /\ c.block \in Blocks
      /\ UNCHANGED <<heap, slice, count, status, found, i, moved>>
  BY CallsAssumption DEF BeginAllow, Start, TypeOK, ThreadTypes
<1>2. \A s \in Threads \ {t} :
        /\ pc'[s] = pc[s] /\ call'[s] = call[s] /\ h'[s] = h[s] /\ left'[s] = left[s]
        /\ seen'[s] = IF pc[s] = "load" THEN Anything
                      ELSE IF pc[s] = "read" THEN seen[s] \cup {c.block} ELSE seen[s]
        /\ kept'[s] = IF pc[s] = "load" THEN {} ELSE kept[s]
  BY DEF BeginAllow, Start, TypeOK, ThreadTypes
<1>3. \A s \in Threads : pc[s] \notin WritePlaces
  BY Kinds
<1>4. \A s \in Threads : pc'[s] \in WritePlaces => s = t
  BY <1>2, <1>3
<1>5. Alone' /\ \A s \in Threads : AppendOK(s)' /\ CutOK(s)'
  BY <1>1, <1>4 DEF Alone, AppendOK, CutOK, WritePlaces, AllowPlaces, DenyPlaces
<1>6. SliceOK'
  BY <1>1, <1>3 DEF Undisturbed, SliceOK, Exact, Listed, WritePlaces, AllowPlaces, DenyPlaces
<1>7. TornOK(t)' /\ SeesOK(t)' /\ KeepsOK(t)' /\ DoneOK(t)'
  BY <1>1, DenyReadsNothing DEF ReadPlaces
<1>8. ASSUME NEW s \in Threads \ {t} PROVE TornOK(s)' /\ SeesOK(s)' /\ KeepsOK(s)' /\ DoneOK(s)'
  <2>1. CASE pc[s] = "load"
    BY <1>2, <2>1 DEF TornOK, SeesOK, KeepsOK, DoneOK, Whole, Answered, Anything
  <2>2. CASE pc[s] \notin ReadPlaces
    <3>1. /\ pc'[s] = pc[s] /\ call'[s] = call[s] /\ seen'[s] = seen[s] /\ kept'[s] = kept[s]
          /\ UNCHANGED <<status, found, moved>>
      BY <1>1, <1>2, <2>2 DEF ReadPlaces
    <3>2. DoneOK(s)'
      BY <3>1 DEF Undisturbed, DoneOK, Answered, FindsAll
    <3>3. QED
      BY <2>2, <3>1, <3>2 DEF TornOK, SeesOK, KeepsOK, Whole
  <2>3. CASE pc[s] = "read"
    <3>1. /\ pc'[s] = "read" /\ call'[s] = call[s] /\ h'[s] = h[s] /\ kept'[s] = kept[s]
          /\ seen'[s] = seen[s] \cup {c.block}
      BY <1>1, <1>2, <2>3
    <3>1a. (Zero \in seen'[s] <=> Zero \in seen[s]) /\ seen[s] \subseteq seen'[s] /\ c.block \in seen'[s]
      BY <1>1, <3>1
    <3>2. TornOK(s)'
      <4>1. SUFFICES ASSUME Zero \in seen[s] PROVE seen'[s] = Anything /\ kept'[s] = {}
        BY <3>1a DEF TornOK
      <4>2. seen[s] = Anything /\ kept[s] = {}
        BY <2>3, <4>1 DEF Undisturbed, TornOK, ReadPlaces
      <4>3. c.block \in Anything
        BY <1>1 DEF Anything
      <4>4. QED
        BY <3>1, <4>2, <4>3
    <3>3. SeesOK(s)'
      <4>1. SUFFICES ASSUME Zero \notin seen[s] PROVE SeesOK(s)'
        BY <3>1a DEF SeesOK, Whole
      <4>2. SeesOK(s) /\ Whole(s)
        BY <2>3, <4>1 DEF Undisturbed, Whole, ReadPlaces
      <4>3. ArrayOf(s) = h[s].arr /\ ArrayOf(s)' = h[s].arr
        BY <2>3, <3>1 DEF ArrayOf
      <4>4. \A w \in Threads : pc'[w] \in AllowPlaces => w = t
        BY <1>4 DEF WritePlaces
      <4>5. Listed' = Listed
        BY <1>1 DEF Listed
      <4>6. QED
        BY <1>1, <2>3, <3>1, <3>1a, <4>2, <4>3, <4>4, <4>5 DEF SeesOK
    <3>4. KeepsOK(s)'
      <4>1. SUFFICES ASSUME Zero \notin seen'[s], ~moved[s] PROVE KeepsOK(s)'
        BY <1>1 DEF KeepsOK, Whole
      <4>2. KeepsOK(s) /\ Whole(s)
        BY <2>3, <3>1a, <4>1 DEF Undisturbed, Whole, ReadPlaces
      <4>3. \A w \in Threads : pc'[w] \notin DenyPlaces /\ pc'[w] # "write"
        BY <1>1, <1>4 DEF WritePlaces, AllowPlaces, DenyPlaces
      <4>4. \A w \in Threads : pc[w] # "write"
        BY <1>3 DEF WritePlaces, AllowPlaces
      <4>5. /\ \A b \in kept[s] : \E k \in 1..h[s].len : heap[h[s].arr][k] = b
            /\ \A k \in 1..i[s] : Past(s, heap[h[s].arr][k])
            /\ slice.arr = h[s].arr => h[s].len <= slice.len
        BY <2>3, <4>1, <4>2, <4>4 DEF KeepsOK
      <4>6. QED
        BY <1>1, <3>1, <4>3, <4>5 DEF KeepsOK, Past
    <3>5. DoneOK(s)'
      BY <3>1 DEF DoneOK, Answered
    <3>6. QED
      BY <3>2, <3>3, <3>4, <3>5
  <2>4. QED
    BY <2>1, <2>2, <2>3 DEF ReadPlaces
<1>9. QED
  BY <1>5, <1>6, <1>7, <1>8 DEF Undisturbed

LEMMA BeginDenyUndisturbed ==
  ASSUME TypeOK, Undisturbed, Writers = {}, NEW t \in Threads, IdleOK(t),
         NEW c \in Calls, BeginDeny(t, c)
  PROVE  Undisturbed'
<1>1. /\ pc[t] = "idle" /\ pc'[t] = "scan" /\ call'[t] = c /\ c.kind = "deny"
      /\ h'[t].len = slice.len /\ i[t] = 0
      /\ UNCHANGED <<heap, slice, count, status, found, i, seen>>
  BY DEF BeginDeny, Start, IdleOK, TypeOK, ThreadTypes
<1>2. \A s \in Threads \ {t} :
        /\ pc'[s] = pc[s] /\ call'[s] = call[s] /\ h'[s] = h[s] /\ left'[s] = left[s]
        /\ pc[s] \in ReadPlaces => moved'[s] /\ kept'[s] = kept[s] \ {c.block}
        /\ pc[s] \notin ReadPlaces => moved'[s] = moved[s] /\ kept'[s] = kept[s]
  <2>1. \A s \in Threads : s \in Readers <=> pc[s] \in ReadPlaces
    BY Kinds
  <2>2. /\ kept' = [s \in Threads |-> IF s \in Readers THEN kept[s] \ {c.block} ELSE kept[s]]
        /\ moved' = [s \in Threads |-> moved[s] \/ s \in Readers]
    BY DEF BeginDeny
  <2>3. \A s \in Threads : pc[s] \in ReadPlaces => moved'[s] /\ kept'[s] = kept[s] \ {c.block}
    BY <2>1, <2>2
  <2>4. \A s \in Threads : pc[s] \notin ReadPlaces => moved'[s] = moved[s] /\ kept'[s] = kept[s]
    BY <2>1, <2>2, Zenon DEF TypeOK, ThreadTypes
  <2>5. QED
    BY <2>3, <2>4 DEF BeginDeny, Start, TypeOK, ThreadTypes
<1>3. \A s \in Threads : pc[s] \notin WritePlaces
  BY Kinds
<1>4. \A s \in Threads : pc'[s] \in WritePlaces => s = t
  BY <1>2, <1>3
<1>5. Alone' /\ \A s \in Threads : AppendOK(s)'
  BY <1>1, <1>4 DEF Alone, AppendOK, WritePlaces, AllowPlaces
<1>6. SliceOK'
  BY <1>1, <1>3 DEF Undisturbed, SliceOK, Exact, Listed, WritePlaces, AllowPlaces, DenyPlaces
<1>7. \A s \in Threads : CutOK(s)'
  <2>1. CutOK(t)'
    BY <1>1 DEF CutOK, TypeOK, SharedTypes
  <2>2. \A s \in Threads \ {t} : CutOK(s)'
    BY <1>4 DEF CutOK, WritePlaces, DenyPlaces
  <2>3. QED
    BY <2>1, <2>2
<1>8. TornOK(t)' /\ SeesOK(t)' /\ KeepsOK(t)' /\ DoneOK(t)'
  BY <1>1, DenyReadsNothing DEF ReadPlaces
<1>9. ASSUME NEW s \in Threads \ {t} PROVE TornOK(s)' /\ SeesOK(s)' /\ KeepsOK(s)' /\ DoneOK(s)'
  <2>1. TornOK(s)' /\ KeepsOK(s)'
    BY <1>1, <1>2 DEF Undisturbed, TornOK, KeepsOK, Whole
  <2>2. SeesOK(s)'
    BY <1>1, <1>2, <1>4 DEF Undisturbed, SeesOK, Whole, ArrayOf, Listed, WritePlaces, AllowPlaces
  <2>3. DoneOK(s)'
    BY <1>1, <1>2 DEF Undisturbed, DoneOK, Answered, FindsAll, ReadPlaces
  <2>4. QED
    BY <2>1, <2>2, <2>3
<1>10. QED
  BY <1>5, <1>6, <1>7, <1>8, <1>9 DEF Undisturbed

LEMMA ReturnUndisturbed ==
  ASSUME TypeOK, Undisturbed, NEW t \in Threads, Return(t)
  PROVE  Undisturbed'
<1>1. /\ pc[t] = "reply" /\ pc'[t] = "idle"
      /\ \A s \in Threads \ {t} : Same(s)
      /\ UNCHANGED <<slice, count>>
  BY DEF Return, Same, TypeOK, ThreadTypes
<1>2. \A a \in Arrays : InUse(a) => heap'[a] = heap[a]
  BY DEF Return
<1>3. slice.arr \in Arrays /\ heap'[slice.arr] = heap[slice.arr]
  BY <1>2 DEF InUse, TypeOK, SharedTypes
<1>4. \A s \in Threads :
        pc[s] \in ReadPlaces \cup WritePlaces /\ h[s].arr \in Arrays => heap'[h[s].arr] = heap[h[s].arr]
  BY <1>2 DEF InUse, Busy, ReadPlaces, WritePlaces, AllowPlaces, DenyPlaces
<1>5. Alone' /\ SliceOK'
  BY <1>1, <1>3 DEF Undisturbed, Alone, SliceOK, Same, Exact, Listed, WritePlaces, AllowPlaces, DenyPlaces
<1>6. AppendOK(t)' /\ CutOK(t)' /\ TornOK(t)' /\ SeesOK(t)' /\ KeepsOK(t)' /\ DoneOK(t)'
  BY <1>1 DEF AppendOK, CutOK, TornOK, SeesOK, KeepsOK, DoneOK, Whole, ReadPlaces, Answered
<1>7. ASSUME NEW s \in Threads \ {t}
      PROVE  AppendOK(s)' /\ CutOK(s)' /\ TornOK(s)' /\ SeesOK(s)' /\ KeepsOK(s)' /\ DoneOK(s)'
  <2>1. AppendOK(s)'
    <3>1. SUFFICES ASSUME pc[s] = "write" PROVE AppendOK(s)'
      BY <1>1 DEF AppendOK, Same
    <3>2. AppendOK(s) /\ heap'[h[s].arr] = heap[h[s].arr]
      BY <1>4, <3>1 DEF Undisturbed, AppendOK, WritePlaces, AllowPlaces
    <3>3. QED
      BY <1>1, <3>1, <3>2 DEF AppendOK, Same, Exact, Listed
  <2>2. CutOK(s)'
    BY <1>1, <1>3 DEF Undisturbed, CutOK, Same, Exact, Listed
  <2>3. TornOK(s)' /\ DoneOK(s)'
    BY <1>1 DEF Undisturbed, TornOK, DoneOK, Same, Answered, FindsAll
  <2>4. ASSUME Whole(s)
        PROVE  ArrayOf(s)' = ArrayOf(s) /\ heap'[ArrayOf(s)] = heap[ArrayOf(s)] /\ SeesOK(s)
    <3>1. SeesOK(s) /\ ArrayOf(s) \in Arrays
      BY <2>4 DEF Undisturbed, SeesOK
    <3>2. QED
      BY <1>1, <1>3, <1>4, <2>4, <3>1 DEF ArrayOf, Whole, Same, ReadPlaces
  <2>5. SeesOK(s)'
    <3>1. \A w \in Threads : pc'[w] \in AllowPlaces => w # t
      BY <1>1 DEF AllowPlaces
    <3>2. QED
      BY <1>1, <2>4, <3>1 DEF SeesOK, Whole, Same, Listed
  <2>6. KeepsOK(s)'
    <3>1. SUFFICES ASSUME Whole(s), ~moved[s] PROVE KeepsOK(s)'
      BY <1>1 DEF KeepsOK, Whole, Same
    <3>2. KeepsOK(s)
      BY DEF Undisturbed
    <3>3. \A w \in Threads : pc'[w] \in WritePlaces => w # t
      BY <1>1 DEF WritePlaces, AllowPlaces, DenyPlaces
    <3>4. pc[s] = "read" => heap'[h[s].arr] = heap[h[s].arr]
      BY <2>4, <3>1 DEF ArrayOf
    <3>5. (\A w \in Threads : pc'[w] # "write") => (\A w \in Threads : pc[w] # "write")
      BY <1>1 DEF Same
    <3>6. QED
      BY <1>1, <3>1, <3>2, <3>3, <3>4, <3>5 DEF KeepsOK, Same, Past, Listed, WritePlaces, AllowPlaces, DenyPlaces
  <2>7. QED
    BY <2>1, <2>2, <2>3, <2>5, <2>6
<1>8. QED
  BY <1>5, <1>6, <1>7 DEF Undisturbed

LEMMA LoadAndGrowUndisturbed ==
  ASSUME TypeOK, Undisturbed, NEW t \in Threads, LoadAndGrow(t)
  PROVE  Undisturbed'
<1> USE ValuesAssumption
<1>1. /\ pc[t] = "append" /\ pc'[t] = "write" /\ call[t].kind = "allow"
      /\ UNCHANGED <<slice, count, call, status, i, found, seen, kept, moved>>
  BY DEF LoadAndGrow, Goto, history, TypeOK, ThreadTypes, PlaceTypes
<1>2. \A s \in Threads \ {t} : Same(s)
  BY DEF LoadAndGrow, Goto, history, Same, TypeOK, ThreadTypes
<1>3. \A s \in Threads \ {t} : pc[s] \notin WritePlaces
  BY <1>1 DEF Undisturbed, Alone, WritePlaces, AllowPlaces
<1>4. Exact(slice.arr, slice.len, 0, Zero)
  BY <1>1, <1>3 DEF Undisturbed, SliceOK, WritePlaces, AllowPlaces, DenyPlaces
<1>5. /\ slice.arr \in Arrays /\ slice.len \in Nat /\ heap[slice.arr] \in Seq(Anything)
      /\ Len(heap[slice.arr]) \in Nat /\ slice.len <= Len(heap[slice.arr])
  BY <1>4, LenProperties DEF Exact, TypeOK, SharedTypes
\* The array it will write to: the old one, or a copy.
<1> DEFINE Prepared ==
      /\ h'[t].arr \in Arrays /\ h'[t].len = slice.len
      /\ "len" \in left'[t] /\ "element" \in left'[t]
      /\ "arr" \notin left'[t] => slice.arr = h'[t].arr
      /\ slice.len < Len(heap'[h'[t].arr]) /\ Len(heap'[h'[t].arr]) \in Nat
      /\ \A k \in 1..slice.len : heap'[h'[t].arr][k] = heap[slice.arr][k]
      /\ \A s \in Threads \ {t} :
           pc[s] = "read" /\ h[s].arr \in Arrays =>
             /\ heap'[h[s].arr] = heap[h[s].arr]
             /\ h'[t].arr = h[s].arr => slice.arr = h[s].arr
<1>6. Prepared
  <2>1. CASE /\ slice.len < Len(heap[slice.arr]) /\ h' = [h EXCEPT ![t] = slice]
             /\ left' = [left EXCEPT ![t] = {"len", "element"}] /\ heap' = heap
    <3>1. h'[t] = slice /\ left'[t] = {"len", "element"}
      BY <2>1 DEF TypeOK, ThreadTypes
    <3>2. QED
      BY <1>5, <2>1, <3>1
  <2>2. ASSUME NEW a \in Arrays, slice.len >= Len(heap[slice.arr]), ~InUse(a),
               heap' = [heap EXCEPT ![a] = Grown(heap[slice.arr])],
               h' = [h EXCEPT ![t] = [arr |-> a, len |-> slice.len]],
               left' = [left EXCEPT ![t] = {"arr", "len", "element"}]
        PROVE  Prepared
    <3>1. h'[t].arr = a /\ h'[t].len = slice.len /\ left'[t] = {"arr", "len", "element"}
      BY <2>2 DEF TypeOK, ThreadTypes
    <3>2. heap'[a] = Grown(heap[slice.arr])
      BY <2>2 DEF TypeOK, SharedTypes
    <3>3. slice.len = Len(heap[slice.arr])
      BY <1>5, <2>2
    <3>3a. Grown(heap[slice.arr]) \in Seq(Anything)
      BY <1>5, GrownType
    <3>3b. Len(heap'[a]) \in Nat
      BY <3>2, <3>3a, LenProperties
    <3>4. slice.len < Len(heap'[a]) /\ \A k \in 1..slice.len : heap'[a][k] = heap[slice.arr][k]
      BY <1>5, <3>2, <3>3, GrownType
    <3>5. ASSUME NEW s \in Threads \ {t}, pc[s] = "read", h[s].arr \in Arrays
          PROVE  heap'[h[s].arr] = heap[h[s].arr] /\ h[s].arr # a
      <4>1. h[s].arr # a
        BY <2>2, <3>5 DEF InUse, Busy
      <4>2. QED
        BY <2>2, <3>5, <4>1 DEF TypeOK, SharedTypes
    <3>6. QED
      BY <3>1, <3>3b, <3>4, <3>5
  <2>3. QED
    BY <2>1, <2>2 DEF LoadAndGrow
<1>7. AppendOK(t)'
  <2>1. SameUpTo(heap[slice.arr], heap'[h'[t].arr], slice.len)
    BY <1>6 DEF SameUpTo
  <2>2. \A b \in Blocks : At(heap'[h'[t].arr], slice.len, 0, b) = At(heap[slice.arr], slice.len, 0, b)
    BY <1>5, <2>1, AtSame
  <2>3. \A k \in 1..slice.len : heap'[h'[t].arr][k] \in Listed
    BY <1>4, <1>6 DEF Exact
  <2>4. slice.len <= Len(heap'[h'[t].arr])
    BY <1>5, <1>6
  <2>5. Exact(h[t].arr, h[t].len, 0, Zero)'
    <3>1. \A b \in Blocks : Cardinality(At(heap'[h'[t].arr], slice.len, 0, b))
                              = count'[b] - (IF b = Zero THEN 1 ELSE 0)
      BY <1>1, <1>4, <2>2 DEF Exact
    <3>2. Listed' = Listed
      BY <1>1 DEF Listed
    <3>3. QED
      BY <1>6, <2>3, <2>4, <3>1, <3>2 DEF Exact
  <2>6. QED
    BY <1>1, <1>6, <2>5 DEF AppendOK
<1>8. \A s \in Threads \ {t} : AppendOK(s)'
  BY <1>2, <1>3 DEF AppendOK, Same, WritePlaces, AllowPlaces
<1>9. \A s \in Threads : CutOK(s)'
  <2>1. \A s \in Threads : pc'[s] \notin DenyPlaces
    BY <1>1, <1>2, <1>3 DEF Same, WritePlaces, DenyPlaces
  <2>2. QED
    BY <2>1 DEF CutOK, DenyPlaces
<1>10. Alone' /\ SliceOK'
  BY <1>1, <1>2, <1>3 DEF Alone, SliceOK, Same, WritePlaces, AllowPlaces, DenyPlaces
<1>11. TornOK(t)' /\ SeesOK(t)' /\ KeepsOK(t)' /\ DoneOK(t)'
  BY <1>1, DenyReadsNothing DEF ReadPlaces
<1>12. ASSUME NEW s \in Threads \ {t} PROVE TornOK(s)' /\ SeesOK(s)' /\ KeepsOK(s)' /\ DoneOK(s)'
  <2>1. TornOK(s)' /\ DoneOK(s)'
    BY <1>2 DEF Undisturbed, TornOK, DoneOK, Same, Answered, FindsAll
  <2>2. ASSUME Whole(s)
        PROVE  /\ pc[s] = "read" /\ SeesOK(s) /\ h[s].arr \in Arrays
               /\ ArrayOf(s) = h[s].arr /\ ArrayOf(s)' = h[s].arr
               /\ heap'[h[s].arr] = heap[h[s].arr]
               /\ h'[t].arr = h[s].arr => slice.arr = h[s].arr
    <3>1. SeesOK(s) /\ pc[s] = "read"
      BY <1>1, <2>2 DEF Undisturbed, SeesOK, AllowPlaces
    <3>2. ArrayOf(s) = h[s].arr /\ ArrayOf(s)' = h[s].arr /\ h[s].arr \in Arrays
      BY <1>2, <2>2, <3>1 DEF ArrayOf, Same, SeesOK
    <3>3. QED
      BY <1>6, <3>1, <3>2
  <2>3. SeesOK(s)'
    <3>1. SUFFICES ASSUME Whole(s) PROVE SeesOK(s)'
      BY <1>2 DEF SeesOK, Whole, Same
    <3>2. \A w \in Threads : pc'[w] \in AllowPlaces => pc[w] \in AllowPlaces
      BY <1>1, <1>2 DEF Same, AllowPlaces
    <3>3. Listed' = Listed
      BY <1>1 DEF Listed
    <3>4. QED
      BY <1>1, <1>2, <2>2, <3>1, <3>2, <3>3 DEF SeesOK, Same
  <2>4. KeepsOK(s)'
    <3>1. SUFFICES ASSUME Whole(s), ~moved[s] PROVE KeepsOK(s)'
      BY <1>2 DEF KeepsOK, Whole, Same
    <3>2. KeepsOK(s)
      BY DEF Undisturbed
    <3>3. \A w \in Threads : pc'[w] \notin DenyPlaces
      BY <1>1, <1>2, <1>3 DEF Same, WritePlaces, DenyPlaces
    <3>4. \A w \in Threads : pc[w] # "write" /\ (pc'[w] = "write" => w = t)
      BY <1>1, <1>2, <1>3 DEF Same, WritePlaces, AllowPlaces
    <3>5. /\ \A b \in kept[s] : \E k \in 1..h[s].len : heap[h[s].arr][k] = b
          /\ \A k \in 1..i[s] : Past(s, heap[h[s].arr][k])
          /\ slice.arr = h[s].arr => h[s].len <= slice.len
      BY <2>2, <3>1, <3>2, <3>4 DEF KeepsOK
    <3>6. h'[t].arr = h[s].arr => h[s].len <= h'[t].len
      BY <1>6, <2>2, <3>1, <3>5
    <3>7. QED
      BY <1>1, <1>2, <2>2, <3>1, <3>3, <3>4, <3>5, <3>6 DEF KeepsOK, Same, Past
  <2>5. QED
    BY <2>1, <2>3, <2>4
<1>13. QED
  BY <1>7, <1>8, <1>9, <1>10, <1>11, <1>12 DEF Undisturbed

LEMMA WriteUndisturbed ==
  ASSUME TypeOK, Undisturbed, NEW t \in Threads, NEW what \in {"arr", "len", "element"}, Write(t, what)
  PROVE  Undisturbed'
<1> USE ValuesAssumption
<1> DEFINE a == h[t].arr
           n == h[t].len
           block == call[t].block
<1>1. /\ pc[t] = "write" /\ what \in left[t] /\ call[t].kind = "allow" /\ block \in Blocks
      /\ left'[t] = left[t] \ {what}
      /\ UNCHANGED <<call, h, i, found, seen, kept, moved>>
  <2>1. call[t] \in Calls /\ call[t].kind = "allow" /\ pc[t] = "write"
    BY DEF Write, TypeOK, ThreadTypes, PlaceTypes
  <2>2. QED
    BY <2>1, CallsAssumption DEF Write, TypeOK, ThreadTypes
<1>2. \A s \in Threads \ {t} : Same(s)
  BY DEF Write, Reply, Same, TypeOK, ThreadTypes
<1>3. /\ a \in Arrays /\ n \in Nat /\ n < Len(heap[a]) /\ Exact(a, n, 0, Zero)
      /\ "arr" \notin left[t] => slice.arr = a
      /\ slice.len = IF "len" \in left[t] THEN n ELSE n + 1
      /\ "element" \notin left[t] => heap[a][n + 1] = block
  BY <1>1 DEF Undisturbed, AppendOK, TypeOK, ThreadTypes
<1>4. \A s \in Threads \ {t} : pc[s] \notin WritePlaces
  BY <1>1 DEF Undisturbed, Alone, WritePlaces, AllowPlaces
<1>5. /\ heap[a] \in Seq(Anything) /\ Len(heap[a]) \in Nat /\ n + 1 <= Len(heap[a])
      /\ n + 1 \in 1..Len(heap[a])
  <2>1. heap[a] \in Seq(Anything) /\ Len(heap[a]) \in Nat
    BY <1>3, LenProperties DEF TypeOK, SharedTypes
  <2>2. QED
    BY <1>3, <2>1
<1> HIDE DEF a, n, block
<1>6. /\ Len(heap'[a]) = Len(heap[a])
      /\ \A k \in 1..Len(heap[a]) : k # n + 1 => heap'[a][k] = heap[a][k]
      /\ heap'[a][n + 1] = IF what = "element" THEN block ELSE heap[a][n + 1]
      /\ \A b \in Arrays \ {a} : heap'[b] = heap[b]
  <2>1. CASE what = "element"
    <3>1. heap' = [heap EXCEPT ![a] = [heap[a] EXCEPT ![n + 1] = block]]
      BY <2>1 DEF Write, a, n, block
    <3>2. heap'[a] = [heap[a] EXCEPT ![n + 1] = block] /\ \A b \in Arrays \ {a} : heap'[b] = heap[b]
      BY <1>3, <3>1 DEF TypeOK, SharedTypes
    <3>3. block \in Anything
      BY <1>1 DEF Anything
    <3>4. QED
      BY <1>5, <2>1, <3>2, <3>3, UpdateType
  <2>2. CASE what # "element"
    BY <2>2 DEF Write
  <2>3. QED
    BY <2>1, <2>2
<1>7. /\ "arr" \notin left'[t] => slice'.arr = a
      /\ slice'.len = IF "len" \in left'[t] THEN n ELSE n + 1
      /\ "element" \notin left'[t] => heap'[a][n + 1] = block
  <2>1. CASE what = "arr"
    <3>1. slice'.arr = a /\ slice'.len = slice.len
      BY <2>1 DEF Write, a, TypeOK, SharedTypes
    <3>2. QED
      BY <1>1, <1>3, <1>6, <2>1, <3>1
  <2>2. CASE what = "len"
    <3>1. slice'.arr = slice.arr /\ slice'.len = n + 1
      BY <2>2 DEF Write, n, TypeOK, SharedTypes
    <3>2. QED
      BY <1>1, <1>3, <1>6, <2>2, <3>1
  <2>3. CASE what = "element"
    <3>1. slice' = slice
      BY <2>3 DEF Write
    <3>2. QED
      BY <1>1, <1>3, <1>6, <2>3, <3>1
  <2>4. QED
    BY <2>1, <2>2, <2>3
<1>8. /\ \A k \in 1..n : heap'[a][k] = heap[a][k] /\ heap[a][k] \in Listed
      /\ \A b \in Blocks : Cardinality(At(heap'[a], n, 0, b)) = count[b]
  <2>1. \A k \in 1..n : k \in 1..Len(heap[a]) /\ k # n + 1
    BY <1>3, <1>5
  <2>2. \A k \in 1..n : heap'[a][k] = heap[a][k]
    BY <1>6, <2>1
  <2>3. SameUpTo(heap[a], heap'[a], n)
    BY <2>2 DEF SameUpTo
  <2>4. \A b \in Blocks : At(heap'[a], n, 0, b) = At(heap[a], n, 0, b)
    BY <1>3, <2>3, AtSame
  <2>5. \A b \in Blocks : b # Zero /\ count[b] \in Int
    BY DEF TypeOK, SharedTypes
  <2>6. QED
    BY <1>3, <2>2, <2>4, <2>5 DEF Exact
\* The last of its writes puts the block on the list.
<1>9. \/ /\ left[t] = {what} /\ pc' = [pc EXCEPT ![t] = "reply"]
         /\ count' = [count EXCEPT ![block] = @ + 1]
      \/ left[t] # {what} /\ pc' = pc /\ count' = count
  BY DEF Write, Reply, block
<1>10. \A b \in Blocks : count[b] \in Nat
  <2>1. \A b \in Blocks : Cardinality(At(heap'[a], n, 0, b)) \in Nat
    BY <1>3, AtFinite
  <2>2. QED
    BY <1>8, <2>1
<1>11. Listed \subseteq Listed' /\ Listed' \subseteq Listed \cup {block}
  BY <1>1, <1>9, <1>10 DEF Listed, TypeOK, SharedTypes
<1>12. SliceOK'
  <2>1. CASE left[t] # {what}
    BY <1>1, <1>9, <2>1 DEF SliceOK
  <2>2. CASE left[t] = {what}
    <3>1. slice'.arr = a /\ slice'.len = n + 1 /\ heap'[a][n + 1] = block
      BY <1>1, <1>7, <2>2
    <3>2. \A b \in Blocks : count'[b] = count[b] + (IF b = block THEN 1 ELSE 0)
      BY <1>1, <1>9, <1>10, <2>2 DEF TypeOK, SharedTypes
    <3>3. \A b \in Blocks : Cardinality(At(heap'[a], n + 1, 0, b)) = count'[b]
      BY <1>3, <1>8, <3>1, <3>2, AtAppended
    <3>4. block \in Listed'
      BY <1>1, <1>10, <3>2 DEF Listed
    <3>5. \A k \in 1..(n + 1) : heap'[a][k] \in Listed'
      BY <1>3, <1>8, <1>11, <3>1, <3>4
    <3>6. \A b \in Blocks : count'[b] - (IF b = Zero THEN 1 ELSE 0) = count'[b]
      BY <1>10, <3>2
    <3>7. Exact(slice.arr, slice.len, 0, Zero)'
      BY <1>5, <1>6, <3>1, <3>3, <3>5, <3>6 DEF Exact
    <3>8. QED
      BY <3>7 DEF SliceOK
  <2>3. QED
    BY <2>1, <2>2
<1>13. \A s \in Threads : pc'[s] \in WritePlaces => s = t /\ pc'[s] = "write" /\ count' = count
  BY <1>1, <1>2, <1>4, <1>9 DEF Same, WritePlaces, AllowPlaces, DenyPlaces, TypeOK, ThreadTypes
<1>14. Alone' /\ \A s \in Threads : CutOK(s)'
  BY <1>13 DEF Alone, CutOK, WritePlaces, DenyPlaces
<1>15. \A s \in Threads : AppendOK(s)'
  <2>1. SUFFICES ASSUME pc'[t] = "write", count' = count PROVE AppendOK(t)'
    BY <1>13 DEF AppendOK, WritePlaces, AllowPlaces
  <2>2. \A b \in Blocks : count[b] - (IF b = Zero THEN 1 ELSE 0) = count[b]
    BY <1>10
  <2>3. h'[t].arr = a /\ h'[t].len = n /\ call'[t].block = block
    BY <1>1 DEF a, n, block
  <2>4. \A k \in 1..n : heap'[a][k] \in Listed'
    BY <1>8, <1>11
  <2>5. Exact(h[t].arr, h[t].len, 0, Zero)'
    BY <1>3, <1>5, <1>6, <1>8, <2>1, <2>2, <2>3, <2>4 DEF Exact
  <2>6. QED
    BY <1>3, <1>6, <1>7, <2>3, <2>5 DEF AppendOK
<1>16. TornOK(t)' /\ SeesOK(t)' /\ KeepsOK(t)' /\ DoneOK(t)'
  <2>1. pc'[t] \notin ReadPlaces
    BY <1>1, <1>9 DEF ReadPlaces, TypeOK, ThreadTypes
  <2>2. QED
    BY <1>1, <2>1, DenyReadsNothing
<1>17. ASSUME NEW s \in Threads \ {t} PROVE TornOK(s)' /\ SeesOK(s)' /\ KeepsOK(s)' /\ DoneOK(s)'
  <2>1. TornOK(s)' /\ DoneOK(s)'
    BY <1>2 DEF Undisturbed, TornOK, DoneOK, Same, Answered, FindsAll
  <2>2. ASSUME Whole(s)
        PROVE  /\ pc[s] = "read" /\ SeesOK(s) /\ block \in seen[s]
               /\ ArrayOf(s) = h[s].arr /\ ArrayOf(s)' = h[s].arr /\ h[s].arr \in Arrays
               /\ h[s].len \in Nat /\ h[s].len <= Len(heap[h[s].arr])
               /\ \A k \in 1..h[s].len : heap[h[s].arr][k] \in seen[s]
               /\ Len(heap[h[s].arr]) \in Nat
    <3>1. SeesOK(s) /\ pc[s] = "read" /\ block \in seen[s]
      BY <1>1, <2>2 DEF Undisturbed, SeesOK, AllowPlaces, block
    <3>2. ArrayOf(s) = h[s].arr /\ ArrayOf(s)' = h[s].arr
      BY <1>2, <3>1 DEF ArrayOf, Same
    <3>3. /\ h[s].arr \in Arrays /\ h[s].len <= Len(heap[h[s].arr])
          /\ \A k \in 1..h[s].len : heap[h[s].arr][k] \in seen[s]
      BY <2>2, <3>1, <3>2 DEF SeesOK
    <3>4. h[s].len \in Nat /\ Len(heap[h[s].arr]) \in Nat
      BY <3>3, LenProperties DEF TypeOK, SharedTypes, ThreadTypes
    <3>5. QED
      BY <3>1, <3>2, <3>3, <3>4
  <2>3. SeesOK(s)'
    <3>1. SUFFICES ASSUME Whole(s) PROVE SeesOK(s)'
      BY <1>2 DEF SeesOK, Whole, Same
    <3>2. \A w \in Threads : pc'[w] \in AllowPlaces => pc[w] \in AllowPlaces
      BY <1>1, <1>13 DEF WritePlaces, AllowPlaces
    <3>3. /\ h[s].len <= Len(heap'[h[s].arr])
          /\ \A k \in 1..h[s].len : heap'[h[s].arr][k] \in seen[s]
      <4>1. CASE h[s].arr # a
        BY <1>6, <2>2, <3>1, <4>1
      <4>2. CASE h[s].arr = a
        <5>1. \A k \in 1..h[s].len : k \in 1..Len(heap[a])
          BY <2>2, <3>1, <4>2
        <5>2. heap'[a][n + 1] = block \/ heap'[a][n + 1] = heap[a][n + 1]
          BY <1>6
        <5>3. QED
          BY <1>6, <2>2, <3>1, <4>2, <5>1, <5>2
      <4>3. QED
        BY <4>1, <4>2
    <3>4. Listed' \subseteq seen[s]
      BY <1>11, <2>2, <3>1 DEF SeesOK
    <3>5. QED
      BY <1>1, <1>2, <2>2, <3>1, <3>2, <3>3, <3>4 DEF SeesOK, Same
  <2>4. KeepsOK(s)'
    <3>1. SUFFICES ASSUME Whole(s), ~moved[s] PROVE KeepsOK(s)'
      BY <1>2 DEF KeepsOK, Whole, Same
    <3>2. KeepsOK(s)
      BY DEF Undisturbed
    <3>3. \A w \in Threads : pc'[w] \notin DenyPlaces /\ (pc'[w] = "write" => w = t)
      BY <1>13 DEF WritePlaces, AllowPlaces, DenyPlaces
    <3>4. /\ \A b \in kept[s] : \E k \in 1..h[s].len : heap[h[s].arr][k] = b
          /\ \A k \in 1..i[s] : Past(s, heap[h[s].arr][k])
          /\ a = h[s].arr => h[s].len <= n
      BY <1>1, <2>2, <3>1, <3>2 DEF KeepsOK, a, n
    <3>5. \A k \in 1..h[s].len : heap'[h[s].arr][k] = heap[h[s].arr][k]
      <4>1. CASE h[s].arr # a
        BY <1>6, <2>2, <3>1, <4>1
      <4>2. CASE h[s].arr = a
        <5>1. \A k \in 1..h[s].len : k \in 1..n
          BY <1>3, <2>2, <3>1, <3>4, <4>2
        <5>2. QED
          BY <1>8, <4>2, <5>1
      <4>3. QED
        BY <4>1, <4>2
    <3>6. i[s] \in Nat /\ i[s] <= h[s].len
      BY <2>2, <3>1 DEF SeesOK, TypeOK, ThreadTypes
    <3>7. (\A w \in Threads : pc'[w] # "write") /\ slice'.arr = h[s].arr => h[s].len <= slice'.len
      <4>1. SUFFICES ASSUME pc'[t] # "write", slice'.arr = h[s].arr PROVE h[s].len <= slice'.len
        OBVIOUS
      <4>2. left'[t] = {}
        BY <1>1, <1>9, <4>1
      <4>3. slice'.arr = a /\ slice'.len = n + 1
        BY <1>7, <4>2
      <4>4. QED
        BY <1>3, <2>2, <3>1, <3>4, <4>1, <4>3
    <3>8. /\ \A b \in kept[s] : \E k \in 1..h[s].len : heap'[h[s].arr][k] = b
          /\ \A k \in 1..i[s] : Past(s, heap'[h[s].arr][k])
      <4>1. \A k \in 1..i[s] : k \in 1..h[s].len
        BY <2>2, <3>1, <3>6
      <4>2. QED
        BY <3>4, <3>5, <4>1
    <3>9. h'[t].arr = a /\ h'[t].len = n
      BY <1>1 DEF a, n
    <3>10. QED
      BY <1>1, <1>2, <2>2, <3>1, <3>3, <3>4, <3>7, <3>8, <3>9 DEF KeepsOK, Same, Past
  <2>5. QED
    BY <2>1, <2>3, <2>4
<1>18. QED
  BY <1>12, <1>14, <1>15, <1>16, <1>17 DEF Undisturbed

(***************************************************************************)
(* The steps together, and the theorems.                                   *)
(***************************************************************************)
LEMMA StepUndisturbed ==
  ASSUME TypeOK, \A t \in Threads : IdleOK(t), Undisturbed, Next, ~raced'
  PROVE  Undisturbed'
<1>1. PICK t \in Threads : Step(t)
  BY DEF Next
<1>2. ASSUME NEW c \in Calls, BeginAllow(t, c) PROVE Undisturbed'
  <2>1. Writers = {}
    BY <1>2 DEF BeginAllow
  <2>2. QED
    BY <1>2, <2>1, BeginAllowUndisturbed
<1>3. ASSUME NEW c \in Calls, BeginDeny(t, c) PROVE Undisturbed'
  <2>1. Writers = {}
    BY <1>3 DEF BeginDeny
  <2>2. QED
    BY <1>3, <2>1, BeginDenyUndisturbed
<1>4. ASSUME NEW c \in Calls, BeginRead(t, c) PROVE Undisturbed'
  BY <1>4, BeginReadUndisturbed
<1>5. ASSUME NEW f \in {"arr", "len"}, Load(t, f) PROVE Undisturbed'
  BY <1>5, LoadUndisturbed
<1>6. CASE ReadElement(t) \/ EndRead(t)
  BY <1>6, ReadElementUndisturbed, EndReadUndisturbed
<1>7. CASE LoadAndGrow(t)
  BY <1>7, LoadAndGrowUndisturbed
<1>8. ASSUME NEW what \in {"arr", "len", "element"}, Write(t, what) PROVE Undisturbed'
  BY <1>8, WriteUndisturbed
<1>9. CASE ScanElement(t) \/ EndScan(t)
  BY <1>9, ScanElementUndisturbed, EndScanUndisturbed
<1>10. CASE Cut(t) \/ Move(t) \/ Shorten(t)
  BY <1>10, CutUndisturbed, MoveUndisturbed, ShortenUndisturbed
<1>11. CASE Return(t)
  BY <1>11, ReturnUndisturbed
<1>12. QED
  BY <1>1, <1>2, <1>3, <1>4, <1>5, <1>6, <1>7, <1>8, <1>9, <1>10, <1>11 DEF Step

\* A race is not forgotten.
LEMMA RacesStay ==
  ASSUME Next, raced
  PROVE  raced'
<1>1. PICK t \in Threads : Step(t)
  BY DEF Next
<1>2. ASSUME NEW c \in Calls, BeginRead(t, c) \/ BeginAllow(t, c) \/ BeginDeny(t, c) PROVE raced'
  BY <1>2, Zenon DEF BeginRead, BeginAllow, BeginDeny
<1>3. ASSUME NEW f \in {"arr", "len"}, Load(t, f) PROVE raced'
  BY <1>3, Zenon DEF Load, history
<1>4. ASSUME NEW what \in {"arr", "len", "element"}, Write(t, what) PROVE raced'
  BY <1>4, Zenon DEF Write
<1>5. CASE ReadElement(t) \/ EndRead(t) \/ LoadAndGrow(t)
  BY <1>5, Zenon DEF ReadElement, EndRead, LoadAndGrow, history
<1>6. CASE ScanElement(t) \/ EndScan(t) \/ Cut(t) \/ Move(t) \/ Shorten(t) \/ Return(t)
  BY <1>6, Zenon DEF ScanElement, EndScan, Cut, Move, Shorten, Return, history
<1>7. QED
  BY <1>1, <1>2, <1>3, <1>4, <1>5, <1>6, Zenon DEF Step

LEMMA Invariance == Spec => []AllowlistInv
<1>1. Init => AllowlistInv
  BY InitType, InitUndisturbed DEF AllowlistInv
<1>2. ASSUME AllowlistInv, Next PROVE AllowlistInv'
  <2>1. TypeOK' /\ (\A t \in Threads : IdleOK(t))'
    BY <1>2, StepType DEF AllowlistInv
  <2>2. ASSUME ~raced' PROVE Undisturbed'
    <3>1. ~raced
      BY <1>2, <2>2, RacesStay
    <3>2. QED
      BY <1>2, <2>2, <3>1, StepUndisturbed DEF AllowlistInv
  <2>3. QED
    BY <2>1, <2>2 DEF AllowlistInv
<1>3. ASSUME AllowlistInv, UNCHANGED vars PROVE AllowlistInv'
  <2>1. /\ UNCHANGED <<heap, slice, pc, call, status, h, i, left, found>>
        /\ UNCHANGED <<count, seen, kept, moved, raced>>
    BY <1>3 DEF vars
  <2>2. TypeOK' /\ (\A t \in Threads : IdleOK(t))'
    BY <1>3, <2>1 DEF AllowlistInv, TypeOK, SharedTypes, ThreadTypes, PlaceTypes, IdleOK
  <2>3. ASSUME Undisturbed PROVE Alone' /\ SliceOK' /\ \A t \in Threads : AppendOK(t)' /\ CutOK(t)'
    BY <2>1, <2>3 DEF Undisturbed, Alone, SliceOK, AppendOK, CutOK, Exact, Listed
  <2>4. ASSUME Undisturbed, NEW t \in Threads
        PROVE  TornOK(t)' /\ SeesOK(t)' /\ KeepsOK(t)' /\ DoneOK(t)'
    <3>1. TornOK(t)' /\ SeesOK(t)'
      BY <2>1, <2>4 DEF Undisturbed, TornOK, SeesOK, Whole, ArrayOf, Listed
    <3>2. KeepsOK(t)'
      BY <2>1, <2>4 DEF Undisturbed, KeepsOK, Whole, Past, Listed
    <3>3. DoneOK(t)'
      BY <2>1, <2>4 DEF Undisturbed, DoneOK, Answered, FindsAll
    <3>4. QED
      BY <3>1, <3>2, <3>3
  <2>5. QED
    BY <1>3, <2>1, <2>2, <2>3, <2>4 DEF AllowlistInv, Undisturbed
<1>4. QED
  BY <1>1, <1>2, <1>3, PTL DEF Spec

\* Every variable keeps its type, after races too.
THEOREM TypeInvariant == Spec => []TypeOK
<1>1. AllowlistInv => TypeOK
  BY DEF AllowlistInv
<1>2. QED
  BY <1>1, Invariance, PTL

\* Between writes that did not overlap, the slice holds each block as often as
\* AllowAddress appended it and DenyAddress did not cut it out.
THEOREM SliceStaysExact == Spec => []SliceIsExact
<1>1. AllowlistInv => SliceIsExact
  <2> SUFFICES ASSUME AllowlistInv, ~raced, Writers = {}
               PROVE  /\ slice.len <= Len(heap[slice.arr])
                      /\ \A k \in 1..slice.len : heap[slice.arr][k] \in Blocks
                      /\ \A b \in Blocks : Copies(b) = count[b]
    BY DEF SliceIsExact
  <2>1. \A t \in Threads : pc[t] \notin WritePlaces
    BY Kinds DEF AllowlistInv
  <2>2. Exact(slice.arr, slice.len, 0, Zero)
    BY <2>1 DEF AllowlistInv, Undisturbed, SliceOK, WritePlaces, AllowPlaces, DenyPlaces
  <2>3. slice.len <= Len(heap[slice.arr]) /\ \A k \in 1..slice.len : heap[slice.arr][k] \in Blocks
    BY <2>2 DEF Exact, Listed
  <2>4. ASSUME NEW b \in Blocks PROVE Copies(b) = count[b]
    <3>1. At(heap[slice.arr], slice.len, 0, b) = {k \in 1..slice.len : heap[slice.arr][k] = b}
      BY DEF At
    <3>2. b # Zero /\ count[b] \in Int
      BY ValuesAssumption DEF AllowlistInv, TypeOK, SharedTypes
    <3>3. Copies(b) = Cardinality(At(heap[slice.arr], slice.len, 0, b))
      BY <3>1, Zenon DEF Copies
    <3>4. Cardinality(At(heap[slice.arr], slice.len, 0, b)) = count[b]
      BY <2>2, <3>2 DEF Exact
    <3>5. QED
      BY <3>3, <3>4
  <2>5. QED
    BY <2>3, <2>4
<1>2. QED
  BY <1>1, Invariance, PTL

\* Whatever AllowedIP admits by, and AllowedAddresses lists, was on the list at
\* some time of the request: the stale elements DenyAddress leaves behind the
\* length of the slice, and those it moves, bring no denied block back.
THEOREM DeniedAdmitNobody == Spec => []NothingBroughtBack
<1>1. AllowlistInv => NothingBroughtBack
  BY DEF AllowlistInv, Undisturbed, DoneOK, NothingBroughtBack
<1>2. QED
  BY <1>1, Invariance, PTL

\* A reader that no DenyAddress overlaps finds every block that is on the list
\* all the while, however often append moves the array under it.
THEOREM ReadersMissNothing == Spec => []NothingMissed
<1>1. AllowlistInv => NothingMissed
  BY DEF AllowlistInv, Undisturbed, DoneOK, NothingMissed
<1>2. QED
  BY <1>1, Invariance, PTL
=============================================================================
