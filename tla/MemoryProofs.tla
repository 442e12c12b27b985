---------------------------- MODULE MemoryProofs ----------------------------
(***************************************************************************)
(* Theorems about MemoryStore, for any number of goroutines, any calls and *)
(* a slice of any length.                                                  *)
(***************************************************************************)
EXTENDS MemoryStore, FiniteSetTheorems, SequenceTheorems, TLAPS

(***************************************************************************)
(* The inductive invariant.  First what holds also after races: types, and *)
(* the places of the calls.                                                *)
(***************************************************************************)
AtWork(q) == q.pc \notin {"idle", "reply"}
Writing(q) == AtWork(q) /\ q.call.kind \in Writes

\* A lookup loads its header, and then scans by it.
Looking(q) ==
  /\ q.pc \in {"load", "scan"} /\ q.left \subseteq {"arr", "len"}
  /\ "arr" \notin q.left => q.h.arr # 0
  /\ q.pc = "load" => q.left # {} /\ q.i = 0 /\ q.n = 0
  /\ q.pc = "scan" => q.left = {} /\ q.h.len = q.n

Held(q) ==
  /\ q.call = None <=> q.pc = "idle"
  /\ q.i <= q.n
  /\ q.pc = "load" => q.call.kind = "find"
  /\ q.pc = "copy" => q.call.kind = "all" /\ q.i < q.n
  /\ q.pc \in {"append", "write"} => q.call.kind = "create"
  /\ q.pc \in {"cut", "shorten"} => q.call.kind = "delete"
  /\ q.pc = "write" => q.h.arr # 0 /\ q.left # {}
  /\ q.pc = "shorten" => q.h.arr # 0
  /\ AtWork(q) /\ q.call.kind = "find" => Looking(q)

Shape ==
  /\ heap \in [Arrays -> Seq(Rows)]
  /\ db \in [arr : Arrays, len : Nat]
  /\ th \in [Threads -> Thread]
  /\ \A t \in Threads : Held(th[t])

(***************************************************************************)
(* Who overlaps whom: before the first race a writer is the only one, and  *)
(* no write overlaps it.                                                   *)
(***************************************************************************)
OverlapsSeen ==
  \A s, t \in Threads :
    s # t /\ Writing(th[s]) /\ AtWork(th[t]) => th[s].call.kind \in th[t].over

OneWriter ==
  ~raced => \A s, t \in Threads : Writing(th[s]) /\ Writing(th[t]) => s = t

WriterAlone == ~raced => \A t \in Threads : Writing(th[t]) => th[t].over = {}

Apart == OverlapsSeen /\ OneWriter /\ WriterAlone

(***************************************************************************)
(* The rows are the first of an array; they are all of the slice.          *)
(***************************************************************************)
Holds(a, rows) ==
  Len(rows) <= Len(heap[a]) /\ \A k \in 1..Len(rows) : heap[a][k] = rows[k]

Is(rows) == db.len = Len(rows) /\ Holds(db.arr, rows)

(***************************************************************************)
(* A request that no write overlaps: how far it is with the slice it found.*)
(***************************************************************************)
Undisturbed(q) == AtWork(q) /\ q.over = {} /\ ~raced

Missed(q, n) == \A k \in 1..n : ~Hit(q.call, q.before[k])

Follows(q) ==
  /\ "arr" \notin q.left => q.h.arr = db.arr
  /\ "len" \notin q.left => q.h.len = db.len

Appending(q) ==
  /\ q.h.len = q.n /\ q.n < Len(heap[q.h.arr])
  /\ Holds(q.h.arr, q.before) /\ Holds(db.arr, q.before)
  /\ "element" \notin q.left => heap[q.h.arr][q.n + 1] = q.call.row
  /\ "len" \in q.left => db.len = q.n
  /\ "len" \notin q.left => db.len = q.n + 1
  /\ "arr" \notin q.left => db.arr = q.h.arr

\* The first rows, but for the one behind the i-th.
ClosesUp(array, rows, i, n) ==
  \A k \in 1..(n - 1) : array[k] = rows[IF k <= i THEN k ELSE k + 1]

Shortening(q) ==
  /\ db.len = q.n /\ q.n <= Len(heap[db.arr]) /\ q.h = [arr |-> db.arr, len |-> q.n - 1]
  /\ ClosesUp(heap[db.arr], q.before, q.i, q.n)

Exact(q) ==
  Undisturbed(q) =>
    /\ q.pc # "load" => Len(q.before) = q.n
    /\ q.call.kind # "all" => Missed(q, q.i)
    /\ q.pc \in {"load", "scan", "copy", "append", "cut"} => Is(q.before)
    /\ q.call.kind = "find" => Follows(q)
    /\ q.pc \in {"append", "write"} => q.i = q.n
    /\ q.pc \in {"cut", "shorten"} => q.i < q.n /\ Hit(q.call, q.before[q.i + 1])
    /\ q.pc = "write" => Appending(q)
    /\ q.pc = "shorten" => Shortening(q)

(***************************************************************************)
(* A reader that creates overtake: the rows it found are where it looks,   *)
(* and no writer stores below them.                                        *)
(***************************************************************************)
Overtaken(q) ==
  q.call.kind \in {"find", "all"} /\ q.over \subseteq {"create"} /\ ~raced

Listed(q, x) == q.call.kind = "all" /\ \E j \in DOMAIN q.found : q.found[j] = x

\* It looks through all of the rows.
Spans(q) ==
  /\ q.call.kind = "find" =>
       /\ "arr" \notin q.left => Holds(q.h.arr, q.before)
       /\ "len" \notin q.left => Len(q.before) <= q.h.len
  /\ q.call.kind = "all" => Len(q.before) = q.n

StoresAbove(m) == \A w \in Threads : th[w].pc = "write" => m <= th[w].h.len

Reads(q) ==
  AtWork(q) /\ Overtaken(q) =>
    /\ Len(q.before) <= db.len /\ Holds(db.arr, q.before) /\ Spans(q)
    /\ StoresAbove(Len(q.before))
    /\ \A k \in DOMAIN q.before :
         k <= q.i /\ Hit(q.call, q.before[k]) => Listed(q, q.before[k])

Told(q) ==
  q.pc = "reply" /\ Overtaken(q) =>
    \A k \in DOMAIN q.before :
      Hit(q.call, q.before[k]) =>
        q.status = 200 /\ (q.call.kind = "all" => Listed(q, q.before[k]))

(***************************************************************************)
(* The loop of Create: what a writer found is unique, and what it leaves.  *)
(***************************************************************************)
Unique(rows) ==
  \A j, k \in DOMAIN rows :
    rows[j].uid = rows[k].uid \/ rows[j].name = rows[k].name => j = k

Settled == \A t \in Threads : th[t].pc \notin {"write", "shorten"}
Clean == db.len <= Len(heap[db.arr]) /\ Unique(Contents)

LoopInv ==
  ~raced =>
    /\ \A t \in Threads : Writing(th[t]) => Unique(th[t].before)
    /\ Settled => Clean

MemInv ==
  /\ Shape /\ Apart /\ LoopInv
  /\ \A t \in Threads : Exact(th[t]) /\ Reads(th[t]) /\ Told(th[t])

(***************************************************************************)
(* Records of goroutines.                                                  *)
(***************************************************************************)
Words == {"arr", "len", "element"}

LEMMA CallKinds ==
  /\ None \notin Calls
  /\ \A c \in Calls : c.kind \in {"create", "delete", "find", "all"}
BY CallsAssumption DEF CallsAssumption

LEMMA ArraysArePositive == Arrays \subseteq Nat /\ 0 \notin Arrays
BY FS_CardinalityType, ThreadsAssumption DEF Arrays, ThreadsAssumption

LEMMA NoSliceIsHeader == NoSlice \in Headers /\ NoSlice.arr = 0
BY DEF NoSlice, Headers

LEMMA IdleIsThread ==
  /\ Idle \in Thread
  /\ Idle.pc = "idle" /\ Idle.call = None /\ Idle.i = 0 /\ Idle.n = 0 /\ Idle.over = {}
  /\ Idle.h = NoSlice /\ Idle.left = {}
BY NoSliceIsHeader, EmptySeq DEF Idle, Thread, Places

\* A goroutine at another place of its code.
At(q, pc, h, left) == [q EXCEPT !.pc = pc, !.h = h, !.left = left]

LEMMA AtRecord ==
  ASSUME NEW q \in Thread, NEW pc \in Places, NEW h \in Headers, NEW left \in SUBSET Words
  PROVE  LET p == At(q, pc, h, left)
         IN  /\ p \in Thread /\ p.pc = pc /\ p.h = h /\ p.left = left
             /\ p.call = q.call /\ p.i = q.i /\ p.n = q.n /\ p.found = q.found
             /\ p.status = q.status /\ p.before = q.before /\ p.over = q.over
BY DEF Thread, At, Words

\* One that has loaded its header.
Aimed(q, h, n) == [q EXCEPT !.pc = "scan", !.h = h, !.left = {}, !.n = n]

LEMMA AimedRecord ==
  ASSUME NEW q \in Thread, NEW h \in Headers, NEW n \in Nat
  PROVE  LET p == Aimed(q, h, n)
         IN  /\ p \in Thread /\ p.pc = "scan" /\ p.h = h /\ p.left = {} /\ p.n = n
             /\ p.call = q.call /\ p.i = q.i /\ p.found = q.found
             /\ p.status = q.status /\ p.before = q.before /\ p.over = q.over
<1> DEFINE p == Aimed(q, h, n)
<1>1. "scan" \in Places
  BY DEF Places
<1>2. p \in Thread
  BY <1>1 DEF Aimed, Thread
<1>3. /\ p.pc = "scan" /\ p.h = h /\ p.left = {} /\ p.n = n
      /\ p.call = q.call /\ p.i = q.i /\ p.found = q.found
      /\ p.status = q.status /\ p.before = q.before /\ p.over = q.over
  BY DEF Aimed, Thread
<1>4. QED
  BY <1>2, <1>3

\* One that replies.
LEMMA AnsweredRecord ==
  ASSUME NEW q \in Thread, NEW status \in Nat, NEW found \in Seq(Rows)
  PROVE  LET p == Answered(q, status, found)
         IN  /\ p \in Thread /\ p.pc = "reply" /\ p.status = status /\ p.found = found
             /\ p.call = q.call /\ p.over = q.over /\ p.i = 0 /\ p.n = 0
             /\ q.call.kind \notin Writes => p.before = q.before
<1> DEFINE p == Answered(q, status, found)
           before == IF q.call.kind \in Writes THEN <<>> ELSE q.before
           e == [Idle EXCEPT !.pc = "reply", !.call = q.call, !.status = status,
                             !.found = found, !.before = before, !.over = q.over]
<1>1. "reply" \in Places
  BY DEF Places
<1>2. before \in Seq(Rows) /\ (q.call.kind \notin Writes => before = q.before)
  BY EmptySeq DEF Thread
<1>3. p = e
  BY DEF Answered
<1>4. q.call \in Calls \cup {None} /\ q.over \in SUBSET {"create", "delete", "midway"}
  BY DEF Thread
<1> HIDE DEF before
<1>5. e \in Thread
  BY <1>1, <1>2, <1>4, IdleIsThread DEF Thread
<1>6. /\ e.pc = "reply" /\ e.status = status /\ e.found = found /\ e.call = q.call
      /\ e.over = q.over /\ e.i = 0 /\ e.n = 0 /\ e.before = before
  BY IdleIsThread DEF Thread
<1>7. QED
  BY <1>2, <1>3, <1>5, <1>6

\* One that has looked at an element.
Passed(q, found) == [q EXCEPT !.pc = "scan", !.i = q.i + 1, !.found = found]

LEMMA PassedRecord ==
  ASSUME NEW q \in Thread, NEW found \in Seq(Rows)
  PROVE  LET p == Passed(q, found)
         IN  /\ p \in Thread /\ p.i = q.i + 1 /\ p.found = found /\ p.pc = "scan"
             /\ p.call = q.call /\ p.n = q.n /\ p.h = q.h /\ p.left = q.left
             /\ p.status = q.status /\ p.before = q.before /\ p.over = q.over
<1> DEFINE p == Passed(q, found)
<1>1. q.i + 1 \in Nat /\ "scan" \in Places
  BY DEF Thread, Places
<1>2. p \in Thread
  BY <1>1 DEF Passed, Thread
<1>3. /\ p.i = q.i + 1 /\ p.found = found /\ p.pc = "scan"
      /\ p.call = q.call /\ p.n = q.n /\ p.h = q.h /\ p.left = q.left
      /\ p.status = q.status /\ p.before = q.before /\ p.over = q.over
  BY DEF Passed, Thread
<1>4. QED
  BY <1>2, <1>3

\* The other goroutines stand still.
Moves(t) ==
  th' \in [Threads -> Thread] /\ \A s \in Threads \ {t} : th'[s] = th[s]

LEMMA OneMoves ==
  ASSUME th \in [Threads -> Thread], NEW t \in Threads, NEW q \in Thread,
         th' = [th EXCEPT ![t] = q]
  PROVE  Moves(t) /\ th'[t] = q
BY DEF Moves

(***************************************************************************)
(* What a goroutine's step does to it.                                     *)
(***************************************************************************)
\* The request is the same.
SameCall(t) ==
  /\ th'[t].call = th[t].call /\ th'[t].before = th[t].before /\ th'[t].over = th[t].over

\* It ends; a reader keeps the slice it found.
Ends(t, status) ==
  /\ Moves(t) /\ th'[t].pc = "reply" /\ th'[t].status = status
  /\ th'[t].call = th[t].call /\ th'[t].over = th[t].over
  /\ th[t].call.kind \notin Writes => th'[t].before = th[t].before
  /\ th'[t].i = 0 /\ th'[t].n = 0

LEMMA AnsweredEnds ==
  ASSUME Shape, NEW t \in Threads, NEW status \in Nat, NEW found \in Seq(Rows),
         th' = [th EXCEPT ![t] = Answered(th[t], status, found)]
  PROVE  Ends(t, status) /\ th'[t].found = found
<1> DEFINE q == th[t]
           p == Answered(q, status, found)
<1>1. q \in Thread /\ th \in [Threads -> Thread]
  BY DEF Shape
<1>2. /\ p \in Thread /\ p.pc = "reply" /\ p.status = status /\ p.found = found
      /\ p.call = q.call /\ p.over = q.over /\ p.i = 0 /\ p.n = 0
      /\ q.call.kind \notin Writes => p.before = q.before
  BY <1>1, AnsweredRecord
<1> HIDE DEF p
<1>3. th' = [th EXCEPT ![t] = p]
  BY DEF p
<1>4. Moves(t) /\ th'[t] = p
  BY <1>1, <1>2, <1>3, OneMoves
<1>5. QED
  BY <1>2, <1>4 DEF Ends

LEMMA ReplyEnds ==
  ASSUME Shape, NEW t \in Threads, NEW status \in Nat, Reply(t, status)
  PROVE  Ends(t, status) /\ th'[t].found = th[t].found
<1>1. th[t].found \in Seq(Rows)
  BY DEF Shape, Thread
<1>2. th' = [th EXCEPT ![t] = Answered(th[t], status, th[t].found)]
  BY DEF Reply
<1>3. QED
  BY <1>1, <1>2, AnsweredEnds

\* It goes on elsewhere.
Goes(t, pc, h, left) ==
  /\ Moves(t) /\ SameCall(t)
  /\ th'[t].pc = pc /\ th'[t].h = h /\ th'[t].left = left
  /\ th'[t].i = th[t].i /\ th'[t].n = th[t].n /\ th'[t].found = th[t].found

LEMMA AtGoes ==
  ASSUME Shape, NEW t \in Threads, NEW pc \in Places, NEW h \in Headers,
         NEW left \in SUBSET Words,
         th' = [th EXCEPT ![t] = At(th[t], pc, h, left)]
  PROVE  Goes(t, pc, h, left)
<1> DEFINE q == th[t]
           p == At(q, pc, h, left)
<1>1. q \in Thread /\ th \in [Threads -> Thread]
  BY DEF Shape
<1>2. /\ p \in Thread /\ p.pc = pc /\ p.h = h /\ p.left = left
      /\ p.call = q.call /\ p.i = q.i /\ p.n = q.n /\ p.found = q.found
      /\ p.before = q.before /\ p.over = q.over
  BY <1>1, AtRecord
<1> HIDE DEF p
<1>3. th' = [th EXCEPT ![t] = p]
  BY DEF p
<1>4. Moves(t) /\ th'[t] = p
  BY <1>1, <1>2, <1>3, OneMoves
<1>5. QED
  BY <1>2, <1>4 DEF Goes, SameCall

\* It has loaded a word of the header.
Fetches(t, h, left) ==
  /\ Moves(t) /\ SameCall(t)
  /\ th'[t].h = h /\ th'[t].left = left /\ th'[t].i = th[t].i /\ th'[t].found = th[t].found
  /\ left = {} => th'[t].pc = "scan" /\ th'[t].n = h.len
  /\ left # {} => th'[t].pc = "load" /\ th'[t].n = th[t].n

LEMMA AimedFetches ==
  ASSUME Shape, NEW t \in Threads, NEW h \in Headers,
         th' = [th EXCEPT ![t] = Aimed(th[t], h, h.len)]
  PROVE  Fetches(t, h, {})
<1> DEFINE q == th[t]
           p == Aimed(q, h, h.len)
<1>1. q \in Thread /\ th \in [Threads -> Thread] /\ h.len \in Nat
  BY DEF Shape, Headers
<1>2. /\ p \in Thread /\ p.pc = "scan" /\ p.h = h /\ p.left = {} /\ p.n = h.len
      /\ p.call = q.call /\ p.i = q.i /\ p.found = q.found
      /\ p.before = q.before /\ p.over = q.over
  BY <1>1, AimedRecord
<1> HIDE DEF p
<1>3. th' = [th EXCEPT ![t] = p]
  BY DEF p
<1>4. Moves(t) /\ th'[t] = p
  BY <1>1, <1>2, <1>3, OneMoves
<1>5. QED
  BY <1>2, <1>4 DEF Fetches, SameCall

\* It passes an element.
Passes(t, found) ==
  /\ Moves(t) /\ SameCall(t)
  /\ th'[t].pc = "scan" /\ th'[t].h = th[t].h /\ th'[t].left = th[t].left
  /\ th'[t].i = th[t].i + 1 /\ th'[t].n = th[t].n /\ th'[t].found = found

LEMMA PassedPasses ==
  ASSUME Shape, NEW t \in Threads, NEW found \in Seq(Rows),
         th' = [th EXCEPT ![t] = Passed(th[t], found)]
  PROVE  Passes(t, found)
<1> DEFINE q == th[t]
           p == Passed(q, found)
<1>1. q \in Thread /\ th \in [Threads -> Thread]
  BY DEF Shape
<1>2. /\ p \in Thread /\ p.i = q.i + 1 /\ p.found = found
      /\ p.pc = "scan" /\ p.call = q.call /\ p.n = q.n /\ p.h = q.h /\ p.left = q.left
      /\ p.before = q.before /\ p.over = q.over
  BY <1>1, PassedRecord
<1> HIDE DEF p
<1>3. th' = [th EXCEPT ![t] = p]
  BY DEF p
<1>4. Moves(t) /\ th'[t] = p
  BY <1>1, <1>2, <1>3, OneMoves
<1>5. QED
  BY <1>2, <1>4 DEF Passes, SameCall

LEMMA CallIsOne ==
  ASSUME Shape, NEW t \in Threads, th[t].pc # "idle"
  PROVE  /\ th[t].call \in Calls
         /\ th[t].call.kind \in {"create", "delete", "find", "all"}
BY CallKinds DEF Shape, Held, Thread

LEMMA LoadSteps ==
  ASSUME Shape, NEW t \in Threads, NEW f \in {"arr", "len"}, Load(t, f)
  PROVE  /\ th[t].pc = "load" /\ f \in th[t].left /\ Loaded(t, f) \in Headers
         /\ f = "arr" => Loaded(t, f).arr = db.arr /\ Loaded(t, f).len = th[t].h.len
         /\ f = "len" => Loaded(t, f).arr = th[t].h.arr /\ Loaded(t, f).len = db.len
         /\ Fetches(t, Loaded(t, f), th[t].left \ {f})
<1> DEFINE q == th[t]
           h == Loaded(t, f)
<1>1. /\ q \in Thread /\ th \in [Threads -> Thread] /\ q.pc = "load" /\ f \in q.left
      /\ q.h \in Headers /\ q.left \in SUBSET Words
  BY DEF Shape, Load, Thread, Words
<1>2. /\ h \in Headers
      /\ f = "arr" => h.arr = db.arr /\ h.len = q.h.len
      /\ f = "len" => h.arr = q.h.arr /\ h.len = db.len
  BY <1>1 DEF Loaded, Headers, Shape
<1> HIDE DEF h
<1>3. CASE q.left = {f}
  <2>1. th' = [th EXCEPT ![t].pc = "scan", ![t].h = h, ![t].left = {}, ![t].n = h.len]
    BY <1>3 DEF Load, h
  <2>2. [[[[q EXCEPT !.pc = "scan"] EXCEPT !.h = h] EXCEPT !.left = {}] EXCEPT !.n = h.len]
          = Aimed(q, h, h.len)
    BY <1>1 DEF Aimed, Thread
  <2>3. th' = [th EXCEPT ![t] = Aimed(q, h, h.len)]
    BY <1>1, <2>1, <2>2
  <2>4. q.left \ {f} = {} /\ Fetches(t, h, {})
    BY <1>2, <1>3, <2>3, AimedFetches
  <2>5. QED
    BY <1>1, <1>2, <2>4 DEF h
<1>4. CASE q.left # {f}
  <2> DEFINE left == q.left \ {f}
  <2>1. th' = [th EXCEPT ![t].h = h, ![t].left = @ \ {f}]
    BY <1>4 DEF Load, h
  <2>2. [[q EXCEPT !.h = h] EXCEPT !.left = q.left \ {f}] = At(q, "load", h, left)
    BY <1>1 DEF At, Thread
  <2>3. th' = [th EXCEPT ![t] = At(q, "load", h, left)] /\ "load" \in Places
    BY <1>1, <2>1, <2>2 DEF Places
  <2>4. left \in SUBSET Words /\ left # {}
    BY <1>1, <1>4
  <2> HIDE DEF left
  <2>5. Goes(t, "load", h, left)
    BY <1>2, <2>3, <2>4, AtGoes
  <2>6. Fetches(t, h, left)
    BY <2>4, <2>5 DEF Goes, Fetches
  <2>7. QED
    BY <1>1, <1>2, <2>6 DEF left, h
<1>5. QED
  BY <1>3, <1>4

\* The element a visit looks at.
LEMMA SlotHoldsRows ==
  ASSUME Shape, NEW a, NEW k
  PROVE  Slot(a, k) \subseteq Rows
<1>1. CASE a \in Arrays /\ k \in DOMAIN heap[a]
  <2>1. heap[a] \in Seq(Rows) /\ k \in 1..Len(heap[a])
    BY <1>1, LenProperties DEF Shape
  <2>2. heap[a][k] \in Rows
    BY <2>1, ElementOfSeq
  <2>3. QED
    BY <1>1, <2>2 DEF Slot
<1>2. CASE ~(a \in Arrays /\ k \in DOMAIN heap[a])
  BY <1>2 DEF Slot
<1>3. QED
  BY <1>1, <1>2

LEMMA ElementIsRow ==
  ASSUME Shape, NEW t \in Threads
  PROVE  Element(t) \subseteq Rows
BY SlotHoldsRows DEF Element

LEMMA ElementIs ==
  ASSUME Shape, NEW t \in Threads, NEW rows \in Seq(Rows),
         Source(th[t]) \in Arrays, Holds(Source(th[t]), rows), th[t].i < Len(rows)
  PROVE  Element(t) = {rows[th[t].i + 1]}
<1> DEFINE a == Source(th[t])
           k == th[t].i + 1
<1>1. heap[a] \in Seq(Rows) /\ th[t].i \in Nat
  BY DEF Shape, Thread
<1>2. Len(rows) \in Nat /\ Len(heap[a]) \in Nat /\ DOMAIN heap[a] = 1..Len(heap[a])
  BY <1>1, LenProperties
<1>3. k \in 1..Len(rows) /\ Len(rows) <= Len(heap[a])
  BY <1>1, <1>2 DEF Holds
<1>4. k \in DOMAIN heap[a] /\ heap[a][k] = rows[k]
  BY <1>2, <1>3 DEF Holds
<1>5. QED
  BY <1>4 DEF Element, Slot

LEMMA FoundEnds ==
  ASSUME Shape, NEW t \in Threads, NEW x \in Rows,
         th' = [th EXCEPT ![t] = Answered(th[t], 200, <<x>>)]
  PROVE  Ends(t, 200)
<1> DEFINE f == <<x>>
           status == 200
<1>1. f \in Seq(Rows) /\ status \in Nat
  OBVIOUS
<1>2. th' = [th EXCEPT ![t] = Answered(th[t], status, f)]
  OBVIOUS
<1> HIDE DEF f, status
<1>3. Ends(t, status)
  BY <1>1, <1>2, AnsweredEnds
<1>4. QED
  BY <1>3 DEF status

LEMMA VisitSteps ==
  ASSUME Shape, NEW t \in Threads, Visit(t)
  PROVE  LET q == th[t] IN
         \/ OutOfRange(t) /\ Ends(t, 0)
         \/ /\ ~OutOfRange(t)
            /\ \E x \in Element(t) :
                 \/ ~Hit(q.call, x) /\ Passes(t, q.found)
                 \/ Hit(q.call, x) /\ q.call.kind = "create" /\ Ends(t, 409)
                 \/ Hit(q.call, x) /\ q.call.kind = "delete" /\ Goes(t, "cut", q.h, q.left)
                 \/ Hit(q.call, x) /\ q.call.kind = "find" /\ Ends(t, 200)
                 \/ Hit(q.call, x) /\ q.call.kind = "all" /\ Goes(t, "copy", q.h, q.left)
<1> DEFINE q == th[t]
           c == q.call
<1>1. q \in Thread /\ th \in [Threads -> Thread] /\ q.pc = "scan" /\ q.i < q.n
  BY DEF Shape, Visit
<1>2. /\ q.found \in Seq(Rows) /\ q.h \in Headers /\ q.left \in SUBSET Words
      /\ {0, 200, 409} \subseteq Nat /\ {"cut", "copy"} \subseteq Places
  BY <1>1 DEF Thread, Words, Places
<1>3. CASE OutOfRange(t)
  BY <1>2, <1>3, ReplyEnds DEF Visit, Panic
<1>4. CASE ~OutOfRange(t)
  <2>1. PICK x \in Element(t) :
          \/ ~Hit(c, x) /\ th' = [th EXCEPT ![t].i = @ + 1]
          \/ Hit(c, x) /\ c.kind = "create" /\ Reply(t, 409)
          \/ Hit(c, x) /\ c.kind = "delete" /\ th' = [th EXCEPT ![t].pc = "cut"]
          \/ Hit(c, x) /\ c.kind = "find"
               /\ th' = [th EXCEPT ![t] = Answered(th[t], 200, <<x>>)]
          \/ Hit(c, x) /\ c.kind = "all" /\ th' = [th EXCEPT ![t].pc = "copy"]
    BY <1>4 DEF Visit
  <2>2. x \in Rows
    BY ElementIsRow
  <2>3. ASSUME th' = [th EXCEPT ![t].i = @ + 1] PROVE Passes(t, q.found)
    <3>1. [q EXCEPT !.i = q.i + 1] = Passed(q, q.found)
      BY <1>1 DEF Passed, Thread
    <3>2. th' = [th EXCEPT ![t] = Passed(q, q.found)]
      BY <1>1, <2>3, <3>1
    <3>3. QED
      BY <1>2, <3>2, PassedPasses
  <2>4. ASSUME NEW pc \in {"cut", "copy"}, th' = [th EXCEPT ![t].pc = pc]
        PROVE  Goes(t, pc, q.h, q.left)
    <3>1. [q EXCEPT !.pc = pc] = At(q, pc, q.h, q.left)
      BY <1>1 DEF At, Thread
    <3>2. th' = [th EXCEPT ![t] = At(q, pc, q.h, q.left)] /\ pc \in Places
      BY <1>1, <1>2, <2>4, <3>1
    <3>3. QED
      BY <1>2, <3>2, AtGoes
  <2>5. Reply(t, 409) => Ends(t, 409)
    BY <1>2, ReplyEnds
  <2>6. ASSUME th' = [th EXCEPT ![t] = Answered(th[t], 200, <<x>>)] PROVE Ends(t, 200)
    BY <2>2, <2>6, FoundEnds
  <2> HIDE DEF q, c
  <2>7. \/ ~Hit(c, x) /\ Passes(t, th[t].found)
        \/ Hit(c, x) /\ c.kind = "create" /\ Ends(t, 409)
        \/ Hit(c, x) /\ c.kind = "delete" /\ Goes(t, "cut", th[t].h, th[t].left)
        \/ Hit(c, x) /\ c.kind = "find" /\ Ends(t, 200)
        \/ Hit(c, x) /\ c.kind = "all" /\ Goes(t, "copy", th[t].h, th[t].left)
    BY <2>1, <2>3, <2>4, <2>5, <2>6 DEF q
  <2>8. QED
    BY <1>4, <2>7 DEF q, c
<1>5. QED
  BY <1>3, <1>4

\* A listing appends what it reads the second time.
LEMMA CopySteps ==
  ASSUME Shape, NEW t \in Threads, Copy(t)
  PROVE  \/ OutOfRange(t) /\ Ends(t, 0)
         \/ /\ ~OutOfRange(t)
            /\ \E x \in Element(t) : x \in Rows /\ Passes(t, Append(th[t].found, x))
<1> DEFINE q == th[t]
<1>1. /\ q \in Thread /\ th \in [Threads -> Thread] /\ q.pc = "copy"
      /\ q.found \in Seq(Rows) /\ 0 \in Nat
  BY DEF Shape, Copy, Thread
<1>2. CASE OutOfRange(t)
  BY <1>1, <1>2, ReplyEnds DEF Copy, Panic
<1>3. CASE ~OutOfRange(t)
  <2>1. PICK x \in Element(t) :
          th' = [th EXCEPT ![t].pc = "scan", ![t].i = @ + 1, ![t].found = Append(@, x)]
    BY <1>3 DEF Copy
  <2>2. x \in Rows /\ Append(q.found, x) \in Seq(Rows)
    BY <1>1, ElementIsRow, AppendProperties
  <2>3. [[[q EXCEPT !.pc = "scan"] EXCEPT !.i = q.i + 1] EXCEPT !.found = Append(q.found, x)]
          = Passed(q, Append(q.found, x))
    BY <1>1 DEF Passed, Thread
  <2>4. th' = [th EXCEPT ![t] = Passed(q, Append(q.found, x))]
    BY <1>1, <2>1, <2>3
  <2>5. Passes(t, Append(q.found, x))
    BY <2>2, <2>4, PassedPasses
  <2>6. QED
    BY <1>3, <2>2, <2>5
<1>4. QED
  BY <1>2, <1>3

LEMMA EndScanSteps ==
  ASSUME Shape, NEW t \in Threads, EndScan(t)
  PROVE  LET q == th[t] IN
         \/ q.call.kind = "create" /\ Goes(t, "append", q.h, q.left)
         \/ q.call.kind = "all" /\ Ends(t, 200) /\ th'[t].found = q.found
         \/ q.call.kind \in {"delete", "find"} /\ Ends(t, 404)
<1> DEFINE q == th[t]
           c == q.call
<1>1. q \in Thread /\ th \in [Threads -> Thread] /\ q.pc = "scan"
  BY DEF Shape, EndScan
<1>2. c.kind \in {"create", "delete", "find", "all"}
  BY <1>1, CallIsOne
<1>3. q.h \in Headers /\ q.left \in SUBSET Words /\ {200, 404} \subseteq Nat
  BY <1>1 DEF Thread, Words
<1>4. CASE c.kind = "create"
  <2>1. th' = [th EXCEPT ![t].pc = "append"]
    BY <1>4 DEF EndScan
  <2>2. [q EXCEPT !.pc = "append"] = At(q, "append", q.h, q.left)
    BY <1>1 DEF At, Thread
  <2>3. th' = [th EXCEPT ![t] = At(q, "append", q.h, q.left)] /\ "append" \in Places
    BY <1>1, <2>1, <2>2 DEF Places
  <2>4. QED
    BY <1>3, <1>4, <2>3, AtGoes
<1>5. CASE c.kind = "all"
  BY <1>3, <1>5, ReplyEnds DEF EndScan
<1>6. CASE c.kind \in {"delete", "find"}
  <2>1. Reply(t, 404)
    BY <1>6 DEF EndScan
  <2>2. QED
    BY <1>3, <1>6, <2>1, ReplyEnds
<1>7. QED
  BY <1>2, <1>4, <1>5, <1>6

(***************************************************************************)
(* What the writes do.                                                     *)
(***************************************************************************)
\* There is always an array that nobody points to.
LEMMA FreshIsFree == Fresh \in Arrays /\ ~InUse(Fresh)
<1> DEFINE held == {th[s].h.arr : s \in Threads}
           n == Cardinality(Threads)
<1>1. IsFiniteSet(held) /\ Cardinality(held) <= n /\ n \in Nat
  <2> DEFINE f == [s \in Threads |-> th[s].h.arr]
  <2>1. f \in Surjection(Threads, held)
    BY DEF Surjection
  <2>2. IsFiniteSet(Threads) /\ n \in Nat
    BY FS_CardinalityType, ThreadsAssumption DEF ThreadsAssumption
  <2> HIDE DEF f, held
  <2>3. QED
    BY <2>1, <2>2, FS_Surjection
<1>2. /\ IsFiniteSet(held \cup {db.arr})
      /\ Cardinality(held \cup {db.arr}) <= n + 1
      /\ Cardinality(held \cup {db.arr}) \in Nat
  <2> HIDE DEF held
  <2>1. /\ IsFiniteSet(held \cup {db.arr})
        /\ Cardinality(held \cup {db.arr}) =
             IF db.arr \in held THEN Cardinality(held) ELSE Cardinality(held) + 1
    BY <1>1, FS_AddElement
  <2>2. Cardinality(held) \in Nat
    BY <1>1, FS_CardinalityType
  <2>3. QED
    BY <1>1, <2>1, <2>2
<1>3. IsFiniteSet(Arrays) /\ Cardinality(Arrays) = n + 2
  <2> DEFINE b == n + 2
  <2>1. 1 \in Int /\ b \in Int /\ 1 <= b /\ b - 1 + 1 = b /\ Arrays = 1..b
    BY <1>1 DEF Arrays
  <2> HIDE DEF b
  <2>2. IsFiniteSet(1..b) /\ Cardinality(1..b) = IF 1 > b THEN 0 ELSE b - 1 + 1
    BY <2>1, FS_Interval
  <2>3. IsFiniteSet(Arrays) /\ Cardinality(Arrays) = b
    BY <2>1, <2>2
  <2>4. QED
    BY <2>3 DEF b
<1>4. ~(Arrays \subseteq held \cup {db.arr})
  <2> HIDE DEF held
  <2>1. SUFFICES ASSUME Arrays \subseteq held \cup {db.arr} PROVE FALSE
    OBVIOUS
  <2>2. Cardinality(Arrays) <= Cardinality(held \cup {db.arr})
    BY <1>2, <2>1, FS_Subset
  <2>3. QED
    BY <1>1, <1>2, <1>3, <2>2
<1>5. PICK a \in Arrays : a \notin held /\ a # db.arr
  BY <1>4
<1>6. a \in Free
  BY <1>5 DEF InUse, Free
<1>7. Fresh \in Free
  BY <1>6 DEF Fresh
<1>8. QED
  BY <1>7 DEF Free

LEMMA GrownArray ==
  ASSUME NEW array \in Seq(Rows)
  PROVE  /\ Grown(array) \in Seq(Rows)
         /\ Len(Grown(array)) > Len(array)
         /\ \A k \in 1..Len(array) : Grown(array)[k] = array[k]
<1> DEFINE m == IF array = <<>> THEN 1 ELSE 2 * Len(array)
           e(k) == IF k <= Len(array) THEN array[k] ELSE Blank
<1>1. Len(array) \in Nat /\ (array = <<>> => Len(array) = 0)
        /\ (array # <<>> => Len(array) > 0)
  BY EmptySeq, LenProperties
<1>2. m \in Nat /\ m > Len(array)
  BY <1>1
<1>3. \A k \in 1..m : e(k) \in Rows
  BY <1>1, <1>2, ElementOfSeq DEF Rows
<1>4. Grown(array) = [k \in 1..m |-> e(k)]
  BY DEF Grown
<1> HIDE DEF m
<1>5. [k \in 1..m |-> e(k)] \in Seq(Rows)
  BY <1>2, <1>3
<1>6. Len([k \in 1..m |-> e(k)]) = m
  BY <1>2
<1>7. \A k \in 1..Len(array) : [j \in 1..m |-> e(j)][k] = array[k]
  BY <1>1, <1>2
<1>8. QED
  BY <1>2, <1>4, <1>5, <1>6, <1>7

LEMMA ShiftedArray ==
  ASSUME NEW array \in Seq(Rows), NEW i \in Nat, NEW len \in Nat, NEW last \in Rows
  PROVE  /\ Shift(array, i, len, last) \in Seq(Rows)
         /\ Len(Shift(array, i, len, last)) = Len(array)
         /\ len <= Len(array) => ClosesUp(Shift(array, i, len, last), array, i, len)
<1> DEFINE m == Len(array)
           e(k) == IF k <= i \/ k >= len THEN array[k]
                   ELSE IF k < m THEN array[k + 1] ELSE last
<1>1. m \in Nat /\ DOMAIN array = 1..m
  BY LenProperties
<1>2. \A k \in 1..m : e(k) \in Rows
  <2>1. \A k \in 1..m : array[k] \in Rows
    BY <1>1, ElementOfSeq
  <2>2. QED
    BY <1>1, <2>1
<1>3. Shift(array, i, len, last) = [k \in 1..m |-> e(k)]
  BY <1>1 DEF Shift
<1> HIDE DEF m
<1>4. [k \in 1..m |-> e(k)] \in Seq(Rows)
  BY <1>1, <1>2
<1>5. Len([k \in 1..m |-> e(k)]) = m
  BY <1>1
<1>6. len <= m => \A k \in 1..(len - 1) :
        [j \in 1..m |-> e(j)][k] = array[IF k <= i THEN k ELSE k + 1]
  BY <1>1
<1>7. QED
  BY <1>3, <1>4, <1>5, <1>6 DEF m, ClosesUp

\* The array that an append writes to holds all that is in the slice.
LEMMA LoadAndGrowSteps ==
  ASSUME Shape, NEW t \in Threads, LoadAndGrow(t)
  PROVE  \E h \in Headers, left \in SUBSET Words :
           /\ h.arr \in Arrays /\ h.len = db.len
           /\ {"len", "element"} \subseteq left /\ ("arr" \notin left => h.arr = db.arr)
           /\ Goes(t, "write", h, left)
           /\ heap' \in [Arrays -> Seq(Rows)]
           /\ \A a \in Arrays : InUse(a) => heap'[a] = heap[a]
           /\ db.len <= Len(heap[db.arr]) =>
                /\ h.len < Len(heap'[h.arr])
                /\ \A k \in 1..db.len : heap'[h.arr][k] = heap[db.arr][k]
<1> DEFINE q == th[t]
<1>1. /\ q \in Thread /\ th \in [Threads -> Thread] /\ q.pc = "append"
      /\ db \in [arr : Arrays, len : Nat]
      /\ heap \in [Arrays -> Seq(Rows)] /\ "write" \in Places
      /\ Len(heap[db.arr]) \in Nat
  BY LenProperties DEF Shape, LoadAndGrow, Places
<1>2. ASSUME NEW h \in Headers, NEW left \in SUBSET Words,
             th' = [th EXCEPT ![t].pc = "write", ![t].h = h, ![t].left = left]
      PROVE  Goes(t, "write", h, left)
  <2>1. [[[q EXCEPT !.pc = "write"] EXCEPT !.h = h] EXCEPT !.left = left]
          = At(q, "write", h, left)
    BY <1>1 DEF At, Thread
  <2>2. th' = [th EXCEPT ![t] = At(q, "write", h, left)]
    BY <1>1, <1>2, <2>1
  <2>3. QED
    BY <1>1, <2>2, AtGoes
<1>3. CASE db.len < Len(heap[db.arr])
  <2> DEFINE left == {"len", "element"}
  <2>1. heap' = heap /\ th' = [th EXCEPT ![t].pc = "write", ![t].h = db, ![t].left = left]
    BY <1>3 DEF LoadAndGrow
  <2>2. db \in Headers /\ left \in SUBSET Words /\ {"len", "element"} \subseteq left
    BY <1>1 DEF Headers, Words
  <2> HIDE DEF left
  <2>3. Goes(t, "write", db, left)
    BY <1>2, <2>1, <2>2
  <2>4. QED
    BY <1>1, <1>3, <2>1, <2>2, <2>3
<1>4. CASE ~(db.len < Len(heap[db.arr]))
  <2> DEFINE h == [arr |-> Fresh, len |-> db.len]
             g == Grown(heap[db.arr])
  <2>1. heap' = [heap EXCEPT ![Fresh] = g]
        /\ th' = [th EXCEPT ![t].pc = "write", ![t].h = h, ![t].left = Words]
    BY <1>4 DEF LoadAndGrow, Words
  <2>2. h \in Headers /\ h.arr = Fresh /\ h.len = db.len /\ Fresh \in Arrays /\ ~InUse(Fresh)
    BY <1>1, FreshIsFree DEF Headers
  <2>3. Goes(t, "write", h, Words)
    BY <1>2, <2>1, <2>2
  <2>4. heap[db.arr] \in Seq(Rows)
    BY <1>1
  <2>5. /\ g \in Seq(Rows) /\ Len(g) > Len(heap[db.arr])
        /\ \A k \in 1..Len(heap[db.arr]) : g[k] = heap[db.arr][k]
    BY <2>4, GrownArray
  <2>6. db.len <= Len(heap[db.arr]) => db.len = Len(heap[db.arr])
    BY <1>1, <1>4
  <2> HIDE DEF h, g
  <2>7. heap'[h.arr] = g /\ \A a \in Arrays : InUse(a) => heap'[a] = heap[a]
    BY <1>1, <2>1, <2>2
  <2>8. heap' \in [Arrays -> Seq(Rows)]
    BY <1>1, <2>1, <2>2, <2>5
  <2>9. {"len", "element"} \subseteq Words /\ "arr" \in Words
    BY DEF Words
  <2>10. QED
    BY <2>2, <2>3, <2>5, <2>6, <2>7, <2>8, <2>9
<1>5. QED
  BY <1>3, <1>4

LEMMA GrowingWrites ==
  ASSUME Shape, NEW t \in Threads, LoadAndGrow(t)
  PROVE  th'[t].pc = "write"
BY LoadAndGrowSteps DEF Goes

\* A goroutine that writes.
LEMMA WriterHolds ==
  ASSUME Shape, NEW t \in Threads, th[t].pc \in {"write", "shorten"}
  PROVE  /\ th[t].h.arr \in Arrays /\ th[t].h.len \in Nat
         /\ heap[th[t].h.arr] \in Seq(Rows)
         /\ th[t].pc = "write" =>
              th[t].call \in Calls /\ th[t].call.kind = "create" /\ th[t].call.row \in Rows
<1> DEFINE q == th[t]
<1>1. q \in Thread /\ Held(q)
  BY DEF Shape
<1>2. q.h.arr \in Arrays /\ q.h.len \in Nat
  BY <1>1 DEF Held, Thread, Headers
<1>3. heap[q.h.arr] \in Seq(Rows)
  BY <1>2 DEF Shape
<1>4. ASSUME q.pc = "write"
      PROVE  q.call \in Calls /\ q.call.kind = "create" /\ q.call.row \in Rows
  <2>1. q.call \in Calls /\ q.call.kind = "create"
    BY <1>1, <1>4, CallIsOne DEF Held
  <2>2. QED
    BY <2>1 DEF Rows
<1>5. QED
  BY <1>2, <1>3, <1>4

LEMMA WrittenSteps ==
  ASSUME Shape, NEW t \in Threads, th[t].pc = "write",
         NEW what \in th[t].left, Written(t, what)
  PROVE  \/ th[t].left = {what} /\ Ends(t, 201)
         \/ th[t].left # {what} /\ Goes(t, "write", th[t].h, th[t].left \ {what})
<1> DEFINE q == th[t]
<1>1. q \in Thread /\ th \in [Threads -> Thread]
  BY DEF Shape
<1>2. q.left \in SUBSET Words /\ q.h \in Headers /\ 201 \in Nat /\ "write" \in Places
  BY <1>1 DEF Thread, Places, Words
<1>3. CASE q.left = {what}
  <2>1. Reply(t, 201)
    BY <1>3 DEF Written
  <2>2. QED
    BY <1>2, <1>3, <2>1, ReplyEnds
<1>4. CASE q.left # {what}
  <2>1. th' = [th EXCEPT ![t].left = @ \ {what}]
    BY <1>4 DEF Written
  <2>2. [q EXCEPT !.left = q.left \ {what}] = At(q, "write", q.h, q.left \ {what})
    BY <1>1 DEF At, Thread
  <2>3. th' = [th EXCEPT ![t] = At(q, "write", q.h, q.left \ {what})]
    BY <1>1, <2>1, <2>2
  <2>4. q.left \ {what} \in SUBSET Words
    BY <1>2
  <2>5. Goes(t, "write", q.h, q.left \ {what})
    BY <1>2, <2>3, <2>4, AtGoes
  <2>6. QED
    BY <1>4, <2>5
<1>5. QED
  BY <1>3, <1>4

\* One element is stored, in the array that the header points to.
LEMMA ElementStored ==
  ASSUME Shape, NEW t \in Threads, WriteElement(t)
  PROVE  LET h == th[t].h IN
         /\ heap' \in [Arrays -> Seq(Rows)]
         /\ \A a \in Arrays : Len(heap'[a]) = Len(heap[a])
         /\ h.len < Len(heap[h.arr]) => heap'[h.arr][h.len + 1] = th[t].call.row
         /\ \A a \in Arrays, k \in Nat :
              k \in 1..Len(heap[a]) /\ ~(a = h.arr /\ k = h.len + 1) => heap'[a][k] = heap[a][k]
<1> DEFINE h == th[t].h
           old == heap[h.arr]
           new == [old EXCEPT ![h.len + 1] = th[t].call.row]
<1>1. th[t].pc = "write" /\ heap \in [Arrays -> Seq(Rows)]
  BY DEF WriteElement, Shape
<1>2. /\ h.arr \in Arrays /\ h.len \in Nat /\ old \in Seq(Rows) /\ th[t].call.row \in Rows
      /\ Len(old) \in Nat
  BY <1>1, WriterHolds, LenProperties
<1>3. heap' = [heap EXCEPT ![h.arr] = new]
  BY <1>1, <1>2 DEF WriteElement
<1>4. /\ new \in Seq(Rows) /\ Len(new) = Len(old)
      /\ \A j \in 1..Len(old) : new[j] = IF j = h.len + 1 THEN th[t].call.row ELSE old[j]
  <2>1. CASE h.len + 1 \in 1..Len(old)
    BY <1>2, <2>1, ExceptSeq
  <2>2. CASE h.len + 1 \notin 1..Len(old)
    <3>1. old = [k \in 1..Len(old) |-> old[k]]
      BY <1>2, LenProperties
    <3>2. new = old
      BY <2>2, <3>1
    <3> HIDE DEF new
    <3>3. QED
      BY <1>2, <2>2, <3>2
  <2>3. QED
    BY <2>1, <2>2
<1> HIDE DEF new
<1>5. heap' \in [Arrays -> Seq(Rows)] /\ heap'[h.arr] = new
        /\ \A a \in Arrays : a # h.arr => heap'[a] = heap[a]
  BY <1>1, <1>2, <1>3, <1>4
<1>6. h.len < Len(old) => h.len + 1 \in 1..Len(old)
  BY <1>2
<1>7. QED
  BY <1>2, <1>4, <1>5, <1>6

LEMMA CutSteps ==
  ASSUME Shape, NEW t \in Threads, Cut(t)
  PROVE  \/ th[t].i + 1 > db.len /\ Ends(t, 0) /\ UNCHANGED heap
         \/ /\ th[t].i + 1 <= db.len
            /\ Goes(t, "shorten", [arr |-> db.arr, len |-> db.len - 1], th[t].left)
            /\ heap' \in [Arrays -> Seq(Rows)]
            /\ \A a \in Arrays : Len(heap'[a]) = Len(heap[a])
            /\ \A a \in Arrays : a # db.arr => heap'[a] = heap[a]
            /\ db.len <= Len(heap[db.arr]) =>
                 ClosesUp(heap'[db.arr], heap[db.arr], th[t].i, db.len)
<1> DEFINE q == th[t]
           h == [arr |-> db.arr, len |-> db.len - 1]
<1>1. /\ q \in Thread /\ th \in [Threads -> Thread] /\ heap \in [Arrays -> Seq(Rows)]
      /\ db \in [arr : Arrays, len : Nat]
      /\ q.i \in Nat /\ q.left \in SUBSET Words /\ "shorten" \in Places
      /\ 0 \in Nat
  BY DEF Shape, Thread, Places, Words
<1>2. CASE q.i + 1 > db.len
  BY <1>1, <1>2, ReplyEnds DEF Cut, Panic
<1>3. CASE ~(q.i + 1 > db.len)
  <2>1. PICK last \in Slot(db.arr, db.len) :
          heap' = [heap EXCEPT ![db.arr] = Shift(@, q.i, db.len, last)]
    BY <1>3 DEF Cut
  <2> DEFINE new == Shift(heap[db.arr], q.i, db.len, last)
  <2>2. heap' = [heap EXCEPT ![db.arr] = new] /\ last \in Rows
    BY <1>1, <2>1, SlotHoldsRows
  <2>3. h \in Headers
    BY <1>1, <1>3 DEF Headers
  <2>4. th' = [th EXCEPT ![t].pc = "shorten", ![t].h = h]
    BY <1>3 DEF Cut
  <2>5. [[q EXCEPT !.pc = "shorten"] EXCEPT !.h = h] = At(q, "shorten", h, q.left)
    BY <1>1 DEF At, Thread
  <2>6. th' = [th EXCEPT ![t] = At(q, "shorten", h, q.left)]
    BY <1>1, <2>4, <2>5
  <2>7. Goes(t, "shorten", h, q.left)
    BY <1>1, <2>3, <2>6, AtGoes
  <2>8. heap[db.arr] \in Seq(Rows) /\ db.len \in Nat /\ db.arr \in Arrays
    BY <1>1
  <2>9. /\ new \in Seq(Rows) /\ Len(new) = Len(heap[db.arr])
        /\ db.len <= Len(heap[db.arr]) => ClosesUp(new, heap[db.arr], q.i, db.len)
    BY <1>1, <2>2, <2>8, ShiftedArray
  <2> HIDE DEF new
  <2>10. heap' \in [Arrays -> Seq(Rows)] /\ heap'[db.arr] = new
          /\ \A a \in Arrays : a # db.arr => heap'[a] = heap[a]
    BY <1>1, <2>2, <2>8, <2>9
  <2>11. q.i + 1 <= db.len
    BY <1>1, <1>3
  <2>12. QED
    BY <2>7, <2>9, <2>10, <2>11
<1>4. QED
  BY <1>2, <1>3

(***************************************************************************)
(* How a request begins.                                                   *)
(***************************************************************************)
\* The kinds of the writes under way that are not t's.
KindsOf(t) == {th[s].call.kind : s \in {u \in Threads \ {t} : Writing(th[u])}}

LEMMA WritersAre ==
  ASSUME th \in [Threads -> Thread], NEW t \in Threads
  PROVE  Writers(th, t) = {s \in Threads \ {t} : Writing(th[s])}
BY DEF Writers, Busy, Writing, AtWork

\* The one that begins.
BeginsAs(t, c) ==
  /\ th[t].pc = "idle" /\ c \in Calls
  /\ th'[t].call = c /\ th'[t].i = 0 /\ th'[t].h = NoSlice /\ th'[t].before = Contents
  /\ c.kind = "find" =>
       th'[t].pc = "load" /\ th'[t].n = 0 /\ th'[t].left = {"arr", "len"}
  /\ c.kind # "find" => th'[t].pc = "scan" /\ th'[t].n = db.len
  /\ KindsOf(t) \subseteq th'[t].over
  /\ KindsOf(t) # {} => "midway" \in th'[t].over
  /\ KindsOf(t) = {} => th'[t].over = {}

\* The others see a write begin.
OthersSee(t, c) ==
  \A s \in Threads \ {t} :
    /\ th'[s].pc = th[s].pc /\ th'[s].call = th[s].call /\ th'[s].i = th[s].i
    /\ th'[s].n = th[s].n /\ th'[s].h = th[s].h /\ th'[s].left = th[s].left
    /\ th'[s].found = th[s].found /\ th'[s].status = th[s].status
    /\ th'[s].before = th[s].before
    /\ th[s].over \subseteq th'[s].over
    /\ AtWork(th[s]) /\ c.kind \in Writes => c.kind \in th'[s].over
    /\ ~AtWork(th[s]) => th'[s].over = th[s].over
    /\ th'[s].over \subseteq th[s].over \cup KindsOf(s) \cup ({c.kind} \cap Writes)

LEMMA PrefixIs ==
  ASSUME NEW s \in Seq(Rows), NEW n \in Nat, n <= Len(s)
  PROVE  /\ SubSeq(s, 1, n) \in Seq(Rows) /\ Len(SubSeq(s, 1, n)) = n
         /\ \A k \in 1..n : SubSeq(s, 1, n)[k] = s[k]
<1>1. 1 \in Int /\ n \in Int /\ \A k \in 1..n : s[k] \in Rows
  BY LenProperties, ElementOfSeq
<1>2. /\ SubSeq(s, 1, n) \in Seq(Rows)
      /\ Len(SubSeq(s, 1, n)) = IF 1 <= n THEN n - 1 + 1 ELSE 0
      /\ \A k \in 1..(n - 1 + 1) : SubSeq(s, 1, n)[k] = s[1 + k - 1]
  BY <1>1, SubSeqProperties
<1>3. QED
  BY <1>2

LEMMA Clipped ==
  ASSUME NEW array \in Seq(Rows), NEW len \in Nat, NEW rows \in Seq(Rows), len = Len(rows),
         len <= Len(array), \A k \in 1..len : array[k] = rows[k]
  PROVE  SubSeq(array, 1, IF len <= Len(array) THEN len ELSE Len(array)) = rows
<1> DEFINE s == SubSeq(array, 1, len)
<1>1. s \in Seq(Rows) /\ Len(s) = len /\ \A k \in 1..len : s[k] = array[k]
  BY PrefixIs
<1> HIDE DEF s
<1>2. \A k \in 1..Len(s) : s[k] = rows[k]
  BY <1>1
<1>3. s = rows
  BY <1>1, <1>2, SeqEqual
<1>4. QED
  BY <1>3 DEF s

LEMMA ContentsAre ==
  ASSUME Shape
  PROVE  /\ Contents \in Seq(Rows)
         /\ db.len <= Len(heap[db.arr]) => Is(Contents)
<1> DEFINE array == heap[db.arr]
           n == IF db.len <= Len(array) THEN db.len ELSE Len(array)
<1>1. array \in Seq(Rows) /\ db.len \in Nat
  BY DEF Shape
<1>2. n \in Nat /\ n <= Len(array)
  BY <1>1, LenProperties
<1>3. Contents = SubSeq(array, 1, n)
  BY DEF Contents
<1>4. db.len <= Len(array) => n = db.len
  OBVIOUS
<1> HIDE DEF n, array
<1>5. /\ Contents \in Seq(Rows) /\ Len(Contents) = n
      /\ \A k \in 1..n : Contents[k] = array[k]
  BY <1>1, <1>2, <1>3, PrefixIs
<1>6. QED
  BY <1>2, <1>4, <1>5 DEF Is, Holds, array

LEMMA ContentsIs ==
  ASSUME Shape, NEW rows \in Seq(Rows), Is(rows)
  PROVE  Contents = rows
<1>1. heap[db.arr] \in Seq(Rows) /\ db.len \in Nat
  BY DEF Shape
<1>2. /\ db.len = Len(rows) /\ db.len <= Len(heap[db.arr])
      /\ \A k \in 1..db.len : heap[db.arr][k] = rows[k]
  BY DEF Is, Holds
<1>3. QED
  BY <1>1, <1>2, Clipped DEF Contents

\* The slice after a step.
LEMMA ContentsBecome ==
  ASSUME Shape', db'.len <= Len(heap'[db'.arr])
  PROVE  /\ Contents' \in Seq(Rows) /\ Len(Contents') = db'.len
         /\ \A k \in 1..db'.len : Contents'[k] = heap'[db'.arr][k]
<1> DEFINE array == heap'[db'.arr]
           n == db'.len
<1>1. array \in Seq(Rows) /\ n \in Nat /\ n <= Len(array)
  BY DEF Shape
<1>2. Contents' = SubSeq(array, 1, n)
  BY DEF Contents
<1> HIDE DEF array, n
<1>3. QED
  BY <1>1, <1>2, PrefixIs DEF array, n

\* The record of a call that begins, before its overlaps are noted.
LEMMA StartedRecord ==
  ASSUME Shape, NEW c \in Calls
  PROVE  LET p == Started(c)
         IN  /\ p \in Thread /\ p.call = c /\ p.i = 0 /\ p.h = NoSlice /\ p.before = Contents
             /\ p.over = {}
             /\ c.kind = "find" => p.pc = "load" /\ p.n = 0 /\ p.left = {"arr", "len"}
             /\ c.kind # "find" => p.pc = "scan" /\ p.n = db.len
<1>1. /\ Contents \in Seq(Rows) /\ db.len \in Nat /\ {"load", "scan"} \subseteq Places
      /\ {"arr", "len"} \in SUBSET Words
  BY ContentsAre DEF Shape, Places, Words
<1>2. CASE c.kind = "find"
  <2> DEFINE p == [Idle EXCEPT !.pc = "load", !.call = c, !.left = {"arr", "len"},
                               !.before = Contents]
  <2>1. Started(c) = p
    BY <1>2 DEF Started
  <2>2. p \in Thread
    BY <1>1, IdleIsThread DEF Thread, Words
  <2>3. /\ p.pc = "load" /\ p.call = c /\ p.i = 0 /\ p.n = 0 /\ p.h = NoSlice
        /\ p.left = {"arr", "len"} /\ p.before = Contents /\ p.over = {}
    BY IdleIsThread DEF Thread
  <2>4. QED
    BY <1>2, <2>1, <2>2, <2>3
<1>3. CASE c.kind # "find"
  <2> DEFINE p == [Idle EXCEPT !.pc = "scan", !.call = c, !.n = db.len, !.before = Contents]
  <2>1. Started(c) = p
    BY <1>3 DEF Started
  <2>2. p \in Thread
    BY <1>1, IdleIsThread DEF Thread
  <2>3. /\ p.pc = "scan" /\ p.call = c /\ p.i = 0 /\ p.n = db.len /\ p.h = NoSlice
        /\ p.before = Contents /\ p.over = {}
    BY IdleIsThread DEF Thread
  <2>4. QED
    BY <1>3, <2>1, <2>2, <2>3
<1>4. QED
  BY <1>2, <1>3

LEMMA OverRecord ==
  ASSUME NEW q \in Thread, NEW over \in SUBSET {"create", "delete", "midway"}
  PROVE  LET p == [q EXCEPT !.over = over]
         IN  /\ p \in Thread /\ p.over = over
             /\ p.pc = q.pc /\ p.call = q.call /\ p.i = q.i /\ p.n = q.n /\ p.h = q.h
             /\ p.left = q.left /\ p.found = q.found /\ p.status = q.status
             /\ p.before = q.before
BY DEF Thread

LEMMA BeginSteps ==
  ASSUME Shape, NEW t \in Threads, Begin(t)
  PROVE  \E c \in Calls :
           /\ th' \in [Threads -> Thread]
           /\ BeginsAs(t, c) /\ OthersSee(t, c)
           /\ ~raced' => ~raced /\ (c.kind \in Writes => KindsOf(t) = {})
<1> DEFINE started(c) == [th EXCEPT ![t] = Started(c)]
           Overs == SUBSET {"create", "delete", "midway"}
<1>1. PICK c \in Calls :
        /\ th' = [s \in Threads |->
                    IF Busy(started(c), s)
                    THEN [started(c)[s] EXCEPT !.over = @ \cup Overlap(started(c), s)]
                    ELSE started(c)[s]]
        /\ raced' = (raced \/ (c.kind \in Writes /\ Writers(th, t) # {}))
  BY DEF Begin
<1>2. th \in [Threads -> Thread] /\ th[t].pc = "idle"
  BY DEF Begin, Shape
<1> DEFINE new == started(c)
           ov(s) == Overlap(new, s)
           others(s) == Writers(new, s)
           kinds(s) == {new[u].call.kind : u \in others(s)}
<1>3. LET p == Started(c)
      IN  /\ p \in Thread /\ p.call = c /\ p.i = 0 /\ p.h = NoSlice /\ p.before = Contents
          /\ p.over = {} /\ p.pc \in {"load", "scan"}
          /\ c.kind = "find" => p.pc = "load" /\ p.n = 0 /\ p.left = {"arr", "len"}
          /\ c.kind # "find" => p.pc = "scan" /\ p.n = db.len
  BY StartedRecord
<1>4. /\ new \in [Threads -> Thread] /\ new[t] = Started(c)
      /\ \A s \in Threads \ {t} : new[s] = th[s]
  BY <1>2, <1>3
<1> HIDE DEF started
<1>5. Writing(new[t]) <=> c.kind \in Writes
  BY <1>3, <1>4 DEF Writing, AtWork
<1>6. \A s \in Threads : others(s) = {u \in Threads \ {s} : Writing(new[u])}
  BY <1>4 DEF Writers, Busy, Writing, AtWork
<1>7. kinds(t) = KindsOf(t)
  BY <1>4, <1>6 DEF KindsOf
<1>8. ASSUME NEW s \in Threads \ {t}
      PROVE  /\ kinds(s) \subseteq KindsOf(s) \cup ({c.kind} \cap Writes)
             /\ c.kind \in Writes => c.kind \in kinds(s)
  BY <1>3, <1>4, <1>5, <1>6 DEF KindsOf
<1>9. \A s \in Threads : kinds(s) \subseteq Writes
  BY <1>6 DEF Writing
<1>10. /\ ov(t) = KindsOf(t) \cup (IF KindsOf(t) # {} THEN {"midway"} ELSE {})
       /\ \A s \in Threads \ {t} : th[s].pc # "idle" => ov(s) = kinds(s)
  <2>1. \A s \in Threads : ov(s) = kinds(s) \cup
          (IF th[s].pc = "idle" /\ others(s) # {} THEN {"midway"} ELSE {})
    BY DEF Overlap
  <2>2. others(t) # {} <=> kinds(t) # {}
    OBVIOUS
  <2> HIDE DEF ov, others, kinds
  <2>3. ov(t) = kinds(t) \cup (IF kinds(t) # {} THEN {"midway"} ELSE {})
    BY <1>2, <2>1, <2>2
  <2>4. QED
    BY <1>7, <2>1, <2>3
<1> HIDE DEF ov, others, kinds
<1>11. \A s \in Threads :
         /\ Busy(new, s) => th'[s] = [new[s] EXCEPT !.over = new[s].over \cup ov(s)]
         /\ ~Busy(new, s) => th'[s] = new[s]
  BY <1>1 DEF ov
<1>12. DOMAIN th' = Threads /\ th' = [s \in Threads |-> th'[s]]
  BY <1>1
<1> HIDE DEF new
<1>13. /\ th'[t] \in Thread /\ BeginsAs(t, c)
  <2> DEFINE q == new[t]
             over == {} \cup ov(t)
             p == [q EXCEPT !.over = over]
  <2>1. Busy(new, t) /\ q.over = {} /\ q \in Thread
    BY <1>3, <1>4 DEF Busy
  <2>2. over \in Overs /\ KindsOf(t) \subseteq over
          /\ (KindsOf(t) # {} => "midway" \in over) /\ (KindsOf(t) = {} => over = {})
    BY <1>7, <1>9, <1>10 DEF Writes
  <2>3. th'[t] = p
    BY <1>11, <2>1
  <2> HIDE DEF over
  <2>4. /\ p \in Thread /\ p.over = over /\ p.pc = q.pc /\ p.call = q.call /\ p.i = q.i
        /\ p.n = q.n /\ p.h = q.h /\ p.left = q.left /\ p.before = q.before
    BY <2>1, <2>2, OverRecord
  <2>5. QED
    BY <1>2, <1>3, <1>4, <2>2, <2>3, <2>4 DEF BeginsAs
<1>14. ASSUME NEW s \in Threads \ {t}
       PROVE  /\ th'[s] \in Thread
              /\ th'[s].pc = th[s].pc /\ th'[s].call = th[s].call /\ th'[s].i = th[s].i
              /\ th'[s].n = th[s].n /\ th'[s].h = th[s].h /\ th'[s].left = th[s].left
              /\ th'[s].found = th[s].found /\ th'[s].status = th[s].status
              /\ th'[s].before = th[s].before
              /\ th[s].over \subseteq th'[s].over
              /\ AtWork(th[s]) /\ c.kind \in Writes => c.kind \in th'[s].over
              /\ ~AtWork(th[s]) => th'[s].over = th[s].over
              /\ th'[s].over \subseteq th[s].over \cup KindsOf(s) \cup ({c.kind} \cap Writes)
  <2> DEFINE q == th[s]
             over == q.over \cup ov(s)
             p == [q EXCEPT !.over = over]
  <2>1. new[s] = q /\ q \in Thread /\ (Busy(new, s) <=> AtWork(q))
    BY <1>2, <1>4 DEF Busy, AtWork
  <2>2. CASE ~AtWork(q)
    BY <1>11, <2>1, <2>2
  <2>3. CASE AtWork(q)
    <3>1. ov(s) = kinds(s)
      BY <1>10, <2>3 DEF AtWork
    <3>2. /\ over \in Overs /\ q.over \subseteq over
          /\ (c.kind \in Writes => c.kind \in over)
          /\ over \subseteq q.over \cup KindsOf(s) \cup ({c.kind} \cap Writes)
      BY <1>8, <1>9, <2>1, <3>1 DEF Writes, Thread
    <3>3. th'[s] = p
      BY <1>11, <2>1, <2>3
    <3> HIDE DEF over
    <3>4. /\ p \in Thread /\ p.over = over /\ p.pc = q.pc /\ p.call = q.call /\ p.i = q.i
          /\ p.n = q.n /\ p.h = q.h /\ p.left = q.left /\ p.found = q.found
          /\ p.status = q.status /\ p.before = q.before
      BY <2>1, <3>2, OverRecord
    <3>5. QED
      BY <2>3, <3>2, <3>3, <3>4
  <2>4. QED
    BY <2>2, <2>3
<1>15. th' \in [Threads -> Thread]
  BY <1>12, <1>13, <1>14
<1>16. ~raced' => ~raced /\ ~(c.kind \in Writes /\ Writers(th, t) # {})
  BY <1>1, Zenon
<1>17. Writers(th, t) # {} <=> KindsOf(t) # {}
  BY <1>2, WritersAre DEF KindsOf
<1>18. OthersSee(t, c)
  BY <1>14 DEF OthersSee
<1>19. QED
  BY <1>13, <1>15, <1>16, <1>17, <1>18

(***************************************************************************)
(* The shape is kept.                                                      *)
(***************************************************************************)
LEMMA ShapeMoves ==
  ASSUME Shape, NEW t \in Threads, Moves(t), Held(th'[t]),
         heap' \in [Arrays -> Seq(Rows)], db' \in [arr : Arrays, len : Nat]
  PROVE  Shape'
<1>1. ASSUME NEW s \in Threads PROVE Held(th[s])'
  <2>1. Held(th[s]) /\ (s # t => th'[s] = th[s])
    BY DEF Shape, Moves
  <2>2. QED
    BY <2>1 DEF Held, AtWork, Looking
<1>2. QED
  BY <1>1 DEF Shape, Moves

\* A goroutine that ends holds nothing.
LEMMA EndedHolds ==
  ASSUME Shape, NEW t \in Threads, NEW status, th[t].pc # "idle", Ends(t, status)
  PROVE  Held(th'[t]) /\ Moves(t)
<1>1. th[t].call # None
  BY DEF Shape, Held
<1>2. /\ th'[t].pc = "reply" /\ th'[t].call # None /\ th'[t].i <= th'[t].n /\ Moves(t)
  BY <1>1 DEF Ends
<1>3. QED
  BY <1>2 DEF Held, AtWork

LEMMA ReaderShape ==
  ASSUME Shape, NEW t \in Threads, UNCHANGED <<heap, db>>, Moves(t), Held(th'[t])
  PROVE  Shape'
BY ShapeMoves DEF Shape

LEMMA LoadShape ==
  ASSUME Shape, NEW t \in Threads, NEW f \in {"arr", "len"}, Load(t, f) PROVE Shape'
<1> DEFINE q == th[t]
           h == Loaded(t, f)
           left == q.left \ {f}
           p == th'[t]
<1>1. Held(q) /\ q \in Thread /\ UNCHANGED <<heap, db>> /\ db.arr # 0
  BY ArraysArePositive DEF Shape, Load
<1>2. /\ q.pc = "load" /\ f \in q.left /\ h \in Headers
      /\ f = "arr" => h.arr = db.arr
      /\ f = "len" => h.arr = q.h.arr
      /\ Fetches(t, h, left)
  BY LoadSteps
<1>3. q.call.kind = "find" /\ Looking(q) /\ q.i = 0 /\ q.n = 0 /\ q.call # None
  BY <1>1, <1>2 DEF Held, AtWork, Looking
<1>4. "arr" \notin left => h.arr # 0
  BY <1>1, <1>2, <1>3 DEF Looking
<1>5. left \subseteq {"arr", "len"} /\ h.len \in Nat
  BY <1>2, <1>3 DEF Looking, Headers
<1> HIDE DEF left, h
<1>6. /\ p.call = q.call /\ p.h = h /\ p.left = left /\ p.i = 0
      /\ left = {} => p.pc = "scan" /\ p.n = h.len
      /\ left # {} => p.pc = "load" /\ p.n = 0
  BY <1>2, <1>3 DEF Fetches, SameCall
<1>7. Looking(p)
  BY <1>4, <1>5, <1>6 DEF Looking
<1>8. Held(p)
  BY <1>3, <1>5, <1>6, <1>7 DEF Held
<1>9. QED
  BY <1>1, <1>2, <1>8, ReaderShape DEF Fetches

\* The goroutine goes on in its loop, or behind it.
LEMMA LoopHolds ==
  ASSUME Shape, NEW t \in Threads, th[t].pc \in {"scan", "copy"},
         \/ \E status \in Nat : Ends(t, status)
         \/ \E found \in Seq(Rows) : Passes(t, found) /\ th[t].i < th[t].n
         \/ th[t].call.kind = "create" /\ Goes(t, "append", th[t].h, th[t].left)
         \/ th[t].call.kind = "delete" /\ Goes(t, "cut", th[t].h, th[t].left)
         \/ th[t].call.kind = "all" /\ Goes(t, "copy", th[t].h, th[t].left)
              /\ th[t].i < th[t].n
  PROVE  Held(th'[t]) /\ Moves(t)
<1> DEFINE q == th[t]
           p == th'[t]
<1>1. Held(q) /\ q \in Thread /\ q.i \in Nat /\ q.n \in Nat
  BY DEF Shape, Thread
<1>2. CASE \E status \in Nat : Ends(t, status)
  BY <1>2, EndedHolds
<1>3. CASE \E found \in Seq(Rows) : Passes(t, found) /\ q.i < q.n
  <2>1. Moves(t) /\ SameCall(t) /\ p.pc = "scan" /\ p.h = q.h /\ p.left = q.left
          /\ p.i = q.i + 1 /\ p.n = q.n /\ q.i < q.n
    BY <1>3 DEF Passes
  <2>2. p.i <= p.n
    BY <1>1, <2>1
  <2>3. q.call.kind = "find" => q.pc = "scan" /\ Looking(q)
    BY <1>1 DEF Held, AtWork
  <2>4. q.call.kind = "find" => Looking(p)
    BY <2>1, <2>3 DEF Looking
  <2>5. QED
    BY <1>1, <2>1, <2>2, <2>4 DEF Held, AtWork, SameCall
<1>4. CASE \/ q.call.kind = "create" /\ Goes(t, "append", q.h, q.left)
           \/ q.call.kind = "delete" /\ Goes(t, "cut", q.h, q.left)
           \/ q.call.kind = "all" /\ Goes(t, "copy", q.h, q.left) /\ q.i < q.n
  <2>1. Moves(t) /\ SameCall(t) /\ p.h = q.h /\ p.i = q.i /\ p.n = q.n
    BY <1>4 DEF Goes
  <2>2. \/ q.call.kind = "create" /\ p.pc = "append"
        \/ q.call.kind = "delete" /\ p.pc = "cut"
        \/ q.call.kind = "all" /\ p.pc = "copy" /\ q.i < q.n
    BY <1>4 DEF Goes
  <2>3. QED
    BY <1>1, <2>1, <2>2 DEF Held, AtWork, SameCall
<1>5. QED
  BY <1>2, <1>3, <1>4

LEMMA ScanShape ==
  ASSUME Shape, NEW t \in Threads, Visit(t) \/ Copy(t) \/ EndScan(t) PROVE Shape'
<1> DEFINE q == th[t]
<1>1. q.pc \in {"scan", "copy"} /\ UNCHANGED <<heap, db>>
  BY DEF Visit, Copy, EndScan
<1>2. q.found \in Seq(Rows) /\ {0, 200, 404, 409} \subseteq Nat
  BY DEF Shape, Thread
<1>3. Held(th'[t]) /\ Moves(t)
  <2>1. CASE Visit(t)
    <3>1. q.i < q.n
      BY <2>1 DEF Visit
    <3>2. \/ Ends(t, 0) \/ Ends(t, 409) \/ Ends(t, 200) \/ Passes(t, q.found)
          \/ q.call.kind = "delete" /\ Goes(t, "cut", q.h, q.left)
          \/ q.call.kind = "all" /\ Goes(t, "copy", q.h, q.left)
      BY <2>1, VisitSteps
    <3>3. QED
      BY <1>1, <1>2, <3>1, <3>2, LoopHolds
  <2>2. CASE Copy(t)
    <3>1. q.i < q.n
      BY <2>2 DEF Copy, Shape, Held
    <3>2. Ends(t, 0) \/ \E x \in Rows : Passes(t, Append(q.found, x))
      BY <2>2, CopySteps
    <3>3. Ends(t, 0) \/ \E found \in Seq(Rows) : Passes(t, found)
      BY <1>2, <3>2, AppendProperties
    <3>4. QED
      BY <1>1, <1>2, <3>1, <3>3, LoopHolds
  <2>3. CASE EndScan(t)
    <3>1. \/ Ends(t, 200) \/ Ends(t, 404)
          \/ q.call.kind = "create" /\ Goes(t, "append", q.h, q.left)
      BY <2>3, EndScanSteps
    <3>2. QED
      BY <1>1, <1>2, <3>1, LoopHolds
  <2>4. QED
    BY <2>1, <2>2, <2>3
<1>4. QED
  BY <1>1, <1>3, ReaderShape

LEMMA LoadAndGrowShape == ASSUME Shape, NEW t \in Threads, LoadAndGrow(t) PROVE Shape'
<1> DEFINE q == th[t]
<1>1. Held(q) /\ q.pc = "append" /\ db' = db
  BY DEF Shape, LoadAndGrow
<1>2. PICK h \in Headers, left \in SUBSET Words :
        /\ h.arr \in Arrays /\ {"len", "element"} \subseteq left
        /\ Goes(t, "write", h, left)
        /\ heap' \in [Arrays -> Seq(Rows)]
  BY LoadAndGrowSteps, Zenon
<1>3. h.arr # 0 /\ left # {}
  BY <1>2, ArraysArePositive
<1>4. /\ Moves(t) /\ SameCall(t) /\ th'[t].pc = "write" /\ th'[t].h = h /\ th'[t].left = left
      /\ th'[t].i = q.i /\ th'[t].n = q.n
  BY <1>2 DEF Goes
<1>5. Held(th'[t])
  BY <1>1, <1>3, <1>4 DEF Held, AtWork, SameCall
<1>6. QED
  BY <1>1, <1>2, <1>4, <1>5, ShapeMoves DEF Shape

\* After a write the goroutine ends, or goes on with the next one.
LEMMA WrittenHolds ==
  ASSUME Shape, NEW t \in Threads, th[t].pc = "write", NEW what \in th[t].left,
         Written(t, what)
  PROVE  Held(th'[t]) /\ Moves(t)
<1> DEFINE q == th[t]
<1>1. q \in Thread /\ Held(q)
  BY DEF Shape
<1>2. CASE Ends(t, 201)
  BY <1>2, EndedHolds
<1>3. CASE q.left # {what} /\ Goes(t, "write", q.h, q.left \ {what})
  <2>1. /\ Moves(t) /\ SameCall(t) /\ th'[t].pc = "write" /\ th'[t].h = q.h
        /\ th'[t].left # {} /\ th'[t].i = q.i /\ th'[t].n = q.n
    BY <1>3 DEF Goes
  <2>2. QED
    BY <1>1, <2>1 DEF Held, AtWork, SameCall
<1>4. QED
  BY <1>2, <1>3, WrittenSteps

LEMMA WriteWordShape ==
  ASSUME Shape, NEW t \in Threads, NEW f \in {"arr", "len"}, WriteWord(t, f) PROVE Shape'
<1> DEFINE h == th[t].h
<1>1. /\ th[t].pc = "write" /\ f \in th[t].left /\ Written(t, f)
      /\ db' = IF f = "arr" THEN [db EXCEPT !.arr = h.arr] ELSE [db EXCEPT !.len = h.len + 1]
      /\ heap' = heap
  BY DEF WriteWord
<1>2. Held(th'[t]) /\ Moves(t)
  BY <1>1, WrittenHolds
<1>3. h.arr \in Arrays /\ h.len \in Nat /\ db \in [arr : Arrays, len : Nat]
  BY <1>1, WriterHolds DEF Shape
<1>4. db' \in [arr : Arrays, len : Nat]
  BY <1>1, <1>3
<1>5. QED
  BY <1>1, <1>2, <1>4, ShapeMoves DEF Shape

LEMMA WriteElementShape == ASSUME Shape, NEW t \in Threads, WriteElement(t) PROVE Shape'
<1>1. /\ th[t].pc = "write" /\ "element" \in th[t].left /\ Written(t, "element") /\ db' = db
  BY DEF WriteElement
<1>2. heap' \in [Arrays -> Seq(Rows)]
  BY ElementStored
<1>3. Held(th'[t]) /\ Moves(t)
  BY <1>1, WrittenHolds
<1>4. QED
  BY <1>1, <1>2, <1>3, ShapeMoves DEF Shape

LEMMA CutShape == ASSUME Shape, NEW t \in Threads, Cut(t) PROVE Shape'
<1> DEFINE q == th[t]
           h == [arr |-> db.arr, len |-> db.len - 1]
<1>1. Held(q) /\ q.pc = "cut" /\ db' = db /\ db.arr # 0
  BY ArraysArePositive DEF Shape, Cut
<1>2. CASE Ends(t, 0) /\ UNCHANGED heap
  BY <1>1, <1>2, EndedHolds, ReaderShape
<1>3. CASE Goes(t, "shorten", h, q.left) /\ heap' \in [Arrays -> Seq(Rows)]
  <2>1. /\ Moves(t) /\ SameCall(t) /\ th'[t].pc = "shorten" /\ th'[t].h = h
        /\ th'[t].i = q.i /\ th'[t].n = q.n
    BY <1>3 DEF Goes
  <2>2. h.arr # 0
    BY <1>1
  <2> HIDE DEF h
  <2>3. Held(th'[t])
    BY <1>1, <2>1, <2>2 DEF Held, AtWork, SameCall
  <2>4. QED
    BY <1>1, <1>3, <2>1, <2>3, ShapeMoves DEF Shape
<1>4. QED
  BY <1>2, <1>3, CutSteps

LEMMA ShortenShape == ASSUME Shape, NEW t \in Threads, Shorten(t) PROVE Shape'
<1>1. th[t].pc = "shorten" /\ db' = th[t].h /\ heap' = heap /\ Reply(t, 204) /\ 204 \in Nat
  BY DEF Shorten
<1>2. th[t].h.arr \in Arrays /\ th[t].h \in Headers
  BY <1>1, WriterHolds DEF Shape, Thread
<1>3. Held(th'[t]) /\ Moves(t)
  BY <1>1, ReplyEnds, EndedHolds
<1>4. db' \in [arr : Arrays, len : Nat]
  BY <1>1, <1>2 DEF Headers
<1>5. QED
  BY <1>1, <1>3, <1>4, ShapeMoves DEF Shape

LEMMA ReturnSteps ==
  ASSUME Shape, NEW t \in Threads, Return(t)
  PROVE  /\ th[t].pc = "reply" /\ Moves(t) /\ th'[t] = Idle /\ db' = db
         /\ heap' \in [Arrays -> Seq(Rows)]
         /\ heap'[db.arr] = heap[db.arr]
         /\ \A s \in Threads : AtWork(th[s]) /\ th[s].h.arr # 0 =>
              heap'[th[s].h.arr] = heap[th[s].h.arr]
<1>1. th[t].pc = "reply" /\ th' = [th EXCEPT ![t] = Idle] /\ db' = db
      /\ heap' = [a \in Arrays |-> IF InUse(a) THEN heap[a] ELSE <<>>]
  BY DEF Return
<1>2. Moves(t) /\ th'[t] = Idle
  BY <1>1, IdleIsThread, OneMoves DEF Shape
<1>3. <<>> \in Seq(Rows)
  BY EmptySeq
<1>4. heap' \in [Arrays -> Seq(Rows)]
  BY <1>1, <1>3 DEF Shape
<1>5. db.arr \in Arrays /\ InUse(db.arr)
  BY DEF Shape, InUse
<1>6. ASSUME NEW s \in Threads, AtWork(th[s]), th[s].h.arr # 0
      PROVE  heap'[th[s].h.arr] = heap[th[s].h.arr]
  <2>1. th[s].h.arr \in Arrays
    BY <1>6 DEF Shape, Thread, Headers
  <2>2. InUse(th[s].h.arr)
    BY <1>6 DEF InUse, Busy, AtWork
  <2>3. QED
    BY <1>1, <2>1, <2>2
<1>7. QED
  BY <1>1, <1>2, <1>4, <1>5, <1>6

LEMMA ReturnShape == ASSUME Shape, NEW t \in Threads, Return(t) PROVE Shape'
<1>1. Moves(t) /\ th'[t] = Idle /\ db' = db /\ heap' \in [Arrays -> Seq(Rows)]
  BY ReturnSteps
<1>2. Held(th'[t])
  BY <1>1, IdleIsThread DEF Held, AtWork
<1>3. QED
  BY <1>1, <1>2, ShapeMoves DEF Shape

LEMMA BeginShape == ASSUME Shape, NEW t \in Threads, Begin(t) PROVE Shape'
<1>1. PICK c \in Calls : th' \in [Threads -> Thread] /\ BeginsAs(t, c) /\ OthersSee(t, c)
  BY BeginSteps
<1>2. heap' = heap /\ db' = db
  BY DEF Begin
<1>3. ASSUME NEW s \in Threads \ {t} PROVE Held(th'[s])
  <2>1. Held(th[s])
    BY DEF Shape
  <2>2. QED
    BY <1>1, <2>1 DEF OthersSee, Held, AtWork, Looking
<1>4. Held(th'[t])
  <2> DEFINE p == th'[t]
  <2>1. c # None /\ db.len \in Nat
    BY CallKinds DEF Shape
  <2>2. /\ p.call = c /\ p.i = 0 /\ p.pc \in {"load", "scan"}
        /\ c.kind = "find" => p.pc = "load" /\ p.n = 0 /\ p.left = {"arr", "len"}
        /\ c.kind # "find" => p.pc = "scan" /\ p.n = db.len
    BY <1>1 DEF BeginsAs
  <2>3. c.kind = "find" => Looking(p)
    BY <2>2 DEF Looking
  <2>4. QED
    BY <2>1, <2>2, <2>3 DEF Held
<1>5. ASSUME NEW s \in Threads PROVE Held(th[s])'
  <2>1. Held(th'[s])
    BY <1>3, <1>4
  <2>2. QED
    BY <2>1 DEF Held, AtWork, Looking
<1>6. QED
  BY <1>1, <1>2, <1>5 DEF Shape

LEMMA StepShape == ASSUME Shape, NEW t \in Threads, Step(t) PROVE Shape'
BY BeginShape, LoadShape, ScanShape, LoadAndGrowShape, WriteWordShape,
   WriteElementShape, CutShape, ShortenShape, ReturnShape DEF Step

LEMMA InitShape == Init => Shape
<1> SUFFICES ASSUME Init PROVE Shape
  OBVIOUS
<1>1. heap = [a \in Arrays |-> <<>>] /\ db = [arr |-> 1, len |-> 0]
      /\ th = [t \in Threads |-> Idle]
  BY DEF Init
<1>2. <<>> \in Seq(Rows)
  BY EmptySeq
<1>3. 1 \in Arrays
  BY FS_CardinalityType, ThreadsAssumption DEF Arrays, ThreadsAssumption
<1>4. \A t \in Threads : Held(th[t])
  BY <1>1, IdleIsThread DEF Held, AtWork
<1>5. QED
  BY <1>1, <1>2, <1>3, <1>4, IdleIsThread DEF Shape

LEMMA ShapeInvariant == Spec => []Shape
<1>1. Shape /\ [Next]_vars => Shape'
  <2> SUFFICES ASSUME Shape, [Next]_vars PROVE Shape'
    OBVIOUS
  <2>1. CASE UNCHANGED vars
    BY <2>1 DEF vars, Shape, Held, AtWork, Looking
  <2>2. CASE Next
    BY <2>2, StepShape DEF Next
  <2>3. QED
    BY <2>1, <2>2
<1>2. QED
  BY <1>1, InitShape, PTL DEF Spec

\* Each goroutine is at a place of its call, within its loop, and what it reads
\* are rows.
THEOREM TypeInvariant == Spec => []TypeOK
<1>1. Shape => TypeOK
  <2> SUFFICES ASSUME Shape PROVE TypeOK
    OBVIOUS
  <2>1. ASSUME NEW t \in Threads
        PROVE  /\ th[t].call = None <=> th[t].pc = "idle"
               /\ th[t].i <= th[t].n
               /\ th[t].pc = "load" => th[t].call.kind = "find"
               /\ th[t].pc = "copy" => th[t].call.kind = "all"
               /\ th[t].pc \in {"append", "write"} => th[t].call.kind = "create"
               /\ th[t].pc \in {"cut", "shorten"} => th[t].call.kind = "delete"
               /\ th[t].pc \in {"write", "shorten"} => th[t].h.arr # 0
    BY DEF Shape, Held
  <2>2. QED
    BY <2>1 DEF Shape, TypeOK
<1>2. QED
  BY <1>1, ShapeInvariant, PTL

(***************************************************************************)
(* Who overlaps whom.                                                      *)
(***************************************************************************)
\* Nobody begins.
NobodyBegins ==
  /\ ~raced' => ~raced
  /\ \A s \in Threads : AtWork(th'[s]) =>
       AtWork(th[s]) /\ th'[s].call = th[s].call /\ th'[s].over = th[s].over

LEMMA ApartStays == ASSUME Apart, NobodyBegins PROVE Apart'
<1>1. \A s \in Threads : Writing(th'[s]) =>
        Writing(th[s]) /\ th'[s].call = th[s].call /\ th'[s].over = th[s].over
  BY DEF NobodyBegins, Writing
<1>2. OverlapsSeen'
  BY <1>1 DEF Apart, OverlapsSeen, NobodyBegins
<1>3. OneWriter' /\ WriterAlone'
  BY <1>1 DEF Apart, OneWriter, WriterAlone, NobodyBegins
<1>4. QED
  BY <1>2, <1>3 DEF Apart

\* The steps within a request, and its end.
LEMMA WithinRequest ==
  ASSUME Shape, NEW t \in Threads, AtWork(th[t]) \/ ~AtWork(th'[t]),
         Moves(t), SameCall(t) \/ ~AtWork(th'[t]), ~raced' => ~raced
  PROVE  NobodyBegins
BY DEF Moves, SameCall, NobodyBegins

LEMMA ScanWithin ==
  ASSUME Shape, NEW t \in Threads,
         (\E f \in {"arr", "len"} : Load(t, f)) \/ Visit(t) \/ Copy(t) \/ EndScan(t)
  PROVE  NobodyBegins /\ Moves(t) /\ (SameCall(t) \/ ~AtWork(th'[t]))
<1>1. AtWork(th[t])
  BY DEF Load, Visit, Copy, EndScan, AtWork
<1>2. ~raced' => ~raced
  BY Zenon DEF Load, Visit, Copy, EndScan
<1>3. Moves(t) /\ (SameCall(t) \/ ~AtWork(th'[t]))
  <2>1. CASE \E f \in {"arr", "len"} : Load(t, f)
    BY <2>1, LoadSteps DEF Fetches
  <2>2. CASE Visit(t)
    BY <2>2, VisitSteps DEF Ends, Goes, Passes, AtWork
  <2>3. CASE Copy(t)
    BY <2>3, CopySteps DEF Ends, Passes, AtWork
  <2>4. CASE EndScan(t)
    BY <2>4, EndScanSteps DEF Ends, Goes, AtWork
  <2>5. QED
    BY <2>1, <2>2, <2>3, <2>4
<1>4. QED
  BY <1>1, <1>2, <1>3, WithinRequest

LEMMA WriteWithin ==
  ASSUME Shape, NEW t \in Threads,
         LoadAndGrow(t) \/ (\E f \in {"arr", "len"} : WriteWord(t, f)) \/ WriteElement(t)
           \/ Cut(t) \/ Shorten(t)
  PROVE  NobodyBegins /\ Moves(t) /\ (SameCall(t) \/ ~AtWork(th'[t]))
<1>1. ~raced' => ~raced
  BY Zenon DEF LoadAndGrow, WriteWord, WriteElement, Cut, Shorten
<1>2. AtWork(th[t])
  BY DEF LoadAndGrow, WriteWord, WriteElement, Cut, Shorten, AtWork
<1>3. Moves(t) /\ (SameCall(t) \/ ~AtWork(th'[t]))
  <2>1. CASE LoadAndGrow(t) \/ Cut(t)
    BY <2>1, LoadAndGrowSteps, CutSteps DEF Goes, Ends, AtWork
  <2>2. CASE (\E f \in {"arr", "len"} : WriteWord(t, f)) \/ WriteElement(t)
    <3>1. th[t].pc = "write" /\ \E what \in th[t].left : Written(t, what)
      BY <2>2 DEF WriteWord, WriteElement
    <3>2. QED
      BY <3>1, WrittenSteps DEF Goes, Ends, AtWork
  <2>3. CASE Shorten(t)
    <3>1. Reply(t, 204) /\ 204 \in Nat
      BY <2>3 DEF Shorten
    <3>2. QED
      BY <3>1, ReplyEnds DEF Ends, AtWork
  <2>4. QED
    BY <2>1, <2>2, <2>3
<1>4. QED
  BY <1>1, <1>2, <1>3, WithinRequest

LEMMA ReturnWithin ==
  ASSUME Shape, NEW t \in Threads, Return(t) PROVE NobodyBegins
<1>1. ~raced' => ~raced
  BY Zenon DEF Return
<1>2. Moves(t) /\ ~AtWork(th'[t])
  BY ReturnSteps, IdleIsThread DEF AtWork
<1>3. QED
  BY <1>1, <1>2, WithinRequest

LEMMA BeginApart ==
  ASSUME Shape, Apart, NEW t \in Threads, NEW c \in Calls,
         BeginsAs(t, c), OthersSee(t, c),
         ~raced' => ~raced /\ (c.kind \in Writes => KindsOf(t) = {})
  PROVE  Apart'
<1>1. \A s \in Threads \ {t} :
        /\ AtWork(th'[s]) <=> AtWork(th[s])
        /\ Writing(th'[s]) <=> Writing(th[s])
        /\ th'[s].call = th[s].call
  BY DEF OthersSee, AtWork, Writing
<1>2. AtWork(th'[t]) /\ (Writing(th'[t]) <=> c.kind \in Writes) /\ th'[t].call = c
        /\ ~AtWork(th[t])
  BY DEF BeginsAs, AtWork, Writing
<1>3. \A s \in Threads \ {t} : Writing(th[s]) => th[s].call.kind \in KindsOf(t)
  BY DEF KindsOf
<1>4. OverlapsSeen'
  <2> SUFFICES ASSUME NEW s \in Threads, NEW u \in Threads, s # u,
                      Writing(th'[s]), AtWork(th'[u])
               PROVE  th'[s].call.kind \in th'[u].over
    BY DEF OverlapsSeen
  <2>1. CASE u = t
    <3>1. th'[s].call.kind \in KindsOf(t)
      BY <1>1, <1>3, <2>1
    <3>2. QED
      BY <2>1, <3>1 DEF BeginsAs
  <2>2. CASE u # t /\ s = t
    BY <1>1, <1>2, <2>2 DEF OthersSee
  <2>3. CASE u # t /\ s # t
    <3>1. th[s].call.kind \in th[u].over
      BY <1>1, <2>3 DEF Apart, OverlapsSeen
    <3>2. QED
      BY <1>1, <2>3, <3>1 DEF OthersSee
  <2>4. QED
    BY <2>1, <2>2, <2>3
<1>5. ASSUME ~raced', NEW s \in Threads, NEW u \in Threads,
             Writing(th'[s]), Writing(th'[u])
      PROVE  s = u
  <2>1. ~raced /\ (c.kind \in Writes => KindsOf(t) = {})
    BY <1>5
  <2>2. CASE s # t /\ u # t
    BY <1>1, <1>5, <2>1, <2>2 DEF Apart, OneWriter
  <2>3. CASE s = t \/ u = t
    BY <1>1, <1>2, <1>3, <1>5, <2>1, <2>3
  <2>4. QED
    BY <2>2, <2>3
<1>6. ASSUME ~raced', NEW s \in Threads, Writing(th'[s])
      PROVE  th'[s].over = {}
  <2>1. ~raced /\ (c.kind \in Writes => KindsOf(t) = {})
    BY <1>6
  <2>2. CASE s = t
    BY <1>2, <1>6, <2>1, <2>2 DEF BeginsAs
  <2>3. CASE s # t
    <3>1. Writing(th[s]) /\ th[s].over = {}
      BY <1>1, <1>6, <2>1, <2>3 DEF Apart, WriterAlone
    <3>2. KindsOf(s) = {}
      BY <2>1, <3>1 DEF Apart, OneWriter, KindsOf
    <3>3. c.kind \notin Writes
      BY <1>3, <2>1, <2>3, <3>1
    <3>4. QED
      BY <2>3, <3>1, <3>2, <3>3 DEF OthersSee
  <2>4. QED
    BY <2>2, <2>3
<1>7. OneWriter' /\ WriterAlone'
  BY <1>5, <1>6 DEF OneWriter, WriterAlone
<1>8. QED
  BY <1>4, <1>7 DEF Apart

(***************************************************************************)
(* What a step of another goroutine leaves of a request.                   *)
(***************************************************************************)
\* p is q but for more overlaps.
SameBut(p, q) ==
  /\ p.pc = q.pc /\ p.call = q.call /\ p.i = q.i /\ p.n = q.n /\ p.h = q.h
  /\ p.left = q.left /\ p.found = q.found /\ p.status = q.status /\ p.before = q.before
  /\ q.over \subseteq p.over

\* The slice is the same, and the array that q holds.
SliceStays(q) ==
  /\ db' = db /\ heap'[db.arr] = heap[db.arr]
  /\ q.h.arr # 0 => heap'[q.h.arr] = heap[q.h.arr]

LEMMA ExactStays ==
  ASSUME Shape, NEW s \in Threads, Exact(th[s]), SameBut(th'[s], th[s]), ~raced' => ~raced,
         Undisturbed(th[s]) => SliceStays(th[s])
  PROVE  Exact(th[s])'
<1> DEFINE q == th[s]
           p == th'[s]
<1> SUFFICES ASSUME Undisturbed(th[s])'
             PROVE  /\ p.pc # "load" => Len(p.before) = p.n
                    /\ p.call.kind # "all" => Missed(p, p.i)
                    /\ p.pc \in {"load", "scan", "copy", "append", "cut"} => Is(th[s].before)'
                    /\ p.call.kind = "find" => Follows(th[s])'
                    /\ p.pc \in {"append", "write"} => p.i = p.n
                    /\ p.pc \in {"cut", "shorten"} =>
                         p.i < p.n /\ Hit(p.call, p.before[p.i + 1])
                    /\ p.pc = "write" => Appending(th[s])'
                    /\ p.pc = "shorten" => Shortening(th[s])'
  BY DEF Exact, Missed
<1>1. Undisturbed(q) /\ SliceStays(q)
  <2>1. p.over = {} /\ ~raced' /\ AtWork(p)
    BY DEF Undisturbed, AtWork
  <2>2. q.over = {} /\ ~raced /\ AtWork(q)
    BY <2>1 DEF SameBut, AtWork
  <2>3. QED
    BY <2>2 DEF Undisturbed
<1>2. \A rows : Is(rows) => db'.len = Len(rows) /\ Len(rows) <= Len(heap'[db'.arr])
                               /\ \A k \in 1..Len(rows) : heap'[db'.arr][k] = rows[k]
  BY <1>1 DEF SliceStays, Is, Holds
<1>3. Missed(q, q.i) <=> Missed(p, p.i)
  BY DEF SameBut, Missed
<1>4. q.pc \in {"load", "scan", "copy", "append", "cut"} => Is(th[s].before)'
  <2>1. SUFFICES ASSUME Is(q.before) PROVE Is(th[s].before)'
    BY <1>1 DEF Exact
  <2>2. p.before = q.before
    BY DEF SameBut
  <2>3. /\ db'.len = Len(q.before) /\ Len(q.before) <= Len(heap'[db'.arr])
        /\ \A k \in 1..Len(q.before) : heap'[db'.arr][k] = q.before[k]
    BY <1>2, <2>1
  <2>4. QED
    BY <2>2, <2>3 DEF Is, Holds
<1>5. q.call.kind = "find" => Follows(th[s])'
  BY <1>1 DEF Exact, Follows, SameBut, SliceStays
<1>6. q.pc = "write" => Appending(th[s])'
  <2>1. SUFFICES ASSUME q.pc = "write" PROVE Appending(th[s])'
    OBVIOUS
  <2>2. Appending(q) /\ q.h.arr # 0
    BY <1>1, <2>1 DEF Exact, Shape, Held
  <2>3. heap'[q.h.arr] = heap[q.h.arr] /\ db' = db /\ heap'[db.arr] = heap[db.arr]
    BY <1>1, <2>2 DEF SliceStays
  <2>4. QED
    BY <2>2, <2>3 DEF Appending, SameBut, Holds
<1>7. q.pc = "shorten" => Shortening(th[s])'
  BY <1>1 DEF Exact, Shortening, SameBut, SliceStays, ClosesUp
<1>8. QED
  BY <1>1, <1>3, <1>4, <1>5, <1>6, <1>7 DEF Exact, SameBut

\* The rows that a reader looks at are where they were, and no writer stores
\* below them.
RowsStay(q) ==
  /\ Len(q.before) <= db'.len
  /\ Len(q.before) <= Len(heap'[db'.arr])
  /\ \A k \in 1..Len(q.before) : heap'[db'.arr][k] = q.before[k]
  /\ q.h.arr # 0 /\ Holds(q.h.arr, q.before) =>
       /\ Len(q.before) <= Len(heap'[q.h.arr])
       /\ \A k \in 1..Len(q.before) : heap'[q.h.arr][k] = q.before[k]
  /\ \A w \in Threads : th'[w].pc = "write" => Len(q.before) <= th'[w].h.len

LEMMA ReadsStays ==
  ASSUME Shape, NEW s \in Threads, Reads(th[s]), SameBut(th'[s], th[s]), ~raced' => ~raced,
         AtWork(th[s]) /\ Overtaken(th[s]) => RowsStay(th[s])
  PROVE  Reads(th[s])'
<1> DEFINE q == th[s]
           p == th'[s]
<1> SUFFICES ASSUME AtWork(th[s])', Overtaken(th[s])'
             PROVE  /\ Len(p.before) <= db'.len /\ Holds(db.arr, th[s].before)'
                    /\ Spans(th[s])' /\ StoresAbove(Len(th[s].before))'
                    /\ \A k \in DOMAIN p.before :
                         k <= p.i /\ Hit(p.call, p.before[k]) => Listed(p, p.before[k])
  BY DEF Reads, Listed
<1>1. AtWork(q) /\ Overtaken(q)
  BY DEF SameBut, AtWork, Overtaken
<1>2. RowsStay(q)
  BY <1>1
<1>3. \A x : Listed(q, x) <=> Listed(p, x)
  BY DEF Listed, SameBut
<1>4. /\ Spans(q)
      /\ \A k \in DOMAIN q.before :
           k <= q.i /\ Hit(q.call, q.before[k]) => Listed(q, q.before[k])
  BY <1>1 DEF Reads
<1>5. p.before = q.before /\ p.n = q.n /\ p.i = q.i /\ p.call = q.call /\ p.h = q.h
        /\ p.left = q.left
  BY DEF SameBut
<1>6. Spans(th[s])'
  <2>1. q.call.kind = "find" /\ "arr" \notin q.left => Holds(th[s].h.arr, th[s].before)'
    <3>1. SUFFICES ASSUME q.call.kind = "find", "arr" \notin q.left
                   PROVE  Holds(th[s].h.arr, th[s].before)'
      OBVIOUS
    <3>2. q.h.arr # 0 /\ Holds(q.h.arr, q.before)
      BY <1>1, <1>4, <3>1 DEF Shape, Held, Looking, Spans
    <3>3. QED
      BY <1>2, <1>5, <3>2 DEF RowsStay, Holds
  <2>2. QED
    BY <1>4, <1>5, <2>1 DEF Spans
<1>7. Holds(db.arr, th[s].before)' /\ Len(p.before) <= db'.len /\ StoresAbove(Len(th[s].before))'
  BY <1>2, <1>5 DEF RowsStay, Holds, StoresAbove
<1>8. QED
  BY <1>3, <1>4, <1>5, <1>6, <1>7

LEMMA ToldStays ==
  ASSUME NEW s \in Threads, Told(th[s]), SameBut(th'[s], th[s]), ~raced' => ~raced
  PROVE  Told(th[s])'
<1> DEFINE q == th[s]
<1>1. \A x : Listed(q, x) <=> Listed(th'[s], x)
  BY DEF Listed, SameBut
<1>2. Overtaken(th[s])' => Overtaken(q)
  BY DEF SameBut, Overtaken
<1>3. QED
  BY <1>1, <1>2 DEF Told, SameBut, Listed

\* What every step keeps of every request.
Kept(s) == Exact(th[s])' /\ Reads(th[s])' /\ Told(th[s])'

LEMMA Stands ==
  ASSUME Shape, NEW t \in Threads, Moves(t), NEW s \in Threads \ {t} PROVE SameBut(th'[s], th[s])
BY DEF Moves, SameBut
LEMMA MemInvParts ==
  ASSUME MemInv, NEW s \in Threads
  PROVE  /\ Shape /\ Apart /\ LoopInv
         /\ Exact(th[s]) /\ Reads(th[s]) /\ Told(th[s])
BY DEF MemInv

\* The rows stay when the arrays that q looks at do, and no write begins.
LEMMA RowsStand ==
  ASSUME NEW s \in Threads, Reads(th[s]), AtWork(th[s]), Overtaken(th[s]),
         SliceStays(th[s]),
         \A w \in Threads : th'[w].pc = "write" => th[w].pc = "write" /\ th'[w].h = th[w].h
  PROVE  RowsStay(th[s])
<1> DEFINE q == th[s]
<1>1. Len(q.before) <= db.len /\ Holds(db.arr, q.before) /\ StoresAbove(Len(q.before))
  BY DEF Reads
<1>2. QED
  BY <1>1 DEF RowsStay, SliceStays, Holds, StoresAbove

\* A step that neither stores nor loads disturbs nobody.
LEMMA QuietStands ==
  ASSUME MemInv, NEW t \in Threads, Moves(t), th'[t].pc # "write",
         UNCHANGED <<heap, db>>, ~raced' => ~raced, NEW s \in Threads \ {t}
  PROVE  Kept(s)
<1> DEFINE q == th[s]
<1>1. Shape /\ Exact(q) /\ Reads(q) /\ Told(q)
  BY MemInvParts
<1>2. SameBut(th'[s], q) /\ s \in Threads
  BY <1>1, Stands
<1>3. SliceStays(q)
  BY DEF SliceStays
<1>4. \A w \in Threads : th'[w].pc = "write" => th'[w] = th[w]
  BY DEF Moves
<1>5. AtWork(q) /\ Overtaken(q) => RowsStay(q)
  BY <1>1, <1>2, <1>3, <1>4, RowsStand
<1>6. QED
  BY <1>1, <1>2, <1>3, <1>5, ExactStays, ReadsStays, ToldStays DEF Kept


(***************************************************************************)
(* The loops.                                                              *)
(***************************************************************************)
\* Where the slice that a reader or the writer found is, it reads a row of it.
LEMMA ElementIsBefore ==
  ASSUME MemInv, NEW t \in Threads, th[t].pc \in {"scan", "copy"}, th[t].i < th[t].n,
         Undisturbed(th[t]) \/ (Overtaken(th[t]) /\ th[t].i < Len(th[t].before))
  PROVE  /\ ~OutOfRange(t) /\ Element(t) = {th[t].before[th[t].i + 1]}
         /\ th[t].i < Len(th[t].before)
<1> DEFINE q == th[t]
           rows == q.before
<1>1. Shape /\ Exact(q) /\ Reads(q) /\ AtWork(q) /\ Held(q)
  BY MemInvParts DEF Shape, AtWork
<1>2. rows \in Seq(Rows) /\ q.i \in Nat /\ q.n \in Nat /\ db.len \in Nat /\ db.arr \in Arrays
  BY <1>1 DEF Shape, Thread
<1>3. Len(rows) \in Nat
  BY <1>2, LenProperties
<1>4. q.call.kind = "find" => q.pc = "scan" /\ q.left = {} /\ q.h.arr \in Arrays
  BY <1>1 DEF Held, Looking, Shape, Thread, Headers
<1>5. CASE Undisturbed(q)
  <2>1. Is(rows) /\ Len(rows) = q.n /\ (q.call.kind = "find" => q.h.arr = db.arr)
    BY <1>1, <1>4, <1>5 DEF Exact, Follows
  <2>2. Source(q) = db.arr /\ db.len = Len(rows) /\ Holds(db.arr, rows)
    BY <2>1 DEF Source, Is
  <2>3. ~OutOfRange(t) /\ q.i < Len(rows)
    BY <1>2, <2>1, <2>2 DEF OutOfRange
  <2>4. Source(q) \in Arrays /\ Holds(Source(q), rows)
    BY <1>2, <2>2
  <2>5. QED
    BY <1>1, <1>2, <2>3, <2>4, ElementIs
<1>6. CASE Overtaken(q) /\ q.i < Len(rows)
  <2>1. /\ Len(rows) <= db.len /\ Holds(db.arr, rows)
        /\ q.call.kind = "find" => Holds(q.h.arr, rows)
    BY <1>1, <1>4, <1>6 DEF Reads, Spans
  <2>2. Source(q) \in Arrays /\ Holds(Source(q), rows)
    BY <1>2, <1>4, <2>1 DEF Source
  <2>3. ~OutOfRange(t)
    BY <1>2, <1>3, <1>6, <2>1 DEF OutOfRange
  <2>4. QED
    BY <1>1, <1>2, <1>6, <2>2, <2>3, ElementIs
<1>7. QED
  BY <1>5, <1>6

\* What a request found, when it ends.
LEMMA EndsKept ==
  ASSUME NEW t \in Threads, NEW status, Ends(t, status), ~raced' => ~raced,
         Overtaken(th[t]) =>
           \A k \in DOMAIN th[t].before :
             Hit(th[t].call, th[t].before[k]) =>
               /\ status = 200
               /\ th[t].call.kind = "all" =>
                    th'[t].found = th[t].found /\ Listed(th[t], th[t].before[k])
  PROVE  Kept(t)
<1>1. /\ Ends(t, status) /\ th'[t].pc = "reply" /\ th'[t].status = status
      /\ th'[t].call = th[t].call /\ th'[t].over = th[t].over
  BY DEF Ends
<1>2. Exact(th[t])' /\ Reads(th[t])'
  BY <1>1 DEF Exact, Undisturbed, Reads, AtWork
<1>3. ASSUME Overtaken(th[t])', NEW k \in DOMAIN th'[t].before,
             Hit(th'[t].call, th'[t].before[k])
      PROVE  /\ th'[t].status = 200
             /\ th'[t].call.kind = "all" => Listed(th'[t], th'[t].before[k])
  <2>1. Overtaken(th[t])
    BY <1>1, <1>3 DEF Overtaken
  <2>2. th'[t].before = th[t].before
    BY <1>1, <2>1 DEF Overtaken, Ends, Writes
  <2>3. /\ status = 200
        /\ th[t].call.kind = "all" =>
             th'[t].found = th[t].found /\ Listed(th[t], th[t].before[k])
    BY <1>1, <1>3, <2>1, <2>2
  <2>4. QED
    BY <1>1, <2>2, <2>3 DEF Listed
<1>4. Told(th[t])'
  BY <1>3 DEF Told, Listed
<1>5. QED
  BY <1>2, <1>4 DEF Kept

\* The writers that are left found a unique slice.
LEMMA LoopBefores ==
  ASSUME LoopInv, NobodyBegins, NEW t \in Threads, Moves(t),
         SameCall(t) \/ ~AtWork(th'[t]), ~raced'
  PROVE  \A s \in Threads : Writing(th'[s]) => Unique(th'[s].before)
<1>1. ~raced
  BY DEF NobodyBegins
<1>2. \A s \in Threads : Writing(th'[s]) => Writing(th[s]) /\ th'[s].before = th[s].before
  BY DEF NobodyBegins, Moves, SameCall, Writing
<1>3. QED
  BY <1>1, <1>2 DEF LoopInv

LEMMA LoopKept ==
  ASSUME LoopInv, NobodyBegins, NEW t \in Threads, Moves(t),
         SameCall(t) \/ ~AtWork(th'[t]),
         ~raced' /\ Settled' => Clean'
  PROVE  LoopInv'
<1>1. SUFFICES ASSUME ~raced'
               PROVE  /\ \A s \in Threads : Writing(th[s])' => Unique(th'[s].before)
                      /\ Settled' => Clean'
  BY DEF LoopInv, Unique
<1>2. \A s \in Threads : Writing(th[s])' => Unique(th'[s].before)
  BY <1>1, LoopBefores DEF Writing, AtWork
<1>3. QED
  BY <1>1, <1>2

LEMMA QuietLoop ==
  ASSUME LoopInv, NobodyBegins, NEW t \in Threads, Moves(t),
         SameCall(t) \/ ~AtWork(th'[t]), db' = db, heap'[db.arr] = heap[db.arr],
         th'[t].pc \in {"write", "shorten"} \/ th[t].pc \notin {"write", "shorten"}
  PROVE  LoopInv'
<1>1. Clean => Clean'
  <2>1. Contents' = Contents
    BY DEF Contents
  <2>2. db'.len = db.len /\ heap'[db'.arr] = heap[db.arr]
    OBVIOUS
  <2>3. Unique(Contents) => Unique(Contents)'
    BY <2>1 DEF Unique
  <2>4. QED
    BY <2>2, <2>3 DEF Clean
<1>2. Settled' => Settled
  BY DEF Settled, Moves
<1>3. ~raced' => (Settled => Clean)
  BY DEF LoopInv, NobodyBegins
<1>4. QED
  BY <1>1, <1>2, <1>3, LoopKept

LEMMA PassesKept ==
  ASSUME MemInv, NEW t \in Threads, th[t].pc \in {"scan", "copy"}, th[t].i < th[t].n,
         NEW found, Passes(t, found), UNCHANGED <<heap, db>>, ~raced' => ~raced,
         \A x : Listed(th[t], x) => Listed(th'[t], x),
         Undisturbed(th[t]) =>
           ~Hit(th[t].call, th[t].before[th[t].i + 1]) \/ th[t].call.kind = "all",
         Overtaken(th[t]) /\ th[t].i < Len(th[t].before) =>
           \/ ~Hit(th[t].call, th[t].before[th[t].i + 1])
           \/ Listed(th'[t], th[t].before[th[t].i + 1])
  PROVE  Kept(t)
<1> DEFINE q == th[t]
           p == th'[t]
<1>1. /\ p.pc = "scan" /\ p.call = q.call /\ p.n = q.n /\ p.before = q.before
      /\ p.over = q.over /\ p.h = q.h /\ p.left = q.left /\ p.i = q.i + 1 /\ q.i \in Nat
  BY MemInvParts DEF Passes, SameCall, Shape, Thread
<1>2. Exact(q) /\ Reads(q) /\ AtWork(q) /\ q.before \in Seq(Rows)
  BY MemInvParts DEF AtWork, Shape, Thread
<1>3. \A k \in Nat : k <= p.i => k <= q.i \/ k = q.i + 1
  BY <1>1
<1>4. Exact(th[t])'
  <2> SUFFICES ASSUME Undisturbed(th[t])'
               PROVE  /\ Len(p.before) = p.n
                      /\ p.call.kind # "all" => Missed(p, p.i)
                      /\ Is(th[t].before)'
                      /\ p.call.kind = "find" => Follows(th[t])'
    BY <1>1 DEF Exact, Missed
  <2>1. Undisturbed(q)
    BY <1>1, <1>2 DEF Undisturbed
  <2>2. /\ Len(q.before) = q.n /\ Is(q.before)
        /\ q.call.kind # "all" => Missed(q, q.i)
        /\ q.call.kind = "find" => Follows(q)
    BY <1>2, <2>1 DEF Exact
  <2>3. q.call.kind # "all" => Missed(p, p.i)
    BY <1>1, <1>3, <2>1, <2>2 DEF Missed
  <2>4. Is(th[t].before)'
    BY <1>1, <2>2 DEF Is, Holds
  <2>5. q.call.kind = "find" => Follows(th[t])'
    BY <1>1, <2>2 DEF Follows
  <2>6. QED
    BY <1>1, <2>2, <2>3, <2>4, <2>5
<1>5. Reads(th[t])'
  <2> SUFFICES ASSUME Overtaken(th[t])'
               PROVE  /\ Len(p.before) <= db'.len /\ Holds(db.arr, th[t].before)'
                      /\ Spans(th[t])' /\ StoresAbove(Len(th[t].before))'
                      /\ \A k \in DOMAIN p.before :
                           k <= p.i /\ Hit(p.call, p.before[k]) => Listed(p, p.before[k])
    BY DEF Reads, Listed
  <2>1. Overtaken(q)
    BY <1>1 DEF Overtaken
  <2>2. /\ Len(q.before) <= db.len /\ Holds(db.arr, q.before) /\ Spans(q)
        /\ StoresAbove(Len(q.before))
        /\ \A k \in DOMAIN q.before :
             k <= q.i /\ Hit(q.call, q.before[k]) => Listed(q, q.before[k])
    BY <1>2, <2>1 DEF Reads
  <2>3. \A k \in DOMAIN q.before :
          k <= p.i /\ Hit(q.call, q.before[k]) => Listed(p, q.before[k])
    <3>1. SUFFICES ASSUME NEW k \in DOMAIN q.before, k <= p.i, Hit(q.call, q.before[k])
                   PROVE  Listed(p, q.before[k])
      OBVIOUS
    <3>2. k \in Nat /\ k <= Len(q.before) /\ Len(q.before) \in Nat
      BY <1>2, LenProperties
    <3>3. CASE k <= q.i
      BY <2>2, <3>1, <3>3
    <3>4. CASE k = q.i + 1
      <4>1. q.i < Len(q.before)
        BY <1>1, <3>2, <3>4
      <4>2. QED
        BY <2>1, <3>1, <3>4, <4>1
    <3>5. QED
      BY <1>3, <3>1, <3>2, <3>3, <3>4
  <2>4. \A w \in Threads : th'[w].pc = "write" => th'[w] = th[w]
    BY <1>1 DEF Passes, Moves
  <2>5. StoresAbove(Len(th[t].before))'
    BY <1>1, <2>2, <2>4 DEF StoresAbove
  <2>6. Spans(th[t])' /\ Holds(db.arr, th[t].before)'
    BY <1>1, <2>2 DEF Spans, Holds
  <2>7. QED
    BY <1>1, <2>2, <2>3, <2>5, <2>6
<1>6. Told(th[t])'
  BY <1>1 DEF Told
<1>7. QED
  BY <1>4, <1>5, <1>6 DEF Kept

\* What everyone else does, and the loop of Create.
LEMMA ScanOthers ==
  ASSUME MemInv, NEW t \in Threads,
         (\E f \in {"arr", "len"} : Load(t, f)) \/ Visit(t) \/ Copy(t) \/ EndScan(t)
  PROVE  LoopInv' /\ \A s \in Threads \ {t} : Kept(s)
<1>1. Shape /\ LoopInv
  BY MemInvParts
<1>2. th[t].pc \in {"load", "scan", "copy"} /\ UNCHANGED <<heap, db>>
  BY DEF Load, Visit, Copy, EndScan
<1>3. NobodyBegins /\ Moves(t) /\ (SameCall(t) \/ ~AtWork(th'[t]))
  BY <1>1, ScanWithin
<1>4. th'[t].pc # "write"
  <2>1. CASE \E f \in {"arr", "len"} : Load(t, f)
    BY <1>1, <2>1, LoadSteps DEF Fetches
  <2>2. CASE Visit(t)
    BY <1>1, <2>2, VisitSteps DEF Ends, Goes, Passes
  <2>3. CASE Copy(t)
    BY <1>1, <2>3, CopySteps DEF Ends, Passes
  <2>4. CASE EndScan(t)
    BY <1>1, <2>4, EndScanSteps DEF Ends, Goes
  <2>5. QED
    BY <2>1, <2>2, <2>3, <2>4
<1>5. ~raced' => ~raced
  BY <1>3 DEF NobodyBegins
<1>6. LoopInv'
  BY <1>1, <1>2, <1>3, QuietLoop
<1>7. QED
  BY <1>2, <1>3, <1>4, <1>5, <1>6, QuietStands

\* A lookup that loads a word of the header.
LEMMA LoadKept ==
  ASSUME MemInv, NEW t \in Threads, NEW f \in {"arr", "len"}, Load(t, f)
  PROVE  Kept(t)
<1> DEFINE q == th[t]
           p == th'[t]
<1>1. Shape /\ Exact(q) /\ Reads(q) /\ UNCHANGED <<heap, db>>
  BY MemInvParts DEF Load
<1>2. ~raced' => ~raced
  BY <1>1, ScanWithin DEF NobodyBegins
<1>3. /\ q.pc = "load" /\ f \in q.left
      /\ f = "arr" => p.h.arr = db.arr /\ p.h.len = q.h.len
      /\ f = "len" => p.h.arr = q.h.arr /\ p.h.len = db.len
      /\ Fetches(t, p.h, q.left \ {f})
  BY <1>1, LoadSteps DEF Fetches
<1>4. /\ p.call = q.call /\ p.before = q.before /\ p.over = q.over
      /\ p.left = q.left \ {f} /\ p.i = q.i /\ Moves(t)
      /\ p.left = {} => p.pc = "scan" /\ p.n = p.h.len
      /\ p.left # {} => p.pc = "load" /\ p.n = q.n
  BY <1>3 DEF Fetches, SameCall
<1>5. q.call.kind = "find" /\ Held(q) /\ AtWork(q) /\ q.i = 0 /\ q.before \in Seq(Rows)
  BY <1>1, <1>3 DEF Shape, Held, Looking, AtWork, Thread
<1>6. Exact(th[t])'
  <2> SUFFICES ASSUME Undisturbed(th[t])'
               PROVE  /\ p.pc # "load" => Len(p.before) = p.n
                      /\ Missed(p, p.i)
                      /\ Is(th[t].before)' /\ Follows(th[t])'
    BY <1>4, <1>5 DEF Exact, Missed
  <2>1. Undisturbed(q)
    BY <1>2, <1>4, <1>5 DEF Undisturbed
  <2>2. Is(q.before) /\ Follows(q)
    BY <1>1, <1>3, <1>5, <2>1 DEF Exact
  <2>3. Is(th[t].before)'
    BY <1>1, <1>4, <2>2 DEF Is, Holds
  <2>4. /\ "arr" \notin p.left => p.h.arr = db.arr
        /\ "len" \notin p.left => p.h.len = db.len
    BY <1>3, <1>4, <2>2 DEF Follows
  <2>5. Follows(th[t])'
    BY <1>1, <2>4 DEF Follows
  <2>6. p.pc # "load" => Len(p.before) = p.n
    BY <1>4, <2>2, <2>4 DEF Is
  <2>7. Missed(p, p.i)
    BY <1>4, <1>5 DEF Missed
  <2>8. QED
    BY <2>3, <2>5, <2>6, <2>7
<1>7. Reads(th[t])'
  <2> SUFFICES ASSUME Overtaken(th[t])'
               PROVE  /\ Len(p.before) <= db'.len /\ Holds(db.arr, th[t].before)'
                      /\ Spans(th[t])' /\ StoresAbove(Len(th[t].before))'
                      /\ \A k \in DOMAIN p.before :
                           k <= p.i /\ Hit(p.call, p.before[k]) => Listed(p, p.before[k])
    BY DEF Reads, Listed
  <2>1. Overtaken(q)
    BY <1>2, <1>4 DEF Overtaken
  <2>2. /\ Len(q.before) <= db.len /\ Holds(db.arr, q.before) /\ Spans(q)
        /\ StoresAbove(Len(q.before))
    BY <1>1, <1>5, <2>1 DEF Reads
  <2>3. \A k \in DOMAIN p.before : ~(k <= p.i)
    BY <1>4, <1>5, LenProperties
  <2>4. \A w \in Threads : th'[w].pc = "write" => th'[w] = th[w]
    BY <1>4 DEF Moves
  <2>5. StoresAbove(Len(th[t].before))'
    BY <1>4, <2>2, <2>4 DEF StoresAbove
  <2>6. Holds(db.arr, th[t].before)'
    BY <1>1, <1>4, <2>2 DEF Holds
  <2>7. /\ "arr" \notin p.left => Holds(p.h.arr, q.before)
        /\ "len" \notin p.left => Len(q.before) <= p.h.len
    BY <1>3, <1>4, <1>5, <2>2 DEF Spans
  <2>8. Spans(th[t])'
    BY <1>1, <1>4, <1>5, <2>7 DEF Spans, Holds
  <2>9. QED
    BY <1>1, <1>4, <2>2, <2>3, <2>5, <2>6, <2>8
<1>8. Told(th[t])'
  BY <1>4 DEF Told
<1>9. QED
  BY <1>6, <1>7, <1>8 DEF Kept

\* A reader that panics is none that creates alone overtake.
LEMMA PanicKept ==
  ASSUME MemInv, NEW t \in Threads, th[t].pc \in {"scan", "copy"}, th[t].i < th[t].n,
         OutOfRange(t), Ends(t, 0), ~raced' => ~raced
  PROVE  Kept(t)
<1>1. ~Overtaken(th[t])
  <2>1. SUFFICES ASSUME Overtaken(th[t]) PROVE FALSE
    OBVIOUS
  <2>2. Reads(th[t]) /\ AtWork(th[t]) /\ th[t].call.kind = "all"
    BY <2>1, MemInvParts DEF AtWork, OutOfRange, Overtaken
  <2>3. Len(th[t].before) = th[t].n
    BY <2>1, <2>2 DEF Reads, Spans
  <2>4. QED
    BY <2>1, <2>3, ElementIsBefore
<1>2. QED
  BY <1>1, EndsKept

LEMMA VisitKept ==
  ASSUME MemInv, NEW t \in Threads, Visit(t)
  PROVE  Kept(t)
<1> DEFINE q == th[t]
           c == q.call
           p == th'[t]
<1>1. Shape /\ q.pc = "scan" /\ q.i < q.n /\ UNCHANGED <<heap, db>>
  BY MemInvParts DEF Visit
<1>2. ~raced' => ~raced
  BY <1>1, ScanWithin DEF NobodyBegins
<1>3. Undisturbed(q) \/ (Overtaken(q) /\ q.i < Len(q.before)) =>
        Element(t) = {q.before[q.i + 1]}
  BY <1>1, ElementIsBefore
<1>4. CASE OutOfRange(t) /\ Ends(t, 0)
  BY <1>1, <1>2, <1>4, PanicKept
<1>5. ASSUME NEW x \in Element(t), ~Hit(c, x), Passes(t, q.found) PROVE Kept(t)
  <2>1. \A y : Listed(q, y) => Listed(p, y)
    BY <1>5 DEF Listed, Passes, SameCall
  <2>2. Undisturbed(q) \/ (Overtaken(q) /\ q.i < Len(q.before)) =>
          ~Hit(c, q.before[q.i + 1])
    BY <1>3, <1>5
  <2>3. QED
    BY <1>1, <1>2, <1>5, <2>1, <2>2, PassesKept
<1>6. CASE c.kind = "create" /\ Ends(t, 409)
  BY <1>2, <1>6, EndsKept DEF Overtaken
<1>7. CASE c.kind = "find" /\ Ends(t, 200)
  BY <1>2, <1>7, EndsKept
<1>8. ASSUME NEW x \in Element(t), Hit(c, x), c.kind = "delete", Goes(t, "cut", q.h, q.left)
      PROVE  Kept(t)
  <2>1. /\ p.pc = "cut" /\ p.call = c /\ p.n = q.n /\ p.before = q.before /\ p.over = q.over
        /\ p.h = q.h /\ p.i = q.i
    BY <1>8 DEF Goes, SameCall
  <2>2. Exact(q)
    BY MemInvParts
  <2>3. Exact(th[t])'
    <3> SUFFICES ASSUME Undisturbed(th[t])'
                 PROVE  /\ Len(p.before) = p.n
                        /\ Missed(p, p.i)
                        /\ Is(th[t].before)'
                        /\ p.i < p.n /\ Hit(p.call, p.before[p.i + 1])
      BY <1>8, <2>1 DEF Exact, Missed
    <3>1. Undisturbed(q)
      BY <1>1, <1>2, <2>1 DEF Undisturbed, AtWork
    <3>2. Hit(c, q.before[q.i + 1])
      BY <1>3, <1>8, <3>1
    <3>3. Len(q.before) = q.n /\ Is(q.before) /\ Missed(q, q.i)
      BY <1>1, <1>8, <2>2, <3>1 DEF Exact
    <3>4. Missed(p, p.i)
      BY <2>1, <3>3 DEF Missed
    <3>5. Is(th[t].before)'
      BY <1>1, <2>1, <3>3 DEF Is, Holds
    <3>6. QED
      BY <1>1, <2>1, <3>2, <3>3, <3>4, <3>5
  <2>4. Reads(th[t])' /\ Told(th[t])'
    BY <1>8, <2>1 DEF Reads, Told, Overtaken
  <2>5. QED
    BY <2>3, <2>4 DEF Kept
<1>9. CASE c.kind = "all" /\ Goes(t, "copy", q.h, q.left)
  <2>1. /\ p.pc = "copy" /\ p.call = c /\ p.n = q.n /\ p.before = q.before /\ p.over = q.over
        /\ p.i = q.i /\ p.found = q.found /\ Moves(t)
    BY <1>9 DEF Goes, SameCall
  <2>2. Exact(q) /\ Reads(q) /\ AtWork(q)
    BY <1>1, MemInvParts DEF AtWork
  <2>3. Exact(th[t])'
    <3> SUFFICES ASSUME Undisturbed(th[t])'
                 PROVE  Len(p.before) = p.n /\ Is(th[t].before)'
      BY <1>9, <2>1 DEF Exact, Missed
    <3>1. Undisturbed(q)
      BY <1>1, <1>2, <2>1 DEF Undisturbed, AtWork
    <3>2. Len(q.before) = q.n /\ Is(q.before)
      BY <1>1, <2>2, <3>1 DEF Exact
    <3>3. QED
      BY <1>1, <2>1, <3>2 DEF Is, Holds
  <2>4. Reads(th[t])'
    <3> SUFFICES ASSUME Overtaken(th[t])'
                 PROVE  /\ Len(p.before) <= db'.len /\ Holds(db.arr, th[t].before)'
                        /\ Spans(th[t])' /\ StoresAbove(Len(th[t].before))'
                        /\ \A k \in DOMAIN p.before :
                             k <= p.i /\ Hit(p.call, p.before[k]) => Listed(p, p.before[k])
      BY DEF Reads, Listed
    <3>1. Overtaken(q)
      BY <1>2, <2>1 DEF Overtaken
    <3>2. /\ Len(q.before) <= db.len /\ Holds(db.arr, q.before) /\ Spans(q)
          /\ StoresAbove(Len(q.before))
          /\ \A k \in DOMAIN q.before :
               k <= q.i /\ Hit(q.call, q.before[k]) => Listed(q, q.before[k])
      BY <2>2, <3>1 DEF Reads
    <3>3. \A y : Listed(q, y) => Listed(p, y)
      BY <2>1 DEF Listed
    <3>4. \A w \in Threads : th'[w].pc = "write" => th'[w] = th[w]
      BY <2>1 DEF Moves
    <3>5. StoresAbove(Len(th[t].before))'
      BY <2>1, <3>2, <3>4 DEF StoresAbove
    <3>6. Spans(th[t])' /\ Holds(db.arr, th[t].before)'
      BY <1>1, <1>9, <2>1, <3>2 DEF Spans, Holds
    <3>7. QED
      BY <1>1, <2>1, <3>2, <3>3, <3>5, <3>6
  <2>5. Told(th[t])'
    BY <2>1 DEF Told
  <2>6. QED
    BY <2>3, <2>4, <2>5 DEF Kept
<1>10. CASE ~OutOfRange(t)
  <2>1. PICK x \in Element(t) :
          \/ ~Hit(c, x) /\ Passes(t, q.found)
          \/ Hit(c, x) /\ c.kind = "create" /\ Ends(t, 409)
          \/ Hit(c, x) /\ c.kind = "delete" /\ Goes(t, "cut", q.h, q.left)
          \/ Hit(c, x) /\ c.kind = "find" /\ Ends(t, 200)
          \/ Hit(c, x) /\ c.kind = "all" /\ Goes(t, "copy", q.h, q.left)
    BY <1>1, <1>10, VisitSteps
  <2>2. QED
    BY <2>1, <1>5, <1>6, <1>7, <1>8, <1>9
<1>11. QED
  BY <1>1, <1>4, <1>10, VisitSteps

LEMMA CopyKept ==
  ASSUME MemInv, NEW t \in Threads, Copy(t)
  PROVE  Kept(t)
<1> DEFINE q == th[t]
           p == th'[t]
<1>1. Shape /\ q.pc = "copy" /\ UNCHANGED <<heap, db>>
  BY MemInvParts DEF Copy
<1>2. q.i < q.n /\ q.call.kind = "all" /\ q.found \in Seq(Rows)
  BY <1>1 DEF Shape, Held, Thread
<1>3. ~raced' => ~raced
  BY <1>1, ScanWithin DEF NobodyBegins
<1>4. CASE OutOfRange(t) /\ Ends(t, 0)
  BY <1>1, <1>2, <1>3, <1>4, PanicKept
<1>5. ASSUME NEW x \in Element(t), x \in Rows, Passes(t, Append(q.found, x))
      PROVE  Kept(t)
  <2> DEFINE f == Append(q.found, x)
  <2>1. /\ Len(f) = Len(q.found) + 1 /\ f[Len(q.found) + 1] = x /\ DOMAIN f = 1..Len(f)
        /\ DOMAIN q.found = 1..Len(q.found) /\ Len(q.found) \in Nat
        /\ \A j \in 1..Len(q.found) : f[j] = q.found[j]
    BY <1>2, <1>5, AppendProperties, LenProperties
  <2>2. p.found = f /\ p.call = q.call /\ Passes(t, f)
    BY <1>5 DEF Passes, SameCall
  <2> HIDE DEF f
  <2>3. Listed(p, x)
    BY <1>2, <2>1, <2>2 DEF Listed
  <2>4. \A y : Listed(q, y) => Listed(p, y)
    BY <1>2, <2>1, <2>2 DEF Listed
  <2>5. Overtaken(q) /\ q.i < Len(q.before) => Listed(p, q.before[q.i + 1])
    BY <1>1, <1>2, <1>5, <2>3, ElementIsBefore
  <2>6. QED
    BY <1>1, <1>2, <1>3, <2>2, <2>4, <2>5, PassesKept
<1>6. QED
  BY <1>1, <1>4, <1>5, CopySteps

LEMMA EndScanKept ==
  ASSUME MemInv, NEW t \in Threads, EndScan(t)
  PROVE  Kept(t)
<1> DEFINE q == th[t]
           c == q.call
           p == th'[t]
<1>1. Shape /\ q.pc = "scan" /\ q.i = q.n /\ UNCHANGED <<heap, db>>
  BY MemInvParts DEF EndScan
<1>2. ~raced' => ~raced
  BY <1>1, ScanWithin DEF NobodyBegins
<1>3. /\ Exact(q) /\ Reads(q) /\ q.before \in Seq(Rows) /\ AtWork(q) /\ q.n \in Nat
      /\ Held(q)
  BY <1>1, MemInvParts DEF Shape, Thread, AtWork
<1>4. Overtaken(q) => \A k \in DOMAIN q.before :
                        Hit(c, q.before[k]) => Listed(q, q.before[k])
  <2>1. SUFFICES ASSUME Overtaken(q), NEW k \in DOMAIN q.before, Hit(c, q.before[k])
                 PROVE  Listed(q, q.before[k])
    OBVIOUS
  <2>2. c.kind = "find" => q.left = {} /\ q.h.len = q.n
    BY <1>1, <1>3 DEF Held, Looking
  <2>3. Len(q.before) <= q.n
    BY <1>3, <2>1, <2>2 DEF Reads, Spans, Overtaken
  <2>4. k <= q.i
    BY <1>1, <1>3, <2>3, LenProperties
  <2>5. QED
    BY <1>3, <2>1, <2>4 DEF Reads
<1>5. CASE c.kind = "create" /\ Goes(t, "append", q.h, q.left)
  <2>1. /\ p.pc = "append" /\ p.call = c /\ p.n = q.n /\ p.before = q.before
        /\ p.over = q.over /\ p.i = q.i
    BY <1>5 DEF Goes, SameCall
  <2>2. Exact(th[t])'
    <3> SUFFICES ASSUME Undisturbed(th[t])'
                 PROVE  /\ Len(p.before) = p.n
                        /\ Missed(p, p.i)
                        /\ Is(th[t].before)'
                        /\ p.i = p.n
      BY <1>5, <2>1 DEF Exact, Missed
    <3>1. Undisturbed(q)
      BY <1>1, <1>2, <2>1 DEF Undisturbed, AtWork
    <3>2. Len(q.before) = q.n /\ Is(q.before) /\ Missed(q, q.i)
      BY <1>1, <1>3, <1>5, <3>1 DEF Exact
    <3>3. Missed(p, p.i)
      BY <2>1, <3>2 DEF Missed
    <3>4. Is(th[t].before)'
      BY <1>1, <2>1, <3>2 DEF Is, Holds
    <3>5. QED
      BY <1>1, <2>1, <3>2, <3>3, <3>4
  <2>3. Reads(th[t])' /\ Told(th[t])'
    BY <1>5, <2>1 DEF Reads, Told, Overtaken
  <2>4. QED
    BY <2>2, <2>3 DEF Kept
<1>6. CASE c.kind = "all" /\ Ends(t, 200) /\ p.found = q.found
  BY <1>2, <1>4, <1>6, EndsKept
<1>7. CASE c.kind \in {"find", "delete"} /\ Ends(t, 404)
  <2>1. \A x : ~Listed(q, x)
    BY <1>7 DEF Listed
  <2>2. Overtaken(q) => \A k \in DOMAIN q.before : ~Hit(c, q.before[k])
    BY <1>4, <2>1
  <2>3. QED
    BY <1>2, <1>7, <2>2, EndsKept
<1>8. QED
  BY <1>1, <1>5, <1>6, <1>7, EndScanSteps

(***************************************************************************)
(* The writes.                                                             *)
(***************************************************************************)
\* Others at work while t writes are overtaken by its write.
LEMMA OthersSeen ==
  ASSUME MemInv, NEW t \in Threads, Writing(th[t]), NEW s \in Threads \ {t}, AtWork(th[s])
  PROVE  th[t].call.kind \in th[s].over /\ ~Undisturbed(th[s])
BY MemInvParts DEF Apart, OverlapsSeen, Undisturbed

\* A write of t disturbs nobody but the readers it overtakes.
LEMMA WriteStands ==
  ASSUME MemInv, NEW t \in Threads, Writing(th[t]), Moves(t), ~raced' => ~raced,
         NEW s \in Threads \ {t},
         AtWork(th[s]) /\ Overtaken(th[s]) /\ th[t].call.kind = "create" => RowsStay(th[s])
  PROVE  Kept(s)
<1> DEFINE q == th[s]
<1>1. Shape /\ Exact(q) /\ Reads(q) /\ Told(q)
  BY MemInvParts
<1>2. SameBut(th'[s], q) /\ s \in Threads
  BY <1>1, Stands
<1>3. ~Undisturbed(q)
  BY OthersSeen DEF Undisturbed
<1>4. ASSUME AtWork(q), Overtaken(q) PROVE RowsStay(q)
  <2>1. th[t].call.kind \in {"create"}
    BY <1>4, OthersSeen DEF Overtaken
  <2>2. QED
    BY <1>4, <2>1
<1>5. QED
  BY <1>1, <1>2, <1>3, <1>4, ExactStays, ReadsStays, ToldStays DEF Kept

\* Before the first race a writer is undisturbed, and found a unique slice.
LEMMA WriterUndisturbed ==
  ASSUME MemInv, NEW t \in Threads, Writing(th[t]), ~raced
  PROVE  Undisturbed(th[t]) /\ Exact(th[t]) /\ Unique(th[t].before)
BY MemInvParts DEF Apart, WriterAlone, Undisturbed, Writing, LoopInv

\* A slice that one row is appended to, which the loop missed.
LEMMA AppendedUnique ==
  ASSUME NEW rows \in Seq(Rows), NEW more \in Seq(Rows), NEW c,
         c.kind = "create", Unique(rows), Len(more) = Len(rows) + 1,
         \A k \in 1..Len(rows) : more[k] = rows[k] /\ ~Hit(c, rows[k]),
         more[Len(rows) + 1] = c.row
  PROVE  Unique(more)
<1>1. /\ Len(rows) \in Nat /\ DOMAIN rows = 1..Len(rows)
      /\ DOMAIN more = 1..(Len(rows) + 1)
  BY LenProperties
<1>2. ASSUME NEW j \in 1..Len(rows)
      PROVE  more[j].uid # c.row.uid /\ more[j].name # c.row.name
  BY <1>2 DEF Hit
<1>3. ASSUME NEW j \in 1..(Len(rows) + 1), NEW k \in 1..(Len(rows) + 1),
             more[j].uid = more[k].uid \/ more[j].name = more[k].name
      PROVE  j = k
  <2>1. CASE j \in 1..Len(rows) /\ k \in 1..Len(rows)
    BY <1>1, <1>3, <2>1 DEF Unique
  <2>2. CASE j = Len(rows) + 1 /\ k = Len(rows) + 1
    BY <2>2
  <2>3. CASE j \in 1..Len(rows) /\ k = Len(rows) + 1
    BY <1>2, <1>3, <2>3
  <2>4. CASE j = Len(rows) + 1 /\ k \in 1..Len(rows)
    BY <1>2, <1>3, <2>4
  <2>5. QED
    BY <1>1, <2>1, <2>2, <2>3, <2>4
<1>4. QED
  BY <1>1, <1>3 DEF Unique

\* One that a row is cut out of.
LEMMA CutUnique ==
  ASSUME NEW rows \in Seq(Rows), NEW less \in Seq(Rows), NEW i \in Nat,
         Unique(rows), Len(less) = Len(rows) - 1, ClosesUp(less, rows, i, Len(rows))
  PROVE  Unique(less)
<1> DEFINE at(k) == IF k <= i THEN k ELSE k + 1
<1>1. /\ Len(rows) \in Nat /\ Len(less) \in Nat /\ DOMAIN rows = 1..Len(rows)
      /\ DOMAIN less = 1..Len(less)
  BY LenProperties
<1>2. \A k \in 1..Len(less) : at(k) \in 1..Len(rows) /\ less[k] = rows[at(k)]
  BY <1>1 DEF ClosesUp
<1>3. ASSUME NEW j \in 1..Len(less), NEW k \in 1..Len(less),
             less[j].uid = less[k].uid \/ less[j].name = less[k].name
      PROVE  j = k
  <2>1. less[j] = rows[at(j)] /\ less[k] = rows[at(k)]
    BY <1>2
  <2>2. at(j) \in DOMAIN rows /\ at(k) \in DOMAIN rows
    BY <1>1, <1>2
  <2>3. at(j) = at(k)
    BY <1>3, <2>1, <2>2, Zenon DEF Unique
  <2>4. QED
    BY <1>1, <2>3
<1>4. QED
  BY <1>1, <1>3 DEF Unique

LEMMA LoadAndGrowKept ==
  ASSUME MemInv, NEW t \in Threads, LoadAndGrow(t)
  PROVE  LoopInv' /\ \A s \in Threads : Kept(s)
<1> DEFINE q == th[t]
           p == th'[t]
<1>1. Shape /\ Exact(q) /\ q.pc = "append" /\ q.call.kind = "create" /\ db' = db
      /\ LoopInv
  BY MemInvParts DEF LoadAndGrow, Shape, Held
<1>2. Writing(q) /\ NobodyBegins
  BY <1>1, WriteWithin DEF Writing, AtWork, Writes
<1>3. ~raced' => ~raced
  BY <1>2 DEF NobodyBegins
<1>4. PICK h \in Headers, left \in SUBSET Words :
        /\ h.arr \in Arrays /\ h.len = db.len
        /\ {"len", "element"} \subseteq left /\ ("arr" \notin left => h.arr = db.arr)
        /\ Goes(t, "write", h, left)
        /\ \A a \in Arrays : InUse(a) => heap'[a] = heap[a]
        /\ db.len <= Len(heap[db.arr]) =>
             /\ h.len < Len(heap'[h.arr])
             /\ \A k \in 1..db.len : heap'[h.arr][k] = heap[db.arr][k]
  BY <1>1, LoadAndGrowSteps
<1>5. /\ Moves(t) /\ SameCall(t) /\ p.pc = "write" /\ p.h = h /\ p.left = left
      /\ p.i = q.i /\ p.call = q.call /\ p.n = q.n /\ p.before = q.before /\ p.over = q.over
  BY <1>4 DEF Goes, SameCall
<1>6. heap'[db.arr] = heap[db.arr]
  BY <1>1, <1>4 DEF InUse, Shape
<1>7. LoopInv'
  BY <1>1, <1>2, <1>5, <1>6, QuietLoop
<1>8. ASSUME NEW s \in Threads \ {t} PROVE Kept(s)
  <2> DEFINE r == th[s]
             m == Len(r.before)
  <2> SUFFICES ASSUME AtWork(r), Overtaken(r) PROVE RowsStay(r)
    BY <1>2, <1>3, <1>5, WriteStands
  <2>1. Reads(r) /\ r \in Thread
    BY <1>1, MemInvParts DEF Shape
  <2>2. m <= db.len /\ Holds(db.arr, r.before) /\ StoresAbove(m)
    BY <2>1 DEF Reads
  <2>3. \A w \in Threads : th'[w].pc = "write" => m <= th'[w].h.len
    BY <1>4, <1>5, <2>2 DEF Moves, StoresAbove
  <2>4. r.h.arr # 0 => heap'[r.h.arr] = heap[r.h.arr]
    <3>1. SUFFICES ASSUME r.h.arr # 0 PROVE heap'[r.h.arr] = heap[r.h.arr]
      OBVIOUS
    <3>2. r.h.arr \in Arrays
      BY <2>1, <3>1 DEF Thread, Headers
    <3>3. InUse(r.h.arr)
      BY DEF InUse, Busy, AtWork
    <3>4. QED
      BY <1>4, <3>2, <3>3
  <2>5. QED
    BY <1>1, <1>6, <2>2, <2>3, <2>4 DEF RowsStay, Holds
<1>9. Exact(th[t])'
  <2> SUFFICES ASSUME Undisturbed(th[t])'
               PROVE  /\ Len(p.before) = p.n /\ Missed(p, p.i) /\ p.i = p.n
                      /\ Appending(th[t])'
    BY <1>1, <1>5 DEF Exact, Missed
  <2>1. Undisturbed(q)
    BY <1>1, <1>3, <1>5 DEF Undisturbed, AtWork
  <2>2. /\ Len(q.before) = q.n /\ Missed(q, q.i) /\ Is(q.before) /\ q.i = q.n
    BY <1>1, <2>1 DEF Exact
  <2>3. Missed(p, p.i)
    BY <1>5, <2>2 DEF Missed
  <2>4. /\ q.n = db.len /\ db.len <= Len(heap[db.arr])
        /\ \A k \in 1..q.n : heap[db.arr][k] = q.before[k]
    BY <2>2 DEF Is, Holds
  <2>5. /\ h.len = q.n /\ q.n < Len(heap'[h.arr])
        /\ \A k \in 1..q.n : heap'[h.arr][k] = q.before[k]
    BY <1>4, <2>4
  <2>6. q.n \in Nat /\ Len(heap'[h.arr]) \in Nat
    <3>1. heap' \in [Arrays -> Seq(Rows)]
      BY <1>1, StepShape DEF Step, Shape
    <3>2. QED
      BY <1>1, <1>4, <3>1, LenProperties DEF Shape, Thread
  <2>7. Holds(th[t].h.arr, th[t].before)'
    BY <1>5, <2>2, <2>5, <2>6 DEF Holds
  <2>8. Holds(db.arr, th[t].before)'
    BY <1>1, <1>5, <1>6, <2>2, <2>4 DEF Holds
  <2>9. Appending(th[t])'
    BY <1>1, <1>4, <1>5, <2>4, <2>5, <2>7, <2>8 DEF Appending
  <2>10. QED
    BY <1>5, <2>2, <2>3, <2>9
<1>10. Reads(th[t])' /\ Told(th[t])'
  BY <1>1, <1>5 DEF Reads, Told, Overtaken
<1>11. QED
  BY <1>7, <1>8, <1>9, <1>10 DEF Kept

LEMMA AppendedContents ==
  ASSUME Shape, Shape', NEW t \in Threads, th[t].pc = "write",
         Len(th[t].before) = th[t].n, db'.len = th[t].n + 1,
         db'.len <= Len(heap'[db'.arr]),
         \A k \in 1..th[t].n : heap'[db'.arr][k] = th[t].before[k],
         heap'[db'.arr][th[t].n + 1] = th[t].call.row
  PROVE  /\ Contents' = Append(th[t].before, th[t].call.row)
         /\ Unique(th[t].before) /\ Missed(th[t], th[t].n) => Clean'
<1> DEFINE q == th[t]
           more == Contents'
<1>1. /\ q.before \in Seq(Rows) /\ q.n \in Nat
      /\ q.call.kind = "create" /\ q.call.row \in Rows
  BY WriterHolds DEF Shape, Thread
<1>2. /\ more \in Seq(Rows) /\ Len(more) = q.n + 1
      /\ \A k \in 1..q.n : more[k] = q.before[k]
      /\ more[q.n + 1] = q.call.row
  BY <1>1, ContentsBecome
<1> HIDE DEF more
<1>3. more = Append(q.before, q.call.row)
  <2> DEFINE a == Append(q.before, q.call.row)
  <2>1. /\ a \in Seq(Rows) /\ Len(a) = q.n + 1
        /\ \A k \in 1..q.n : a[k] = q.before[k]
        /\ a[q.n + 1] = q.call.row
    BY <1>1, AppendProperties
  <2> HIDE DEF a
  <2>2. \A k \in 1..(q.n + 1) : k \in 1..q.n \/ k = q.n + 1
    BY <1>1
  <2>3. \A k \in 1..(q.n + 1) : more[k] = a[k]
    BY <1>2, <2>1, <2>2
  <2>4. QED
    BY <1>2, <2>1, <2>3, SeqEqual DEF a
<1>4. ASSUME Unique(q.before), Missed(q, q.n) PROVE Unique(more)
  <2>1. \A k \in 1..Len(q.before) : more[k] = q.before[k] /\ ~Hit(q.call, q.before[k])
    BY <1>2, <1>4 DEF Missed
  <2>2. Len(more) = Len(q.before) + 1 /\ more[Len(q.before) + 1] = q.call.row
    BY <1>2
  <2> DEFINE rows == q.before
             c == q.call
  <2>3. rows \in Seq(Rows) /\ c.kind = "create"
    BY <1>1
  <2> HIDE DEF rows, c
  <2>4. QED
    BY <1>2, <1>4, <2>1, <2>2, <2>3, AppendedUnique DEF rows, c
<1>5. Unique(more) => Clean'
  BY DEF more, Clean, Unique
<1>6. QED
  BY <1>3, <1>4, <1>5 DEF more

\* A word that is written.
LEMMA WordSteps ==
  ASSUME Shape, NEW t \in Threads, NEW f \in {"arr", "len"}, WriteWord(t, f)
  PROVE  /\ th[t].pc = "write" /\ f \in th[t].left /\ Written(t, f) /\ heap' = heap
         /\ f = "arr" => db'.arr = th[t].h.arr /\ db'.len = db.len
         /\ f = "len" => db'.arr = db.arr /\ db'.len = th[t].h.len + 1
<1>1. db \in [arr : Arrays, len : Nat]
  BY DEF Shape
<1>2. th[t].pc = "write" /\ f \in th[t].left /\ Written(t, f) /\ heap' = heap
  BY DEF WriteWord
<1>3. CASE f = "arr"
  <2>1. db' = [db EXCEPT !.arr = th[t].h.arr]
    BY <1>3 DEF WriteWord
  <2>2. QED
    BY <1>1, <1>2, <1>3, <2>1
<1>4. CASE f = "len"
  <2>1. db' = [db EXCEPT !.len = th[t].h.len + 1]
    BY <1>4 DEF WriteWord
  <2>2. QED
    BY <1>1, <1>2, <1>4, <2>1
<1>5. QED
  BY <1>3, <1>4

Stores(t) == (\E f \in {"arr", "len"} : WriteWord(t, f)) \/ WriteElement(t)

\* The writes of an append, in any order, append.
LEMMA LastWriteAppends ==
  ASSUME MemInv, NEW t \in Threads, Stores(t), th'[t].pc = "reply", Undisturbed(th[t])
  PROVE  /\ Ends(t, 201)
         /\ Contents' = Append(th[t].before, th[t].call.row)
         /\ Unique(th[t].before) => Clean'
<1> DEFINE q == th[t]
           a == q.h.arr
<1>1. Shape /\ Exact(q)
  BY MemInvParts
<1>2. Shape'
  BY <1>1, StepShape DEF Step, Stores
<1>3. q.pc = "write" /\ q.n \in Nat
  BY <1>1 DEF Stores, WriteWord, WriteElement, Shape, Thread
<1>4. a \in Arrays /\ Len(heap[a]) \in Nat /\ q.call.kind = "create"
  BY <1>1, <1>3, WriterHolds, LenProperties
<1>5. Len(q.before) = q.n /\ Missed(q, q.n) /\ Appending(q)
  BY <1>1, <1>3, <1>4 DEF Exact
<1>6. q.h.len = q.n /\ q.n + 1 <= Len(heap[a]) /\ \A k \in 1..q.n : heap[a][k] = q.before[k]
  BY <1>3, <1>4, <1>5 DEF Appending, Holds
<1>7. ASSUME NEW f \in {"arr", "len"}, WriteWord(t, f)
      PROVE  Ends(t, 201) /\ db'.arr = a /\ db'.len = q.n + 1 /\ heap' = heap
               /\ heap[a][q.n + 1] = q.call.row
  <2>1. /\ Written(t, f) /\ heap' = heap /\ f \in q.left
        /\ f = "arr" => db'.arr = q.h.arr /\ db'.len = db.len
        /\ f = "len" => db'.arr = db.arr /\ db'.len = q.h.len + 1
    BY <1>1, <1>7, WordSteps
  <2>2. q.left = {f} /\ Ends(t, 201)
    BY <1>1, <1>3, <2>1, WrittenSteps DEF Goes
  <2>3. /\ f = "arr" => db.len = q.n + 1
        /\ f = "len" => db.arr = q.h.arr
        /\ heap[a][q.n + 1] = q.call.row
    BY <1>5, <2>2 DEF Appending
  <2>4. QED
    BY <1>6, <2>1, <2>2, <2>3
<1>8. CASE \E f \in {"arr", "len"} : WriteWord(t, f)
  <2>1. Ends(t, 201) /\ db'.arr = a /\ db'.len = q.n + 1 /\ heap' = heap
          /\ heap[a][q.n + 1] = q.call.row
    BY <1>7, <1>8
  <2>2. QED
    BY <1>1, <1>2, <1>3, <1>5, <1>6, <2>1, AppendedContents
<1>9. CASE WriteElement(t)
  <2>1. q.left = {"element"} /\ Ends(t, 201)
    BY <1>1, <1>3, <1>9, WrittenSteps DEF WriteElement, Goes
  <2>2. db' = db /\ db.arr = a /\ db.len = q.n + 1
    BY <1>5, <1>9, <2>1 DEF WriteElement, Appending
  <2>3. Len(heap'[a]) = Len(heap[a]) /\ heap'[a][q.n + 1] = q.call.row
    BY <1>1, <1>3, <1>4, <1>6, <1>9, ElementStored
  <2>4. \A k \in 1..q.n : heap'[a][k] = q.before[k]
    <3>1. SUFFICES ASSUME NEW k \in 1..q.n PROVE heap'[a][k] = q.before[k]
      OBVIOUS
    <3>2. k \in Nat /\ k \in 1..Len(heap[a]) /\ k # q.h.len + 1
      BY <1>3, <1>4, <1>6
    <3>3. heap'[a][k] = heap[a][k]
      BY <1>1, <1>4, <1>9, <3>2, ElementStored
    <3>4. QED
      BY <1>6, <3>3
  <2>5. db'.arr = a /\ db'.len = q.n + 1 /\ db'.len <= Len(heap'[db'.arr])
    BY <1>6, <2>2, <2>3
  <2>6. QED
    BY <1>1, <1>2, <1>3, <1>5, <2>1, <2>3, <2>4, <2>5, AppendedContents
<1>10. QED
  BY <1>8, <1>9 DEF Stores

\* What they keep of the goroutine itself, and of the loop.
LEMMA WriteLoop ==
  ASSUME MemInv, NEW t \in Threads, Stores(t)
  PROVE  LoopInv'
<1> DEFINE q == th[t]
<1>1. Shape /\ LoopInv /\ NobodyBegins /\ Moves(t) /\ (SameCall(t) \/ ~AtWork(th'[t]))
  BY MemInvParts, WriteWithin DEF Stores
<1>2. q.pc = "write" /\ \E what \in q.left : Written(t, what)
  BY DEF Stores, WriteWord, WriteElement
<1>3. th'[t].pc \in {"write", "reply"}
  BY <1>1, <1>2, WrittenSteps DEF Goes, Ends
<1>4. ASSUME ~raced', Settled' PROVE Clean'
  <2>1. ~raced
    BY <1>1, <1>4 DEF NobodyBegins
  <2>2. th'[t].pc = "reply"
    BY <1>3, <1>4 DEF Settled
  <2>3. Writing(q)
    BY <1>1, <1>2 DEF Writing, AtWork, Writes, Shape, Held
  <2>4. QED
    BY <2>1, <2>2, <2>3, WriterUndisturbed, LastWriteAppends
<1>5. QED
  BY <1>1, <1>4, LoopKept

LEMMA WriteKept ==
  ASSUME MemInv, NEW t \in Threads, th[t].pc = "write", NEW what \in th[t].left,
         Written(t, what), ~raced' => ~raced,
         Undisturbed(th[t]) /\ th[t].left # {what} => Appending(th[t])'
  PROVE  Kept(t)
<1> DEFINE q == th[t]
           p == th'[t]
<1>1. Shape /\ Exact(q) /\ q.call.kind = "create"
  BY MemInvParts DEF Shape, Held
<1>2. CASE Ends(t, 201)
  BY <1>1, <1>2, EndsKept DEF Overtaken
<1>3. CASE q.left # {what} /\ Goes(t, "write", q.h, q.left \ {what})
  <2>1. /\ p.pc = "write" /\ p.call = q.call /\ p.n = q.n /\ p.before = q.before
        /\ p.over = q.over /\ p.i = q.i
    BY <1>3 DEF Goes, SameCall
  <2>2. Exact(th[t])'
    <3> SUFFICES ASSUME Undisturbed(th[t])'
                 PROVE  /\ Len(p.before) = p.n /\ Missed(p, p.i) /\ p.i = p.n
                        /\ Appending(th[t])'
      BY <1>1, <2>1 DEF Exact, Missed
    <3>1. Undisturbed(q)
      BY <2>1 DEF Undisturbed, AtWork
    <3>2. Missed(p, p.i)
      BY <1>1, <2>1, <3>1 DEF Exact, Missed
    <3>3. QED
      BY <1>1, <1>3, <2>1, <3>1, <3>2 DEF Exact
  <2>3. Reads(th[t])' /\ Told(th[t])'
    BY <1>1, <2>1 DEF Reads, Told, Overtaken
  <2>4. QED
    BY <2>2, <2>3 DEF Kept
<1>4. QED
  BY <1>1, <1>2, <1>3, WrittenSteps

\* Where a word of the header is written, the rows that readers look at stay.
LEMMA WriteWordKept ==
  ASSUME MemInv, NEW t \in Threads, NEW f \in {"arr", "len"}, WriteWord(t, f)
  PROVE  \A s \in Threads : Kept(s)
<1> DEFINE q == th[t]
           p == th'[t]
<1>1. Shape /\ NobodyBegins /\ Moves(t)
  BY MemInvParts, WriteWithin
<1>2. /\ q.pc = "write" /\ f \in q.left /\ Written(t, f) /\ heap' = heap
      /\ f = "arr" => db'.arr = q.h.arr /\ db'.len = db.len
      /\ f = "len" => db'.arr = db.arr /\ db'.len = q.h.len + 1
  BY <1>1, WordSteps
<1>3. q.call.kind = "create" /\ Writing(q) /\ q.h.arr \in Arrays /\ q.h.len \in Nat
  BY <1>1, <1>2, WriterHolds DEF Writing, AtWork, Writes
<1>4. ~raced' => ~raced
  BY <1>1 DEF NobodyBegins
<1>5. ~raced => Len(q.before) = q.n /\ Appending(q)
  BY <1>2, <1>3, WriterUndisturbed DEF Exact
<1>6. ASSUME NEW s \in Threads \ {t} PROVE Kept(s)
  <2> DEFINE r == th[s]
             m == Len(r.before)
  <2> SUFFICES ASSUME AtWork(r), Overtaken(r) PROVE RowsStay(r)
    BY <1>1, <1>3, <1>4, WriteStands
  <2>1. Reads(r) /\ r.before \in Seq(Rows) /\ m \in Nat
    BY <1>1, MemInvParts, LenProperties DEF Shape, Thread
  <2>2. m <= db.len /\ Holds(db.arr, r.before) /\ StoresAbove(m)
    BY <2>1 DEF Reads
  <2>3. m <= q.h.len
    BY <1>2, <2>2 DEF StoresAbove
  <2>4. Len(q.before) = q.n /\ q.h.len = q.n /\ Holds(q.h.arr, q.before)
          /\ Holds(db.arr, q.before) /\ q.n < Len(heap[q.h.arr])
    BY <1>5 DEF Overtaken, Appending
  <2>5. q.n \in Nat /\ Len(heap[q.h.arr]) \in Nat
    BY <1>1, <1>3, LenProperties DEF Shape, Thread
  <2>6. \A k \in 1..m : heap[q.h.arr][k] = r.before[k]
    <3>1. SUFFICES ASSUME NEW k \in 1..m PROVE heap[q.h.arr][k] = r.before[k]
      OBVIOUS
    <3>2. k \in 1..Len(q.before)
      BY <2>1, <2>3, <2>4, <2>5
    <3>3. heap[q.h.arr][k] = q.before[k] /\ heap[db.arr][k] = q.before[k]
      BY <2>4, <3>2 DEF Holds
    <3>4. heap[db.arr][k] = r.before[k]
      BY <2>2 DEF Holds
    <3>5. QED
      BY <3>3, <3>4
  <2>7. m <= Len(heap[q.h.arr])
    BY <2>1, <2>3, <2>4, <2>5
  <2>8. m <= db'.len
    BY <1>2, <1>3, <2>1, <2>2, <2>3
  <2>9. /\ m <= Len(heap'[db'.arr]) /\ \A k \in 1..m : heap'[db'.arr][k] = r.before[k]
    BY <1>2, <2>2, <2>6, <2>7 DEF Holds
  <2>10. p.pc = "write" => p.h = q.h
    BY <1>1, <1>2, WrittenSteps DEF Goes, Ends
  <2>11. \A w \in Threads : th'[w].pc = "write" => m <= th'[w].h.len
    BY <1>1, <1>2, <2>2, <2>10 DEF Moves, StoresAbove
  <2>12. QED
    BY <1>2, <2>8, <2>9, <2>11 DEF RowsStay, Holds
<1>7. ASSUME Undisturbed(q), q.left # {f} PROVE Appending(th[t])'
  <2>1. Goes(t, "write", q.h, q.left \ {f})
    BY <1>1, <1>2, <1>7, WrittenSteps
  <2>2. /\ p.h = q.h /\ p.left = q.left \ {f} /\ p.n = q.n /\ p.before = q.before
        /\ p.call = q.call
    BY <2>1 DEF Goes, SameCall
  <2>3. Appending(q)
    BY <1>5, <1>7 DEF Undisturbed
  <2>4. /\ q.h.len = q.n /\ q.n < Len(heap[q.h.arr])
        /\ Holds(q.h.arr, q.before) /\ Holds(db.arr, q.before)
        /\ "element" \notin q.left => heap[q.h.arr][q.n + 1] = q.call.row
    BY <2>3 DEF Appending
  <2>5. Holds(th[t].h.arr, th[t].before)' /\ Holds(db.arr, th[t].before)'
    <3>1. db'.arr = db.arr \/ db'.arr = q.h.arr
      BY <1>2
    <3>2. QED
      BY <1>2, <2>2, <2>4, <3>1 DEF Holds
  <2>6. /\ "len" \in p.left => db'.len = q.n
        /\ "len" \notin p.left => db'.len = q.n + 1
        /\ "arr" \notin p.left => db'.arr = q.h.arr
    BY <1>2, <2>2, <2>3, <2>4 DEF Appending
  <2>7. "element" \notin p.left => "element" \notin q.left
    BY <2>2
  <2>8. QED
    BY <1>2, <2>2, <2>4, <2>5, <2>6, <2>7 DEF Appending
<1>8. Kept(t)
  BY <1>2, <1>4, <1>7, WriteKept
<1>9. QED
  BY <1>6, <1>8

LEMMA WriteElementKept ==
  ASSUME MemInv, NEW t \in Threads, WriteElement(t)
  PROVE  \A s \in Threads : Kept(s)
<1> DEFINE q == th[t]
           p == th'[t]
<1>1. q.pc = "write" /\ "element" \in q.left /\ Written(t, "element") /\ db' = db
  BY DEF WriteElement
<1>2. Shape /\ NobodyBegins /\ Moves(t)
  BY MemInvParts, WriteWithin
<1>3. q.call.kind = "create" /\ Writing(q) /\ q.h.arr \in Arrays /\ q.h.len \in Nat
  BY <1>1, <1>2, WriterHolds DEF Writing, AtWork, Writes
<1>4. ~raced' => ~raced
  BY <1>2 DEF NobodyBegins
<1>5. /\ \A a \in Arrays : Len(heap'[a]) = Len(heap[a])
      /\ q.h.len < Len(heap[q.h.arr]) => heap'[q.h.arr][q.h.len + 1] = q.call.row
      /\ \A a \in Arrays, k \in Nat :
           k \in 1..Len(heap[a]) /\ ~(a = q.h.arr /\ k = q.h.len + 1) => heap'[a][k] = heap[a][k]
  BY <1>2, ElementStored
<1>6. ASSUME NEW a \in Arrays, NEW rows \in Seq(Rows), Holds(a, rows), Len(rows) <= q.h.len
      PROVE  /\ Len(rows) <= Len(heap'[a])
             /\ \A k \in 1..Len(rows) : heap'[a][k] = rows[k]
  <2>1. Len(rows) \in Nat /\ Len(heap[a]) \in Nat
    BY <1>2, LenProperties DEF Shape
  <2>2. Len(rows) <= Len(heap[a]) /\ \A k \in 1..Len(rows) : heap[a][k] = rows[k]
    BY <1>6 DEF Holds
  <2>3. \A k \in 1..Len(rows) : k \in Nat /\ k \in 1..Len(heap[a]) /\ k # q.h.len + 1
    BY <1>3, <1>6, <2>1, <2>2
  <2>4. QED
    BY <1>5, <2>2, <2>3
<1>7. ASSUME NEW s \in Threads \ {t} PROVE Kept(s)
  <2> DEFINE r == th[s]
             m == Len(r.before)
  <2> SUFFICES ASSUME AtWork(r), Overtaken(r) PROVE RowsStay(r)
    BY <1>2, <1>3, <1>4, WriteStands
  <2>1. Reads(r) /\ r.before \in Seq(Rows) /\ r.h \in Headers
    BY <1>2, MemInvParts DEF Shape, Thread
  <2>2. m <= db.len /\ Holds(db.arr, r.before) /\ StoresAbove(m)
    BY <2>1 DEF Reads
  <2>3. m <= q.h.len
    BY <1>1, <2>2 DEF StoresAbove
  <2>4. p.pc = "write" => p.h = q.h
    BY <1>1, <1>2, WrittenSteps DEF Goes, Ends
  <2>5. \A w \in Threads : th'[w].pc = "write" => m <= th'[w].h.len
    BY <1>1, <1>2, <2>2, <2>4 DEF Moves, StoresAbove
  <2>6. db.arr \in Arrays /\ (r.h.arr # 0 => r.h.arr \in Arrays)
    BY <1>2, <2>1 DEF Shape, Headers
  <2>7. /\ m <= Len(heap'[db.arr]) /\ \A k \in 1..m : heap'[db.arr][k] = r.before[k]
    BY <1>6, <2>1, <2>2, <2>3, <2>6
  <2>8. r.h.arr # 0 /\ Holds(r.h.arr, r.before) =>
          m <= Len(heap'[r.h.arr]) /\ \A k \in 1..m : heap'[r.h.arr][k] = r.before[k]
    BY <1>6, <2>1, <2>3, <2>6
  <2>9. QED
    BY <1>1, <2>2, <2>5, <2>7, <2>8 DEF RowsStay
<1>8. ASSUME Undisturbed(q), q.left # {"element"} PROVE Appending(th[t])'
  <2>1. Goes(t, "write", q.h, q.left \ {"element"})
    BY <1>1, <1>2, <1>8, WrittenSteps
  <2>2. /\ p.h = q.h /\ p.left = q.left \ {"element"} /\ p.n = q.n /\ p.before = q.before
        /\ p.call = q.call
    BY <2>1 DEF Goes, SameCall
  <2>3. Appending(q) /\ Len(q.before) = q.n
    BY <1>1, <1>3, <1>8, WriterUndisturbed DEF Exact, Undisturbed
  <2>4. /\ q.h.len = q.n /\ q.n < Len(heap[q.h.arr])
        /\ Holds(q.h.arr, q.before) /\ Holds(db.arr, q.before)
    BY <2>3 DEF Appending
  <2>5. db.arr \in Arrays /\ q.before \in Seq(Rows) /\ Len(q.before) <= q.h.len
    BY <1>2, <1>3, <2>3, <2>4 DEF Shape, Thread
  <2>6. Holds(th[t].h.arr, th[t].before)'
    <3>1. /\ Len(q.before) <= Len(heap'[q.h.arr])
          /\ \A k \in 1..Len(q.before) : heap'[q.h.arr][k] = q.before[k]
      BY <1>3, <1>6, <2>4, <2>5
    <3>2. QED
      BY <2>2, <3>1 DEF Holds
  <2>7. Holds(db.arr, th[t].before)'
    <3>1. /\ Len(q.before) <= Len(heap'[db.arr])
          /\ \A k \in 1..Len(q.before) : heap'[db.arr][k] = q.before[k]
      BY <1>6, <2>4, <2>5
    <3>2. QED
      BY <1>1, <2>2, <3>1 DEF Holds
  <2>8. heap'[q.h.arr][q.n + 1] = q.call.row /\ q.n < Len(heap'[q.h.arr])
    BY <1>3, <1>5, <2>4
  <2>9. /\ "len" \in q.left => db.len = q.n
        /\ "len" \notin q.left => db.len = q.n + 1
        /\ "arr" \notin q.left => db.arr = q.h.arr
    BY <2>3 DEF Appending
  <2>10. QED
    BY <1>1, <2>2, <2>4, <2>6, <2>7, <2>8, <2>9 DEF Appending
<1>9. Kept(t)
  BY <1>1, <1>4, <1>8, WriteKept
<1>10. QED
  BY <1>7, <1>9

LEMMA CutKept ==
  ASSUME MemInv, NEW t \in Threads, Cut(t)
  PROVE  LoopInv' /\ \A s \in Threads : Kept(s)
<1> DEFINE q == th[t]
           p == th'[t]
<1>1. /\ q.pc = "cut" /\ db' = db /\ Shape /\ LoopInv /\ Exact(q)
      /\ q.call.kind = "delete" /\ Writing(q)
  BY MemInvParts DEF Cut, Shape, Held, Writing, AtWork, Writes
<1>2. NobodyBegins /\ Moves(t) /\ (SameCall(t) \/ ~AtWork(th'[t]))
  BY <1>1, WriteWithin
<1>3. ~raced' => ~raced
  BY <1>2 DEF NobodyBegins
<1>4. \A s \in Threads \ {t} : Kept(s)
  BY <1>1, <1>2, <1>3, WriteStands
<1>5. CASE Ends(t, 0) /\ UNCHANGED heap
  <2>1. LoopInv'
    BY <1>1, <1>2, <1>5, QuietLoop
  <2>2. Kept(t)
    BY <1>1, <1>3, <1>5, EndsKept DEF Overtaken
  <2>3. QED
    BY <1>4, <2>1, <2>2
<1>6. CASE /\ Goes(t, "shorten", [arr |-> db.arr, len |-> db.len - 1], q.left)
           /\ \A a \in Arrays : Len(heap'[a]) = Len(heap[a])
           /\ db.len <= Len(heap[db.arr]) =>
                ClosesUp(heap'[db.arr], heap[db.arr], q.i, db.len)
  <2>1. /\ p.pc = "shorten" /\ p.h = [arr |-> db.arr, len |-> db.len - 1]
        /\ p.call = q.call /\ p.n = q.n /\ p.before = q.before /\ p.over = q.over
        /\ p.i = q.i
    BY <1>6 DEF Goes, SameCall
  <2>2. LoopInv'
    BY <1>1, <1>2, <2>1, LoopKept DEF Settled
  <2>3. Exact(th[t])'
    <3> SUFFICES ASSUME Undisturbed(th[t])'
                 PROVE  /\ Len(p.before) = p.n /\ Missed(p, p.i)
                        /\ p.i < p.n /\ Hit(p.call, p.before[p.i + 1])
                        /\ Shortening(th[t])'
      BY <1>1, <2>1 DEF Exact, Missed
    <3>1. Undisturbed(q)
      BY <1>1, <1>3, <2>1 DEF Undisturbed, AtWork
    <3>2. /\ Len(q.before) = q.n /\ Missed(q, q.i) /\ Is(q.before)
          /\ q.i < q.n /\ Hit(q.call, q.before[q.i + 1])
      BY <1>1, <3>1 DEF Exact
    <3>3. /\ q.n = db.len /\ db.len <= Len(heap[db.arr])
          /\ \A k \in 1..q.n : heap[db.arr][k] = q.before[k]
      BY <3>2 DEF Is, Holds
    <3>4. Missed(p, p.i)
      BY <2>1, <3>2 DEF Missed
    <3>5. \A k \in 1..(q.n - 1) :
            heap'[db.arr][k] = q.before[IF k <= q.i THEN k ELSE k + 1]
      <4>1. SUFFICES ASSUME NEW k \in 1..(q.n - 1)
                     PROVE  heap'[db.arr][k] = q.before[IF k <= q.i THEN k ELSE k + 1]
        OBVIOUS
      <4>2. (IF k <= q.i THEN k ELSE k + 1) \in 1..q.n
        BY <1>1 DEF Shape, Thread
      <4>3. heap'[db.arr][k] = heap[db.arr][IF k <= q.i THEN k ELSE k + 1]
        BY <1>6, <3>3 DEF ClosesUp
      <4>4. QED
        BY <3>3, <4>2, <4>3
    <3>6. q.n <= Len(heap'[db.arr])
      BY <1>1, <1>6, <3>3 DEF Shape
    <3>7. ClosesUp(heap[db.arr], th[t].before, th[t].i, th[t].n)'
      BY <1>1, <2>1, <3>5 DEF ClosesUp
    <3>8. Shortening(th[t])'
      BY <1>1, <2>1, <3>3, <3>6, <3>7 DEF Shortening
    <3>9. QED
      BY <2>1, <3>2, <3>4, <3>8
  <2>4. Reads(th[t])' /\ Told(th[t])'
    BY <1>1, <2>1 DEF Reads, Told, Overtaken
  <2>5. QED
    BY <1>4, <2>2, <2>3, <2>4 DEF Kept
<1>7. QED
  BY <1>1, <1>5, <1>6, CutSteps

\* The shorter header: the row is gone, and no other.
LEMMA ShortenCuts ==
  ASSUME MemInv, NEW t \in Threads, Shorten(t), Undisturbed(th[t])
  PROVE  LET q == th[t] IN
         /\ Len(q.before) = q.n /\ q.i < q.n /\ Missed(q, q.i)
         /\ Hit(q.call, q.before[q.i + 1]) /\ db'.len <= Len(heap'[db'.arr])
         /\ Contents' \in Seq(Rows) /\ Len(Contents') = q.n - 1
         /\ ClosesUp(Contents', q.before, q.i, q.n)
<1> DEFINE q == th[t]
<1>1. q.pc = "shorten" /\ db' = q.h /\ heap' = heap /\ Shape /\ Exact(q)
        /\ q.call.kind = "delete"
  BY MemInvParts DEF Shorten, Shape, Held
<1>2. Shape'
  BY <1>1, StepShape DEF Step
<1>3. /\ Len(q.before) = q.n /\ q.i < q.n /\ Missed(q, q.i)
      /\ Hit(q.call, q.before[q.i + 1]) /\ Shortening(q)
  BY <1>1 DEF Exact
<1>4. /\ db'.arr = db.arr /\ db'.len = q.n - 1 /\ q.n <= Len(heap[db.arr])
      /\ ClosesUp(heap'[db.arr], q.before, q.i, q.n)
  BY <1>1, <1>3 DEF Shortening
<1>5. q.n \in Nat /\ Len(heap[db.arr]) \in Nat
  BY <1>1, LenProperties DEF Shape, Thread
<1>6. db'.len <= Len(heap'[db'.arr])
  BY <1>1, <1>4, <1>5
<1>7. /\ Contents' \in Seq(Rows) /\ Len(Contents') = q.n - 1
      /\ \A k \in 1..(q.n - 1) : Contents'[k] = heap'[db.arr][k]
  BY <1>2, <1>4, <1>6, ContentsBecome
<1>8. ClosesUp(Contents', q.before, q.i, q.n)
  BY <1>4, <1>7 DEF ClosesUp
<1>9. QED
  BY <1>3, <1>6, <1>7, <1>8

LEMMA ShortenKept ==
  ASSUME MemInv, NEW t \in Threads, Shorten(t)
  PROVE  LoopInv' /\ \A s \in Threads : Kept(s)
<1> DEFINE q == th[t]
<1>1. /\ q.pc = "shorten" /\ Shape /\ LoopInv /\ Reply(t, 204) /\ 204 \in Nat
      /\ q.call.kind = "delete" /\ Writing(q)
  <2>1. q.pc = "shorten" /\ Reply(t, 204) /\ Shape /\ LoopInv
    BY MemInvParts DEF Shorten
  <2>2. q.call.kind = "delete"
    BY <2>1 DEF Shape, Held
  <2>3. QED
    BY <2>1, <2>2 DEF Writing, AtWork, Writes
<1>2. NobodyBegins /\ Moves(t) /\ (SameCall(t) \/ ~AtWork(th'[t]))
  BY <1>1, WriteWithin
<1>3. ~raced' => ~raced
  BY <1>2 DEF NobodyBegins
<1>4. Ends(t, 204)
  BY <1>1, ReplyEnds
<1>5. \A s \in Threads \ {t} : Kept(s)
  BY <1>1, <1>2, <1>3, WriteStands
<1>6. Kept(t)
  BY <1>1, <1>3, <1>4, EndsKept DEF Overtaken
<1>7. ~raced => Clean'
  <2>1. SUFFICES ASSUME ~raced PROVE Clean'
    OBVIOUS
  <2>2. Undisturbed(q) /\ Unique(q.before)
    BY <1>1, <2>1, WriterUndisturbed
  <2> DEFINE rows == q.before
             less == Contents'
             i == q.i
  <2>3. /\ rows \in Seq(Rows) /\ less \in Seq(Rows) /\ i \in Nat
        /\ Len(less) = Len(rows) - 1 /\ ClosesUp(less, rows, i, Len(rows))
        /\ db'.len <= Len(heap'[db'.arr])
    BY <1>1, <2>2, ShortenCuts DEF Shape, Thread
  <2> HIDE DEF rows, less, i
  <2>4. Unique(less)
    BY <2>2, <2>3, CutUnique DEF rows
  <2>5. QED
    BY <2>3, <2>4 DEF less, Clean, Unique
<1>8. LoopInv'
  BY <1>1, <1>2, <1>3, <1>7, LoopKept
<1>9. QED
  BY <1>5, <1>6, <1>8

LEMMA ReturnKept ==
  ASSUME MemInv, NEW t \in Threads, Return(t)
  PROVE  LoopInv' /\ \A s \in Threads : Kept(s)
<1>1. Shape /\ LoopInv /\ NobodyBegins
  BY MemInvParts, ReturnWithin
<1>2. ~raced' => ~raced
  BY <1>1 DEF NobodyBegins
<1>3. /\ th[t].pc = "reply" /\ Moves(t) /\ th'[t].pc = "idle" /\ db' = db
      /\ heap'[db.arr] = heap[db.arr]
      /\ \A s \in Threads : AtWork(th[s]) /\ th[s].h.arr # 0 =>
           heap'[th[s].h.arr] = heap[th[s].h.arr]
  BY <1>1, ReturnSteps, IdleIsThread
<1>4. ASSUME NEW s \in Threads \ {t} PROVE Kept(s)
  <2> DEFINE r == th[s]
  <2>1. Exact(r) /\ Reads(r) /\ Told(r) /\ s \in Threads /\ SameBut(th'[s], r)
    BY <1>1, <1>3, MemInvParts, Stands
  <2>2. AtWork(r) => SliceStays(r)
    BY <1>3 DEF SliceStays
  <2>3. \A w \in Threads : th'[w].pc = "write" => th'[w] = th[w]
    BY <1>3 DEF Moves
  <2>4. AtWork(r) /\ Overtaken(r) => RowsStay(r)
    BY <2>1, <2>2, <2>3, RowsStand
  <2>5. QED
    BY <1>1, <1>2, <2>1, <2>2, <2>4, ExactStays, ReadsStays, ToldStays DEF Kept, Undisturbed
<1>5. Kept(t)
  BY <1>3 DEF Kept, Exact, Reads, Told, Undisturbed, AtWork
<1>6. LoopInv'
  BY <1>1, <1>3, QuietLoop DEF AtWork
<1>7. QED
  BY <1>4, <1>5, <1>6

LEMMA BeginKept ==
  ASSUME MemInv, NEW t \in Threads, Begin(t)
  PROVE  Apart' /\ LoopInv' /\ \A s \in Threads : Kept(s)
<1>1. Shape /\ Apart /\ LoopInv /\ UNCHANGED <<heap, db>>
  BY MemInvParts DEF Begin
<1>2. PICK c \in Calls :
        /\ BeginsAs(t, c) /\ OthersSee(t, c)
        /\ ~raced' => ~raced /\ (c.kind \in Writes => KindsOf(t) = {})
  BY <1>1, BeginSteps
<1>3. ~raced' => ~raced
  BY <1>2
<1> DEFINE p == th'[t]
<1>4. /\ th[t].pc = "idle" /\ p.call = c /\ p.i = 0 /\ p.before = Contents
      /\ c.kind = "find" => p.pc = "load" /\ p.left = {"arr", "len"}
      /\ c.kind # "find" => p.pc = "scan" /\ p.n = db.len
      /\ KindsOf(t) # {} => "midway" \in p.over
  BY <1>2 DEF BeginsAs
<1>5. \A s \in Threads : th[s].pc \in {"write", "shorten"} => Writing(th[s])
  BY <1>1 DEF Shape, Held, Writing, AtWork, Writes
<1>6. KindsOf(t) = {} => Settled
  <2>1. SUFFICES ASSUME KindsOf(t) = {}, NEW s \in Threads
                 PROVE  th[s].pc \notin {"write", "shorten"}
    BY DEF Settled
  <2>2. s # t => ~Writing(th[s])
    BY <2>1 DEF KindsOf
  <2>3. QED
    BY <1>4, <1>5, <2>2
<1>7. \A s \in Threads \ {t} : SameBut(th'[s], th[s])
  BY <1>2 DEF OthersSee, SameBut
<1>8. p.pc # "write"
  BY <1>4
<1>9. ASSUME NEW s \in Threads \ {t} PROVE Kept(s)
  <2> DEFINE r == th[s]
  <2>1. Exact(r) /\ Reads(r) /\ Told(r) /\ s \in Threads /\ SameBut(th'[s], r)
    BY <1>7, MemInvParts
  <2>2. SliceStays(r)
    BY <1>1 DEF SliceStays
  <2>3. \A w \in Threads : th'[w].pc = "write" => th[w].pc = "write" /\ th'[w].h = th[w].h
    BY <1>7, <1>8 DEF SameBut
  <2>4. AtWork(r) /\ Overtaken(r) => RowsStay(r)
    BY <2>1, <2>2, <2>3, RowsStand
  <2>5. QED
    BY <1>1, <1>3, <2>1, <2>2, <2>4, ExactStays, ReadsStays, ToldStays DEF Kept
<1>10. Contents \in Seq(Rows)
  BY <1>1, ContentsAre
\* Begun with no write under way, it finds the slice as it is.
<1>11. ASSUME ~raced', KindsOf(t) = {} PROVE Is(Contents)
  <2>1. Clean
    BY <1>1, <1>3, <1>6, <1>11 DEF LoopInv
  <2>2. QED
    BY <1>1, <2>1, ContentsAre DEF Clean
<1>12. Exact(th[t])'
  <2> SUFFICES ASSUME Undisturbed(th[t])'
               PROVE  /\ p.pc # "load" => Len(p.before) = p.n
                      /\ Missed(p, p.i)
                      /\ Is(th[t].before)'
                      /\ p.call.kind = "find" => Follows(th[t])'
    BY <1>4 DEF Exact, Missed
  <2>1. Is(Contents)
    BY <1>4, <1>11 DEF Undisturbed
  <2>2. Is(th[t].before)'
    BY <1>1, <1>4, <2>1 DEF Is, Holds
  <2>3. p.call.kind = "find" => Follows(th[t])'
    BY <1>4 DEF Follows
  <2>4. Missed(p, p.i)
    BY <1>4 DEF Missed
  <2>5. QED
    BY <1>4, <2>1, <2>2, <2>3, <2>4 DEF Is
<1>13. Reads(th[t])'
  <2> SUFFICES ASSUME Overtaken(th[t])'
               PROVE  /\ Len(p.before) <= db'.len /\ Holds(db.arr, th[t].before)'
                      /\ Spans(th[t])' /\ StoresAbove(Len(th[t].before))'
                      /\ \A k \in DOMAIN p.before :
                           k <= p.i /\ Hit(p.call, p.before[k]) => Listed(p, p.before[k])
    BY DEF Reads, Listed
  <2>1. KindsOf(t) = {} /\ Is(Contents)
    BY <1>4, <1>11 DEF Overtaken
  <2>2. \A w \in Threads : th'[w].pc # "write"
    BY <1>6, <1>7, <1>8, <2>1 DEF SameBut, Settled
  <2>3. StoresAbove(Len(th[t].before))'
    BY <2>2 DEF StoresAbove
  <2>4. db.len = Len(Contents) /\ db.len \in Nat
    BY <1>1, <2>1 DEF Is, Shape
  <2>5. Holds(db.arr, th[t].before)'
    BY <1>1, <1>4, <2>1 DEF Is, Holds
  <2>6. Spans(th[t])'
    BY <1>4, <2>4 DEF Spans
  <2>7. \A k \in DOMAIN p.before : ~(k <= p.i)
    BY <1>4, <1>10, LenProperties
  <2>8. QED
    BY <1>1, <1>4, <2>3, <2>4, <2>5, <2>6, <2>7
<1>14. Told(th[t])'
  BY <1>4 DEF Told
<1>15. LoopInv'
  <2>1. SUFFICES ASSUME ~raced'
                 PROVE  /\ \A s \in Threads : Writing(th'[s]) => Unique(th'[s].before)
                        /\ Settled' => Clean'
    BY DEF LoopInv, Unique, Writing, AtWork
  <2>2. ~raced /\ (c.kind \in Writes => KindsOf(t) = {})
    BY <1>2, <2>1
  <2>3. /\ \A s \in Threads : Writing(th[s]) => Unique(th[s].before)
        /\ Settled => Clean
    BY <1>1, <2>2 DEF LoopInv
  <2>4. ASSUME NEW s \in Threads, Writing(th'[s]) PROVE Unique(th'[s].before)
    <3>1. CASE s = t
      BY <1>4, <1>6, <2>2, <2>3, <2>4, <3>1 DEF Writing, Clean
    <3>2. CASE s # t
      BY <1>7, <2>3, <2>4, <3>2 DEF SameBut, Writing, AtWork
    <3>3. QED
      BY <3>1, <3>2
  <2>5. Settled' => Settled
    BY <1>4, <1>7 DEF Settled, SameBut
  <2>6. Contents' = Contents
    BY <1>1 DEF Contents
  <2>7. Unique(Contents) => Unique(Contents)'
    BY <2>6 DEF Unique
  <2>8. Clean => Clean'
    BY <1>1, <2>7 DEF Clean
  <2>9. QED
    BY <2>3, <2>4, <2>5, <2>8
<1>16. Apart'
  BY <1>1, <1>2, BeginApart
<1>17. QED
  BY <1>9, <1>12, <1>13, <1>14, <1>15, <1>16 DEF Kept

(***************************************************************************)
(* The invariant.                                                          *)
(***************************************************************************)
LEMMA InitMemInv == Init => MemInv
<1> SUFFICES ASSUME Init PROVE MemInv
  OBVIOUS
<1>1. Shape
  BY InitShape
<1>2. \A t \in Threads : th[t] = Idle /\ ~AtWork(th[t]) /\ th[t].pc = "idle"
  BY IdleIsThread DEF Init, AtWork
<1>3. Apart
  BY <1>2 DEF Apart, OverlapsSeen, OneWriter, WriterAlone, Writing
<1>4. \A t \in Threads : Exact(th[t]) /\ Reads(th[t]) /\ Told(th[t])
  BY <1>2 DEF Exact, Reads, Told, Undisturbed
<1>5. db.len = 0 /\ heap[db.arr] \in Seq(Rows)
  BY <1>1 DEF Init, Shape
<1>6. db.len <= Len(heap[db.arr])
  BY <1>5, LenProperties
<1>7. DOMAIN Contents = {}
  BY <1>1, <1>5, <1>6, ContentsAre, LenProperties DEF Is
<1>8. LoopInv
  BY <1>2, <1>6, <1>7 DEF LoopInv, Writing, Clean, Unique
<1>9. QED
  BY <1>1, <1>3, <1>4, <1>8 DEF MemInv

LEMMA StepKept ==
  ASSUME MemInv, NEW t \in Threads, Step(t)
  PROVE  Apart' /\ LoopInv' /\ \A s \in Threads : Kept(s)
<1>1. Shape /\ Apart
  BY MemInvParts
<1>2. CASE Begin(t)
  BY <1>2, BeginKept
<1>3. CASE (\E f \in {"arr", "len"} : Load(t, f)) \/ Visit(t) \/ Copy(t) \/ EndScan(t)
  <2>1. Apart'
    BY <1>1, <1>3, ScanWithin, ApartStays
  <2>2. LoopInv' /\ \A s \in Threads \ {t} : Kept(s)
    BY <1>3, ScanOthers
  <2>3. Kept(t)
    BY <1>3, LoadKept, VisitKept, CopyKept, EndScanKept
  <2>4. QED
    BY <2>1, <2>2, <2>3
<1>4. CASE LoadAndGrow(t)
  BY <1>1, <1>4, WriteWithin, ApartStays, LoadAndGrowKept
<1>5. CASE Stores(t)
  <2>1. Apart' /\ LoopInv'
    BY <1>1, <1>5, WriteWithin, ApartStays, WriteLoop DEF Stores
  <2>2. \A s \in Threads : Kept(s)
    BY <1>5, WriteWordKept, WriteElementKept DEF Stores
  <2>3. QED
    BY <2>1, <2>2
<1>6. CASE Cut(t)
  BY <1>1, <1>6, WriteWithin, ApartStays, CutKept
<1>7. CASE Shorten(t)
  BY <1>1, <1>7, WriteWithin, ApartStays, ShortenKept
<1>8. CASE Return(t)
  BY <1>1, <1>8, ReturnWithin, ApartStays, ReturnKept
<1>9. QED
  BY <1>2, <1>3, <1>4, <1>5, <1>6, <1>7, <1>8 DEF Step, Stores

LEMMA NextMemInv == MemInv /\ [Next]_vars => MemInv'
<1> SUFFICES ASSUME MemInv, [Next]_vars PROVE MemInv'
  OBVIOUS
<1>1. Shape
  BY DEF MemInv
<1>2. ASSUME NEW t \in Threads, Step(t) PROVE MemInv'
  <2>1. Shape'
    BY <1>1, <1>2, StepShape
  <2>2. QED
    BY <1>2, <2>1, StepKept DEF MemInv, Kept
<1>3. CASE UNCHANGED vars
  <2>1. heap' = heap /\ db' = db /\ th' = th
    BY <1>3 DEF vars
  <2>2. ~raced' => ~raced
    BY <1>3, Zenon DEF vars
  <2>3. Shape'
    BY <1>1, <2>1 DEF Shape, Held, Looking, AtWork
  <2>4. Apart'
    BY <2>1, <2>2, ApartStays DEF MemInv, NobodyBegins, AtWork
  <2>5. LoopInv'
    <3>1. Contents' = Contents /\ (Settled' <=> Settled)
      BY <2>1 DEF Contents, Settled
    <3>2. \A s \in Threads : Writing(th[s])' <=> Writing(th[s])
      BY <2>1 DEF Writing, AtWork
    <3>3. Unique(Contents) => Unique(Contents)'
      BY <3>1 DEF Unique
    <3>4. Clean => Clean'
      BY <2>1, <3>3 DEF Clean
    <3>5. QED
      BY <2>1, <2>2, <3>1, <3>2, <3>4 DEF MemInv, LoopInv, Unique
  <2>6. ASSUME NEW s \in Threads PROVE Kept(s)
    <3>1. SameBut(th'[s], th[s]) /\ SliceStays(th[s])
      BY <2>1 DEF SameBut, SliceStays
    <3>2. Exact(th[s]) /\ Reads(th[s]) /\ Told(th[s])
      BY DEF MemInv
    <3>3. AtWork(th[s]) /\ Overtaken(th[s]) => RowsStay(th[s])
      BY <2>1, <3>1, <3>2, RowsStand
    <3>4. QED
      BY <1>1, <2>2, <3>1, <3>2, <3>3, ExactStays, ReadsStays, ToldStays DEF Kept
  <2>7. QED
    BY <2>3, <2>4, <2>5, <2>6 DEF MemInv, Kept
<1>4. QED
  BY <1>2, <1>3 DEF Next

LEMMA MemInvariant == Spec => []MemInv
<1>1. QED
  BY InitMemInv, NextMemInv, PTL DEF Spec

\* A lookup or a listing that creates overtake hides no registration that was
\* there when it began, wherever append moves the array and in whatever order
\* the words of the header and the element are written and loaded, for any
\* number of goroutines and slices of any length.
THEOREM NothingHidden == Spec => []AppendsHideNothing
<1>1. MemInv => AppendsHideNothing
  <2> SUFFICES ASSUME MemInv, NEW t \in Threads,
                      th[t].pc = "reply", th[t].call.kind \in {"find", "all"},
                      th[t].over \subseteq {"create"}, ~raced,
                      NEW k \in DOMAIN th[t].before, Hit(th[t].call, th[t].before[k])
               PROVE  /\ th[t].status = 200
                      /\ th[t].call.kind = "all" =>
                           \E j \in DOMAIN th[t].found : th[t].found[j] = th[t].before[k]
    BY DEF AppendsHideNothing
  <2>1. Told(th[t]) /\ Overtaken(th[t])
    BY MemInvParts DEF Overtaken
  <2>2. QED
    BY <2>1 DEF Told, Listed
<1>2. QED
  BY <1>1, MemInvariant, PTL

\* The loop in Create keeps uids and display names unique as long as no two
\* writes overlap, over deletes that move rows and appends that move arrays.
THEOREM LoopSuffices == Spec => []LoopChecksUniqueness
<1>1. MemInv => LoopChecksUniqueness
  <2> SUFFICES ASSUME MemInv, ~raced, \A t \in Threads : th[t].pc \notin {"write", "shorten"}
               PROVE  Unique(Contents)
    BY DEF LoopChecksUniqueness, Unique
  <2>1. LoopInv /\ Settled
    BY DEF MemInv, Settled
  <2>2. QED
    BY <2>1 DEF LoopInv, Clean
<1>2. QED
  BY <1>1, MemInvariant, PTL

(***************************************************************************)
(* An undisturbed request answers as the reference does.                   *)
(***************************************************************************)
\* The element the loop stops at is the first the call hits.
LEMMA FirstIs ==
  ASSUME NEW s \in Seq(Rows), NEW c, NEW k \in 1..Len(s), Hit(c, s[k]),
         \A j \in 1..(k - 1) : ~Hit(c, s[j])
  PROVE  First(s, c) = k
<1> DEFINE P(m) == Hit(c, s[m]) /\ \A j \in 1..(m - 1) : ~Hit(c, s[j])
<1>1. DOMAIN s = 1..Len(s) /\ Len(s) \in Nat
  BY LenProperties
<1>2. First(s, c) = CHOOSE m \in DOMAIN s : P(m)
  BY DEF First
<1>3. k \in DOMAIN s /\ P(k)
  BY <1>1
<1>4. \A m \in DOMAIN s : P(m) => m = k
  <2>1. SUFFICES ASSUME NEW m \in 1..Len(s), P(m) PROVE m = k
    BY <1>1
  <2>2. ~(m < k) /\ ~(k < m)
    BY <1>1, <2>1
  <2>3. QED
    BY <1>1, <2>2
<1> HIDE DEF P
<1>5. QED
  BY <1>2, <1>3, <1>4

\* Removing the i+1st of a sequence.
LEMMA RemovedRows ==
  ASSUME NEW s \in Seq(Rows), NEW less \in Seq(Rows), NEW i \in Nat, i < Len(s),
         Len(less) = Len(s) - 1, ClosesUp(less, s, i, Len(s))
  PROVE  less = SubSeq(s, 1, i) \o SubSeq(s, i + 2, Len(s))
<1> DEFINE n == Len(s)
           a == SubSeq(s, 1, i)
           b == SubSeq(s, i + 2, n)
<1>1. n \in Nat /\ \A k \in 1..n : s[k] \in Rows
  BY LenProperties, ElementOfSeq
<1>2. a \in Seq(Rows) /\ Len(a) = i /\ \A k \in 1..i : a[k] = s[k]
  BY PrefixIs
<1>3. b \in Seq(Rows) /\ Len(b) = n - i - 1 /\ \A k \in 1..(n - i - 1) : b[k] = s[i + 1 + k]
  <2>1. i + 2 \in Int /\ n \in Int /\ \A k \in (i + 2)..n : s[k] \in Rows
    BY <1>1
  <2> HIDE DEF n
  <2>2. /\ SubSeq(s, i + 2, n) \in Seq(Rows)
        /\ Len(SubSeq(s, i + 2, n)) = IF i + 2 <= n THEN n - (i + 2) + 1 ELSE 0
        /\ \A k \in 1..(n - (i + 2) + 1) : SubSeq(s, i + 2, n)[k] = s[i + 2 + k - 1]
    BY <2>1, SubSeqProperties
  <2>3. i + 1 <= n
    BY <1>1 DEF n
  <2>4. QED
    BY <1>1, <2>2, <2>3
<1> HIDE DEF a, b
<1>4. /\ a \o b \in Seq(Rows) /\ Len(a \o b) = Len(a) + Len(b)
      /\ \A k \in 1..(Len(a) + Len(b)) :
           (a \o b)[k] = IF k <= Len(a) THEN a[k] ELSE b[k - Len(a)]
  <2>1. a \in Seq(Rows) /\ b \in Seq(Rows)
    BY <1>2, <1>3
  <2>2. QED
    BY <2>1, ConcatProperties, Zenon
<1>5. Len(a) + Len(b) = n - 1
  BY <1>1, <1>2, <1>3
<1>6. ASSUME NEW k \in 1..(n - 1) PROVE less[k] = (a \o b)[k]
  <2>1. CASE k <= i
    <3>1. k \in 1..i /\ k \in 1..(Len(a) + Len(b)) /\ k <= Len(a)
      BY <1>2, <1>5, <2>1
    <3>2. (a \o b)[k] = a[k] /\ a[k] = s[k]
      BY <1>2, <1>4, <3>1
    <3>3. less[k] = s[k]
      BY <2>1 DEF ClosesUp
    <3>4. QED
      BY <3>2, <3>3
  <2>2. CASE k > i
    <3>1. k - i \in 1..(n - i - 1) /\ i + 1 + (k - i) = k + 1
      BY <1>1, <2>2
    <3>2. b[k - i] = s[k + 1]
      BY <1>3, <3>1
    <3>3. (a \o b)[k] = b[k - i]
      BY <1>2, <1>4, <1>5, <2>2
    <3>4. less[k] = s[k + 1]
      BY <1>1, <2>2 DEF ClosesUp
    <3>5. QED
      BY <3>2, <3>3, <3>4
  <2>3. k <= i \/ k > i
    BY <1>1
  <2>4. QED
    BY <2>1, <2>2, <2>3
<1>7. QED
  BY <1>4, <1>5, <1>6, SeqEqual DEF a, b

\* What the reference says of a call that hits a row, and of one that does not.
StopsAt(c, s, i) == i < Len(s) /\ Hit(c, s[i + 1]) /\ \A j \in 1..i : ~Hit(c, s[j])

LEMMA FirstOfStop ==
  ASSUME NEW s \in Seq(Rows), NEW c, NEW i \in Nat, StopsAt(c, s, i)
  PROVE  First(s, c) = i + 1 /\ \E k \in DOMAIN s : Hit(c, s[k])
<1>1. DOMAIN s = 1..Len(s) /\ Len(s) \in Nat /\ i + 1 \in 1..Len(s)
  BY LenProperties DEF StopsAt
<1>2. QED
  BY <1>1, FirstIs DEF StopsAt

LEMMA ReferenceOfRefused ==
  ASSUME NEW s \in Seq(Rows), NEW c, NEW i \in Nat, StopsAt(c, s, i), c.kind = "create"
  PROVE  Reference(c, s) = <<409, s>>
BY FirstOfStop DEF Reference

LEMMA ReferenceOfFound ==
  ASSUME NEW s \in Seq(Rows), NEW c, NEW i \in Nat, StopsAt(c, s, i), c.kind = "find"
  PROVE  Reference(c, s) = <<200, s>>
BY FirstOfStop DEF Reference

LEMMA ReferenceOfDeleted ==
  ASSUME NEW s \in Seq(Rows), NEW c, NEW i \in Nat, StopsAt(c, s, i), c.kind = "delete"
  PROVE  Reference(c, s) = <<204, SubSeq(s, 1, i) \o SubSeq(s, i + 2, Len(s))>>
<1>1. First(s, c) = i + 1 /\ \E k \in DOMAIN s : Hit(c, s[k])
  BY FirstOfStop
<1>2. Reference(c, s) = <<204, SubSeq(s, 1, First(s, c) - 1)
                                \o SubSeq(s, First(s, c) + 1, Len(s))>>
  BY <1>1 DEF Reference
<1>3. (i + 1) - 1 = i /\ (i + 1) + 1 = i + 2
  OBVIOUS
<1>4. QED
  BY <1>1, <1>2, <1>3

LEMMA ReferenceOfRow ==
  ASSUME NEW s, NEW c, \A k \in DOMAIN s : ~Hit(c, s[k]), c.kind = "create"
  PROVE  Reference(c, s) = <<201, Append(s, c.row)>>
BY DEF Reference

LEMMA ReferenceOfMiss ==
  ASSUME NEW s, NEW c, \A k \in DOMAIN s : ~Hit(c, s[k]), c.kind \in {"find", "delete"}
  PROVE  Reference(c, s) = <<404, s>>
<1>1. c.kind # "all" /\ c.kind # "create" /\ ~\E k \in DOMAIN s : Hit(c, s[k])
  OBVIOUS
<1>2. QED
  BY <1>1 DEF Reference

\* The exact reply.
ExactReply(t) == <<th'[t].status, Contents'>> = Reference(th[t].call, th[t].before)

LEMMA ScanRepliesExactly ==
  ASSUME MemInv, NEW t \in Threads,
         (\E f \in {"arr", "len"} : Load(t, f)) \/ Visit(t) \/ Copy(t) \/ EndScan(t),
         th'[t].pc = "reply", Undisturbed(th[t])
  PROVE  ExactReply(t)
<1> DEFINE q == th[t]
           c == q.call
<1>1. Shape /\ Exact(q) /\ Held(q) /\ UNCHANGED <<heap, db>>
  BY MemInvParts DEF Load, Visit, Copy, EndScan, Shape
<1>2. ~\E f \in {"arr", "len"} : Load(t, f)
  BY <1>1, LoadSteps DEF Fetches
<1>3. ~Copy(t)
  <2>1. SUFFICES ASSUME Copy(t) PROVE FALSE
    OBVIOUS
  <2>2. q.pc = "copy" /\ q.i < q.n
    BY <1>1, <2>1 DEF Copy, Held
  <2>3. ~OutOfRange(t)
    BY <2>2, ElementIsBefore
  <2>4. QED
    BY <1>1, <2>1, <2>3, CopySteps DEF Passes
<1>4. q.pc = "scan"
  BY <1>2, <1>3 DEF Visit, EndScan
<1>5. /\ q.before \in Seq(Rows) /\ q.i \in Nat /\ Len(q.before) = q.n
      /\ c.kind # "all" => Missed(q, q.i)
      /\ Is(q.before) /\ DOMAIN q.before = 1..q.n
  BY <1>1, <1>4, LenProperties DEF Exact, Shape, Thread
<1>6. Contents' = q.before
  <2>1. Contents = q.before
    BY <1>1, <1>5, ContentsIs
  <2>2. QED
    BY <1>1, <2>1 DEF Contents
<1>7. CASE Visit(t)
  <2>1. q.i < q.n /\ ~OutOfRange(t) /\ Element(t) = {q.before[q.i + 1]}
    BY <1>4, <1>7, ElementIsBefore DEF Visit
  <2> DEFINE x == q.before[q.i + 1]
  <2>2. \/ Hit(c, x) /\ c.kind = "create" /\ Ends(t, 409)
        \/ Hit(c, x) /\ c.kind = "find" /\ Ends(t, 200)
    BY <1>1, <1>7, <2>1, VisitSteps DEF Passes, Goes
  <2>3. th'[t].status = IF c.kind = "create" THEN 409 ELSE 200
    BY <2>2 DEF Ends
  <2>4. /\ c.kind = "create" => Reference(c, q.before) = <<409, q.before>>
        /\ c.kind = "find" => Reference(c, q.before) = <<200, q.before>>
    <3> DEFINE s == q.before
               i == q.i
    <3>1. s \in Seq(Rows) /\ i \in Nat /\ i < Len(s) /\ Hit(c, s[i + 1])
      BY <1>5, <2>1, <2>2
    <3>2. \A j \in 1..i : ~Hit(c, s[j])
      BY <1>5, <2>2 DEF Missed
    <3> HIDE DEF s, i, c
    <3>3. StopsAt(c, s, i)
      BY <3>1, <3>2 DEF StopsAt
    <3>4. QED
      BY <3>1, <3>3, ReferenceOfRefused, ReferenceOfFound DEF s
  <2>5. QED
    BY <1>6, <2>2, <2>3, <2>4 DEF ExactReply
<1>8. CASE EndScan(t)
  <2>1. q.i = q.n
    BY <1>8 DEF EndScan
  <2>2. CASE c.kind = "all" /\ Ends(t, 200)
    <3>1. th'[t].status = 200
      BY <2>2 DEF Ends
    <3>2. QED
      BY <1>6, <2>2, <3>1 DEF ExactReply, Reference
  <2>3. CASE c.kind \in {"delete", "find"} /\ Ends(t, 404)
    <3>1. th'[t].status = 404
      BY <2>3 DEF Ends
    <3>2. \A k \in DOMAIN q.before : ~Hit(c, q.before[k])
      BY <1>5, <2>1, <2>3 DEF Missed
    <3>3. Reference(c, q.before) = <<404, q.before>>
      BY <2>3, <3>2, ReferenceOfMiss
    <3>4. QED
      BY <1>6, <3>1, <3>3 DEF ExactReply
  <2>4. QED
    BY <1>1, <1>8, <2>2, <2>3, EndScanSteps DEF Goes
<1>9. QED
  BY <1>2, <1>3, <1>7, <1>8

LEMMA CreateRepliesExactly ==
  ASSUME MemInv, NEW t \in Threads, Stores(t), th'[t].pc = "reply", Undisturbed(th[t])
  PROVE  ExactReply(t)
<1> DEFINE q == th[t]
<1>1. q.pc = "write" /\ Exact(q) /\ Shape /\ q.before \in Seq(Rows)
  BY MemInvParts DEF Stores, WriteWord, WriteElement, Shape, Thread
<1>2. q.call.kind = "create"
  BY <1>1, WriterHolds
<1>3. Missed(q, q.n) /\ Len(q.before) = q.n
  BY <1>1, <1>2 DEF Exact
<1>4. \A k \in DOMAIN q.before : ~Hit(q.call, q.before[k])
  BY <1>1, <1>3, LenProperties DEF Missed
<1>5. Ends(t, 201) /\ Contents' = Append(q.before, q.call.row)
  BY LastWriteAppends
<1>6. th'[t].status = 201
  BY <1>5 DEF Ends
<1>7. Reference(q.call, q.before) = <<201, Append(q.before, q.call.row)>>
  BY <1>2, <1>4, ReferenceOfRow
<1>8. QED
  BY <1>5, <1>6, <1>7 DEF ExactReply

LEMMA DeleteRepliesExactly ==
  ASSUME MemInv, NEW t \in Threads, Cut(t) \/ Shorten(t), th'[t].pc = "reply",
         Undisturbed(th[t])
  PROVE  ExactReply(t)
<1> DEFINE q == th[t]
<1>1. Shape /\ Exact(q) /\ q.before \in Seq(Rows) /\ q.i \in Nat
  BY MemInvParts DEF Shape, Thread
<1>2. CASE Cut(t)
  <2>1. q.pc = "cut"
    BY <1>2 DEF Cut
  <2>2. q.i < q.n /\ Is(q.before) /\ Len(q.before) = q.n
    BY <1>1, <2>1 DEF Exact
  <2>3. q.n = db.len
    BY <2>2 DEF Is
  <2>4. ~(q.i + 1 > db.len)
    BY <1>1, <2>2, <2>3 DEF Shape
  <2>5. QED
    BY <1>1, <1>2, <2>4, CutSteps DEF Goes
<1>3. CASE Shorten(t)
  <2>1. /\ Len(q.before) = q.n /\ q.i < q.n /\ Missed(q, q.i)
        /\ Hit(q.call, q.before[q.i + 1])
        /\ Contents' \in Seq(Rows) /\ Len(Contents') = q.n - 1
        /\ ClosesUp(Contents', q.before, q.i, q.n)
    BY <1>3, ShortenCuts
  <2>2. q.call.kind = "delete"
    BY <1>1, <1>3 DEF Shorten, Shape, Held
  <2>3. th'[t].status = 204
    BY <1>1, <1>3, ReplyEnds DEF Shorten, Ends
  <2> DEFINE s == q.before
             less == Contents'
             i == q.i
  <2>4. /\ s \in Seq(Rows) /\ less \in Seq(Rows) /\ i \in Nat /\ i < Len(s)
        /\ Len(less) = Len(s) - 1 /\ ClosesUp(less, s, i, Len(s))
    BY <1>1, <2>1
  <2> HIDE DEF s, less, i
  <2>5. less = SubSeq(s, 1, i) \o SubSeq(s, i + 2, Len(s))
    BY <2>4, RemovedRows
  <2> DEFINE c == q.call
  <2>6. c.kind = "delete" /\ StopsAt(c, s, i)
    BY <2>1, <2>2, <2>4 DEF Missed, StopsAt, s, i
  <2>9. s \in Seq(Rows) /\ i \in Nat
    BY <2>4
  <2> HIDE DEF c
  <2>7. Reference(c, s) = <<204, SubSeq(s, 1, i) \o SubSeq(s, i + 2, Len(s))>>
    BY <2>6, <2>9, ReferenceOfDeleted
  <2>8. QED
    BY <2>3, <2>5, <2>7 DEF ExactReply, s, less, c
<1>4. QED
  BY <1>2, <1>3

\* A request that no write of another goroutine overlaps answers, and leaves
\* the slice, exactly as the reference says, whatever others read meanwhile,
\* in place and over growing arrays; it never panics.
THEOREM UndisturbedAnswersExactly == Spec => UndisturbedIsExact
<1>1. MemInv /\ [Next]_vars =>
        [\A t \in Threads :
           Replies(t) /\ th[t].over = {} /\ ~raced
             => <<th'[t].status, Contents'>> = Reference(th[t].call, th[t].before)]_vars
  <2> SUFFICES ASSUME MemInv, Next, NEW t \in Threads,
                      Replies(t), th[t].over = {}, ~raced
               PROVE  ExactReply(t)
    BY DEF ExactReply
  <2>1. Shape
    BY DEF MemInv
  <2>2. th[t].pc # "reply" /\ th'[t].pc = "reply"
    BY DEF Replies
  <2>3. PICK s \in Threads : Step(s)
    BY DEF Next
  <2>4. CASE Begin(s)
    <3>1. th'[t].pc \in {"load", "scan", th[t].pc}
      BY <2>1, <2>4, BeginSteps DEF BeginsAs, OthersSee
    <3>2. QED
      BY <2>2, <3>1
  <2>5. CASE ~Begin(s) /\ s # t
    <3>1. Moves(s)
      BY <2>1, <2>3, <2>5, ScanWithin, WriteWithin, ReturnSteps DEF Step
    <3>2. QED
      BY <2>2, <2>5, <3>1 DEF Moves
  <2>6. CASE ~Begin(s) /\ s = t
    <3>1. ~Return(t) /\ ~LoadAndGrow(t)
      <4>1. ~Return(t)
        BY <2>2 DEF Return
      <4>2. ASSUME LoadAndGrow(t) PROVE th'[t].pc = "write"
        BY <2>1, <4>2, GrowingWrites, Zenon
      <4>3. QED
        BY <2>2, <4>1, <4>2
    <3>2. th[t].pc # "idle"
      <4>1. \/ (\E f \in {"arr", "len"} : Load(t, f)) \/ Visit(t) \/ Copy(t) \/ EndScan(t)
            \/ LoadAndGrow(t) \/ (\E f \in {"arr", "len"} : WriteWord(t, f)) \/ WriteElement(t)
            \/ Cut(t) \/ Shorten(t) \/ Return(t)
        BY <2>3, <2>6 DEF Step
      <4>2. QED
        BY <4>1, Zenon DEF Load, Visit, Copy, EndScan, LoadAndGrow, WriteWord, WriteElement,
                            Cut, Shorten, Return
    <3>3. Undisturbed(th[t])
      BY <2>2, <3>2 DEF Undisturbed, AtWork
    <3>4. QED
      BY <2>2, <2>3, <2>6, <3>1, <3>3, ScanRepliesExactly, CreateRepliesExactly,
         DeleteRepliesExactly DEF Step, Stores
  <2>7. QED
    BY <2>4, <2>5, <2>6
<1>2. QED
  BY <1>1, MemInvariant, PTL DEF Spec, UndisturbedIsExact
=============================================================================
