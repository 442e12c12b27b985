---------------------------- MODULE MemoryStore ----------------------------
(***************************************************************************)
(* The registrations of inMemoryStore, the default STORE_BACKEND: a Go     *)
(* slice that the goroutines of net/http use without a lock.               *)
(*                                                                         *)
(* A slice is a header over an array.  A step is what one goroutine does   *)
(* to the shared slice at once: a reader loads one word of the header or   *)
(* reads one element; append writes one word of the header or the element; *)
(* a delete moves the tail of the array, or writes the shorter length.  Go *)
(* orders none of this between goroutines: a header may be seen half       *)
(* written, a length before its element.  The capacity, which only append  *)
(* reads, goes with the array.                                             *)
(*                                                                         *)
(* Once two writes overlap Go leaves the outcome open; the steps below are *)
(* then some of the possible ones, and the properties that hold are about  *)
(* the time before.  Until then a writer is the only one, so that it loads *)
(* a whole header in one step, and looks at an element once.               *)
(***************************************************************************)
EXTENDS Integers, Sequences, FiniteSets

CONSTANTS
  Threads,  \* goroutines that serve requests
  Calls,    \* the calls the clients make
  None,     \* an absent value
  MaxRows   \* bound on the length of the slice

ASSUME MaxRowsAssumption == MaxRows \in Nat
ASSUME ThreadsAssumption == IsFiniteSet(Threads)
ASSUME CallsAssumption ==
  None \notin Calls /\ \A c \in Calls : c.kind \in {"create", "delete", "find", "all"}

VARIABLES
  heap,  \* the arrays
  db,    \* m.db: the array it points to and its length
  th,    \* the goroutines
  raced  \* history: two writes have overlapped

vars == <<heap, db, th, raced>>

Arrays == 1..(Cardinality(Threads) + 2)
Blank == [org |-> None, uid |-> None, name |-> None]
NoSlice == [arr |-> 0, len |-> 0]

\* What may be read at a place: beyond its array lies anything.
Rows == {Blank} \cup {c.row : c \in {d \in Calls : d.kind = "create"}}
Slot(a, k) == IF a \in Arrays /\ k \in DOMAIN heap[a] THEN {heap[a][k]} ELSE Rows

\* The slice, as far as it lies in its array.
Contents ==
  SubSeq(heap[db.arr], 1, IF db.len <= Len(heap[db.arr]) THEN db.len ELSE Len(heap[db.arr]))

\* Besides what the goroutine holds (the index i and the length n of its range
\* loop, a header h, the loads or writes left, what it found), the slice at its
\* start and the kinds of writes that other goroutines had under way meanwhile.
Idle == [pc |-> "idle", call |-> None, i |-> 0, n |-> 0, h |-> NoSlice,
         left |-> {}, found |-> <<>>, status |-> 0, before |-> <<>>, over |-> {}]

Writes == {"create", "delete"}
Busy(threads, t) == threads[t].pc \notin {"idle", "reply"}
Writers(threads, t) ==
  {s \in DOMAIN threads \ {t} : Busy(threads, s) /\ threads[s].call.kind \in Writes}

\* The kinds of writes that t overlaps; "midway" when it begins in one.
Overlap(threads, t) ==
  {threads[s].call.kind : s \in Writers(threads, t)}
    \cup (IF th[t].pc = "idle" /\ Writers(threads, t) # {} THEN {"midway"} ELSE {})

Init ==
  /\ heap = [a \in Arrays |-> <<>>]
  /\ db = [arr |-> 1, len |-> 0]
  /\ th = [t \in Threads |-> Idle]
  /\ raced = FALSE

Pending == {t \in Threads : Busy(th, t) /\ th[t].call.kind = "create"}

\* Find and FindByUID range over a copy of the header, which they load first;
\* the other loops evaluate the length of m.db alone.
Started(c) ==
  IF c.kind = "find"
  THEN [Idle EXCEPT !.pc = "load", !.call = c, !.left = {"arr", "len"}, !.before = Contents]
  ELSE [Idle EXCEPT !.pc = "scan", !.call = c, !.n = db.len, !.before = Contents]

Begin(t) ==
  /\ th[t].pc = "idle"
  /\ \E c \in Calls :
       /\ c.kind = "create" => db.len + Cardinality(Pending) < MaxRows
       /\ LET started == [th EXCEPT ![t] = Started(c)]
          IN  th' = [s \in Threads |->
                IF Busy(started, s)
                THEN [started[s] EXCEPT !.over = @ \cup Overlap(started, s)]
                ELSE started[s]]
       /\ raced' = (raced \/ (c.kind \in Writes /\ Writers(th, t) # {}))
  /\ UNCHANGED <<heap, db>>

\* The slice at its start is of interest until a write is answered, and until a
\* reader has returned.
Answered(q, status, found) ==
  [Idle EXCEPT !.pc = "reply", !.call = q.call, !.status = status, !.found = found,
               !.before = IF q.call.kind \in Writes THEN <<>> ELSE q.before, !.over = q.over]
Reply(t, status) == th' = [th EXCEPT ![t] = Answered(th[t], status, th[t].found)]

\* net/http recovers a panicking handler and drops the connection.
Panic(t) == Reply(t, 0)

Loaded(t, f) ==
  IF f = "arr" THEN [th[t].h EXCEPT !.arr = db.arr] ELSE [th[t].h EXCEPT !.len = db.len]

Load(t, f) ==
  /\ th[t].pc = "load" /\ f \in th[t].left
  /\ IF th[t].left = {f}
     THEN th' = [th EXCEPT ![t].pc = "scan", ![t].h = Loaded(t, f), ![t].left = {},
                           ![t].n = Loaded(t, f).len]
     ELSE th' = [th EXCEPT ![t].h = Loaded(t, f), ![t].left = @ \ {f}]
  /\ UNCHANGED <<heap, db, raced>>

\* The loops but those of the lookups index m.db anew each time and check the
\* index against its length.
Source(q) == IF q.call.kind = "find" THEN q.h.arr ELSE db.arr
OutOfRange(t) == th[t].call.kind # "find" /\ th[t].i >= db.len
Element(t) == Slot(Source(th[t]), th[t].i + 1)

Hit(c, x) ==
  CASE c.kind = "create" -> x.uid = c.row.uid \/ x.name = c.row.name
    [] c.kind = "delete" -> x.org = c.org \/ x.uid = c.uid
    [] c.kind = "find" -> x.uid = c.uid
    [] c.kind = "all" -> x.org = c.org

\* A definition marked "mutant" is what a plausible bug would make of the one
\* below it; only PROJECT.json uses it.
Visit(t) ==
  /\ th[t].pc = "scan" /\ th[t].i < th[t].n
  /\ IF OutOfRange(t) THEN Panic(t)
     ELSE \E x \in Element(t) : LET c == th[t].call IN
       \/ ~Hit(c, x) /\ th' = [th EXCEPT ![t].i = @ + 1]
       \/ Hit(c, x) /\ c.kind = "create" /\ Reply(t, 409)
       \/ Hit(c, x) /\ c.kind = "delete" /\ th' = [th EXCEPT ![t].pc = "cut"]
       \/ Hit(c, x) /\ c.kind = "find"
            /\ th' = [th EXCEPT ![t] = Answered(th[t], 200, <<x>>)]
       \/ Hit(c, x) /\ c.kind = "all" /\ th' = [th EXCEPT ![t].pc = "copy"]
  /\ UNCHANGED <<heap, db, raced>>

\* A listing reads the element that it has compared a second time.
Copy(t) ==
  /\ th[t].pc = "copy"
  /\ IF OutOfRange(t) THEN Panic(t)
     ELSE \E x \in Element(t) :
            th' = [th EXCEPT ![t].pc = "scan", ![t].i = @ + 1, ![t].found = Append(@, x)]
  /\ UNCHANGED <<heap, db, raced>>

EndScanEarly(t) ==                                             \* mutant
  /\ th[t].pc = "scan" /\ th[t].i + 1 >= th[t].n
  /\ CASE th[t].call.kind = "create" -> th' = [th EXCEPT ![t].pc = "append"]
       [] th[t].call.kind = "all" -> Reply(t, 200)
       [] OTHER -> Reply(t, 404)
  /\ UNCHANGED <<heap, db, raced>>
EndScan(t) ==
  /\ th[t].pc = "scan" /\ th[t].i = th[t].n
  /\ CASE th[t].call.kind = "create" -> th' = [th EXCEPT ![t].pc = "append"]
       [] th[t].call.kind = "all" -> Reply(t, 200)
       [] OTHER -> Reply(t, 404)
  /\ UNCHANGED <<heap, db, raced>>

(***************************************************************************)
(* m.db = append(m.db, *r).  A full array is copied to a new one of twice  *)
(* its capacity first.                                                     *)
(***************************************************************************)
InUse(a) == a = db.arr \/ \E s \in Threads : th[s].h.arr = a /\ Busy(th, s)
Free == {a \in Arrays : ~InUse(a)}
\* Any free one would do; mostly taking the next gives fewer states.
Fresh == IF db.arr + 1 \in Free THEN db.arr + 1 ELSE CHOOSE a \in Free : TRUE

Grown(array) ==
  [k \in 1..(IF array = <<>> THEN 1 ELSE 2 * Len(array)) |->
     IF k <= Len(array) THEN array[k] ELSE Blank]

PrependNewest(t) ==                                            \* mutant
  /\ th[t].pc = "append"
  /\ heap' = [heap EXCEPT ![Fresh] = <<th[t].call.row>> \o Contents]
  /\ th' = [th EXCEPT ![t].pc = "write", ![t].h = [arr |-> Fresh, len |-> db.len],
                      ![t].left = {"arr", "len"}]
  /\ UNCHANGED <<db, raced>>
LoadAndGrow(t) ==
  /\ th[t].pc = "append"
  /\ IF db.len < Len(heap[db.arr])
     THEN /\ th' = [th EXCEPT ![t].pc = "write", ![t].h = db, ![t].left = {"len", "element"}]
          /\ UNCHANGED heap
     ELSE /\ heap' = [heap EXCEPT ![Fresh] = Grown(heap[db.arr])]
          /\ th' = [th EXCEPT ![t].pc = "write", ![t].h = [arr |-> Fresh, len |-> db.len],
                              ![t].left = {"arr", "len", "element"}]
  /\ UNCHANGED <<db, raced>>

Written(t, what) ==
  IF th[t].left = {what} THEN Reply(t, 201) ELSE th' = [th EXCEPT ![t].left = @ \ {what}]

WriteWord(t, f) ==
  /\ th[t].pc = "write" /\ f \in th[t].left
  /\ db' = IF f = "arr" THEN [db EXCEPT !.arr = th[t].h.arr]
                        ELSE [db EXCEPT !.len = th[t].h.len + 1]
  /\ Written(t, f)
  /\ UNCHANGED <<heap, raced>>

WriteElement(t) ==
  /\ th[t].pc = "write" /\ "element" \in th[t].left
  /\ heap' = [heap EXCEPT ![th[t].h.arr][th[t].h.len + 1] = th[t].call.row]
  /\ Written(t, "element")
  /\ UNCHANGED <<db, raced>>

(***************************************************************************)
(* m.db = append(m.db[:i], m.db[i+1:]...): the tail moves within the array *)
(* and the shorter header is written.                                      *)
(***************************************************************************)
ShiftNothing(array, i, len, last) == array                     \* mutant
Shift(array, i, len, last) ==
  [k \in DOMAIN array |-> IF k <= i \/ k >= len THEN array[k]
                          ELSE IF k < Len(array) THEN array[k + 1] ELSE last]

Cut(t) ==
  /\ th[t].pc = "cut"
  /\ IF th[t].i + 1 > db.len
     THEN Panic(t) /\ UNCHANGED heap
     ELSE /\ \E last \in Slot(db.arr, db.len) :
               heap' = [heap EXCEPT ![db.arr] = Shift(@, th[t].i, db.len, last)]
          /\ th' = [th EXCEPT ![t].pc = "shorten",
                              ![t].h = [arr |-> db.arr, len |-> db.len - 1]]
  /\ UNCHANGED <<db, raced>>

Shorten(t) ==
  /\ th[t].pc = "shorten"
  /\ db' = th[t].h
  /\ Reply(t, 204)
  /\ UNCHANGED <<heap, raced>>

ReturnAndKeep(t) ==                                            \* mutant
  /\ th[t].pc = "reply"
  /\ th' = [th EXCEPT ![t].pc = "idle"]
  /\ UNCHANGED <<heap, db, raced>>

\* The arrays nobody points to any more are collected.
Return(t) ==
  /\ th[t].pc = "reply"
  /\ th' = [th EXCEPT ![t] = Idle]
  /\ heap' = [a \in Arrays |-> IF InUse(a) THEN heap[a] ELSE <<>>]
  /\ UNCHANGED <<db, raced>>

Step(t) ==
  \/ Begin(t) \/ \E f \in {"arr", "len"} : Load(t, f)
  \/ Visit(t) \/ Copy(t) \/ EndScan(t)
  \/ LoadAndGrow(t) \/ (\E f \in {"arr", "len"} : WriteWord(t, f)) \/ WriteElement(t)
  \/ Cut(t) \/ Shorten(t) \/ Return(t)

Next == \E t \in Threads : Step(t)

Spec == Init /\ [][Next]_vars

(***************************************************************************)
(* Properties.                                                             *)
(***************************************************************************)
Places == {"idle", "load", "scan", "copy", "append", "write", "cut", "shorten", "reply"}
Headers == [arr : Arrays \cup {0}, len : Nat]

Thread ==
  [pc : Places, call : Calls \cup {None}, i : Nat, n : Nat, h : Headers,
   left : SUBSET {"arr", "len", "element"}, found : Seq(Rows), status : Nat,
   before : Seq(Rows), over : SUBSET {"create", "delete", "midway"}]

\* Type invariant: each goroutine is at a place of its call, within its loop.
TypeOK ==
  /\ heap \in [Arrays -> Seq(Rows)]
  /\ db \in [arr : Arrays, len : Nat]
  /\ th \in [Threads -> Thread]
  /\ \A t \in Threads :
       /\ th[t].call = None <=> th[t].pc = "idle"
       /\ th[t].i <= th[t].n
       /\ th[t].pc = "load" => th[t].call.kind = "find"
       /\ th[t].pc = "copy" => th[t].call.kind = "all"
       /\ th[t].pc \in {"append", "write"} => th[t].call.kind = "create"
       /\ th[t].pc \in {"cut", "shorten"} => th[t].call.kind = "delete"
       /\ th[t].pc \in {"write", "shorten"} => th[t].h.arr # 0

\* What a call does to the slice s when no write of another goroutine is under
\* way: the status and the slice after it.
First(s, c) == CHOOSE k \in DOMAIN s : Hit(c, s[k]) /\ \A j \in 1..(k - 1) : ~Hit(c, s[j])
Reference(c, s) ==
  IF c.kind = "all" THEN <<200, s>>
  ELSE IF \E k \in DOMAIN s : Hit(c, s[k])
  THEN CASE c.kind = "create" -> <<409, s>>
         [] c.kind = "find" -> <<200, s>>
         [] c.kind = "delete" ->
              <<204, SubSeq(s, 1, First(s, c) - 1) \o SubSeq(s, First(s, c) + 1, Len(s))>>
  ELSE IF c.kind = "create" THEN <<201, Append(s, c.row)>>
  ELSE <<404, s>>

\* A request that no write of another goroutine overlaps does to the slice, in
\* place and over growing arrays, exactly what it should and never panics,
\* whatever other requests read meanwhile.
Replies(t) == th[t].pc # "reply" /\ th'[t].pc = "reply"

UndisturbedIsExact ==
  [][\A t \in Threads :
       Replies(t) /\ th[t].over = {} /\ ~raced
         => <<th'[t].status, Contents'>> = Reference(th[t].call, th[t].before)]_vars

\* A lookup or a listing overtaken by creates sees each registration that was
\* there when it began, wherever append moves the array.  Begun midway in a
\* create it may not: the length may be published before the element, and show
\* the row deleted last.
AppendsHideNothing ==
  \A t \in Threads :
    th[t].pc = "reply" /\ th[t].call.kind \in {"find", "all"}
      /\ th[t].over \subseteq {"create"} /\ ~raced
      => \A k \in DOMAIN th[t].before :
           Hit(th[t].call, th[t].before[k]) =>
             /\ th[t].status = 200
             /\ th[t].call.kind = "all" =>
                  \E j \in DOMAIN th[t].found : th[t].found[j] = th[t].before[k]

\* "Uniqueness: manual loop checks" (ARCHITECTURE.md:153).  As long as no two
\* writes overlap the loop in Create keeps uids and display names unique, over
\* deletes that move rows and appends that move arrays.  While an element is
\* stored or a tail moved the slice may show one row twice.
LoopChecksUniqueness ==
  ~raced /\ (\A t \in Threads : th[t].pc \notin {"write", "shorten"}) =>
    \A j, k \in DOMAIN Contents :
      Contents[j].uid = Contents[k].uid \/ Contents[j].name = Contents[k].name => j = k

\* DELETE /v1/registrations/{uid} "Delete a registration" (README.md:44): the
\* registration that an undisturbed delete removes has the uid of the path.
DeletesTheOneNamed ==
  [][\A t \in Threads :
       Replies(t) /\ th'[t].status = 204 /\ th[t].over = {}
         => \A k \in DOMAIN th[t].before :
              th[t].before[k].uid # th[t].call.uid
                => \E j \in DOMAIN Contents' : Contents'[j] = th[t].before[k]]_vars
=============================================================================
