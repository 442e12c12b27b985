--------------------------- MODULE MemoryAllowlist ---------------------------
(***************************************************************************)
(* The allowlist of inMemoryStore: a Go slice that the goroutines of       *)
(* net/http use without a lock.  AllowedAddresses hands the slice itself   *)
(* to the handler, AllowedIP ranges over it: both load its header once and *)
(* read the array afterwards, while others append to it and cut it.        *)
(*                                                                         *)
(* A step loads or writes one field of the shared header, or reads or      *)
(* writes one element.  Go orders none of this between goroutines: a       *)
(* header may be seen half written, a length before its element, a tail    *)
(* half moved.  Once two writes overlap nothing is claimed any more.       *)
(* Calls have passed their handlers' checks.                               *)
(***************************************************************************)
EXTENDS Integers, Sequences, FiniteSets

CONSTANTS
  Threads,   \* goroutines that serve requests
  Arrays,    \* arrays in the heap
  Blocks,    \* allowlist blocks: an organisation and the addresses of a CIDR block
  Calls,     \* the calls the clients make
  Zero,      \* AllowlistBlock{}: no block, in the unused part of an array
  None,      \* an absent value
  MaxBlocks  \* bound on the length of the slice

ASSUME MaxBlocksAssumption == MaxBlocks \in Nat
ASSUME ValuesAssumption == None \notin Arrays /\ Zero \notin Blocks
ASSUME CallsAssumption ==
  /\ None \notin Calls
  /\ \A c \in Calls :
       /\ c.kind \in {"allow", "deny", "check", "list"}
       /\ c.kind \in {"allow", "deny"} => c.block \in Blocks

VARIABLES
  heap,   \* the arrays
  slice,  \* m.allowedAddresses: the array it points to and its length
  pc, call, status,
  h,      \* the header a goroutine holds
  i,      \* the index of its loop or of its move
  left,   \* the loads or writes it still has to do, in any order
  found,  \* the blocks it lists, or the one that admits its address
  \* History.
  count,  \* how often each block is on the list, as the answered requests have it
  seen,   \* the blocks a reader may come across
  kept,   \* the blocks that are on the list as long as a reader is at work
  moved,  \* a deny has overlapped the reader
  raced   \* two writes have overlapped

shared == <<heap, slice>>
history == <<count, seen, kept, moved, raced>>
vars == <<heap, slice, pc, call, status, h, i, left, found, count, seen, kept, moved, raced>>

Anything == Blocks \cup {Zero}
NoSlice == [arr |-> None, len |-> 0]

Init ==
  /\ heap = [a \in Arrays |-> <<>>]
  /\ \E a \in Arrays : slice = [arr |-> a, len |-> 0]
  /\ pc = [t \in Threads |-> "idle"] /\ call = [t \in Threads |-> None]
  /\ status = [t \in Threads |-> 0] /\ h = [t \in Threads |-> NoSlice]
  /\ i = [t \in Threads |-> 0] /\ left = [t \in Threads |-> {}]
  /\ found = [t \in Threads |-> {}] /\ count = [b \in Blocks |-> 0]
  /\ seen = [t \in Threads |-> {}] /\ kept = [t \in Threads |-> {}]
  /\ moved = [t \in Threads |-> FALSE] /\ raced = FALSE

Busy(t) == pc[t] \notin {"idle", "reply"}
Under(kind) == {t \in Threads : Busy(t) /\ call[t].kind = kind}
Readers == Under("check") \cup Under("list")
Writers == Under("allow") \cup Under("deny")

\* What may be read at a place: beyond its array lies anything.
Slot(a, k) == IF a \in Arrays /\ k \in 1..Len(heap[a]) THEN {heap[a][k]} ELSE Anything

Reply(t, s) ==
  /\ pc' = [pc EXCEPT ![t] = "reply"]
  /\ status' = [status EXCEPT ![t] = s]

\* net/http recovers a panicking handler and drops the connection.
Panic(t) == Reply(t, 0)

Goto(t, place) ==
  /\ pc' = [pc EXCEPT ![t] = place]
  /\ UNCHANGED status

Advance(t) ==
  /\ i' = [i EXCEPT ![t] = @ + 1]
  /\ UNCHANGED <<pc, status>>

Start(t, c, place, header, todo) ==
  /\ pc[t] = "idle"
  /\ pc' = [pc EXCEPT ![t] = place]
  /\ call' = [call EXCEPT ![t] = c]
  /\ h' = [h EXCEPT ![t] = header]
  /\ left' = [left EXCEPT ![t] = todo]
  /\ UNCHANGED <<heap, slice, status, i, found, count>>

(***************************************************************************)
(* AllowedIP(ip, _), for a create behind the gate, and AllowedAddresses(_) *)
(* with the loop of the handler: every organisation's blocks, both times.  *)
(***************************************************************************)
Listed == {b \in Blocks : count[b] > 0}

\* A header that is loaded while an allow writes it may be torn, and then
\* nothing is known of what the reader finds.
BeginRead(t, c) ==
  /\ c.kind \in {"check", "list"}
  /\ Start(t, c, "load", NoSlice, {"arr", "len"})
  /\ LET torn == Under("allow") # {} IN
       /\ seen' = [seen EXCEPT ![t] = IF torn THEN Anything ELSE Listed]
       /\ kept' = [kept EXCEPT ![t] =
            IF torn THEN {} ELSE Listed \ {call[s].block : s \in Under("deny")}]
  /\ moved' = [moved EXCEPT ![t] = Under("deny") # {}]
  /\ UNCHANGED raced

Load(t, f) ==
  /\ pc[t] = "load" /\ f \in left[t]
  /\ h' = [h EXCEPT ![t] = IF f = "arr" THEN [@ EXCEPT !.arr = slice.arr]
                                       ELSE [@ EXCEPT !.len = slice.len]]
  /\ left' = [left EXCEPT ![t] = @ \ {f}]
  /\ Goto(t, IF left[t] = {f} THEN "read" ELSE "load")
  /\ UNCHANGED <<shared, call, i, found, history>>

ReadElement(t) ==
  /\ pc[t] = "read" /\ i[t] < h[t].len
  /\ \E x \in Slot(h[t].arr, i[t] + 1) :
       IF call[t].kind = "list"
       THEN Advance(t) /\ found' = [found EXCEPT ![t] = @ \cup {x}]
       ELSE \* The text of Zero is no CIDR block, and its nil network is used unchecked.
            \/ x = Zero /\ Panic(t) /\ UNCHANGED <<i, found>>
            \/ x # Zero /\ call[t].ip \notin x.addrs /\ Advance(t) /\ UNCHANGED found
            \/ /\ x # Zero /\ call[t].ip \in x.addrs
               /\ Reply(t, 200) /\ found' = [found EXCEPT ![t] = {x}] /\ UNCHANGED i
  /\ UNCHANGED <<shared, call, h, left, history>>

EndRead(t) ==
  /\ pc[t] = "read" /\ i[t] = h[t].len
  /\ Reply(t, IF call[t].kind = "list" THEN 200 ELSE 403)
  /\ UNCHANGED <<shared, call, h, i, left, found, history>>

(***************************************************************************)
(* AllowAddress: m.allowedAddresses = append(m.allowedAddresses, *ip).  A  *)
(* full array is copied to a new one of twice its capacity first.          *)
(* A definition marked "mutant" is what a plausible bug would make of the  *)
(* one below it; only PROJECT.json uses it.                                *)
(***************************************************************************)
BeginAllow(t, c) ==
  /\ c.kind = "allow"
  /\ slice.len + Cardinality(Under("allow")) < MaxBlocks
  /\ Start(t, c, "append", NoSlice, {})
  /\ seen' = [s \in Threads |-> IF pc[s] = "load" THEN Anything
                                ELSE IF pc[s] = "read" THEN seen[s] \cup {c.block}
                                ELSE seen[s]]
  /\ kept' = [s \in Threads |-> IF pc[s] = "load" THEN {} ELSE kept[s]]
  /\ raced' = (raced \/ Writers # {})
  /\ UNCHANGED moved

InUse(a) == a = slice.arr \/ \E s \in Threads : Busy(s) /\ h[s].arr = a

ClearedWhenGrown(array) ==                                     \* mutant
  [k \in 1..(IF array = <<>> THEN 1 ELSE 2 * Len(array)) |-> Zero]
Grown(array) ==
  [k \in 1..(IF array = <<>> THEN 1 ELSE 2 * Len(array)) |->
     IF k <= Len(array) THEN array[k] ELSE Zero]

LoadAndGrow(t) ==
  /\ pc[t] = "append"
  /\ \/ /\ slice.len < Len(heap[slice.arr])
        /\ h' = [h EXCEPT ![t] = slice]
        /\ left' = [left EXCEPT ![t] = {"len", "element"}]
        /\ UNCHANGED heap
     \/ /\ slice.len >= Len(heap[slice.arr])
        /\ \E a \in Arrays :
             /\ ~InUse(a)
             /\ heap' = [heap EXCEPT ![a] = Grown(heap[slice.arr])]
             /\ h' = [h EXCEPT ![t] = [arr |-> a, len |-> slice.len]]
        /\ left' = [left EXCEPT ![t] = {"arr", "len", "element"}]
  /\ Goto(t, "write")
  /\ UNCHANGED <<slice, call, i, found, history>>

Write(t, what) ==
  /\ pc[t] = "write" /\ what \in left[t]
  /\ left' = [left EXCEPT ![t] = @ \ {what}]
  /\ slice' = CASE what = "arr" -> [slice EXCEPT !.arr = h[t].arr]
                [] what = "len" -> [slice EXCEPT !.len = h[t].len + 1]
                [] what = "element" -> slice
  /\ heap' = IF what = "element"
             THEN [heap EXCEPT ![h[t].arr] = [@ EXCEPT ![h[t].len + 1] = call[t].block]]
             ELSE heap
  /\ IF left[t] = {what}
     THEN Reply(t, 201) /\ count' = [count EXCEPT ![call[t].block] = @ + 1]
     ELSE UNCHANGED <<pc, status, count>>
  /\ UNCHANGED <<call, h, i, found, seen, kept, moved, raced>>

(***************************************************************************)
(* DenyAddress: the first block that is the one named is cut out,          *)
(* append(m.allowedAddresses[:i], m.allowedAddresses[i+1:]...): the tail   *)
(* moves within the array, and the shorter header is written.              *)
(***************************************************************************)
BeginDeny(t, c) ==
  /\ c.kind = "deny"
  /\ Start(t, c, "scan", [arr |-> None, len |-> slice.len], {})
  /\ kept' = [s \in Threads |-> IF s \in Readers THEN kept[s] \ {c.block} ELSE kept[s]]
  /\ moved' = [s \in Threads |-> moved[s] \/ s \in Readers]
  /\ raced' = (raced \/ Writers # {})
  /\ UNCHANGED seen

\* The loop evaluates its length once, and indexes the slice anew each time.
ScanElement(t) ==
  /\ pc[t] = "scan" /\ i[t] < h[t].len
  /\ IF i[t] >= slice.len
     THEN Panic(t) /\ UNCHANGED i
     ELSE \E x \in Slot(slice.arr, i[t] + 1) :
            IF x = call[t].block THEN Goto(t, "cut") /\ UNCHANGED i ELSE Advance(t)
  /\ UNCHANGED <<shared, call, h, left, found, history>>

EndScan(t) ==
  /\ pc[t] = "scan" /\ i[t] = h[t].len
  /\ Reply(t, 404)
  /\ UNCHANGED <<shared, call, h, i, left, found, history>>

Cut(t) ==
  /\ pc[t] = "cut"
  /\ IF i[t] >= slice.len
     THEN Panic(t) /\ UNCHANGED h
     ELSE Goto(t, "move") /\ h' = [h EXCEPT ![t] = [arr |-> slice.arr, len |-> slice.len - 1]]
  /\ UNCHANGED <<shared, call, i, left, found, history>>

MoveNothing(t) ==                                              \* mutant
  /\ pc[t] = "move" /\ i[t] < h[t].len
  /\ Advance(t)
  /\ UNCHANGED <<shared, call, h, left, found, history>>
Move(t) ==
  /\ pc[t] = "move" /\ i[t] < h[t].len
  /\ \E x \in Slot(h[t].arr, i[t] + 2) :
       heap' = [heap EXCEPT ![h[t].arr] = [@ EXCEPT ![i[t] + 1] = x]]
  /\ Advance(t)
  /\ UNCHANGED <<slice, call, h, left, found, history>>

ShortenTwice(t) ==                                             \* mutant
  /\ pc[t] = "move" /\ i[t] = h[t].len
  /\ slice' = [h[t] EXCEPT !.len = @ - 1]
  /\ Reply(t, 204)
  /\ count' = [count EXCEPT ![call[t].block] = @ - 1]
  /\ UNCHANGED <<heap, call, h, i, left, found, seen, kept, moved, raced>>
Shorten(t) ==
  /\ pc[t] = "move" /\ i[t] = h[t].len
  /\ slice' = h[t]
  /\ Reply(t, 204)
  /\ count' = [count EXCEPT ![call[t].block] = @ - 1]
  /\ UNCHANGED <<heap, call, h, i, left, found, seen, kept, moved, raced>>

\* The arrays nobody points to any more are collected.
Return(t) ==
  /\ pc[t] = "reply"
  /\ pc' = [pc EXCEPT ![t] = "idle"]
  /\ status' = [status EXCEPT ![t] = 0]
  /\ call' = [call EXCEPT ![t] = None]
  /\ h' = [h EXCEPT ![t] = NoSlice]
  /\ i' = [i EXCEPT ![t] = 0]
  /\ left' = [left EXCEPT ![t] = {}]
  /\ found' = [found EXCEPT ![t] = {}]
  /\ seen' = [seen EXCEPT ![t] = {}]
  /\ kept' = [kept EXCEPT ![t] = {}]
  /\ moved' = [moved EXCEPT ![t] = FALSE]
  /\ heap' = [a \in Arrays |-> IF InUse(a) THEN heap[a] ELSE <<>>]
  /\ UNCHANGED <<slice, count, raced>>

Step(t) ==
  \/ \E c \in Calls : BeginRead(t, c) \/ BeginAllow(t, c) \/ BeginDeny(t, c)
  \/ \E f \in {"arr", "len"} : Load(t, f)
  \/ ReadElement(t) \/ EndRead(t)
  \/ LoadAndGrow(t) \/ \E what \in {"arr", "len", "element"} : Write(t, what)
  \/ ScanElement(t) \/ EndScan(t) \/ Cut(t) \/ Move(t) \/ Shorten(t)
  \/ Return(t)

Next == \E t \in Threads : Step(t)

Spec == Init /\ [][Next]_vars

(***************************************************************************)
(* Properties.                                                             *)
(***************************************************************************)
Places == {"idle", "load", "read", "append", "write", "scan", "cut", "move", "reply"}

SharedTypes ==
  /\ heap \in [Arrays -> Seq(Anything)]
  /\ slice \in [arr : Arrays, len : Nat]
  /\ count \in [Blocks -> Int]
  /\ raced \in BOOLEAN

ThreadTypes ==
  /\ pc \in [Threads -> Places]
  /\ call \in [Threads -> Calls \cup {None}]
  /\ status \in [Threads -> {0, 200, 201, 204, 403, 404}]
  /\ h \in [Threads -> [arr : Arrays \cup {None}, len : Nat]]
  /\ i \in [Threads -> Nat]
  /\ left \in [Threads -> SUBSET {"arr", "len", "element"}]
  /\ found \in [Threads -> SUBSET Anything]
  /\ seen \in [Threads -> SUBSET Anything]
  /\ kept \in [Threads -> SUBSET Blocks]
  /\ moved \in [Threads -> BOOLEAN]

PlaceTypes ==
  \A t \in Threads :
    /\ pc[t] = "idle" <=> call[t] = None
    /\ pc[t] \in {"load", "read"} => call[t].kind \in {"check", "list"}
    /\ pc[t] \in {"append", "write"} => call[t].kind = "allow"
    /\ pc[t] \in {"scan", "cut", "move"} => call[t].kind = "deny"
    /\ pc[t] \in {"write", "move"} => h[t].arr \in Arrays

\* Type invariant: also after races.
TypeOK == SharedTypes /\ ThreadTypes /\ PlaceTypes

\* When no write is under way, and none ever overlapped another, the slice
\* holds each block as often as it was allowed and not denied: growing arrays
\* lose nothing, and each deny takes one copy of the block it names.
Copies(b) == Cardinality({k \in 1..slice.len : heap[slice.arr][k] = b})

SliceIsExact ==
  ~raced /\ Writers = {} =>
    /\ slice.len <= Len(heap[slice.arr])
    /\ \A k \in 1..slice.len : heap[slice.arr][k] \in Blocks
    /\ \A b \in Blocks : Copies(b) = count[b]

\* What admits an address, and what is listed, was on the list at some time of
\* the request, although denies move blocks under it and leave the last one
\* behind in the array: a denied block admits nobody.  The header must not have
\* been loaded while an allow wrote it: a length published before its element
\* brings a denied block back.
Answered(t) == pc[t] = "reply" /\ call[t].kind \in {"check", "list"}

NothingBroughtBack ==
  \A t \in Threads : Answered(t) /\ ~raced => found[t] \subseteq seen[t]

\* A check or a listing that no deny overlaps finds every block that is on the
\* list all the while, wherever append moves the array.
FindsAll(t) ==
  IF call[t].kind = "list" THEN kept[t] \subseteq found[t]
  ELSE status[t] # 200 => \A b \in kept[t] : call[t].ip \notin b.addrs

NothingMissed ==
  \A t \in Threads : Answered(t) /\ ~moved[t] /\ ~raced => FindsAll(t)
=============================================================================
