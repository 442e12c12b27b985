------------------------------ MODULE MCMemory ------------------------------
(* MemoryStore for TLC: registrations of two organisations and every kind   *)
(* of call on them.  The slice grows from no array over 1, 2 and 4 rows.    *)
EXTENDS MemoryStore, TLC

CONSTANTS o1, o2, u1, u2, u3, n1, n2, n3, t1, t2

RowOf(org, uid, name) == [org |-> org, uid |-> uid, name |-> name]
MCRows == {RowOf(o1, u1, n1), RowOf(o1, u2, n2), RowOf(o2, u3, n3),
           RowOf(o2, u3, n2)}

MCCalls ==
       [kind : {"create"}, row : MCRows]
  \cup [kind : {"delete"}, org : {o1}, uid : {u1}]
  \cup [kind : {"find"}, uid : {u1}]
  \cup [kind : {"all"}, org : {o1}]

Symmetry == Permutations(Threads)

\* Go leaves open what happens once two writes overlap.
BeforeTheFirstRace == ~raced

\* Creates and one delete are enough for the disagreement.
DeleteCalls ==
       [kind : {"create"}, row : {RowOf(o1, u1, n1), RowOf(o1, u2, n2)}]
  \cup {[kind |-> "delete", org |-> o1, uid |-> u2]}
=============================================================================
