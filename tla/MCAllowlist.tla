----------------------------- MODULE MCAllowlist -----------------------------
(* MemoryAllowlist for TLC: two organisations' blocks that share an address, *)
(* each on the list up to three times, as nothing keeps an allow unique.    *)
EXTENDS MemoryAllowlist, TLC

CONSTANTS o1, o2, a1, a2, t1, t2, s1, s2, s3

BlockOf(org, addrs) == [org |-> org, addrs |-> addrs]
MCBlocks == {BlockOf(o1, {a1, a2}), BlockOf(o2, {a2})}

MCCalls ==
       [kind : {"allow", "deny"}, block : MCBlocks]
  \cup [kind : {"check"}, ip : {a1, a2}]
  \cup [kind : {"list"}]

Symmetry == Permutations(Threads) \cup Permutations(Arrays)

\* Nothing is claimed once two writes overlap, and two readers share nothing
\* that either of them writes.
OneWriterOneReader == ~raced /\ Cardinality(Readers) <= 1
=============================================================================
