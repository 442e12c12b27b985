------------------------------ MODULE MCRollout -----------------------------
(* Rollout for TLC: two replicas, two organisations, two uids.               *)
EXTENDS Rollout

CONSTANTS u1, u2, n1, n2

MCDefault == [u \in UIDs |-> IF u = u1 THEN n1 ELSE n2]
MCOrigins == -1..Latest
=============================================================================
