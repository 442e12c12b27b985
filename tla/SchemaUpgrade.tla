--------------------------- MODULE SchemaUpgrade ---------------------------
(***************************************************************************)
(* What the start of a replica promises of the schema it serves.  The      *)
(* schema only moves forward, one migration at a time; a replica joins     *)
(* only a schema that is not jammed and is the one its own binary was      *)
(* built for, and the schema never moves away from under it but forward.   *)
(* A schema that is jammed stays as it is: no start repairs it.            *)
(***************************************************************************)
EXTENDS Integers

CONSTANTS Replicas, Latest

VARIABLES
  level,    \* the last migration that took effect
  jammed,   \* whether a migration was left half done
  binary,   \* the last migration the binary of a replica knows
  members   \* the replicas that serve

upgradeVars == <<level, jammed, binary, members>>

Init ==
  /\ level \in -1..Latest
  /\ jammed = FALSE
  /\ binary \in [Replicas -> 0..Latest]
  /\ members \in SUBSET Replicas
  /\ \A r \in members : binary[r] = level

\* A migration takes effect; the process that runs it may die of it.
Advance ==
  /\ ~jammed
  /\ level' = level + 1 /\ level' <= Latest
  /\ jammed' \in BOOLEAN
  /\ UNCHANGED <<binary, members>>

Jam ==
  /\ jammed' = TRUE
  /\ UNCHANGED <<level, binary, members>>

Join(r) ==
  /\ ~jammed /\ level = binary[r]
  /\ members' = members \cup {r}
  /\ UNCHANGED <<level, jammed, binary>>

Leave(r) ==
  /\ members' = members \ {r}
  /\ UNCHANGED <<level, jammed, binary>>

\* Only a replica that does not serve gets another binary.
Replace(r) ==
  /\ r \notin members
  /\ binary' = [binary EXCEPT ![r] = Latest]
  /\ UNCHANGED <<level, jammed, members>>

Next == Advance \/ Jam \/ \E r \in Replicas : Join(r) \/ Leave(r) \/ Replace(r)

Spec == Init /\ [][Next]_upgradeVars
=============================================================================
