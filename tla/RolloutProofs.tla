---------------------------- MODULE RolloutProofs ----------------------------
(***************************************************************************)
(* Theorems about Rollout, for any replicas, organisations, uids and names,*)
(* and any version of the schema at the beginning.                         *)
(***************************************************************************)
EXTENDS Rollout, TLAPS

USE OriginsAssumption, NamesAssumption, SessionAssumption
USE DEF Latest, OriginsAssumption, NamesAssumption, SessionAssumption

(***************************************************************************)
(* The inductive invariant: what a replica that works on the schema knows  *)
(* of its record.                                                          *)
(***************************************************************************)
Pending(r) ==
  /\ pc[r] \in {"mark", "unlock"} => ~dirty
  /\ pc[r] = "mark" => version < binary[r]
  /\ pc[r] = "unlock" => version = binary[r]
  /\ pc[r] = "run" => dirty /\ applied = version - 1 /\ version <= binary[r]
  /\ pc[r] = "clean" => dirty /\ applied = version /\ version <= binary[r]

AtWork == \A r \in Replicas : Pending(r)

IInv == TypeOK /\ RecordIsTrue /\ AtWork

\* Migrations make rows of rows.
LEMMA MigratedType ==
  ASSUME NEW v, NEW S \in SUBSET Row
  PROVE  Migrated(v, S) \subseteq Row
<1>1. ASSUME NEW x \in S, x.name = Null
      PROVE  [x EXCEPT !.name = Default[x.uid]] \in Row
  BY <1>1 DEF Row
<1>2. QED
  BY <1>1 DEF Migrated

\* Every start state satisfies the invariant.
LEMMA InitInvariant == Init => IInv
<1> SUFFICES ASSUME Init PROVE IInv
  OBVIOUS
<1>1. origin \in -1..5
  BY DEF Init
<1>2. pc \in [Replicas -> {"down", "serving"}] /\ binary \in [Replicas -> 0..5]
  BY <1>1 DEF Init
<1>3. lock = None /\ rows = {} /\ dirty = FALSE /\ version = origin /\ applied = origin
  BY DEF Init
<1>4. TypeOK
  BY <1>1, <1>2, <1>3 DEF Init, TypeOK, Working
<1>5. RecordIsTrue /\ AtWork
  BY <1>2, <1>3 DEF RecordIsTrue, AtWork, Pending
<1>6. QED
  BY <1>4, <1>5 DEF IInv

\* Every step keeps it: only the holder of the lock changes the record, so that
\* what it knows of it stays true until its next step.
LEMMA NextInvariant == IInv /\ [Next]_vars => IInv'
<1> SUFFICES ASSUME IInv, [Next]_vars PROVE IInv'
  OBVIOUS
<1> USE DEF IInv, TypeOK, RecordIsTrue, AtWork, Pending, Working, schema, Goto, Exit
<1>1. ASSUME NEW r \in Replicas, Start(r) PROVE IInv'
  BY <1>1 DEF Start
<1>2. ASSUME NEW r \in Replicas, Setup(r) PROVE IInv'
  <2>1. CASE OpenDriver(r)    BY <2>1 DEF OpenDriver
  <2>2. CASE TakeLock(r)      BY <2>2 DEF TakeLock
  <2>3. CASE LockTimeout(r)   BY <2>3 DEF LockTimeout
  <2>4. CASE Refuse(r)        BY <2>4 DEF Refuse
  <2>5. CASE NoChange(r)      BY <2>5 DEF NoChange
  <2>6. CASE BeginUp(r)       BY <2>6 DEF BeginUp, Refused
  <2>7. CASE MarkDirty(r)
    <3>1. lock = r /\ \A s \in Replicas \ {r} : pc[s] \notin Working
      BY <2>7 DEF MarkDirty
    <3>2. version < binary[r] /\ applied = version /\ version' = version + 1 /\ dirty'
      BY <2>7 DEF MarkDirty
    <3>3. version' \in -1..5 /\ version' <= binary[r] /\ applied' = version' - 1
      BY <2>7, <3>2 DEF MarkDirty
    <3>4. TypeOK'
      BY <2>7, <3>1, <3>3 DEF MarkDirty
    <3>5. RecordIsTrue' /\ AtWork'
      BY <2>7, <3>1, <3>2, <3>3 DEF MarkDirty
    <3>6. QED
      BY <3>4, <3>5
  <2>8. CASE RunMigration(r)  BY <2>8, MigratedType DEF RunMigration, Effect
  <2>9. CASE FailMigration(r) BY <2>9 DEF FailMigration
  <2>10. CASE MarkClean(r)
    <3>1. lock = r /\ \A s \in Replicas \ {r} : pc[s] \notin Working
      BY <2>10 DEF MarkClean
    <3>2. ~dirty' /\ applied = version /\ version <= binary[r] /\ version' = version
      BY <2>10 DEF MarkClean
    <3>3. \/ pc' = [pc EXCEPT ![r] = "unlock"] /\ version = binary[r]
          \/ pc' = [pc EXCEPT ![r] = "mark"] /\ version < binary[r]
      <4>1. version \in -1..5 /\ binary[r] \in 0..5
        OBVIOUS
      <4>2. CASE version = binary[r]
        BY <2>10, <4>2 DEF MarkClean
      <4>3. CASE version # binary[r]
        BY <2>10, <3>2, <4>1, <4>3 DEF MarkClean
      <4>4. QED
        BY <4>2, <4>3
    <3>4. TypeOK'
      BY <2>10, <3>1, <3>2, <3>3 DEF MarkClean
    <3>5. RecordIsTrue' /\ AtWork'
      BY <2>10, <3>1, <3>2, <3>3 DEF MarkClean
    <3>6. QED
      BY <3>4, <3>5
  <2>11. CASE Unlock(r)       BY <2>11 DEF Unlock
  <2>12. QED
    BY <1>2, <2>1, <2>2, <2>3, <2>4, <2>5, <2>6, <2>7, <2>8, <2>9, <2>10, <2>11 DEF Setup
<1>3. ASSUME NEW r \in Replicas, Crash(r) PROVE IInv'
  BY <1>3, MigratedType DEF Crash, Effect
<1>4. ASSUME NEW r \in Replicas, Replace(r) PROVE IInv'
  BY <1>4 DEF Replace
<1>5. ASSUME NEW r \in Replicas, Create(r) PROVE IInv'
  BY <1>5 DEF Create, Columns, Row
<1>6. ASSUME NEW r \in Replicas, Delete(r) PROVE IInv'
  BY <1>6 DEF Delete
<1>7. CASE SessionEnds
  BY <1>7 DEF SessionEnds
<1>8. CASE UNCHANGED vars
  BY <1>8 DEF vars
<1>9. QED
  BY <1>1, <1>2, <1>3, <1>4, <1>5, <1>6, <1>7, <1>8 DEF Next

LEMMA Invariance == Spec => []IInv
BY InitInvariant, NextInvariant, PTL DEF Spec

\* Type correctness: above all, whoever works on the schema holds the lock, and
\* so works alone.
THEOREM TypeInvariant == Spec => []TypeOK
BY Invariance, PTL DEF IInv

\* The record of golang-migrate is true of the schema, however starts overlap
\* and wherever they crash.
THEOREM RecordInvariant == Spec => []RecordIsTrue
BY Invariance, PTL DEF IInv

(***************************************************************************)
(* Unreadable rows.                                                        *)
(***************************************************************************)
\* A binary is the one from the beginning or the newest.
Binaries ==
  \A r \in Replicas : binary[r] = 5 \/ (origin # -1 /\ binary[r] = origin)

\* A row without a username comes from a binary that has no such column.
OldRows ==
  \A row \in rows :
    row.username = Null \/ row.name = Null => origin \in 0..2 /\ row.username = Null

RowsInv == Binaries /\ OldRows

\* A migration leaves usernames alone and takes no name away.
LEMMA MigratedOld ==
  ASSUME NEW v, NEW S \in SUBSET Row, NEW y \in Migrated(v, S)
  PROVE  \E x \in S : y.username = x.username /\ (y.name = Null => x.name = Null)
<1>1. CASE v # 2
  BY <1>1 DEF Migrated
<1>2. CASE v = 2
  <2>1. PICK x \in S : y = IF x.name = Null THEN [x EXCEPT !.name = Default[x.uid]] ELSE x
    BY <1>2 DEF Migrated
  <2>2. x \in Row
    OBVIOUS
  <2>3. QED
    BY <2>1, <2>2 DEF Row
<1>3. QED
  BY <1>1, <1>2

LEMMA EffectOld == TypeOK /\ RowsInv /\ Effect /\ origin' = origin => OldRows'
BY MigratedOld DEF TypeOK, RowsInv, OldRows, Effect

\* A migration fills names in and the binaries from before migration 3 are
\* those of the beginning, so that no step makes an unreadable row of another kind.
LEMMA NextRows == IInv /\ RowsInv /\ [Next]_vars => RowsInv'
<1> SUFFICES ASSUME TypeOK, RowsInv, [Next]_vars PROVE RowsInv'
  BY DEF IInv
<1> USE DEF RowsInv, Binaries, OldRows, schema, Goto, Exit
<1>1. ASSUME NEW r \in Replicas, Start(r) PROVE RowsInv'
  BY <1>1 DEF Start
<1>2. ASSUME NEW r \in Replicas, Setup(r) PROVE RowsInv'
  <2>1. CASE RunMigration(r)
    <3>1. OldRows'
      BY <2>1, EffectOld DEF RunMigration
    <3>2. QED
      BY <2>1, <3>1 DEF RunMigration
  <2>2. CASE ~RunMigration(r)
    BY <1>2, <2>2 DEF Setup, OpenDriver, TakeLock, LockTimeout, Refuse, NoChange, BeginUp,
                      MarkDirty, FailMigration, MarkClean, Unlock
  <2>3. QED
    BY <2>1, <2>2
<1>3. ASSUME NEW r \in Replicas, Crash(r) PROVE RowsInv'
  <2>1. OldRows'
    BY <1>3, EffectOld DEF Crash
  <2>2. QED
    BY <1>3, <2>1 DEF Crash
<1>4. ASSUME NEW r \in Replicas, Replace(r) PROVE RowsInv'
  BY <1>4 DEF Replace, TypeOK
<1>5. ASSUME NEW r \in Replicas, Create(r) PROVE RowsInv'
  <2>1. PICK org \in Orgs, uid \in UIDs, c \in Columns(binary[r]) :
          rows' = rows \cup {[org |-> org, uid |-> uid, name |-> c.name, username |-> c.username]}
    BY <1>5 DEF Create
  <2>2. binary[r] = 5 \/ (binary[r] = origin /\ origin \in 0..5)
    BY DEF TypeOK
  <2>3. c.username = Null \/ c.name = Null => binary[r] \in 0..2 /\ c.username = Null
    BY <2>2 DEF Columns
  <2>4. OldRows'
    BY <1>5, <2>1, <2>2, <2>3 DEF Create
  <2>5. QED
    BY <1>5, <2>4 DEF Create
<1>6. ASSUME NEW r \in Replicas, Delete(r) PROVE RowsInv'
  BY <1>6 DEF Delete
<1>7. CASE SessionEnds
  BY <1>7 DEF SessionEnds
<1>8. CASE UNCHANGED vars
  BY <1>8 DEF vars
<1>9. QED
  BY <1>1, <1>2, <1>3, <1>4, <1>5, <1>6, <1>7, <1>8 DEF Next

\* Rows that scanRegistration cannot read are only those that a binary from
\* before migration 3 wrote.
THEOREM UnreadableRowsAreOld == Spec => []UnreadableIsOld
<1>1. Init => RowsInv
  BY DEF Init, RowsInv, Binaries, OldRows
<1>2. RowsInv => UnreadableIsOld
  BY DEF RowsInv, OldRows, UnreadableIsOld, Readable
<1>3. QED
  BY <1>1, <1>2, Invariance, NextRows, PTL DEF Spec

(***************************************************************************)
(* Refinement of SchemaUpgrade.                                            *)
(***************************************************************************)
\* What SchemaUpgrade sees of a step that leaves the record alone and moves
\* nobody who is at work on a migration.
LEMMA SameJam ==
  ASSUME dirty' = dirty,
         \A s \in Replicas : pc'[s] \in {"run", "clean"} <=> pc[s] \in {"run", "clean"}
  PROVE  Jammed' <=> Jammed
BY DEF Jammed

\* Nobody serves or stops serving.
LEMMA SameMembers ==
  ASSUME \A s \in Replicas : pc'[s] = "serving" <=> pc[s] = "serving"
  PROVE  Members' = Members
BY DEF Members

LEMMA InitRefines == Init => Upgrade!Init
<1> SUFFICES ASSUME Init PROVE Upgrade!Init
  OBVIOUS
<1>1. origin \in -1..5 /\ applied = origin /\ ~dirty
  BY DEF Init
<1>2. ~Jammed
  BY <1>1 DEF Jammed
<1>3. binary \in [Replicas -> 0..5]
  BY <1>1 DEF Init
<1>4. Members \in SUBSET Replicas /\ \A r \in Members : binary[r] = applied
  BY <1>1 DEF Init, Members
<1>5. (Jammed = FALSE) <=> TRUE
  BY <1>2
<1>6. QED
  BY <1>1, <1>3, <1>4, <1>5 DEF Upgrade!Init

\* Every step is a step of SchemaUpgrade or a stutter: only a start that ends
\* joins, and what else happens to a migration only jams or advances the schema.
LEMMA StepRefines == IInv /\ [Next]_vars => [Upgrade!Next]_(Upgrade!upgradeVars)
<1> SUFFICES ASSUME IInv, [Next]_vars
             PROVE  Upgrade!Next \/ UNCHANGED <<applied, Jammed, binary, Members>>
  BY DEF Upgrade!upgradeVars
<1> USE DEF IInv, TypeOK, AtWork, Pending, Working, RecordIsTrue, schema, Goto, Exit
<1>j. Jammed \in BOOLEAN /\ Jammed' \in BOOLEAN
  BY DEF Jammed
<1>1. ASSUME NEW r \in Replicas, Start(r) \/ OpenDriver(r) \/ TakeLock(r) \/ LockTimeout(r)
                                 \/ BeginUp(r)
      PROVE  UNCHANGED <<applied, Jammed, binary, Members>>
  <2>1. \A s \in Replicas : pc'[s] \in {"run", "clean"} <=> pc[s] \in {"run", "clean"}
    BY <1>1 DEF Start, OpenDriver, TakeLock, LockTimeout, BeginUp
  <2>2. \A s \in Replicas : pc'[s] = "serving" <=> pc[s] = "serving"
    BY <1>1 DEF Start, OpenDriver, TakeLock, LockTimeout, BeginUp
  <2>3. UNCHANGED <<applied, dirty, binary>>
    BY <1>1 DEF Start, OpenDriver, TakeLock, LockTimeout, BeginUp
  <2>4. QED
    BY <1>j, <2>1, <2>2, <2>3, SameJam, SameMembers
<1>2. ASSUME NEW r \in Replicas, Refuse(r)
      PROVE  UNCHANGED <<applied, Jammed, binary, Members>>
  <2>1. \A s \in Replicas : pc'[s] \in {"run", "clean"} <=> pc[s] \in {"run", "clean"}
    BY <1>2 DEF Refuse
  <2>2. \A s \in Replicas : pc'[s] = "serving" <=> pc[s] = "serving"
    BY <1>2 DEF Refuse
  <2>3. QED
    BY <1>2, <1>j, <2>1, <2>2, SameJam, SameMembers DEF Refuse
<1>3. ASSUME NEW r \in Replicas, NoChange(r) \/ Unlock(r)
      PROVE  Upgrade!Next
  <2>1. ~dirty /\ applied = binary[r]
    BY <1>3 DEF NoChange, Unlock, Refused
  <2>2. ~Jammed /\ ~Jammed'
    BY <1>3, <2>1 DEF NoChange, Unlock, Jammed
  <2>3. Members' = Members \cup {r}
    BY <1>3 DEF NoChange, Unlock, Members
  <2>4. UNCHANGED <<applied, Jammed, binary>>
    BY <1>3, <1>j, <2>2 DEF NoChange, Unlock
  <2>5. Upgrade!Join(r)
    BY <2>1, <2>2, <2>3, <2>4 DEF Upgrade!Join
  <2>6. QED
    BY <2>5 DEF Upgrade!Next
<1>4. ASSUME NEW r \in Replicas, MarkDirty(r) \/ MarkClean(r)
      PROVE  UNCHANGED <<applied, Jammed, binary, Members>>
  <2>1. ~Jammed /\ ~Jammed'
    BY <1>4 DEF MarkDirty, MarkClean, Jammed
  <2>2. \A s \in Replicas : pc'[s] = "serving" <=> pc[s] = "serving"
    BY <1>4 DEF MarkDirty, MarkClean
  <2>3. QED
    BY <1>4, <1>j, <2>1, <2>2, SameMembers DEF MarkDirty, MarkClean
<1>5. ASSUME NEW r \in Replicas, RunMigration(r)
      PROVE  Upgrade!Next
  <2>1. ~Jammed /\ ~Jammed'
    BY <1>5 DEF RunMigration, Jammed
  <2>2. \A s \in Replicas : pc'[s] = "serving" <=> pc[s] = "serving"
    BY <1>5 DEF RunMigration
  <2>3. applied' = applied + 1 /\ applied' <= 5
    BY <1>5 DEF RunMigration, Effect
  <2>4. QED
    BY <1>5, <1>j, <2>1, <2>2, <2>3, SameMembers DEF RunMigration, Upgrade!Next, Upgrade!Advance
<1>6. ASSUME NEW r \in Replicas, FailMigration(r)
      PROVE  Upgrade!Next
  <2>1. Jammed'
    BY <1>6 DEF FailMigration, Jammed
  <2>2. \A s \in Replicas : pc'[s] = "serving" <=> pc[s] = "serving"
    BY <1>6 DEF FailMigration
  <2>3. QED
    BY <1>6, <1>j, <2>1, <2>2, SameMembers DEF FailMigration, Upgrade!Next, Upgrade!Jam
<1>7. ASSUME NEW r \in Replicas, Crash(r)
      PROVE  Upgrade!Next \/ UNCHANGED <<applied, Jammed, binary, Members>>
  <2>1. CASE pc[r] \in {"run", "clean"}
    <3>1. ~Jammed /\ Jammed'
      BY <1>7, <2>1 DEF Crash, Jammed
    <3>2. \A s \in Replicas : pc'[s] = "serving" <=> pc[s] = "serving"
      BY <1>7, <2>1 DEF Crash
    <3>3. UNCHANGED binary /\ Members' = Members
      BY <1>7, <3>2, SameMembers DEF Crash
    <3>4. applied' = applied \/ (applied' = applied + 1 /\ applied' <= 5)
      BY <1>7, <2>1 DEF Crash, Effect
    <3>5. Upgrade!Jam \/ Upgrade!Advance
      BY <1>j, <3>1, <3>3, <3>4 DEF Upgrade!Jam, Upgrade!Advance
    <3>6. QED
      BY <3>5 DEF Upgrade!Next
  <2>2. CASE pc[r] \notin {"run", "clean"}
    <3>1. \A s \in Replicas : pc'[s] \in {"run", "clean"} <=> pc[s] \in {"run", "clean"}
      BY <1>7, <2>2 DEF Crash
    <3>2. UNCHANGED <<applied, Jammed, binary>>
      BY <1>7, <1>j, <2>2, <3>1, SameJam DEF Crash
    <3>3. Members' = Members \ {r}
      BY <1>7 DEF Crash, Members
    <3>4. Upgrade!Leave(r)
      BY <3>2, <3>3 DEF Upgrade!Leave
    <3>5. QED
      BY <3>4 DEF Upgrade!Next
  <2>3. QED
    BY <2>1, <2>2
<1>8. ASSUME NEW r \in Replicas, Replace(r)
      PROVE  Upgrade!Next
  <2>1. UNCHANGED <<applied, dirty, pc>>
    BY <1>8 DEF Replace
  <2>2. UNCHANGED <<applied, Jammed, Members>> /\ r \notin Members
    BY <1>8, <1>j, <2>1, SameJam, SameMembers DEF Replace, Members
  <2>3. Upgrade!Replace(r)
    BY <1>8, <2>2 DEF Replace, Upgrade!Replace
  <2>4. QED
    BY <2>3 DEF Upgrade!Next
<1>9. ASSUME UNCHANGED <<applied, dirty, pc, binary>>
      PROVE  UNCHANGED <<applied, Jammed, binary, Members>>
  BY <1>9, <1>j, SameJam, SameMembers
<1>10. ASSUME NEW r \in Replicas, Create(r) \/ Delete(r)
       PROVE  UNCHANGED <<applied, dirty, pc, binary>>
  BY <1>10 DEF Create, Delete
<1>11. SessionEnds \/ UNCHANGED vars => UNCHANGED <<applied, dirty, pc, binary>>
  BY DEF SessionEnds, vars
<1>12. QED
  BY <1>1, <1>2, <1>3, <1>4, <1>5, <1>6, <1>7, <1>8, <1>9, <1>10, <1>11 DEF Next, Setup

\* A replica joins only the schema of its own binary; migrations take effect one
\* by one; nobody serves or repairs a schema whose migration was cut off.
THEOREM Refinement == Spec => ImplementsUpgrade
BY Invariance, InitRefines, StepRefines, PTL DEF Spec, ImplementsUpgrade, Upgrade!Spec
=============================================================================
