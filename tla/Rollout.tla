------------------------------ MODULE Rollout ------------------------------
(***************************************************************************)
(* A rolling update of the replicas over one PostgreSQL schema: main calls *)
(* SetupStore, which connects and lets golang-migrate bring the schema up  *)
(* to the migrations embedded in the binary, before the replica listens.   *)
(* Any error on the way panics; Kubernetes starts the replica again.       *)
(*                                                                         *)
(* Replicas of an older binary serve while the newer ones migrate.  An     *)
(* older binary is taken to be this program with the migrations up to its  *)
(* own: it writes the columns it knows.  golang-migrate is modelled by     *)
(* what Up does: an advisory lock held by the session, a dirty mark before *)
(* each migration, the migration in one transaction, the mark removed.     *)
(***************************************************************************)
EXTENDS Integers, FiniteSets

CONSTANTS
  Replicas, Orgs, UIDs, Names,
  Default,    \* the display name that migration 2 makes of a uid
  Origins,    \* the versions the schema may have when the update begins
  MaxRows,    \* bound: rows in the table
  Null,       \* a column without a value
  None,       \* nobody
  Orphan      \* a database session whose replica is gone

Latest == 5

ASSUME OriginsAssumption == Origins \subseteq -1..Latest
ASSUME NamesAssumption ==
  /\ Default \in [UIDs -> Names] /\ Null \notin Names \cup {"given"}
  /\ \A u, v \in UIDs : Default[u] = Default[v] => u = v
ASSUME SessionAssumption == None \notin Replicas /\ Orphan \notin Replicas \cup {None}

VARIABLES
  origin,   \* the version at the beginning; it never changes
  version,  \* schema_migrations: the version, -1 when there is none
  dirty,    \* schema_migrations: the dirty mark
  applied,  \* the last migration whose statements took effect
  lock,     \* who holds the advisory lock
  pc,       \* where each replica is in its start
  binary,   \* the last migration each replica's binary has
  rows      \* table registrations

vars == <<origin, version, dirty, applied, lock, pc, binary, rows>>

schema == <<origin, version, dirty, applied>>

\* A username is there or it is not.
Row == [org : Orgs, uid : UIDs, name : Names \cup {Null}, username : {"given", Null}]

Working == {"check", "mark", "run", "clean", "unlock"}

(***************************************************************************)
(* The migrations.                                                         *)
(***************************************************************************)
\* The unique indexes and constraints of the schema after migration v; NULLs
\* are distinct.
Constraints(v, S) ==
  \A x, y \in S :
    \/ x = y
    \/ /\ x.org # y.org \/ x.uid # y.uid
       /\ v >= 1 => x.uid # y.uid
       /\ v \in {2, 3} => x.name # y.name \/ x.name = Null
       /\ v >= 4 => x.name # y.name \/ x.org # y.org \/ x.name = Null

\* Only migration 2 changes rows: it fills in the display names.
Migrated(v, S) ==
  IF v # 2 THEN S
  ELSE {IF x.name = Null THEN [x EXCEPT !.name = Default[x.uid]] ELSE x : x \in S}

(***************************************************************************)
(* Init and the start of a replica.  A definition marked "mutant" is what  *)
(* a plausible bug would make of the one below it; only PROJECT.json uses  *)
(* it.                                                                     *)
(***************************************************************************)
\* A database that is new, or one whose replicas all run its version.
Init ==
  /\ origin \in Origins
  /\ version = origin /\ applied = origin
  /\ dirty = FALSE
  /\ lock = None
  /\ pc = [r \in Replicas |-> IF origin = -1 THEN "down" ELSE "serving"]
  /\ binary = [r \in Replicas |-> IF origin = -1 THEN Latest ELSE origin]
  /\ rows = {}

Goto(r, place) == pc' = [pc EXCEPT ![r] = place]

Start(r) ==
  /\ pc[r] = "down"
  /\ Goto(r, "open")
  /\ UNCHANGED <<schema, lock, binary, rows>>

\* Opening the driver takes the lock as well, to create schema_migrations, and
\* waits for it without a limit.
OpenDriver(r) ==
  /\ pc[r] = "open" /\ lock = None
  /\ Goto(r, "lock")
  /\ UNCHANGED <<schema, lock, binary, rows>>

TakeLockOfAnother(r) ==                                        \* mutant
  /\ pc[r] = "lock"
  /\ lock' = r
  /\ Goto(r, "check")
  /\ UNCHANGED <<schema, binary, rows>>

TakeLock(r) ==
  /\ pc[r] = "lock" /\ lock = None
  /\ lock' = r
  /\ Goto(r, "check")
  /\ UNCHANGED <<schema, binary, rows>>

WaitForLock(r) == FALSE /\ UNCHANGED vars                      \* mutant

\* Up waits for the lock for LockTimeout and gives up with an error.
LockTimeout(r) ==
  /\ pc[r] = "lock" /\ lock # None
  /\ Goto(r, "down")
  /\ UNCHANGED <<schema, lock, binary, rows>>

Exit(r, place) == lock' = None /\ Goto(r, place)

RefusedIfUnknown(r) == version > binary[r]                     \* mutant
\* Up refuses a dirty version and one that is not among its migrations.
Refused(r) == dirty \/ version > binary[r]

Refuse(r) ==
  /\ pc[r] = "check" /\ Refused(r)
  /\ Exit(r, "down")
  /\ UNCHANGED <<schema, binary, rows>>

\* ErrNoChange is no error.
NoChange(r) ==
  /\ pc[r] = "check" /\ ~Refused(r) /\ version = binary[r]
  /\ Exit(r, "serving")
  /\ UNCHANGED <<schema, binary, rows>>

BeginUp(r) ==
  /\ pc[r] = "check" /\ ~Refused(r) /\ version < binary[r]
  /\ Goto(r, "mark")
  /\ UNCHANGED <<schema, lock, binary, rows>>

MarkVersion(r) ==                                              \* mutant
  /\ pc[r] = "mark"
  /\ version' = version + 1
  /\ Goto(r, "run")
  /\ UNCHANGED <<origin, dirty, applied, lock, binary, rows>>

MarkDirty(r) ==
  /\ pc[r] = "mark"
  /\ version' = version + 1 /\ dirty' = TRUE
  /\ Goto(r, "run")
  /\ UNCHANGED <<origin, applied, lock, binary, rows>>

\* The statements of the migration take effect, all of them or none.
Effect ==
  /\ Constraints(version, Migrated(version, rows))
  /\ applied' = version
  /\ rows' = Migrated(version, rows)

RunMigration(r) ==
  /\ pc[r] = "run"
  /\ Effect
  /\ Goto(r, "clean")
  /\ UNCHANGED <<origin, version, dirty, lock, binary>>

\* Rows that are there violate a new constraint.
FailMigration(r) ==
  /\ pc[r] = "run"
  /\ ~Constraints(version, Migrated(version, rows))
  /\ Exit(r, "down")
  /\ UNCHANGED <<schema, binary, rows>>

MarkClean(r) ==
  /\ pc[r] = "clean"
  /\ dirty' = FALSE
  /\ Goto(r, IF version = binary[r] THEN "unlock" ELSE "mark")
  /\ UNCHANGED <<origin, version, applied, lock, binary, rows>>

Unlock(r) ==
  /\ pc[r] = "unlock"
  /\ Exit(r, "serving")
  /\ UNCHANGED <<schema, binary, rows>>

\* A replica stops anywhere, or its connection breaks and it panics.  Its
\* session may stay for a while, and with it the lock; the transaction of a
\* migration that was running commits or does not.
Crash(r) ==
  /\ pc[r] # "down"
  /\ Goto(r, "down")
  /\ lock' = IF lock = r THEN Orphan ELSE lock
  /\ \/ UNCHANGED <<applied, rows>>
     \/ pc[r] = "run" /\ Effect
  /\ UNCHANGED <<origin, version, dirty, binary>>

SessionEnds ==
  /\ lock = Orphan
  /\ lock' = None
  /\ UNCHANGED <<schema, pc, binary, rows>>

\* The rolling update starts the next process of a replica with the new image.
Replace(r) ==
  /\ pc[r] = "down" /\ binary[r] # Latest
  /\ binary' = [binary EXCEPT ![r] = Latest]
  /\ UNCHANGED <<schema, lock, pc, rows>>

(***************************************************************************)
(* A replica that serves: registrations come and go.                       *)
(***************************************************************************)
ColumnsButUsername(v) == [name : IF v >= 2 THEN Names ELSE {Null},  \* mutant
                          username : {Null}]

Columns(v) == [name : IF v >= 2 THEN Names ELSE {Null},
               username : {IF v >= 3 THEN "given" ELSE Null}]

Create(r) ==
  /\ pc[r] = "serving"
  /\ Cardinality(rows) < MaxRows
  /\ \E org \in Orgs, uid \in UIDs, c \in Columns(binary[r]) :
       LET row == [org |-> org, uid |-> uid, name |-> c.name, username |-> c.username]
       IN  /\ row \notin rows
           /\ Constraints(applied, rows \cup {row})
           /\ rows' = rows \cup {row}
  /\ UNCHANGED <<schema, lock, pc, binary>>

Delete(r) ==
  /\ pc[r] = "serving"
  /\ \E row \in rows : rows' = rows \ {row}
  /\ UNCHANGED <<schema, lock, pc, binary>>

Setup(r) ==
  \/ OpenDriver(r) \/ TakeLock(r) \/ LockTimeout(r)
  \/ Refuse(r) \/ NoChange(r) \/ BeginUp(r)
  \/ MarkDirty(r) \/ RunMigration(r) \/ FailMigration(r) \/ MarkClean(r) \/ Unlock(r)

Next ==
  \/ \E r \in Replicas :
       Start(r) \/ Setup(r) \/ Crash(r) \/ Replace(r) \/ Create(r) \/ Delete(r)
  \/ SessionEnds

Spec == Init /\ [][Next]_vars

\* A process that starts keeps running, and PostgreSQL ends the session of a
\* process that is gone.  It grants a lock to those who wait in their order, so
\* that nobody is passed over for ever (strong fairness of OpenDriver).
FairSpec ==
  /\ Spec
  /\ WF_vars(SessionEnds)
  /\ \A r \in Replicas : WF_vars(Setup(r)) /\ SF_vars(OpenDriver(r))

(***************************************************************************)
(* Properties.                                                             *)
(***************************************************************************)
\* Type invariant; a replica is at work on the schema exactly while it holds
\* the lock.
TypeOK ==
  /\ origin \in Origins
  /\ version \in -1..Latest /\ applied \in -1..Latest /\ dirty \in BOOLEAN
  /\ lock \in Replicas \cup {None, Orphan}
  /\ pc \in [Replicas -> {"down", "open", "lock", "serving"} \cup Working]
  /\ binary \in [Replicas -> 0..Latest]
  /\ rows \subseteq Row
  /\ \A r \in Replicas : pc[r] \in Working <=> lock = r

\* The record of golang-migrate is true of the schema however starts overlap
\* and wherever they crash: a clean version has taken effect; a dirty one has
\* taken effect or is the next to do so.
RecordIsTrue ==
  /\ ~dirty => applied = version
  /\ dirty => applied \in {version - 1, version}

\* A migration was marked, and nobody is at work on it any more.
Jammed == dirty /\ \A r \in Replicas : pc[r] \notin {"run", "clean"}

Members == {r \in Replicas : pc[r] = "serving"}

Upgrade == INSTANCE SchemaUpgrade WITH
  level <- applied, jammed <- Jammed, members <- Members

\* Refinement: a replica joins only the schema of its own binary, migrations
\* take effect one by one, and a schema whose migration was cut off stays as it
\* is: no later start, of any binary, touches it or serves it.
ImplementsUpgrade == Upgrade!Spec

Readable(row) == row.name # Null /\ row.username # Null

\* A row that scanRegistration cannot read, for a NULL in a column it reads into
\* a string, was written by a binary from before migration 3: an update from a
\* later version leaves no such row, whichever replicas write meanwhile.
UnreadableIsOld ==
  \A row \in rows : Readable(row) \/ (origin \in 0..2 /\ row.username = Null)

\* Whoever waits for the lock, and whoever held it when it crashed: each start
\* of a replica ends, and it serves or is down.
EveryStartEnds ==
  \A r \in Replicas : pc[r] = "open" ~> pc[r] \in {"serving", "down"}
=============================================================================
