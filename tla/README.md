# A verification development of mbop

mbop answers, in place of the back office proxy, for users, satellite registrations, mails and keys
(`src/README.md`, `src/ARCHITECTURE.md`). This directory holds TLA+ modules translated from its Go
and SQL sources, the TLC configurations that check them on small instances, and theorems that TLAPS
checks for every value of the constants. `PROJECT.json` maps each definition to the lines it
translates.

## The system

A process is an HTTP server; each request runs in a goroutine. The deployment runs `REPLICAS`
processes, updated by rolling (`deployments/deployment.yaml`). Requests of one process share
package-level variables, requests of all processes share PostgreSQL.

| Component | State | Operations | Talks to |
| --- | --- | --- | --- |
| registration handlers (`registration_handler.go`, `certs.go`) | none | list, create (with the allowlist gate), delete | store |
| allowlist handlers (`allowlist_handler.go`) | none | list, add, remove a block | store |
| login and check (`auth_v1_handler.go`, `checkRegistration`) | none | find the organisation of a certificate's uid | store |
| PostgreSQL store (`postgres_store_impl.go`, `migrations/`) | tables `registrations`, `allowlist` | one statement per operation; two for a list | PostgreSQL |
| in-memory store (`in_memory_store_impl.go`) | two Go slices, no lock | the same interface | — |
| start of a replica (`mbop.go`, `store.go`, `migrator.go`) | `schema_migrations`, the chosen store | connect, migrate, listen; stop at a signal | PostgreSQL |
| mail (`send_email.go`, `mailer/`) | the mails of a request | look up usernames, send one by one | user lookup, SES |
| user lookup (`ocm/`, `keycloak/`, `keycloak-user-service/`, the users handlers) | the package variable `order`, open connections | query users, merge role bindings, page | AMS, Keycloak, the user service |
| catch-all server (`ephemeral.go`) | an OAuth client | dispatch by path; query, filter, sort users; log in; entitlements | Keycloak |
| tokens and keys (`token_handler.go`, `jwt_v1_handler.go`) | none | sign a token; fetch a key | key endpoint |
| configuration, status, logging | constants after start | — | — |

What is hard, and what makes each part correct:

- **Registrations.** Creates race in several replicas and nothing but the constraints decides
  between them. The gate and the insert are two statements; the allowlist changes in between.
  Statements fail before or after they commit, replicas stop with handlers in flight. Correct means:
  a uid and, per organisation, a display name belong to one registration; every answer belongs to one
  instant of an atomic registry; a tenant's data changes only by its own admins; every registration
  was admitted while its request was pending.
- **Listing.** Page and count have snapshots of their own and a client's walk takes many of them.
  Correct means: own rows only, a count that fits the page, no row missed that was there all along.
- **In-memory store.** Go orders nothing between goroutines without a lock; `append` moves arrays.
  Correct means: exact when undisturbed, readers are not harmed by creates, a denied block admits nobody,
  and a check or a listing misses a block only if a deny overlaps it.
- **Mail.** One of several mails fails; lists are rewritten while they are ranged over. Correct means:
  each mail on its own, once, in order, to everybody it names and nobody else.
- **Start and migrations.** A rolling update runs binaries of two versions on one schema; two replicas
  start at once; one dies in a migration, and its session may keep the lock. Correct means: the record in
  `schema_migrations` is true of the schema, a replica serves only a schema of its own binary, a schema
  that was left half migrated is served by no new start, every start ends, and rows are readable.
- **User lookup.** The v3 query order is a package variable nobody locks; connections are closed on
  success only; accounts and role bindings are two queries; a handler goes on after its 400. Correct means:
  an answer keeps to its tenant (for values that leave the search string of AMS whole), its administrators were administrators during the request, a refusal
  stays one, and nobody waits for ever on a silent service.
- **Catch-all server.** The realm changes between a password and a listing, a listing is cut at 2000
  users, the limit comes before the sort. Correct means: a query is what its filters ask for, and a login
  is refused or answered with one user who has the name whose password was right.

`PROJECT.json` lists these hazards at their lines, with the properties that cover them.

## The modules

| Module | What it is |
| --- | --- |
| `SatelliteRegistry` | abstract: the registry the store promises. Requests ask, take effect at one instant or not at all, and are answered |
| `RegistrationService` | the handlers over the PostgreSQL store, one action per SQL statement |
| `RegistrationServiceProofs` | type correctness, uniqueness, isolation, the gate: theorems |
| `RegistrationRefinement` | theorem: `RegistrationService` implements `SatelliteRegistry` |
| `RegistrationPaging` | `RegistrationListHandler` over `postgresStore.All`, with a client that walks over the pages |
| `PagingProofs` | theorems about the list and the walk, for tables of any size |
| `MemoryStore` | the in-memory store's slice of registrations, goroutine by goroutine |
| `MemoryProofs` | theorems about that slice, of any length and among any goroutines |
| `MemoryAllowlist` | its slice of allowlist blocks, which readers range over while others append to it and cut it |
| `AllowlistProofs` | theorems about that slice, of any length and among any goroutines |
| `MailDelivery` | `SendEmails` and `LookupEmailsForUsernames` |
| `MailProofs` | theorems about requests of any mails |
| `SchemaUpgrade` | abstract: what the start of a replica promises of the schema it serves |
| `Rollout` | a rolling update: golang-migrate's lock and dirty mark, the migrations, old and new replicas that write |
| `RolloutProofs` | theorems: the record, the readable rows, `Rollout` implements `SchemaUpgrade` |
| `UserLookup` | the three user queries over AMS, its mock and the Keycloak user service |
| `CatchallServer` | `ephemeral.go`: dispatch, queries, login, entitlements |
| `UsersService` | the composition: `USERS_MODULE` decides which of the two answers |
| `UsersProofs` | theorems about any number of user queries at once, and about the catch-all server over any realm |
| `MCRegistration`, `MCPaging`, `MCMemory`, `MCAllowlist`, `MCMail`, `MCRollout`, `MCUsers` | instances for TLC |

**RegistrationService.** `rows` and `allowlist` are the tables; `req[r]` is a request: where its
handler is (`idle`, `gate` before the allowlist query, `handle` before its statement, `reply` with an
answer nobody has received), its call, status, and the organisation a login was let into. `Receive`
dispatches; `PassGate`/`FailGate` are `AllowedIP`; `CutBody` is a create whose body breaks off (500, behind the gate
and before any test); `Refuse` the early returns, in the handlers' order;
`Create`, `Delete`, `FindByUID`, `AllowAddress`, `DenyAddress`, `AllowedAddresses` the statements with
the code up to the answer; `StatementLost` and `StatementRejected` the two ways a statement fails that
the code tells apart (no PgError, a PgError other than 23505); `Crash` the end of a replica. Addresses
and blocks are members of small sets: `Contains` says which addresses a block holds, `WithMask` is the
"/32" of the create handler, `Malformed` is what `net.ParseCIDR` refuses. Extra fields, ids and
time stamps are left out, and so are usernames but for their absence. `window` is a history variable: the
allowlist rows that existed while a request was pending.

**RegistrationPaging.** `created_at` is the start of the inserting transaction, so an insert has two
steps and rows may become visible out of order. The order of rows with one time stamp is open in each
query. A page may be cut short (`rows.Err` is not read). The client is the least one that can be written
against the answer: it follows `count`.

**MemoryStore.** Arrays in a heap and a header of two words, array and length; the capacity, which only append reads,
goes with the array. `Load` loads one word of the header for `Find` and `FindByUID`, which range over a copy; the other
loops index `m.db` anew each time, and panic behind its length. `Visit` reads an element and `Copy` reads
it again for a listing, so that another one may stand there. `LoadAndGrow` doubles a full array; `WriteWord` and `WriteElement` store the
two words and the element of an append in any order; a delete moves its tail (`Cut`) and writes the length (`Shorten`). What is
read behind the end of an array is any row (`Slot`). An element is read and
written in one step: a torn one lies only where an append is about to store or a delete moves its tail,
and the properties speak of neither place while it does. A writer loads the whole header at once, since until two writes overlap nobody else changes it.
What an overlap of two writes does is left open by Go: the steps are then some of the possible ones, the
properties but the type invariant claim nothing (`raced`), and the run ends there (`BeforeTheFirstRace`). Calls are those that have passed their handler's checks.
There are two arrays more than goroutines, which is one for each goroutine that may hold an old one, one for
the slice and one to grow into.

**MemoryAllowlist.** The other slice of the same store, with finer steps, because readers hold its header
while others write: `Load` loads the array or the length of the shared header, `Write` writes the array, the
length or the element of an append in any order, `Move` moves one element of the tail a deny closes up and
`Shorten` writes its header. An element is read and written at once. What lies beyond the end of an array reads as
`Anything`. `AllowedIP` and `AllowedAddresses` ignore the organisation, and so do their actions; a check
that meets a zero-valued block panics. `Return` collects the arrays nobody points to. History: `count`, what
the answered requests put on the list; `seen` and `kept`, the blocks that were on the list at some time of a
reader's request, and all of it; `moved`, that a deny overlapped the reader; `raced`, that two writes
overlapped. A reader that loads its header while an allow writes it may get one that is torn, and nothing
is claimed of what it finds.

**MailDelivery.** A request is independent of all others, so there is one handler. Entries are
usernames or addresses; the user service may fail, or answer any users, those nobody asked for and those whose
username looks like an address among them, and `LookUp` puts them all into the map (`Known`). The mock answers the names it is asked. `Replaced` is the loop
that cuts a list behind each entry it replaces, given by its result.

**Rollout.** `pc[r]` follows a replica through `main`, `SetupStore` and `migrateDatabase`: `open` (opening
golang-migrate's driver takes the lock once, to create its table, and waits without a limit), `lock` (`Up`
takes it again and gives up after `LockTimeout`), `check`, then `mark`, `run`, `clean` for each migration
(`SetVersion` dirty, the statements in one implicit transaction, `SetVersion` clean), `unlock`, `serving`.
Each error on the way is a panic: the replica is `down`, and starts again. `Crash` happens anywhere, and
leaves the lock to an `Orphan` session until PostgreSQL notices; the transaction of a running migration
commits or not. `Constraints` are the unique indexes after each migration, `Migrated` what migration 2 does
to rows, `Columns` what a binary that has migrations up to a version writes. Of golang-migrate only what
`Up` does is modelled, as an external definition; older binaries are taken to be this program with fewer
migrations, since no other source of them is here. No replica has a binary that is older than the schema
it was started for: the update only goes forward.

**UserLookup.** `req[r].pc` follows a handler: `connect` (`InitSdkConnection`), `order` ...  `reload` (v3
only), `accounts`, `roles` for AMS; `connect` alone for the mock, `token` and `service` for Keycloak;
`reply`, or `dropped` after a panic. `createV3QueryOrder` reads, writes and reads again a Go string that
other goroutines use, a data race: the two words of the string are stored one by one, in either order. They are loaded
together, because a load between the two stores already yields the pair that does not belong together (`Torn`), which is
all that loading them one by one could add; the property ends where two requests use the variable at once. The search
strings of AMS are put together from the values of a request as they are, so that an apostrophe in one breaks
the string: `plain` says of an input that none does, and AMS may match any accounts for the others (`Matches`). The
parameters of the user service are encoded, but a comma divides a username (`Answerable`). `WriteHeader` keeps the first status, as net/http does, which
is how the v1 handler that goes on after its 400 still answers 400. AMS answers any page of what matches,
cut at the size of the query (or at its default, `PageSize`), or an error;
bindings come and go between and before the two queries. `held` and `kept` are histories of a request: the accounts that had the
role at some time of it, and those that had it all the time. `Restart` ends the process and what it holds.

**CatchallServer.** One request, since requests share nothing: `MainHandler` dispatches, `Begin` is the method and the body of
a query (`GET /v1/users` is routed to `usersV1` too, and answered 405), `FindUsersBy` is
the listing of the realm with filter, limit and sort, `CheckPassword` the password grant, `FindUserByID` the
listing it is followed by. `getUsers` fails with a Keycloak that is out of reach, an answer that
is no list (`Unlisted`), or a user without an attribute (not `Complete`); the first and the last panic. Keycloak
promises no order, so a listing is the users of the realm in any order, or `MaxListed` of them
(`Listings`); names are numbers, of which only the order matters. A `status` of a query that is neither "enabled"
nor "disabled" filters nothing, as the `switch` of `findUsersBy` has no default. `Loop` is the loop that filters and
stops at the limit, `Sorted` is `sort.Slice`: a rearrangement in which names descend. `EditRealm` is somebody else.

**UsersService.** `usersModule` is read when the process starts; `""` is the default branch of the handlers'
switches, the catch-all server. Beside a module, the catch-all server is asked for what no other handler is routed to
(`Routed`). The two share no state and no property speaks of both, so that `Beside`, the modules beside which it is
asked, is a bound: the run takes `{""}`, where one of the two stands still, and the theorems hold for any.

## The runs

| Run | Question | Instance | Result |
| --- | --- | --- | --- |
| `registration` | interleaved statements, lost connections, crashes: unique, isolated, atomic, answered? | 2 requests, 2 organisations, 2 uids, 2 names, no gate | holds |
| `gate` | is each registration vetted though the list changes between query and insert? | 2 requests, 5 blocks, 3 addresses, a malformed system row, every fault; its types are those of `registration` | holds |
| `paging` | does a walk over the pages miss nothing? | 3 registrations, 2 organisations, pages of 1, clock to 2 | holds |
| `memory` | is the unlocked slice exact when undisturbed, are uids and names unique until two writes overlap, are readers unharmed by creates? | 2 goroutines, up to 3 rows (arrays of 1, 2, 4), words one by one, up to the first overlap of two writes | holds |
| `allowlist` | does the slice hold what was allowed, does a denied block admit anybody, what does a reader miss? | 2 goroutines, one that writes and one that reads; 2 blocks, up to 3 elements, 3 arrays | holds |
| `mail` | is each mail on its own, to nobody else? | up to 2 mails, To lists of up to 3 entries | holds |
| `rollout` | is the record true, is every new replica on its own schema, which rows are unreadable, does every start end? | 2 replicas, every version from none to 5, up to 2 rows, any crashes | holds |
| `users` | whose users and administrators are answered, in which order, what stays open, who waits for ever? | 2 user queries over each module, with values that break a search string too, or 1 request to the catch-all server | holds |
| `created` | does 201 mean that a row exists? | as `registration`, fault "rejected" | **violated**: a PgError other than 23505 is answered 201 |
| `denied` | does "ip not allowlisted" mean that? | as `gate`, no faults | **violated**: add `10.0.0.1`, remove `10.0.0.1`: 404, and it stays allowed |
| `memory_delete` | does a delete remove the registration it names? | 1 goroutine | **violated**: `\|\|` takes the first row of the organisation |
| `mail_drop` | do addresses stay when usernames are resolved? | as `mail` | **violated**: what follows the last username of a list is dropped |

Why the bounds are enough. Two requests suffice for every interleaving of a check and an act, because
a request has at most two statements and the properties relate two requests; sequences of requests are
unbounded, since a request that is answered becomes idle and calls again. Two uids, two names and two
organisations let each constraint be hit alone and together. The blocks are a bare address, its /32, a
network that holds it, a system block and a malformed one: the cases the gate tells apart. In `paging`,
three rows and pages of one make walks of several pages with an insert, a late commit and a delete in
between. In `memory`, three rows are what it takes for the slice to grow twice and to be appended to in
place; two goroutines are the least that interleave. In `allowlist`, `MaxBlocks` 3 elements let the slice grow twice, be
appended to in place and be cut with a tail to move; two readers write nothing the other reads, and after
the first overlap of two writes nothing is claimed (`OneWriterOneReader`), so that one writer and one reader show all there is. In `rollout`, the lock makes all starts but one wait,
so that two replicas show every overlap of one that migrates, one that waits or one that serves; two rows
are the least that violate a constraint (`MaxRows`). In `users`:

- `PageSize` 1: an answer of two accounts exceeds the page of role bindings, one of one account fits;
- `MaxWords` 2 sorted queries since the start: each may run alone, after the other or into it;
- `MaxOpen` 2 connections: one leaked and one in use, or two leaked; `Restart` frees them;
- `Beside` `{""}`: the catch-all server is asked where there is no module, see above;
- `MaxChanges` 1 change of a binding, before, between or after the two queries of either request, from one
  administrator in each organisation (`FirstBindings`);
- sorted queries of AMS find nobody, because what they share is the order and not the accounts;
- a realm of up to four users listed three at a time (`MaxListed`), two edits (`MaxEdits`), which is what it takes for a
  name to pass from one user to another between the password and the listing.

The theorems below remove the bounds of every passing run, for the properties they state: all the safety
properties of the passing runs are theorems.

Fairness. `RegistrationService!FairSpec` has weak fairness on `Serve(r)`, the steps of a handler: the
goroutine keeps running, and the database answers a statement or breaks the connection. It has none on
`Receive` (nobody has to call) nor on `Crash`. Under it every request is answered or goes with its replica.
`Rollout!FairSpec` has weak fairness on the steps of a start, because a process that runs keeps running, and
on `SessionEnds`, because PostgreSQL ends the session of a client that is gone; it has strong fairness on
`OpenDriver`, because PostgreSQL grants a lock to those who wait for it in their order, and `open` waits
without a limit. `Start`, `Replace` and `Crash` have none. `UsersService!Spec` has weak fairness on
`ServiceTimesOut` and `Reply` only: the timer of the user service's client fires, and an answer that is
written ends the request. Nothing is assumed of AMS, of the user service or of Keycloak, so a request that
waits for its token may wait for ever, and the property says nothing about it. The other specifications need
no fairness: their properties are about safety.

## The proofs

Every theorem holds for any values of the constants that the named assumptions of its module allow; TLC
evaluates these assumptions on each run.

`RegistrationServiceProofs` and `RegistrationRefinement`, for any requests, organisations, uids, names,
addresses, blocks and calls, gate on or off (`System` is no organisation, `None` is no value, the block
functions have their types, the calls are calls):

- `TypeInvariant`: `TypeOK` is inductive; the lemmas `RefusalStatus`, `ExecuteType`, `AnswerType` and
  `WatchType` carry the parts of the state the actions share.
- `RegistrationsAreUnique`: `UniqueRegistrations` is inductive relative to `TypeOK`: the only step that
  adds a row is `Execute` of a create, and `Conflicts` is empty there.
- `TenantsAreIsolated`: an action property. `OneStatementPerStep` gives that a step which changes a
  table is the statement of one call, and that it changes what the call names.
- `GateHolds`: `GateInvariant` is the strengthening that makes the gate provable. "The address is
  allowed" is not stable: the row may be denied before the insert. What is stable is that the row is in
  the `window` of the request. The invariant says that the window of a pending request holds every row of
  the table (so the row the query finds is in it) and that a create past the gate is vetted by its window.
- `RegistrationsAreVetted`: an action property, from `GateInvariant` and the refusals.
- `Refinement`: each step of the handlers is a step of `SatelliteRegistry` or a stutter. The mapping
  sends a request at the gate or refused to one the registry ignores. It is stated for
  `"rejected" \notin Faults`: with that fault it is false, and the run `created` shows why.

`RolloutProofs`, for any replicas, organisations, uids, names and bound of rows (`Default` is one name per
uid, `Null` and `None` are values of their own):

- `TypeInvariant` and `RecordInvariant`, from `IInv`. `RecordIsTrue` is not inductive by itself: what
  `RunMigration` and `MarkClean` do to the record depends on what the replica has seen before. `AtWork`
  says it of each place (at `mark` the record is clean and behind the binary, at `run` it is dirty and the
  migration has not taken effect, at `clean` it has), and that is stable because `TypeOK` leaves one replica at a time at work.
- `UnreadableRowsAreOld`, from `RowsInv`: no binary is older than the schema the update began with, and a
  row without a display name was written before migration 2 took effect.
- `Refinement`: `Rollout` implements `SchemaUpgrade`. `Jammed` does not change but by a crash or a failed
  migration (`SameJam`), and each step of a start is a step of the abstract specification or a stutter.

`PagingProofs`, for any organisations, clients, limits above 0 and finite tables:

- `TypeInvariant`, `ListersSeeTheirOwn`, from `Types`.
- `CountsCoverPages` and `WalksAreComplete`, from `WalkInv`. Of a walk that nothing has disturbed it says
  (`Ahead`) that a row that was there at the beginning and has not been seen has at least `offset` newer
  rows in the table. New rows are newer or leave that number alone, so that creates keep it; if the row is not on the page at `offset`, then
  the page is full and lies before it (`BehindThePage`), and the number is `offset + Limit` after it. `Covered` says that the
  count reaches behind the page. A walk ends when `offset` has reached the count of all rows, and then no
  row can have as many newer ones. The case of no ties is where "before" means "newer".

`AllowlistProofs`, for any goroutines, arrays, blocks and calls, and a slice of any length (a block is not the
zero value, an array not the absent one):

- `TypeInvariant`, `SliceStaysExact`, `DeniedAdmitNobody`, `ReadersMissNothing`, from `AllowlistInv`: the
  types, and `Undisturbed` as long as no two writes have overlapped. `Alone` says there is one writer.
  `Exact(a, n, hole, gone)` is what the writes keep: the first `n` elements of the array are what is listed,
  but for the block `gone` and the place `hole` that its deny has come to. A move takes the hole up by one
  and leaves the number of places of each block (`AtMoved`), and at the end the hole lies behind the length
  (`AtLast`). For a reader with a whole header, `SeesOK` says that what lies within its length was listed at
  some time of its request, and `KeepsOK`, as long as no deny overlaps it, that the blocks it must find are
  there and that an append writes behind its length. A reader whose header may be torn is told by `Zero` in `seen`.

`MemoryProofs`, for any finite set of goroutines, any calls and a slice of any length (`None` is no call):

- `TypeInvariant`, from `Shape`: the types, with each goroutine at a place of its call (`Held`). It says nothing of
  where a header ends: one that is half written may be longer than its array, and what is read there is any row.
- `NothingHidden`, `LoopSuffices`, `UndisturbedAnswersExactly` (an action property), from `MemInv`. None of the three
  is inductive, because they speak of the moment of the answer, and all three end at the first overlap of two writes. `Apart` says who overlaps whom: until two writes overlap
  there is one writer, and a request at work knows of it. `Exact` says of a request no write overlaps how far it is
  with the slice it found: nothing hit among the first `i` rows, and, for an append or a delete under
  way, which of its header, its element and its tail is already there (`Appending`, `Shortening`). `Reads` says of a reader
  that only creates overtake that the rows it found at its start still lie where it looks, also after the
  array was exchanged, and that no writer stores below them. `LoopInv` says that a writer found unique rows and that
  they are unique whenever nobody is between its two writes; `Exact` of the creating goroutine, whose loop hit nothing, is what
  makes the row it adds unique.

`MailProofs`, for any requests of any mails:

- `TypeInvariant`, `MailsAreIndependent`, `NobodyElseIsMailed`, `UsernamesAreReplaced`, from `MailInv`:
  `InTurn` (what was handed over or skipped are the mails up to `k`, in order) and `AsAsked` (each mail
  handed over fits its original, entry by entry). `ReplacedFits` is about the operator alone.

`UsersProofs`, for any requests, accounts, inputs, modules, page size and bounds (accounts and requests are
finite, filters name accounts, `Null` is no status), and for any roster of users and any calls (a finite
roster whose names are numbers; calls of the kinds, versions and headers the dispatch knows):

- `TenantsAreApart`, `RefusalsAreFinal`, `FlagsAreFresh`, from `LookupInv`, which says of each request that
  it keeps to its input and that nothing is found out of scope (`Proper`; for AMS that is claimed of inputs that are `plain`), that a request at work has no
  status but a 400 that was decided when it came, and that `held` and `kept` enclose the bindings as long as
  the request is at work (`Fresh`). `AllHolders` is where the size of a page matters: a page that has room for
  the bindings of all users that were found has them all.
- `FailuresLeak`, from `LeakInv`: the requests that have a connection, counted; each step of a handler
  connects, disconnects or leaves the set alone.
- `LookupTypeInvariant`, from `BoundsInv`: the connections that are open and those that are about to be opened fit `MaxOpen`
  together, and so do the directions asked for and those about to be. No string of the order is longer than all
  directions together, whichever two words a goroutine loads, since a word is only stored by one who has
  loaded it and adds the direction it has asked for.
- `DirectionsAreOwn`, from `OrderInv`. `OwnDirectionLast` is about the moment the query is sent; what is stable,
  as long as no two requests use the order at once (`InTurn`), is one user of the order, two words that belong
  together when nobody uses it, and of the one who does, at each of its places, which words agree (`Ordered`).
- `CatchallTypeInvariant`, `LoginsAreOwn`, `QueriesAreExact`, from `CatchallInv`. `LoginIsOwnUser` is not inductive: of a login
  at its listing it needs that the accepted user is the user of the call (`Orderly`). For queries the invariant is
  `IsAnswer`, and the work is in the operators: `LoopKeeps` says that the fold keeps the users of the first
  matching positions, in order (`First`, `Place`). A fold over a sequence is a `CHOOSE` of a function on sets of
  positions (`Loops`): `LoopsExist` gives one that is right, and `LoopsKeep` shows that any function that satisfies the
  recursion is, from a smallest set where it is not (`WFMin` over the proper subsets of the listing).
  `SortedExists` rearranges a listing whose names differ so that they descend, each user at
  the place of its name counted from above, and `SortedDescends` shows what the choice of `Sorted` is.

Only model-checked: liveness (`EveryRequestAnswered`, `EveryStartEnds`, `UserServiceNeverHolds`), for fairness
and `ENABLED` are out of the prover's reach, and the four runs that show a violation. The library's induction
theorems take an operator as a parameter and cannot be used; where a fold needs induction over the listing, the
proof picks a least counterexample by hand instead.

## Disagreements that no run shows

Met while modelling. The models behave as the code does; no document says otherwise, or the fact is one
line of code that a run would only repeat.

- `createV3QueryOrder` appends to its package variable (`ocm_impl.go:252`): one process sends
  `organization.id asc desc asc ...`, longer with each sorted request.
- A v1 body that does not parse is answered 400, and the handler goes on to query all accounts and writes
  them behind the error (`users_v1_handler.go:20`).
- Rows from before migration 3 keep a NULL username, which `scanRegistration` cannot read: their login and
  their organisation's list are answered 500 after the update.
- Role bindings come in one page of AMS's default size, so that a query of more users misses
  administrators: the exception in `AdminFlagsAreFresh`.
- The offset of a v3 request is sent to AMS as the number of a page.
- The organisation and the beginnings of names and addresses stand in AMS's search string as they are (`ocm_impl.go:196,217,223-233`):
  `OwnTenantOnly` excepts the values that hold an apostrophe.
- A login whose name passes to another user between password and listing is answered with that user.
- The body of an error of the user service has no users and reads as an answer of nobody.
- The token of Keycloak and the key of the JWT handler are fetched with clients that have no timeout.
- Two creates that both pass the loop of the in-memory `Create` before either appends leave two registrations
  of one uid, where `ARCHITECTURE.md:153` names the loop as the store's uniqueness: `LoopChecksUniqueness`
  holds until two writes overlap.
- `DenyAddress` moves elements of the array that the in-memory `AllowedIP` ranges over: a check that has passed the
  place a block moves to misses it, and a create is refused from an address that is on the list all the
  while. `NothingMissed` excepts the readers a deny overlaps for that reason.
- The in-memory `AllowedIP` and `AllowedAddresses` ignore the organisation, so that one organisation's block
  admits another's creates, and `AllowAddress` appends a block that is on the list already: after two allows and one deny
  it still admits. PostgreSQL filters by organisation and has a primary key.
- `Update` of the in-memory store changes the copy that `Find` returns.
- `TOKEN_TTL_DURATION` is empty by default in `deployment.yaml`, and `time.ParseDuration` refuses it.

## Not modelled

Tokens and keys: each request signs a token or passes a key on, and keeps nothing; what could be said is
about the libraries. Configuration is read once and is a constant of the modules, but for `USERS_MODULE`,
`ALL_PASS` and `DISABLE_CATCHALL`, which are chosen in `Init`. Status and logging keep no state. The two
mailers hand a mail to SES or print it and are not told apart. The connections the mailer opens for its
lookups and never closes are left out of `MailDelivery`. Of the wait for the migrations' lock, a client that has given
up is taken to have left the queue. `Find` and `Update` of the stores have no caller but tests. The contents
of responses, TLS and wording are left out.

## The plan

Done: the registrations (service, registry, paging), the in-memory store, the mails, the rolling update, the
users, the allowlist in memory, and theorems for every safety property of the passing runs. What is left, in order:

1. `MemoryAllowlist` and `MemoryStore` against one abstract specification of the slice, as `SatelliteRegistry` is for PostgreSQL:
   both have the exact half of it as an invariant (`SliceIsExact`, `UndisturbedIsExact`).
2. `UserLookup`: an abstract specification of a query that is answered at one instant, which v1 without a second query implements.
3. Tokens: the lifetime of a token against the clock of its reader, if a caller of the endpoint is ever part
   of the repository.
