# A TLA+ project for the cfb27 Lua host

The repository builds a DLL that runs inside an offline game process
(`native/host`), a Node SDK and a command line that talk to it over a named
pipe (`packages/`), and scripts around them (`scripts/`). The DLL runs Lua
scripts, finds the game's FRTK tables, and changes game memory under guards.
This directory holds TLA+ modules for the parts whose correctness depends on
order: several threads, a game that keeps running, calls that fail half way.

## 1. Inventory

| Component | State it keeps | Operations | Interacts through |
| --- | --- | --- | --- |
| Guarded write engine (`memory_transaction.cpp`) | none between calls; within one: prepared originals, attempted indexes, results | `RunTransaction`, `RollBack` | `MemoryBackend` (validate, read, write), called under `g_host_write_mutex` |
| Host dispatch (`lua_host.cpp`) | `g_session_writes_disabled`, `g_ready`, four mutexes | one handler per v1 command, the legacy commands, tick loop, `game_ready` export, Lua functions | locks; the engine, the catalog, the board and native calls |
| FRTK catalog (`frtk_catalog.cpp`) | generation, game-ready flag, installed tables with evidence | `Install`, `Invalidate`, `AdvanceLifecycle`, `GetHandle`, `Resolve`, `Revalidate` | `g_frtk_mutex`; handles given to clients and scripts |
| FRTK discovery (`frtk_discovery.cpp`) | none | `DiscoverTables` in phases | reads game memory; feeds `Install` |
| FRTK record access (`frtk_record_access.cpp`) | none | `ReadFields`, `PlanFieldWrites`, `FinalizeFieldTransaction` | catalog, codec, engine |
| FRTK field schema and codec (`frtk_field_schema.cpp`) | none | read and write of bit fields | record access |
| FRTK profile (`frtk_profile.cpp`) | none | validating parser | `loadFrtkProfile` |
| Lua database (`frtk_lua_api.cpp`) | active and failed flags, pending changes | tables, records, fields, `Transaction` | Lua mutex, catalog, record access, engine |
| Board mutation (`board_mutation.cpp`) | `g_runtime_cache`, the objects found last | `Invoke` with discovery, native call, postconditions | host dispatch; routines of the game |
| Memory reader (`memory_reader.cpp`) | none | batched reads, paged private scan | v1 commands |
| Research watch (`research_watch.cpp`) | slots, saved threads, handler, hit buffer | `Arm`, `Collect`, `Disarm`, `HandleException` | debug registers of every thread |
| Events, logs, callbacks (`lua_host.cpp`) | event ring, log ring, cursor, callbacks | `AppendEvent`, `Log`, `FireEvent`, `cfb.on`, `cfb.emit`, `events` | `g_event_mutex`, Lua mutex |
| Telemetry registry (`telemetry.cpp`) | registered types | `RegisterTelemetryTypes`, `LuaToTelemetryJson` and `ValidateTelemetryPayload`, the two walks over a payload | `cfb.emit` |
| Pipe protocol (`protocol.cpp`) | none | frames, one client at a time | host dispatch |
| Native call guard (`native_call.cpp`) | none | one call under a fault guard | host dispatch |
| Build catalog and policy (`game_builds.cpp`, `build_policy.cpp`) | none | look-ups | gates |
| SDK client (`client.cjs`, `frame.cjs`) | one connection and one timer per call | `request`, and a method per command around it | the pipe |
| Live class and recruiting tools (`live-class-*.cjs`, `live-recruiting.cjs`) | the batches applied so far | `replaceLiveClass`; generators and locators | `readMemory`, `writeTransaction` |
| Installer (`install.cjs`) | files in the game's and the mod manager's folders | `installHook`, `restoreMmcHook`, `inspectInstallation` | the file system, the mod manager (MMC) |
| Command line, process discovery | none | arguments, printing | the SDK |
| Loader proxy, verification and release scripts, archive | none | - | - |

What is hard in this code, in the order in which it was judged to matter:

1. The engine never suspends the game. Between any two of its calls the game
   may store into the same bytes, a page may change protection, and a write may
   fail after it copied some bytes. The answer must still be honest.
2. Five threads (the one that starts the host, v1 pipe worker, legacy pipe worker,
   tick loop, and the game thread that reports `game_ready`) reach the same memory
   through different combinations of four mutexes, and a failure on one must stop
   the others.
3. Handles outlive what they refer to: tables move, are freed, quarantined and
   found again, and `game_ready` retires them all.
4. A Lua transaction spans many calls, and the catalog may change between them.
5. Debug registers belong to threads that come and go; trap handlers run
   without a lock beside the script that reads and clears what they write.
6. Bounded buffers drop their oldest entry under a paging client; callbacks
   register callbacks; the wall clock is set back.
7. Searches of memory cut it into chunks, pages and regions, take many calls,
   and rely on what they saw in the first one.
8. Fields share bytes, changes to several fields share guards, and a request has
   limits.
9. A client gives a request up that the host still carries out; a tool takes many
   requests, or many steps on the disk, and any of them may fail or be the last.

The hazards at their source lines, with the properties that cover them, are in
`PROJECT.json`.

## 2. Modules

Every module names the source it translates in its first comment, each variable
names the code's variable, and `PROJECT.json` maps each definition to lines.
Operators that begin with the words "A bug:" or that no action uses
(`RestoredUntilFailure`, `CopiesAlways` and their kind) are variants of their
neighbour with a plausible mistake; they serve to show that a property notices.

### MemoryTransaction, AtomicTransaction

One call of `RunTransaction`. `Submit` is the call with every check of the shape
loop in the order of the code; `Validate`, `Preflight`, `ApplyVerifyOnly`,
`ApplyWrite`, `Readback`, `Restore` and `Recheck` are one backend call each,
with the result of that call chosen freely where the process decides it. A write
that fails may have stored any strict prefix of its bytes. `GameWrite` and
`Reprotect` are the game. `pc` is the place in the function, `i` the loop
index, and `original`, `attempted`, `results` and `restored` are its locals.

`AtomicTransaction` is what a caller is promised. As long as the game leaves the
guarded bytes alone for the length of a call (the stable window the safety guide
asks for), all writes appear in one step and only if all expectations held, or
nothing changes, or the call admits that it could not verify the rollback. A
call the game has `disturbed` may leave anything in the ranges it writes, but a
rejection still changes nothing and no byte outside those ranges is ever
touched. The refinement maps the abstract store to `ObservedMemory`: while a
call runs, attempted bytes still count as their originals. `disturbed` is a
history variable of both modules; no action of the engine reads it.

### HostWrites

The host's threads as sequences of synchronisation steps taken from the
handlers: take these mutexes, read the gate, change memory in this way, publish
a failure, let go. A thread's remaining steps are `code[t]`. Scripts hold the
Lua mutex and choose which host functions to call, so every nesting of locks
that Lua reaches is explored. The starting thread runs the scripts and the first
`game_ready` before the workers exist (`Started`); the export the game calls may come
while it does. The engine is one critical section here, with the outcomes
`MemoryTransaction` shows it to have.

### FrtkCatalog

The session catalog and every command that uses it, with the game moving and
freeing tables between any two steps. `holder` says what holds `g_frtk_mutex`
across several steps: a discovery, which locates tables one after another and
then installs all or none, or a transaction, which plans field writes under
handles, finalises them with guards (`Finalize`), compares one guarded table after
another (`Compare`) and then writes one plan after another (`Write`), with the game
free between any two of these steps. `strayed` is a history variable: the tables the
game moved after their own comparison, the window the safety guide leaves open.
`WritesLandInPlace` excuses these and no others. `Revalidate` quarantines
the tables whose evidence is gone, any others it failed to read, and then
everything that refers to a quarantined table. Fingerprints and sentinels are
abstracted to whether the table is still at the installed address.

### LuaDatabase

`CFB27.db:Transaction`: the callback stages changes with handles taken at any
time, another thread changes the catalog in between, a refused change poisons
the transaction even when the script catches the error, and `FinishTransaction`
sorts, groups and plans. `std::sort` is modelled as what it promises: any order
of equal records, except that short ranges are sorted by insertion
(`StableBelow`, 32 elements in the library this project builds with). Above that
bound a group of changes is planned under whichever change of the record came
first out of an unstable sort, so a change staged under a retired generation can
be submitted beside a current one; `SubmitsCurrentChangesOnly` names that boundary,
and it is why the property is conditioned on it.

### HostEvents, HostCallbacks

The event ring with its cursor and pages, everything that appends to it, the
coalescing of ticks by a clock that may be set back, and the telemetry types.
The history variable `delivered` has what a client was given since it connected.
`HostCallbacks` is the loop of `FireEvent` over `g_callbacks`, iterator by
iterator, with the capacity of the vector: a callback that registers another one
may free the buffer the loop walks, and what the loop reads then is any of the
outcomes the build can produce.

### TelemetryPayload

`cfb.emit`: a script assigns entries of tables, which may share and contain one
another, and emits one. `LuaToTelemetryJson` walks it with the path it is on,
refusing a cycle, a level too deep, mixed or forbidden keys and arrays with holes,
and counts the bytes of the text it builds; `ValidateTelemetryPayload` walks the
result and counts again, with definitions of its own: the two walks share no rule. What
is appended is what both allow, and each walk alone is held to the limits too. A table
shared by two others is written out twice, which is how a few assignments grow past the
limit. `Heaps` are the tables a script may have built before, from which a few more
assignments reach every limit.

### ResearchWatch, WatchHits

`ResearchWatch` has the debug registers of every thread, the slots, the list of
saved threads and the exception handler, with `Arm` and `Disarm` run by either of
two host threads, each of which skips itself. Any thread may refuse to be opened, to be
written or to be restored, each time anew. Threads end and start, and an identifier may be
used again while the saved entry of its last owner remains, for which `ConfigureThread`
does not look at `Dr7`. Somebody else sets and removes breakpoints in free registers at any
time. Two history variables keep apart what the code answers for: `early` are the foreign
breakpoints set while the host had not saved their thread, `left` says why a thread still
carries a watch after `Disarm`, which skipped it or failed for it and ignored that.

`WatchHits` is the hit buffer: handlers claim an index, fill the entry field by field and
mark it ready, without a lock, while
`Collect` copies and `ClearHits` resets. The history variable `overtaken` says
that a thread was in the handler while `ClearHits` ran; the passing properties
hold as long as it is false, and `watch_hits_cleared` shows what follows when it
is not.

### FrtkFieldSchema, FrtkProfile, FieldTransaction

`FrtkFieldSchema` has the accepted layouts and the codec, as functions on
sequences of bytes with the most significant bit first. `FrtkProfile` says which
bundle `ParseProfile` accepts. `FieldTransaction` drives both: bundles are
loaded, requests come, every group of changes revalidates the catalog (which
reads its evidence) and is planned from a fresh read of the record, and the
plans are merged into one guarded request (`Submit`), whose ranges are compared one
after another (`Compare`), then written one after another (`Write`), until all are
written (`Finish`) or the attempted ones are put back as far as that works
(`RollBack`). The game stores into the table between any two of these; `late` is a
history variable, the cells it stored to after they had been compared. A range is read and
written whole here; the steps below that are `MemoryTransaction`'s. Records that the
game keeps word-swapped are included. A byte
has two bits and a row index a few, because TLC's integers do not hold the
five-byte window of the code; the arithmetic is the code's, with the sizes as
constants.

### MemoryScan

`ScanPrivateMemory` as a client drives it, from cursor to cursor, one round of
its loop per action, and `ReadMemoryBatch`. A masked pattern is a sequence of
sets of bytes. The game stores and changes the attributes of pages between any
two rounds. `quiet` is a history variable: nothing has changed since the first
page. Only then can a scan be held to every occurrence; that no match is reported
twice is asked always.

### FrtkDiscovery

`DiscoverTables` with its process backend, one call of the backend per action:
the scan for a descriptor or for the next row, the layouts that the hits of
three rows agree on, the reread of every candidate row by row, and the
relationships at the end; deadlines and caps end it anywhere. `existed` collects
where each table really stood at some moment, whole; `torn` the candidates the
game changed between two rows of a single reread, which no check can see.
Memory is a row of slots that hold the fingerprint they match and the reference
they carry.

### BoardMutation

`Invoke`: the chunked search for the controller, the wrappers and the tables,
with the bytes carried from one chunk to the next; the score that tells table
candidates apart; `g_runtime_cache` and its checks; the call of the native routine,
which may fault at any point; the comparison of the boards before and after. The
reading of a whole board is one action. The game plays between any two
actions, and loads another dynasty, whose objects lie beside those of the first
one for a while.

### HostPipe

Both ends of the pipe. `host` is the place of the thread in `Serve`, `call` the
state of one `request()` of a client. A foreign client has no timer: it may leave at any
moment (`Leave`), or stay for good. Frames travel in pieces, and the pipe holds
what the other end has not read. Clients send requests that are too large, foreign
clients send bad frames, timers fire at any moment, the game ends at any moment.
When the host has disconnected the instance, Node reports either the end of the
stream or an error, so an unanswered call ends as `INVALID_RESPONSE` or
`HOST_NOT_READY`: the second says "Could not connect to the Lua host" of
a request that may have run.

### ClassReplacement

`replaceLiveClass`, every `await` an action. The host is what its callers see of
it: a transaction is applied, refused, or leaves a part behind and disables
writes; and its answer may be lost. A request given up may be carried out later,
but before the next one of the same client, because the pipe carries one call at
a time. `lost` holds the records of a batch that failed without its client
knowing how far it came, `moved` those the game stored into.

### Installer

`installHook` and `restoreMmcHook` as lists of the steps they await; `StepFails`
is the failure of any of them, by its place: a refusal, a rollback, an error of
the rollback, or a restore left half way. A copy may arrive damaged; `Crash` ends
the process between two steps, and the next command starts on what is left. The
mod manager writes its proxies at any time. `Mode` is what `inspectInstallation`
reports of the files at rest.

### Bundles: Host, Typed, Commands

Components that share no state are checked side by side: a behaviour of `Host`,
`Typed` or `Commands` is one of the component that `which` names, and the
variables of the others rest. A bundle adds nothing to its components and takes
nothing from them; their state spaces are added, not multiplied. Each declares the
constants of its components, so that what holds of their behaviours is proved for
every value of them; `MCHost`, `MCTyped` and `MCCommands` give the values of a run.

### Proofs

`XProofs` extends `X` and holds its invariants, lemmas and theorems:
`MemoryTransactionProofs`; `HostWritesProofs`; `FrtkCatalogProofs`; `HostProofs`;
`FieldTransactionProofs` and, on top of it, `TypedProofs`. `Commands` has two:
`FinderProofs` for the components that search memory (scan, discovery, board) and
`CommandsProofs` for the others (pipe, class, installation).

## 3. Runs

| Run | Asks | Bounds |
| --- | --- | --- |
| `transaction` | does the engine write only after a complete preflight, report honestly, never claim a rollback that left its bytes behind, implement `AtomicTransaction`, and always return | four usable cells and a guard cell at the top of the address space, two byte values, requests of up to three operations and one request for each shape check; the game writes three cells, two cells change protection |
| `host_writes` | do writers exclude each other, is the lock order global, does an unverified rollback stop guarded writes, is every finite workload served | all five threads, one job each; scripts of one host function, of two in the legacy pipe |
| `host` (`MCHost`) | catalog: do handles keep their target, does a quarantine leave a closed catalog, does it grow by whole profiles, is a typed write missed only by a move after the comparison | three tables in a chain, two profiles, two addresses, three generations |
| | events: is a client given nothing twice, in order, and does it miss only what the ring dropped; are ticks coalesced | ring of three, five events, pages of one and two, one of two telemetry types |
| | callbacks: does a loop whose vector keeps its buffer run every callback | five registrations, which takes the vector through capacities 1, 2, 3, 4 and 6 |
| | watches: does no breakpoint outlive its handler but those a restore skipped or failed for; are breakpoints set before a thread was saved left alone | three threads, two of them callers, two slots, two addresses; any threads refuse at any call; foreign breakpoints in any free register at any time |
| | hits: is every hit returned whole or counted as dropped | two threads, four traps, two entries; clears at any time |
| | payloads: is what `cfb.emit` sends finite, well formed and within its limits, on both counts | three tables, which may contain one another, depth two, two keys, two entries, 18 bytes; three names that may be sent and one that may not; scalars of one and of four bytes and one that cannot be sent; four heaps to begin with, two assignments |
| `typed` (`MCTyped`) | bytes: is every request whole, does its evidence hold when it is committed, do the fields asked for land and all other bits stay, has a profile one accepted form | a table of three records of six bytes and one of two; a reference, a number across a byte boundary, an offset-binary bit; both byte orders; twelve bundles, ten requests; two stores of the game, also between comparison and write |
| | database: is what is submitted what one callback staged, under the current generation | two tables, three records, two fields, three changes, two generations; up to two changes are sorted by insertion, so that three may be reordered |
| `commands` (`MCCommands`) | scan: does a complete scan find every occurrence once, does every scan end | six bytes in three pages, chunks of two, result pages of four, patterns of one and three bytes; three layouts |
| | discovery: is a table resolved exactly when it is there, has what is resolved existed | two tables that refer to each other in twelve slots; seven memories: complete, wrong reference, second copy, missing row, split allocation, more hits than the cap, and a descriptor of the right size that leads nowhere before the one that leads to the table; two changes of the game |
| | board: is every object found once, is APPLIED said of complete routines only | two dynasties in 56 cells, chunks of eight, two recruits, two requests |
| | pipe: does a request run at most once and is its client told the truth, does the connection of every call of the SDK end | two calls, frames of two pieces, a pipe that holds one |
| | class: is a class replaced wholly or not at all | four records in batches of two, one of them already as wanted; two stores of the game |
| | installation: does no step take the last copy of MMC's proxy, is what a command reports on the disk | two locations, two commands, two writes of the manager |

The limits of the code (1024 events, 16 types, 128 hits, 4 slots, 64 KiB, chunks
and pages of results, batches of 32 and 64) enter as constants and are scaled so
that each is reached and passed within the run.
Each limit of a payload is also exceeded alone: three tables in a chain are too deep without
a cycle, a third name is a key too many with none barred, a third index an entry too many
without a hole. Dropping any single limit from either walk alone violates the property.
Three operations are enough for a failure at the first, a middle and the last
one; a chain of three tables makes the quarantine spread twice; a ring of three
with five events drops twice under a client that is one page behind; a pattern of
three bytes straddles a chunk, a page of results and a region boundary; a frame of
two pieces can be left half written and half read by either end; two batches are
one to apply and one to fail; two commands are one to crash and one to go on.

Seven runs look for, and find, a behaviour that a document or a message rules out:

| Run | The code | The document |
| --- | --- | --- |
| `board_failure_window` | lets the locks go before it stores `g_session_writes_disabled`, so another writer may pass its gate in between | "A postcondition failure disables further writes for that host session." |
| `board_fault` | returns a fault in the native routine as an error and goes on accepting mutations of the board it left half changed | "A native fault, ... or failed postcondition disables further board mutations for the session." |
| `board_cache` | uses the cached objects of a dynasty that is no longer loaded as long as they look alive | "Require one unambiguous controller ..." |
| `callbacks_freed` | a callback that registers another one frees the vector being walked | callbacks remain available to later scripts |
| `unwatch_other_thread` | `RestoreThread` skips the thread that runs it, and its saved registers are then forgotten | "`cfb.unwatch()` restores saved debug-register state." |
| `watch_hits_cleared` | `ClearHits` hands out an index again while a thread is still filling it | each hit includes the registers |
| `class_answer_lost` | a batch whose answer is lost is not among those rolled back, though the host applied it | "every applied batch was rolled back and verified" |

The board command also reads its gate before it waits for the locks and does not
read it again (`lua_host.cpp:1541`), so a mutation may run although another thread's
rollback failed while it waited. `HostWrites` has that order of steps, but no run shows
it: `board_failure_window` is about the flag that is stored late, and the documents
promise a closed gate to transactions and scripts only.

Disagreements met while reading that no run shows:

* On certified builds the scan for a descriptor stops at the first one it accepts
  (`lua_host.cpp:383`), so a table with two of them is resolved to the first; the
  catalog design says that ambiguous candidates fail closed "instead of choosing
  the first match". `DiscoveryIsExact` asks uniqueness of uncertified builds only. For
  the same reason a descriptor that has the right size and leads nowhere hides the
  one that leads to the table; `DiscoveryIsExact` excuses such a table (`Hidden`).
* `restoreMmcHook` verifies the backups and not what is active, so it replaces a
  proxy it does not know; `docs/safety.md:18` says "Unknown active proxies or
  backups are never overwritten." The step `"recognize"` of `Installer` belongs to the
  installation alone.
* `ConfigureThread` tests `Dr7` only for threads it has not saved (`research_watch.cpp:135`),
  so a breakpoint that a debugger sets after the first watch was armed, or in a new thread
  with the identifier of a saved one that ended, is overwritten by the next watch;
  `docs/lua-api.md:104` says that threads which "do not already own hardware breakpoints are
  armed". `ResearchWatch` has that step, and `OwnBreakpointsStay` excuses it and nothing else.
* Two installations at once can copy the startup proxy over a backup that the
  other one has just made: `ensureBackup` hashes before it copies. `Installer`
  has one command at a time.

## 4. Fairness

`Spec` of `MemoryTransaction` assumes weak fairness of the engine's next
step, and none of the game's: the function has no loop that waits, and the thread that runs it is
scheduled. `HostWrites` assumes weak fairness of each thread and nothing of the
mutexes; a thread that is passed over for a mutex for ever would need another one
that takes it for ever, and workloads are finite (`MaxJobs`). `MemoryScan` assumes
it of the rounds of the scan and of the client that asks for the next page.
`HostPipe` assumes that the thread of `Serve` goes on, which includes that
handlers return, and that timers fire: every call of the SDK has one
(`client.cjs:842`). Nothing is assumed of a foreign client. One that connects, stays
silent and never goes away keeps the only instance of the pipe for ever, as the host's
reads have no timeout (`protocol.cpp:12`), and every later call then ends by its own
timer. `PipeComesFree` is about the connections of SDK calls only. No other specification states
fairness, and no liveness is claimed of them.

## 5. Proofs

Checked by TLAPS, for every value of the constants that satisfies the
assumptions the modules name:

* `MemoryTransactionProofs`: `TypeCorrect`, `ReportIsHonest`,
  `RollbackLeavesNoResidue` and `GuardsAreNeverWritten` from `InvariantHolds`.
  None of the properties is inductive alone. `Invariant` adds what the position
  in the function implies: `Shaped` (a running request passed the shape checks,
  so operations do not overlap and stay in the address space), `Originals`
  (what was read equals what was expected once the apply loop begins),
  `Attempts` (attempted indexes are writes, strictly increasing, and end where
  the loop is) and `Flags` (which operations carry which flags, and that each
  one a rollback has to clear is among the attempts it has still to visit). The
  argument that a rollback leaves no residue needs all of them: restoring one
  operation disturbs no other one because operations do not overlap, and the
  bytes put back are the ones the preflight compared. One lemma per action.
* `FrtkCatalogProofs`: `TypeCorrect`, `CatalogIsClosed`, `NotReadyIsEmpty`,
  `HandlesAreStable`, `GrowthIsWhole` and `TypedWritesLandInPlace`. They go
  through `StepLemma`: every step keeps the tables, shrinks them under a new
  generation, or replaces all of them under a new generation. `SurvivorsLemma`
  gives what the closure loop of `Revalidate` leaves, as a fixed point. The last theorem
  needs that a table of the catalog is either still to be compared, or where the catalog
  says, or was moved after its comparison (`ComparedInv`). The
  assumption used beside the shapes is that every profile is closed under its
  relationships, which the profile parser enforces.
* `HostWritesProofs`: `LocksInOrder`, `WritersExclude` and
  `NoWriteAfterFailedRollback`. The invariant annotates the rest of every
  thread's code with the mutexes held before each of its steps: `Plan(s, from,
  to, gate)` says that the annotation starts with what the thread holds, ends
  with nothing held, follows the lock and unlock steps, and that each step is
  `Allowed` with what is held then (its mutexes come later in the order, a
  change has its mutex, a script holds the Lua mutex alone). A guarded or
  single-byte write has its gate ahead of it under the write mutex, or behind it
  only while no rollback has failed; and a rollback that failed is `Pending` with
  the write mutex held until the flag is set. The starting thread is one more
  such code, `RunLua` followed by `UpdateGameReady`. One lemma per handler gives its
  annotation, `ConcatPlan` puts a function in front of the rest of its script,
  `TailPlan` takes a step, and one lemma per action keeps the invariant. The
  board's failures are not covered by the third theorem, as the code publishes
  them after its mutexes are gone (run `board_failure_window`).
* `CommandsProofs`: `InstallerInvariant` and `MmcIsNeverLost`. The invariant says
  of the steps left that a step which replaces or verifies an installed file comes
  after the checks of both backups or the backups are the mod manager's already,
  and that a backup is copied only next and only where there was none. The plans
  of the commands have it by their order; a step that is taken turns a check that
  lies ahead into a fact about the files. `CommandsReportTruly` needs the contents
  too (`ReportInvariant`): until a command reports, each proxy and artifact it will
  speak of either has its check ahead, with no write of that file behind the check
  (`Awaited`), or is already as the report will say and is written no more
  (`Unwritten`), unless the rollback said that it failed there or the manager wrote
  meanwhile; and while the early steps last the proxies are those it found.
* Also in `CommandsProofs`, `CallsAreToldTheTruth`, from one invariant for each
  call: `Attended` says of the call the instance serves that it has not run before
  its handler and has run after it; of the others it is said that one which is still
  connected although it ran was answered with too much or lost its host, that one
  which was answered had a piece written for it, which only happens after the
  handler, and that one which failed for another reason than its timer is served no
  more. Neither end knows enough alone, so the steps of both keep all of it.
* And `ClassIsReplacedWhollyOrNot`. `InPlace(k)` says that memory is as the first k
  batches leave it, apart from the records the game moved and those of a batch that
  failed half way. A forward batch takes k up (`ForwardLemma`), a reversed one takes
  it down (`UndoneLemma`), and an abandoned request carried out late touches lost
  records only. Both rest on what the helpers give: operations name each record to
  be edited once (`NthLemma`, `OperationsLemma`), and the batches are a partition of
  them (`BatchLemma`, `BatchEdits`) whose last one ends at or past the last
  operation (`BatchesLemma`). That the sizes of batches are not zero is assumed.
* `FinderProofs`: `ResolvedTablesStood`. The history has every place where a table
  stands now (`Recorded`), and the rows of the candidate that were read again still
  hold, or the reread is marked as disturbed (`RowsReread`). At the last row all of
  them hold, so the place is in the history. It needs that candidates are slots,
  since a layout lies in an allocation and a row is not before its table's first, and
  that a table has at least three rows, which the profile parser enforces.
* Also there, `DiscoveriesAreExact`, the converse as well: as long as the game has
  changed nothing, a discovery that ends in time resolves the tables that are there,
  and no others. `Leads(t)` is what the search of a table leads to in the memory it
  has before it: the bases behind the first descriptor that is accepted, or the
  layouts that stand whole in one allocation. `ExactInvariant` says, while `changes =
  0`, that every scan done so far is what a scan would find now (`ScansExact`); that
  the stable bases are among `Leads`, all of `Leads` is among the stable bases and
  the candidates, and a candidate whose rows all pass is one of them (`Rereading`);
  that a table behind the search has a base exactly when `Leads` has one and only one
  member (`Located`, `Decided`); and, in the second phase, that it stays resolved
  exactly when its relationships hold (`Checked`). It rests on the scans leading to
  every layout (`LayoutsLemma`) and on a layout in an allocation having all its rows
  in it (`RowsInside`), which needs rows within the capacity and a fingerprint for
  each, both enforced by the parser.
* `SearchIsExact`, that the chunked search finds every readable object of the board
  exactly once, unless the game moved meanwhile. A chunk is searched together with the
  carried end of the one before, so an object ends in the first chunk whose search can
  find it (`EndsIn`), and is found a second time only in the next one, when it lies in
  the carried cells. The code passes over the occurrence of a pattern it reported last;
  that is enough, as no two fit into less than a signature. That takes a signature of
  at most two pointers and at most one chunk, as in the code. `SearchInvariant` only says
  that what the last discovery found is what that search returns (`BoardSeen`).
* `AppliedRanToTheEnd`, that APPLIED is said only of a routine that ran to its end.
  `BoardInvariant` says what was read before the call (`Prepared`), and that after it
  the tables are those before with the first n steps of the routine made (`RanTo`).
  Each routine changes its last freelist head at the end, so the postcondition tells
  three steps from fewer unless a head were its own successor or a row on the board,
  which no sound table has.
* `CompleteScansAreExact`, that a complete scan of a quiet memory has reported every
  occurrence once and in order. `ScanInvariant` says that the matches lie below
  the cursor and ascend, and, while quiet, that their addresses are all the
  occurrences below it (`FoundBelow`). A round adds those that start in its chunk:
  a match that starts there and ends in its region lies in what was copied, which
  is a chunk and the length of a pattern less one (`WithinLemma`, `InsideLemma`).
  It assumes of memory that the pages of one allocation are contiguous.
* `EngineIsAtomic` in `MemoryTransactionProofs`, that the engine implements
  `AtomicTransaction`. `Invariant` says what the results and the attempts are;
  `SteadyInvariant` adds what the memory holds as long as the game has stored
  nothing where the call runs: operations not attempted hold what was read,
  those the apply loop is done with hold their replacements, those the restore loop
  is done with hold their originals unless a restore failed, and the others hold
  either or, in the one write that failed, something between. One lemma per action
  keeps it, and one per action maps the step to a step of the abstract
  specification or to a stutter.
* `HostProofs`: `EveryTrapIsAnswered` and `ForeignBreakpointsStay` from `WatchInv`:
  whoever carries a watch is saved and carries the one in its slot, or was left by a
  `Disarm` that skipped it or failed for it (`CarriersAreSaved`); while a slot is in use
  the handler is installed
  (`SlotsAreHandled`); a breakpoint in `early` is still there and its thread is
  not saved, because `Arm` does not configure such a thread (`EarlyAreLeft`); and
  a thread that ended carries no watch (`EndedAreBare`), so the next owner of its
  identifier starts without.
  `TicksStayApart` from `EventInv` (no tick in the ring is later
  than the one `TickLoop` remembers, and what a bounded ring holds is a tail);
  `ClientsPageFaithfully` from `PageInv` (the cursors in the ring are consecutive and
  end at the newest one, so that what lies after a client's cursor is a tail of the ring
  and a page is the beginning of that tail) and
  `DeliveredInv` (what a client was given ascends and does not pass its cursor, and what
  is in the ring up to its cursor was given);
  `HitsAreOfOneTrap` and `NoTrapIsMissed` from `HitInv`. The last one accounts for
  every entry: below the count each is ready or in the hands of one thread, the
  threads past the end are those that will be counted as dropped, and for a caller
  under way the entries that were ready when it began are those it has copied and
  those still ahead of it. All of that is asked only until a clearing overtakes a
  thread in the handler. `LoopsRunAll` follows from `LoopInv`: while its buffer is
  kept, a loop over the callbacks stands at an element of what was there when it
  began, and has run those of its event before that element.
* `FieldTransactionProofs`: `RequestsAreWhole`, `EvidenceIsCurrent` and
  `FormsAreUnique`. `FieldInvariant` says that the profile in use was accepted, and
  that the guards of every plan `Prove` the evidence: whoever finds their bytes in
  memory finds the fingerprints and relationships. It needs that an accepted
  layout puts every reference inside its record and every row inside the table.
  `EvidenceIsCurrent` speaks of the memory the writes meet: `ComparedInv` says that a
  compared range holds what was expected, in every cell that was not stored to since, and
  `MemoryInv` that memory has all its cells, so that a range has its bytes.
  For the merging, a start is a byte asked for whose predecessor is not, the
  members of an operation are the bytes up to the first one not asked for, and two
  operations lie apart (`NoGaps`, `Apart`); what two ranges say of one byte agrees,
  or `Ambiguous` would have refused them. For the forms, two strictly ascending
  arrays over the same set are equal (`OrderedLemma`), applied to rows,
  relationships, fields and tables in turn.
* `TypedProofs`: `StagedIsSubmitted`, `RefusalSubmitsNothing` and
  `CurrentIsSubmitted`. `DbInvariant` relates what is pending to what `SetField`
  accepted, a refusal to the poisoned flag, and the order of the changes to
  their generations. What sorting may do is a permutation with conditions
  (`OrderLemma`), every change is planned under the first of its group
  (`LeaderLemma`), and a stable order leaves the oldest change of a record first,
  whose handle then has to be current for all the others to be.

Model-checked only, and why:

* `WritesWhatWasAsked`, `EmitsWhatIsAllowed` and the Lua walks are folds and
  recursive functions over data, which need induction over it. `FieldAssumption`
  is about what has been parsed, so the proofs hold for every layout, but not the
  arithmetic of the codec, whose powers of two the prover does not interpret.
* Liveness (`EveryCallReturns`, `AllServed` and its kind) under fairness is
  outside what the prover handles.

## 6. What is not modelled

* Parsing and printing: JSON, the syntax of profiles, hexadecimal, Lua values,
  the validation of parameters and results in the SDK, wording.
* The generator and the locators of the live class tools and `live-recruiting.cjs`:
  sequential computations over what the host returned.
* The data race on `g_last_error` in `StatusJson`, a race on a string.
* The timing of Windows between a trap that was raised and the removal of a
  vectored handler.
* `cfb.write_u8`, whose failed read-back neither restores the byte nor disables
  writes, beyond its place between the locks: nothing is promised of it.
* The log ring, the build catalog, the loader proxy, process discovery, the
  command line, verification and release scripts, the archive: no state of
  interest.
* The generation counter's wrap at 2^64 and other widths no session reaches.

## 7. Plan

Done: every component with state of its own; the invariants of the engine, the
catalog, the host's locks, watches, hits, event pages, ticks and callbacks, typed
writes and the Lua database, the pipe, the memory scan, the table discovery in both
directions, the search for the board and its mutations, the class replacement and the
installer, and the refinement of `AtomicTransaction`, proved.

Next, in this order:

1. The composition of `HostWrites` with `FrtkCatalog`, for what the flag `g_ready` and
   the catalog say after two concurrent `game_ready` notifications.
2. Two installations at once, as a fault of its own.
