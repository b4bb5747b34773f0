----------------------------- MODULE FrtkCatalog -----------------------------
(***************************************************************************)
(* The session catalog of native/host/frtk_catalog.cpp and the commands of *)
(* lua_host.cpp that use it under g_frtk_mutex: which tables of the game   *)
(* are installed, at which address, under which generation, and what a     *)
(* handle kept by a client or a script still reaches.                      *)
(*                                                                         *)
(* The game runs while the host reads it: between any two steps it may     *)
(* move a table or free it.  A table has moved when its fingerprints and   *)
(* reference sentinels are no longer at the old address.                   *)
(***************************************************************************)
EXTENDS Integers, FiniteSets

CONSTANTS
  Table,           \* the Unique IDs
  Links,           \* Links[t]: the tables t's relationships point to
  Profiles,        \* the table sets of the profiles a client may load
  Direct,          \* the tables with authority direct_verified
  Location,        \* the addresses a table may have in the game
  Nowhere,         \* the place of a table the game has freed
  MaxGeneration    \* bound on the generations a behaviour may reach

ASSUME CatalogAssumption ==
  /\ Links \in [Table -> SUBSET Table]
  /\ Profiles \subseteq (SUBSET Table) \ {{}}
  /\ \A p \in Profiles : \A t \in p : Links[t] \subseteq p
  /\ Direct \subseteq Table
  /\ Nowhere \notin Location
  /\ MaxGeneration \in Nat

VARIABLES
  generation,   \* generation_
  gameReady,    \* game_ready_
  entries,      \* entries_: the base address of every installed table
  profile,      \* the tables of g_frtk_profile, {} when none is loaded
  place,        \* where each table really is in the game
  holder,       \* what g_frtk_mutex is held for between two steps
  found,        \* DiscoverTables: the descriptors resolved so far
  todo,         \* the handles a transaction has still to plan
  plans,        \* its FieldWritePlans: generation and guarded tables of each
  toCompare,    \* RunTransaction: the guarded tables it has still to compare
  landed,       \* history: the <<table, address>> pairs the transaction wrote
  strayed       \* history: the tables that moved after it had compared them

catalogVars == <<generation, gameReady, entries, profile>>
lockVars == <<holder, found, todo, plans, toCompare>>
writeVars == <<landed, strayed>>
vars == <<catalogVars, place, lockVars, writeVars>>

Installed == DOMAIN entries
Empty == [t \in {} |-> Nowhere]
Handle == [table : Table, gen : 0..MaxGeneration]

-----------------------------------------------------------------------------
(* The catalog.                                                            *)

\* AdvanceGeneration.  Its wrap from 2^64 - 1 to 1 is out of reach.
GenerationStays == generation < MaxGeneration /\ generation' = generation
AdvanceGeneration == generation < MaxGeneration /\ generation' = generation + 1

\* Install: the generation advances and the lifecycle restarts even when the
\* discovery was rejected and nothing is installed.
InstallKeepsLifecycle(tables) ==
  AdvanceGeneration /\ entries' = tables /\ UNCHANGED gameReady
Install(tables) ==
  AdvanceGeneration /\ entries' = tables /\ gameReady' = TRUE

Invalidate == AdvanceGeneration /\ entries' = Empty

\* GetHandle
CurrentHandle(t) == [table |-> t, gen |-> generation]

\* Resolve
Resolves(h) == h.gen = generation /\ h.table \in Installed

\* Revalidate rereads the evidence of every installed table.  It quarantines
\* those whose evidence is gone, and others it could not read or read
\* differently twice ("flaky": one failed read fails its whole batch).
InPlace(t) == place[t] = entries[t]
Moved == {t \in Installed : ~InPlace(t)}

\* The survivors of a quarantine: no table may point to a quarantined one, so
\* the closure loop leaves the largest set that is closed under the links.
OnePass(bad) == {t \in Installed \ bad : Links[t] \cap bad = {}}
Survivors(bad) ==
  UNION {S \in SUBSET (Installed \ bad) : \A t \in S : Links[t] \subseteq S}

\* What a failed Revalidate leaves behind.
Quarantine(bad) ==
  /\ AdvanceGeneration
  /\ entries' = [t \in Survivors(bad) |-> entries[t]]
  /\ UNCHANGED gameReady

\* Revalidate returned true, or false and the survivors are installed under a
\* new generation; an empty catalog is simply refused.
Valid(flaky) == Installed # {} /\ Moved \cup flaky = {}
Invalidated(flaky) ==
  /\ ~Valid(flaky)
  /\ IF Installed = {} THEN UNCHANGED <<generation, gameReady, entries>>
     ELSE Quarantine(Moved \cup flaky)

-----------------------------------------------------------------------------
Init ==
  /\ generation = 0
  /\ gameReady = TRUE
  /\ entries = Empty
  /\ profile = {}
  /\ place \in [Table -> Location \cup {Nowhere}]
  /\ holder = "none"
  /\ found = Empty
  /\ todo = {}
  /\ plans = {}
  /\ toCompare = {}
  /\ landed = {}
  /\ strayed = {}

\* Commands that finish under one acquisition of g_frtk_mutex.
Command == holder = "none" /\ UNCHANGED <<place, lockVars, writeVars>>

\* loadFrtkProfile of a profile that parses and matches the build.
LoadFrtkProfile ==
  /\ Command
  /\ Invalidate
  /\ profile' \in Profiles
  /\ UNCHANGED gameReady

\* invalidateFrtkCatalog
InvalidateFrtkCatalog ==
  /\ Command
  /\ Invalidate
  /\ UNCHANGED <<gameReady, profile>>

\* UpdateGameReady, the part under the lock: AdvanceLifecycle.
AdvanceLifecycle(ready) ==
  /\ Command
  /\ gameReady' = ready
  /\ IF ~ready /\ gameReady THEN Invalidate ELSE UNCHANGED <<generation, entries>>
  /\ UNCHANGED profile

\* readFrtkRecords with the generation and table a client asks for, or GetField
\* with the handle a script kept: the catalog may shrink, and then the read
\* fails.  A stale generation is refused before anything is read.
ReadRecords(h) ==
  /\ Command
  /\ Resolves(h)
  /\ \E flaky \in SUBSET Installed : Invalidated(flaky)
  /\ UNCHANGED profile

-----------------------------------------------------------------------------
(* discoverFrtkCatalog: DiscoverTables scans for up to fifteen seconds     *)
(* with the mutex held.                                                    *)

DiscoverBegin ==
  /\ holder = "none"
  /\ profile # {}
  /\ holder' = "discover"
  /\ found' = Empty
  /\ UNCHANGED <<catalogVars, place, todo, plans, toCompare, writeVars>>

\* The scan, with its allocation and relationship checks, resolves one table.
Locate(t) ==
  /\ holder = "discover"
  /\ t \in profile \ DOMAIN found
  /\ place[t] # Nowhere
  /\ found' = [u \in DOMAIN found \cup {t} |-> IF u = t THEN place[t] ELSE found[u]]
  /\ UNCHANGED <<catalogVars, place, holder, todo, plans, toCompare, writeVars>>

\* Discovery ends by installing every table of the profile, or none: it timed
\* out, or a table is missing, ambiguous or unstable.
AcceptPartial == DOMAIN found # {}
Complete == DOMAIN found = profile
DiscoverEnd ==
  /\ holder = "discover"
  /\ (Complete /\ Install(found)) \/ Install(Empty)
  /\ holder' = "none"
  /\ found' = Empty
  /\ UNCHANGED <<profile, place, todo, plans, toCompare, writeVars>>

-----------------------------------------------------------------------------
(* transactFrtkFields: the handler keeps the mutex from the generation     *)
(* check to the end of the write, but the game does not stop.              *)

\* The change groups name their tables; each gets a current handle when its
\* turn comes.
TransactBegin(gen, tables) ==
  /\ holder = "none"
  /\ profile # {}
  /\ gen = generation
  /\ holder' = "transact"
  /\ todo' = {CurrentHandle(t) : t \in tables}
  /\ plans' = {}
  /\ UNCHANGED <<catalogVars, place, found, toCompare, writeVars>>

\* The handler returns.
TransactEnd ==
  /\ holder' = "none" /\ todo' = {} /\ plans' = {} /\ toCompare' = {}
  /\ landed' = {} /\ strayed' = {}
  /\ UNCHANGED <<profile, place, found>>

\* PlanFieldWrites for one handle.  A plan keeps the evidence it was made
\* under; every other outcome refuses the transaction.
PlanFieldWrites(h) ==
  \E flaky \in SUBSET Installed :
    \/ /\ Valid(flaky)
       /\ Resolves(h)
       /\ h.table \in Direct
       /\ plans' = plans \cup {[table |-> h.table, at |-> entries[h.table],
                               gen |-> generation, guarded |-> Installed]}
       /\ todo' = todo \ {h}
       /\ UNCHANGED <<catalogVars, place, holder, found, toCompare, writeVars>>
    \/ /\ IF Valid(flaky) THEN UNCHANGED <<generation, gameReady, entries>>
          ELSE Invalidated(flaky)
       /\ TransactEnd

\* The next group: without a handle for its table the request is refused.
Plan(h) ==
  /\ holder = "transact"
  /\ h \in todo
  /\ IF h.table \in Installed THEN PlanFieldWrites(h)
     ELSE TransactEnd /\ UNCHANGED <<generation, gameReady, entries>>

\* FinalizeFieldTransaction: the plans must agree with each other and with the
\* catalog; their guards go into the transaction next to the changes.
EvidenceIsActive(p) == p.gen = generation /\ p.guarded = Installed
NoGuards == {}
Guards == UNION {p.guarded : p \in plans}
Finalize ==
  /\ holder = "transact"
  /\ todo = {}
  /\ \/ /\ \A p \in plans : EvidenceIsActive(p)
        /\ holder' = "run"
        /\ toCompare' = Guards
        /\ UNCHANGED <<profile, place, found, todo, plans, writeVars>>
     \/ TransactEnd
  /\ UNCHANGED <<generation, gameReady, entries>>

\* RunTransaction (module MemoryTransaction): the preflight reads one range after
\* another, and refuses the transaction for one that does not hold what it should.
Compare(t) ==
  /\ holder = "run"
  /\ t \in toCompare
  /\ IF InPlace(t)
     THEN /\ toCompare' = toCompare \ {t}
          /\ UNCHANGED <<profile, place, holder, found, todo, plans, writeVars>>
     ELSE TransactEnd
  /\ UNCHANGED <<generation, gameReady, entries>>

\* Then it writes one operation after another, where they were planned.
Write(p) ==
  /\ holder = "run"
  /\ toCompare = {}
  /\ p \in plans
  /\ landed' = landed \cup {<<p.table, p.at>>}
  /\ UNCHANGED <<catalogVars, place, lockVars, strayed>>

\* All is written; or a range could not be read or written, and what was written
\* is rolled back.
TransactReturns ==
  /\ holder = "run"
  /\ TransactEnd
  /\ UNCHANGED <<generation, gameReady, entries>>

-----------------------------------------------------------------------------
\* The game reallocates a table, or frees it.
Compared(t) == holder = "run" /\ t \in Guards \ toCompare
GameMoves ==
  /\ \E t \in Table : \E l \in (Location \cup {Nowhere}) \ {place[t]} :
       /\ place' = [place EXCEPT ![t] = l]
       /\ strayed' = IF Compared(t) THEN strayed \cup {t} ELSE strayed
  /\ UNCHANGED <<catalogVars, lockVars, landed>>

Next ==
  \/ LoadFrtkProfile \/ InvalidateFrtkCatalog
  \/ \E ready \in BOOLEAN : AdvanceLifecycle(ready)
  \/ \E h \in Handle : ReadRecords(h) \/ Plan(h)
  \/ DiscoverBegin \/ (\E t \in Table : Locate(t)) \/ DiscoverEnd
  \/ \E gen \in 0..MaxGeneration, tables \in (SUBSET Table) \ {{}} : TransactBegin(gen, tables)
  \/ Finalize \/ (\E t \in Table : Compare(t)) \/ (\E p \in plans : Write(p)) \/ TransactReturns
  \/ GameMoves

Spec == Init /\ [][Next]_vars

-----------------------------------------------------------------------------
(* Properties.                                                             *)

\* The shape of the catalog; what discovery has found, and what a transaction
\* has planned, belong to the profile and the catalog that are current.
TypeOK ==
  /\ generation \in 0..MaxGeneration
  /\ gameReady \in BOOLEAN
  /\ profile \in Profiles \cup {{}}
  /\ Installed \subseteq profile
  /\ entries \in [Installed -> Location]
  /\ place \in [Table -> Location \cup {Nowhere}]
  /\ holder \in {"none", "discover", "transact", "run"}
  /\ DOMAIN found \subseteq profile
  /\ found \in [DOMAIN found -> Location]
  /\ todo \subseteq Handle
  /\ holder # "discover" => found = Empty
  /\ holder \notin {"transact", "run"} => todo = {} /\ plans = {}
  /\ toCompare \subseteq Guards /\ (holder # "run" => toCompare = {})
  /\ \A p \in plans : p.table \in Installed /\ p.at = entries[p.table] /\ EvidenceIsActive(p)

\* A reference decoded under the current generation always points into an
\* installed table: what Install accepts and what a quarantine leaves is closed
\* under the profile's relationships (Revalidate, closure loop, lines 446 to 465).
ClosedUnderLinks == \A t \in Installed : Links[t] \subseteq Installed

\* While the game is not ready nothing is installed, so the test in
\* AdvanceLifecycle that skips a repeated notification skips nothing.
NotReadyMeansEmpty == ~gameReady => Installed = {}

\* A handle reaches the same place of the game for as long as it resolves, and
\* once it is stale it stays stale: docs/lua-api.md:24, "lifecycle invalidation
\* makes retained values stale instead of retaining a process address".
HandlesNeverRetarget ==
  [][ \A h \in Handle :
        Resolves(h)' =>
          \/ h.gen > generation
          \/ Resolves(h) /\ entries'[h.table] = entries[h.table] ]_vars

\* The catalog only ever grows to a whole profile: no failed, timed out or
\* partial discovery publishes a table (discoverFrtkCatalog, lines 1664 to 1691).
GrowsByWholeProfiles ==
  [][ Installed' \subseteq Installed \/ Installed' = profile ]_vars

\* The game may move a table at any time, also between its comparison and the write
\* (docs/safety.md:39, "Transaction sequencing is not game-thread atomicity").  Only
\* such a move is missed: a typed write reaches the place its table really has, with
\* every table of the catalog in its place, except for those the game moved after
\* their evidence had been compared.  What moved between the planning of the first
\* group and the comparison is noticed (FinalizeFieldTransaction's guards).
WritesLandInPlace ==
  [][ landed' # landed /\ landed' # {} =>
        /\ \A w \in landed' \ landed : place[w[1]] = w[2] \/ w[1] \in strayed
        /\ \A t \in Installed : InPlace(t) \/ t \in strayed ]_vars
=============================================================================
