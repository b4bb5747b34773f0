---------------------------- MODULE FrtkDiscovery ----------------------------
(***************************************************************************)
(* native/host/frtk_discovery.cpp: DiscoverTables over the backend of      *)
(* native/host/lua_host.cpp (ProcessDiscoveryBackend).  Memory is a row of *)
(* record slots; a slot holds the fingerprint its masked bytes match and   *)
(* the packed reference in the bytes outside the mask.  A descriptor is an *)
(* object of the game that points to the first and past the last slot of   *)
(* the memory a table lives in; on certified builds tables are found       *)
(* through descriptors, on others by scanning for the rows themselves.     *)
(* An action is one call of the backend: the game may store, free and move *)
(* between any two.                                                        *)
(***************************************************************************)
EXTENDS Integers, Sequences, SequencesExt, FiniteSets

CONSTANTS
  Slots,         \* the record slots of the process
  Profile,       \* the tables: [rows, fps, capacity, indexed, links]
  Worlds,        \* initial memories: [mem, alloc, desc]
  GameStores,    \* what the game may store: [slot, value]
  MaxChanges,    \* bound on the changes the game makes
  MaxMatches     \* kMaxFingerprintMatches

Slot == 1..Slots
Base == (1 - Slots)..Slots   \* where the first row of a table might be
Tables == DOMAIN Profile

\* What ParseProfile accepts: three rows or more, each with a fingerprint and
\* within the capacity, and relationships between tables of the profile.
DiscoveryAssumption ==
  /\ Slots \in Nat \ {0} /\ MaxChanges \in Nat /\ MaxMatches \in Nat \ {0}
  /\ Profile \in Seq(Range(Profile)) /\ Profile # <<>>
  /\ \A t \in Tables :
       /\ Profile[t].rows \in Seq(0..(Profile[t].capacity - 1)) /\ Len(Profile[t].rows) >= 3
       /\ DOMAIN Profile[t].fps = DOMAIN Profile[t].rows
       /\ Profile[t].capacity \in Nat
       /\ \A l \in Profile[t].links : l.target \in Tables
  /\ \A w \in Worlds : /\ w.alloc \in [Slot -> Nat]
                        /\ w.desc \in Seq([table : Tables, start : Nat, end : Nat])

Unscanned == [complete |-> FALSE, matches |-> {-1}]

VARIABLES
  mem,       \* slot -> [fp, ref]
  alloc,     \* slot -> the allocation it is in, 0 where nothing is committed
  desc,      \* the descriptors in address order: [table, start, end]
  certified, \* CertifiedBuild()
  expired,   \* the deadline has passed
  changes,   \* bound: what the game has changed since the start
  existed,   \* history: where each table has been since the start
  torn,      \* history: the candidates the game changed between two rows of a reread
  pc,        \* "idle", the next call, "done" or "OPERATION_TIMEOUT"
  table,     \* table_index, source_index in the second phase
  scans,     \* scan_cache
  row,       \* the row scanned for, or read again
  match,     \* the matches of the descriptor scan still to be looked at
  candidates,\* bases still to be reread
  stable,    \* candidates that passed
  problem,   \* the flags unstable and allocation_invalid
  result     \* table -> [state, base]

game == <<mem, alloc, desc>>
local == <<scans, row, match, candidates, stable, problem>>
vars == <<game, certified, expired, changes, existed, torn, pc, table, local, result>>

P == Profile[table]

-----------------------------------------------------------------------------
Holds(t, base, k) ==
  /\ base + Profile[t].rows[k] \in Slot
  /\ mem[base + Profile[t].rows[k]].fp = Profile[t].fps[k]

\* Every fingerprint of the table is where a table at base has it.
AllRowsMatch(t, base) == \A k \in DOMAIN Profile[t].rows : Holds(t, base, k)

\* AllocationExists: one committed allocation spans the slots.
AllocationExists(base, size) ==
  /\ base \in Slot /\ size > 0 /\ base + size - 1 \in Slot
  /\ alloc[base] # 0
  /\ \A s \in base..(base + size - 1) : alloc[s] = alloc[base]

\* DescriptorCandidateHasValidExtent.
ValidExtent(t, d) ==
  /\ d.end > d.start
  /\ IF Profile[t].indexed THEN d.end - d.start = Profile[t].capacity
                           ELSE d.end - d.start >= Profile[t].capacity
  /\ AllocationExists(d.start, d.end - d.start)

Accepted(t) == {n \in DOMAIN desc : desc[n].table = t /\ ValidExtent(t, desc[n])}

\* The bases a descriptor leads to: where the first fingerprint is found in
\* its memory, the whole table lies in it and every row matches.  Only the
\* first offsets of the first fingerprint are tried.
FirstOffsets(t, d) ==
  LET hits == {s \in Slot : s >= d.start /\ s < d.end /\ mem[s].fp = Profile[t].fps[1]}
  IN  {s \in hits : Cardinality({o \in hits : o < s}) < MaxMatches}

BlobCandidates(t, d) ==
  {b \in {s - Profile[t].rows[1] : s \in FirstOffsets(t, d)} :
     /\ b >= d.start /\ b + Profile[t].capacity <= d.end
     /\ AllRowsMatch(t, b)}

DescriptorCandidates(t, d) ==
  IF Profile[t].indexed THEN (IF AllRowsMatch(t, d.start) THEN {d.start} ELSE {})
                        ELSE BlobCandidates(t, d)

-----------------------------------------------------------------------------
NoProblem == [unstable |-> FALSE, allocation |-> FALSE]
Unresolved == [state |-> "missing", base |-> 0]
TimedOut == pc' = "OPERATION_TIMEOUT" /\ result' = [t \in Tables |-> Unresolved]

Init ==
  /\ \E w \in Worlds : mem = w.mem /\ alloc = w.alloc /\ desc = w.desc
  /\ certified \in BOOLEAN
  /\ expired = FALSE /\ changes = 0
  /\ torn = {}
  /\ existed = {x \in Tables \X Slot : AllRowsMatch(x[1], x[2])}
  /\ pc = "table" /\ table = 1
  /\ scans = [f \in UNION {Range(Profile[t].fps) : t \in Tables} |-> Unscanned]
  /\ row = 1 /\ match = <<>> /\ candidates = {} /\ stable = {}
  /\ problem = NoProblem
  /\ result = [t \in Tables |-> Unresolved]

\* The verdict over the candidates of a table (stable ones first, then what
\* went wrong on the way).
Verdict(found, wrong) ==
  IF Cardinality(found) = 1 THEN [state |-> "resolved", base |-> CHOOSE b \in found : TRUE]
  ELSE [state |-> IF found # {} THEN "ambiguous"
                  ELSE IF wrong.unstable THEN "unstable"
                  ELSE IF wrong.allocation THEN "allocation_invalid" ELSE "missing",
        base |-> 0]

\* The table is decided; the next one begins, or the second phase.
Conclude(found, wrong) ==
  /\ result' = [result EXCEPT ![table] = Verdict(found, wrong)]
  /\ table' = IF table < Len(Profile) THEN table + 1 ELSE 1
  /\ pc' = IF table < Len(Profile) THEN "table" ELSE "relationships"
  /\ row' = 1 /\ match' = <<>> /\ candidates' = {} /\ stable' = {} /\ problem' = NoProblem
  /\ UNCHANGED scans

Unaffected == UNCHANGED <<game, certified, expired, changes, existed, torn>>

\* ScanTableDescriptor: the scan accepts the descriptors with a valid extent
\* and ends at the first one it accepts (stop_after_first).
Kept(t) ==
  IF Accepted(t) = {} THEN <<>>
  ELSE <<desc[CHOOSE n \in Accepted(t) : \A m \in Accepted(t) : n <= m]>>

ScanDescriptors ==
  /\ pc = "table" /\ ~expired /\ certified /\ Kept(table) # <<>>
  /\ match' = Kept(table)
  /\ pc' = "descriptor"
  /\ UNCHANGED <<table, scans, row, candidates, stable, problem, result>>
  /\ Unaffected

\* None is left, or the scan itself failed under a change of memory.
FindNoDescriptor ==
  /\ pc = "table" /\ ~expired /\ certified
  /\ Kept(table) = <<>> \/ changes > 0
  /\ Conclude({}, problem)
  /\ Unaffected

\* The pointers are read again, then the memory between them is searched.
ReadDescriptor ==
  /\ pc = "descriptor" /\ ~expired
  /\ LET d == Head(match)
         now == ValidExtent(table, d)
         new == IF now THEN DescriptorCandidates(table, d) ELSE {}
     IN  /\ candidates' = new
         /\ problem' = [problem EXCEPT !.allocation = @ \/ ~now,
                                       !.unstable = @ \/ (now /\ new = {} /\ P.indexed)]
  /\ pc' = "reread"
  /\ UNCHANGED <<table, scans, row, match, stable, result>>
  /\ Unaffected

\* The candidate that is read next.
Candidate == CHOOSE c \in candidates : \A o \in candidates : c <= o

\* A plausible mistake: what was found first is taken without a second look.
NoReread ==
  /\ pc = "reread" /\ ~expired /\ candidates # {}
  /\ stable' = stable \cup candidates
  /\ candidates' = {}
  /\ UNCHANGED <<pc, table, scans, row, match, problem, result>>
  /\ Unaffected

\* One row of one candidate is read a second time, ReadBatch going from range
\* to range; a candidate that lost a row is no candidate.
Reread ==
  /\ pc = "reread" /\ ~expired /\ candidates # {}
  /\ LET good == Holds(table, Candidate, row) /\ alloc[Candidate + P.rows[row]] # 0
         last == ~good \/ row = Len(P.rows)
     IN  /\ row' = IF last THEN 1 ELSE row + 1
         /\ candidates' = IF last THEN candidates \ {Candidate} ELSE candidates
         /\ stable' = IF good /\ last THEN stable \cup {Candidate} ELSE stable
         /\ problem' = [problem EXCEPT !.unstable = @ \/ ~good]
  /\ UNCHANGED <<pc, table, scans, match, result>>
  /\ Unaffected

\* When none is left the next descriptor is looked at, or the table is decided.
EndReread ==
  /\ pc = "reread" /\ ~expired /\ candidates = {}
  /\ IF certified /\ Len(match) > 1
     THEN /\ match' = Tail(match) /\ pc' = "descriptor"
          /\ UNCHANGED <<table, scans, row, candidates, stable, problem, result>>
     ELSE Conclude(stable, problem)
  /\ Unaffected

-----------------------------------------------------------------------------
\* One fingerprint is scanned for, once per discovery.
ScanRow ==
  /\ pc = "table" /\ ~expired /\ ~certified /\ row <= Len(P.rows)
  /\ LET f == P.fps[row]
         here == {s \in Slot : alloc[s] # 0 /\ mem[s].fp = f}
     IN  \/ scans' = IF scans[f] # Unscanned THEN scans
                     ELSE [scans EXCEPT ![f] = [complete |-> Cardinality(here) <= MaxMatches,
                                                matches |-> here]]
         \/ /\ changes > 0 /\ scans[f] = Unscanned
            /\ scans' = [scans EXCEPT ![f] = [complete |-> FALSE, matches |-> {}]]
  /\ row' = row + 1
  /\ UNCHANGED <<pc, table, match, candidates, stable, problem, result>>
  /\ Unaffected

\* Three rows at the distances of the profile, in one allocation, with room
\* for the whole table in it.
Consistent(base) ==
  \E a, b, c \in DOMAIN P.rows :
    /\ a < b /\ b < c
    /\ \A k \in {a, b, c} : base + P.rows[k] \in scans[P.fps[k]].matches
    /\ \A k \in {b, c} : alloc[base + P.rows[k]] = alloc[base + P.rows[a]]

FindLayouts ==
  /\ pc = "table" /\ ~expired /\ ~certified /\ row = Len(P.rows) + 1
  /\ LET bases == {b \in Base : Consistent(b)}
         fit == {b \in bases : AllocationExists(b, P.capacity)}
     IN  IF \E k \in DOMAIN P.rows : ~scans[P.fps[k]].complete
         THEN Conclude({}, NoProblem)
         ELSE /\ candidates' = fit
              /\ problem' = [problem EXCEPT !.allocation = @ \/ fit # bases]
              /\ pc' = "reread" /\ row' = 1
              /\ UNCHANGED <<table, scans, match, stable, result>>
  /\ Unaffected

-----------------------------------------------------------------------------
\* What a relationship of a resolved table says, read from memory: an indexed
\* array is checked against the arithmetic of its layout instead.
LinkHolds(t, base, link) ==
  IF certified /\ Profile[t].indexed THEN link.mapped
  ELSE /\ alloc[base + link.row] # 0
       /\ mem[base + link.row].ref = <<link.target, link.targetRow>>

\* A table that resolved keeps its place when every relationship is what the
\* profile says and every target resolved in the first phase.  That phase is
\* over, so a target rejected by a relationship of its own still counts.
IndependentlyResolved(t) == result[t].base # 0

\* A plausible mistake: a relationship to a table that was not found passes.
IgnoresMissingTargets ==
  /\ pc = "relationships" /\ ~expired
  /\ LET r == result[table]
         good == \A link \in P.links : LinkHolds(table, r.base, link)
     IN  result' = IF r.state = "resolved" /\ ~good
                   THEN [result EXCEPT ![table].state = "relationship_failed"] ELSE result
  /\ table' = IF table < Len(Profile) THEN table + 1 ELSE table
  /\ pc' = IF table < Len(Profile) THEN "relationships" ELSE "done"
  /\ UNCHANGED local
  /\ Unaffected

CheckRelationships ==
  /\ pc = "relationships" /\ ~expired
  /\ LET r == result[table]
         good == \A link \in P.links : /\ IndependentlyResolved(link.target)
                                       /\ LinkHolds(table, r.base, link)
     IN  result' = IF r.state = "resolved" /\ ~good
                   THEN [result EXCEPT ![table].state = "relationship_failed"] ELSE result
  /\ table' = IF table < Len(Profile) THEN table + 1 ELSE table
  /\ pc' = IF table < Len(Profile) THEN "relationships" ELSE "done"
  /\ UNCHANGED local
  /\ Unaffected

\* Every phase asks the deadline before it goes on, and an expired one
\* discards what was found.
TimeOut ==
  /\ pc \in {"table", "descriptor", "reread", "relationships"} /\ expired
  /\ TimedOut
  /\ UNCHANGED <<table, local>>
  /\ Unaffected

-----------------------------------------------------------------------------
Running == pc \notin {"done", "OPERATION_TIMEOUT"}

Deadline ==
  /\ Running /\ ~expired
  /\ expired' = TRUE
  /\ UNCHANGED <<game, certified, changes, existed, torn, pc, table, local, result>>

\* The game stores a record, or frees an allocation.
GameStore ==
  /\ Running /\ changes < MaxChanges
  /\ \E g \in GameStores : alloc[g.slot] # 0 /\ mem' = [mem EXCEPT ![g.slot] = g.value]
  /\ mem' # mem
  /\ existed' = existed \cup {x \in Tables \X Slot : AllRowsMatch(x[1], x[2])'}
  /\ torn' = torn \cup (IF pc = "reread" /\ row > 1 THEN {<<table, Candidate>>} ELSE {})
  /\ changes' = changes + 1
  /\ UNCHANGED <<alloc, desc, certified, expired, pc, table, local, result>>

GameFree ==
  /\ Running /\ changes < MaxChanges
  /\ \E s \in Slot : alloc[s] # 0
                     /\ alloc' = [x \in Slot |-> IF alloc[x] = alloc[s] THEN 0 ELSE alloc[x]]
  /\ changes' = changes + 1
  /\ UNCHANGED <<mem, desc, certified, expired, existed, torn, pc, table, local, result>>

Discover ==
  \/ ScanDescriptors \/ FindNoDescriptor \/ ReadDescriptor
  \/ ScanRow \/ FindLayouts \/ Reread \/ EndReread
  \/ CheckRelationships \/ TimeOut

Ended == ~Running /\ UNCHANGED vars

Next == Discover \/ Deadline \/ GameStore \/ GameFree \/ Ended

Spec == Init /\ [][Next]_vars

-----------------------------------------------------------------------------
\* Where a table really is: through any descriptor, or anywhere in memory.
TrueLayouts(t) ==
  IF certified
  THEN UNION {DescriptorCandidates(t, desc[n]) : n \in Accepted(t)}
  ELSE {b \in Slot : AllRowsMatch(t, b) /\ AllocationExists(b, Profile[t].capacity)}

\* The scan ends at a descriptor that leads nowhere, before one that does not.
Hidden(t) ==
  /\ certified /\ TrueLayouts(t) # {}
  /\ DescriptorCandidates(t, Kept(t)[1]) = {}

\* No fingerprint occurs more often than the scans are capped at.
WithinCap ==
  \A f \in DOMAIN scans : Cardinality({s \in Slot : alloc[s] # 0 /\ mem[s].fp = f}) <= MaxMatches

Quiet == changes = 0

\* A discovery the game does not disturb tells the truth of every table: one
\* that resolved is where the profile says and its references are right; one
\* with a single layout whose references hold is resolved, unless a descriptor
\* before its own hides it.  Without descriptors a second layout makes it
\* ambiguous (lines 640 to 800).
DiscoveryIsExact ==
  pc = "done" /\ Quiet =>
    \A t \in Tables :
      LET r == result[t]
          linked(b) == \A l \in Profile[t].links : /\ TrueLayouts(l.target) # {}
                                                   /\ LinkHolds(t, b, l)
      IN  /\ r.state = "resolved" => r.base \in TrueLayouts(t) /\ linked(r.base)
          /\ r.state = "resolved" /\ ~certified => TrueLayouts(t) = {r.base}
          /\ WithinCap /\ Cardinality(TrueLayouts(t)) = 1 =>
               \/ \E u \in {t} \cup {l.target : l \in Profile[t].links} : Hidden(u)
               \/ r.state = "resolved"
               \/ ~linked(CHOOSE b \in TrueLayouts(t) : TRUE)
               \/ \E l \in Profile[t].links : Cardinality(TrueLayouts(l.target)) > 1

\* Whatever the game does between the reads, a table reported as resolved has
\* stood at its base, with all its rows at one moment, while the discovery
\* ran: rows seen at different moments are not put together to a table.  Only
\* a store between two rows of the reread itself goes unnoticed.
ResolvedTablesExisted ==
  pc = "done" =>
    \A t \in Tables : result[t].state = "resolved" => <<t, result[t].base>> \in existed \cup torn
=============================================================================
