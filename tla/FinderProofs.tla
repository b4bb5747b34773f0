----------------------------- MODULE FinderProofs -----------------------------
(***************************************************************************)
(* For any memory and any behaviour of the game: what the host says it has *)
(* found is there.                                                         *)
(***************************************************************************)
EXTENDS Commands, SequenceTheorems, FiniteSetTheorems, WellFoundedInduction, TLAPS

-----------------------------------------------------------------------------
(* Table discovery: a candidate passes when its rows are found a second     *)
(* time, one after another.  If the game stores nothing between the first   *)
(* row of them and the last, all of them hold at the last one, and that     *)
(* moment is one at which the table stood there.                            *)

\* Where the history places table t: it has stood at b, or a reread of b was
\* disturbed.
Placed(t, b) == <<t, b>> \in existed \cup torn

\* The history has every table that stands somewhere now.
Recorded ==
  \A t \in Discovery!Tables, b \in Discovery!Slot :
    Discovery!AllRowsMatch(t, b) => <<t, b>> \in existed

\* The rows before the one read next hold at the candidate, unless disturbed.
RowsReread ==
  \/ <<table, Discovery!Candidate>> \in torn
  \/ \A k \in 1..(row - 1) : Discovery!Holds(table, Discovery!Candidate, k)

\* Where the discovery stands.
DiscoveryPlace ==
  /\ table \in Discovery!Tables /\ row \in Nat
  /\ candidates \subseteq Discovery!Slot /\ stable \subseteq Discovery!Slot
  /\ pc = "table" /\ certified => row = 1
  /\ pc = "descriptor" => row = 1
  /\ pc = "reread" /\ candidates = {} => row = 1
  /\ pc = "reread" /\ candidates # {} =>
       row \in 1..Len(Profile[table].rows) /\ RowsReread
  /\ pc = "relationships" => stable = {}

Undecided == {"ambiguous", "unstable", "allocation_invalid", "missing", "relationship_failed"}
DiscoveryResult == [state : Undecided \cup {"resolved"}, base : Int]

DiscoveryState ==
  /\ DiscoveryPlace /\ Recorded
  /\ \A b \in stable : Placed(table, b)
  /\ result \in [Discovery!Tables -> DiscoveryResult]
  /\ \A t \in Discovery!Tables : result[t].state = "resolved" => Placed(t, result[t].base)

DiscoveryInvariant == which = "discovery" => DiscoveryState

-----------------------------------------------------------------------------
LEMMA TablesLemma ==
  /\ Discovery!Tables = 1..Len(Profile) /\ Len(Profile) \in Nat /\ 1 \in Discovery!Tables
  /\ Discovery!Slot = 1..Slots /\ Slots \in Nat
  /\ \A t \in Discovery!Tables :
       /\ Profile[t].rows \in Seq(Nat)
       /\ Len(Profile[t].rows) \in Nat /\ Len(Profile[t].rows) >= 3
BY CommandsAssumption
DEF Discovery!DiscoveryAssumption, Discovery!Tables, Discovery!Slot

\* The instance counts the members of a set as this module does.
LEMMA DiscoveryCardinality == ASSUME NEW S PROVE Discovery!Cardinality(S) = Cardinality(S)
BY DEF Discovery!Cardinality, Cardinality

\* The least number of a set.
LEMMA LeastLemma ==
  ASSUME NEW S, S \subseteq Nat, S # {}
  PROVE  \E c \in S : \A o \in S : c <= o
<1> DEFINE Below == {p \in Nat \X Nat : p[1] < p[2]}
<1>1. OpToRel(<, Nat) = Below
  BY DEF OpToRel
<1>2. IsWellFoundedOn(Below, Nat)
  BY <1>1, NatLessThanWellFounded
<1>3. PICK c \in S : \A o \in S : ~(<<o, c>> \in Below)
  BY <1>2, WFMin, Zenon
<1>4. ASSUME NEW o \in S PROVE c <= o
  <2>1. o \in Nat /\ c \in Nat
    OBVIOUS
  <2>2. o < c => <<o, c>> \in Below
    BY <2>1
  <2>3. ~(o < c)
    BY <1>3, <2>2
  <2>. QED
    BY <2>1, <2>3
<1>. QED
  BY <1>4

\* The candidate that is read next is one of the candidates.
LEMMA CandidateLemma ==
  ASSUME candidates \subseteq Discovery!Slot, candidates # {}
  PROVE  Discovery!Candidate \in candidates
<1>1. candidates \subseteq Nat
  BY TablesLemma
<1>2. \E c \in candidates : \A o \in candidates : c <= o
  BY <1>1, LeastLemma
<1>. QED
  BY <1>2, Zenon DEF Discovery!Candidate

\* What has been recorded stays so while memory does.
LEMMA RecordedStays ==
  ASSUME Recorded, UNCHANGED <<mem, existed>>
  PROVE  Recorded'
BY DEF Recorded, Discovery!AllRowsMatch, Discovery!Holds

LEMMA RowsStay ==
  ASSUME RowsReread, UNCHANGED <<mem, torn, table, row, candidates>>
  PROVE  RowsReread'
BY DEF RowsReread, Discovery!Holds, Discovery!Candidate

\* A verdict of "resolved" names one of those found.
LEMMA VerdictLemma ==
  ASSUME NEW chosen, chosen \subseteq Discovery!Slot, NEW wrong
  PROVE  /\ Discovery!Verdict(chosen, wrong) \in DiscoveryResult
         /\ Discovery!Verdict(chosen, wrong).state = "resolved" =>
              Discovery!Verdict(chosen, wrong).base \in chosen
<1>1. Discovery!Cardinality(chosen) = 1 => chosen # {}
  BY DiscoveryCardinality, FS_EmptySet
<1>2. CASE Discovery!Cardinality(chosen) = 1
  <2> DEFINE one == CHOOSE b \in chosen : TRUE
  <2>1. one \in chosen
    BY <1>1, <1>2
  <2>2. Discovery!Verdict(chosen, wrong) = [state |-> "resolved", base |-> one]
    BY <1>2, Zenon DEF Discovery!Verdict
  <2> HIDE DEF one
  <2>3. one \in Int
    BY <2>1, TablesLemma
  <2>4. /\ [state |-> "resolved", base |-> one] \in DiscoveryResult
        /\ [state |-> "resolved", base |-> one].base = one
    BY <2>3 DEF DiscoveryResult
  <2>. QED
    BY <2>1, <2>2, <2>4, Zenon
<1>3. CASE Discovery!Cardinality(chosen) # 1
  <2>1. PICK s \in Undecided : Discovery!Verdict(chosen, wrong) = [state |-> s, base |-> 0]
    BY <1>3, Zenon DEF Discovery!Verdict, Undecided
  <2>2. /\ [state |-> s, base |-> 0] \in DiscoveryResult
        /\ [state |-> s, base |-> 0].state # "resolved"
    BY DEF DiscoveryResult, Undecided
  <2>. QED
    BY <2>1, <2>2, Zenon
<1>. QED
  BY <1>2, <1>3

\* DiscoverTables decides a table by what was read a second time.
LEMMA ConcludeLemma ==
  ASSUME DiscoveryState, NEW chosen, NEW wrong, chosen \subseteq Discovery!Slot,
         \A b \in chosen : Placed(table, b),
         Discovery!Conclude(chosen, wrong), Discovery!Unaffected
  PROVE  DiscoveryState'
<1>1. /\ table \in Discovery!Tables /\ result \in [Discovery!Tables -> DiscoveryResult]
      /\ Recorded /\ UNCHANGED <<mem, existed, torn>>
      /\ \A t \in Discovery!Tables : result[t].state = "resolved" => Placed(t, result[t].base)
  BY DEF DiscoveryState, DiscoveryPlace, Discovery!Unaffected, Discovery!game
<1>2. /\ row' = 1 /\ candidates' = {} /\ stable' = {} /\ pc' \in {"table", "relationships"}
      /\ table' = IF table < Len(Profile) THEN table + 1 ELSE 1
      /\ result' = [result EXCEPT ![table] = Discovery!Verdict(chosen, wrong)]
  BY DEF Discovery!Conclude
<1>3. table' \in Discovery!Tables
  BY <1>1, <1>2, TablesLemma
<1>4. DiscoveryPlace'
  BY <1>2, <1>3 DEF DiscoveryPlace, Discovery!Tables, Discovery!Slot
<1>5. Recorded'
  BY <1>1, RecordedStays
<1>6. result' \in [Discovery!Tables -> DiscoveryResult]
  BY <1>1, <1>2, VerdictLemma
<1>7. ASSUME NEW t \in Discovery!Tables, result'[t].state = "resolved"
      PROVE  <<t, result'[t].base>> \in existed' \cup torn'
  <2>1. CASE t = table
    <3>1. result'[t] = Discovery!Verdict(chosen, wrong)
      BY <1>1, <1>2, <2>1
    <3>2. result'[t].base \in chosen
      BY <1>7, <3>1, VerdictLemma
    <3>. QED
      BY <1>1, <2>1, <3>2 DEF Placed
  <2>2. CASE t # table
    BY <1>1, <1>2, <1>7, <2>2 DEF Placed
  <2>. QED
    BY <2>1, <2>2
<1>. QED
  BY <1>2, <1>4, <1>5, <1>6, <1>7 DEF DiscoveryState, Discovery!Tables, Placed

\* The steps that decide no table and read nothing again.
LEMMA OtherwiseLemma ==
  ASSUME DiscoveryState, DiscoveryPlace', Discovery!Unaffected,
         UNCHANGED <<table, stable, result>>
  PROVE  DiscoveryState'
BY RecordedStays
DEF DiscoveryState, Discovery!Unaffected, Discovery!game, Placed, Discovery!Tables

\* What a descriptor leads to lies in the slots of its memory.
LEMMA DescriptorLemma ==
  ASSUME NEW t \in Discovery!Tables, NEW d, Discovery!ValidExtent(t, d)
  PROVE  Discovery!DescriptorCandidates(t, d) \subseteq Discovery!Slot
<1>1. d.start \in Discovery!Slot
  BY DEF Discovery!ValidExtent, Discovery!AllocationExists
<1>2. ASSUME NEW b \in Discovery!BlobCandidates(t, d) PROVE b \in Discovery!Slot
  <2>1. PICK s \in Discovery!FirstOffsets(t, d) : b = s - Profile[t].rows[1]
    BY <1>2 DEF Discovery!BlobCandidates
  <2>2. s \in Discovery!Slot
    BY DEF Discovery!FirstOffsets
  <2>3. PICK first \in Nat : first = Profile[t].rows[1]
    BY TablesLemma
  <2>4. PICK start \in 1..Slots : start = d.start
    BY <1>1, TablesLemma
  <2>5. b >= start
    BY <1>2, <2>4 DEF Discovery!BlobCandidates
  <2>6. b = s - first /\ s \in 1..Slots /\ Slots \in Nat
    BY <2>1, <2>2, <2>3, TablesLemma
  <2>7. b \in 1..Slots
    BY <2>5, <2>6
  <2>. QED
    BY <2>7, TablesLemma
<1>. QED
  BY <1>1, <1>2 DEF Discovery!DescriptorCandidates

LEMMA ScanDescriptorsStep == DiscoveryState /\ Discovery!ScanDescriptors => DiscoveryState'
<1>. SUFFICES ASSUME DiscoveryState, Discovery!ScanDescriptors PROVE DiscoveryState'
  OBVIOUS
<1>1. /\ DiscoveryPlace /\ pc = "table" /\ certified /\ pc' = "descriptor"
      /\ UNCHANGED <<table, row, candidates, stable, result>> /\ Discovery!Unaffected
  BY DEF Discovery!ScanDescriptors, DiscoveryState
<1>2. DiscoveryPlace'
  BY <1>1 DEF DiscoveryPlace, Discovery!Tables, Discovery!Slot
<1>. QED
  BY <1>1, <1>2, OtherwiseLemma

LEMMA FindNoDescriptorStep == DiscoveryState /\ Discovery!FindNoDescriptor => DiscoveryState'
<1>1. {} \subseteq Discovery!Slot /\ \A b \in {} : Placed(table, b)
  OBVIOUS
<1>. QED
  BY <1>1, ConcludeLemma DEF Discovery!FindNoDescriptor

\* CollectDescriptorCandidates finds slots, and the first row is next.
LEMMA ReadDescriptorStep == DiscoveryState /\ Discovery!ReadDescriptor => DiscoveryState'
<1>. SUFFICES ASSUME DiscoveryState, Discovery!ReadDescriptor PROVE DiscoveryState'
  OBVIOUS
<1>1. /\ DiscoveryPlace /\ pc = "descriptor" /\ pc' = "reread" /\ row' = 1
      /\ UNCHANGED <<table, row, stable, result>> /\ Discovery!Unaffected
  BY DEF Discovery!ReadDescriptor, DiscoveryState, DiscoveryPlace
<1>2. candidates' \subseteq Discovery!Slot
  <2>1. candidates' = IF Discovery!ValidExtent(table, Head(match))
                      THEN Discovery!DescriptorCandidates(table, Head(match)) ELSE {}
    BY DEF Discovery!ReadDescriptor
  <2>2. table \in Discovery!Tables
    BY <1>1 DEF DiscoveryPlace
  <2>. QED
    BY <2>1, <2>2, DescriptorLemma
<1>3. row' \in 1..Len(Profile[table'].rows) /\ RowsReread'
  <2>1. table' = table /\ table \in Discovery!Tables
    BY <1>1 DEF DiscoveryPlace
  <2>2. 1..(row' - 1) = {}
    BY <1>1
  <2>. QED
    BY <1>1, <2>1, <2>2, TablesLemma DEF RowsReread
<1>4. DiscoveryPlace'
  BY <1>1, <1>2, <1>3 DEF DiscoveryPlace, Discovery!Tables, Discovery!Slot
<1>. QED
  BY <1>1, <1>4, OtherwiseLemma

\* A candidate that passes had all its rows at this moment, unless disturbed.
LEMMA RereadStep == DiscoveryState /\ Discovery!Reread => DiscoveryState'
<1>. SUFFICES ASSUME DiscoveryState, Discovery!Reread PROVE DiscoveryState'
  OBVIOUS
<1> DEFINE c == Discovery!Candidate
           length == Len(Profile[table].rows)
           holds == Discovery!Holds(table, c, row)
           good == holds /\ alloc[c + Profile[table].rows[row]] # 0
           ends == ~good \/ row = length
<1>1. /\ DiscoveryPlace /\ pc = "reread" /\ pc' = pc /\ candidates # {}
      /\ UNCHANGED <<table, result, mem, existed, torn>> /\ Discovery!Unaffected
      /\ Recorded /\ \A b \in stable : Placed(table, b)
  BY DEF Discovery!Reread, DiscoveryState, Discovery!Unaffected, Discovery!game
<1>2. /\ row' = IF ends THEN 1 ELSE row + 1
      /\ candidates' = IF ends THEN candidates \ {c} ELSE candidates
      /\ stable' = IF good /\ ends THEN stable \cup {c} ELSE stable
  BY Zenon DEF Discovery!Reread, Discovery!P
<1>3. /\ table \in Discovery!Tables /\ row \in 1..length /\ length \in Nat /\ length >= 3
      /\ candidates \subseteq Discovery!Slot /\ stable \subseteq Discovery!Slot
      /\ RowsReread
  BY <1>1, TablesLemma DEF DiscoveryPlace
<1>4. c \in candidates /\ c \in Discovery!Slot
  BY <1>1, <1>3, CandidateLemma
<1>5. ASSUME good, ends PROVE Placed(table, c)
  <2>1. row = length /\ holds
    BY <1>5
  <2>2. CASE <<table, c>> \in torn
    BY <2>2 DEF Placed
  <2>3. CASE \A k \in 1..(row - 1) : Discovery!Holds(table, c, k)
    <3>1. \A k \in 1..length : Discovery!Holds(table, c, k)
      <4> HIDE DEF c, length, good, ends
      <4>1. \A k \in 1..length : k \in 1..(row - 1) \/ k = row
        BY <1>3, <2>1
      <4>. QED
        BY <4>1, <2>1, <2>3
    <3>2. DOMAIN Profile[table].rows = 1..length
      BY <1>3, TablesLemma
    <3>3. Discovery!AllRowsMatch(table, c)
      BY <3>1, <3>2 DEF Discovery!AllRowsMatch
    <3>. QED
      BY <1>1, <1>3, <1>4, <3>3 DEF Recorded, Placed
  <2>. QED
    BY <1>3, <2>2, <2>3 DEF RowsReread
<1>6. ASSUME ~ends PROVE RowsReread' /\ row' \in 1..Len(Profile[table'].rows)
  <2>1. /\ holds /\ row # length /\ row' = row + 1 /\ candidates' = candidates
    BY <1>2, <1>6
  <2>2. row' \in 1..Len(Profile[table'].rows)
    BY <1>1, <1>3, <2>1
  <2>3. Discovery!Candidate' = c
    BY <2>1 DEF Discovery!Candidate
  <2>4. CASE <<table, c>> \in torn
    BY <1>1, <2>2, <2>3, <2>4 DEF RowsReread
  <2>5. CASE \A k \in 1..(row - 1) : Discovery!Holds(table, c, k)
    <3>1. \A k \in 1..(row' - 1) : Discovery!Holds(table, c, k)
      <4> HIDE DEF c, length, good, ends
      <4>1. \A k \in 1..(row' - 1) : k \in 1..(row - 1) \/ k = row
        BY <1>3, <2>1
      <4>. QED
        BY <4>1, <2>1, <2>5
    <3>2. \A k \in 1..(row' - 1) : Discovery!Holds(table, Discovery!Candidate, k)'
      BY <1>1, <2>3, <3>1 DEF Discovery!Holds
    <3>. QED
      BY <2>2, <3>2 DEF RowsReread
  <2>. QED
    BY <1>3, <2>2, <2>4, <2>5 DEF RowsReread
<1>7. ASSUME ends PROVE RowsReread' /\ row' \in 1..Len(Profile[table'].rows)
  <2>1. row' = 1
    BY <1>2, <1>7
  <2>2. 1..(row' - 1) = {}
    BY <2>1
  <2>. QED
    BY <1>1, <1>3, <2>1, <2>2 DEF RowsReread
<1> HIDE DEF good, ends, length, holds
<1>8. \A b \in stable' : Placed(table, b)
  BY <1>1, <1>2, <1>5
<1>9. DiscoveryPlace'
  <2>1. candidates' \subseteq Discovery!Slot /\ stable' \subseteq Discovery!Slot
    BY <1>2, <1>3, <1>4
  <2>2. candidates' = {} => row' = 1
    BY <1>1, <1>2
  <2>3. row' \in Nat
    BY <1>2, <1>3
  <2>. QED
    BY <1>1, <1>3, <1>6, <1>7, <2>1, <2>2, <2>3
    DEF DiscoveryPlace, Discovery!Tables, Discovery!Slot
<1>10. \A b \in stable' : <<table', b>> \in existed' \cup torn'
  BY <1>1, <1>8 DEF Placed
<1>11. Recorded'
  BY <1>1, RecordedStays
<1>. QED
  BY <1>1, <1>9, <1>10, <1>11 DEF DiscoveryState, Placed, Discovery!Tables

LEMMA EndRereadStep == DiscoveryState /\ Discovery!EndReread => DiscoveryState'
<1>. SUFFICES ASSUME DiscoveryState, Discovery!EndReread PROVE DiscoveryState'
  OBVIOUS
<1>1. /\ DiscoveryPlace /\ \A b \in stable : Placed(table, b)
      /\ pc = "reread" /\ candidates = {} /\ row = 1 /\ Discovery!Unaffected
  BY DEF Discovery!EndReread, DiscoveryState, DiscoveryPlace
<1>2. CASE Discovery!Conclude(stable, problem)
  BY <1>1, <1>2, ConcludeLemma DEF DiscoveryPlace
<1>3. CASE pc' = "descriptor" /\ UNCHANGED <<table, row, candidates, stable, result>>
  <2>1. DiscoveryPlace'
    BY <1>1, <1>3 DEF DiscoveryPlace, Discovery!Tables, Discovery!Slot
  <2>. QED
    BY <1>1, <1>3, <2>1, OtherwiseLemma
<1>. QED
  BY <1>2, <1>3 DEF Discovery!EndReread

LEMMA ScanRowStep == DiscoveryState /\ Discovery!ScanRow => DiscoveryState'
<1>. SUFFICES ASSUME DiscoveryState, Discovery!ScanRow PROVE DiscoveryState'
  OBVIOUS
<1>1. /\ DiscoveryPlace /\ pc = "table" /\ ~certified /\ pc' = pc /\ row' = row + 1
      /\ UNCHANGED <<table, candidates, stable, result, certified>> /\ Discovery!Unaffected
  BY DEF Discovery!ScanRow, DiscoveryState, Discovery!Unaffected
<1>2. DiscoveryPlace'
  BY <1>1 DEF DiscoveryPlace, Discovery!Tables, Discovery!Slot
<1>. QED
  BY <1>1, <1>2, OtherwiseLemma

\* A layout lies in an allocation, so its base is a slot.
LEMMA FindLayoutsStep == DiscoveryState /\ Discovery!FindLayouts => DiscoveryState'
<1>. SUFFICES ASSUME DiscoveryState, Discovery!FindLayouts PROVE DiscoveryState'
  OBVIOUS
<1>1. DiscoveryPlace /\ pc = "table" /\ Discovery!Unaffected
  BY DEF Discovery!FindLayouts, DiscoveryState
<1>2. CASE Discovery!Conclude({}, Discovery!NoProblem)
  <2>1. {} \subseteq Discovery!Slot /\ \A b \in {} : Placed(table, b)
    OBVIOUS
  <2>. QED
    BY <1>1, <1>2, <2>1, ConcludeLemma
<1>3. CASE ~Discovery!Conclude({}, Discovery!NoProblem)
  <2>1. /\ pc' = "reread" /\ row' = 1 /\ UNCHANGED <<table, stable, result>>
        /\ \A b \in candidates' : Discovery!AllocationExists(b, Discovery!P.capacity)
    BY <1>3 DEF Discovery!FindLayouts
  <2>2. candidates' \subseteq Discovery!Slot
    BY <2>1 DEF Discovery!AllocationExists
  <2>3. table' = table /\ table \in Discovery!Tables /\ 1..(row' - 1) = {}
    BY <1>1, <2>1 DEF DiscoveryPlace
  <2>4. row' \in 1..Len(Profile[table'].rows) /\ RowsReread'
    BY <2>1, <2>3, TablesLemma DEF RowsReread
  <2>5. DiscoveryPlace'
    BY <1>1, <2>1, <2>2, <2>4 DEF DiscoveryPlace, Discovery!Tables, Discovery!Slot
  <2>. QED
    BY <1>1, <2>1, <2>5, OtherwiseLemma
<1>. QED
  BY <1>2, <1>3

\* A relationship that fails takes a table's place away; none gets one.
LEMMA RelationshipsStep == DiscoveryState /\ Discovery!CheckRelationships => DiscoveryState'
<1>. SUFFICES ASSUME DiscoveryState, Discovery!CheckRelationships PROVE DiscoveryState'
  OBVIOUS
<1>1. /\ DiscoveryPlace /\ Recorded /\ pc = "relationships" /\ stable = {}
      /\ result \in [Discovery!Tables -> DiscoveryResult]
      /\ \A t \in Discovery!Tables : result[t].state = "resolved" => Placed(t, result[t].base)
      /\ UNCHANGED <<row, candidates, stable, mem, existed, torn>>
  BY DEF Discovery!CheckRelationships, DiscoveryState, DiscoveryPlace, Discovery!local,
         Discovery!Unaffected, Discovery!game
<1>2. /\ pc' \in {"relationships", "done"}
      /\ table' = IF table < Len(Profile) THEN table + 1 ELSE table
      /\ \/ result' = result
         \/ result' = [result EXCEPT ![table].state = "relationship_failed"]
  BY Zenon DEF Discovery!CheckRelationships
<1>3. table' \in Discovery!Tables
  BY <1>1, <1>2, TablesLemma DEF DiscoveryPlace
<1>4. DiscoveryPlace'
  BY <1>1, <1>2, <1>3 DEF DiscoveryPlace, Discovery!Tables, Discovery!Slot
<1>5. Recorded'
  BY <1>1, RecordedStays
<1>6. /\ result' \in [Discovery!Tables -> DiscoveryResult]
      /\ \A t \in Discovery!Tables :
           result'[t].state = "resolved" => result'[t] = result[t]
  <2>1. CASE result' = result
    BY <1>1, <2>1
  <2>2. CASE result' = [result EXCEPT ![table].state = "relationship_failed"]
    BY <1>1, <2>2 DEF DiscoveryPlace, DiscoveryResult, Undecided
  <2>. QED
    BY <1>2, <2>1, <2>2
<1>7. \A t \in Discovery!Tables :
        result'[t].state = "resolved" => <<t, result'[t].base>> \in existed' \cup torn'
  BY <1>1, <1>6 DEF Placed
<1>. QED
  BY <1>1, <1>4, <1>5, <1>6, <1>7 DEF DiscoveryState, Discovery!Tables, Placed

LEMMA TimeOutStep == DiscoveryState /\ Discovery!TimeOut => DiscoveryState'
<1>. SUFFICES ASSUME DiscoveryState, Discovery!TimeOut PROVE DiscoveryState'
  OBVIOUS
<1>1. /\ DiscoveryPlace /\ Recorded /\ \A b \in stable : Placed(table, b)
      /\ pc' = "OPERATION_TIMEOUT"
      /\ result' = [t \in Discovery!Tables |-> [state |-> "missing", base |-> 0]]
      /\ UNCHANGED <<table, row, candidates, stable, mem, existed, torn>>
  BY DEF Discovery!TimeOut, Discovery!TimedOut, Discovery!Unresolved, DiscoveryState,
         Discovery!local, Discovery!Unaffected, Discovery!game
<1>2. DiscoveryPlace'
  BY <1>1 DEF DiscoveryPlace, Discovery!Tables, Discovery!Slot
<1>3. Recorded'
  BY <1>1, RecordedStays
<1>4. /\ result' \in [Discovery!Tables -> DiscoveryResult]
      /\ \A t \in Discovery!Tables : result'[t].state # "resolved"
  BY <1>1 DEF DiscoveryResult, Undecided
<1>. QED
  BY <1>1, <1>2, <1>3, <1>4 DEF DiscoveryState, Discovery!Tables, Placed

\* What the game stores is recorded at once, and a reread it disturbs is marked.
LEMMA GameStoreStep == DiscoveryState /\ Discovery!GameStore => DiscoveryState'
<1>. SUFFICES ASSUME DiscoveryState, Discovery!GameStore PROVE DiscoveryState'
  OBVIOUS
<1>1. /\ DiscoveryPlace /\ \A b \in stable : Placed(table, b)
      /\ result \in [Discovery!Tables -> DiscoveryResult]
      /\ \A t \in Discovery!Tables : result[t].state = "resolved" => Placed(t, result[t].base)
      /\ UNCHANGED <<pc, certified, table, row, candidates, stable, result>>
  BY DEF Discovery!GameStore, DiscoveryState, Discovery!local
<1>2. /\ existed \subseteq existed' /\ torn \subseteq torn'
      /\ pc = "reread" /\ row > 1 => <<table, Discovery!Candidate>> \in torn'
  BY DEF Discovery!GameStore
<1>3. Recorded'
  <2>1. existed' = existed \cup {x \in Discovery!Tables \X Discovery!Slot :
                                    Discovery!AllRowsMatch(x[1], x[2])'}
    BY DEF Discovery!GameStore
  <2>2. ASSUME NEW t \in Discovery!Tables, NEW b \in Discovery!Slot,
               Discovery!AllRowsMatch(t, b)'
        PROVE  <<t, b>> \in existed'
    BY <2>1, <2>2
  <2>. QED
    BY <2>2 DEF Recorded, Discovery!Tables, Discovery!Slot
<1>4. pc = "reread" /\ candidates # {} => RowsReread'
  <2>1. SUFFICES ASSUME pc = "reread", candidates # {} PROVE RowsReread'
    OBVIOUS
  <2>2. Discovery!Candidate' = Discovery!Candidate
    BY <1>1 DEF Discovery!Candidate
  <2>3. row \in 1..Len(Profile[table].rows) /\ Len(Profile[table].rows) \in Nat
    BY <1>1, <2>1, TablesLemma DEF DiscoveryPlace
  <2>4. CASE row > 1
    BY <1>1, <1>2, <2>1, <2>2, <2>4 DEF RowsReread
  <2>5. CASE ~(row > 1)
    <3>1. 1..(row' - 1) = {}
      BY <1>1, <2>3, <2>5
    <3>. QED
      BY <3>1 DEF RowsReread
  <2>. QED
    BY <2>4, <2>5
<1>5. DiscoveryPlace'
  BY <1>1, <1>4 DEF DiscoveryPlace, Discovery!Tables, Discovery!Slot
<1>. QED
  BY <1>1, <1>2, <1>3, <1>5 DEF DiscoveryState, Discovery!Tables, Placed

\* Everything the state of the discovery depends on stays.
LEMMA DiscoveryStays ==
  ASSUME DiscoveryState,
         UNCHANGED <<pc, certified, table, row, candidates, stable, result, mem, existed, torn>>
  PROVE  DiscoveryState'
<1>1. RowsReread => RowsReread'
  BY RowsStay
<1>2. Recorded => Recorded'
  BY RecordedStays
<1>. QED
  BY <1>1, <1>2 DEF DiscoveryState, DiscoveryPlace, Discovery!Tables, Discovery!Slot, Placed

LEMMA InitDiscovery == CommandsInit => DiscoveryInvariant
<1>1. SUFFICES ASSUME CommandsInit, which = "discovery" PROVE DiscoveryState
  BY DEF DiscoveryInvariant
<1>2. Discovery!Init
  BY <1>1 DEF CommandsInit
<1>3. /\ pc = "table" /\ table = 1 /\ row = 1 /\ candidates = {} /\ stable = {}
      /\ result = [t \in Discovery!Tables |-> [state |-> "missing", base |-> 0]]
      /\ existed = {x \in Discovery!Tables \X Discovery!Slot :
                      Discovery!AllRowsMatch(x[1], x[2])}
  BY <1>2 DEF Discovery!Init, Discovery!Unresolved
<1>4. DiscoveryPlace
  BY <1>3, TablesLemma DEF DiscoveryPlace
<1>5. Recorded
  BY <1>3 DEF Recorded
<1>6. /\ result \in [Discovery!Tables -> DiscoveryResult]
      /\ \A t \in Discovery!Tables : result[t].state # "resolved"
  BY <1>3 DEF DiscoveryResult, Undecided
<1>. QED
  BY <1>3, <1>4, <1>5, <1>6 DEF DiscoveryState

LEMMA NextDiscovery == DiscoveryInvariant /\ [CommandsNext]_commandVars => DiscoveryInvariant'
<1>1. CASE which # "discovery"
  BY <1>1 DEF DiscoveryInvariant, CommandsNext, ScanStep, PipeStep, commandVars
<1>2. ASSUME DiscoveryInvariant, which = "discovery", UNCHANGED commandVars
      PROVE  DiscoveryInvariant'
  <2>1. /\ DiscoveryState
        /\ UNCHANGED <<which, pc, certified, table, row, candidates, stable, result, mem, existed,
                       torn>>
    BY <1>2 DEF DiscoveryInvariant, commandVars, shared, discoveryOnly
  <2>. QED
    BY <2>1, DiscoveryStays DEF DiscoveryInvariant
<1>3. ASSUME DiscoveryInvariant, which = "discovery", CommandsNext PROVE DiscoveryInvariant'
  <2>1. Discovery!Next /\ DiscoveryState
    BY <1>3 DEF CommandsNext, ScanStep, PipeStep, DiscoveryInvariant
  <2>2. CASE Discovery!Deadline \/ Discovery!GameFree \/ Discovery!Ended
    <3>1. UNCHANGED <<pc, certified, table, row, candidates, stable, result, mem, existed, torn>>
      BY <2>2
      DEF Discovery!Deadline, Discovery!GameFree, Discovery!Ended, Discovery!vars,
          Discovery!local, Discovery!game
    <3>. QED
      BY <2>1, <3>1, DiscoveryStays DEF DiscoveryInvariant
  <2>. QED
    BY <2>1, <2>2, ScanDescriptorsStep, FindNoDescriptorStep, ReadDescriptorStep, RereadStep,
       EndRereadStep, ScanRowStep, FindLayoutsStep, RelationshipsStep, TimeOutStep,
       GameStoreStep
    DEF Discovery!Next, Discovery!Discover, DiscoveryInvariant
<1>. QED
  BY <1>1, <1>2, <1>3

\* For any tables, memory and descriptors, and whatever the game stores and
\* frees between the calls of DiscoverTables (frtk_discovery.cpp, lines 547 to
\* 903), a table reported as resolved has stood at its base with all its rows
\* at one moment of the discovery, or its second reading was disturbed.
THEOREM ResolvedTablesStood == CommandsSpec => []ResolvedTablesExisted
<1>1. DiscoveryInvariant => ResolvedTablesExisted
  BY DEF DiscoveryInvariant, DiscoveryState, Placed, ResolvedTablesExisted,
         Discovery!ResolvedTablesExisted
<1>. QED
  BY <1>1, InitDiscovery, NextDiscovery, PTL DEF CommandsSpec
-----------------------------------------------------------------------------
(* While the game changes nothing, a table is decided by what its search    *)
(* leads to: the bases behind the first descriptor that is accepted, or the *)
(* layouts that stand in memory.  The second reading loses none of them and *)
(* lets nothing else pass.                                                   *)

\* The slots a complete scan finds a fingerprint in.
Here(f) == {s \in Discovery!Slot : alloc[s] # 0 /\ mem[s].fp = f}

ScansExact ==
  /\ \A t \in Discovery!Tables :
       \A k \in DOMAIN Profile[t].fps : Profile[t].fps[k] \in DOMAIN scans
  /\ \A f \in DOMAIN scans :
       \/ scans[f] = Discovery!Unscanned
       \/ scans[f] = [complete |-> Discovery!Cardinality(Here(f)) <= MaxMatches,
                      matches |-> Here(f)]

\* Where the search for a table leads.
Leads(t) ==
  IF certified THEN IF Discovery!Kept(t) = <<>> THEN {}
                    ELSE Discovery!DescriptorCandidates(t, Discovery!Kept(t)[1])
  ELSE {b \in Discovery!Slot : /\ Discovery!AllRowsMatch(t, b)
                               /\ Discovery!AllocationExists(b, Profile[t].capacity)}

\* A row of a table at a base is read again and passes.
Passes(t, b, k) == Discovery!Holds(t, b, k) /\ alloc[b + Profile[t].rows[k]] # 0
RowsOf(t) == 1..Len(Profile[t].rows)

AtTable ==
  /\ candidates = {} /\ stable = {}
  /\ ~certified => \A k \in RowsOf(table) : k < row =>
                     scans[Profile[table].fps[k]] # Discovery!Unscanned

AtDescriptor ==
  /\ candidates = {} /\ stable = {} /\ certified
  /\ match = Discovery!Kept(table) /\ match # <<>>

Rereading ==
  /\ certified => Len(match) = 1
  /\ stable \subseteq Leads(table) /\ Leads(table) \subseteq stable \cup candidates
  /\ \A b \in candidates : (\A k \in RowsOf(table) : Passes(table, b, k)) => b \in Leads(table)
  /\ candidates # {} => \A k \in 1..(row - 1) : Passes(table, Discovery!Candidate, k)

\* A table has a base exactly when its search leads to one and only one.
Located(t) ==
  /\ result[t].base # 0 => Leads(t) = {result[t].base}
  /\ (certified \/ Discovery!WithinCap) /\ result[t].base = 0 =>
       \A b \in Discovery!Slot : Leads(t) # {b}
Decided(t) == result[t].state = "resolved" <=> result[t].base # 0

\* It keeps its state when its relationships hold.
Linked(t) ==
  \A l \in Profile[t].links : /\ result[l.target].base # 0
                              /\ Discovery!LinkHolds(t, result[t].base, l)
Checked(t) == result[t].state = "resolved" <=> result[t].base # 0 /\ Linked(t)

Exact ==
  /\ ScansExact
  /\ pc = "table" => AtTable
  /\ pc = "descriptor" => AtDescriptor
  /\ pc = "reread" => Rereading
  /\ pc \in {"table", "descriptor", "reread"} =>
       \A t \in Discovery!Tables : t < table => Located(t) /\ Decided(t)
  /\ pc = "relationships" =>
       \A t \in Discovery!Tables :
         Located(t) /\ (t < table => Checked(t)) /\ (t >= table => Decided(t))
  /\ pc = "done" => \A t \in Discovery!Tables : Located(t) /\ Checked(t)

Descriptor == [table : Discovery!Tables, start : Nat, end : Nat]
ExactState ==
  /\ alloc \in [Discovery!Slot -> Nat] /\ desc \in Seq(Descriptor)
  /\ changes \in Nat /\ (changes = 0 => Exact)

ExactInvariant == which = "discovery" => ExactState

-----------------------------------------------------------------------------
LEMMA ProfileLemma ==
  ASSUME NEW t \in Discovery!Tables
  PROVE  /\ DOMAIN Profile[t].rows = RowsOf(t) /\ DOMAIN Profile[t].fps = RowsOf(t)
         /\ Profile[t].capacity \in Nat
         /\ \A k \in RowsOf(t) : /\ k \in Nat /\ Profile[t].rows[k] \in Nat
                                 /\ Profile[t].rows[k] < Profile[t].capacity
         /\ \A l \in Profile[t].links : l.target \in Discovery!Tables
         /\ {1, 2, 3} \subseteq RowsOf(t)
<1>1. /\ Profile[t].rows \in Seq(0..(Profile[t].capacity - 1)) /\ Len(Profile[t].rows) >= 3
      /\ DOMAIN Profile[t].fps = DOMAIN Profile[t].rows /\ Profile[t].capacity \in Nat
      /\ \A l \in Profile[t].links : l.target \in Discovery!Tables
  BY CommandsAssumption DEF Discovery!DiscoveryAssumption
<1>2. DOMAIN Profile[t].rows = RowsOf(t) /\ Len(Profile[t].rows) \in Nat
  BY <1>1 DEF RowsOf
<1>3. \A k \in RowsOf(t) : Profile[t].rows[k] \in 0..(Profile[t].capacity - 1)
  BY <1>1, <1>2
<1>4. \A k \in RowsOf(t) : /\ k \in Nat /\ Profile[t].rows[k] \in Nat
                           /\ Profile[t].rows[k] < Profile[t].capacity
  BY <1>1, <1>2, <1>3 DEF RowsOf
<1>5. {1, 2, 3} \subseteq RowsOf(t)
  BY <1>1, <1>2 DEF RowsOf
<1>. QED
  BY <1>1, <1>2, <1>4, <1>5

LEMMA WithinLemma ==
  ASSUME NEW b \in Nat, NEW o \in Nat, NEW size \in Nat, NEW n \in Nat,
         1 <= b, b + size - 1 <= n, o < size
  PROVE  b + o \in 1..n
OBVIOUS

LEMMA InsideLemma ==
  ASSUME NEW start \in Nat, NEW size \in Nat, NEW b \in Nat, NEW o \in Nat, NEW room \in Nat,
         start <= b, b + room <= start + size, o < room
  PROVE  b + o \in start..(start + size - 1)
OBVIOUS

\* An allocation that starts and ends in the slots lies in them.
LEMMA WithinSlots ==
  ASSUME NEW start \in Nat, NEW size \in Nat, NEW last \in Nat, NEW o,
         1 <= start, start + size - 1 \in 1..last, o \in start..(start + size - 1)
  PROVE  o \in 1..last
OBVIOUS

\* A table at b would lie in the memory of that size at first.
LiesIn(t, b, first, size) ==
  /\ b \in Nat /\ size \in Nat /\ first \in Discovery!Slot
  /\ first <= b /\ b + Profile[t].capacity <= first + size

\* The rows of a table in an allocation are in it.
LEMMA RowsInside ==
  ASSUME alloc \in [Discovery!Slot -> Nat], NEW t \in Discovery!Tables, NEW k \in RowsOf(t),
         NEW b, NEW first, NEW size, LiesIn(t, b, first, size),
         Discovery!AllocationExists(first, size)
  PROVE  /\ b + Profile[t].rows[k] \in Discovery!Slot
         /\ alloc[b + Profile[t].rows[k]] # 0
         /\ alloc[b + Profile[t].rows[k]] = alloc[first]
<1>1. /\ Profile[t].rows[k] \in Nat /\ Profile[t].rows[k] < Profile[t].capacity
      /\ Profile[t].capacity \in Nat
  BY ProfileLemma
<1>5. /\ b \in Nat /\ size \in Nat /\ first \in Discovery!Slot
      /\ first <= b /\ b + Profile[t].capacity <= first + size
  BY DEF LiesIn
<1>2. /\ first \in Nat /\ Slots \in Nat /\ Discovery!Slot = 1..Slots /\ 1 <= first
  BY <1>5, TablesLemma
<1>3. /\ first + size - 1 \in 1..Slots /\ alloc[first] # 0
      /\ \A s \in first..(first + size - 1) : alloc[s] = alloc[first]
  BY <1>2 DEF Discovery!AllocationExists
<1>4. b + Profile[t].rows[k] \in first..(first + size - 1)
  BY <1>1, <1>2, <1>5, InsideLemma
<1>6. alloc[b + Profile[t].rows[k]] = alloc[first]
  BY <1>3, <1>4, Zenon
<1>7. b + Profile[t].rows[k] \in 1..Slots
  BY <1>2, <1>3, <1>4, <1>5, WithinSlots
<1>. QED
  BY <1>2, <1>3, <1>6, <1>7, Zenon

\* The descriptor a scan ends at is one of those it accepts.
LEMMA KeptLemma ==
  ASSUME desc \in Seq(Descriptor), NEW t \in Discovery!Tables
  PROVE  /\ Discovery!Kept(t) = <<>> <=> Discovery!Accepted(t) = {}
         /\ Discovery!Accepted(t) # {} =>
              \E n \in Discovery!Accepted(t) :
                /\ Discovery!Kept(t) = <<desc[n]>> /\ Len(Discovery!Kept(t)) = 1
                /\ Discovery!Kept(t)[1] = desc[n]
                /\ desc[n].start \in Nat /\ desc[n].end \in Nat
                /\ Discovery!ValidExtent(t, desc[n])
<1> DEFINE A == Discovery!Accepted(t)
           first == CHOOSE n \in A : \A m \in A : n <= m
<1>1. A \subseteq DOMAIN desc /\ \A n \in A : Discovery!ValidExtent(t, desc[n])
  BY DEF Discovery!Accepted
<1>2. A \subseteq Nat
  BY <1>1
<1>3. Discovery!Kept(t) = IF A = {} THEN <<>> ELSE <<desc[first]>>
  BY Zenon DEF Discovery!Kept
<1>4. ASSUME A # {}
      PROVE  first \in A
  <2>1. \E n \in A : \A m \in A : n <= m
    <3> HIDE DEF A
    <3>. QED
      BY <1>2, <1>4, LeastLemma
  <2>. QED
    BY <2>1
<1> HIDE DEF first
<1>5. ASSUME A # {}
      PROVE  /\ Discovery!Kept(t) = <<desc[first]>> /\ Len(Discovery!Kept(t)) = 1
             /\ Discovery!Kept(t)[1] = desc[first]
             /\ desc[first].start \in Nat /\ desc[first].end \in Nat
  <2>1. desc[first].start \in Nat /\ desc[first].end \in Nat
    <3>1. first \in DOMAIN desc
      BY <1>1, <1>4, <1>5
    <3>2. desc[first] \in Descriptor
      BY <3>1
    <3>. QED
      BY <3>2 DEF Descriptor
  <2>2. Discovery!Kept(t) = <<desc[first]>>
    BY <1>3, <1>5
  <2>. QED
    BY <2>1, <2>2
<1>6. Discovery!Kept(t) = <<>> <=> A = {}
  BY <1>3, <1>5
<1> HIDE DEF A
<1>7. A # {} =>
        \E n \in A :
          /\ Discovery!Kept(t) = <<desc[n]>> /\ Len(Discovery!Kept(t)) = 1
          /\ Discovery!Kept(t)[1] = desc[n]
          /\ desc[n].start \in Nat /\ desc[n].end \in Nat
          /\ Discovery!ValidExtent(t, desc[n])
  BY <1>1, <1>4, <1>5
<1>. QED
  BY <1>6, <1>7 DEF A

\* Where a search leads, all the rows pass a second reading.
LEMMA LeadsLemma ==
  ASSUME ExactState, NEW t \in Discovery!Tables, NEW b \in Leads(t)
  PROVE  /\ b \in Discovery!Slot /\ Discovery!AllRowsMatch(t, b)
         /\ \A k \in RowsOf(t) : Passes(t, b, k)
<1>1. alloc \in [Discovery!Slot -> Nat] /\ desc \in Seq(Descriptor)
  BY DEF ExactState
<1>2. /\ Profile[t].capacity \in Nat /\ DOMAIN Profile[t].rows = RowsOf(t)
      /\ \A s \in Discovery!Slot : s \in Nat
  BY ProfileLemma, TablesLemma
<1>3. CASE ~certified
  <2>1. /\ b \in Discovery!Slot /\ Discovery!AllRowsMatch(t, b)
        /\ Discovery!AllocationExists(b, Profile[t].capacity)
    BY <1>3 DEF Leads
  <2>2. ASSUME NEW k \in RowsOf(t) PROVE alloc[b + Profile[t].rows[k]] # 0
    <3>1. PICK size : size = Profile[t].capacity
      OBVIOUS
    <3>2. /\ b \in Discovery!Slot /\ Discovery!AllocationExists(b, size)
          /\ b \in Nat /\ size \in Nat
      BY <1>2, <2>1, <3>1
    <3>3. LiesIn(t, b, b, size)
      BY <1>2, <3>1, <3>2 DEF LiesIn
    <3>. QED
      BY <1>1, <3>2, <3>3, RowsInside
  <2>. QED
    BY <1>2, <2>1, <2>2 DEF Passes, Discovery!AllRowsMatch
<1>4. CASE certified
  <2>1. Discovery!Kept(t) # <<>> /\ b \in Discovery!DescriptorCandidates(t, Discovery!Kept(t)[1])
    BY <1>4 DEF Leads
  <2>2. PICK n \in Discovery!Accepted(t) :
          /\ Discovery!Kept(t)[1] = desc[n] /\ Discovery!ValidExtent(t, desc[n])
          /\ desc[n].start \in Nat /\ desc[n].end \in Nat
    BY <1>1, <2>1, KeptLemma
  <2> DEFINE d == desc[n]
  <2>3. /\ d.start \in Nat /\ d.end \in Nat /\ d.end > d.start
        /\ d.start \in Discovery!Slot
        /\ Discovery!AllocationExists(d.start, d.end - d.start)
        /\ Profile[t].indexed => d.end - d.start = Profile[t].capacity
    BY <2>2 DEF Discovery!ValidExtent, Discovery!AllocationExists
  <2>4. b \in Discovery!DescriptorCandidates(t, d)
    BY <2>1, <2>2
  <2> HIDE DEF d
  <2>5. /\ b \in Nat /\ d.start <= b
        /\ b + Profile[t].capacity <= d.start + (d.end - d.start)
        /\ Discovery!AllRowsMatch(t, b) /\ b \in Discovery!Slot
    <3>1. CASE Profile[t].indexed
      <4>1. b = d.start /\ Discovery!AllRowsMatch(t, b)
        BY <2>4, <3>1 DEF Discovery!DescriptorCandidates
      <4>. QED
        BY <1>2, <2>3, <3>1, <4>1
    <3>2. CASE ~Profile[t].indexed
      <4>1. b \in Discovery!BlobCandidates(t, d)
        BY <2>4, <3>2 DEF Discovery!DescriptorCandidates
      <4>2. /\ b >= d.start /\ b + Profile[t].capacity <= d.end
            /\ Discovery!AllRowsMatch(t, b)
            /\ \E s \in Discovery!FirstOffsets(t, d) : b = s - Profile[t].rows[1]
        BY <4>1 DEF Discovery!BlobCandidates
      <4>3. PICK s \in Discovery!FirstOffsets(t, d) : b = s - Profile[t].rows[1]
        BY <4>2
      <4>4. PICK first \in Nat : first = Profile[t].rows[1]
        BY TablesLemma
      <4>7. s \in Discovery!Slot
        BY DEF Discovery!FirstOffsets
      <4>8. s \in 1..Slots /\ Slots \in Nat
        BY <4>7, TablesLemma
      <4>9. d.start \in Nat /\ d.start >= 1 /\ b >= d.start
        BY <2>3, <4>2, TablesLemma
      <4>10. b = s - first
        BY <4>3, <4>4
      <4>5. b \in Nat /\ b >= 1 /\ b <= Slots
        BY <4>8, <4>9, <4>10
      <4>6. b \in Discovery!Slot
        BY <4>5, <4>8, TablesLemma
      <4>. QED
        BY <1>2, <2>3, <4>2, <4>5, <4>6
    <3>. QED
      BY <3>1, <3>2
  <2>6. PICK size \in Nat : size = d.end - d.start
    BY <2>3
  <2>7. ASSUME NEW k \in RowsOf(t) PROVE alloc[b + Profile[t].rows[k]] # 0
    <3>1. PICK first \in Discovery!Slot : first = d.start
      BY <2>3
    <3>2. Discovery!AllocationExists(first, size) /\ b \in Nat /\ size \in Nat
      BY <2>3, <2>5, <2>6, <3>1
    <3>3. LiesIn(t, b, first, size)
      BY <2>3, <2>5, <2>6, <3>1 DEF LiesIn
    <3>. QED
      BY <1>1, <3>2, <3>3, RowsInside
  <2>. QED
    BY <1>2, <2>5, <2>7 DEF Passes, Discovery!AllRowsMatch
<1>. QED
  BY <1>3, <1>4

\* While the game changes nothing, the searches lead where they did.
LEMMA WorldStays ==
  ASSUME UNCHANGED <<mem, alloc, desc, certified>>
  PROVE  /\ \A t \in Discovery!Tables, b \in Discovery!Slot : \A k \in RowsOf(t) :
              Passes(t, b, k)' <=> Passes(t, b, k)
         /\ \A t \in Discovery!Tables : Discovery!Kept(t)' = Discovery!Kept(t)
         /\ \A t \in Discovery!Tables : Leads(t)' = Leads(t)
         /\ \A f : Here(f)' = Here(f)
<1>1. mem' = mem /\ alloc' = alloc /\ desc' = desc /\ certified' = certified
  OBVIOUS
<1>2. ASSUME NEW t, NEW b PROVE Discovery!AllRowsMatch(t, b)' <=> Discovery!AllRowsMatch(t, b)
  BY <1>1 DEF Discovery!AllRowsMatch, Discovery!Holds
<1>3. ASSUME NEW b, NEW size
      PROVE  Discovery!AllocationExists(b, size)' <=> Discovery!AllocationExists(b, size)
  BY <1>1 DEF Discovery!AllocationExists, Discovery!Slot
<1>4. ASSUME NEW t PROVE Discovery!Kept(t)' = Discovery!Kept(t)
  <2>1. Discovery!Accepted(t)' = Discovery!Accepted(t)
    <3>1. \A n : Discovery!ValidExtent(t, desc[n])' <=> Discovery!ValidExtent(t, desc[n])
      BY <1>1, <1>3 DEF Discovery!ValidExtent
    <3>. QED
      BY <1>1, <3>1 DEF Discovery!Accepted
  <2>. QED
    BY <1>1, <2>1 DEF Discovery!Kept
<1>5. ASSUME NEW t PROVE Leads(t)' = Leads(t)
  <2>1. CASE ~certified
    BY <1>1, <1>2, <1>3, <2>1 DEF Leads, Discovery!Slot
  <2>2. CASE certified
    <3>1. Leads(t)' = IF Discovery!Kept(t)' = <<>> THEN {}
                      ELSE Discovery!DescriptorCandidates(t, Discovery!Kept(t)[1])'
      BY <1>1, <2>2 DEF Leads
    <3>2. Discovery!DescriptorCandidates(t, Discovery!Kept(t)[1])'
            = Discovery!DescriptorCandidates(t, Discovery!Kept(t)[1])
      BY <1>1, <1>2, <1>4 DEF Discovery!DescriptorCandidates, Discovery!BlobCandidates,
         Discovery!FirstOffsets, Discovery!Slot
    <3>. QED
      BY <1>4, <2>2, <3>1, <3>2 DEF Leads
  <2>. QED
    BY <2>1, <2>2
<1>6. ASSUME NEW f PROVE Here(f)' = Here(f)
  BY <1>1 DEF Here, Discovery!Slot
<1>7. ASSUME NEW t, NEW b, NEW k PROVE Passes(t, b, k)' <=> Passes(t, b, k)
  BY <1>1 DEF Passes, Discovery!Holds, Discovery!Slot
<1>. QED
  BY <1>4, <1>5, <1>6, <1>7

\* A verdict names the one base that was found, and else none.
LEMMA OneBaseLemma ==
  ASSUME NEW chosen, chosen \subseteq Discovery!Slot, NEW wrong
  PROVE  LET v == Discovery!Verdict(chosen, wrong)
         IN  /\ v.state = "resolved" <=> v.base # 0
             /\ v.base # 0 => chosen = {v.base}
             /\ v.base = 0 => \A b \in Discovery!Slot : chosen # {b}
<1>1. IsFiniteSet(chosen)
  <2>1. IsFiniteSet(1..Slots)
    BY FS_Interval, TablesLemma
  <2>. QED
    BY <2>1, FS_Subset, TablesLemma
<1>2. Discovery!Cardinality(chosen) = 1 <=> \E b : chosen = {b}
  BY <1>1, DiscoveryCardinality, FS_Singleton
<1>3. CASE \E b : chosen = {b}
  <2>1. PICK b : chosen = {b}
    BY <1>3
  <2>2. b \in Discovery!Slot /\ b # 0
    BY <2>1, TablesLemma
  <2>3. (CHOOSE c \in chosen : TRUE) = b
    BY <2>1
  <2>4. Discovery!Verdict(chosen, wrong) = [state |-> "resolved", base |-> b]
    BY <1>2, <1>3, <2>3 DEF Discovery!Verdict
  <2>. QED
    BY <2>1, <2>2, <2>4
<1>4. CASE ~ \E b : chosen = {b}
  <2>1. PICK s \in Undecided : Discovery!Verdict(chosen, wrong) = [state |-> s, base |-> 0]
    BY <1>2, <1>4, Zenon DEF Discovery!Verdict, Undecided
  <2>2. s # "resolved"
    BY DEF Undecided
  <2>. QED
    BY <1>4, <2>1, <2>2
<1>. QED
  BY <1>3, <1>4

\* A table stays located as long as its base does.
LEMMA LocatedStays ==
  ASSUME UNCHANGED <<mem, alloc, desc, certified>>, DOMAIN scans' = DOMAIN scans,
         NEW t \in Discovery!Tables,
         Located(t), result'[t].base = result[t].base
  PROVE  Located(t)'
<1>1. /\ Leads(t)' = Leads(t) /\ certified' = certified /\ mem' = mem /\ alloc' = alloc
  BY WorldStays
<1>2. Discovery!WithinCap' <=> Discovery!WithinCap
  BY <1>1 DEF Discovery!WithinCap, Discovery!Slot
<1>. QED
  BY <1>1, <1>2 DEF Located, Discovery!Slot

LEMMA ScansStay ==
  ASSUME ScansExact, UNCHANGED <<mem, alloc, desc, certified, scans>>
  PROVE  ScansExact'
BY WorldStays DEF ScansExact, Discovery!Tables, Discovery!Unscanned

\* A table is decided by where its search leads, or by nothing when a scan for
\* its rows was cut off.
LEMMA ConcludeExactly ==
  ASSUME ExactState, DiscoveryState, changes = 0, NEW chosen, NEW wrong,
         pc \in {"table", "descriptor", "reread"},
         chosen = Leads(table) \/ (chosen = {} /\ ~certified /\ ~Discovery!WithinCap),
         Discovery!Conclude(chosen, wrong), Discovery!Unaffected
  PROVE  ExactState'
<1>1. /\ table \in Discovery!Tables /\ table \in Nat /\ result \in [Discovery!Tables -> DiscoveryResult]
      /\ Exact /\ ScansExact
      /\ \A t \in Discovery!Tables : t < table => Located(t) /\ Decided(t)
  BY TablesLemma DEF ExactState, Exact, DiscoveryState, DiscoveryPlace
<1>2. /\ row' = 1 /\ candidates' = {} /\ stable' = {} /\ UNCHANGED scans
      /\ table' = IF table < Len(Profile) THEN table + 1 ELSE 1
      /\ pc' = IF table < Len(Profile) THEN "table" ELSE "relationships"
      /\ result' = [result EXCEPT ![table] = Discovery!Verdict(chosen, wrong)]
  BY DEF Discovery!Conclude
<1>3. UNCHANGED <<mem, alloc, desc, certified, changes>>
  BY DEF Discovery!Unaffected, Discovery!game
<1>4. chosen \subseteq Discovery!Slot
  BY <1>1, LeadsLemma
<1>5. PICK u \in Discovery!Tables : u = table
  BY <1>1
<1>6. Located(u)' /\ Decided(u)'
  <2>1. result'[u] = Discovery!Verdict(chosen, wrong)
    BY <1>1, <1>2, <1>5
  <2>2. /\ result'[u].state = "resolved" <=> result'[u].base # 0
        /\ result'[u].base # 0 => chosen = {result'[u].base}
        /\ result'[u].base = 0 => \A b \in Discovery!Slot : chosen # {b}
    BY <1>4, <2>1, OneBaseLemma
  <2>3. Leads(u)' = Leads(u) /\ (Discovery!WithinCap' <=> Discovery!WithinCap)
    <3>1. UNCHANGED <<mem, alloc, desc, certified>>
      BY <1>3
    <3>. QED
      BY <1>2, <1>3, <3>1, WorldStays DEF Discovery!WithinCap, Discovery!Slot
  <2>. QED
    BY <1>2, <1>3, <1>5, <2>2, <2>3 DEF Located, Decided, Discovery!Slot
<1>7. ASSUME NEW t \in Discovery!Tables, t < table
      PROVE  Located(t)' /\ Decided(t)'
  <2>1. result'[t] = result[t]
    BY <1>1, <1>2, <1>7, TablesLemma
  <2>2. Located(t)'
    BY <1>1, <1>2, <1>3, <1>7, <2>1, LocatedStays
  <2>. QED
    BY <1>1, <1>7, <2>1, <2>2 DEF Decided
<1>8. ScansExact'
  BY <1>1, <1>2, <1>3, ScansStay
<1>9. Exact'
  <2>1. CASE table < Len(Profile)
    <3>1. pc' = "table" /\ table' = table + 1
      BY <1>2, <2>1
    <3>2. ASSUME NEW t \in Discovery!Tables, t < table'
          PROVE  Located(t)' /\ Decided(t)'
      <4>1. t < table \/ t = u
        BY <1>1, <1>5, <3>1, <3>2, TablesLemma
      <4>. QED
        BY <1>6, <1>7, <4>1
    <3>3. \A k \in RowsOf(table') : ~(k < row')
      BY <1>2 DEF RowsOf
    <3>. QED
      BY <1>2, <1>8, <3>1, <3>2, <3>3 DEF Exact, AtTable, Discovery!Tables, RowsOf
  <2>2. CASE ~(table < Len(Profile))
    <3>1. pc' = "relationships" /\ table' = 1
      BY <1>2, <2>2
    <3>2. ASSUME NEW t \in Discovery!Tables
          PROVE  Located(t)' /\ Decided(t)' /\ ~(t < table')
      <4>1. (t < table \/ t = u) /\ ~(t < table')
        BY <1>1, <1>5, <2>2, <3>1, TablesLemma
      <4>. QED
        BY <1>6, <1>7, <4>1
    <3>. QED
      BY <1>8, <3>1, <3>2 DEF Exact, Discovery!Tables
  <2>. QED
    BY <2>1, <2>2
<1>. QED
  BY <1>3, <1>9 DEF ExactState, Discovery!Slot, Descriptor, Discovery!Tables

\* The steps of the search for a table that do not decide it.
LEMMA SearchGoesOn ==
  ASSUME ExactState, changes = 0, UNCHANGED <<table, result>>, Discovery!Unaffected,
         pc \in {"table", "descriptor", "reread"}, pc' \in {"table", "descriptor", "reread"},
         ScansExact', DOMAIN scans' = DOMAIN scans,
         (pc = "table" => AtTable)', (pc = "descriptor" => AtDescriptor)',
         (pc = "reread" => Rereading)'
  PROVE  ExactState'
<1>1. /\ Exact /\ UNCHANGED <<mem, alloc, desc, certified, changes>>
  BY DEF ExactState, Discovery!Unaffected, Discovery!game
<1>2. ASSUME NEW t \in Discovery!Tables, t < table PROVE Located(t)' /\ Decided(t)'
  <2>1. Located(t) /\ Decided(t) /\ UNCHANGED <<mem, alloc, desc, certified>>
    BY <1>1, <1>2 DEF Exact
  <2>2. Located(t)'
    BY <2>1, LocatedStays
  <2>. QED
    BY <2>1, <2>2 DEF Decided
<1>3. Exact'
  BY <1>2 DEF Exact, Discovery!Tables
<1>. QED
  BY <1>1, <1>3 DEF ExactState, Discovery!Slot, Descriptor, Discovery!Tables

LEMMA ScansUntouched ==
  ASSUME ExactState, changes = 0, Discovery!Unaffected, UNCHANGED scans
  PROVE  ScansExact'
<1>1. ScansExact /\ UNCHANGED <<mem, alloc, desc, certified, scans>>
  BY DEF ExactState, Exact, Discovery!Unaffected, Discovery!game
<1>. QED
  BY <1>1, ScansStay

LEMMA ScanDescriptorsExactly ==
  ExactState /\ DiscoveryState /\ changes = 0 /\ Discovery!ScanDescriptors => ExactState'
<1>1. SUFFICES ASSUME ExactState, DiscoveryState, changes = 0, Discovery!ScanDescriptors
               PROVE  ExactState'
  OBVIOUS
<1>2. /\ pc = "table" /\ pc' = "descriptor" /\ certified
      /\ Discovery!Kept(table) # <<>> /\ match' = Discovery!Kept(table)
      /\ UNCHANGED <<table, result, scans, candidates, stable>> /\ Discovery!Unaffected
      /\ table \in Discovery!Tables
  BY <1>1 DEF Discovery!ScanDescriptors, DiscoveryState, DiscoveryPlace
<1>3. AtTable /\ UNCHANGED <<mem, alloc, desc, certified>>
  BY <1>1, <1>2 DEF ExactState, Exact, Discovery!Unaffected, Discovery!game
<1>4. PICK u \in Discovery!Tables : u = table
  BY <1>2
<1>5. AtDescriptor'
  <2>1. Discovery!Kept(u)' = Discovery!Kept(u)
    BY <1>3, WorldStays
  <2>. QED
    BY <1>2, <1>3, <1>4, <2>1 DEF AtDescriptor, AtTable
<1>6. ScansExact'
  BY <1>1, <1>2, ScansUntouched
<1>. QED
  BY <1>1, <1>2, <1>5, <1>6, SearchGoesOn

LEMMA FindNoDescriptorExactly ==
  ExactState /\ DiscoveryState /\ changes = 0 /\ Discovery!FindNoDescriptor => ExactState'
<1>1. SUFFICES ASSUME ExactState, DiscoveryState, changes = 0, Discovery!FindNoDescriptor
               PROVE  ExactState'
  OBVIOUS
<1>2. /\ pc = "table" /\ certified /\ Discovery!Kept(table) = <<>>
      /\ Discovery!Conclude({}, problem) /\ Discovery!Unaffected
  BY <1>1 DEF Discovery!FindNoDescriptor
<1>3. {} = Leads(table) /\ pc \in {"table", "descriptor", "reread"}
  BY <1>2 DEF Leads
<1>4. ASSUME NEW chosen, NEW wrong, chosen = Leads(table), Discovery!Conclude(chosen, wrong)
      PROVE  ExactState'
  BY <1>1, <1>2, <1>3, <1>4, ConcludeExactly
<1>. QED
  BY <1>2, <1>3, <1>4

LEMMA ReadDescriptorExactly ==
  ExactState /\ DiscoveryState /\ changes = 0 /\ Discovery!ReadDescriptor => ExactState'
<1>1. SUFFICES ASSUME ExactState, DiscoveryState, changes = 0, Discovery!ReadDescriptor
               PROVE  ExactState'
  OBVIOUS
<1>2. /\ pc = "descriptor" /\ pc' = "reread" /\ UNCHANGED <<table, scans, row, match, stable, result>>
      /\ Discovery!Unaffected /\ table \in Discovery!Tables /\ row = 1
      /\ desc \in Seq(Descriptor)
      /\ candidates' = IF Discovery!ValidExtent(table, Head(match))
                       THEN Discovery!DescriptorCandidates(table, Head(match)) ELSE {}
  BY <1>1 DEF Discovery!ReadDescriptor, DiscoveryState, DiscoveryPlace, ExactState
<1>3. AtDescriptor /\ UNCHANGED <<mem, alloc, desc, certified>>
  BY <1>1, <1>2 DEF ExactState, Exact, Discovery!Unaffected, Discovery!game
<1>4. PICK u \in Discovery!Tables : u = table
  BY <1>2
<1>5. PICK n \in Discovery!Accepted(u) :
        /\ match = <<desc[n]>> /\ Len(match) = 1 /\ match[1] = desc[n]
        /\ Discovery!ValidExtent(u, desc[n])
  <2>1. Discovery!Accepted(u) # {} /\ Discovery!Kept(u) = match
    BY <1>2, <1>3, <1>4, KeptLemma DEF AtDescriptor
  <2>. QED
    BY <1>2, <2>1, KeptLemma
<1>6. Head(match) = match[1]
  BY <1>5
<1>7. candidates' = Leads(u) /\ Leads(u)' = Leads(u)
  BY <1>2, <1>3, <1>4, <1>5, <1>6, WorldStays DEF AtDescriptor, Leads
<1>8. Rereading'
  <2>1. 1..(row' - 1) = {}
    BY <1>2
  <2>. QED
    BY <1>2, <1>3, <1>4, <1>5, <1>7, <2>1 DEF Rereading, AtDescriptor
<1>9. ScansExact'
  BY <1>1, <1>2, ScansUntouched
<1>. QED
  BY <1>1, <1>2, <1>8, <1>9, SearchGoesOn

LEMMA RereadExactly ==
  ExactState /\ DiscoveryState /\ changes = 0 /\ Discovery!Reread => ExactState'
<1>1. SUFFICES ASSUME ExactState, DiscoveryState, changes = 0, Discovery!Reread
               PROVE  ExactState'
  OBVIOUS
<1> DEFINE c == Discovery!Candidate
           length == Len(Profile[table].rows)
           good == Discovery!Holds(table, c, row) /\ alloc[c + Profile[table].rows[row]] # 0
           ends == ~good \/ row = length
<1>2. /\ pc = "reread" /\ pc' = pc /\ candidates # {}
      /\ UNCHANGED <<table, scans, match, result>> /\ Discovery!Unaffected
      /\ table \in Discovery!Tables /\ candidates \subseteq Discovery!Slot
      /\ row \in 1..length
  BY <1>1 DEF Discovery!Reread, DiscoveryState, DiscoveryPlace
<1>3. /\ row' = IF ends THEN 1 ELSE row + 1
      /\ candidates' = IF ends THEN candidates \ {c} ELSE candidates
      /\ stable' = IF good /\ ends THEN stable \cup {c} ELSE stable
  BY <1>1, Zenon DEF Discovery!Reread, Discovery!P
<1>4. Rereading /\ UNCHANGED <<mem, alloc, desc, certified>>
  BY <1>1, <1>2 DEF ExactState, Exact, Discovery!Unaffected, Discovery!game
<1>5. c \in candidates /\ c \in Discovery!Slot /\ length \in Nat /\ row \in Nat /\ row \in RowsOf(table)
  <2>1. c \in candidates
    BY <1>2, CandidateLemma
  <2>2. length \in Nat /\ row \in Nat /\ row \in RowsOf(table)
    BY <1>2, TablesLemma DEF RowsOf
  <2>. QED
    BY <1>2, <2>1, <2>2
<1>6. good <=> Passes(table, c, row)
  BY DEF Passes
<1>7. \A k \in 1..(row - 1) : Passes(table, c, k)
  BY <1>2, <1>4 DEF Rereading
<1>8. PICK u \in Discovery!Tables : u = table
  BY <1>2
<1>9. /\ Leads(u)' = Leads(u)
      /\ \A b \in Discovery!Slot : \A k \in RowsOf(u) : Passes(u, b, k)' <=> Passes(u, b, k)
  BY <1>4, WorldStays
<1> HIDE DEF good
<1>10. ends /\ good => c \in Leads(table)
  <2>1. SUFFICES ASSUME ends, good PROVE c \in Leads(table)
    OBVIOUS
  <2>2. \A k \in RowsOf(table) : k \in 1..(row - 1) \/ k = row
    BY <1>5, <2>1 DEF RowsOf
  <2>3. \A k \in RowsOf(table) : Passes(table, c, k)
    BY <1>6, <1>7, <2>1, <2>2
  <2>. QED
    BY <1>4, <1>5, <2>3 DEF Rereading
<1>11. ends /\ ~good => c \notin Leads(table)
  BY <1>1, <1>2, <1>5, <1>6, LeadsLemma
<1>12. ~ends => /\ Discovery!Candidate' = c
                /\ \A k \in 1..(row' - 1) : k \in RowsOf(u) /\ Passes(u, c, k)
  <2>1. SUFFICES ASSUME ~ends
                 PROVE  /\ Discovery!Candidate' = c
                        /\ \A k \in 1..(row' - 1) : k \in RowsOf(u) /\ Passes(u, c, k)
    OBVIOUS
  <2>2. candidates' = candidates /\ row' = row + 1 /\ good
    BY <1>3, <2>1
  <2>3. \A k \in 1..(row' - 1) : k \in RowsOf(u) /\ (k \in 1..(row - 1) \/ k = row)
    BY <1>2, <1>5, <1>8, <2>2 DEF RowsOf
  <2>. QED
    BY <1>6, <1>7, <1>8, <2>2, <2>3 DEF Discovery!Candidate
<1>13. ends => 1..(row' - 1) = {}
  BY <1>3
<1> HIDE DEF c, length, ends
<1>14. Rereading'
  <2>1. candidates' \subseteq candidates
    BY <1>3
  <2>2. certified' => Len(match') = 1
    BY <1>2, <1>4 DEF Rereading
  <2>3. stable' \subseteq Leads(u) /\ Leads(u) \subseteq stable' \cup candidates'
    BY <1>3, <1>4, <1>8, <1>10, <1>11 DEF Rereading
  <2>4. \A b \in candidates' : (\A k \in RowsOf(u) : Passes(u, b, k)') => b \in Leads(u)
    BY <1>2, <1>4, <1>8, <1>9, <2>1 DEF Rereading
  <2>5. ASSUME NEW k \in 1..(row' - 1) PROVE Passes(table, Discovery!Candidate, k)'
    <3>1. ~ends /\ Discovery!Candidate' = c /\ k \in RowsOf(u) /\ Passes(u, c, k)
      BY <1>12, <1>13, <2>5
    <3>2. PICK e \in Discovery!Slot : e = c
      BY <1>5
    <3>3. Passes(u, e, k)'
      BY <1>9, <3>1, <3>2
    <3>. QED
      BY <1>2, <1>8, <3>1, <3>2, <3>3 DEF Passes, Discovery!Holds, Discovery!Slot
  <2>6. \A b \in candidates' : (\A k \in RowsOf(u) : Passes(table, b, k)') => b \in Leads(u)
    BY <1>2, <1>8, <2>4 DEF Passes, Discovery!Holds, Discovery!Slot
  <2>. QED
    BY <1>2, <1>8, <1>9, <2>2, <2>3, <2>5, <2>6 DEF Rereading, RowsOf
<1>15. ScansExact'
  BY <1>1, <1>2, ScansUntouched
<1>. QED
  BY <1>1, <1>2, <1>14, <1>15, SearchGoesOn

LEMMA EndRereadExactly ==
  ExactState /\ DiscoveryState /\ changes = 0 /\ Discovery!EndReread => ExactState'
<1>1. SUFFICES ASSUME ExactState, DiscoveryState, changes = 0, Discovery!EndReread
               PROVE  ExactState'
  OBVIOUS
<1>2. pc = "reread" /\ candidates = {} /\ Discovery!Unaffected
  BY <1>1 DEF Discovery!EndReread
<1>3. Rereading
  BY <1>1, <1>2 DEF ExactState, Exact
<1>4. ~(certified /\ Len(match) > 1)
  <2>1. certified => Len(match) = 1
    BY <1>3 DEF Rereading
  <2>2. ~(1 > 1)
    OBVIOUS
  <2>. QED
    BY <2>1, <2>2
<1>5. Discovery!Conclude(stable, problem)
  BY <1>1, <1>4 DEF Discovery!EndReread
<1>6. stable = Leads(table) /\ pc \in {"table", "descriptor", "reread"}
  BY <1>2, <1>3 DEF Rereading
<1>7. ASSUME NEW chosen, NEW wrong, chosen = Leads(table), Discovery!Conclude(chosen, wrong)
      PROVE  ExactState'
  BY <1>1, <1>2, <1>6, <1>7, ConcludeExactly
<1>. QED
  BY <1>5, <1>6, <1>7

\* A fingerprint is scanned for: its matches are the slots it is in.
LEMMA ScanRowExactly ==
  ExactState /\ DiscoveryState /\ changes = 0 /\ Discovery!ScanRow => ExactState'
<1>1. SUFFICES ASSUME ExactState, DiscoveryState, changes = 0, Discovery!ScanRow
               PROVE  ExactState'
  OBVIOUS
<1> DEFINE f == Profile[table].fps[row]
           exact == [complete |-> Discovery!Cardinality(Here(f)) <= MaxMatches,
                     matches |-> Here(f)]
<1>2. /\ pc = "table" /\ pc' = "table" /\ ~certified /\ Discovery!Unaffected
      /\ row <= Len(Profile[table].rows) /\ row' = row + 1
      /\ UNCHANGED <<table, match, candidates, stable, result>>
      /\ table \in Discovery!Tables /\ row \in Nat
  BY <1>1 DEF Discovery!ScanRow, Discovery!P, DiscoveryState, DiscoveryPlace
<1>3. scans' = IF scans[f] # Discovery!Unscanned THEN scans ELSE [scans EXCEPT ![f] = exact]
  BY <1>1 DEF Discovery!ScanRow, Discovery!P, Here
<1>4. /\ AtTable /\ ScansExact /\ UNCHANGED <<mem, alloc, desc, certified>>
  BY <1>1, <1>2 DEF ExactState, Exact, Discovery!Unaffected, Discovery!game
<1>5. PICK u \in Discovery!Tables : u = table
  BY <1>2
<1>6. exact # Discovery!Unscanned
  <2>1. -1 \notin Here(f)
    BY TablesLemma DEF Here
  <2>. QED
    BY <2>1 DEF Discovery!Unscanned
<1> HIDE DEF exact
<1>7. DOMAIN scans' = DOMAIN scans /\ \A g : Here(g)' = Here(g)
  BY <1>3, <1>4, WorldStays
<1>8. ScansExact'
  <2>1. ASSUME NEW g \in DOMAIN scans
        PROVE  \/ scans'[g] = Discovery!Unscanned
               \/ scans'[g] = [complete |-> Discovery!Cardinality(Here(g)) <= MaxMatches,
                               matches |-> Here(g)]
    <3>1. CASE scans'[g] = scans[g]
      BY <1>4, <3>1 DEF ScansExact
    <3>2. CASE scans'[g] # scans[g]
      <4>1. g = f /\ scans'[g] = exact
        BY <1>3, <3>2
      <4>. QED
        BY <4>1 DEF exact
    <3>. QED
      BY <3>1, <3>2
  <2>. QED
    BY <1>4, <1>7, <2>1 DEF ScansExact, Discovery!Tables, Discovery!Unscanned
<1>9. AtTable'
  <2>1. ASSUME NEW k \in RowsOf(u), k < row'
        PROVE  scans'[Profile[u].fps[k]] # Discovery!Unscanned
    <3>1. /\ k \in Nat /\ (k < row \/ k = row) /\ Profile[u].fps[k] \in DOMAIN scans
      <4>1. k \in Nat /\ DOMAIN Profile[u].fps = RowsOf(u)
        BY ProfileLemma
      <4>. QED
        BY <1>2, <1>4, <2>1, <4>1 DEF ScansExact
    <3>2. CASE k < row
      <4>1. scans[Profile[u].fps[k]] # Discovery!Unscanned
        BY <1>2, <1>4, <1>5, <3>2 DEF AtTable
      <4>. QED
        BY <1>3, <1>6, <3>1, <4>1
    <3>3. CASE k = row
      BY <1>3, <1>5, <1>6, <3>1, <3>3
    <3>. QED
      BY <3>1, <3>2, <3>3
  <2>. QED
    BY <1>2, <1>4, <1>5, <2>1 DEF AtTable, RowsOf, Discovery!Unscanned
<1>. QED
  BY <1>1, <1>2, <1>7, <1>8, <1>9, SearchGoesOn

\* The rows of a table that stands in an allocation are where a scan finds
\* them, and all in that allocation.
LEMMA StandingRows ==
  ASSUME alloc \in [Discovery!Slot -> Nat], NEW t \in Discovery!Tables,
         NEW b \in Discovery!Slot, Discovery!AllRowsMatch(t, b),
         Discovery!AllocationExists(b, Profile[t].capacity), NEW k \in RowsOf(t)
  PROVE  /\ b + Profile[t].rows[k] \in Here(Profile[t].fps[k])
         /\ alloc[b + Profile[t].rows[k]] = alloc[b]
<1>1. DOMAIN Profile[t].rows = RowsOf(t) /\ Profile[t].capacity \in Nat /\ b \in Nat
  BY ProfileLemma, TablesLemma
<1>2. Profile[t].rows[k] \in Nat /\ Profile[t].rows[k] < Profile[t].capacity
  BY ProfileLemma
<1>3. /\ b + Profile[t].capacity - 1 \in Discovery!Slot /\ alloc[b] # 0
      /\ \A s \in b..(b + Profile[t].capacity - 1) : alloc[s] = alloc[b]
  BY DEF Discovery!AllocationExists
<1>4. b + Profile[t].rows[k] \in b..(b + Profile[t].capacity - 1)
  BY <1>1, <1>2
<1>5. /\ b + Profile[t].rows[k] \in Discovery!Slot
      /\ alloc[b + Profile[t].rows[k]] # 0
      /\ alloc[b + Profile[t].rows[k]] = alloc[b]
  <2>1. alloc[b + Profile[t].rows[k]] = alloc[b] /\ alloc[b] # 0
    BY <1>3, <1>4
  <2>2. b + Profile[t].rows[k] \in Discovery!Slot
    <3>1. /\ b \in 1..Slots /\ b + Profile[t].capacity - 1 \in 1..Slots
          /\ Discovery!Slot = 1..Slots /\ Slots \in Nat
      BY <1>3, TablesLemma
    <3>2. PICK o \in Nat, size \in Nat : o = Profile[t].rows[k] /\ size = Profile[t].capacity
      BY <1>1, <1>2
    <3>3. 1 <= b /\ b + size - 1 <= Slots /\ o < size
      BY <1>1, <1>2, <3>1, <3>2
    <3>4. b + o \in 1..Slots
      BY <1>1, <3>1, <3>3, WithinLemma
    <3>. QED
      BY <3>1, <3>2, <3>4
  <2>. QED
    BY <2>1, <2>2
<1>6. mem[b + Profile[t].rows[k]].fp = Profile[t].fps[k]
  BY <1>1 DEF Discovery!AllRowsMatch, Discovery!Holds
<1>. QED
  BY <1>5, <1>6 DEF Here

\* Where a table stands, three of its rows are at their distances.
LEMMA LayoutsLemma ==
  ASSUME ExactState, ~certified, table \in Discovery!Tables,
         \A k \in RowsOf(table) : scans[Profile[table].fps[k]].matches = Here(Profile[table].fps[k])
  PROVE  Leads(table) \subseteq {b \in Discovery!Base : Discovery!Consistent(b)}
<1>1. SUFFICES ASSUME NEW b \in Leads(table)
               PROVE  b \in Discovery!Base /\ Discovery!Consistent(b)
  OBVIOUS
<1>2. PICK u \in Discovery!Tables : u = table
  OBVIOUS
<1>3. /\ b \in Discovery!Slot /\ Discovery!AllRowsMatch(u, b)
      /\ Discovery!AllocationExists(b, Profile[u].capacity)
  BY <1>1, <1>2 DEF Leads
<1>4. /\ DOMAIN Profile[u].rows = RowsOf(u)
      /\ 1 \in RowsOf(u) /\ 2 \in RowsOf(u) /\ 3 \in RowsOf(u)
  BY ProfileLemma
<1>5. ASSUME NEW k \in RowsOf(u)
      PROVE  /\ b + Profile[u].rows[k] \in scans[Profile[u].fps[k]].matches
             /\ alloc[b + Profile[u].rows[k]] = alloc[b]
  <2>1. alloc \in [Discovery!Slot -> Nat]
    BY DEF ExactState
  <2>2. /\ b + Profile[u].rows[k] \in Here(Profile[u].fps[k])
        /\ alloc[b + Profile[u].rows[k]] = alloc[b]
    BY <1>3, <2>1, StandingRows
  <2>. QED
    BY <1>2, <2>2
<1>6. Discovery!Consistent(b)
  <2>1. /\ 1 < 2 /\ 2 < 3
        /\ \A k \in {1, 2, 3} : b + Profile[u].rows[k] \in scans[Profile[u].fps[k]].matches
        /\ \A k \in {2, 3} : alloc[b + Profile[u].rows[k]] = alloc[b + Profile[u].rows[1]]
    BY <1>4, <1>5
  <2>2. 1 \in DOMAIN Profile[u].rows /\ 2 \in DOMAIN Profile[u].rows /\ 3 \in DOMAIN Profile[u].rows
    BY <1>4
  <2>3. /\ \A k \in {1, 2, 3} : b + Profile[table].rows[k] \in scans[Profile[table].fps[k]].matches
        /\ \A k \in {2, 3} : alloc[b + Profile[table].rows[k]] = alloc[b + Profile[table].rows[1]]
        /\ {1, 2, 3} \subseteq DOMAIN Profile[table].rows
    BY <1>2, <2>1, <2>2
  <2>4. \E x, y, z \in DOMAIN Profile[table].rows :
          /\ x < y /\ y < z
          /\ \A k \in {x, y, z} : b + Profile[table].rows[k] \in scans[Profile[table].fps[k]].matches
          /\ \A k \in {y, z} : alloc[b + Profile[table].rows[k]] = alloc[b + Profile[table].rows[x]]
    BY <2>1, <2>3, Zenon
  <2>. QED
    BY <2>4, Zenon DEF Discovery!Consistent, Discovery!P
<1>7. b \in Discovery!Base
  BY <1>3, TablesLemma DEF Discovery!Base
<1>. QED
  BY <1>6, <1>7

\* Without descriptors the candidates are the layouts that fit, and they stand
\* when all their rows pass; a scan that was cut off decides for nothing.
LEMMA FindLayoutsExactly ==
  ExactState /\ DiscoveryState /\ changes = 0 /\ Discovery!FindLayouts => ExactState'
<1>1. SUFFICES ASSUME ExactState, DiscoveryState, changes = 0, Discovery!FindLayouts
               PROVE  ExactState'
  OBVIOUS
<1> DEFINE cut == \E k \in DOMAIN Profile[table].rows : ~scans[Profile[table].fps[k]].complete
           bases == {b \in Discovery!Base : Discovery!Consistent(b)}
           fit == {b \in bases : Discovery!AllocationExists(b, Profile[table].capacity)}
<1>2. /\ pc = "table" /\ ~certified /\ row = Len(Profile[table].rows) + 1
      /\ Discovery!Unaffected /\ table \in Discovery!Tables
      /\ cut => Discovery!Conclude({}, Discovery!NoProblem)
      /\ ~cut => /\ candidates' = fit /\ pc' = "reread" /\ row' = 1
                 /\ UNCHANGED <<table, scans, match, stable, result>>
  BY <1>1 DEF Discovery!FindLayouts, Discovery!P, DiscoveryState, DiscoveryPlace
<1>3. /\ AtTable /\ ScansExact /\ UNCHANGED <<mem, alloc, desc, certified>>
  BY <1>1, <1>2 DEF ExactState, Exact, Discovery!Unaffected, Discovery!game
<1>4. PICK u \in Discovery!Tables : u = table
  BY <1>2
<1>5. /\ DOMAIN Profile[u].rows = RowsOf(u) /\ DOMAIN Profile[u].fps = RowsOf(u)
      /\ Profile[u].capacity \in Nat /\ \A s \in Discovery!Slot : s \in Nat
  BY ProfileLemma, TablesLemma
<1>6. ASSUME NEW k \in RowsOf(u)
      PROVE  /\ Profile[u].fps[k] \in DOMAIN scans
             /\ scans[Profile[u].fps[k]].matches = Here(Profile[u].fps[k])
             /\ scans[Profile[u].fps[k]].complete
                  = (Discovery!Cardinality(Here(Profile[u].fps[k])) <= MaxMatches)
  <2>1. k < row
    BY <1>2, <1>4, <1>6, TablesLemma DEF RowsOf
  <2>2. scans[Profile[u].fps[k]] # Discovery!Unscanned
    BY <1>2, <1>3, <1>4, <2>1 DEF AtTable
  <2>3. Profile[u].fps[k] \in DOMAIN scans
    BY <1>3, <1>5 DEF ScansExact
  <2>4. scans[Profile[u].fps[k]] =
          [complete |-> Discovery!Cardinality(Here(Profile[u].fps[k])) <= MaxMatches,
           matches |-> Here(Profile[u].fps[k])]
    BY <1>3, <2>2, <2>3, Zenon DEF ScansExact
  <2> DEFINE exact == [complete |-> Discovery!Cardinality(Here(Profile[u].fps[k])) <= MaxMatches,
                       matches |-> Here(Profile[u].fps[k])]
  <2>5. /\ exact.complete = (Discovery!Cardinality(Here(Profile[u].fps[k])) <= MaxMatches)
        /\ exact.matches = Here(Profile[u].fps[k])
    BY Zenon
  <2>6. scans[Profile[u].fps[k]] = exact
    BY <2>4
  <2> HIDE DEF exact
  <2>. QED
    BY <2>3, <2>5, <2>6, Zenon
<1> HIDE DEF cut, bases, fit
<1>7. CASE cut
  <2>1. PICK k \in RowsOf(u) : ~scans[Profile[u].fps[k]].complete
    BY <1>4, <1>5, <1>7 DEF cut
  <2>2. ~(Discovery!Cardinality(Here(Profile[u].fps[k])) <= MaxMatches)
    BY <1>6, <2>1, Zenon
  <2>3. ~Discovery!WithinCap
    BY <1>6, <2>2 DEF Discovery!WithinCap, Here
  <2>4. ASSUME NEW chosen, NEW wrong, Discovery!Conclude(chosen, wrong),
               chosen = Leads(table) \/ (chosen = {} /\ ~certified /\ ~Discovery!WithinCap)
        PROVE  ExactState'
    <3>1. pc \in {"table", "descriptor", "reread"}
      BY <1>2
    <3>. QED
      BY <1>1, <1>2, <2>4, <3>1, ConcludeExactly
  <2>. QED
    BY <1>2, <1>7, <2>3, <2>4, Zenon
<1>8. CASE ~cut
  <2>1. /\ candidates' = fit /\ pc' = "reread" /\ row' = 1
        /\ UNCHANGED <<table, scans, match, stable, result>>
    BY <1>2, <1>8
  <2>2. Leads(u) \subseteq fit
    <3>1. Leads(u) \subseteq bases
      BY <1>1, <1>2, <1>4, <1>6, LayoutsLemma DEF bases
    <3>. QED
      BY <1>2, <1>4, <3>1 DEF fit, Leads
  <2>3. ASSUME NEW b \in fit, \A k \in RowsOf(u) : Passes(u, b, k)
        PROVE  b \in Leads(u)
    <3>1. Discovery!AllocationExists(b, Profile[u].capacity) /\ b \in Discovery!Slot
      BY <1>4 DEF fit, Discovery!AllocationExists
    <3>2. Discovery!AllRowsMatch(u, b)
      BY <1>5, <2>3 DEF Discovery!AllRowsMatch, Passes
    <3>. QED
      BY <1>2, <3>1, <3>2 DEF Leads
  <2>4. Leads(u)' = Leads(u) /\ stable = {} /\ stable' = {}
    BY <1>3, <2>1, WorldStays DEF AtTable
  <2>5. \A b \in candidates' : (\A k \in RowsOf(u) : Passes(table, b, k)') => b \in Leads(u)'
    <3>1. ASSUME NEW b \in fit, \A k \in RowsOf(u) : Passes(table, b, k)'
          PROVE  b \in Leads(u)'
      <4>1. \A k \in RowsOf(u) : Passes(u, b, k)
        BY <1>3, <1>4, <2>1, <3>1 DEF Passes, Discovery!Holds, Discovery!Slot
      <4>. QED
        BY <2>3, <2>4, <3>1, <4>1
    <3>. QED
      BY <2>1, <3>1
  <2>6. Rereading'
    <3>1. 1..(row' - 1) = {}
      BY <2>1
    <3>. QED
      BY <1>2, <1>3, <1>4, <2>1, <2>2, <2>4, <2>5, <3>1 DEF Rereading, RowsOf
  <2>7. ScansExact'
    BY <1>1, <1>2, <2>1, ScansUntouched
  <2>. QED
    BY <1>1, <1>2, <2>1, <2>6, <2>7, SearchGoesOn
<1>. QED
  BY <1>7, <1>8

\* A table's relationships hold as long as the targets are where they were.
LEMMA LinkedStays ==
  ASSUME UNCHANGED <<mem, alloc, certified>>,
         \A u \in Discovery!Tables : result'[u].base = result[u].base,
         NEW t \in Discovery!Tables
  PROVE  Linked(t)' <=> Linked(t)
<1>1. \A l \in Profile[t].links : l.target \in Discovery!Tables
  BY ProfileLemma
<1>2. ASSUME NEW l \in Profile[t].links
      PROVE  /\ result'[l.target].base = result[l.target].base
             /\ Discovery!LinkHolds(t, result[t].base, l)'
                  <=> Discovery!LinkHolds(t, result[t].base, l)
  BY <1>1 DEF Discovery!LinkHolds
<1>. QED
  BY <1>2 DEF Linked

LEMMA RelationshipsExactly ==
  ExactState /\ DiscoveryState /\ changes = 0 /\ Discovery!CheckRelationships => ExactState'
<1>1. SUFFICES ASSUME ExactState, DiscoveryState, changes = 0, Discovery!CheckRelationships
               PROVE  ExactState'
  OBVIOUS
<1>2. /\ pc = "relationships" /\ table \in Discovery!Tables
      /\ result \in [Discovery!Tables -> DiscoveryResult]
      /\ result' = IF result[table].state = "resolved" /\ ~Linked(table)
                   THEN [result EXCEPT ![table].state = "relationship_failed"] ELSE result
      /\ table' = IF table < Len(Profile) THEN table + 1 ELSE table
      /\ pc' = IF table < Len(Profile) THEN "relationships" ELSE "done"
      /\ UNCHANGED <<mem, alloc, desc, certified, changes, scans>>
  BY <1>1
  DEF Discovery!CheckRelationships, Discovery!P, Discovery!IndependentlyResolved, Linked,
      Discovery!local, Discovery!Unaffected, Discovery!game, DiscoveryState, DiscoveryPlace
<1>3. /\ ScansExact
      /\ \A t \in Discovery!Tables :
           Located(t) /\ (t < table => Checked(t)) /\ (t >= table => Decided(t))
  BY <1>1, <1>2 DEF ExactState, Exact
<1>4. PICK u \in Discovery!Tables : u = table
  BY <1>2
<1>5. /\ result' = IF result[u].state = "resolved" /\ ~Linked(u)
                   THEN [result EXCEPT ![u].state = "relationship_failed"] ELSE result
      /\ Decided(u)
  <2>1. u >= table
    BY <1>4, TablesLemma
  <2>. QED
    BY <1>2, <1>3, <1>4, <2>1, Zenon
<1>6. ASSUME NEW t \in Discovery!Tables
      PROVE  /\ result'[t].base = result[t].base
             /\ t # u => result'[t] = result[t]
             /\ result'[u].state = "resolved" <=> result[u].state = "resolved" /\ Linked(u)
  <2>1. result[t] \in DiscoveryResult /\ result[u] \in DiscoveryResult
    BY <1>2
  <2>2. CASE result[u].state = "resolved" /\ ~Linked(u)
    <3>1. result' = [result EXCEPT ![u].state = "relationship_failed"]
      BY <1>5, <2>2
    <3>2. DOMAIN result = Discovery!Tables
      BY <1>2
    <3>3. result'[u] = [result[u] EXCEPT !.state = "relationship_failed"]
      BY <3>1, <3>2
    <3>4. result'[u].base = result[u].base /\ result'[u].state = "relationship_failed"
      BY <2>1, <3>3 DEF DiscoveryResult
    <3>5. t # u => result'[t] = result[t]
      BY <3>1, <3>2
    <3>. QED
      BY <2>2, <3>4, <3>5
  <2>3. CASE ~(result[u].state = "resolved" /\ ~Linked(u))
    BY <1>5, <2>3
  <2>. QED
    BY <2>2, <2>3
<1>7. ASSUME NEW t \in Discovery!Tables
      PROVE  /\ Located(t)' /\ (t < table \/ t = u => Checked(t)')
             /\ (t > table => Decided(t)')
  <2>1. Located(t)'
    <3>1. result'[t].base = result[t].base /\ Located(t)
      BY <1>3, <1>6
    <3>2. UNCHANGED <<mem, alloc, desc, certified>> /\ DOMAIN scans' = DOMAIN scans
      BY <1>2
    <3>. QED
      BY <3>1, <3>2, LocatedStays
  <2>2. Linked(t)' <=> Linked(t)
    <3>1. UNCHANGED <<mem, alloc, certified>>
      BY <1>2
    <3>2. \A v \in Discovery!Tables : result'[v].base = result[v].base
      BY <1>6
    <3>. QED
      BY <3>1, <3>2, LinkedStays
  <2>3. CASE t = u
    <3>1. Checked(t)'
      BY <1>5, <1>6, <2>2, <2>3 DEF Checked, Decided
    <3>2. ~(t > table)
      BY <1>4, <2>3, TablesLemma
    <3>. QED
      BY <2>1, <3>1, <3>2
  <2>4. CASE t # u
    <3>1. result'[t] = result[t]
      BY <1>6, <2>4
    <3>2. t < table => Checked(t)'
      BY <1>3, <2>2, <3>1 DEF Checked
    <3>3. t > table => Decided(t)'
      <4>1. t > table => t >= table
        BY <1>2, TablesLemma
      <4>. QED
        BY <1>3, <3>1, <4>1 DEF Decided
    <3>. QED
      BY <2>1, <2>4, <3>2, <3>3
  <2>. QED
    BY <2>3, <2>4
<1>8. ScansExact'
  <2>1. UNCHANGED <<mem, alloc, desc, certified, scans>>
    BY <1>2
  <2>. QED
    BY <1>3, <2>1, ScansStay
<1>9. Exact'
  <2>1. CASE table < Len(Profile)
    <3>1. pc' = "relationships" /\ table' = table + 1
      BY <1>2, <2>1
    <3>2. ASSUME NEW t \in Discovery!Tables
          PROVE  /\ t < table' => t < table \/ t = u
                 /\ t >= table' => t > table
      BY <1>2, <1>4, <3>1, TablesLemma
    <3>3. \A t \in Discovery!Tables :
            Located(t)' /\ (t < table' => Checked(t)') /\ (t >= table' => Decided(t)')
      BY <1>7, <3>2
    <3>. QED
      BY <1>8, <3>1, <3>3 DEF Exact, Discovery!Tables
  <2>2. CASE ~(table < Len(Profile))
    <3>1. pc' = "done"
      BY <1>2, <2>2
    <3>2. \A t \in Discovery!Tables : t < table \/ t = u
      BY <1>2, <1>4, <2>2, TablesLemma
    <3>3. \A t \in Discovery!Tables : Located(t)' /\ Checked(t)'
      BY <1>7, <3>2
    <3>. QED
      BY <1>8, <3>1, <3>3 DEF Exact, Discovery!Tables
  <2>. QED
    BY <2>1, <2>2
<1>10. alloc' \in [Discovery!Slot -> Nat] /\ desc' \in Seq(Descriptor) /\ changes' \in Nat
  BY <1>1, <1>2 DEF ExactState
<1>. QED
  BY <1>9, <1>10 DEF ExactState, Discovery!Slot, Descriptor, Discovery!Tables

\* An expired deadline decides nothing.
LEMMA TimeOutExactly ==
  ExactState /\ changes = 0 /\ Discovery!TimeOut => ExactState'
<1>1. SUFFICES ASSUME ExactState, changes = 0, Discovery!TimeOut PROVE ExactState'
  OBVIOUS
<1>2. /\ pc' = "OPERATION_TIMEOUT" /\ UNCHANGED <<mem, alloc, desc, certified, changes, scans>>
  BY <1>1
  DEF Discovery!TimeOut, Discovery!TimedOut, Discovery!local, Discovery!Unaffected, Discovery!game
<1>3. ScansExact'
  BY <1>1, <1>2, ScansStay DEF ExactState, Exact
<1>4. Exact'
  BY <1>2, <1>3 DEF Exact
<1>. QED
  BY <1>1, <1>2, <1>4 DEF ExactState, Discovery!Slot, Descriptor, Discovery!Tables

\* After a change by the game nothing is claimed.
LEMMA GameChanges ==
  ExactState /\ (Discovery!GameStore \/ Discovery!GameFree) => ExactState'
<1>1. SUFFICES ASSUME ExactState, Discovery!GameStore \/ Discovery!GameFree PROVE ExactState'
  OBVIOUS
<1>2. changes' = changes + 1 /\ changes \in Nat /\ desc' = desc
  BY <1>1 DEF Discovery!GameStore, Discovery!GameFree, ExactState
<1>3. changes' \in Nat /\ changes' # 0
  BY <1>2
<1>4. alloc' \in [Discovery!Slot -> Nat]
  <2>1. alloc \in [Discovery!Slot -> Nat]
    BY <1>1 DEF ExactState
  <2>2. CASE Discovery!GameStore
    BY <2>1, <2>2 DEF Discovery!GameStore
  <2>3. CASE Discovery!GameFree
    <3>1. PICK s \in Discovery!Slot :
            alloc' = [x \in Discovery!Slot |-> IF alloc[x] = alloc[s] THEN 0 ELSE alloc[x]]
      BY <2>3 DEF Discovery!GameFree
    <3>. QED
      BY <2>1, <3>1
  <2>. QED
    BY <1>1, <2>2, <2>3
<1>. QED
  BY <1>1, <1>2, <1>3, <1>4 DEF ExactState, Discovery!Slot, Descriptor, Discovery!Tables

LEMMA ExactStays ==
  ASSUME ExactState,
         UNCHANGED <<mem, alloc, desc, certified, changes, pc, table, scans, row, match, candidates,
                     stable, result>>
  PROVE  ExactState'
<1>1. UNCHANGED <<mem, alloc, desc, certified>>
  OBVIOUS
<1>2. ASSUME changes = 0 PROVE Exact'
  <2>1. Exact
    BY <1>2 DEF ExactState
  <2>2. ASSUME NEW t \in Discovery!Tables
        PROVE  /\ Located(t) => Located(t)'
               /\ Decided(t) => Decided(t)'
               /\ Checked(t) => Checked(t)'
    <3>1. Located(t) => Located(t)'
      BY <1>1, LocatedStays
    <3>2. Linked(t)' <=> Linked(t)
      BY LinkedStays
    <3>. QED
      BY <3>1, <3>2 DEF Decided, Checked
  <2>3. ScansExact'
    BY <1>1, <2>1, ScansStay DEF Exact
  <2>4. /\ AtTable => AtTable'
        /\ AtDescriptor => AtDescriptor'
        /\ Rereading => Rereading'
    <3>1. AtTable => AtTable'
      BY DEF AtTable, RowsOf, Discovery!Unscanned
    <3>5. Discovery!Accepted(table)' = Discovery!Accepted(table)
      BY DEF Discovery!Accepted, Discovery!ValidExtent, Discovery!AllocationExists, Discovery!Slot
    <3>6. Discovery!Kept(table)' = Discovery!Kept(table)
      BY <3>5 DEF Discovery!Kept
    <3>2. AtDescriptor => AtDescriptor'
      BY <3>6 DEF AtDescriptor
    <3>3. Leads(table)' = Leads(table)
      <4>1. CASE ~certified
        BY <4>1 DEF Leads, Discovery!AllocationExists, Discovery!Slot, Discovery!AllRowsMatch,
                    Discovery!Holds
      <4>2. CASE certified
        BY <3>6, <4>2 DEF Leads, Discovery!Slot, Discovery!DescriptorCandidates,
           Discovery!BlobCandidates, Discovery!FirstOffsets, Discovery!AllRowsMatch, Discovery!Holds
      <4>. QED
        BY <4>1, <4>2
    <3>4. Rereading => Rereading'
      BY <3>3 DEF Rereading, Passes, RowsOf, Discovery!Holds, Discovery!Slot, Discovery!Candidate
    <3>. QED
      BY <3>1, <3>2, <3>4
  <2>. QED
    BY <2>1, <2>2, <2>3, <2>4 DEF Exact, Discovery!Tables
<1>. QED
  BY <1>2 DEF ExactState, Discovery!Slot, Descriptor, Discovery!Tables

LEMMA InitExact == CommandsInit => ExactInvariant
<1>1. SUFFICES ASSUME CommandsInit, which = "discovery" PROVE ExactState
  BY DEF ExactInvariant
<1>2. Discovery!Init
  BY <1>1 DEF CommandsInit
<1>3. /\ pc = "table" /\ table = 1 /\ row = 1 /\ candidates = {} /\ stable = {} /\ changes = 0
      /\ scans = [f \in UNION {Discovery!Range(Profile[t].fps) : t \in Discovery!Tables} |->
                    Discovery!Unscanned]
  BY <1>2 DEF Discovery!Init
<1>4. alloc \in [Discovery!Slot -> Nat] /\ desc \in Seq(Descriptor)
  BY <1>2, CommandsAssumption DEF Discovery!Init, Discovery!DiscoveryAssumption, Descriptor
<1>5. ScansExact
  <2>1. ASSUME NEW t \in Discovery!Tables, NEW k \in DOMAIN Profile[t].fps
        PROVE  Profile[t].fps[k] \in DOMAIN scans
    BY <1>3 DEF Discovery!Range
  <2>. QED
    BY <1>3, <2>1 DEF ScansExact
<1>6. AtTable
  <2>1. \A k \in RowsOf(table) : ~(k < row)
    BY <1>3, TablesLemma DEF RowsOf
  <2>. QED
    BY <1>3, <2>1 DEF AtTable
<1>7. \A t \in Discovery!Tables : ~(t < table)
  BY <1>3, TablesLemma
<1>8. Exact
  BY <1>3, <1>5, <1>6, <1>7 DEF Exact
<1>. QED
  BY <1>3, <1>4, <1>8 DEF ExactState

LEMMA NextExact ==
  ExactInvariant /\ DiscoveryInvariant /\ [CommandsNext]_commandVars => ExactInvariant'
<1>1. CASE which # "discovery"
  BY <1>1 DEF ExactInvariant, CommandsNext, ScanStep, PipeStep, commandVars
<1>2. ASSUME ExactInvariant, which = "discovery", UNCHANGED commandVars PROVE ExactInvariant'
  <2>1. /\ ExactState
        /\ UNCHANGED <<which, mem, alloc, desc, certified, changes, pc, table, scans, row, match,
                       candidates, stable, result>>
    BY <1>2 DEF ExactInvariant, commandVars, shared, discoveryOnly
  <2>. QED
    BY <2>1, ExactStays DEF ExactInvariant
<1>3. ASSUME ExactInvariant, DiscoveryInvariant, which = "discovery", CommandsNext
      PROVE  ExactInvariant'
  <2>1. Discovery!Next /\ ExactState /\ DiscoveryState
    BY <1>3 DEF CommandsNext, ScanStep, PipeStep, DiscoveryInvariant, ExactInvariant
  <2>2. CASE Discovery!Deadline \/ Discovery!Ended
    <3>1. UNCHANGED <<mem, alloc, desc, certified, changes, pc, table, scans, row, match,
                      candidates, stable, result>>
      BY <2>2
      DEF Discovery!Deadline, Discovery!Ended, Discovery!vars, Discovery!local, Discovery!game
    <3>. QED
      BY <2>1, <3>1, ExactStays DEF ExactInvariant
  <2>3. CASE Discovery!GameStore \/ Discovery!GameFree
    BY <2>1, <2>3, GameChanges DEF ExactInvariant
  <2>4. CASE Discovery!Discover
    <3>1. CASE changes = 0
      BY <2>1, <2>4, <3>1, ScanDescriptorsExactly, FindNoDescriptorExactly, ReadDescriptorExactly,
         RereadExactly, EndRereadExactly, ScanRowExactly, FindLayoutsExactly, RelationshipsExactly,
         TimeOutExactly
      DEF Discovery!Discover, ExactInvariant
    <3>2. CASE changes # 0
      <4>1. UNCHANGED <<alloc, desc, changes>>
        BY <2>4
        DEF Discovery!Discover, Discovery!ScanDescriptors, Discovery!FindNoDescriptor,
            Discovery!ReadDescriptor, Discovery!Reread, Discovery!EndReread, Discovery!ScanRow,
            Discovery!FindLayouts, Discovery!CheckRelationships, Discovery!TimeOut,
            Discovery!Unaffected, Discovery!game
      <4>. QED
        BY <2>1, <3>2, <4>1
        DEF ExactState, ExactInvariant, Discovery!Slot, Descriptor, Discovery!Tables
    <3>. QED
      BY <3>1, <3>2
  <2>. QED
    BY <2>1, <2>2, <2>3, <2>4 DEF Discovery!Next
<1>. QED
  BY <1>1, <1>2, <1>3

\* A search leads only to where a table really is; without descriptors, to all
\* such places, and with them unless the descriptor it ends at hides the rest.
LEMMA LeadsToTruth ==
  ASSUME ExactState, NEW t \in Discovery!Tables
  PROVE  /\ Leads(t) \subseteq Discovery!TrueLayouts(t)
         /\ Discovery!TrueLayouts(t) \subseteq Discovery!Slot
         /\ ~certified => Leads(t) = Discovery!TrueLayouts(t)
         /\ Discovery!TrueLayouts(t) # {} /\ ~Discovery!Hidden(t) => Leads(t) # {}
<1>1. CASE ~certified
  BY <1>1 DEF Leads, Discovery!TrueLayouts
<1>2. CASE certified
  <2>1. desc \in Seq(Descriptor)
    BY DEF ExactState
  <2>2. Leads(t) = IF Discovery!Kept(t) = <<>> THEN {}
                   ELSE Discovery!DescriptorCandidates(t, Discovery!Kept(t)[1])
    BY <1>2 DEF Leads
  <2>3. Discovery!TrueLayouts(t)
          = UNION {Discovery!DescriptorCandidates(t, desc[n]) : n \in Discovery!Accepted(t)}
    BY <1>2, Zenon DEF Discovery!TrueLayouts
  <2>4. Leads(t) \subseteq Discovery!TrueLayouts(t)
    <3>1. CASE Discovery!Accepted(t) = {}
      BY <2>1, <2>2, <3>1, KeptLemma
    <3>2. CASE Discovery!Accepted(t) # {}
      <4>1. PICK n \in Discovery!Accepted(t) : Discovery!Kept(t)[1] = desc[n]
        BY <2>1, <3>2, KeptLemma
      <4>. QED
        BY <2>2, <2>3, <4>1
    <3>. QED
      BY <3>1, <3>2
  <2>5. Discovery!TrueLayouts(t) \subseteq Discovery!Slot
    <3>1. ASSUME NEW n \in Discovery!Accepted(t)
          PROVE  Discovery!DescriptorCandidates(t, desc[n]) \subseteq Discovery!Slot
      BY DescriptorLemma DEF Discovery!Accepted
    <3>. QED
      BY <2>3, <3>1
  <2>6. ASSUME Discovery!TrueLayouts(t) # {}, ~Discovery!Hidden(t) PROVE Leads(t) # {}
    <3>1. Discovery!Accepted(t) # {}
      BY <2>3, <2>6
    <3>2. Discovery!Kept(t) # <<>>
      BY <2>1, <3>1, KeptLemma
    <3>. QED
      BY <1>2, <2>2, <2>6, <3>2 DEF Discovery!Hidden
  <2>. QED
    BY <1>2, <2>4, <2>5, <2>6
<1>. QED
  BY <1>1, <1>2

\* A table that is in one place only, in the open, is found there.
LEMMA OnePlaceLemma ==
  ASSUME ExactState, NEW t \in Discovery!Tables, Located(t), Discovery!WithinCap,
         Discovery!TrueLayouts(t) # {}, ~(Discovery!Cardinality(Discovery!TrueLayouts(t)) > 1),
         ~Discovery!Hidden(t)
  PROVE  result[t].base # 0 /\ Discovery!TrueLayouts(t) = {result[t].base}
<1> DEFINE S == Discovery!TrueLayouts(t)
<1>1. /\ Leads(t) \subseteq S /\ S \subseteq Discovery!Slot /\ Leads(t) # {} /\ S # {}
      /\ ~(Discovery!Cardinality(S) > 1)
  BY LeadsToTruth
<1> HIDE DEF S
<1>2. IsFiniteSet(S)
  <2>1. IsFiniteSet(1..Slots)
    BY FS_Interval, TablesLemma
  <2>. QED
    BY <1>1, <2>1, FS_Subset, TablesLemma
<1>3. \E b : S = {b}
  <2>1. Cardinality(S) \in Nat /\ Cardinality(S) # 0 /\ Discovery!Cardinality(S) = Cardinality(S)
    BY <1>1, <1>2, FS_CardinalityType, FS_EmptySet, DiscoveryCardinality
  <2>2. Cardinality(S) = 1
    BY <1>1, <2>1
  <2>. QED
    BY <1>2, <2>2, FS_Singleton
<1>4. PICK b : S = {b}
  BY <1>3
<1>5. Leads(t) = {b} /\ b \in Discovery!Slot
  BY <1>1, <1>4
<1>6. result[t].base # 0 /\ Leads(t) = {result[t].base}
  BY <1>5 DEF Located
<1>7. S = {result[t].base}
  BY <1>4, <1>5, <1>6
<1>. QED
  BY <1>6, <1>7 DEF S

LEMMA ExactLemma == ExactState /\ DiscoveryState => Discovery!DiscoveryIsExact
<1>1. SUFFICES ASSUME ExactState, DiscoveryState, pc = "done", changes = 0,
                      NEW t \in Discovery!Tables
               PROVE
      LET r == result[t]
          linked(b) == \A l \in Profile[t].links : /\ Discovery!TrueLayouts(l.target) # {}
                                                   /\ Discovery!LinkHolds(t, b, l)
      IN  /\ r.state = "resolved" => r.base \in Discovery!TrueLayouts(t) /\ linked(r.base)
          /\ r.state = "resolved" /\ ~certified => Discovery!TrueLayouts(t) = {r.base}
          /\ Discovery!WithinCap /\ Discovery!Cardinality(Discovery!TrueLayouts(t)) = 1 =>
               \/ \E u \in {t} \cup {l.target : l \in Profile[t].links} : Discovery!Hidden(u)
               \/ r.state = "resolved"
               \/ ~linked(CHOOSE b \in Discovery!TrueLayouts(t) : TRUE)
               \/ \E l \in Profile[t].links :
                    Discovery!Cardinality(Discovery!TrueLayouts(l.target)) > 1
  BY Zenon DEF Discovery!DiscoveryIsExact, Discovery!Quiet
<1> DEFINE r == result[t]
           linked(b) == \A l \in Profile[t].links : /\ Discovery!TrueLayouts(l.target) # {}
                                                    /\ Discovery!LinkHolds(t, b, l)
<1>2. \A u \in Discovery!Tables : Located(u) /\ Checked(u)
  BY <1>1 DEF ExactState, Exact
<1>3. \A l \in Profile[t].links : l.target \in Discovery!Tables
  BY ProfileLemma
<1>4. ASSUME NEW u \in Discovery!Tables, result[u].base # 0
      PROVE  result[u].base \in Discovery!TrueLayouts(u) /\ Leads(u) = {result[u].base}
  <2>1. Leads(u) \subseteq Discovery!TrueLayouts(u)
    BY <1>1, LeadsToTruth
  <2>. QED
    BY <1>2, <1>4, <2>1 DEF Located
<1>5. ASSUME r.state = "resolved" PROVE r.base \in Discovery!TrueLayouts(t) /\ linked(r.base)
  <2>1. r.base # 0 /\ Linked(t)
    BY <1>2, <1>5 DEF Checked
  <2>2. \A l \in Profile[t].links : /\ result[l.target].base # 0 /\ l.target \in Discovery!Tables
                                    /\ Discovery!LinkHolds(t, r.base, l)
    BY <1>3, <2>1 DEF Linked
  <2>. QED
    BY <1>4, <2>1, <2>2
<1>6. ASSUME r.state = "resolved", ~certified PROVE Discovery!TrueLayouts(t) = {r.base}
  <2>1. Leads(t) = Discovery!TrueLayouts(t) /\ r.base # 0
    BY <1>1, <1>2, <1>6, LeadsToTruth DEF Checked
  <2>. QED
    BY <1>4, <2>1
<1>7. ASSUME Discovery!WithinCap, Discovery!Cardinality(Discovery!TrueLayouts(t)) = 1,
             \A u \in {t} \cup {l.target : l \in Profile[t].links} : ~Discovery!Hidden(u),
             linked(CHOOSE b \in Discovery!TrueLayouts(t) : TRUE),
             \A l \in Profile[t].links :
               ~(Discovery!Cardinality(Discovery!TrueLayouts(l.target)) > 1)
      PROVE  r.state = "resolved"
  <2>1. Discovery!TrueLayouts(t) # {}
    BY <1>7, DiscoveryCardinality, FS_EmptySet
  <2>2. r.base # 0 /\ Discovery!TrueLayouts(t) = {r.base}
    <3>1. ~(Discovery!Cardinality(Discovery!TrueLayouts(t)) > 1) /\ ~Discovery!Hidden(t)
      BY <1>7
    <3>. QED
      BY <1>1, <1>2, <1>7, <2>1, <3>1, OnePlaceLemma
  <2>3. linked(r.base)
    <3>1. (CHOOSE b \in Discovery!TrueLayouts(t) : TRUE) = r.base
      BY <2>2
    <3>. QED
      BY <1>7, <3>1, Zenon
  <2>4. ASSUME NEW l \in Profile[t].links
        PROVE  result[l.target].base # 0 /\ Discovery!LinkHolds(t, r.base, l)
    <3>1. PICK u \in Discovery!Tables : u = l.target
      BY <1>3
    <3>2. /\ Discovery!TrueLayouts(u) # {} /\ Discovery!LinkHolds(t, r.base, l)
          /\ ~(Discovery!Cardinality(Discovery!TrueLayouts(u)) > 1) /\ ~Discovery!Hidden(u)
      BY <1>7, <2>3, <3>1
    <3>3. result[u].base # 0
      BY <1>1, <1>2, <1>7, <3>2, OnePlaceLemma
    <3>. QED
      BY <3>1, <3>2, <3>3
  <2>. QED
    BY <1>2, <2>2, <2>4 DEF Checked, Linked
<1> HIDE DEF r, linked
<1>. QED
  BY <1>5, <1>6, <1>7, Zenon DEF r, linked

\* For any tables, memory and descriptors that the game leaves alone, what
\* DiscoverTables (frtk_discovery.cpp, lines 547 to 903) reports is true of
\* every table: one that resolved is where the profile says, and so are its
\* references; one that is in one place only, as its targets are, resolves when
\* its references hold, unless a descriptor before its own hides it.
THEOREM DiscoveriesAreExact == CommandsSpec => []DiscoveryIsExact
<1>1. DiscoveryInvariant /\ ExactInvariant => DiscoveryIsExact
  BY ExactLemma DEF DiscoveryInvariant, ExactInvariant, DiscoveryIsExact
<1>. QED
  BY <1>1, InitDiscovery, NextDiscovery, InitExact, NextExact, PTL DEF CommandsSpec

-----------------------------------------------------------------------------
(* The search of board mutation: a chunk is searched together with the end  *)
(* of the one before, which is shorter than a signature.  So an object ends *)
(* in the first chunk whose search can find it, and is found a second time  *)
(* only in the next, when it is a pointer within the carried cells; no two  *)
(* fit in there.                                                             *)

\* The last cell of an object, and the chunk it lies in.
LastCell(o) == o.cell + Board!Length(o) - 1
EndsIn(o, e) == e \in 1..Chunks /\ (e - 1) * Chunk < LastCell(o) /\ LastCell(o) <= e * Chunk

Readable(o, unreadable) ==
  \A c \in unreadable :
    o.cell..(o.cell + Board!Length(o) - 1) \cap ((c - 1) * Chunk + 1)..(c * Chunk) = {}

\* What the last discovery found is what was there, unless the game moved.
BoardSeen ==
  /\ live \in Board!Sets /\ present \subseteq Board!Sets
  /\ found # {} /\ ~moved => found = Board!FindPatterns(failed) /\ failed \in Unreadable

SearchInvariant == which = "board" => BoardSeen

-----------------------------------------------------------------------------
LEMMA SizesLemma ==
  /\ Chunks \in Nat /\ Chunk \in Nat /\ Pointer \in Nat /\ Signature \in Nat
  /\ Pointer >= 1 /\ Pointer <= Signature /\ Signature <= 2 * Pointer /\ Signature <= Chunk
BY CommandsAssumption DEF Board!BoardAssumption

LEMMA ObjectLemma ==
  ASSUME present \subseteq Board!Sets, NEW o \in Board!Objects
  PROVE  /\ o.set \in Board!Sets /\ o.kind \in DOMAIN Place[o.set]
         /\ o = [set |-> o.set, kind |-> o.kind, cell |-> Place[o.set][o.kind]]
         /\ o.cell \in Nat /\ o.cell >= 1
         /\ Board!Length(o) \in {Pointer, Signature}
         /\ LastCell(o) \in Nat /\ LastCell(o) = o.cell + Board!Length(o) - 1
         /\ LastCell(o) >= 1 /\ LastCell(o) <= Chunks * Chunk
<1>1. PICK k \in present :
        o \in {[set |-> k, kind |-> p, cell |-> Place[k][p]] : p \in DOMAIN Place[k]}
  BY DEF Board!Objects
<1>2. PICK p \in DOMAIN Place[k] : o = [set |-> k, kind |-> p, cell |-> Place[k][p]]
  BY <1>1
<1>3. k \in DOMAIN Place
  BY DEF Board!Sets
<1>4. o.set = k /\ o.kind = p /\ o.cell = Place[k][p]
  BY <1>2
<1>5. /\ o.cell \in Nat /\ o.cell >= 1 /\ Board!Length(o) \in {Pointer, Signature}
      /\ o.cell + Board!Length(o) - 1 <= Chunks * Chunk
  BY <1>3, <1>4, SizesLemma, CommandsAssumption
  DEF Board!BoardAssumption, Board!Length, Board!TableKinds
<1>. QED
  BY <1>2, <1>3, <1>4, <1>5, SizesLemma DEF LastCell, Board!Sets

\* Objects do not overlap, and are of one length when of one pattern.
LEMMA ApartLemma ==
  ASSUME present \subseteq Board!Sets, NEW o \in Board!Objects, NEW q \in Board!Objects,
         o # q
  PROVE  o.cell + Pointer <= q.cell \/ q.cell + Pointer <= o.cell
<1>1. <<o.set, o.kind>> # <<q.set, q.kind>>
  BY ObjectLemma, Zenon
<1>. QED
  BY <1>1, ObjectLemma, CommandsAssumption DEF Board!BoardAssumption, Board!Sets

LEMMA PatternLemma ==
  ASSUME NEW o, NEW q, Board!PatternOf(q) = Board!PatternOf(o)
  PROVE  Board!Length(q) = Board!Length(o)
BY DEF Board!PatternOf, Board!Length, Board!TableKinds

\* Every object ends in one chunk.
LEMMA EndLemma ==
  ASSUME present \subseteq Board!Sets, NEW o \in Board!Objects
  PROVE  \E e \in 1..Chunks : EndsIn(o, e)
<1> DEFINE S == {c \in Nat : LastCell(o) <= c * Chunk}
<1>1. LastCell(o) \in Nat /\ LastCell(o) >= 1 /\ Chunks \in S
  BY ObjectLemma, SizesLemma
<1>2. S \subseteq Nat /\ S # {}
  BY <1>1
<1>3. PICK e \in S : \A c \in S : e <= c
  BY <1>2, LeastLemma
<1>4. e \in Nat /\ LastCell(o) <= e * Chunk /\ e <= Chunks
  BY <1>1, <1>3
<1>5. e # 0
  BY <1>1, <1>4, SizesLemma
<1>6. e - 1 \in Nat /\ e - 1 \notin S
  BY <1>3, <1>4, <1>5
<1>7. (e - 1) * Chunk < LastCell(o)
  BY <1>1, <1>6, SizesLemma
<1>. QED
  BY <1>4, <1>5, <1>7, SizesLemma DEF EndsIn

LEMMA FirstCellLemma ==
  ASSUME NEW c \in 1..Chunks, NEW U
  PROVE  /\ Board!FirstCell(c, U) \in Int
         /\ (c - 1) * Chunk \in Nat /\ c * Chunk = (c - 1) * Chunk + Chunk
         /\ Board!FirstCell(c, U) = IF c = 1 \/ c - 1 \in U THEN (c - 1) * Chunk + 1
                                    ELSE (c - 1) * Chunk + 2 - Signature
<1>1. c \in Nat /\ c - 1 \in Nat
  BY SizesLemma
<1>2. (c - 1) * Chunk \in Nat /\ c * Chunk = (c - 1) * Chunk + Chunk
  BY <1>1, SizesLemma
<1>. QED
  BY <1>1, <1>2, SizesLemma DEF Board!FirstCell
\* Only the chunk an object ends in, and the next one, can find it.
LEMMA WindowLemma ==
  ASSUME present \subseteq Board!Sets, NEW o \in Board!Objects, NEW U,
         NEW e, EndsIn(o, e), NEW c \in 1..Chunks, o \in Board!Window(c, U)
  PROVE  \/ c = e
         \/ c = e + 1 /\ e \notin U /\ o.cell >= e * Chunk + 2 - Signature
<1>1. /\ c \notin U /\ o.cell >= Board!FirstCell(c, U) /\ LastCell(o) <= c * Chunk
  BY DEF Board!Window, LastCell
<1>2. /\ e \in Nat /\ e >= 1 /\ e <= Chunks /\ e - 1 \in Nat /\ c \in Nat
      /\ (e - 1) * Chunk < LastCell(o) /\ LastCell(o) <= e * Chunk
      /\ o.cell \in Nat /\ LastCell(o) \in Nat /\ o.cell <= LastCell(o)
  BY SizesLemma, ObjectLemma DEF EndsIn
<1>3. c >= e
  <2>1. SUFFICES ASSUME c <= e - 1 PROVE FALSE
    BY <1>2
  <2>2. c * Chunk <= (e - 1) * Chunk
    BY <1>2, <2>1, SizesLemma
  <2>3. c * Chunk \in Nat /\ (e - 1) * Chunk \in Nat
    BY <1>2, SizesLemma
  <2>. QED
    BY <1>1, <1>2, <2>2, <2>3
<1>4. e * Chunk \in Nat /\ (c - 1) * Chunk \in Nat
  BY <1>2, SizesLemma
<1>5. CASE c >= e + 2
  <2>1. (e + 1) * Chunk = e * Chunk + Chunk
    BY <1>2, SizesLemma
  <2>2. (e + 1) * Chunk <= (c - 1) * Chunk
    BY <1>2, <1>5, SizesLemma
  <2>3. Board!FirstCell(c, U) >= (c - 1) * Chunk + 2 - Signature
    BY FirstCellLemma, SizesLemma, <1>4
  <2>4. Board!FirstCell(c, U) \in Int
    BY FirstCellLemma
  <2>. QED
    BY <1>1, <1>2, <1>4, <2>1, <2>2, <2>3, <2>4, SizesLemma
<1>6. CASE c = e + 1
  <2>1. c - 1 = e /\ c # 1
    BY <1>2, <1>6
  <2>2. e \notin U
    <3>1. SUFFICES ASSUME e \in U PROVE FALSE
      OBVIOUS
    <3>2. Board!FirstCell(c, U) = e * Chunk + 1
      BY <2>1, <3>1, FirstCellLemma
    <3>. QED
      BY <1>1, <1>2, <1>4, <3>2
  <2>3. Board!FirstCell(c, U) = e * Chunk + 2 - Signature
    BY <2>1, <2>2, FirstCellLemma
  <2>. QED
    BY <1>1, <1>6, <2>2, <2>3
<1>. QED
  BY <1>2, <1>3, <1>5, <1>6

\* What the search of the next chunk finds again is a pointer, and the only
\* one of its pattern in the carried cells.
LEMMA CarryLemma ==
  ASSUME present \subseteq Board!Sets, NEW o \in Board!Objects, NEW U,
         NEW e, EndsIn(o, e), e + 1 \in 1..Chunks,
         o.cell >= e * Chunk + 2 - Signature,
         o \in Board!Window(e, U)
  PROVE  o \notin Board!Fresh(e + 1, U)
<1>1. /\ e \in Nat /\ e >= 1 /\ e * Chunk \in Nat
      /\ o.cell \in Nat /\ LastCell(o) \in Nat /\ LastCell(o) <= e * Chunk
      /\ LastCell(o) = o.cell + Board!Length(o) - 1 /\ Board!Length(o) \in {Pointer, Signature}
  BY SizesLemma, ObjectLemma DEF EndsIn
<1>2. Board!Length(o) = Pointer
  BY <1>1, SizesLemma
<1>3. ASSUME NEW q \in Board!Objects, Board!PatternOf(q) = Board!PatternOf(o), q # o
      PROVE  /\ Board!Length(q) = Pointer /\ q.cell \in Nat
             /\ q.cell + Pointer <= o.cell \/ o.cell + Pointer <= q.cell
             /\ LastCell(q) = q.cell + Pointer - 1
  BY <1>2, <1>3, PatternLemma, ApartLemma, ObjectLemma DEF LastCell
<1>4. ASSUME NEW d \in 1..e, NEW q \in Board!Window(d, U), Board!PatternOf(q) = Board!PatternOf(o)
      PROVE  q.cell <= o.cell
  <2>1. CASE q = o
    BY <1>1, <2>1
  <2>2. CASE q # o
    <3>1. q \in Board!Objects /\ LastCell(q) <= d * Chunk
      BY DEF Board!Window, LastCell
    <3>2. d \in Nat /\ d <= e /\ d * Chunk <= e * Chunk /\ d * Chunk \in Nat
      BY <1>1, SizesLemma
    <3>. QED
      BY <1>1, <1>3, <1>4, <2>2, <3>1, <3>2, SizesLemma
  <2>. QED
    BY <2>1, <2>2
<1>5. ASSUME NEW q \in Board!Window(e + 1, U), Board!PatternOf(q) = Board!PatternOf(o)
      PROVE  o.cell <= q.cell
  <2>1. CASE q = o
    BY <1>1, <2>1
  <2>2. CASE q # o
    <3>1. q \in Board!Objects /\ q.cell >= Board!FirstCell(e + 1, U)
      BY DEF Board!Window
    <3>2. Board!FirstCell(e + 1, U) \in Int
          /\ Board!FirstCell(e + 1, U) >= e * Chunk + 2 - Signature
      BY <1>1, FirstCellLemma, SizesLemma
    <3>. QED
      BY <1>1, <1>2, <1>3, <1>5, <2>2, <3>1, <3>2, SizesLemma
  <2>. QED
    BY <2>1, <2>2
<1>6. e \in 1..(e + 1 - 1) /\ 1..(e + 1 - 1) = 1..e
  BY <1>1
<1>7. Board!LastReported(o, e + 1, U)
  BY <1>4, <1>6 DEF Board!LastReported
<1>. QED
  BY <1>5, <1>7 DEF Board!Fresh

\* The chunk an object ends in finds it when its cells can be read.
LEMMA FoundLemma ==
  ASSUME present \subseteq Board!Sets, NEW o \in Board!Objects, NEW U,
         NEW e, EndsIn(o, e), Readable(o, U)
  PROVE  o \in Board!Window(e, U)
<1>1. /\ e \in 1..Chunks /\ e \in Nat /\ e >= 1 /\ (e - 1) * Chunk \in Nat
      /\ (e - 1) * Chunk < LastCell(o) /\ LastCell(o) <= e * Chunk
      /\ o.cell \in Nat /\ o.cell >= 1 /\ LastCell(o) \in Nat
      /\ LastCell(o) = o.cell + Board!Length(o) - 1 /\ Board!Length(o) \in {Pointer, Signature}
  BY SizesLemma, ObjectLemma DEF EndsIn
<1>2. o.cell <= LastCell(o) /\ LastCell(o) - o.cell <= Signature - 1
  BY <1>1, SizesLemma
<1>3. e \notin U
  <2>1. LastCell(o) \in o.cell..(o.cell + Board!Length(o) - 1)
        /\ LastCell(o) \in ((e - 1) * Chunk + 1)..(e * Chunk)
    BY <1>1, <1>2, SizesLemma
  <2>. QED
    BY <2>1 DEF Readable
<1>4. o.cell >= Board!FirstCell(e, U)
  <2>1. CASE e = 1
    <3>1. Board!FirstCell(e, U) = 1
      BY <1>1, <2>1, FirstCellLemma, SizesLemma
    <3>. QED
      BY <1>1, <3>1
  <2>2. CASE e # 1 /\ e - 1 \in U
    <3>1. Board!FirstCell(e, U) = (e - 1) * Chunk + 1
      BY <1>1, <2>2, FirstCellLemma
    <3>2. SUFFICES ASSUME o.cell <= (e - 1) * Chunk PROVE FALSE
      BY <1>1, <3>1
    <3>3. (e - 1) * Chunk = (e - 1 - 1) * Chunk + Chunk /\ (e - 1 - 1) * Chunk \in Nat
      BY <1>1, <2>2, SizesLemma
    <3>4. /\ (e - 1) * Chunk \in o.cell..(o.cell + Board!Length(o) - 1)
          /\ (e - 1) * Chunk \in ((e - 1 - 1) * Chunk + 1)..((e - 1) * Chunk)
      BY <1>1, <3>2, <3>3, SizesLemma
    <3>. QED
      BY <2>2, <3>4 DEF Readable
  <2>3. CASE e # 1 /\ e - 1 \notin U
    <3>1. Board!FirstCell(e, U) = (e - 1) * Chunk + 2 - Signature
      BY <1>1, <2>3, FirstCellLemma
    <3>. QED
      BY <1>1, <1>2, <3>1, SizesLemma
  <2>. QED
    BY <2>1, <2>2, <2>3
<1>. QED
  BY <1>1, <1>3, <1>4 DEF Board!Window, LastCell

\* Two chunks have no cell in common.
LEMMA ChunksApart ==
  ASSUME NEW c \in Nat, NEW d \in Nat, NEW x \in ((c - 1) * Chunk + 1)..(c * Chunk),
         x \in ((d - 1) * Chunk + 1)..(d * Chunk)
  PROVE  c = d
<1>1. ASSUME NEW a \in Nat, NEW b \in Nat, a < b,
             x \in ((a - 1) * Chunk + 1)..(a * Chunk), x \in ((b - 1) * Chunk + 1)..(b * Chunk)
      PROVE  FALSE
  <2>1. a <= b - 1 /\ b - 1 \in Nat
    BY <1>1
  <2>2. a * Chunk <= (b - 1) * Chunk /\ a * Chunk \in Nat /\ (b - 1) * Chunk \in Nat
    BY <2>1, SizesLemma
  <2>. QED
    BY <1>1, <2>2
<1>. QED
  BY <1>1

\* What the search of a chunk finds could be read.
LEMMA ReadLemma ==
  ASSUME present \subseteq Board!Sets, NEW o \in Board!Objects, NEW U, U \subseteq 1..Chunks,
         NEW c \in 1..Chunks, o \in Board!Window(c, U)
  PROVE  Readable(o, U)
<1>1. PICK e \in 1..Chunks : EndsIn(o, e)
  BY EndLemma
<1>2. /\ e \in Nat /\ e >= 1 /\ (e - 1) * Chunk \in Nat /\ e * Chunk = (e - 1) * Chunk + Chunk
      /\ (e - 1) * Chunk < LastCell(o) /\ LastCell(o) <= e * Chunk
      /\ o.cell \in Nat /\ o.cell >= 1 /\ LastCell(o) \in Nat
      /\ LastCell(o) = o.cell + Board!Length(o) - 1 /\ Board!Length(o) \in {Pointer, Signature}
  BY <1>1, SizesLemma, ObjectLemma, FirstCellLemma DEF EndsIn
<1>3. SUFFICES ASSUME NEW d \in U, NEW x \in o.cell..(o.cell + Board!Length(o) - 1),
                      x \in ((d - 1) * Chunk + 1)..(d * Chunk)
               PROVE  FALSE
  BY DEF Readable
<1>4. d \in Nat /\ x \in Nat /\ o.cell <= x /\ x <= LastCell(o)
  BY <1>2, <1>3, SizesLemma
<1>5. CASE x > (e - 1) * Chunk
  <2>1. e * Chunk \in Nat /\ x <= e * Chunk
    BY <1>2, <1>4, SizesLemma
  <2>4. x \in ((e - 1) * Chunk + 1)..(e * Chunk)
    BY <1>2, <1>4, <1>5, <2>1
  <2>2. d = e
    BY <1>2, <1>3, <1>4, <2>4, ChunksApart
  <2>3. e \notin U
    BY <1>1, WindowLemma DEF Board!Window
  <2>. QED
    BY <2>2, <2>3
<1>6. CASE x <= (e - 1) * Chunk
  <2>1. c = e
    <3>1. c = e \/ o.cell >= e * Chunk + 2 - Signature
      BY <1>1, WindowLemma
    <3>. QED
      BY <1>2, <1>4, <1>6, <3>1, SizesLemma
  <2>2. e # 1
    BY <1>4, <1>2, <1>6, SizesLemma
  <2>3. o.cell >= Board!FirstCell(e, U)
    BY <2>1 DEF Board!Window
  <2>4. e - 1 \notin U /\ o.cell >= (e - 1) * Chunk + 2 - Signature
    <3>1. e - 1 \in U => Board!FirstCell(e, U) = (e - 1) * Chunk + 1
      BY FirstCellLemma
    <3>2. e - 1 \notin U => Board!FirstCell(e, U) = (e - 1) * Chunk + 2 - Signature
      BY <2>2, FirstCellLemma
    <3>. QED
      BY <1>2, <1>4, <1>6, <2>3, <3>1, <3>2
  <2>5. (e - 1) * Chunk = (e - 1 - 1) * Chunk + Chunk /\ (e - 1 - 1) * Chunk \in Nat
    BY <1>2, <2>2, SizesLemma
  <2>6. x \in ((e - 1 - 1) * Chunk + 1)..((e - 1) * Chunk)
    BY <1>2, <1>4, <1>6, <2>4, <2>5, SizesLemma
  <2>7. d = e - 1
    BY <1>2, <1>3, <1>4, <2>2, <2>6, ChunksApart
  <2>. QED
    BY <2>4, <2>7
<1>. QED
  BY <1>2, <1>4, <1>5, <1>6

\* FindPatterns reports an object once when it can be read, and else never.
LEMMA SearchLemma ==
  ASSUME present \subseteq Board!Sets, NEW o \in Board!Objects, NEW U, U \subseteq 1..Chunks
  PROVE  /\ Readable(o, U) =>
              \E e : {r \in Board!FindPatterns(U) : r.object = o} = {Board!Report(e, o)}
         /\ ~Readable(o, U) => {r \in Board!FindPatterns(U) : r.object = o} = {}
<1>1. \A r : r \in Board!FindPatterns(U) /\ r.object = o
             <=> \E c \in 1..Chunks : r = Board!Report(c, o) /\ o \in Board!Fresh(c, U)
  BY DEF Board!FindPatterns, Board!Report
<1>2. \A c : Board!Fresh(c, U) \subseteq Board!Window(c, U)
  BY DEF Board!Fresh
<1>3. ASSUME Readable(o, U)
      PROVE  \E e : {r \in Board!FindPatterns(U) : r.object = o} = {Board!Report(e, o)}
  <2>1. PICK e \in 1..Chunks : EndsIn(o, e)
    BY EndLemma
  <2>2. o \in Board!Window(e, U)
    BY <1>3, <2>1, FoundLemma
  <2>3. e \in Nat /\ e + 1 # e /\ \A c \in 1..(e - 1) : c \in 1..Chunks /\ c # e /\ c # e + 1
    BY SizesLemma
  <2>4. ASSUME NEW c \in 1..Chunks, o \in Board!Window(c, U)
        PROVE  c = e \/ (c = e + 1 /\ o.cell >= e * Chunk + 2 - Signature)
    BY <2>1, <2>4, WindowLemma
  <2>8. \A c \in 1..(e - 1) : o \notin Board!Window(c, U)
    BY <2>3, <2>4
  <2>5. ~Board!LastReported(o, e, U)
    BY <2>8 DEF Board!LastReported
  <2>6. o \in Board!Fresh(e, U)
    BY <2>2, <2>5 DEF Board!Fresh
  <2>7. ASSUME NEW c \in 1..Chunks, o \in Board!Fresh(c, U) PROVE c = e
    <3>1. c = e \/ (c = e + 1 /\ o.cell >= e * Chunk + 2 - Signature)
      BY <1>2, <2>4, <2>7
    <3>. QED
      BY <2>1, <2>2, <2>7, <3>1, CarryLemma
  <2>. QED
    BY <1>1, <2>6, <2>7, Zenon
<1>4. ASSUME ~Readable(o, U)
      PROVE  {r \in Board!FindPatterns(U) : r.object = o} = {}
  BY <1>1, <1>2, <1>4, ReadLemma
<1>. QED
  BY <1>3, <1>4

LEMMA BoardCardinality == ASSUME NEW S PROVE Board!Cardinality(S) = Cardinality(S)
BY DEF Board!Cardinality, Cardinality

LEMMA OneOf ==
  ASSUME NEW S, Board!Cardinality(S) = 1
  PROVE  S # {}
<1>1. Cardinality(S) = 1
  BY BoardCardinality
<1>. QED
  BY <1>1, FS_EmptySet

LEMMA BoardSeenLemma == BoardSeen => Board!FindsEachOnce
<1>1. SUFFICES ASSUME BoardSeen, found # {}, ~moved, NEW o \in Board!Objects
               PROVE  Board!Cardinality({r \in found : r.object = o})
                        = (IF Readable(o, failed) THEN 1 ELSE 0)
  BY DEF Board!FindsEachOnce, Readable
<1>2. found = Board!FindPatterns(failed) /\ present \subseteq Board!Sets /\ failed \subseteq 1..Chunks
  BY <1>1, CommandsAssumption DEF BoardSeen, Board!BoardAssumption
<1>3. /\ Readable(o, failed) => \E e : {r \in found : r.object = o} = {Board!Report(e, o)}
      /\ ~Readable(o, failed) => {r \in found : r.object = o} = {}
  BY <1>1, <1>2, SearchLemma
<1>. QED
  BY <1>3, BoardCardinality, FS_Singleton, FS_EmptySet, Zenon

\* What a search finds depends on what is in memory.
LEMMA SearchStays ==
  ASSUME present' = present, NEW U, failed' = U
  PROVE  Board!FindPatterns(failed)' = Board!FindPatterns(U)
<1>1. Board!Objects' = Board!Objects
  BY DEF Board!Objects
<1>2. \A c : Board!Window(c, failed)' = Board!Window(c, U)
  BY <1>1 DEF Board!Window, Board!FirstCell, Board!Length
<1>. QED
  BY <1>1, <1>2 DEF Board!FindPatterns, Board!Fresh, Board!LastReported

LEMMA InitSearch == CommandsInit => SearchInvariant
BY DEF CommandsInit, Board!Init, SearchInvariant, BoardSeen

LEMMA NextSearch == SearchInvariant /\ [CommandsNext]_commandVars => SearchInvariant'
<1>1. ASSUME BoardSeen, UNCHANGED <<live, present, failed, found, moved>>
      PROVE  BoardSeen'
  <2>1. Board!FindPatterns(failed)' = Board!FindPatterns(failed)
    BY <1>1, SearchStays
  <2>. QED
    BY <1>1, <2>1 DEF BoardSeen, Board!Sets
<1>2. ASSUME BoardSeen, UNCHANGED <<live, present>>, found' = {} PROVE BoardSeen'
  BY <1>2 DEF BoardSeen, Board!Sets
<1>3. ASSUME BoardSeen, Board!Discover PROVE BoardSeen'
  <2>1. PICK U \in Unreadable : failed' = U /\ found' = Board!FindPatterns(U)
    BY <1>3 DEF Board!Discover
  <2>2. UNCHANGED <<live, present>>
    BY <1>3 DEF Board!Discover, Board!Finish, Board!game
  <2>3. Board!FindPatterns(failed)' = Board!FindPatterns(U)
    BY <2>1, <2>2, SearchStays
  <2>. QED
    BY <1>3, <2>1, <2>2, <2>3 DEF BoardSeen, Board!Sets
<1>4. ASSUME BoardSeen, Board!Play \/ Board!LoadDynasty PROVE BoardSeen'
  BY <1>4 DEF BoardSeen, Board!Play, Board!LoadDynasty, Board!Sets
<1>5. ASSUME BoardSeen, Board!Next PROVE BoardSeen'
  <2>1. CASE Board!Request
    BY <1>2, <1>5, <2>1 DEF Board!Request, Board!game
  <2>2. CASE Board!UseCache
    BY <1>1, <1>5, <2>2 DEF Board!UseCache, Board!game, Board!found_
  <2>3. CASE Board!ReadBefore
    BY <1>2, <1>5, <2>3 DEF Board!ReadBefore, Board!game, Board!Finish
  <2>4. CASE Board!CallNative
    BY <1>1, <1>5, <2>4 DEF Board!CallNative, Board!found_
  <2>5. CASE Board!ReadAfter
    BY <1>1, <1>5, <2>5 DEF Board!ReadAfter, Board!game, Board!Finish, Board!found_
  <2>6. CASE Board!Ended
    BY <1>1, <1>5, <2>6 DEF Board!Ended, Board!vars, Board!game, Board!found_
  <2>. QED
    BY <1>3, <1>4, <1>5, <2>1, <2>2, <2>3, <2>4, <2>5, <2>6 DEF Board!Next
<1>6. CASE which # "board"
  BY <1>6 DEF SearchInvariant, CommandsNext, ScanStep, PipeStep, commandVars
<1>7. CASE which = "board" /\ CommandsNext
  BY <1>5, <1>7 DEF SearchInvariant, CommandsNext, ScanStep, PipeStep
<1>8. CASE UNCHANGED commandVars
  BY <1>1, <1>8 DEF SearchInvariant, commandVars, shared, boardOnly
<1>. QED
  BY <1>6, <1>7, <1>8

\* For any places of the objects, sizes of the patterns and the chunks, and
\* chunks that cannot be read, FindPatterns (board_mutation.cpp, lines 194 to
\* 241) loses no object at the end of a chunk and reports none twice.
THEOREM SearchIsExact == CommandsSpec => []FindsEachOnce
<1>1. SearchInvariant => FindsEachOnce
  BY BoardSeenLemma DEF SearchInvariant, FindsEachOnce
<1>. QED
  BY <1>1, InitSearch, NextSearch, PTL DEF CommandsSpec

-----------------------------------------------------------------------------
(* A mutation of the board: what was read before the call, the call, and    *)
(* the postcondition.  The routine changes the freelist heads last (the add *)
(* the one of the pitches, the remove the one of the targets); one that     *)
(* stopped before leaves the head where it was, which the postcondition     *)
(* takes for a success only if the head were also its own successor, or a   *)
(* row on the board: no sound table has that.                               *)

BoardTable ==
  [slots : [1..BoardSlots -> 0..Rows],
   target : [Board!Row -> [recruit : Recruits \cup {Board!Cleared}, pitch : Int]],
   tnext : [Board!Row -> Int], thead : Int, pnext : [Board!Row -> Int], phead : Int]

LeadsToSets(c) == {c.set, c.targets, c.pitches, c.membership} \subseteq Board!Sets

BoardTyped ==
  /\ tables \in [Board!Sets -> BoardTable] /\ live \in Board!Sets
  /\ present \subseteq Board!Sets
  /\ request \in [op : {"add", "remove"}, recruit : Recruits \cup {Board!Cleared}]
  /\ cache # Board!None => LeadsToSets(cache)
  /\ pc \in {"before", "call", "after", "APPLIED"} => LeadsToSets(view)

\* What an add and a remove have read before the call.
FreePitchRead ==
  LET t == tablesBefore[view.pitches]
  IN  t.phead \in Board!Row /\ next[2] = t.pnext[t.phead]
RecruitRead ==
  /\ \E s \in DOMAIN before : before[s].recruit = request.recruit
  /\ \A s \in DOMAIN before :
       /\ before[s].target \in Board!Row
       /\ tablesBefore[view.targets].target[before[s].target].recruit # Board!Cleared
Prepared ==
  /\ tablesBefore \in [Board!Sets -> BoardTable]
  /\ request.op = "add" => FreePitchRead
  /\ request.op = "remove" => RecruitRead

\* The tables when the routine has made its first n steps.
RanTo(n) ==
  tables = [tablesBefore EXCEPT ![view.set] = Board!Routine(request.op, request.recruit, n, @)]

CouldRun == Board!CanRun(request.op, request.recruit, tablesBefore[view.set])

CallState ==
  /\ pc = "before" => view.heads[2] = tables[view.pitches].phead
  /\ pc \in {"call", "after"} => Prepared
  /\ pc = "call" => tables = tablesBefore
  /\ pc = "after" => \E n \in 0..3 : RanTo(n) /\ (CouldRun \/ n = 0)
  /\ Board!AppliedIsWhole

BoardState == BoardTyped /\ (~moved => CallState)

BoardInvariant == which = "board" => BoardState

-----------------------------------------------------------------------------
LEMMA BoardSizes ==
  /\ BoardSlots \in Nat /\ Rows \in Nat /\ Board!Row = 1..Rows
  /\ Board!Cleared \notin Recruits
BY CommandsAssumption DEF Board!BoardAssumption, Board!Row, Board!Cleared

\* The steps of the routines keep the types; the first two of an add leave the
\* freelist of the pitches, those of a remove that of the targets.
LEMMA StepLemma ==
  ASSUME NEW recruit \in Recruits \cup {Board!Cleared}, NEW r \in Board!Row, NEW t \in BoardTable
  PROVE  /\ Board!List(recruit, r, t) \in BoardTable
         /\ Board!List(recruit, r, t).phead = t.phead
         /\ Board!List(recruit, r, t).target[r].pitch = t.phead
         /\ Board!TakeTarget(r, t) \in BoardTable
         /\ Board!TakeTarget(r, t).phead = t.phead
         /\ Board!TakeTarget(r, t).target = t.target
         /\ t.target[r].pitch \in Board!Row => Board!TakePitch(r, t) \in BoardTable
         /\ Board!Unlist(r, t) \in BoardTable
         /\ Board!Unlist(r, t).thead = t.thead
         /\ Board!ReturnPitch(r, t) \in BoardTable
         /\ Board!ReturnPitch(r, t).thead = t.thead
         /\ Board!ReturnTarget(r, t) \in BoardTable
<1> DEFINE end == Board!Cardinality({s \in 1..BoardSlots : t.slots[s] # 0}) + 1
           gone == CHOOSE s \in 1..BoardSlots : t.slots[s] = r
           pitch == t.target[r].pitch
           moved_ == [s \in 1..BoardSlots |->
                       IF s < gone THEN t.slots[s]
                       ELSE IF s < BoardSlots THEN t.slots[s + 1] ELSE 0]
           Target == [recruit : Recruits \cup {Board!Cleared}, pitch : Int]
<1>1. /\ r \in 1..Rows /\ Rows \in Nat /\ BoardSlots \in Nat /\ Board!Row = 1..Rows
      /\ r \in 0..Rows /\ r \in Int
  BY BoardSizes
<1>2. /\ t.slots \in [1..BoardSlots -> 0..Rows]
      /\ t.target \in [Board!Row -> Target]
      /\ t.tnext \in [Board!Row -> Int] /\ t.thead \in Int
      /\ t.pnext \in [Board!Row -> Int] /\ t.phead \in Int
  BY DEF BoardTable
<1>3. pitch \in Int /\ t.tnext[r] \in Int /\ r \in Board!Row
  BY <1>1, <1>2
<1>4. moved_ \in [1..BoardSlots -> 0..Rows]
  <2>1. \A s \in 1..BoardSlots : s < BoardSlots => s + 1 \in 1..BoardSlots
    BY <1>1
  <2> HIDE DEF gone
  <2>. QED
    BY <1>1, <1>2, <2>1
<1> HIDE DEF end, gone, pitch
<1>5. /\ Board!List(recruit, r, t) \in BoardTable
      /\ Board!List(recruit, r, t).phead = t.phead
      /\ Board!List(recruit, r, t).target[r].pitch = t.phead
  <2>1. Board!List(recruit, r, t) =
          [t EXCEPT !.slots[end] = r, !.target[r] = [recruit |-> recruit, pitch |-> t.phead]]
    BY Zenon DEF Board!List, end
  <2>2. /\ [t.slots EXCEPT ![end] = r] \in [1..BoardSlots -> 0..Rows]
        /\ [t.target EXCEPT ![r] = [recruit |-> recruit, pitch |-> t.phead]]
             \in [Board!Row -> Target]
        /\ [t.target EXCEPT ![r] = [recruit |-> recruit, pitch |-> t.phead]][r].pitch = t.phead
    BY <1>1, <1>2
  <2>. QED
    BY <1>2, <2>1, <2>2 DEF BoardTable
<1>6. /\ Board!TakeTarget(r, t) \in BoardTable
      /\ Board!TakeTarget(r, t).phead = t.phead
      /\ Board!TakeTarget(r, t).target = t.target
  <2>1. Board!TakeTarget(r, t) = [t EXCEPT !.thead = t.tnext[r], !.tnext[r] = 0]
    BY Zenon DEF Board!TakeTarget
  <2>2. [t.tnext EXCEPT ![r] = 0] \in [Board!Row -> Int]
    BY <1>2
  <2>. QED
    BY <1>2, <1>3, <2>1, <2>2 DEF BoardTable
<1>7. ASSUME pitch \in Board!Row PROVE Board!TakePitch(r, t) \in BoardTable
  <2>1. Board!TakePitch(r, t) = [t EXCEPT !.phead = t.pnext[pitch], !.pnext[pitch] = 0]
    BY Zenon DEF Board!TakePitch, pitch
  <2>2. /\ [t.pnext EXCEPT ![pitch] = 0] \in [Board!Row -> Int]
        /\ t.pnext[pitch] \in Int
    BY <1>2, <1>7
  <2>. QED
    BY <1>2, <1>3, <2>1, <2>2 DEF BoardTable
<1>8. Board!Unlist(r, t) \in BoardTable /\ Board!Unlist(r, t).thead = t.thead
  <2>1. Board!Unlist(r, t) = [t EXCEPT !.slots = moved_]
    BY Zenon DEF Board!Unlist, gone
  <2> HIDE DEF moved_
  <2>. QED
    BY <1>2, <1>4, <2>1 DEF BoardTable
<1>9. Board!ReturnPitch(r, t) \in BoardTable /\ Board!ReturnPitch(r, t).thead = t.thead
  <2>1. Board!ReturnPitch(r, t) = [t EXCEPT !.pnext[pitch] = t.phead, !.phead = pitch]
    BY Zenon DEF Board!ReturnPitch, pitch
  <2>2. [t.pnext EXCEPT ![pitch] = t.phead] \in [Board!Row -> Int]
    BY <1>2
  <2>. QED
    BY <1>2, <1>3, <2>1, <2>2 DEF BoardTable
<1>10. Board!ReturnTarget(r, t) \in BoardTable
  <2>1. Board!ReturnTarget(r, t) =
          [t EXCEPT !.target[r] = [recruit |-> Board!Cleared, pitch |-> 0],
                    !.tnext[r] = t.thead, !.thead = r]
    BY Zenon DEF Board!ReturnTarget
  <2>2. /\ [t.target EXCEPT ![r] = [recruit |-> Board!Cleared, pitch |-> 0]]
             \in [Board!Row -> Target]
        /\ [t.tnext EXCEPT ![r] = t.thead] \in [Board!Row -> Int]
    BY <1>2
  <2>. QED
    BY <1>1, <1>2, <2>1, <2>2 DEF BoardTable
<1>. QED
  BY <1>5, <1>6, <1>7, <1>8, <1>9, <1>10 DEF pitch

\* A routine that can run keeps the types, and one that stops before its last
\* step the head it changes last.
LEMMA RoutineLemma ==
  ASSUME NEW op \in {"add", "remove"}, NEW recruit \in Recruits \cup {Board!Cleared},
         NEW t \in BoardTable, NEW n \in 0..3, Board!CanRun(op, recruit, t) \/ n = 0
  PROVE  /\ Board!Routine(op, recruit, n, t) \in BoardTable
         /\ op = "add" /\ n # 3 => Board!Routine(op, recruit, n, t).phead = t.phead
         /\ op = "remove" /\ n # 3 => Board!Routine(op, recruit, n, t).thead = t.thead
<1> DEFINE r == Board!RowFor(op, recruit, t)
           one == IF op = "add" THEN Board!List(recruit, r, t) ELSE Board!Unlist(r, t)
           two == IF op = "add" THEN Board!TakeTarget(r, one) ELSE Board!ReturnPitch(r, one)
           three == IF op = "add" THEN Board!TakePitch(r, two) ELSE Board!ReturnTarget(r, two)
<1>1. /\ n = 0 => Board!Routine(op, recruit, n, t) = t
      /\ n = 1 => Board!Routine(op, recruit, n, t) = one
      /\ n = 2 => Board!Routine(op, recruit, n, t) = two
      /\ n = 3 => Board!Routine(op, recruit, n, t) = three
  BY DEF Board!Routine
<1>2. CASE n = 0
  BY <1>1, <1>2
<1>3. CASE op = "add" /\ Board!CanRun(op, recruit, t)
  <2>1. r \in Board!Row /\ t.phead \in Board!Row
    BY <1>3 DEF Board!RowFor, Board!CanRun
  <2>2. one = Board!List(recruit, r, t) /\ two = Board!TakeTarget(r, one) /\ three = Board!TakePitch(r, two)
    BY <1>3
  <2> HIDE DEF r, one, two, three
  <2>3. one \in BoardTable /\ one.phead = t.phead /\ one.target[r].pitch = t.phead
    BY <2>1, <2>2, StepLemma
  <2>4. two \in BoardTable /\ two.phead = t.phead /\ two.target[r].pitch = t.phead
    BY <2>1, <2>2, <2>3, StepLemma
  <2>5. three \in BoardTable
    BY <2>1, <2>2, <2>4, StepLemma
  <2>. QED
    BY <1>1, <1>3, <2>3, <2>4, <2>5
<1>4. CASE op = "remove" /\ Board!CanRun(op, recruit, t)
  <2>1. \E s \in 1..BoardSlots : t.slots[s] # 0 /\ t.target[t.slots[s]].recruit = recruit
    BY <1>4 DEF Board!CanRun, Board!OnBoard
  <2>2. PICK s \in 1..BoardSlots : t.slots[s] # 0 /\ r = t.slots[s]
    BY <1>4, <2>1 DEF Board!RowFor
  <2>3. r \in Board!Row
    BY <2>2, BoardSizes DEF BoardTable
  <2>4. one = Board!Unlist(r, t) /\ two = Board!ReturnPitch(r, one) /\ three = Board!ReturnTarget(r, two)
    BY <1>4
  <2> HIDE DEF r, one, two, three
  <2>5. one \in BoardTable /\ one.thead = t.thead
    BY <2>3, <2>4, StepLemma
  <2>6. two \in BoardTable /\ two.thead = t.thead
    BY <2>3, <2>4, <2>5, StepLemma
  <2>7. three \in BoardTable
    BY <2>3, <2>4, <2>6, StepLemma
  <2>. QED
    BY <1>1, <1>4, <2>5, <2>6, <2>7
<1>. QED
  BY <1>2, <1>3, <1>4

LEMMA NewTablesLemma == ASSUME NEW b \in Boards PROVE Board!NewTables(b) \in BoardTable
<1>1. b \in Seq(Recruits) /\ Len(b) \in Nat /\ Len(b) <= BoardSlots /\ Len(b) <= Rows
  BY CommandsAssumption DEF Board!BoardAssumption
<1> DEFINE n == Len(b)
           chain == [r \in Board!Row |-> IF r <= n THEN 0 ELSE r + 1]
           slots == [s \in 1..BoardSlots |-> IF s <= n THEN s ELSE 0]
           target == [r \in Board!Row |-> IF r <= n THEN [recruit |-> b[r], pitch |-> r]
                                          ELSE [recruit |-> Board!Cleared, pitch |-> 0]]
<1>2. Board!NewTables(b) = [slots |-> slots, target |-> target, tnext |-> chain,
                            thead |-> n + 1, pnext |-> chain, phead |-> n + 1]
  BY Zenon DEF Board!NewTables
<1>3. chain \in [Board!Row -> Int] /\ slots \in [1..BoardSlots -> 0..Rows] /\ n + 1 \in Int
  BY <1>1, BoardSizes
<1>4. target \in [Board!Row -> [recruit : Recruits \cup {Board!Cleared}, pitch : Int]]
  <2>1. ASSUME NEW r \in Board!Row PROVE r \in Int /\ (r <= n => b[r] \in Recruits)
    BY <1>1, BoardSizes
  <2>. QED
    BY <2>1
<1> HIDE DEF chain, slots, target, n
<1>. QED
  BY <1>2, <1>3, <1>4 DEF BoardTable

\* What ReadBoard returns of a board it finds valid.
LEMMA ReadBoardLemma ==
  ASSUME BoardTyped, LeadsToSets(view), NEW b, b = Board!ReadBoard(view), b.valid,
         NEW s \in DOMAIN b.items
  PROVE  /\ b.items[s].target \in Board!Row
         /\ tables[view.targets].target[b.items[s].target].recruit # Board!Cleared
<1> DEFINE slots == tables[view.membership].slots
           used == {z \in 1..BoardSlots : slots[z] # 0}
           Row(z) == tables[view.targets].target[slots[z]]
           n == Board!Cardinality(used)
           items == [z \in 1..n |-> IF z \in used
                                    THEN [target |-> slots[z], recruit |-> Row(z).recruit,
                                          pitch |-> Row(z).pitch]
                                    ELSE [target |-> 0, recruit |-> Board!Cleared, pitch |-> 0]]
<1>1. b = [valid |-> used = 1..n /\ \A z \in used : Row(z).recruit # Board!Cleared,
           items |-> items]
  BY Zenon DEF Board!ReadBoard
<1>2. used = 1..n /\ (\A z \in used : Row(z).recruit # Board!Cleared) /\ b.items = items
  <2> DEFINE good == used = 1..n /\ \A z \in used : Row(z).recruit # Board!Cleared
  <2>1. b = [valid |-> good, items |-> items]
    BY <1>1
  <2> HIDE DEF good, items
  <2>4. [valid |-> good, items |-> items].valid = good /\ [valid |-> good, items |-> items].items = items
    OBVIOUS
  <2>2. b.valid = good /\ b.items = items
    BY <2>1, <2>4
  <2>3. good
    BY <2>2
  <2>. QED
    BY <2>2, <2>3 DEF good
<1>3. tables[view.membership] \in BoardTable
  BY DEF BoardTyped, LeadsToSets
<1>4. s \in used /\ b.items[s].target = slots[s]
  <2>1. s \in 1..n
    BY <1>2
  <2>2. s \in used
    BY <1>2, <2>1
  <2> HIDE DEF used, n, slots, Row
  <2>. QED
    BY <1>2, <2>1, <2>2
<1>5. slots[s] \in Board!Row
  BY <1>3, <1>4, BoardSizes DEF BoardTable
<1>. QED
  BY <1>2, <1>4, <1>5

\* The postcondition tells a routine that did not run to its end.
LEMMA VerifiedLemma ==
  ASSUME BoardTyped, LeadsToSets(view), Prepared, NEW n \in 0..3, RanTo(n),
         NEW after, Board!Verified(after),
         CouldRun \/ n = 0,
         Board!Sound(tablesBefore[view.targets]), Board!Sound(tablesBefore[view.pitches])
  PROVE  RanTo(3)
<1>1. /\ request.op \in {"add", "remove"} /\ request.recruit \in Recruits \cup {Board!Cleared}
      /\ tablesBefore \in [Board!Sets -> BoardTable]
      /\ view.set \in Board!Sets /\ view.targets \in Board!Sets /\ view.pitches \in Board!Sets
  BY DEF BoardTyped, LeadsToSets, Prepared
<1>2. SUFFICES ASSUME n # 3 PROVE FALSE
  OBVIOUS
<1> DEFINE was == tablesBefore[view.set]
           is == Board!Routine(request.op, request.recruit, n, was)
<1>3. tables = [tablesBefore EXCEPT ![view.set] = is]
  BY <1>1 DEF RanTo
<1>4. /\ request.op = "add" => is.phead = was.phead
      /\ request.op = "remove" => is.thead = was.thead
  <2>1. Board!CanRun(request.op, request.recruit, was) \/ n = 0
    BY DEF CouldRun
  <2>. QED
    BY <1>1, <1>2, <2>1, RoutineLemma
<1> HIDE DEF is
<1>5. CASE request.op = "add"
  <2> DEFINE t == tablesBefore[view.pitches]
  <2>1. tables[view.pitches].phead = t.phead
    BY <1>1, <1>3, <1>4, <1>5
  <2>2. t.phead \in Board!Row /\ t.pnext[t.phead] = t.phead
    BY <1>5, <2>1 DEF Board!Verified, Board!AddVerified, Prepared, FreePitchRead
  <2>. QED
    BY <2>2 DEF Board!Sound, Board!Chain
<1>6. CASE request.op = "remove"
  <2> DEFINE t == tablesBefore[view.targets]
             removed == before[CHOOSE s \in DOMAIN before : before[s].recruit = request.recruit]
  <2>1. tables[view.targets].thead = t.thead
    BY <1>1, <1>3, <1>4, <1>6
  <2>2. removed.target \in Board!Row /\ t.target[removed.target].recruit # Board!Cleared
    BY <1>6 DEF Prepared, RecruitRead
  <2>3. tables[view.targets].thead = removed.target
    BY <1>6 DEF Board!Verified, Board!RemoveVerified
  <2>. QED
    BY <2>1, <2>2, <2>3 DEF Board!Sound, Board!Chain
<1>. QED
  BY <1>1, <1>5, <1>6

LEMMA BoardStays ==
  ASSUME BoardState,
         UNCHANGED <<tables, live, present, request, cache, pc, view, before, next, tablesBefore,
                     moved>>
  PROVE  BoardState'
<1>1. BoardTyped'
  BY DEF BoardState, BoardTyped, BoardTable, LeadsToSets, Board!Sets, Board!Row
<1>2. /\ RanTo(3)' = RanTo(3) /\ \A n : RanTo(n)' = RanTo(n)
      /\ CouldRun' = CouldRun /\ Prepared' = Prepared
      /\ Board!AppliedIsWhole' = Board!AppliedIsWhole
  BY DEF RanTo, CouldRun, Prepared, FreePitchRead, RecruitRead, Board!AppliedIsWhole,
         Board!Routine, Board!CanRun, Board!RowFor, Board!OnBoard, BoardTable,
         Board!Sets, Board!Row, Board!Sound
<1>. QED
  BY <1>1, <1>2 DEF BoardState, CallState

LEMMA RequestStep == BoardState /\ Board!Request => BoardState'
<1> SUFFICES ASSUME BoardState, Board!Request PROVE BoardState'
  OBVIOUS
<1>1. /\ pc' = "locate" /\ UNCHANGED <<tables, live, present, cache>>
      /\ request' \in [op : {"add", "remove"}, recruit : Recruits \cup {Board!Cleared}]
  BY DEF Board!Request, Board!game
<1>2. BoardTyped'
  BY <1>1 DEF BoardState, BoardTyped, BoardTable, LeadsToSets, Board!Sets, Board!Row
<1>3. CallState'
  BY <1>1 DEF CallState, Board!AppliedIsWhole
<1>. QED
  BY <1>2, <1>3 DEF BoardState

LEMMA UseCacheStep == BoardState /\ Board!UseCache => BoardState'
<1> SUFFICES ASSUME BoardState, Board!UseCache PROVE BoardState'
  OBVIOUS
<1>1. /\ pc' = "before" /\ view' = Board!ViewOf(cache) /\ cache # Board!None
      /\ UNCHANGED <<tables, live, present, request, cache, moved>>
  BY DEF Board!UseCache, Board!CacheValid, Board!game
<1>2. /\ view'.set = cache.set /\ view'.targets = cache.targets
      /\ view'.pitches = cache.pitches /\ view'.membership = cache.membership
      /\ view'.heads[2] = tables[cache.pitches].phead
  BY <1>1 DEF Board!ViewOf
<1>3. BoardTyped'
  BY <1>1, <1>2 DEF BoardState, BoardTyped, BoardTable, LeadsToSets, Board!Sets, Board!Row
<1>4. CallState'
  BY <1>1, <1>2 DEF CallState, Board!AppliedIsWhole
<1>. QED
  BY <1>3, <1>4 DEF BoardState

LEMMA DiscoverStep == BoardState /\ Board!Discover => BoardState'
<1> SUFFICES ASSUME BoardState, Board!Discover PROVE BoardState'
  OBVIOUS
<1>1. UNCHANGED <<tables, live, present, request, moved>>
  BY DEF Board!Discover, Board!Finish, Board!game
<1>2. PICK U \in Unreadable : \E seen \in {Board!FindPatterns(U)} :
        LET Seen(k) == {r \in seen : r.object.kind = k}
            best == [k \in Board!TableKinds |-> Board!Best(Seen(k))]
            SetOf(reports) == (CHOOSE r \in reports : TRUE).object.set
        IN  \/ cache' = Board!None /\ pc' \notin {"before", "call", "after", "APPLIED"}
            \/ /\ Board!Cardinality(Seen("controller")) = 1
               /\ \A k \in Board!TableKinds : best[k] # {}
               /\ cache' = [recruit |-> request.recruit, set |-> SetOf(Seen("controller")),
                            targets |-> SetOf(best["targets"]),
                            pitches |-> SetOf(best["pitches"]),
                            membership |-> SetOf(best["membership"])]
               /\ view' = Board!ViewOf(cache') /\ pc' = "before"
  BY DEF Board!Discover, Board!Finish
<1> DEFINE seen == Board!FindPatterns(U)
           Seen(k) == {r \in seen : r.object.kind = k}
           SetOf(reports) == (CHOOSE r \in reports : TRUE).object.set
<1>3. CASE cache' = Board!None /\ pc' \notin {"before", "call", "after", "APPLIED"}
  <2>1. BoardTyped'
    BY <1>1, <1>3 DEF BoardState, BoardTyped, BoardTable, LeadsToSets, Board!Sets, Board!Row
  <2>2. CallState'
    BY <1>3 DEF CallState, Board!AppliedIsWhole
  <2>. QED
    BY <2>1, <2>2 DEF BoardState
<1>4. \A r \in seen : r.object.set \in Board!Sets
  <2>1. ASSUME NEW r \in seen PROVE r.object \in Board!Objects
    BY DEF Board!FindPatterns, Board!Report, Board!Fresh, Board!Window
  <2>. QED
    BY <2>1, ObjectLemma DEF BoardState, BoardTyped
<1>5. CASE /\ Board!Cardinality(Seen("controller")) = 1
           /\ \A k \in Board!TableKinds : Board!Best(Seen(k)) # {}
           /\ cache' = [recruit |-> request.recruit, set |-> SetOf(Seen("controller")),
                        targets |-> SetOf(Board!Best(Seen("targets"))),
                        pitches |-> SetOf(Board!Best(Seen("pitches"))),
                        membership |-> SetOf(Board!Best(Seen("membership")))]
           /\ view' = Board!ViewOf(cache') /\ pc' = "before"
  <2>1. ASSUME NEW R, R \subseteq seen, R # {} PROVE SetOf(R) \in Board!Sets
    BY <1>4, <2>1
  <2>2. Seen("controller") # {}
    <3>1. Board!Cardinality(Seen("controller")) = 1
      BY <1>5
    <3> HIDE DEF Seen
    <3>. QED
      BY <3>1, OneOf, Zenon
  <2>3. \A k \in Board!TableKinds : Board!Best(Seen(k)) # {} /\ Board!Best(Seen(k)) \subseteq seen
    BY <1>5 DEF Board!Best
  <2>4. Seen("controller") \subseteq seen
    OBVIOUS
  <2>5. {"targets", "pitches", "membership"} \subseteq Board!TableKinds
    BY DEF Board!TableKinds
  <2>6. /\ SetOf(Seen("controller")) \in Board!Sets
        /\ SetOf(Board!Best(Seen("targets"))) \in Board!Sets
        /\ SetOf(Board!Best(Seen("pitches"))) \in Board!Sets
        /\ SetOf(Board!Best(Seen("membership"))) \in Board!Sets
    BY <2>1, <2>2, <2>3, <2>4, <2>5, Zenon
  <2> HIDE DEF SetOf, Seen, seen
  <2>7. LeadsToSets(cache')
    BY <1>5, <2>6 DEF LeadsToSets
  <2>8. /\ view'.set = cache'.set /\ view'.targets = cache'.targets
        /\ view'.pitches = cache'.pitches /\ view'.membership = cache'.membership
        /\ view'.heads[2] = tables[cache'.pitches].phead
    BY <1>5 DEF Board!ViewOf
  <2>9. BoardTyped'
    BY <1>1, <2>7, <2>8
    DEF BoardState, BoardTyped, BoardTable, LeadsToSets, Board!Sets, Board!Row
  <2>10. CallState'
    BY <1>1, <1>5, <2>8 DEF CallState, Board!AppliedIsWhole
  <2>. QED
    BY <2>9, <2>10 DEF BoardState
<1>. QED
  BY <1>2, <1>3, <1>5 DEF Board!TableKinds

LEMMA ReadBeforeStep == BoardState /\ Board!ReadBefore => BoardState'
<1> SUFFICES ASSUME BoardState, Board!ReadBefore PROVE BoardState'
  OBVIOUS
<1>1. /\ pc = "before" /\ LeadsToSets(view) /\ BoardTyped
      /\ UNCHANGED <<tables, live, present, request, cache, view, moved>>
  BY DEF Board!ReadBefore, Board!Finish, Board!game, BoardState, BoardTyped
<1>2. BoardTyped'
  BY <1>1 DEF BoardTyped, BoardTable, LeadsToSets, Board!Sets, Board!Row
<1>3. CASE pc' \notin {"before", "call", "after", "APPLIED"}
  BY <1>2, <1>3 DEF BoardState, CallState, Board!AppliedIsWhole
<1>4. CASE /\ pc' = "call" /\ tablesBefore' = tables
           /\ \E b \in {Board!ReadBoard(view)} :
                /\ b.valid /\ before' = b.items
                /\ IF request.op = "add"
                   THEN /\ view.heads[2] \in Board!Row
                        /\ next' = <<tables[view.targets].tnext[view.heads[1]],
                                     tables[view.pitches].pnext[view.heads[2]]>>
                   ELSE Board!Cardinality(Board!Matching(b)) = 1
  <2>1. PICK b : b = Board!ReadBoard(view) /\ b.valid /\ before' = b.items
    BY <1>4
  <2>2. /\ tablesBefore' \in [Board!Sets -> BoardTable]' /\ tables' = tablesBefore'
    BY <1>1, <1>4, <1>2 DEF BoardTyped
  <2>3. ASSUME ~moved', request'.op = "add" PROVE FreePitchRead'
    BY <1>1, <1>4, <2>3 DEF FreePitchRead, BoardState, CallState, Board!Row
  <2>4. ASSUME request'.op = "remove" PROVE RecruitRead'
    <3>1. Board!Cardinality(Board!Matching(b)) = 1
      BY <1>1, <1>4, <2>1, <2>4
    <3>2. Board!Matching(b) # {}
      BY <3>1, OneOf, Zenon
    <3>3. \E s \in DOMAIN before' : before'[s].recruit = request'.recruit
      BY <1>1, <2>1, <3>2 DEF Board!Matching
    <3>4. ASSUME NEW s \in DOMAIN before'
          PROVE  /\ before'[s].target \in Board!Row
                 /\ tables[view.targets].target[before'[s].target].recruit # Board!Cleared
      BY <1>1, <2>1, ReadBoardLemma
    <3>. QED
      BY <1>1, <1>4, <3>3, <3>4 DEF RecruitRead, Board!Row
  <2>. QED
    BY <1>2, <1>4, <2>2, <2>3, <2>4 DEF BoardState, CallState, Prepared, Board!AppliedIsWhole
<1>. QED
  BY <1>3, <1>4 DEF Board!ReadBefore, Board!Finish

LEMMA CallStep == BoardState /\ Board!CallNative => BoardState'
<1> SUFFICES ASSUME BoardState, Board!CallNative PROVE BoardState'
  OBVIOUS
<1> DEFINE was == tables[view.set]
<1>1. PICK n \in 0..3 :
        /\ Board!CanRun(request.op, request.recruit, was) \/ n = 0
        /\ tables' = [tables EXCEPT ![view.set] =
                        Board!Routine(request.op, request.recruit, n, was)]
  <2>1. PICK n \in IF Board!CanRun(request.op, request.recruit, was) THEN 0..3 ELSE {0} :
          tables' = [tables EXCEPT ![view.set] =
                       Board!Routine(request.op, request.recruit, n, was)]
    BY Zenon DEF Board!CallNative
  <2>2. n \in 0..3 /\ (Board!CanRun(request.op, request.recruit, was) \/ n = 0)
    BY <2>1
  <2>. QED
    BY <2>1, <2>2
<1>2. /\ pc = "call" /\ pc' \in {"after", "BOARD_NATIVE_CALL_FAILED"}
      /\ UNCHANGED <<live, present, cache, request, view, before, next, tablesBefore, moved>>
  BY DEF Board!CallNative
<1>3. /\ BoardTyped /\ LeadsToSets(view) /\ view.set \in Board!Sets
      /\ was \in BoardTable /\ request.op \in {"add", "remove"}
      /\ request.recruit \in Recruits \cup {Board!Cleared}
  BY <1>2 DEF BoardState, BoardTyped, LeadsToSets
<1>4. Board!Routine(request.op, request.recruit, n, was) \in BoardTable
  BY <1>1, <1>3, RoutineLemma
<1>5. tables' \in [Board!Sets -> BoardTable]
  BY <1>1, <1>3, <1>4 DEF BoardTyped
<1>6. BoardTyped'
  BY <1>2, <1>3, <1>5 DEF BoardTyped, BoardTable, LeadsToSets, Board!Sets, Board!Row
<1>7. ASSUME ~moved' PROVE CallState'
  <2>1. Prepared /\ tables = tablesBefore
    BY <1>2, <1>7 DEF BoardState, CallState
  <2>2. Prepared'
    BY <1>2, <2>1 DEF Prepared, FreePitchRead, RecruitRead, BoardTable, Board!Sets, Board!Row
  <2>3. RanTo(n)' /\ (CouldRun' \/ n = 0)
    BY <1>1, <1>2, <2>1, Zenon DEF RanTo, CouldRun
  <2>. QED
    BY <1>2, <2>2, <2>3 DEF CallState, Board!AppliedIsWhole
<1>. QED
  BY <1>6, <1>7 DEF BoardState

LEMMA ReadAfterStep == BoardState /\ Board!ReadAfter => BoardState'
<1> SUFFICES ASSUME BoardState, Board!ReadAfter PROVE BoardState'
  OBVIOUS
<1>1. /\ pc = "after" /\ LeadsToSets(view) /\ BoardTyped
      /\ pc' \in {"APPLIED", "BOARD_POSTCONDITION_FAILED"}
      /\ UNCHANGED <<tables, live, present, request, cache, view, tablesBefore, moved>>
      /\ pc' = "APPLIED" => \E after : Board!Verified(after)
  BY DEF Board!ReadAfter, Board!Finish, Board!game, BoardState, BoardTyped
<1>2. BoardTyped'
  BY <1>1 DEF BoardTyped, BoardTable, LeadsToSets, Board!Sets, Board!Row
<1>3. ASSUME ~moved', pc' = "APPLIED",
             Board!Sound(tablesBefore[view.targets]), Board!Sound(tablesBefore[view.pitches])
      PROVE  RanTo(3)
  <2>1. Prepared /\ \E n \in 0..3 : RanTo(n) /\ (CouldRun \/ n = 0)
    BY <1>1, <1>3 DEF BoardState, CallState
  <2>. QED
    BY <1>1, <1>3, <2>1, VerifiedLemma
<1>4. ASSUME ~moved' PROVE CallState'
  BY <1>1, <1>3, <1>4 DEF CallState, Board!AppliedIsWhole, RanTo
<1>. QED
  BY <1>2, <1>4 DEF BoardState

\* What the game does by itself keeps the types.
LEMMA PlayStep == BoardState /\ Board!Play => BoardState'
<1> SUFFICES ASSUME BoardState, Board!Play PROVE BoardState'
  OBVIOUS
<1>1. PICK o \in {"add", "remove"}, r \in Recruits :
        /\ Board!CanRun(o, r, tables[live])
        /\ tables' = [tables EXCEPT ![live] = Board!Routine(o, r, 3, tables[live])]
  BY DEF Board!Play
<1>2. UNCHANGED <<live, present, cache, pc, request, view>> /\ moved'
  BY DEF Board!Play
<1>3. Board!Routine(o, r, 3, tables[live]) \in BoardTable
  BY <1>1, RoutineLemma DEF BoardState, BoardTyped
<1>4. tables' \in [Board!Sets -> BoardTable]
  BY <1>1, <1>3 DEF BoardState, BoardTyped
<1>. QED
  BY <1>2, <1>4 DEF BoardState, BoardTyped, BoardTable, LeadsToSets, Board!Sets, Board!Row

LEMMA LoadStep == BoardState /\ Board!LoadDynasty => BoardState'
<1> SUFFICES ASSUME BoardState, Board!LoadDynasty PROVE BoardState'
  OBVIOUS
<1>1. PICK k \in Board!Sets, b \in Boards :
        /\ live' = k /\ present' \subseteq {live, k}
        /\ tables' = [tables EXCEPT ![k] = Board!NewTables(b)]
  BY DEF Board!LoadDynasty
<1>2. UNCHANGED <<cache, pc, request, view>> /\ moved'
  BY DEF Board!LoadDynasty, Board!found_
<1>3. tables' \in [Board!Sets -> BoardTable]
  BY <1>1, NewTablesLemma DEF BoardState, BoardTyped
<1>. QED
  BY <1>1, <1>2, <1>3 DEF BoardState, BoardTyped, BoardTable, LeadsToSets, Board!Sets, Board!Row

LEMMA InitBoard == CommandsInit => BoardInvariant
<1> SUFFICES ASSUME CommandsInit, which = "board" PROVE BoardState
  BY DEF BoardInvariant
<1>1. Board!Init
  BY DEF CommandsInit
<1>2. PICK b \in Boards : tables = [k \in Board!Sets |-> Board!NewTables(b)]
  BY <1>1 DEF Board!Init
<1>3. tables \in [Board!Sets -> BoardTable]
  BY <1>2, NewTablesLemma
<1>. QED
  BY <1>1, <1>3 DEF Board!Init, BoardState, BoardTyped, CallState, Board!AppliedIsWhole

LEMMA NextBoard == BoardInvariant /\ [CommandsNext]_commandVars => BoardInvariant'
<1>1. CASE which # "board"
  BY <1>1 DEF BoardInvariant, CommandsNext, ScanStep, PipeStep, commandVars
<1>2. CASE which = "board" /\ CommandsNext
  <2>1. CASE Board!Ended
    BY <1>2, <2>1, BoardStays
    DEF Board!Ended, Board!vars, Board!game, BoardInvariant, CommandsNext, ScanStep, PipeStep
  <2>. QED
    BY <1>2, <2>1, RequestStep, UseCacheStep, DiscoverStep, ReadBeforeStep, CallStep,
       ReadAfterStep, PlayStep, LoadStep
    DEF Board!Next, BoardInvariant, CommandsNext, ScanStep, PipeStep
<1>3. CASE UNCHANGED commandVars
  BY <1>3, BoardStays DEF BoardInvariant, commandVars, shared, boardOnly
<1>. QED
  BY <1>1, <1>2, <1>3

\* For any boards, tables and objects, and whatever the game does between the
\* requests: a mutation that nothing disturbed is said to be APPLIED (Invoke,
\* board_mutation.cpp, lines 545 to 712) only when the routine of the game ran
\* to its end, if the tables it was verified on were sound before.
THEOREM AppliedRanToTheEnd == CommandsSpec => []AppliedIsWhole
<1>1. BoardInvariant => AppliedIsWhole
  BY DEF BoardInvariant, BoardState, CallState, AppliedIsWhole, Board!AppliedIsWhole
<1>. QED
  BY <1>1, InitBoard, NextBoard, PTL DEF CommandsSpec

-----------------------------------------------------------------------------
(* The scan of memory.  The matches reported so far lie below the cursor    *)
(* and ascend; as long as the game has changed nothing they are all the     *)
(* occurrences there are below it.  A round adds those of its chunk: what   *)
(* starts in the chunk and ends in its region lies in what was copied.      *)

ScanMatch == [address : Scan!Address, allocation : [base : Int, size : Int]]
Reported == reported \o found
Ascends(u) == \A n \in 1..(Len(u) - 1) : u[n].address < u[n + 1].address
AddressesOf(u) == {u[n].address : n \in DOMAIN u}

ScanTyped ==
  /\ mem \in [Scan!Address -> Byte]
  /\ pages \in [Scan!Page -> [private : BOOLEAN, alloc : Scan!Address]]
  /\ \A p \in Scan!Page : Scan!Allocated(pages, p)
  /\ request \in {<<>>} \cup Patterns
  /\ reported \in Seq(ScanMatch) /\ found \in Seq(ScanMatch)

\* Where the scan stands.
ScanPlace ==
  /\ pc = "idle" => found = <<>> /\ reported = <<>>
  /\ pc \in {"scan", "page", "complete"} => Len(request) >= 1 /\ request \in Patterns
  /\ pc \in {"scan", "page"} =>
       /\ cursor \in Scan!Address
       /\ \A n \in DOMAIN Reported : Reported[n].address < cursor
  /\ pc = "scan" => scanned \in Nat /\ scanned < PageBudget

\* What has been found, unless the game has changed anything.
Inside(m) ==
  /\ m.allocation.base <= m.address
  /\ m.address + Len(request) <= m.allocation.base + m.allocation.size
FoundBelow(end) ==
  /\ AddressesOf(Reported) = {a \in Scan!Occurrences : a < end}
  /\ \A n \in DOMAIN Reported : Inside(Reported[n])

ScanState ==
  /\ ScanTyped /\ ScanPlace /\ Ascends(Reported)
  /\ quiet /\ pc \in {"scan", "page"} => FoundBelow(cursor)
  /\ quiet /\ pc = "complete" => FoundBelow(AddressMax + 1)

ScanInvariant == which = "scan" => ScanState

-----------------------------------------------------------------------------
LEMMA ScanSizes ==
  /\ AddressMax \in Nat /\ PageSize \in Nat /\ PageSize >= 1
  /\ BytesPerChunk \in Nat /\ BytesPerChunk >= 1 /\ PageBudget \in Nat /\ PageBudget >= 1
  /\ ScanMatches \in Nat /\ ScanMatches >= 1 /\ MinPattern \in Nat /\ MinPattern >= 1
  /\ Patterns \subseteq Seq(SUBSET Byte)
  /\ (AddressMax + 1) % PageSize = 0
  /\ Scan!Address = 0..AddressMax /\ Scan!Page = 0..(AddressMax \div PageSize)
BY CommandsAssumption DEF Scan!ScanAssumption, Scan!Address, Scan!Page

\* An address lies on its page.
LEMMA PageLemma ==
  ASSUME NEW a \in Nat
  PROVE  /\ Scan!PageOf(a) \in Nat
         /\ Scan!PageOf(a) * PageSize <= a /\ a < (Scan!PageOf(a) + 1) * PageSize
         /\ \A p \in Nat : p * PageSize <= a /\ a < (p + 1) * PageSize => Scan!PageOf(a) = p
<1>1. /\ Scan!PageOf(a) \in Nat
      /\ Scan!PageOf(a) * PageSize <= a /\ a < (Scan!PageOf(a) + 1) * PageSize
  BY ScanSizes DEF Scan!PageOf
<1>2. ASSUME NEW p \in Nat, NEW q \in Nat, p * PageSize <= a, a < (q + 1) * PageSize
      PROVE  p <= q
  <2>1. SUFFICES ASSUME q + 1 <= p PROVE FALSE
    OBVIOUS
  <2>2. (q + 1) * PageSize <= p * PageSize
    BY <2>1, ScanSizes
  <2>3. (q + 1) * PageSize \in Nat /\ p * PageSize \in Nat
    BY ScanSizes
  <2>. QED
    BY <1>2, <2>2, <2>3
<1>3. ASSUME NEW p \in Nat, p * PageSize <= a, a < (p + 1) * PageSize
      PROVE  Scan!PageOf(a) = p
  BY <1>1, <1>2, <1>3
<1>. QED
  BY <1>1, <1>3

\* The pages end where the addresses do.
LEMMA ScaleLemma ==
  ASSUME NEW m \in Nat, NEW n \in Nat, NEW k \in Nat, m <= n
  PROVE  m * k <= n * k /\ n * k \in Nat
<1>1. PICK d \in Nat : n = m + d
  <2>1. n - m \in Nat /\ n = m + (n - m)
    OBVIOUS
  <2>. QED
    BY <2>1
<1>2. d * k \in Nat /\ m * k \in Nat
  OBVIOUS
<1>3. n * k = m * k + d * k
  BY <1>1
<1>. QED
  BY <1>2, <1>3

LEMMA LastPage ==
  /\ AddressMax \div PageSize \in Nat
  /\ AddressMax + 1 = (AddressMax \div PageSize + 1) * PageSize
  /\ \A a \in Scan!Address : Scan!PageOf(a) \in Scan!Page
<1> DEFINE M == AddressMax \div PageSize
           k == (AddressMax + 1) \div PageSize
<1>1. M \in Nat /\ M * PageSize <= AddressMax /\ AddressMax < (M + 1) * PageSize
  BY ScanSizes
<1>2. k \in Nat /\ AddressMax + 1 = k * PageSize
  BY ScanSizes
<1> HIDE DEF M, k
<1>3. k > M
  <2>1. SUFFICES ASSUME k <= M PROVE FALSE
    BY <1>1, <1>2
  <2>2. k * PageSize <= M * PageSize /\ k * PageSize \in Nat /\ M * PageSize \in Nat
    BY <1>1, <1>2, <2>1, ScanSizes
  <2>. QED
    BY <1>1, <1>2, <2>2, ScanSizes
<1>4. k <= M + 1
  <2>1. SUFFICES ASSUME M + 1 + 1 <= k PROVE FALSE
    BY <1>1, <1>2
  <2>2. /\ (M + 1 + 1) * PageSize <= k * PageSize
        /\ (M + 1 + 1) * PageSize = (M + 1) * PageSize + PageSize
        /\ (M + 1) * PageSize \in Nat
    BY <1>1, <1>2, <2>1, ScanSizes
  <2>. QED
    BY <1>1, <1>2, <2>2, ScanSizes
<1>5. k = M + 1
  BY <1>1, <1>2, <1>3, <1>4
<1>6. ASSUME NEW a \in Scan!Address PROVE Scan!PageOf(a) \in Scan!Page
  <2>1. a \in Nat /\ a <= AddressMax
    BY ScanSizes
  <2>2. /\ Scan!PageOf(a) \in Nat /\ Scan!PageOf(a) * PageSize <= a
    BY <2>1, PageLemma
  <2>3. Scan!PageOf(a) <= M
    <3>1. SUFFICES ASSUME M + 1 <= Scan!PageOf(a) PROVE FALSE
      BY <1>1, <2>2
    <3>2. (M + 1) * PageSize <= Scan!PageOf(a) * PageSize /\ (M + 1) * PageSize \in Nat
          /\ Scan!PageOf(a) * PageSize \in Nat
      BY <1>1, <2>2, <3>1, ScanSizes
    <3>. QED
      BY <1>1, <2>1, <2>2, <3>2, ScanSizes
  <2>. QED
    BY <2>2, <2>3, ScanSizes DEF M
<1>. QED
  BY <1>1, <1>2, <1>5, <1>6 DEF M

\* From a page on, the pages that are as it is are a run with an end.
LastOfRun(f, first, p) ==
  /\ \A q \in first..p : f[q] = f[first]
  /\ p + 1 \in Scan!Page => f[p + 1] # f[first]
  /\ p >= first

LEMMA RunLemma ==
  ASSUME NEW f, NEW first \in Scan!Page
  PROVE  /\ \E p \in Scan!Page : LastOfRun(f, first, p)
         /\ \A p, q \in Scan!Page : LastOfRun(f, first, p) /\ LastOfRun(f, first, q) => p = q
<1> DEFINE M == AddressMax \div PageSize
           S == {p \in Scan!Page : p >= first /\ (p + 1 \in Scan!Page => f[p + 1] # f[first])}
<1>1. M \in Nat /\ Scan!Page = 0..M
  BY LastPage, ScanSizes
<1> HIDE DEF M
<1>2. S \subseteq Nat /\ M \in S
  BY <1>1
<1>3. PICK p \in S : \A q \in S : p <= q
  <2> HIDE DEF S
  <2>. QED
    BY <1>2, LeastLemma
<1>4. ASSUME NEW q \in first..p PROVE f[q] = f[first]
  <2>1. CASE q = first
    BY <2>1
  <2>2. CASE q # first
    <3>1. q - 1 \in Scan!Page /\ q - 1 >= first /\ q - 1 < p /\ q - 1 + 1 = q /\ q \in Scan!Page
      BY <1>1, <1>3, <1>4, <2>2
    <3>2. q - 1 \notin S
      BY <1>1, <1>3, <3>1
    <3>. QED
      BY <3>1, <3>2
  <2>. QED
    BY <2>1, <2>2
<1>5. LastOfRun(f, first, p)
  BY <1>3, <1>4 DEF LastOfRun
<1>6. ASSUME NEW q \in Scan!Page, NEW r \in Scan!Page, q < r,
             LastOfRun(f, first, q), LastOfRun(f, first, r)
      PROVE  FALSE
  <2>1. q + 1 \in Scan!Page /\ q + 1 \in first..r
    BY <1>1, <1>6 DEF LastOfRun
  <2>. QED
    BY <1>6, <2>1 DEF LastOfRun
<1>7. ASSUME NEW q \in Scan!Page, NEW r \in Scan!Page,
             LastOfRun(f, first, q), LastOfRun(f, first, r)
      PROVE  q = r
  <2>1. q < r \/ q = r \/ r < q
    BY <1>1
  <2>. QED
    BY <1>6, <1>7, <2>1
<1>. QED
  BY <1>3, <1>5, <1>7

\* A region goes on to the end of its run of pages.
LEMMA RegionLemma ==
  ASSUME NEW a \in Scan!Address
  PROVE  \E p \in Scan!Page : /\ LastOfRun(pages, Scan!PageOf(a), p)
                              /\ Scan!RegionEnd(a) = (p + 1) * PageSize
<1> DEFINE last == CHOOSE p \in Scan!Page :
                     /\ \A q \in Scan!PageOf(a)..p : pages[q] = pages[Scan!PageOf(a)]
                     /\ p + 1 \in Scan!Page => pages[p + 1] # pages[Scan!PageOf(a)]
                     /\ p >= Scan!PageOf(a)
<1>1. Scan!RegionEnd(a) = (last + 1) * PageSize
  BY Zenon DEF Scan!RegionEnd
<1>2. \E p \in Scan!Page :
        /\ \A q \in Scan!PageOf(a)..p : pages[q] = pages[Scan!PageOf(a)]
        /\ p + 1 \in Scan!Page => pages[p + 1] # pages[Scan!PageOf(a)]
        /\ p >= Scan!PageOf(a)
  BY LastPage, RunLemma DEF LastOfRun
<1>3. last \in Scan!Page /\ LastOfRun(pages, Scan!PageOf(a), last)
  BY <1>2, Zenon DEF LastOfRun
<1> HIDE DEF last
<1>. QED
  BY <1>1, <1>3

\* All addresses of a region are of that region.
LEMMA SameRegion ==
  ASSUME NEW a \in Scan!Address
  PROVE  /\ Scan!RegionEnd(a) \in Nat /\ a < Scan!RegionEnd(a)
         /\ Scan!RegionEnd(a) <= AddressMax + 1
         /\ \A b \in Scan!Address : a <= b /\ b < Scan!RegionEnd(a) =>
              /\ pages[Scan!PageOf(b)] = pages[Scan!PageOf(a)]
              /\ Scan!RegionEnd(b) = Scan!RegionEnd(a)
<1> DEFINE M == AddressMax \div PageSize
<1>1. PICK p \in Scan!Page : /\ LastOfRun(pages, Scan!PageOf(a), p)
                             /\ Scan!RegionEnd(a) = (p + 1) * PageSize
  BY RegionLemma
<1>2. /\ M \in Nat /\ p \in 0..M /\ AddressMax + 1 = (M + 1) * PageSize /\ Scan!Page = 0..M
  BY LastPage, ScanSizes
<1> HIDE DEF M
<1>3. /\ a \in Nat /\ a <= AddressMax /\ Scan!PageOf(a) \in Nat /\ Scan!PageOf(a) <= p
      /\ a < (Scan!PageOf(a) + 1) * PageSize
  BY <1>1, <1>2, ScanSizes, PageLemma DEF LastOfRun
<1>4. (p + 1) * PageSize \in Nat /\ (p + 1) * PageSize <= (M + 1) * PageSize
  BY <1>2, ScanSizes
<1>5. /\ (Scan!PageOf(a) + 1) * PageSize <= (p + 1) * PageSize
      /\ (Scan!PageOf(a) + 1) * PageSize \in Nat
  BY <1>2, <1>3, ScanSizes
<1>6. ASSUME NEW b \in Scan!Address, a <= b, b < Scan!RegionEnd(a)
      PROVE  /\ pages[Scan!PageOf(b)] = pages[Scan!PageOf(a)]
             /\ Scan!RegionEnd(b) = Scan!RegionEnd(a)
  <2>1. /\ b \in Nat /\ Scan!PageOf(b) \in Nat
        /\ Scan!PageOf(b) * PageSize <= b /\ b < (Scan!PageOf(b) + 1) * PageSize
    <3>1. b \in Nat
      BY ScanSizes
    <3>. QED
      BY <3>1, PageLemma
  <2>2. Scan!PageOf(b) <= p
    <3>1. SUFFICES ASSUME p + 1 <= Scan!PageOf(b) PROVE FALSE
      BY <1>2, <2>1
    <3>2. (p + 1) * PageSize <= Scan!PageOf(b) * PageSize /\ Scan!PageOf(b) * PageSize \in Nat
      BY <1>2, <2>1, <3>1, ScanSizes
    <3>. QED
      BY <1>1, <1>4, <1>6, <2>1, <3>2
  <2>3. Scan!PageOf(a) <= Scan!PageOf(b)
    <3>1. SUFFICES ASSUME Scan!PageOf(b) + 1 <= Scan!PageOf(a) PROVE FALSE
      BY <1>3, <2>1
    <3>2. /\ (Scan!PageOf(b) + 1) * PageSize <= Scan!PageOf(a) * PageSize
          /\ (Scan!PageOf(b) + 1) * PageSize \in Nat /\ Scan!PageOf(a) * PageSize \in Nat
      BY <1>3, <2>1, <3>1, ScanSizes
    <3>3. Scan!PageOf(a) * PageSize <= a
      BY <1>3, PageLemma
    <3>. QED
      BY <1>3, <1>6, <2>1, <3>2, <3>3
  <2>4. Scan!PageOf(b) \in Scan!PageOf(a)..p
    BY <1>2, <1>3, <2>1, <2>2, <2>3
  <2>5. pages[Scan!PageOf(b)] = pages[Scan!PageOf(a)]
    BY <1>1, <2>4 DEF LastOfRun
  <2>6. LastOfRun(pages, Scan!PageOf(b), p)
    BY <1>1, <1>2, <1>3, <2>1, <2>2, <2>3, <2>5 DEF LastOfRun
  <2>7. PICK q \in Scan!Page : /\ LastOfRun(pages, Scan!PageOf(b), q)
                               /\ Scan!RegionEnd(b) = (q + 1) * PageSize
    BY RegionLemma
  <2>8. p = q
    BY <2>6, <2>7, LastPage, RunLemma
  <2>. QED
    BY <1>1, <2>5, <2>7, <2>8
<1>. QED
  BY <1>1, <1>2, <1>3, <1>4, <1>5, <1>6, ScanSizes

\* An allocation holds the region of each of its addresses.
LEMMA AllocationLemma ==
  ASSUME pages \in [Scan!Page -> [private : BOOLEAN, alloc : Scan!Address]],
         \A p \in Scan!Page : Scan!Allocated(pages, p),
         NEW a \in Scan!Address
  PROVE  LET m == Scan!AllocationOf(a)
         IN  /\ m \in [base : Int, size : Int]
             /\ m.base <= a
             /\ Scan!RegionEnd(a) <= m.base + m.size
<1> DEFINE base == pages[Scan!PageOf(a)].alloc
           Last(p) == /\ \A q \in Scan!PageOf(base)..p : pages[q].alloc = base
                      /\ p + 1 \in Scan!Page => pages[p + 1].alloc # base
                      /\ p >= Scan!PageOf(base)
           last == CHOOSE p \in Scan!Page : Last(p)
           f == [q \in Scan!Page |-> pages[q].alloc]
           M == AddressMax \div PageSize
<1>1. Scan!AllocationOf(a) = [base |-> base, size |-> (last + 1) * PageSize - base]
  BY Zenon DEF Scan!AllocationOf
<1>2. /\ M \in Nat /\ Scan!Page = 0..M /\ Scan!PageOf(a) \in Scan!Page /\ a \in Nat
      /\ PageSize \in Nat
  BY LastPage, ScanSizes
<1> HIDE DEF M
<1>3. /\ base \in Scan!Address /\ base \in Nat
      /\ base = Scan!PageOf(base) * PageSize /\ Scan!PageOf(base) <= Scan!PageOf(a)
      /\ \A q \in Scan!PageOf(base)..Scan!PageOf(a) : pages[q].alloc = base
      /\ Scan!PageOf(base) \in Scan!Page
  <2>1. base \in Scan!Address /\ base \in Nat
    BY <1>2, ScanSizes
  <2>2. Scan!Allocated(pages, Scan!PageOf(a))
    BY <1>2
  <2>3. Scan!PageOf(base) \in Scan!Page
    BY <2>1, LastPage
  <2>. QED
    BY <2>1, <2>2, <2>3 DEF Scan!Allocated, Scan!PageOf
<1>4. f[Scan!PageOf(base)] = base
  BY <1>2, <1>3
<1>5. \A p \in Scan!Page : Last(p) <=> LastOfRun(f, Scan!PageOf(base), p)
  <2>1. ASSUME NEW p \in Scan!Page, NEW q \in Scan!PageOf(base)..p PROVE q \in Scan!Page
    BY <1>2, <1>3
  <2>. QED
    BY <1>4, <2>1 DEF LastOfRun
<1> HIDE DEF f, Last, base
<1>6. last \in Scan!Page /\ Last(last)
  BY <1>3, <1>5, RunLemma
<1>7. PICK p \in Scan!Page : /\ LastOfRun(pages, Scan!PageOf(a), p)
                             /\ Scan!RegionEnd(a) = (p + 1) * PageSize
  BY RegionLemma
<1>8. p <= last
  <2>1. SUFFICES ASSUME last + 1 <= p PROVE FALSE
    BY <1>2, <1>6
  <2>2. last + 1 \in Scan!Page /\ last + 1 >= Scan!PageOf(base)
    BY <1>2, <1>3, <1>6, <2>1 DEF Last
  <2>3. pages[last + 1].alloc = base
    <3>1. CASE last + 1 <= Scan!PageOf(a)
      BY <1>2, <1>3, <2>2, <3>1
    <3>2. CASE Scan!PageOf(a) <= last + 1
      <4>1. last + 1 \in Scan!PageOf(a)..p
        BY <1>2, <1>6, <2>1, <3>2
      <4>2. pages[last + 1] = pages[Scan!PageOf(a)]
        BY <1>7, <4>1 DEF LastOfRun
      <4>. QED
        BY <4>2 DEF base
    <3>. QED
      BY <1>2, <2>2, <3>1, <3>2
  <2>. QED
    BY <1>6, <2>2, <2>3 DEF Last
<1>9. (p + 1) * PageSize <= (last + 1) * PageSize /\ (last + 1) * PageSize \in Nat
  <2>1. p + 1 \in Nat /\ last + 1 \in Nat /\ p + 1 <= last + 1
    BY <1>2, <1>6, <1>8
  <2>. QED
    BY <1>2, <2>1, ScaleLemma
<1>10. base <= a
  <2>1. Scan!PageOf(a) * PageSize <= a /\ Scan!PageOf(a) \in Nat
    BY <1>2, PageLemma
  <2>2. Scan!PageOf(base) * PageSize <= Scan!PageOf(a) * PageSize /\ Scan!PageOf(a) * PageSize \in Nat
    BY <1>2, <1>3, <2>1
  <2>. QED
    BY <1>2, <1>3, <2>1, <2>2
<1> HIDE DEF last
<1>11. (last + 1) * PageSize - base \in Int
  BY <1>3, <1>9
<1>12. [base |-> base, size |-> (last + 1) * PageSize - base] \in [base : Int, size : Int]
  BY <1>3, <1>11
<1>. QED
  BY <1>1, <1>3, <1>7, <1>9, <1>10, <1>11, <1>12

\* What is searched for first is a byte of the pattern.
LEMMA AnchorLemma ==
  ASSUME NEW pattern \in Seq(SUBSET Byte), Len(pattern) >= 1
  PROVE  Scan!Anchor(pattern) \in DOMAIN pattern
<1> DEFINE full == {n \in DOMAIN pattern : \E b \in Byte : pattern[n] = {b}}
           some == {n \in DOMAIN pattern : pattern[n] # Byte}
<1>1. Scan!Anchor(pattern) =
        IF full # {} THEN CHOOSE n \in full : \A m \in full : n <= m
        ELSE IF some # {} THEN CHOOSE n \in some : \A m \in some : n <= m ELSE 1
  BY Zenon DEF Scan!Anchor
<1>2. DOMAIN pattern = 1..Len(pattern) /\ Len(pattern) \in Nat /\ 1 \in DOMAIN pattern
  OBVIOUS
<1>3. /\ full \subseteq DOMAIN pattern /\ full \subseteq Nat
      /\ some \subseteq DOMAIN pattern /\ some \subseteq Nat
  BY <1>2
<1> HIDE DEF full, some
<1>4. full # {} => (CHOOSE n \in full : \A m \in full : n <= m) \in full
  BY <1>3, LeastLemma
<1>5. some # {} => (CHOOSE n \in some : \A m \in some : n <= m) \in some
  BY <1>3, LeastLemma
<1>. QED
  BY <1>1, <1>2, <1>3, <1>4, <1>5

\* A round ends in the region it began in.
LEMMA EndOfRound ==
  ASSUME cursor \in Scan!Address, scanned \in Nat, scanned < PageBudget
  PROVE  /\ Scan!UniqueEnd \in Nat /\ cursor < Scan!UniqueEnd
         /\ Scan!UniqueEnd <= Scan!RegionEnd(cursor)
         /\ Scan!UniqueEnd - cursor <= PageBudget - scanned
<1> DEFINE ends == {Scan!RegionEnd(cursor), cursor + BytesPerChunk, cursor + PageBudget - scanned}
<1>1. /\ cursor \in Nat /\ Scan!RegionEnd(cursor) \in Nat /\ cursor < Scan!RegionEnd(cursor)
  BY SameRegion, ScanSizes
<1>2. /\ ends \subseteq Nat /\ \A e \in ends : cursor < e
      /\ Scan!RegionEnd(cursor) \in ends /\ cursor + PageBudget - scanned \in ends
  BY <1>1, ScanSizes
<1>3. Scan!UniqueEnd = CHOOSE e \in ends : \A f \in ends : e <= f
  BY Zenon DEF Scan!UniqueEnd
<1> HIDE DEF ends
<1>4. Scan!UniqueEnd \in ends /\ \A f \in ends : Scan!UniqueEnd <= f
  <2>1. \E e \in ends : \A f \in ends : e <= f
    BY <1>2, LeastLemma
  <2>. QED
    BY <1>3, <2>1
<1>5. /\ Scan!UniqueEnd <= Scan!RegionEnd(cursor)
      /\ Scan!UniqueEnd <= cursor + PageBudget - scanned
  BY <1>2, <1>4
<1>. QED
  BY <1>1, <1>2, <1>4, <1>5, ScanSizes

\* A round finds what starts in its chunk and ends in its region.
LEMMA RoundLemma ==
  ASSUME cursor \in Scan!Address, scanned \in Nat, scanned < PageBudget,
         request \in Seq(SUBSET Byte), Len(request) >= 1,
         Scan!IsEligible(Scan!PageOf(cursor))
  PROVE  Scan!ChunkMatches(request, cursor, Scan!UniqueEnd)
           = {a \in Scan!Occurrences : cursor <= a /\ a < Scan!UniqueEnd}
<1> DEFINE end == Scan!UniqueEnd
           region == Scan!RegionEnd(cursor)
           ahead == end + Len(request) - 1
           copied == IF region < ahead THEN region ELSE ahead
           last == copied - Len(request) + 1
           stop == IF last < end THEN last ELSE end
<1>1. /\ cursor \in Nat /\ end \in Nat /\ region \in Nat /\ cursor < end /\ end <= region
      /\ region <= AddressMax + 1 /\ AddressMax \in Nat /\ Scan!Address = 0..AddressMax
  BY EndOfRound, SameRegion, ScanSizes
<1>2. Scan!ChunkMatches(request, cursor, end) = Scan!FindAll(request, cursor, stop)
  BY Zenon DEF Scan!ChunkMatches
<1>3. Len(request) \in Nat /\ Scan!Anchor(request) \in DOMAIN request
  BY AnchorLemma
<1> HIDE DEF end, region
<1>4. \A a \in Nat : a < stop <=> a < end /\ a + Len(request) <= region
  BY <1>1, <1>3
<1> HIDE DEF stop
<1>5. \A a : a \in Scan!FindAll(request, cursor, stop)
               <=> a \in cursor..(stop - 1) /\ Scan!Accepts(request, a)
  BY <1>3 DEF Scan!FindAll, Scan!Accepts
<1>6. stop \in Int
  BY <1>1, <1>3 DEF stop
<1>7. \A a : a \in cursor..(stop - 1)
               <=> a \in Nat /\ cursor <= a /\ a < end /\ a + Len(request) <= region
  <2>1. \A a : a \in cursor..(stop - 1) <=> a \in Nat /\ cursor <= a /\ a < stop
    BY <1>1, <1>6
  <2>. QED
    BY <1>4, <2>1
<1>8. ASSUME NEW a \in Nat, cursor <= a, a < end
      PROVE  /\ a \in Scan!Address /\ Scan!IsEligible(Scan!PageOf(a))
             /\ Scan!RegionEnd(a) = region
  <2>1. a \in Scan!Address /\ a < Scan!RegionEnd(cursor)
    BY <1>1, <1>8 DEF region
  <2>. QED
    BY <1>8, <2>1, SameRegion DEF Scan!IsEligible, region
<1>9. ASSUME NEW a
      PROVE  a \in Scan!FindAll(request, cursor, stop)
               <=> a \in Scan!Occurrences /\ cursor <= a /\ a < end
  <2>1. a \in Scan!Occurrences <=> /\ a \in Scan!Address /\ Scan!IsEligible(Scan!PageOf(a))
                                   /\ a + Len(request) <= Scan!RegionEnd(a)
                                   /\ Scan!Accepts(request, a)
    BY DEF Scan!Occurrences
  <2>2. a \in Scan!Address => a \in Nat
    BY <1>1
  <2>. QED
    BY <1>5, <1>7, <1>8, <2>1, <2>2
<1>. QED
  BY <1>2, <1>9 DEF end

LEMMA ScanCardinality == ASSUME NEW S PROVE Scan!Cardinality(S) = Cardinality(S)
BY DEF Scan!Cardinality, Cardinality

\* Ascending lists each member of a set once, the smaller before the greater.
LEMMA AscendingLemma ==
  ASSUME NEW N \in Nat, NEW S \in SUBSET (0..N)
  PROVE  LET s == Scan!Ascending(S)
         IN  /\ s \in Seq(S)
             /\ {s[n] : n \in DOMAIN s} = S
             /\ \A n \in 1..(Len(s) - 1) : s[n] < s[n + 1]
<1> DEFINE Up(r) == {q \in S : q <= r}
           f == [r \in S |-> Cardinality(Up(r))]
           C == Cardinality(S)
           s == Scan!Ascending(S)
<1>1. IsFiniteSet(S) /\ C \in Nat
  <2>1. IsFiniteSet(0..N)
    BY FS_Interval
  <2>. QED
    BY <2>1, FS_Subset, FS_CardinalityType
<1>2. IsFiniteSet(1..C) /\ Cardinality(1..C) = C
  <2>1. 1 \in Int /\ C \in Int
    BY <1>1
  <2>2. IsFiniteSet(1..C) /\ Cardinality(1..C) = IF 1 > C THEN 0 ELSE C - 1 + 1
    BY <2>1, FS_Interval
  <2>. QED
    BY <1>1, <2>2
<1>15. IsFiniteSet(1..C) /\ Cardinality(1..C) = Cardinality(S)
  BY <1>2
<1>3. ASSUME NEW r \in S
      PROVE  IsFiniteSet(Up(r)) /\ Cardinality(Up(r)) \in 1..C
  <2>1. Up(r) \in SUBSET S /\ r \in Up(r)
    OBVIOUS
  <2>2. IsFiniteSet(Up(r)) /\ Cardinality(Up(r)) <= C /\ Cardinality(Up(r)) \in Nat
    BY <1>1, <2>1, FS_Subset, FS_CardinalityType
  <2>3. Cardinality(Up(r)) # 0
    BY <2>1, <2>2, FS_EmptySet
  <2>. QED
    BY <1>1, <2>2, <2>3
<1>4. ASSUME NEW x \in S, NEW y \in S, x < y
      PROVE  Cardinality(Up(x)) < Cardinality(Up(y))
  <2>1. \A z \in S : z \in Nat
    OBVIOUS
  <2>2. Up(x) \in SUBSET Up(y) /\ y \in Up(y) /\ y \notin Up(x)
    <3>1. \A z \in S : z <= x => z <= y
      BY <1>4, <2>1
    <3>2. y <= y /\ ~(y <= x)
      BY <1>4, <2>1
    <3>. QED
      BY <3>1, <3>2, Zenon
  <2>3. IsFiniteSet(Up(y)) /\ Cardinality(Up(x)) <= Cardinality(Up(y))
    BY <1>3, <2>2, FS_Subset
  <2>4. Cardinality(Up(x)) # Cardinality(Up(y))
    <3>1. SUFFICES ASSUME Cardinality(Up(x)) = Cardinality(Up(y)) PROVE FALSE
      OBVIOUS
    <3>2. Up(x) = Up(y)
      BY <2>2, <2>3, <3>1, FS_Subset
    <3>. QED
      BY <2>2, <3>2
  <2>5. Cardinality(Up(x)) \in 1..C /\ Cardinality(Up(y)) \in 1..C
    BY <1>3
  <2> HIDE DEF Up, C
  <2>. QED
    BY <1>1, <2>3, <2>4, <2>5
<1> HIDE DEF Up
<1>5. f \in [S -> 1..C] /\ \A r \in S : f[r] = Cardinality(Up(r))
  BY <1>3
<1> HIDE DEF f, C
<1>6. \A x, y \in S : x < y => f[x] < f[y]
  BY <1>4, <1>5
<1>7. \A x, y \in S : f[x] = f[y] => x = y
  <2>1. ASSUME NEW x \in S, NEW y \in S, f[x] = f[y] PROVE x = y
    <3>1. x \in Nat /\ y \in Nat /\ f[x] \in Nat
      BY <1>1, <1>5
    <3>2. ~(x < y) /\ ~(y < x)
      BY <1>6, <2>1, <3>1
    <3>. QED
      BY <3>1, <3>2
  <2>. QED
    BY <2>1
<1>8. f \in Surjection(S, 1..C)
  <2>1. f \in Injection(S, 1..C)
    BY <1>5, <1>7 DEF Injection, IsInjective
  <2>. QED
    BY <1>1, <1>15, <2>1, FS_Injection
<1>9. \A n \in 1..C : \E r \in S : f[r] = n
  BY <1>8 DEF Surjection
<1>10. \A a \in S : Scan!Cardinality({b \in S : b <= a}) = f[a]
  BY <1>5, ScanCardinality DEF Up
<1>11. DOMAIN s = 1..C /\ \A n \in 1..C : s[n] \in S /\ f[s[n]] = n
  <2>1. Scan!Cardinality(S) = C
    BY ScanCardinality DEF C
  <2>2. s = [n \in 1..C |-> CHOOSE a \in S : Scan!Cardinality({b \in S : b <= a}) = n]
    BY <2>1 DEF Scan!Ascending
  <2> HIDE DEF s
  <2>3. ASSUME NEW n \in 1..C PROVE s[n] \in S /\ f[s[n]] = n
    <3>1. \E a \in S : Scan!Cardinality({b \in S : b <= a}) = n
      BY <1>9, <1>10
    <3>2. s[n] = CHOOSE a \in S : Scan!Cardinality({b \in S : b <= a}) = n
      BY <2>2
    <3>3. s[n] \in S /\ Scan!Cardinality({b \in S : b <= s[n]}) = n
      BY <3>1, <3>2, Zenon
    <3>. QED
      BY <1>10, <3>3
  <2>. QED
    BY <2>2, <2>3
<1> HIDE DEF s
<1>12. s \in Seq(S) /\ Len(s) = C
  <2>1. s \in [1..C -> S]
    <3>1. s = [n \in DOMAIN s |-> s[n]]
      BY DEF s, Scan!Ascending
    <3>. QED
      BY <1>11, <3>1
  <2>. QED
    BY <1>1, <2>1
<1>13. {s[n] : n \in DOMAIN s} = S
  <2>1. ASSUME NEW r \in S PROVE \E n \in DOMAIN s : s[n] = r
    <3>1. f[r] \in 1..C
      BY <1>5
    <3>2. s[f[r]] \in S /\ f[s[f[r]]] = f[r]
      BY <1>11, <3>1
    <3>3. s[f[r]] = r
      BY <1>7, <3>2
    <3>4. f[r] \in DOMAIN s
      BY <1>11, <3>1
    <3>. QED
      BY <3>3, <3>4
  <2>2. \A n \in DOMAIN s : s[n] \in S
    BY <1>11
  <2> HIDE DEF C
  <2>. QED
    BY <2>1, <2>2, Zenon
<1>14. ASSUME NEW n \in 1..(Len(s) - 1) PROVE s[n] < s[n + 1]
  <2>1. n \in 1..C /\ n + 1 \in 1..C /\ n < n + 1
    BY <1>1, <1>12
  <2>2. s[n] \in S /\ s[n + 1] \in S /\ f[s[n]] = n /\ f[s[n + 1]] = n + 1
    BY <1>11, <2>1
  <2>3. \A x, y \in S : x \in Nat /\ y \in Nat /\ (f[y] = f[x] + 1 /\ f[x] \in Nat => x < y)
    <3>1. ASSUME NEW x \in S, NEW y \in S, f[y] = f[x] + 1, f[x] \in Nat PROVE x < y
      <4>1. x \in Nat /\ y \in Nat /\ ~(y < x) /\ x # y
        BY <1>6, <3>1
      <4>. QED
        BY <4>1
    <3>. QED
      BY <3>1
  <2>4. n \in Nat
    BY <2>1
  <2>. QED
    BY <2>2, <2>3, <2>4
<1>. QED
  BY <1>12, <1>13, <1>14 DEF s

\* The matches of a set: one for each, in order, each inside its allocation.
LEMMA MatchesLemma ==
  ASSUME pages \in [Scan!Page -> [private : BOOLEAN, alloc : Scan!Address]],
         \A p \in Scan!Page : Scan!Allocated(pages, p),
         NEW S \in SUBSET Scan!Address
  PROVE  LET u == Scan!Matches(S)
         IN  /\ u \in Seq(ScanMatch) /\ Ascends(u) /\ AddressesOf(u) = S
             /\ \A n \in DOMAIN u :
                  /\ u[n].address \in S
                  /\ u[n].allocation.base <= u[n].address
                  /\ Scan!RegionEnd(u[n].address)
                       <= u[n].allocation.base + u[n].allocation.size
<1> DEFINE s == Scan!Ascending(S)
           u == Scan!Matches(S)
<1>1. /\ s \in Seq(S) /\ {s[n] : n \in DOMAIN s} = S
      /\ \A n \in 1..(Len(s) - 1) : s[n] < s[n + 1]
  <2>1. AddressMax \in Nat /\ S \in SUBSET (0..AddressMax)
    BY ScanSizes
  <2>. QED
    BY <2>1, AscendingLemma
<1>2. u = [n \in DOMAIN s |-> Scan!Match(s[n])]
  BY DEF Scan!Matches
<1> HIDE DEF s, u
<1>3. DOMAIN s = 1..Len(s) /\ Len(s) \in Nat /\ \A n \in DOMAIN s : s[n] \in S
  BY <1>1
<1>4. ASSUME NEW a \in S
      PROVE  /\ Scan!Match(a) \in ScanMatch /\ Scan!Match(a).address = a
             /\ Scan!Match(a).allocation.base <= a
             /\ Scan!RegionEnd(a)
                  <= Scan!Match(a).allocation.base + Scan!Match(a).allocation.size
  <2>1. Scan!Match(a) = [address |-> a, allocation |-> Scan!AllocationOf(a)]
    BY DEF Scan!Match
  <2>2. /\ Scan!Match(a).address = a
        /\ Scan!Match(a).allocation = Scan!AllocationOf(a)
    BY <2>1
  <2>3. a \in Scan!Address
    BY <1>4
  <2>4. /\ Scan!AllocationOf(a) \in [base : Int, size : Int]
        /\ Scan!AllocationOf(a).base <= a
        /\ Scan!RegionEnd(a) <= Scan!AllocationOf(a).base + Scan!AllocationOf(a).size
    BY <2>3, AllocationLemma
  <2>5. Scan!Match(a) \in ScanMatch
    BY <2>1, <2>3, <2>4 DEF ScanMatch
  <2>. QED
    BY <2>2, <2>4, <2>5
<1>5. \A n \in DOMAIN s : u[n] = Scan!Match(s[n]) /\ u[n] \in ScanMatch /\ u[n].address = s[n]
  BY <1>2, <1>3, <1>4
<1>6. u \in Seq(ScanMatch) /\ Len(u) = Len(s) /\ DOMAIN u = DOMAIN s
  <2>1. u \in [1..Len(s) -> ScanMatch]
    BY <1>2, <1>3, <1>4
  <2>. QED
    BY <1>3, <2>1
<1>7. Ascends(u)
  <2>1. ASSUME NEW n \in 1..(Len(u) - 1) PROVE u[n].address < u[n + 1].address
    <3>1. n \in DOMAIN s /\ n + 1 \in DOMAIN s /\ n \in 1..(Len(s) - 1)
      BY <1>3, <1>6
    <3>. QED
      BY <1>1, <1>5, <3>1
  <2>. QED
    BY <2>1 DEF Ascends
<1>8. AddressesOf(u) = S
  BY <1>1, <1>5, <1>6 DEF AddressesOf
<1>9. ASSUME NEW n \in DOMAIN u
      PROVE  /\ u[n].address \in S
             /\ u[n].allocation.base <= u[n].address
             /\ Scan!RegionEnd(u[n].address) <= u[n].allocation.base + u[n].allocation.size
  BY <1>3, <1>4, <1>5, <1>6
<1>. QED
  BY <1>6, <1>7, <1>8, <1>9 DEF u

\* Matches below a bound and then matches from it on.
LEMMA JoinLemma ==
  ASSUME NEW u \in Seq(ScanMatch), NEW v \in Seq(ScanMatch), NEW c \in Nat,
         Ascends(u), Ascends(v),
         \A n \in DOMAIN u : u[n].address < c,
         \A n \in DOMAIN v : c <= v[n].address
  PROVE  /\ u \o v \in Seq(ScanMatch) /\ Ascends(u \o v)
         /\ AddressesOf(u \o v) = AddressesOf(u) \cup AddressesOf(v)
         /\ \A n \in DOMAIN (u \o v) :
              (\E k \in DOMAIN u : (u \o v)[n] = u[k]) \/ (\E k \in DOMAIN v : (u \o v)[n] = v[k])
<1> DEFINE w == u \o v
<1>1. /\ w \in Seq(ScanMatch) /\ Len(w) = Len(u) + Len(v)
      /\ \A n \in 1..Len(u) : w[n] = u[n]
      /\ \A n \in 1..Len(v) : w[Len(u) + n] = v[n]
      /\ DOMAIN w = 1..Len(w) /\ DOMAIN u = 1..Len(u) /\ DOMAIN v = 1..Len(v)
      /\ Len(u) \in Nat /\ Len(v) \in Nat
  OBVIOUS
<1>2. \A n \in DOMAIN u : u[n] \in ScanMatch /\ u[n].address \in Nat
  <2>1. \A n \in DOMAIN u : u[n] \in ScanMatch
    OBVIOUS
  <2>2. \A m \in ScanMatch : m.address \in Nat
    BY ScanSizes DEF ScanMatch
  <2>. QED
    BY <2>1, <2>2
<1>3. \A n \in DOMAIN v : v[n] \in ScanMatch /\ v[n].address \in Nat
  <2>1. \A n \in DOMAIN v : v[n] \in ScanMatch
    OBVIOUS
  <2>2. \A m \in ScanMatch : m.address \in Nat
    BY ScanSizes DEF ScanMatch
  <2>. QED
    BY <2>1, <2>2
<1> HIDE DEF w
<1>4. ASSUME NEW n \in DOMAIN w
      PROVE  \/ n \in DOMAIN u /\ w[n] = u[n]
             \/ n - Len(u) \in DOMAIN v /\ w[n] = v[n - Len(u)]
  <2>1. CASE n \in DOMAIN u
    BY <1>1, <2>1
  <2>2. CASE n \notin DOMAIN u
    <3>1. n - Len(u) \in 1..Len(v) /\ Len(u) + (n - Len(u)) = n
      BY <1>1, <2>2
    <3>2. w[Len(u) + (n - Len(u))] = v[n - Len(u)]
      BY <1>1, <3>1
    <3>. QED
      BY <1>1, <3>1, <3>2
  <2>. QED
    BY <2>1, <2>2
<1>5. ASSUME NEW n \in 1..(Len(w) - 1) PROVE w[n].address < w[n + 1].address
  <2>1. n \in Nat /\ n \in DOMAIN w /\ n + 1 \in DOMAIN w
    BY <1>1
  <2>2. CASE n + 1 <= Len(u)
    <3>1. n \in 1..(Len(u) - 1) /\ w[n] = u[n] /\ w[n + 1] = u[n + 1]
      BY <1>1, <2>1, <2>2
    <3>. QED
      BY <3>1 DEF Ascends
  <2>3. CASE n = Len(u)
    <3>1. n \in DOMAIN u /\ w[n] = u[n] /\ 1 \in DOMAIN v /\ w[n + 1] = v[1]
      BY <1>1, <2>1, <2>3
    <3>. QED
      BY <1>2, <1>3, <3>1
  <2>4. CASE n > Len(u)
    <3>1. n - Len(u) \in 1..(Len(v) - 1)
      BY <1>1, <2>1, <2>4
    <3>2. /\ n - Len(u) \in 1..Len(v) /\ Len(u) + (n - Len(u)) = n
          /\ n - Len(u) + 1 \in 1..Len(v) /\ Len(u) + (n - Len(u) + 1) = n + 1
      BY <1>1, <2>1, <2>4, <3>1
    <3>4. PICK m \in 1..Len(v) : m = n - Len(u)
      BY <3>2
    <3>5. /\ w[Len(u) + m] = v[m] /\ Len(u) + m = n
          /\ w[Len(u) + (m + 1)] = v[m + 1] /\ Len(u) + (m + 1) = n + 1
      BY <1>1, <3>2, <3>4
    <3>3. w[n] = v[n - Len(u)] /\ w[n + 1] = v[n - Len(u) + 1]
      BY <3>4, <3>5
    <3>. QED
      BY <3>1, <3>3 DEF Ascends
  <2>. QED
    BY <1>1, <2>1, <2>2, <2>3, <2>4
<1>6. AddressesOf(w) = AddressesOf(u) \cup AddressesOf(v)
  <2>1. ASSUME NEW n \in DOMAIN u PROVE u[n].address \in AddressesOf(w)
    <3>1. n \in DOMAIN w /\ w[n] = u[n]
      BY <1>1
    <3>. QED
      BY <3>1 DEF AddressesOf
  <2>2. ASSUME NEW n \in DOMAIN v PROVE v[n].address \in AddressesOf(w)
    <3>1. Len(u) + n \in DOMAIN w /\ w[Len(u) + n] = v[n]
      BY <1>1
    <3>. QED
      BY <3>1 DEF AddressesOf
  <2>3. ASSUME NEW n \in DOMAIN w
        PROVE  w[n].address \in AddressesOf(u) \cup AddressesOf(v)
    BY <1>4 DEF AddressesOf
  <2>4. AddressesOf(w) \subseteq AddressesOf(u) \cup AddressesOf(v)
    BY <2>3 DEF AddressesOf
  <2>5. AddressesOf(u) \subseteq AddressesOf(w) /\ AddressesOf(v) \subseteq AddressesOf(w)
    BY <2>1, <2>2 DEF AddressesOf
  <2>. QED
    BY <2>4, <2>5
<1>7. Ascends(w)
  BY <1>5 DEF Ascends
<1>. QED
  BY <1>1, <1>4, <1>6, <1>7 DEF w

\* The first of the matches of a page ascend as all of them do.
LEMMA PrefixLemma ==
  ASSUME NEW u \in Seq(ScanMatch), NEW w \in Seq(ScanMatch), Ascends(w),
         Len(u) <= Len(w), \A n \in 1..Len(u) : u[n] = w[n]
  PROVE  Ascends(u)
<1>1. Len(u) \in Nat /\ Len(w) \in Nat
  OBVIOUS
<1>2. ASSUME NEW n \in 1..(Len(u) - 1) PROVE u[n].address < u[n + 1].address
  <2>1. n \in 1..(Len(w) - 1) /\ n \in 1..Len(u) /\ n + 1 \in 1..Len(u)
    BY <1>1
  <2>. QED
    BY <2>1 DEF Ascends
<1>. QED
  BY <1>2 DEF Ascends

LEMMA ReportedLemma ==
  ASSUME ScanTyped
  PROVE  /\ Reported \in Seq(ScanMatch) /\ Len(Reported) = Len(reported) + Len(found)
         /\ \A n \in 1..Len(reported) : Reported[n] = reported[n]
         /\ \A n \in 1..Len(found) : Reported[Len(reported) + n] = found[n]
BY DEF ScanTyped, Reported

\* As long as memory stands, the pattern occurs where it did.
LEMMA PlacesStay ==
  ASSUME UNCHANGED <<mem, pages, request>>
  PROVE  Scan!Occurrences' = Scan!Occurrences
<1>1. mem' = mem /\ pages' = pages /\ request' = request
  OBVIOUS
<1>2. ASSUME NEW a PROVE Scan!RegionEnd(a)' = Scan!RegionEnd(a)
  BY <1>1 DEF Scan!RegionEnd, Scan!PageOf
<1>3. ASSUME NEW a PROVE Scan!IsEligible(Scan!PageOf(a))' = Scan!IsEligible(Scan!PageOf(a))
  BY <1>1 DEF Scan!IsEligible, Scan!PageOf
<1>4. ASSUME NEW a PROVE Scan!Accepts(request, a)' = Scan!Accepts(request, a)
  BY <1>1 DEF Scan!Accepts
<1>. QED
  BY <1>1, <1>2, <1>3, <1>4 DEF Scan!Occurrences

\* What a page holds after a round: what it held and the matches of the chunk.
LEMMA PageAfterRound ==
  ASSUME ScanState, pc = "scan", Scan!IsEligible(Scan!PageOf(cursor))
  PROVE  LET v == Scan!Matches(Scan!ChunkMatches(request, cursor, Scan!UniqueEnd))
             w == Reported \o v
         IN  /\ found \o v \in Seq(ScanMatch) /\ w = reported \o (found \o v)
             /\ w \in Seq(ScanMatch) /\ Ascends(w)
             /\ \A n \in DOMAIN w : w[n].address < Scan!UniqueEnd
             /\ quiet => /\ AddressesOf(w) = {a \in Scan!Occurrences : a < Scan!UniqueEnd}
                         /\ \A n \in DOMAIN w : Inside(w[n])
<1> DEFINE end == Scan!UniqueEnd
           S == {a \in Scan!Occurrences : cursor <= a /\ a < end}
           v == Scan!Matches(S)
           w == Reported \o v
<1>1. /\ cursor \in Scan!Address /\ cursor \in Nat /\ scanned \in Nat /\ scanned < PageBudget
      /\ request \in Seq(SUBSET Byte) /\ Len(request) >= 1 /\ Len(request) \in Nat
  BY ScanSizes DEF ScanState, ScanPlace
<1>2. Scan!ChunkMatches(request, cursor, end) = S
  BY <1>1, RoundLemma
<1>3. end \in Nat /\ cursor < end
  BY <1>1, EndOfRound
<1>4. /\ pages \in [Scan!Page -> [private : BOOLEAN, alloc : Scan!Address]]
      /\ \A p \in Scan!Page : Scan!Allocated(pages, p)
      /\ reported \in Seq(ScanMatch) /\ found \in Seq(ScanMatch)
      /\ Reported \in Seq(ScanMatch)
  BY ReportedLemma DEF ScanState, ScanTyped
<1>5. S \in SUBSET Scan!Address
  BY DEF Scan!Occurrences
<1> HIDE DEF end
<1>6. /\ v \in Seq(ScanMatch) /\ Ascends(v) /\ AddressesOf(v) = S
      /\ \A n \in DOMAIN v :
           /\ v[n].address \in S
           /\ v[n].allocation.base <= v[n].address
           /\ Scan!RegionEnd(v[n].address) <= v[n].allocation.base + v[n].allocation.size
  <2> HIDE DEF S
  <2>. QED
    BY <1>4, <1>5, MatchesLemma
<1>7. \A a \in S : a \in Nat /\ cursor <= a /\ a < end
                   /\ a + Len(request) <= Scan!RegionEnd(a) /\ a \in Scan!Address
  BY ScanSizes DEF Scan!Occurrences
<1> HIDE DEF S, v
<1>8. /\ \A n \in DOMAIN Reported : Reported[n].address < cursor
      /\ \A n \in DOMAIN v : cursor <= v[n].address
      /\ Ascends(Reported)
  BY <1>6, <1>7 DEF ScanState, ScanPlace
<1>9. /\ w \in Seq(ScanMatch) /\ Ascends(w)
      /\ AddressesOf(w) = AddressesOf(Reported) \cup AddressesOf(v)
      /\ \A n \in DOMAIN w :
           (\E k \in DOMAIN Reported : w[n] = Reported[k]) \/ (\E k \in DOMAIN v : w[n] = v[k])
  BY <1>1, <1>4, <1>6, <1>8, JoinLemma
<1>10. found \o v \in Seq(ScanMatch) /\ w = reported \o (found \o v)
  BY <1>4, <1>6 DEF Reported
<1> HIDE DEF w
<1>11. ASSUME NEW n \in DOMAIN w PROVE w[n].address < end
  <2>1. CASE \E k \in DOMAIN Reported : w[n] = Reported[k]
    <3>1. PICK k \in DOMAIN Reported : w[n] = Reported[k]
      BY <2>1
    <3>2. \A j \in DOMAIN Reported : Reported[j] \in ScanMatch
      BY <1>4
    <3>3. Reported[k].address \in Nat
      BY <3>2, ScanSizes DEF ScanMatch
    <3>. QED
      BY <1>1, <1>3, <1>8, <3>1, <3>3
  <2>2. CASE \E k \in DOMAIN v : w[n] = v[k]
    BY <1>6, <1>7, <2>2
  <2>. QED
    BY <1>9, <2>1, <2>2
<1>12. ASSUME quiet
       PROVE  /\ AddressesOf(w) = {a \in Scan!Occurrences : a < end}
              /\ \A n \in DOMAIN w : Inside(w[n])
  <2>1. /\ AddressesOf(Reported) = {a \in Scan!Occurrences : a < cursor}
        /\ \A n \in DOMAIN Reported : Inside(Reported[n])
    BY <1>12 DEF ScanState, FoundBelow
  <2>2. \A a \in Scan!Occurrences : a \in Nat
    BY ScanSizes DEF Scan!Occurrences
  <2>3. \A a \in Scan!Occurrences : a < cursor \/ (cursor <= a /\ a < end) <=> a < end
    BY <1>1, <1>3, <2>2
  <2>4. AddressesOf(w) = {a \in Scan!Occurrences : a < end}
    BY <1>6, <1>9, <2>1, <2>3 DEF S
  <2>5. ASSUME NEW k \in DOMAIN v PROVE Inside(v[k])
    <3>1. v[k] \in ScanMatch
      BY <1>6
    <3>2. /\ v[k].allocation.base \in Int /\ v[k].allocation.size \in Int
          /\ v[k].address \in Nat
      BY <3>1, ScanSizes DEF ScanMatch
    <3>3. /\ v[k].address + Len(request) <= Scan!RegionEnd(v[k].address)
          /\ Scan!RegionEnd(v[k].address) \in Nat
      BY <1>6, <1>7, SameRegion
    <3>. QED
      BY <1>1, <1>6, <3>2, <3>3 DEF Inside
  <2>. QED
    BY <1>9, <2>1, <2>4, <2>5
<1>. QED
  BY <1>2, <1>9, <1>10, <1>11, <1>12 DEF end, v, w

\* Steps that leave the place of the scan alone, or end it.
LEMMA ScanRestsLemma ==
  ASSUME ScanState, UNCHANGED <<request, cursor, scanned, reported, found>>,
         pc' = pc \/ pc' \notin {"idle", "scan", "page", "complete"},
         mem' \in [Scan!Address -> Byte],
         pages' \in [Scan!Page -> [private : BOOLEAN, alloc : Scan!Address]],
         \A p \in Scan!Page : Scan!Allocated(pages', p),
         quiet' /\ pc' \in {"scan", "page", "complete"} =>
           quiet /\ mem' = mem /\ pages' = pages
  PROVE  ScanState'
<1>1. ScanTyped' /\ Ascends(Reported)'
  BY DEF ScanState, ScanTyped, Reported
<1>2. ScanPlace'
  BY DEF ScanState, ScanPlace, Reported
<1>3. quiet' /\ pc' \in {"scan", "page"} => FoundBelow(cursor)'
  <2>1. SUFFICES ASSUME quiet', pc' \in {"scan", "page"} PROVE FoundBelow(cursor)'
    OBVIOUS
  <2>2. pc' = pc /\ quiet /\ mem' = mem /\ pages' = pages
    BY <2>1
  <2>3. FoundBelow(cursor)
    BY <2>1, <2>2 DEF ScanState
  <2>4. Scan!Occurrences' = Scan!Occurrences
    BY <2>2, PlacesStay
  <2>. QED
    BY <2>3, <2>4 DEF FoundBelow, Reported, Inside
<1>4. quiet' /\ pc' = "complete" => FoundBelow(AddressMax + 1)'
  <2>1. SUFFICES ASSUME quiet', pc' = "complete" PROVE FoundBelow(AddressMax + 1)'
    OBVIOUS
  <2>2. pc' = pc /\ quiet /\ mem' = mem /\ pages' = pages
    BY <2>1
  <2>3. FoundBelow(AddressMax + 1)
    BY <2>1, <2>2 DEF ScanState
  <2>4. Scan!Occurrences' = Scan!Occurrences
    BY <2>2, PlacesStay
  <2>. QED
    BY <2>3, <2>4 DEF FoundBelow, Reported, Inside
<1>. QED
  BY <1>1, <1>2, <1>3, <1>4 DEF ScanState

LEMMA FirstPageStep == ScanState /\ Scan!FirstPage => ScanState'
<1>1. SUFFICES ASSUME ScanState, Scan!FirstPage PROVE ScanState'
  OBVIOUS
<1>2. PICK q \in Patterns :
        request' = q /\ pc' = IF Len(q) < MinPattern THEN "INVALID_REQUEST" ELSE "scan"
  BY <1>1 DEF Scan!FirstPage
<1>3. /\ cursor' = 0 /\ scanned' = 0 /\ quiet' = TRUE
      /\ mem' = mem /\ pages' = pages /\ found' = found /\ reported' = reported
      /\ found = <<>> /\ reported = <<>>
  BY <1>1 DEF Scan!FirstPage, ScanState, ScanPlace
<1>4. Len(q) \in Nat /\ (pc' = "scan" => Len(q) >= 1) /\ 0 \in Scan!Address
  BY <1>2, ScanSizes
<1>5. Reported' = <<>>
  BY <1>3 DEF Reported
<1>6. ScanTyped'
  BY <1>1, <1>2, <1>3 DEF ScanState, ScanTyped
<1>7. ScanPlace'
  BY <1>2, <1>3, <1>4, <1>5, ScanSizes DEF ScanPlace
<1>8. Ascends(Reported)'
  BY <1>5 DEF Ascends
<1>9. FoundBelow(cursor)'
  <2>1. AddressesOf(<<>>) = {}
    BY DEF AddressesOf
  <2>2. \A a \in Scan!Occurrences' : a \in Nat
    BY ScanSizes DEF Scan!Occurrences
  <2>. QED
    BY <1>3, <1>5, <2>1, <2>2 DEF FoundBelow
<1>10. pc' # "complete"
  BY <1>2
<1>. QED
  BY <1>6, <1>7, <1>8, <1>9, <1>10 DEF ScanState

LEMMA NextPageStep == ScanState /\ Scan!NextPage => ScanState'
<1>1. SUFFICES ASSUME ScanState, Scan!NextPage PROVE ScanState'
  OBVIOUS
<1>2. /\ pc = "page" /\ pc' = "scan" /\ scanned' = 0 /\ reported' = reported \o found
      /\ found' = <<>> /\ mem' = mem /\ pages' = pages /\ quiet' = quiet
      /\ request' = request /\ cursor' = cursor
  BY <1>1 DEF Scan!NextPage
<1>3. ScanTyped'
  BY <1>1, <1>2, ReportedLemma DEF ScanState, ScanTyped, Reported
<1>4. Reported' = Reported
  BY <1>1, <1>2, ReportedLemma DEF ScanState, Reported
<1>5. ScanPlace' /\ Ascends(Reported)'
  BY <1>1, <1>2, <1>4, ScanSizes DEF ScanState, ScanPlace
<1>6. quiet => FoundBelow(cursor)'
  <2>1. Scan!Occurrences' = Scan!Occurrences
    BY <1>2, PlacesStay
  <2>. QED
    BY <1>1, <1>2, <1>4, <2>1 DEF ScanState, FoundBelow, Inside
<1>. QED
  BY <1>2, <1>3, <1>5, <1>6 DEF ScanState

\* There is no place for the pattern in the pages that are skipped.
LEMMA SkipRegionStep == ScanState /\ Scan!SkipRegion => ScanState'
<1>1. SUFFICES ASSUME ScanState, Scan!SkipRegion PROVE ScanState'
  OBVIOUS
<1> DEFINE end == Scan!RegionEnd(cursor)
<1>2. /\ pc = "scan" /\ ~Scan!IsEligible(Scan!PageOf(cursor))
      /\ mem' = mem /\ pages' = pages /\ quiet' = quiet /\ request' = request
      /\ scanned' = scanned /\ found' = found /\ reported' = reported
      /\ \/ end > AddressMax /\ pc' = "complete" /\ cursor' = cursor
         \/ ~(end > AddressMax) /\ pc' = "scan" /\ cursor' = end
  BY <1>1 DEF Scan!SkipRegion
<1>3. /\ cursor \in Scan!Address /\ cursor \in Nat /\ end \in Nat /\ cursor < end
      /\ end <= AddressMax + 1 /\ AddressMax \in Nat
  BY <1>1, <1>2, SameRegion, ScanSizes DEF ScanState, ScanPlace
<1>4. Reported' = Reported /\ Scan!Occurrences' = Scan!Occurrences
  BY <1>2, PlacesStay DEF Reported
<1>5. \A a \in Scan!Occurrences : a \in Nat /\ (a < end => a < cursor)
  <2>1. ASSUME NEW a \in Scan!Occurrences, cursor <= a, a < end PROVE FALSE
    <3>1. a \in Scan!Address /\ Scan!IsEligible(Scan!PageOf(a))
      BY DEF Scan!Occurrences
    <3>2. pages[Scan!PageOf(a)] = pages[Scan!PageOf(cursor)]
      BY <1>3, <2>1, <3>1, SameRegion
    <3>. QED
      BY <1>2, <3>1, <3>2 DEF Scan!IsEligible
  <2>2. \A a \in Scan!Occurrences : a \in Nat
    BY ScanSizes DEF Scan!Occurrences
  <2> HIDE DEF end
  <2>. QED
    BY <1>3, <2>1, <2>2
<1> HIDE DEF end
<1>6. quiet => FoundBelow(end)
  <2>1. {a \in Scan!Occurrences : a < end} = {a \in Scan!Occurrences : a < cursor}
    BY <1>3, <1>5
  <2>. QED
    BY <1>1, <1>2, <2>1 DEF ScanState, FoundBelow
<1>7. ScanTyped' /\ Ascends(Reported)'
  BY <1>1, <1>2, <1>4 DEF ScanState, ScanTyped
<1>8. ScanPlace'
  <2>1. ~(end > AddressMax) => end \in Scan!Address
    BY <1>3, ScanSizes
  <2>2. \A n \in DOMAIN Reported : Reported[n].address < end
    <3>1. \A n \in DOMAIN Reported : Reported[n].address \in Nat
      <4>1. \A n \in DOMAIN Reported : Reported[n] \in ScanMatch
        BY <1>1, ReportedLemma DEF ScanState
      <4>. QED
        BY <4>1, ScanSizes DEF ScanMatch
    <3>. QED
      BY <1>1, <1>2, <1>3, <3>1 DEF ScanState, ScanPlace
  <2>. QED
    BY <1>1, <1>2, <1>4, <2>1, <2>2 DEF ScanState, ScanPlace
<1>9. PICK e \in Nat : e = end
  BY <1>3
<1>10. quiet' => FoundBelow(e)'
  BY <1>2, <1>4, <1>6, <1>9 DEF FoundBelow, Inside
<1>11. CASE cursor' = end /\ pc' = "scan"
  BY <1>7, <1>8, <1>9, <1>10, <1>11 DEF ScanState, FoundBelow
<1>12. CASE end > AddressMax /\ pc' = "complete"
  <2>1. e = AddressMax + 1
    BY <1>3, <1>9, <1>12
  <2>. QED
    BY <1>7, <1>8, <1>10, <1>12, <2>1 DEF ScanState, FoundBelow
<1>. QED
  BY <1>2, <1>11, <1>12

LEMMA ScanChunkStep == ScanState /\ Scan!ScanChunk => ScanState'
<1>1. SUFFICES ASSUME ScanState, Scan!ScanChunk PROVE ScanState'
  OBVIOUS
<1> DEFINE v == Scan!Matches(Scan!ChunkMatches(request, cursor, Scan!UniqueEnd))
           all == found \o v
           w == Reported \o v
<1>2. /\ pc = "scan" /\ Scan!IsEligible(Scan!PageOf(cursor))
      /\ mem' = mem /\ pages' = pages /\ quiet' = quiet /\ request' = request
      /\ reported' = reported
      /\ \/ /\ Len(all) > ScanMatches
            /\ found' = [n \in 1..(ScanMatches + 1) |-> all[n]]
            /\ pc' = "TOO_MANY_MATCHES"
         \/ /\ found' = all /\ cursor' = Scan!UniqueEnd
            /\ scanned' = scanned + Scan!UniqueEnd - cursor
            /\ pc' = IF Scan!UniqueEnd > AddressMax THEN "complete"
                     ELSE IF scanned' = PageBudget THEN "page" ELSE "scan"
  BY <1>1 DEF Scan!ScanChunk
<1>3. /\ all \in Seq(ScanMatch) /\ w = reported \o all
      /\ w \in Seq(ScanMatch) /\ Ascends(w)
      /\ \A n \in DOMAIN w : w[n].address < Scan!UniqueEnd
      /\ quiet => /\ AddressesOf(w) = {a \in Scan!Occurrences : a < Scan!UniqueEnd}
                  /\ \A n \in DOMAIN w : Inside(w[n])
  BY <1>1, <1>2, PageAfterRound
<1>4. /\ cursor \in Scan!Address /\ cursor \in Nat /\ scanned \in Nat /\ scanned < PageBudget
      /\ Len(request) >= 1 /\ request \in Patterns
      /\ reported \in Seq(ScanMatch)
  BY <1>1, <1>2, ScanSizes DEF ScanState, ScanPlace, ScanTyped
<1>5. /\ Scan!UniqueEnd \in Nat /\ cursor < Scan!UniqueEnd
      /\ Scan!UniqueEnd <= AddressMax + 1 /\ Scan!UniqueEnd - cursor <= PageBudget - scanned
  <2>1. /\ Scan!RegionEnd(cursor) \in Nat /\ Scan!RegionEnd(cursor) <= AddressMax + 1
    BY <1>4, SameRegion
  <2>. QED
    BY <1>4, <2>1, EndOfRound, ScanSizes
<1>6. PICK e \in Nat : e = Scan!UniqueEnd
  BY <1>5
<1> HIDE DEF v, all, w
<1>7. CASE Len(all) > ScanMatches /\ found' = [n \in 1..(ScanMatches + 1) |-> all[n]]
           /\ pc' = "TOO_MANY_MATCHES"
  <2>1. /\ found' \in Seq(ScanMatch) /\ Len(found') = ScanMatches + 1
        /\ \A n \in 1..(ScanMatches + 1) : found'[n] = all[n]
    <3>1. \A n \in 1..(ScanMatches + 1) : n \in 1..Len(all) /\ all[n] \in ScanMatch
      BY <1>3, <1>7, ScanSizes
    <3>2. found' \in [1..(ScanMatches + 1) -> ScanMatch]
      BY <1>7, <3>1
    <3>3. ScanMatches + 1 \in Nat
      BY ScanSizes
    <3>. QED
      BY <1>7, <3>2, <3>3
  <2>2. /\ Reported' = reported \o found' /\ Reported' \in Seq(ScanMatch)
        /\ Len(Reported') <= Len(w) /\ \A n \in 1..Len(Reported') : Reported'[n] = w[n]
    <3>1. Reported' = reported \o found'
      BY <1>2 DEF Reported
    <3>2. ScanMatches + 1 <= Len(all) /\ ScanMatches + 1 \in Nat /\ Len(all) \in Nat
      BY <1>3, <1>7, ScanSizes
    <3>. QED
      BY <1>3, <1>4, <2>1, <3>1, <3>2
  <2>3. Ascends(Reported')
    BY <1>3, <2>2, PrefixLemma
  <2>4. ScanTyped'
    BY <1>1, <1>2, <2>1 DEF ScanState, ScanTyped
  <2>5. ScanPlace'
    BY <1>7 DEF ScanPlace
  <2>. QED
    BY <1>7, <2>3, <2>4, <2>5 DEF ScanState
<1>8. CASE /\ found' = all /\ cursor' = Scan!UniqueEnd
           /\ scanned' = scanned + Scan!UniqueEnd - cursor
           /\ pc' = IF Scan!UniqueEnd > AddressMax THEN "complete"
                    ELSE IF scanned' = PageBudget THEN "page" ELSE "scan"
  <2>1. Reported' = w
    BY <1>2, <1>3, <1>8 DEF Reported
  <2>2. ScanTyped'
    BY <1>1, <1>2, <1>3, <1>8 DEF ScanState, ScanTyped
  <2>3. Ascends(Reported')
    BY <1>3, <2>1
  <2>4. quiet' => FoundBelow(e)'
    <3>1. Scan!Occurrences' = Scan!Occurrences
      BY <1>2, PlacesStay
    <3>. QED
      BY <1>2, <1>3, <1>6, <2>1, <3>1 DEF FoundBelow, Inside
  <2>5. ScanPlace'
    <3>1. scanned' \in Nat /\ scanned' <= PageBudget
      BY <1>4, <1>5, <1>8, ScanSizes
    <3>2. ~(Scan!UniqueEnd > AddressMax) => Scan!UniqueEnd \in Scan!Address
      BY <1>5, ScanSizes
    <3>3. /\ pc' = "scan" => scanned' \in Nat /\ scanned' < PageBudget
          /\ pc' \in {"scan", "page"} => cursor' \in Scan!Address
          /\ pc' \in {"scan", "page", "complete"}
      BY <1>8, <3>1, <3>2, ScanSizes
    <3>. QED
      BY <1>2, <1>3, <1>4, <1>8, <2>1, <3>3 DEF ScanPlace
  <2>6. pc' \in {"scan", "page"} => cursor' = e
    BY <1>6, <1>8
  <2>7. pc' = "complete" => e = AddressMax + 1
    BY <1>5, <1>6, <1>8, ScanSizes
  <2>8. quiet' /\ pc' \in {"scan", "page"} => FoundBelow(cursor)'
    BY <2>4, <2>6 DEF FoundBelow
  <2>9. quiet' /\ pc' = "complete" => FoundBelow(AddressMax + 1)'
    BY <2>4, <2>7 DEF FoundBelow
  <2>. QED
    BY <2>2, <2>3, <2>5, <2>8, <2>9 DEF ScanState
<1>. QED
  BY <1>2, <1>7, <1>8 DEF all, v

LEMMA GiveUpStep == ScanState /\ Scan!GiveUp => ScanState'
<1>1. SUFFICES ASSUME ScanState, Scan!GiveUp PROVE ScanState'
  OBVIOUS
<1>2. /\ pc' \in {"OPERATION_TIMEOUT", "MEMORY_ACCESS_DENIED"} /\ found' \in {found, <<>>}
      /\ UNCHANGED <<mem, pages, quiet, request, cursor, scanned, reported>>
  BY <1>1 DEF Scan!GiveUp
<1>3. ScanTyped'
  <2>1. found' \in Seq(ScanMatch)
    <3>1. found \in Seq(ScanMatch) /\ <<>> \in Seq(ScanMatch)
      BY <1>1 DEF ScanState, ScanTyped
    <3>. QED
      BY <1>2, <3>1, Zenon
  <2>2. UNCHANGED <<mem, pages, request, reported>>
    BY <1>2
  <2>. QED
    BY <1>1, <2>1, <2>2 DEF ScanState, ScanTyped
<1>4. ScanPlace'
  BY <1>2 DEF ScanPlace
<1>5. Ascends(Reported')
  <2>1. CASE found' = found
    BY <1>1, <1>2, <2>1 DEF ScanState, Reported
  <2>2. CASE found' = <<>>
    <3>1. reported \in Seq(ScanMatch) /\ found \in Seq(ScanMatch) /\ Ascends(Reported)
      BY <1>1 DEF ScanState, ScanTyped
    <3>2. Reported' = reported
      BY <1>2, <2>2, <3>1 DEF Reported
    <3>3. /\ Reported \in Seq(ScanMatch) /\ Len(reported) <= Len(Reported)
          /\ \A n \in 1..Len(reported) : reported[n] = Reported[n]
      BY <3>1 DEF Reported
    <3>4. Ascends(reported)
      BY <3>1, <3>3, PrefixLemma
    <3>. QED
      BY <3>2, <3>4
  <2>. QED
    BY <1>2, <2>1, <2>2
<1>. QED
  BY <1>2, <1>3, <1>4, <1>5 DEF ScanState

LEMMA BatchStep == ScanState /\ (Scan!StartBatch \/ Scan!ReadRange) => ScanState'
<1>1. SUFFICES ASSUME ScanState, Scan!StartBatch \/ Scan!ReadRange PROVE ScanState'
  OBVIOUS
<1>2. /\ UNCHANGED <<request, cursor, scanned, reported, found, mem, pages>>
      /\ pc' \in {"INVALID_REQUEST", "read", "MEMORY_ACCESS_DENIED", "ok"}
  BY <1>1 DEF Scan!StartBatch, Scan!ReadRange, Scan!scanVars
<1>3. /\ mem' \in [Scan!Address -> Byte]
      /\ pages' \in [Scan!Page -> [private : BOOLEAN, alloc : Scan!Address]]
      /\ \A p \in Scan!Page : Scan!Allocated(pages', p)
  BY <1>1, <1>2 DEF ScanState, ScanTyped
<1>. QED
  BY <1>1, <1>2, <1>3, ScanRestsLemma

\* What the game does ends the quiet, and moves no allocation.
LEMMA GameStep == ScanState /\ (Scan!GameWrite \/ Scan!Reprotect) => ScanState'
<1>1. SUFFICES ASSUME ScanState, Scan!GameWrite \/ Scan!Reprotect PROVE ScanState'
  OBVIOUS
<1>2. UNCHANGED <<request, cursor, scanned, reported, found, pc>> /\ quiet' = FALSE
  BY <1>1 DEF Scan!GameWrite, Scan!Reprotect, Scan!scanVars
<1>3. /\ mem \in [Scan!Address -> Byte]
      /\ pages \in [Scan!Page -> [private : BOOLEAN, alloc : Scan!Address]]
      /\ \A p \in Scan!Page : Scan!Allocated(pages, p)
  BY <1>1 DEF ScanState, ScanTyped
<1>4. CASE Scan!GameWrite
  <2>1. PICK c \in GameCells, b \in Byte : mem' = [mem EXCEPT ![c] = b]
    BY <1>4 DEF Scan!GameWrite
  <2>2. mem' \in [Scan!Address -> Byte] /\ pages' = pages
    BY <1>3, <1>4, <2>1 DEF Scan!GameWrite
  <2>. QED
    BY <1>1, <1>2, <1>3, <2>2, ScanRestsLemma
<1>5. CASE Scan!Reprotect
  <2>1. PICK p \in VolatilePages : pages' = [pages EXCEPT ![p].private = ~@]
    BY <1>5 DEF Scan!Reprotect
  <2>2. \A q \in Scan!Page : /\ pages'[q] \in [private : BOOLEAN, alloc : Scan!Address]
                             /\ pages'[q].alloc = pages[q].alloc
    <3>1. ASSUME NEW q \in Scan!Page
          PROVE  /\ pages'[q] \in [private : BOOLEAN, alloc : Scan!Address]
                 /\ pages'[q].alloc = pages[q].alloc
      <4>1. pages[q] \in [private : BOOLEAN, alloc : Scan!Address]
        BY <1>3
      <4>2. pages'[q] = IF q = p THEN [pages[p] EXCEPT !.private = ~@] ELSE pages[q]
        BY <1>3, <2>1
      <4>3. ASSUME q = p
            PROVE  /\ [pages[p] EXCEPT !.private = ~@]
                        \in [private : BOOLEAN, alloc : Scan!Address]
                   /\ [pages[p] EXCEPT !.private = ~@].alloc = pages[p].alloc
        BY <4>1, <4>3
      <4>. QED
        BY <4>1, <4>2, <4>3
    <3>. QED
      BY <3>1
  <2>3. pages' \in [Scan!Page -> [private : BOOLEAN, alloc : Scan!Address]]
    <3>1. pages' = [q \in Scan!Page |-> pages'[q]]
      BY <1>3, <2>1
    <3>. QED
      BY <2>2, <3>1
  <2>4. ASSUME NEW q \in Scan!Page PROVE Scan!Allocated(pages', q)
    <3>1. /\ pages[q].alloc \in Nat /\ pages[q].alloc \div PageSize \in Nat
          /\ q \in Nat /\ q <= AddressMax \div PageSize
          /\ AddressMax \div PageSize \in Nat
      <4>1. pages[q].alloc \in Scan!Address
        BY <1>3
      <4>2. pages[q].alloc \in Nat
        BY <4>1, ScanSizes
      <4>3. pages[q].alloc \div PageSize \in Nat
        BY <4>2, PageLemma DEF Scan!PageOf
      <4>. QED
        BY <4>2, <4>3, ScanSizes, LastPage
    <3>2. \A r \in (pages[q].alloc \div PageSize)..q : r \in Scan!Page
      BY <3>1, ScanSizes
    <3>. QED
      BY <1>3, <2>2, <3>2 DEF Scan!Allocated
  <2>5. mem' = mem
    BY <1>5 DEF Scan!Reprotect
  <2>. QED
    BY <1>1, <1>2, <1>3, <2>3, <2>4, <2>5, ScanRestsLemma
<1>. QED
  BY <1>1, <1>4, <1>5

LEMMA ScanStays ==
  ScanState /\ UNCHANGED <<mem, pages, request, pc, cursor, scanned, found, reported, quiet>>
    => ScanState'
<1>1. SUFFICES ASSUME ScanState,
                      UNCHANGED <<mem, pages, request, pc, cursor, scanned, found, reported, quiet>>
               PROVE  ScanState'
  OBVIOUS
<1>2. /\ mem' \in [Scan!Address -> Byte]
      /\ pages' \in [Scan!Page -> [private : BOOLEAN, alloc : Scan!Address]]
      /\ \A p \in Scan!Page : Scan!Allocated(pages', p)
  BY <1>1 DEF ScanState, ScanTyped
<1>. QED
  BY <1>1, <1>2, ScanRestsLemma

LEMMA InitScan == CommandsInit => ScanInvariant
<1>1. SUFFICES ASSUME CommandsInit, which = "scan" PROVE ScanState
  BY DEF ScanInvariant
<1>2. Scan!Init
  BY <1>1 DEF CommandsInit
<1>3. /\ mem \in [Scan!Address -> Byte] /\ pages \in Layouts /\ pc = "idle"
      /\ request = <<>> /\ found = <<>> /\ reported = <<>>
  BY <1>2 DEF Scan!Init
<1>4. /\ Layouts \subseteq [Scan!Page -> [private : BOOLEAN, alloc : Scan!Address]]
      /\ \A l \in Layouts : \A p \in Scan!Page : Scan!Allocated(l, p)
  BY CommandsAssumption DEF Scan!ScanAssumption
<1>5. ScanTyped
  BY <1>3, <1>4 DEF ScanTyped
<1>6. Reported = <<>>
  BY <1>3 DEF Reported
<1>. QED
  BY <1>3, <1>5, <1>6 DEF ScanState, ScanPlace, Ascends

LEMMA NextScan == ScanInvariant /\ [CommandsNext]_commandVars => ScanInvariant'
<1>1. CASE which # "scan"
  BY <1>1 DEF ScanInvariant, CommandsNext, ScanStep, PipeStep, commandVars
<1>2. ASSUME ScanInvariant, which = "scan", UNCHANGED commandVars
      PROVE  ScanInvariant'
  <2>1. /\ ScanState
        /\ UNCHANGED <<which, mem, pages, request, pc, cursor, scanned, found, reported, quiet>>
    BY <1>2 DEF ScanInvariant, commandVars, shared, scanOnly
  <2>. QED
    BY <2>1, ScanStays DEF ScanInvariant
<1>3. ASSUME ScanInvariant, which = "scan", CommandsNext PROVE ScanInvariant'
  <2>1. Scan!Next /\ ScanState
    BY <1>3 DEF CommandsNext, PipeStep, ScanInvariant
  <2>2. CASE Scan!Ended
    <3>1. UNCHANGED <<mem, pages, request, pc, cursor, scanned, found, reported, quiet>>
      BY <2>2 DEF Scan!Ended, Scan!vars, Scan!scanVars
    <3>. QED
      BY <2>1, <3>1, ScanStays DEF ScanInvariant
  <2>3. CASE ~Scan!Ended
    BY <2>1, <2>3, FirstPageStep, NextPageStep, SkipRegionStep, ScanChunkStep, GiveUpStep,
       BatchStep, GameStep
    DEF Scan!Next, Scan!Chunked, ScanInvariant
  <2>. QED
    BY <2>2, <2>3
<1>. QED
  BY <1>1, <1>2, <1>3

\* For any memory, layout of pages, patterns and limits of a page, the pages
\* of a scan that completed while the game changed nothing (ScanPrivateMemory,
\* memory_reader.cpp, lines 407 to 610) hold every occurrence of the pattern
\* in private memory and nothing else, each inside the allocation reported for
\* it; and whatever the game does, the matches ascend over all the pages.
THEOREM CompleteScansAreExact == CommandsSpec => []CompleteScanFindsAll
<1>1. ScanInvariant => CompleteScanFindsAll
  <2>1. SUFFICES ASSUME ScanInvariant, which = "scan"
                 PROVE  Scan!CompleteScanFindsAll /\ Scan!MatchesAscend
    BY DEF CompleteScanFindsAll
  <2>2. ScanState
    BY <2>1 DEF ScanInvariant
  <2>3. Scan!MatchesAscend
    BY <2>2 DEF ScanState, Ascends, Reported, Scan!MatchesAscend
  <2>4. ASSUME pc = "complete", quiet
        PROVE  /\ AddressesOf(Reported) = Scan!Occurrences
               /\ \A n \in DOMAIN Reported : Inside(Reported[n])
    <3>1. FoundBelow(AddressMax + 1)
      BY <2>2, <2>4 DEF ScanState
    <3>2. \A a \in Scan!Occurrences : a < AddressMax + 1
      BY ScanSizes DEF Scan!Occurrences
    <3>. QED
      BY <3>1, <3>2 DEF FoundBelow
  <2>5. Scan!CompleteScanFindsAll
    BY <2>4 DEF Scan!CompleteScanFindsAll, AddressesOf, Reported, Inside
  <2>. QED
    BY <2>3, <2>5
<1>. QED
  BY <1>1, InitScan, NextScan, PTL DEF CommandsSpec
=============================================================================
