---------------------------- MODULE BoardMutation ----------------------------
(***************************************************************************)
(* native/host/board_mutation.cpp: addBoard and removeBoard.  The host     *)
(* looks for the recruiting runtime in the private memory of the game (a   *)
(* controller, record wrappers, three tables), calls the routine of the    *)
(* game that the recruiting screens use, and accepts the result by reading *)
(* the tables before and after.  The game runs all the time.               *)
(*                                                                         *)
(* Memory is a row of cells: a vtable pointer takes Pointer cells and lies *)
(* on a multiple of them, the signature of a table takes Signature cells.  *)
(* The objects of one loaded dynasty are a set; after another is loaded    *)
(* the objects of the first may be found in memory for a while.            *)
(***************************************************************************)
EXTENDS Integers, Sequences, SequencesExt, FiniteSetsExt

CONSTANTS
  Place,         \* set -> kind of object -> its first cell (a wrapper is of
                 \* the kind "team", or of its recruit)
  Chunks, Chunk, \* the chunks of the region, kChunkSize
  Unreadable,    \* the sets of chunks a discovery may fail to read
  Pointer, Signature,
  Recruits,
  Boards,        \* the boards a dynasty may have when it is loaded
  BoardSlots,    \* kBoardSlots
  Rows,          \* the capacity of the target and of the pitch table
  MaxRequests,   \* bound on the requests
  MaxMoves       \* bound on what the game does by itself

\* No object overlaps another or the end of the region; a pointer takes eight
\* bytes, a signature sixteen, a chunk 256 KiB.
BoardAssumption ==
  /\ Chunks \in Nat /\ Chunk \in Nat /\ Pointer \in Nat \ {0} /\ Signature \in Nat
  /\ Pointer <= Signature /\ Signature <= 2 * Pointer /\ Signature <= Chunk
  /\ \A k \in DOMAIN Place : \A o \in DOMAIN Place[k] :
       /\ Place[k][o] \in Nat \ {0}
       /\ Place[k][o] + (IF o \in {"targets", "pitches", "membership"} THEN Signature ELSE Pointer) - 1
            <= Chunks * Chunk
       /\ \A l \in DOMAIN Place : \A p \in DOMAIN Place[l] :
            <<k, o>> # <<l, p>> =>
              Place[k][o] + Pointer <= Place[l][p] \/ Place[l][p] + Pointer <= Place[k][o]
  /\ \A u \in Unreadable : u \subseteq 1..Chunks
  /\ BoardSlots \in Nat /\ Rows \in Nat /\ "cleared" \notin Recruits
  /\ \A b \in Boards : b \in Seq(Recruits) /\ Len(b) <= BoardSlots /\ Len(b) <= Rows

Sets == DOMAIN Place
Row == 1..Rows
TableKinds == {"targets", "pitches", "membership"}
Statuses == {"APPLIED", "UNCHANGED", "RECRUITING_NOT_LOADED", "RUNTIME_DISCOVERY_AMBIGUOUS",
             "BOARD_TABLE_DISCOVERY_FAILED", "BOARD_STATE_INVALID", "BOARD_FULL",
             "BOARD_NATIVE_CALL_FAILED", "BOARD_POSTCONDITION_FAILED"}
Cleared == "cleared"
None == [set |-> 0]

VARIABLES
  tables,    \* set -> [slots, target, tnext, thead, pnext, phead]
  live,      \* the set of the dynasty that is loaded
  present,   \* the sets whose objects are in memory
  cache,     \* g_runtime_cache: the view, and the recruit it is for
  pc,        \* "idle", the next step or the status of the request
  request,   \* [op, recruit]
  failed,    \* history: the chunks the last discovery could not read
  found,     \* history: what FindPatterns reported, and in which chunk
  view,      \* the sets of the controller and of the three tables, the heads
  before,    \* ReadBoard before the call
  next,      \* the rows behind the heads before the call
  tablesBefore, \* history: the tables before the call
  disabled,  \* g_session_writes_disabled
  moved,     \* history: the game did something since the request came
  requests, moves

game == <<tables, live, present>>
found_ == <<failed, found>>
vars == <<game, cache, pc, request, found_, view, before, next, tablesBefore,
          disabled, moved, requests, moves>>

-----------------------------------------------------------------------------
\* The tables of a dynasty with these recruits on its board, in this order.
NewTables(board) ==
  LET n == Len(board)
      chain == [r \in Row |-> IF r <= n THEN 0 ELSE r + 1]
  IN  [slots  |-> [s \in 1..BoardSlots |-> IF s <= n THEN s ELSE 0],
       target |-> [r \in Row |-> IF r <= n THEN [recruit |-> board[r], pitch |-> r]
                                           ELSE [recruit |-> Cleared, pitch |-> 0]],
       tnext  |-> chain, thead |-> n + 1, pnext |-> chain, phead |-> n + 1]

Objects ==
  UNION {{[set |-> k, kind |-> o, cell |-> Place[k][o]] : o \in DOMAIN Place[k]} : k \in present}

Length(o) == IF o.kind \in TableKinds THEN Signature ELSE Pointer
PatternOf(o) == IF o.kind \in TableKinds \cup {"controller"} THEN o.kind ELSE "wrapper"

\* FindPatterns reads the region chunk by chunk and searches each together
\* with the carried end of the one before; a chunk that cannot be read carries
\* nothing on.
FirstCell(c, unreadable) ==
  (c - 1) * Chunk + 1 - (IF c = 1 \/ c - 1 \in unreadable THEN 0 ELSE Signature - 1)

Window(c, unreadable) ==
  {o \in Objects : /\ c \notin unreadable
                   /\ o.cell >= FirstCell(c, unreadable)
                   /\ o.cell + Length(o) - 1 <= c * Chunk}

\* The occurrence at last_reported of its pattern when chunk c is searched.
LastReported(o, c, unreadable) ==
  LET before_ == UNION {Window(d, unreadable) : d \in 1..(c - 1)}
  IN  o \in before_ /\ \A q \in before_ : PatternOf(q) = PatternOf(o) => q.cell <= o.cell

\* A plausible mistake: what is found again in the carried bytes counts again.
ReportsTwice(c, unreadable) == Window(c, unreadable)

\* The first occurrence of a pattern is not reported again.
Fresh(c, unreadable) ==
  {o \in Window(c, unreadable) :
     ~ /\ LastReported(o, c, unreadable)
       /\ \A q \in Window(c, unreadable) : PatternOf(q) = PatternOf(o) => o.cell <= q.cell}

Report(c, o) == [chunk |-> c, object |-> o]
FindPatterns(unreadable) ==
  UNION {{Report(c, o) : o \in Fresh(c, unreadable)} : c \in 1..Chunks}

\* ScoreTable: a row that looks free counts once, one with content eight
\* times.
Score(kind, t) ==
  LET linked == {r \in Row : t.target[r].recruit # Cleared}
      items == {s \in 1..BoardSlots : t.slots[s] # 0}
  IN  CASE kind = "targets" -> Cardinality({r \in Row : t.tnext[r] = r + 1}) + 8 * Cardinality(linked)
        [] kind = "pitches" ->
             Cardinality({r \in Row : t.pnext[r] = r + 1})
             + 8 * Cardinality({t.target[r].pitch : r \in linked} \ {0})
        [] kind = "membership" -> 1 + 8 * Cardinality(items)

\* AddTableCandidate and SelectTable: the candidate with the best score, when
\* no other has it.
ScoreOf(r) == Score(r.object.kind, tables[r.object.set])
Best(reports) ==
  LET candidates == {r \in reports : ScoreOf(r) > 0}
  IN  {r \in candidates : \A q \in candidates \ {r} : ScoreOf(r) > ScoreOf(q)}

-----------------------------------------------------------------------------
\* ReadBoard over the tables a view names: valid when the slots are compact
\* and every reference in them is of the right table and in bounds.
ReadBoard(v) ==
  LET slots == tables[v.membership].slots
      used == {s \in 1..BoardSlots : slots[s] # 0}
      row(s) == tables[v.targets].target[slots[s]]
      n == Cardinality(used)
  IN  [valid |-> used = 1..n /\ \A s \in used : row(s).recruit # Cleared,
       items |-> [s \in 1..n |-> IF s \in used
                                 THEN [target |-> slots[s], recruit |-> row(s).recruit,
                                       pitch |-> row(s).pitch]
                                 ELSE [target |-> 0, recruit |-> Cleared, pitch |-> 0]]]

Matching(b) == {s \in DOMAIN b.items : b.items[s].recruit = request.recruit}

OnBoard(t, recruit) == \E s \in 1..BoardSlots : t.slots[s] # 0 /\ t.target[t.slots[s]].recruit = recruit

\* The row of a recruit on the board; an add takes the head of the freelist.
RowFor(op, recruit, t) ==
  IF op = "add" THEN t.thead
  ELSE t.slots[CHOOSE s \in 1..BoardSlots : t.slots[s] # 0 /\ t.target[t.slots[s]].recruit = recruit]

\* The steps of the add and of the remove routine of the game on row r, from
\* what the postconditions say they do.
List(recruit, r, t) ==
  LET end == Cardinality({s \in 1..BoardSlots : t.slots[s] # 0}) + 1
  IN  [t EXCEPT !.slots[end] = r, !.target[r] = [recruit |-> recruit, pitch |-> t.phead]]
TakeTarget(r, t) == [t EXCEPT !.thead = t.tnext[r], !.tnext[r] = 0]
TakePitch(r, t) ==
  LET pitch == t.target[r].pitch IN [t EXCEPT !.phead = t.pnext[pitch], !.pnext[pitch] = 0]

Unlist(r, t) ==
  LET gone == CHOOSE s \in 1..BoardSlots : t.slots[s] = r
  IN  [t EXCEPT !.slots = [s \in 1..BoardSlots |->
         IF s < gone THEN t.slots[s] ELSE IF s < BoardSlots THEN t.slots[s + 1] ELSE 0]]
ReturnPitch(r, t) ==
  LET pitch == t.target[r].pitch IN [t EXCEPT !.pnext[pitch] = t.phead, !.phead = pitch]
ReturnTarget(r, t) ==
  [t EXCEPT !.target[r] = [recruit |-> Cleared, pitch |-> 0], !.tnext[r] = t.thead, !.thead = r]

\* The routine up to so many of its three steps.
Routine(op, recruit, steps, t) ==
  LET r == RowFor(op, recruit, t)
      one == IF op = "add" THEN List(recruit, r, t) ELSE Unlist(r, t)
      two == IF op = "add" THEN TakeTarget(r, one) ELSE ReturnPitch(r, one)
      three == IF op = "add" THEN TakePitch(r, two) ELSE ReturnTarget(r, two)
  IN  CASE steps = 0 -> t [] steps = 1 -> one [] steps = 2 -> two [] steps = 3 -> three

\* The routines do nothing when there is nothing they can do.
CanRun(op, recruit, t) ==
  IF op = "add" THEN ~OnBoard(t, recruit) /\ t.slots[BoardSlots] = 0
                     /\ t.thead \in Row /\ t.phead \in Row
                ELSE OnBoard(t, recruit)

-----------------------------------------------------------------------------
Init ==
  /\ \E k \in Sets : live = k /\ present = {k}
  /\ \E b \in Boards : tables = [k \in Sets |-> NewTables(b)]
  /\ cache = None /\ pc = "idle" /\ request = [op |-> "add", recruit |-> Cleared]
  /\ failed = {} /\ found = {}
  /\ view = None /\ before = <<>> /\ next = <<0, 0>> /\ tablesBefore = <<>>
  /\ disabled = FALSE /\ moved = FALSE /\ requests = 0 /\ moves = 0

Finish(status) ==
  /\ pc' = status
  /\ disabled' = (disabled \/ status = "BOARD_POSTCONDITION_FAILED")
  /\ UNCHANGED <<game, request, moved, requests, moves>>

Request ==
  /\ pc \in {"idle"} \cup Statuses /\ ~disabled /\ requests < MaxRequests
  /\ \E o \in {"add", "remove"}, r \in Recruits : request' = [op |-> o, recruit |-> r]
  /\ pc' = "locate" /\ requests' = requests + 1 /\ moved' = FALSE
  /\ failed' = {} /\ found' = {}
  /\ view' = None /\ before' = <<>> /\ next' = <<0, 0>> /\ tablesBefore' = <<>>
  /\ UNCHANGED <<game, cache, disabled, moves>>

\* What a cache leads to, with the heads of the freelists as they are.
ViewOf(c) ==
  [set |-> c.set, targets |-> c.targets, pitches |-> c.pitches, membership |-> c.membership,
   heads |-> <<tables[c.targets].thead, tables[c.pitches].phead>>]

\* Every pointer of the cache still leads to an object of the right kind.
CacheValid ==
  /\ cache # None /\ cache.recruit = request.recruit
  /\ {cache.set, cache.targets, cache.pitches, cache.membership} \subseteq present

UseCache ==
  /\ pc = "locate" /\ CacheValid
  /\ view' = ViewOf(cache)
  /\ pc' = "before"
  /\ UNCHANGED <<game, cache, request, found_, before, next, tablesBefore, disabled, moved, requests, moves>>

\* DiscoverRuntime over all private memory.
Discover ==
  /\ pc = "locate" /\ ~CacheValid
  /\ \E unreadable \in Unreadable : \E seen \in {FindPatterns(unreadable)} :
       LET Seen(kind) == {r \in seen : r.object.kind = kind}
           objects == {Seen("controller"), Seen(request.recruit), Seen("team")}
           best == [k \in TableKinds |-> Best(Seen(k))]
           SetOf(reports) == (CHOOSE r \in reports : TRUE).object.set
       IN  /\ failed' = unreadable /\ found' = seen
           /\ UNCHANGED <<before, next, tablesBefore>>
           /\ \/ /\ \E s \in objects : s = {}
                 /\ Finish("RECRUITING_NOT_LOADED") /\ cache' = None /\ UNCHANGED view
              \/ /\ \A s \in objects : s # {}
                 /\ \E s \in objects : Cardinality(s) > 1
                 /\ Finish("RUNTIME_DISCOVERY_AMBIGUOUS") /\ cache' = None /\ UNCHANGED view
              \/ /\ \A s \in objects : Cardinality(s) = 1
                 /\ \E k \in TableKinds : best[k] = {}
                 /\ Finish("BOARD_TABLE_DISCOVERY_FAILED") /\ cache' = None /\ UNCHANGED view
              \/ /\ \A s \in objects : Cardinality(s) = 1
                 /\ \A k \in TableKinds : best[k] # {}
                 /\ cache' = [recruit |-> request.recruit, set |-> SetOf(Seen("controller")),
                              targets |-> SetOf(best["targets"]),
                              pitches |-> SetOf(best["pitches"]),
                              membership |-> SetOf(best["membership"])]
                 /\ view' = ViewOf(cache')
                 /\ pc' = "before"
                 /\ UNCHANGED <<game, request, disabled, moved, requests, moves>>

\* The board before the call decides whether there is anything to do.
ReadBefore ==
  /\ pc = "before"
  /\ LET b == ReadBoard(view)
         th == view.heads[1]
         ph == view.heads[2]
         add == request.op = "add"
     IN  \/ /\ ~b.valid \/ Cardinality(Matching(b)) > 1
            /\ Finish("BOARD_STATE_INVALID") /\ UNCHANGED <<before, next, tablesBefore>>
         \/ /\ b.valid /\ Cardinality(Matching(b)) = (IF add THEN 1 ELSE 0)
            /\ Finish("UNCHANGED") /\ UNCHANGED <<before, next, tablesBefore>>
         \/ /\ b.valid /\ add /\ Matching(b) = {} /\ Len(b.items) >= BoardSlots
            /\ Finish("BOARD_FULL") /\ UNCHANGED <<before, next, tablesBefore>>
         \/ /\ b.valid /\ add /\ Matching(b) = {} /\ Len(b.items) < BoardSlots
            /\ th \notin Row \/ ph \notin Row
            /\ Finish("BOARD_STATE_INVALID") /\ UNCHANGED <<before, next, tablesBefore>>
         \/ /\ b.valid /\ Cardinality(Matching(b)) = (IF add THEN 0 ELSE 1)
            /\ add => Len(b.items) < BoardSlots /\ th \in Row /\ ph \in Row
            /\ before' = b.items
            /\ next' = IF add THEN <<tables[view.targets].tnext[th], tables[view.pitches].pnext[ph]>>
                              ELSE <<0, 0>>
            /\ tablesBefore' = tables
            /\ pc' = "call"
            /\ UNCHANGED <<game, request, disabled, moved, requests, moves>>
  /\ failed' = {} /\ found' = {}
  /\ UNCHANGED <<cache, view>>

\* native_call::Invoke: the routine runs to its end, returns before it, or
\* faults on the way, which the guard turns into a status.
CallNative ==
  /\ pc = "call"
  /\ \E steps \in IF CanRun(request.op, request.recruit, tables[view.set]) THEN 0..3 ELSE {0} :
       /\ tables' = [tables EXCEPT ![view.set] = Routine(request.op, request.recruit, steps, @)]
       /\ pc' \in {"after"} \cup (IF steps < 3 THEN {"BOARD_NATIVE_CALL_FAILED"} ELSE {})
  /\ UNCHANGED <<live, present, cache, request, found_, view, before, next, tablesBefore,
                 disabled, moved, requests, moves>>

\* The postcondition of the add.
AddVerified(after) ==
  /\ Len(after.items) = Len(before) + 1
  /\ Matching(after) = {Len(before) + 1}
  /\ LET item == Last(after.items)
     IN  item.target = view.heads[1] /\ item.pitch = view.heads[2]
  /\ tables[view.targets].thead = next[1] /\ tables[view.pitches].phead = next[2]

\* The postcondition of the remove.
RemoveVerified(after) ==
  LET removed == before[CHOOSE s \in DOMAIN before : before[s].recruit = request.recruit]
  IN  /\ Len(after.items) + 1 = Len(before)
      /\ Matching(after) = {}
      /\ tables[view.targets].thead = removed.target
      /\ removed.pitch # 0 /\ tables[view.pitches].phead = removed.pitch
      /\ tables[view.targets].target[removed.target] = [recruit |-> Cleared, pitch |-> 0]

\* A plausible mistake: the board is looked at, the freelists are not.
BoardOnly(after) ==
  IF request.op = "add" THEN Matching(after) = {Len(before) + 1} ELSE Matching(after) = {}

Verified(after) == IF request.op = "add" THEN AddVerified(after) ELSE RemoveVerified(after)

ReadAfter ==
  /\ pc = "after"
  /\ LET after == ReadBoard(view)
     IN  Finish(IF after.valid /\ Verified(after) THEN "APPLIED" ELSE "BOARD_POSTCONDITION_FAILED")
  /\ UNCHANGED <<cache, found_, view, before, next, tablesBefore>>

-----------------------------------------------------------------------------
\* The player changes the board on a recruiting screen.
Play ==
  /\ moves < MaxMoves
  /\ \E o \in {"add", "remove"}, r \in Recruits :
       /\ CanRun(o, r, tables[live])
       /\ tables' = [tables EXCEPT ![live] = Routine(o, r, 3, @)]
  /\ moves' = moves + 1 /\ moved' = TRUE
  /\ UNCHANGED <<live, present, cache, pc, request, found_, view, before, next, tablesBefore,
                 disabled, requests>>

\* Another dynasty is loaded; what the last one left may still be there.
LoadDynasty ==
  /\ moves < MaxMoves
  /\ \E k \in Sets \ {live}, b \in Boards, keep \in BOOLEAN :
       /\ live' = k
       /\ present' = IF keep THEN {live, k} ELSE {k}
       /\ tables' = [tables EXCEPT ![k] = NewTables(b)]
  /\ moves' = moves + 1 /\ moved' = TRUE
  /\ UNCHANGED <<cache, pc, request, found_, view, before, next, tablesBefore, disabled, requests>>

Ended == pc \in {"idle"} \cup Statuses /\ (disabled \/ requests = MaxRequests) /\ UNCHANGED vars

Next ==
  \/ Request \/ UseCache \/ Discover \/ ReadBefore \/ CallNative \/ ReadAfter
  \/ Play \/ LoadDynasty \/ Ended

Spec == Init /\ [][Next]_vars

-----------------------------------------------------------------------------
\* FindPatterns (lines 191 to 243) reports every object whose cells could be
\* read exactly once, wherever the chunks cut it: an object lost at a boundary
\* would be "not loaded", one reported twice "ambiguous".
FindsEachOnce ==
  pc \in {"before", "RUNTIME_DISCOVERY_AMBIGUOUS"} /\ found # {} /\ ~moved =>
    \A o \in Objects :
      LET cells == o.cell..(o.cell + Length(o) - 1)
          readable == \A c \in failed : cells \cap ((c - 1) * Chunk + 1)..(c * Chunk) = {}
      IN  Cardinality({r \in found : r.object = o}) = (IF readable THEN 1 ELSE 0)

\* The slots, the references and the freelists of a dynasty agree: a row is
\* on the board or free, and every free row is behind the head once.
Chain(head, link, used) ==
  /\ {r \in Row : link[r] = 0} = used
  /\ head \notin used
  /\ \A r, q \in Row \ used : link[r] # head /\ (link[r] = link[q] => r = q)
Sound(t) ==
  LET used == {t.slots[s] : s \in 1..BoardSlots} \ {0}
  IN  /\ {r \in Row : t.target[r].recruit # Cleared} = used
      /\ \A s, z \in 1..BoardSlots : s < z /\ t.slots[z] # 0 => t.slots[s] \notin {0, t.slots[z]}
      /\ Chain(t.thead, t.tnext, used)
      /\ Chain(t.phead, t.pnext, {t.target[r].pitch : r \in used})

\* APPLIED is said only of a routine that ran to its end (lines 658 to 705):
\* one that returned before that is told by the board, the references or the
\* freelists, whichever copies of the tables were picked by their scores.
\* (Where an earlier fault left the freelists of one of them tangled it may
\* not be.)
AppliedIsWhole ==
  /\ pc = "APPLIED" /\ ~moved
  /\ \A k \in {view.targets, view.pitches, view.membership} : Sound(tablesBefore[k])
  => tables = [tablesBefore EXCEPT ![view.set] = Routine(request.op, request.recruit, 3, @)]

\* docs/superpowers/specs/2026-07-16-patch1-build-reanchor-design.md:225: "A
\* native fault, ambiguous discovery result, unexpected table change, or failed
\* postcondition disables further board mutations for the session."
PartialResultsDisableMutations ==
  pc \in Statuses /\ ~moved /\ tablesBefore # <<>> =>
    \/ disabled
    \/ LET was == tablesBefore[view.set]
       IN  tables[view.set] \in {was, Routine(request.op, request.recruit, 3, was)}

\* docs/superpowers/specs/2026-07-15-board-mutation-api-design.md:32: "Require
\* one unambiguous controller, recruit wrapper, and supporting runtime object
\* set." and line 67: "No cached runtime pointer reuse across requests or
\* dynasty loads."
CallsAreUnambiguous == pc = "call" /\ ~moved => Cardinality(present) = 1
=============================================================================
