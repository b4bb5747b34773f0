------------------------------ MODULE Commands ------------------------------
(***************************************************************************)
(* What clients set in motion, side by side: the pipe that carries their   *)
(* calls, the scan of memory, table discovery and board mutation in the    *)
(* host, and the two tools that take several steps, the class replacement  *)
(* and the installer.  "which" says which component a behaviour is of.     *)
(* Variables of the same name hold the value of that component; those of   *)
(* the others rest.                                                        *)
(***************************************************************************)
EXTENDS Installer

CONSTANTS
  AddressMax, Byte, PageSize, BytesPerChunk, PageBudget,            \* MemoryScan
  ScanMatches, MinPattern, Patterns, RangeLists, MaxRangeBytes, MaxBatchBytes,
  Layouts, GameCells, VolatilePages,
  Slots, Profile, Worlds, GameStores, MaxChanges, MaxMatches,       \* FrtkDiscovery
  Place, Chunks, Chunk, Unreadable, Pointer, Signature, Recruits,   \* BoardMutation
  Boards, BoardSlots, Rows, MaxRequests, MaxMoves,
  Calls, Pieces, Buffer, NoCall,                                    \* HostPipe
  Records, ReadBatch, WriteBatch, Initial, RecordStores, MaxStores  \* ClassReplacement

-----------------------------------------------------------------------------
VARIABLES
  which,
  mem, pages, request, pc, cursor, scanned, reported, quiet, batch, readings,
  alloc, desc, certified, expired, changes, existed, torn, table, scans, row, match,
  candidates, stable, problem, result,
  tables, live, present, cache, failed, view, before, next, tablesBefore, disabled,
  moved, requests, moves,
  host, peer, call, kind, sent, written, got, answer, executed,
  stores, pending, lost, dryRun, snapshots, applied

shared == <<mem, request, pc, found, batch, disabled, moved>>
scanOnly == <<pages, cursor, scanned, reported, quiet, readings>>
discoveryOnly ==
  <<alloc, desc, certified, expired, changes, existed, torn, table, scans, row, match,
    candidates, stable, problem, result>>
boardOnly ==
  <<tables, live, present, cache, failed, view, before, next, tablesBefore, requests,
    moves>>
pipeOnly == <<host, peer, call, kind, sent, written, got, answer, executed>>
classOnly == <<stores, pending, lost, dryRun, snapshots, applied>>
installOnly ==
  <<active, backup, installed, steps, trouble, outcome, updated, commands, updates>>
commandVars ==
  <<which, shared, scanOnly, discoveryOnly, boardOnly, pipeOnly, classOnly, installOnly>>

-----------------------------------------------------------------------------
Scan == INSTANCE MemoryScan
  WITH Chunk <- BytesPerChunk, MaxMatches <- ScanMatches, Batches <- RangeLists
Discovery == INSTANCE FrtkDiscovery
Board == INSTANCE BoardMutation
Pipe == INSTANCE HostPipe
Class == INSTANCE ClassReplacement WITH GameStores <- RecordStores

ASSUME CommandsAssumption ==
  /\ Scan!ScanAssumption /\ Discovery!DiscoveryAssumption
  /\ Board!BoardAssumption /\ Pipe!PipeAssumption /\ Class!ClassAssumption

-----------------------------------------------------------------------------
ScanRests ==
  /\ pages = 0 /\ cursor = 0 /\ scanned = 0 /\ reported = 0 /\ quiet = 0
  /\ readings = 0
DiscoveryRests ==
  /\ alloc = 0 /\ desc = 0 /\ certified = 0 /\ expired = 0 /\ changes = 0
  /\ existed = 0 /\ torn = 0 /\ table = 0 /\ scans = 0 /\ row = 0 /\ match = 0
  /\ candidates = 0 /\ stable = 0 /\ problem = 0 /\ result = 0
BoardRests ==
  /\ tables = 0 /\ live = 0 /\ present = 0 /\ cache = 0 /\ failed = 0 /\ view = 0
  /\ before = 0 /\ next = 0 /\ tablesBefore = 0 /\ requests = 0
  /\ moves = 0
PipeRests ==
  /\ host = 0 /\ peer = 0 /\ call = 0 /\ kind = 0 /\ sent = 0 /\ written = 0 /\ got = 0
  /\ answer = 0 /\ executed = 0
ClassRests ==
  /\ stores = 0 /\ pending = 0 /\ lost = 0 /\ dryRun = 0 /\ snapshots = 0 /\ applied = 0
InstallRests ==
  /\ active = 0 /\ backup = 0 /\ installed = 0 /\ steps = <<>> /\ trouble = {}
  /\ outcome = "rests" /\ updated = {} /\ commands = 0 /\ updates = 0
FinderRests == ScanRests /\ DiscoveryRests /\ BoardRests
ClientRests == PipeRests /\ ClassRests /\ InstallRests

CommandsInit ==
  \/ /\ which = "scan" /\ Scan!Init
     /\ disabled = 0 /\ moved = 0 /\ DiscoveryRests /\ BoardRests /\ ClientRests
  \/ /\ which = "discovery" /\ Discovery!Init
     /\ request = 0 /\ found = 0 /\ batch = 0 /\ disabled = 0 /\ moved = 0
     /\ ScanRests /\ BoardRests /\ ClientRests
  \/ /\ which = "board" /\ Board!Init
     /\ mem = 0 /\ batch = 0 /\ ScanRests /\ DiscoveryRests /\ ClientRests
  \/ /\ which = "pipe" /\ Pipe!Init
     /\ mem = 0 /\ request = 0 /\ pc = "idle" /\ found = 0 /\ batch = 0 /\ disabled = 0 /\ moved = 0
     /\ FinderRests /\ ClassRests /\ InstallRests
  \/ /\ which = "class" /\ Class!Init
     /\ request = 0 /\ found = 0 /\ FinderRests /\ PipeRests /\ InstallRests
  \/ /\ which = "install" /\ Init
     /\ mem = 0 /\ request = 0 /\ pc = "idle" /\ batch = 0 /\ disabled = 0 /\ moved = 0
     /\ FinderRests /\ PipeRests /\ ClassRests

clientOnly == <<pipeOnly, classOnly, installOnly>>
finderOnly == <<scanOnly, discoveryOnly, boardOnly>>

ScanStep ==
  which = "scan" /\ UNCHANGED <<which, disabled, moved, discoveryOnly, boardOnly, clientOnly>>
PipeStep ==
  which = "pipe" /\ UNCHANGED <<which, shared, finderOnly, classOnly, installOnly>>
CommandsNext ==
  \/ ScanStep /\ Scan!Next
  \/ /\ which = "discovery" /\ Discovery!Next
     /\ UNCHANGED <<which, request, found, batch, disabled, moved, scanOnly, boardOnly, clientOnly>>
  \/ /\ which = "board" /\ Board!Next
     /\ UNCHANGED <<which, mem, batch, scanOnly, discoveryOnly, clientOnly>>
  \/ PipeStep /\ Pipe!Next
  \/ /\ which = "class" /\ Class!Next
     /\ UNCHANGED <<which, request, found, finderOnly, pipeOnly, installOnly>>
  \/ /\ which = "install" /\ Next
     /\ UNCHANGED <<which, mem, request, pc, batch, disabled, moved, finderOnly, pipeOnly, classOnly>>

\* The fairness is the scanner's, whose client asks for the next page, and the
\* pipe's, whose thread runs and whose SDK clients have timers.
CommandsSpec ==
  /\ CommandsInit /\ [][CommandsNext]_commandVars
  /\ WF_commandVars(ScanStep /\ Scan!Chunked)
  /\ WF_commandVars(ScanStep /\ Scan!NextPage)
  /\ WF_commandVars(ScanStep /\ Scan!ReadRange)
  /\ WF_commandVars(PipeStep /\ Pipe!Serve)
  /\ WF_commandVars(PipeStep /\ Pipe!Timers)

-----------------------------------------------------------------------------
\* ScanPrivateMemory (memory_reader.cpp, lines 407 to 610): the pages of a
\* completed scan hold every occurrence exactly once, and no match is reported
\* twice whatever the game does meanwhile.
CompleteScanFindsAll == which = "scan" => Scan!CompleteScanFindsAll /\ Scan!MatchesAscend

\* A client that follows next_cursor comes to an end.
EveryScanEnds == which = "scan" => Scan!EveryScanEnds

\* DiscoverTables (frtk_discovery.cpp, lines 547 to 903): without disturbance a
\* table is resolved exactly when it is there, once, with its references.
DiscoveryIsExact == which = "discovery" => Discovery!DiscoveryIsExact

\* However the game moves during a discovery, what it resolves has existed.
ResolvedTablesExisted == which = "discovery" => Discovery!ResolvedTablesExisted

\* FindPatterns (board_mutation.cpp, lines 191 to 243) loses and doubles no
\* object at the boundaries of its chunks.
FindsEachOnce == which = "board" => Board!FindsEachOnce

\* Invoke (board_mutation.cpp, lines 545 to 708) says APPLIED only of a routine
\* that ran to its end.
AppliedIsWhole == which = "board" => Board!AppliedIsWhole

\* request() (client.cjs) and Serve (protocol.cpp): a request runs at most once,
\* and its client is told what became of it.
OutcomesAreTrue == which = "pipe" => Pipe!OutcomesAreTrue

\* Serve: every connection of an SDK client ends, whatever becomes of its call.
PipeComesFree == which = "pipe" /\ peer # NoCall /\ ~Pipe!Foreign(peer) ~> peer = NoCall

\* replaceLiveClass (live-class-replace.cjs, lines 212 to 249) edits all records
\* or none, as far as it can know.
ReplacementIsAllOrNothing == which = "class" => Class!ReplacementIsAllOrNothing
=============================================================================
