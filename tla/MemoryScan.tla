----------------------------- MODULE MemoryScan -----------------------------
(***************************************************************************)
(* native/host/memory_reader.cpp: the paged scan of private memory         *)
(* (ScanPrivateMemory) as a client drives it, page after page under the    *)
(* cursor of the page before, and the batched read (ReadMemoryBatch).      *)
(*                                                                         *)
(* A masked pattern is a sequence of sets: the bytes that position         *)
(* accepts, which is every byte where the mask is zero.  One Chunk action  *)
(* is one round of the loop, with one VirtualQuery and one copy; the game  *)
(* may store bytes and change or free pages between any two rounds.        *)
(***************************************************************************)
EXTENDS Integers, Sequences, SequencesExt, FiniteSets

CONSTANTS
  AddressMax,   \* lpMaximumApplicationAddress; addresses start at 0
  Byte,
  PageSize,     \* bytes with one protection
  Chunk,        \* kScanChunkBytes
  PageBudget,   \* kMaxScanPageBytes, the bytes of one page of results
  MaxMatches,   \* max_matches of the request
  MinPattern,   \* kMinPatternBytes
  Patterns,     \* the patterns clients ask for
  Batches,      \* the batches of ranges clients read
  MaxRangeBytes, MaxBatchBytes,   \* kMaxReadRangeBytes, kMaxReadBytes
  Layouts,      \* initial pages: number -> [private: BOOLEAN, alloc: address]
  GameCells,    \* the cells the game writes
  VolatilePages \* the pages whose protection changes

Address == 0..AddressMax
Page == 0..(AddressMax \div PageSize)

\* An allocation starts at a page and has the pages from there on.
Allocated(l, p) ==
  LET base == l[p].alloc \div PageSize
  IN  /\ l[p].alloc = base * PageSize /\ base <= p
      /\ \A q \in base..p : l[q].alloc = l[p].alloc

ScanAssumption ==
  /\ AddressMax \in Nat /\ PageSize \in Nat \ {0} /\ (AddressMax + 1) % PageSize = 0
  /\ Chunk \in Nat \ {0} /\ PageBudget \in Nat \ {0}
  /\ MaxMatches \in Nat \ {0} /\ MinPattern \in Nat \ {0}
  /\ Patterns \subseteq Seq(SUBSET Byte)
  /\ GameCells \subseteq Address /\ VolatilePages \subseteq Page
  /\ Layouts \subseteq [Page -> [private : BOOLEAN, alloc : Address]]
  /\ \A l \in Layouts : \A p \in Page : Allocated(l, p)

VARIABLES
  mem,        \* the memory of the process
  pages,      \* what VirtualQuery says of each page
  request,    \* the pattern being searched for
  pc,         \* where the client and the scan are
  cursor,     \* the local of ScanPrivateMemory, and next_cursor between pages
  scanned,    \* scanned_bytes of this page
  found,      \* the matches of this page
  reported,   \* history: the matches of the pages before
  quiet,      \* history: the game has changed nothing since the first page
  batch,      \* the ranges of a batched read
  readings    \* the bytes it has copied

scanVars == <<request, cursor, scanned, found, reported>>
batchVars == <<batch, readings>>
vars == <<mem, pages, quiet, pc, scanVars, batchVars>>

PageOf(a) == a \div PageSize
IsEligible(p) == pages[p].private

\* The first address after the region VirtualQuery reports for a: the pages
\* from there on that have the same attributes.
RegionEnd(a) ==
  LET last == CHOOSE p \in Page :
                /\ \A q \in PageOf(a)..p : pages[q] = pages[PageOf(a)]
                /\ p + 1 \in Page => pages[p + 1] # pages[PageOf(a)]
                /\ p >= PageOf(a)
  IN  (last + 1) * PageSize

\* The allocation of an address: where it starts and how far its regions go.
AllocationOf(a) ==
  LET base == pages[PageOf(a)].alloc
      last == CHOOSE p \in Page :
                /\ \A q \in PageOf(base)..p : pages[q].alloc = base
                /\ p + 1 \in Page => pages[p + 1].alloc # base
                /\ p >= PageOf(base)
  IN  [base |-> base, size |-> (last + 1) * PageSize - base]

-----------------------------------------------------------------------------
\* The pattern occurs at a.
Accepts(pattern, a) == \A n \in DOMAIN pattern : mem[a + n - 1] \in pattern[n]

\* The check the matcher makes first: one that accepts a single byte, if any.
Anchor(pattern) ==
  LET full == {n \in DOMAIN pattern : \E b \in Byte : pattern[n] = {b}}
      some == {n \in DOMAIN pattern : pattern[n] # Byte}
  IN  IF full # {} THEN CHOOSE n \in full : \A m \in full : n <= m
      ELSE IF some # {} THEN CHOOSE n \in some : \A m \in some : n <= m ELSE 1

\* The candidates of first..end-1 the matcher stops at: it jumps over those
\* whose anchor byte differs.
FindAll(pattern, first, end) ==
  {a \in first..(end - 1) : mem[a + Anchor(pattern) - 1] \in pattern[Anchor(pattern)]
                            /\ Accepts(pattern, a)}

\* A plausible mistake: the copy ends with the chunk.
NoLookahead(pattern, first, end) == FindAll(pattern, first, end - Len(pattern) + 1)

\* The matches of a chunk: those that start in its unique bytes and end in
\* what was copied, which reaches past the chunk by a pattern less one byte
\* but never out of the region.
ChunkMatches(pattern, first, end) ==
  LET ahead == end + Len(pattern) - 1
      copied == IF RegionEnd(first) < ahead THEN RegionEnd(first) ELSE ahead
      last == copied - Len(pattern) + 1
  IN  FindAll(pattern, first, IF last < end THEN last ELSE end)

\* The bytes of one round: the rest of the region, a chunk, or the budget.
UniqueEnd ==
  LET ends == {RegionEnd(cursor), cursor + Chunk, cursor + PageBudget - scanned}
  IN  CHOOSE e \in ends : \A f \in ends : e <= f

\* A set in ascending order.
Ascending(S) ==
  [n \in 1..Cardinality(S) |-> CHOOSE a \in S : Cardinality({b \in S : b <= a}) = n]
Match(a) == [address |-> a, allocation |-> AllocationOf(a)]
Matches(S) == [n \in DOMAIN Ascending(S) |-> Match(Ascending(S)[n])]

-----------------------------------------------------------------------------
Init ==
  /\ mem \in [Address -> Byte]
  /\ pages \in Layouts
  /\ request = <<>> /\ cursor = 0 /\ scanned = 0 /\ found = <<>> /\ reported = <<>>
  /\ batch = <<>> /\ readings = <<>>
  /\ quiet = TRUE
  /\ pc = "idle"

\* The client asks for the first page.  The request is checked first.
FirstPage ==
  /\ pc = "idle"
  /\ \E p \in Patterns :
       /\ request' = p
       /\ pc' = IF Len(p) < MinPattern THEN "INVALID_REQUEST" ELSE "scan"
  /\ cursor' = 0 /\ scanned' = 0
  /\ quiet' = TRUE
  /\ UNCHANGED <<mem, pages, found, reported, batchVars>>

\* A plausible mistake: every page is asked for without a cursor.
RestartsScan ==
  /\ pc = "page"
  /\ pc' = "scan"
  /\ cursor' = 0 /\ scanned' = 0
  /\ found' = <<>>
  /\ UNCHANGED <<mem, pages, quiet, request, reported, batchVars>>

\* The client asks for the next page with next_cursor.
NextPage ==
  /\ pc = "page"
  /\ pc' = "scan"
  /\ scanned' = 0
  /\ reported' = reported \o found
  /\ found' = <<>>
  /\ UNCHANGED <<mem, pages, quiet, request, cursor, batchVars>>

\* Pages that are not private and readable are skipped.
SkipRegion ==
  /\ pc = "scan"
  /\ ~IsEligible(PageOf(cursor))
  /\ IF RegionEnd(cursor) > AddressMax
     THEN pc' = "complete" /\ UNCHANGED cursor
     ELSE cursor' = RegionEnd(cursor) /\ UNCHANGED pc
  /\ UNCHANGED <<mem, pages, quiet, request, scanned, found, reported, batchVars>>

\* A chunk is copied and searched, and the page ends where its budget does.
\* The search stops at the first match past max_matches.
ScanChunk ==
  /\ pc = "scan"
  /\ IsEligible(PageOf(cursor))
  /\ LET end == UniqueEnd
         all == found \o Matches(ChunkMatches(request, cursor, end))
     IN  IF Len(all) > MaxMatches
         THEN /\ found' = [n \in 1..(MaxMatches + 1) |-> all[n]]
              /\ pc' = "TOO_MANY_MATCHES"
              /\ UNCHANGED <<cursor, scanned>>
         ELSE /\ found' = all
              /\ cursor' = end
              /\ scanned' = scanned + end - cursor
              /\ pc' = IF end > AddressMax THEN "complete"
                       ELSE IF scanned' = PageBudget THEN "page" ELSE "scan"
  /\ UNCHANGED <<mem, pages, quiet, request, reported, batchVars>>

\* should_cancel says so, and the matches of the page are dropped; the copy
\* fails, the page having changed since it was queried, and they are kept; or
\* the allocation of a match cannot be queried, and they are dropped.
GiveUp ==
  /\ pc = "scan"
  /\ \/ pc' = "OPERATION_TIMEOUT" /\ found' = <<>>
     \/ /\ pc' = "MEMORY_ACCESS_DENIED"
        /\ IsEligible(PageOf(cursor))
        /\ found' \in {found, <<>>}
  /\ UNCHANGED <<mem, pages, quiet, request, cursor, scanned, reported, batchVars>>

Chunked == SkipRegion \/ ScanChunk \/ GiveUp

-----------------------------------------------------------------------------
\* Every range of a batch is checked before any is read.
ValidRange(r) ==
  /\ r.address + r.length - 1 <= AddressMax
  /\ IsEligible(PageOf(r.address))
  /\ r.address + r.length <= RegionEnd(r.address)

BatchBytes(b, n) == FoldSeq(LAMBDA r, sum : r.length + sum, 0, SubSeq(b, 1, n))

WithinLimits(b, k) ==
  b[k].length \in 1..MaxRangeBytes /\ BatchBytes(b, k) <= MaxBatchBytes

\* The first range that fails a check decides the code.
StartBatch ==
  /\ pc = "idle"
  /\ \E b \in Batches :
       /\ batch' = b
       /\ pc' = IF b = <<>> \/ \E k \in DOMAIN b : /\ ~WithinLimits(b, k)
                                                    /\ \A j \in 1..(k - 1) : ValidRange(b[j])
                THEN "INVALID_REQUEST"
                ELSE IF \A k \in DOMAIN b : ValidRange(b[k]) THEN "read"
                ELSE "MEMORY_ACCESS_DENIED"
  /\ quiet' = TRUE
  /\ UNCHANGED <<mem, pages, readings, scanVars>>

\* The next range is copied; a copy that fails fails the batch, and nothing
\* of it is returned.
ReadRange ==
  /\ pc = "read"
  /\ LET r == batch[Len(readings) + 1]
         bytes == [n \in 1..r.length |-> mem[r.address + n - 1]]
     IN  IF IsEligible(PageOf(r.address))
         THEN /\ readings' = Append(readings, bytes)
              /\ pc' = IF Len(readings') = Len(batch) THEN "ok" ELSE "read"
         ELSE readings' = <<>> /\ pc' = "MEMORY_ACCESS_DENIED"
  /\ UNCHANGED <<mem, pages, quiet, batch, scanVars>>

-----------------------------------------------------------------------------
Running == pc \in {"scan", "page", "read"}

GameWrite ==
  /\ Running
  /\ \E c \in GameCells, b \in Byte : mem[c] # b /\ mem' = [mem EXCEPT ![c] = b]
  /\ quiet' = FALSE
  /\ UNCHANGED <<pages, pc, scanVars, batchVars>>

Reprotect ==
  /\ Running
  /\ \E p \in VolatilePages : pages' = [pages EXCEPT ![p].private = ~@]
  /\ quiet' = FALSE
  /\ UNCHANGED <<mem, pc, scanVars, batchVars>>

Ended == ~Running /\ pc # "idle" /\ UNCHANGED vars

Next ==
  \/ FirstPage \/ NextPage \/ Chunked
  \/ StartBatch \/ ReadRange
  \/ GameWrite \/ Reprotect \/ Ended

\* The scan's own thread is scheduled and the client asks for the pages.
Spec == Init /\ [][Next]_vars /\ WF_vars(Chunked) /\ WF_vars(NextPage) /\ WF_vars(ReadRange)

-----------------------------------------------------------------------------
\* A place where a scan of a process that does not change has to report the
\* pattern: it lies in one region of private readable memory.
Occurrences ==
  {a \in Address : /\ IsEligible(PageOf(a))
                   /\ a + Len(request) <= RegionEnd(a)
                   /\ Accepts(request, a)}

\* docs/protocol.md: next_cursor continues a scan.  When the last page says
\* the scan is complete and the game has changed nothing, the pages together
\* hold every occurrence, also those that straddle a chunk or a page of
\* results, each inside the allocation reported for it.
CompleteScanFindsAll ==
  pc = "complete" /\ quiet =>
    LET all == reported \o found
    IN  /\ {all[n].address : n \in DOMAIN all} = Occurrences
        /\ \A n \in DOMAIN all :
             LET m == all[n]
             IN  /\ m.allocation.base <= m.address
                 /\ m.address + Len(request) <= m.allocation.base + m.allocation.size

\* Whatever the game does meanwhile, the matches are reported in ascending
\* order, none of them twice.
MatchesAscend ==
  LET all == reported \o found
  IN  \A n \in 1..(Len(all) - 1) : all[n].address < all[n + 1].address

\* A client that follows next_cursor comes to an end: every page advances.
EveryScanEnds == pc = "scan" ~> pc \notin {"scan", "page"}
=============================================================================
