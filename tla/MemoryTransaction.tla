-------------------------- MODULE MemoryTransaction --------------------------
(***************************************************************************)
(* The guarded write engine of the host: RunTransaction and RollBack of    *)
(* native/host/memory_transaction.cpp.  One call of RunTransaction is a    *)
(* sequence of backend calls (Validate, Read, Write); the game runs        *)
(* between any two of them, because the host never suspends it.  The       *)
(* engine is called under g_host_write_mutex, so one call runs at a time.  *)
(***************************************************************************)
EXTENDS Integers, Sequences

CONSTANTS
  AddressMax,       \* numeric_limits<uintptr_t>::max()
  Byte,             \* the values a memory cell holds
  ValidIds,         \* the transaction ids IsValidTransactionId accepts
  NoAddress,        \* what ParseAddress returns for a malformed address
  MaxOps,           \* kMaxTransactionOperations
  MaxOpBytes,       \* kMaxOperationBytes
  MaxTotalBytes,    \* kMaxTransactionBytes
  Requests,         \* the requests callers may submit
  GameCells,        \* the cells the game itself writes
  InitialProts,     \* the page protections the process may start with
  VolatileCells     \* the cells whose page protection may change

Cell == 0..AddressMax
Protection == {"none", "read", "write"}
Kind == {"write", "verify_only"}

\* TransactionOperation: "expected" and "replacement" are the byte strings.
Operation ==
  [ addr : Cell \cup {NoAddress}, kind : Kind,
    expected : Seq(Byte), replacement : Seq(Byte) ]

ASSUME SizeAssumption ==
  /\ AddressMax \in Nat
  /\ MaxOps \in Nat
  /\ MaxOpBytes \in Nat
  /\ MaxTotalBytes \in Nat
  /\ NoAddress \notin Cell

ASSUME RequestAssumption ==
  \A r \in Requests : r.ops \in Seq(Operation)

ASSUME EnvironmentAssumption ==
  /\ GameCells \subseteq Cell
  /\ InitialProts \subseteq [Cell -> Protection]
  /\ VolatileCells \subseteq Cell

VARIABLES
  mem,        \* the bytes of the process
  prot,       \* the protection VirtualQuery reports for each cell
  disturbed,  \* history: the game has written where the call is running
  pc,         \* where RunTransaction is
  req,        \* the request being run, or the last one run
  i,          \* the index of the running loop (a position in attempted during rollback)
  original,   \* prepared[k].original
  attempted,  \* the indexes whose write was attempted, in order
  results,    \* OperationResult of each operation
  restored,   \* the flag RollBack accumulates
  code        \* the code of the result returned

engineVars == <<pc, req, i, original, attempted, results, restored, code>>
vars == <<mem, prot, disturbed, engineVars>>

-----------------------------------------------------------------------------
(* The operations and their memory.                                        *)

Ops == req.ops
Size(op) == Len(op.expected)
Covered(op) == op.addr .. (op.addr + Size(op) - 1)
WriteCells(ops) ==
  UNION {Covered(ops[k]) : k \in {n \in DOMAIN ops : ops[n].kind = "write"}}
RequestCells(ops) == UNION {Covered(ops[k]) : k \in DOMAIN ops}

Load(m, op) == [k \in 1..Size(op) |-> m[op.addr + k - 1]]

\* The memory after the first n bytes of "bytes" were copied to addr.
StorePrefix(m, addr, bytes, n) ==
  [c \in Cell |-> IF c \in addr..(addr + n - 1) THEN bytes[c - addr + 1] ELSE m[c]]
Store(m, addr, bytes) == StorePrefix(m, addr, bytes, Len(bytes))

-----------------------------------------------------------------------------
(* The checks made before any memory is read (lines 150 to 196).           *)

TotalBytes(ops, n) ==
  LET total[k \in 0..n] == IF k = 0 THEN 0 ELSE total[k - 1] + Size(ops[k])
  IN  total[n]

BadSize(op) ==
  \/ Size(op) = 0
  \/ op.kind = "verify_only" /\ op.replacement # <<>>
  \/ op.kind = "write" /\ Len(op.replacement) # Size(op)
  \/ Size(op) > MaxOpBytes

BadAddress(op) ==
  \/ op.addr = NoAddress
  \/ op.addr > AddressMax - Size(op)

\* The checks of one turn of the shape loop, in the order of the code.
OpError(ops, k) ==
  CASE BadSize(ops[k]) -> "invalid_operation_size"
    [] ~BadSize(ops[k]) /\ TotalBytes(ops, k) > MaxTotalBytes -> "transaction_too_large"
    [] OTHER -> IF BadAddress(ops[k]) THEN "invalid_address" ELSE "none"

\* Sorted, non-empty ranges overlap pairwise exactly when two neighbours do.
Overlapping(ops) ==
  \E a, b \in DOMAIN ops : a # b /\ Covered(ops[a]) \cap Covered(ops[b]) # {}

\* The operation the shape loop stops at, if any.
FirstError(ops) ==
  {k \in DOMAIN ops : OpError(ops, k) # "none" /\ \A n \in 1..(k - 1) : OpError(ops, n) = "none"}

\* The codes a request is rejected with before any backend call: one or none.
ShapeErrors(r) ==
  IF r.id \notin ValidIds THEN {"invalid_transaction_id"}
  ELSE IF Len(r.ops) = 0 \/ Len(r.ops) > MaxOps THEN {"invalid_operation_count"}
  ELSE IF \E k \in DOMAIN r.ops : OpError(r.ops, k) # "none"
    THEN {OpError(r.ops, k) : k \in FirstError(r.ops)}
  ELSE IF Overlapping(r.ops) THEN {"overlapping_operations"} ELSE {}

\* A request that passes every one of those checks.
WellShaped(r) ==
  /\ r.id \in ValidIds
  /\ Len(r.ops) \in 1..MaxOps
  /\ \A k \in DOMAIN r.ops : OpError(r.ops, k) = "none"
  /\ ~Overlapping(r.ops)

RejectCodes ==
  { "invalid_transaction_id", "invalid_operation_count", "invalid_operation_size",
    "transaction_too_large", "invalid_address", "overlapping_operations",
    "invalid_memory_range", "preflight_read_failed", "expected_mismatch" }
FinalCodes ==
  RejectCodes \cup {"applied_verified", "rolled_back_verified", "rollback_unverified"}

-----------------------------------------------------------------------------
(* The process memory backend (lines 102 to 146).                          *)

Readable(op) == \A c \in Covered(op) : prot[c] # "none"
Writable(op) == \A c \in Covered(op) : prot[c] = "write"
Validates(op) == Readable(op) /\ (op.kind = "write" => Writable(op))

\* ReadProcessMemory copied every byte.
ReadOk(op) == Readable(op)

\* WriteProcessMemory of bytes at op: either every byte, or a failure that
\* copied a prefix of the bytes that precede the first unwritable cell.
WriteOk(op, bytes) ==
  /\ Writable(op)
  /\ mem' = Store(mem, op.addr, bytes)
WriteFails(op, bytes) ==
  /\ ~Writable(op)
  /\ \E n \in 0..(Size(op) - 1) :
       /\ \A c \in op.addr..(op.addr + n - 1) : prot[c] = "write"
       /\ mem' = StorePrefix(mem, op.addr, bytes, n)

-----------------------------------------------------------------------------
(* RunTransaction.                                                         *)

Init ==
  /\ mem \in [Cell -> Byte]
  /\ prot \in InitialProts
  /\ disturbed = FALSE
  /\ pc = "idle"
  /\ req = [id |-> "none", ops |-> <<>>]
  /\ i = 0
  /\ original = <<>>
  /\ attempted = <<>>
  /\ results = <<>>
  /\ restored = TRUE
  /\ code = "none"

Finish(c) == pc' = "done" /\ code' = c

Fresh(ops) == [k \in DOMAIN ops |-> [applied |-> FALSE, verified |-> FALSE]]

\* A caller enters RunTransaction: the shape checks run before any backend call.
Submit(r) ==
  /\ pc \in {"idle", "done"}
  /\ req' = r
  /\ i' = 1
  /\ original' = <<>>
  /\ attempted' = <<>>
  /\ results' = <<>>
  /\ restored' = TRUE
  /\ \/ WellShaped(r) /\ pc' = "validate" /\ code' = "none"
     \/ ~WellShaped(r) /\ \E c \in ShapeErrors(r) : Finish(c)
  /\ disturbed' = FALSE
  /\ UNCHANGED <<mem, prot>>

Validate ==
  /\ pc = "validate"
  /\ IF ~Validates(Ops[i]) THEN Finish("invalid_memory_range") /\ UNCHANGED i
     ELSE /\ pc' = IF i = Len(Ops) THEN "preflight" ELSE pc
          /\ i' = IF i = Len(Ops) THEN 1 ELSE i + 1
          /\ UNCHANGED code
  /\ UNCHANGED <<mem, prot, disturbed, req, original, attempted, results, restored>>

\* A request is ready when every original equals its expected bytes.
ReadyWithoutGuards(originals) ==
  \A k \in DOMAIN Ops : Ops[k].kind = "write" => originals[k] = Ops[k].expected
Ready(originals) == \A k \in DOMAIN Ops : originals[k] = Ops[k].expected

\* Reads one original; after the last one every original is compared.
PreflightRead ==
  /\ pc = "preflight"
  /\ \/ /\ ~ReadOk(Ops[i])
        /\ Finish("preflight_read_failed")
        /\ UNCHANGED <<i, original, results>>
     \/ /\ ReadOk(Ops[i])
        /\ original' = Append(original, Load(mem, Ops[i]))
        /\ IF i < Len(Ops) THEN i' = i + 1 /\ UNCHANGED <<pc, code, results>>
           ELSE IF ~Ready(original')
             THEN Finish("expected_mismatch") /\ UNCHANGED <<i, results>>
           ELSE /\ pc' = "apply"
                /\ i' = 1
                /\ results' = Fresh(Ops)
                /\ UNCHANGED code
  /\ UNCHANGED <<mem, prot, disturbed, req, attempted, restored>>

\* The end of one turn of the apply loop.
NextOperation ==
  IF i = Len(Ops) THEN Finish("applied_verified") /\ UNCHANGED i
  ELSE pc' = "apply" /\ i' = i + 1 /\ UNCHANGED code

\* A verify-only operation is marked verified and skipped: it is not reread.
ApplyVerifyOnly ==
  /\ pc = "apply"
  /\ Ops[i].kind = "verify_only"
  /\ results' = [results EXCEPT ![i].verified = TRUE]
  /\ NextOperation
  /\ UNCHANGED <<mem, prot, disturbed, req, original, attempted, restored>>

\* RollBack begins with the last attempted operation.
StartRollback(n) == pc' = "restore" /\ i' = n /\ UNCHANGED code

\* A bug: the index enters attempted only once its write succeeded.
ApplyWriteNotesSuccess ==
  /\ pc = "apply"
  /\ Ops[i].kind = "write"
  /\ \/ /\ WriteOk(Ops[i], Ops[i].replacement)
        /\ attempted' = Append(attempted, i)
        /\ results' = [results EXCEPT ![i].applied = TRUE]
        /\ pc' = "readback"
        /\ UNCHANGED <<i, code>>
     \/ /\ WriteFails(Ops[i], Ops[i].replacement)
        /\ IF attempted = <<>> THEN Finish("rolled_back_verified") /\ UNCHANGED i
           ELSE StartRollback(Len(attempted))
        /\ UNCHANGED <<attempted, results>>
  /\ UNCHANGED <<prot, disturbed, req, original, restored>>

\* The index enters attempted before the write, so a write that fails after
\* copying some bytes is rolled back too.
ApplyWrite ==
  /\ pc = "apply"
  /\ Ops[i].kind = "write"
  /\ attempted' = Append(attempted, i)
  /\ \/ /\ WriteOk(Ops[i], Ops[i].replacement)
        /\ results' = [results EXCEPT ![i].applied = TRUE]
        /\ pc' = "readback"
        /\ UNCHANGED <<i, code>>
     \/ /\ WriteFails(Ops[i], Ops[i].replacement)
        /\ StartRollback(Len(attempted'))
        /\ UNCHANGED results
  /\ UNCHANGED <<prot, disturbed, req, original, restored>>

Readback ==
  /\ pc = "readback"
  /\ IF ReadOk(Ops[i]) /\ Load(mem, Ops[i]) = Ops[i].replacement
     THEN results' = [results EXCEPT ![i].verified = TRUE] /\ NextOperation
     ELSE StartRollback(Len(attempted)) /\ UNCHANGED results
  /\ UNCHANGED <<mem, prot, disturbed, req, original, attempted, restored>>

\* A rolled back operation reports neither flag.
FlagsKept(k) == results
FlagsCleared(k) == [results EXCEPT ![k] = [applied |-> FALSE, verified |-> FALSE]]

\* The reverse loop ends after the first attempted operation.
RestoreLoopsOnceMore == IF i >= 1 THEN i' = i - 1 /\ UNCHANGED pc ELSE pc' = "recheck" /\ i' = 1
RestoreLoops == IF i > 1 THEN i' = i - 1 /\ UNCHANGED pc ELSE pc' = "recheck" /\ i' = 1

\* One turn of that loop writes the bytes back and notes a failed write.
RestoreBytesUnchecked(op, bytes) ==
  (WriteOk(op, bytes) \/ WriteFails(op, bytes)) /\ UNCHANGED restored
RestoreBytes(op, bytes) ==
  \/ WriteOk(op, bytes) /\ UNCHANGED restored
  \/ WriteFails(op, bytes) /\ restored' = FALSE

\* RollBack, first loop: the originals of the attempted operations, last first.
Restore ==
  /\ pc = "restore"
  /\ RestoreBytes(Ops[attempted[i]], original[attempted[i]])
  /\ results' = FlagsCleared(attempted[i])
  /\ RestoreLoops
  /\ UNCHANGED <<prot, disturbed, req, original, attempted, code>>

\* A bug: a readback that disagrees starts the restore loop again.
RecheckRetries ==
  /\ pc = "recheck"
  /\ LET op == Ops[attempted[i]]
         same == ReadOk(op) /\ Load(mem, op) = original[attempted[i]]
     IN  IF ~same THEN StartRollback(Len(attempted))
         ELSE IF i < Len(attempted) THEN i' = i + 1 /\ UNCHANGED <<pc, code>>
         ELSE Finish(IF restored THEN "rolled_back_verified" ELSE "rollback_unverified")
              /\ UNCHANGED i
  /\ UNCHANGED <<mem, prot, disturbed, req, original, attempted, results, restored>>

\* RollBack, second loop: every attempted operation is read back.
Recheck ==
  /\ pc = "recheck"
  /\ LET op == Ops[attempted[i]]
     IN  restored' = (restored /\ ReadOk(op) /\ Load(mem, op) = original[attempted[i]])
  /\ IF i < Len(attempted) THEN i' = i + 1 /\ UNCHANGED <<pc, code>>
     ELSE /\ Finish(IF restored' THEN "rolled_back_verified" ELSE "rollback_unverified")
          /\ UNCHANGED i
  /\ UNCHANGED <<mem, prot, disturbed, req, original, attempted, results>>

-----------------------------------------------------------------------------
(* The rest of the process.                                                *)

\* The game stores one byte of its own.  A caller that keeps the stable window
\* docs/safety.md asks for is never disturbed.
GameWrite ==
  /\ \E c \in GameCells, b \in Byte :
       /\ mem' = [mem EXCEPT ![c] = b]
       /\ disturbed' = (disturbed \/ (pc \notin {"idle", "done"} /\ c \in RequestCells(Ops)))
  /\ UNCHANGED <<prot, engineVars>>

\* A page is decommitted, committed again, or changes its protection.
Reprotect ==
  /\ \E c \in VolatileCells, p \in Protection : prot' = [prot EXCEPT ![c] = p]
  /\ UNCHANGED <<mem, disturbed, engineVars>>

Engine ==
  \/ Validate \/ PreflightRead \/ ApplyVerifyOnly \/ ApplyWrite
  \/ Readback \/ Restore \/ Recheck

Call == (\E r \in Requests : Submit(r)) \/ Engine

Next == Call \/ GameWrite \/ Reprotect

\* The thread inside RunTransaction never waits for anything, so it keeps running.
Spec == Init /\ [][Next]_vars /\ WF_vars(Engine)

-----------------------------------------------------------------------------
(* Properties.                                                             *)

Running == pc \notin {"idle", "done"}
Applying == pc \in {"apply", "readback"}
RollingBack == pc \in {"restore", "recheck"}

\* Every variable keeps its shape, and the loop index stays inside the loop it
\* indexes: no step reads prepared, results or attempted out of range.
TypeOK ==
  /\ mem \in [Cell -> Byte]
  /\ prot \in [Cell -> Protection]
  /\ pc \in {"idle", "validate", "preflight", "apply", "readback",
             "restore", "recheck", "done"}
  /\ code \in FinalCodes \cup {"none"}
  /\ i \in Nat
  /\ restored \in BOOLEAN
  /\ Ops \in Seq(Operation)
  /\ original \in Seq(Seq(Byte))
  /\ attempted \in Seq(DOMAIN Ops)
  /\ results \in Seq([applied : BOOLEAN, verified : BOOLEAN])
  /\ pc \in {"validate", "preflight", "apply", "readback"} => i \in DOMAIN Ops
  /\ RollingBack => i \in DOMAIN attempted
  /\ pc = "preflight" => Len(original) = i - 1
  /\ Applying \/ RollingBack => Len(original) = Len(Ops) /\ Len(results) = Len(Ops)

\* The per-operation flags a caller receives agree with the status: applied
\* means every operation verified and exactly the writes applied; after a
\* rollback no write is reported applied or verified; a rejection reports
\* no operation at all (RunTransaction, RollBack).
ReportMatchesCode ==
  pc = "done" =>
    /\ code \in RejectCodes <=> results = <<>>
    /\ code = "applied_verified" =>
         \A k \in DOMAIN Ops :
           /\ results[k].verified
           /\ results[k].applied <=> Ops[k].kind = "write"
    /\ code \in {"rolled_back_verified", "rollback_unverified"} =>
         \A k \in DOMAIN Ops :
           /\ ~results[k].applied
           /\ results[k].verified => Ops[k].kind = "verify_only"

\* No byte of the process is changed by the engine before every operation of
\* the request was validated, read and compared, and then only bytes covered
\* by the request's writes change: a guard is never written (lines 198 to 245).
OnlyPreflightedWritesTouchMemory ==
  [][ Engine /\ mem' # mem =>
        /\ Len(original) = Len(Ops)
        /\ \A k \in DOMAIN Ops : original[k] = Ops[k].expected
        /\ \A c \in Cell : mem'[c] # mem[c] => c \in WriteCells(Ops) ]_vars

\* Even while the game writes where it likes, "rolled_back_verified" is only
\* reported when each attempted operation was restored by a complete write, so
\* whatever the engine stored there is gone; the flag is never optimistic about
\* a write that failed while rolling back.  (RollBack, lines 60 to 77.)
NoResidue ==
  RollingBack /\ restored =>
    \A a \in DOMAIN attempted :
      (pc = "recheck" \/ a > i) =>
        \A n \in 1..Size(Ops[attempted[a]]) :
          LET c == Ops[attempted[a]].addr + n - 1
          IN  c \notin GameCells => mem[c] = original[attempted[a]][n]

-----------------------------------------------------------------------------
(* The inductive invariant behind these properties.                        *)

\* The shape checks hold for a running request.
Shaped ==
  Running =>
    /\ ~Overlapping(Ops)
    /\ \A k \in DOMAIN Ops :
         /\ Size(Ops[k]) # 0
         /\ Ops[k].addr \in Cell
         /\ Ops[k].addr + Size(Ops[k]) <= AddressMax
         /\ Ops[k].kind = "write" => Len(Ops[k].replacement) = Size(Ops[k])

\* The originals are what was read, and equal the expected bytes once compared.
Originals ==
  /\ Len(original) <= Len(Ops)
  /\ pc = "validate" => original = <<>>
  /\ \A k \in DOMAIN original : Len(original[k]) = Size(Ops[k])
  /\ Applying \/ RollingBack => \A k \in DOMAIN Ops : original[k] = Ops[k].expected

\* The attempts are writes, in increasing order, and end where the loop is.
Attempts ==
  /\ \A a \in DOMAIN attempted : Ops[attempted[a]].kind = "write"
  /\ \A a, b \in DOMAIN attempted : a < b => attempted[a] < attempted[b]
  /\ pc \in {"validate", "preflight"} => attempted = <<>>
  /\ pc = "apply" => \A a \in DOMAIN attempted : attempted[a] < i
  /\ pc = "readback" => Len(attempted) # 0 /\ attempted[Len(attempted)] = i

\* An operation that a rollback has to clear: it was attempted.
Marked(k) == results[k].applied \/ (results[k].verified /\ Ops[k].kind = "write")

Flags ==
  /\ pc \in {"validate", "preflight"} => results = <<>>
  /\ Applying =>
       \A k \in DOMAIN Ops :
         /\ k < i => results[k].verified /\ (results[k].applied <=> Ops[k].kind = "write")
         /\ k > i => ~results[k].verified /\ ~results[k].applied
         /\ k = i => ~results[k].verified /\ (results[k].applied <=> pc = "readback")
         /\ Marked(k) => \E a \in DOMAIN attempted : attempted[a] = k
  /\ RollingBack =>
       \A k \in DOMAIN Ops :
         Marked(k) => pc = "restore" /\ \E a \in 1..i : attempted[a] = k

Invariant ==
  TypeOK /\ Shaped /\ Originals /\ Attempts /\ Flags /\ ReportMatchesCode /\ NoResidue

-----------------------------------------------------------------------------
(* What a caller is promised.                                              *)

\* The memory a caller observes: while a call runs, the cells of the writes
\* attempted so far still count as their originals.
AttemptedCells == UNION {Covered(Ops[attempted[a]]) : a \in DOMAIN attempted}
OriginalByte(c) ==
  LET k == CHOOSE k \in DOMAIN Ops : c \in Covered(Ops[k])
  IN  original[k][c - Ops[k].addr + 1]
ObservedMemory ==
  [c \in Cell |-> IF Running /\ c \in AttemptedCells THEN OriginalByte(c) ELSE mem[c]]

Atomic == INSTANCE AtomicTransaction WITH
  store <- ObservedMemory,
  running <- Running,
  ops <- Ops,
  outcome <- code

\* The engine implements the all-or-nothing write: when the game has kept off the
\* cells of the call, the replacements appear together and every guard held, or
\* nothing changes, or the call says that it could not tell; when it has not, a
\* rejection still means that the engine stored nothing, and nothing outside the
\* call's ranges changes (docs/safety.md, "Runtime write gates").
ImplementsAtomic == Atomic!Spec

\* A call of RunTransaction returns whatever the backend and the game do.
EveryCallReturns == Running ~> pc = "done"
=============================================================================
