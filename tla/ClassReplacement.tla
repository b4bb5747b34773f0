--------------------------- MODULE ClassReplacement ---------------------------
(***************************************************************************)
(* packages/sdk/src/live-class-replace.cjs: replaceLiveClass reads the     *)
(* records a plan edits, writes the edited ones back in batches, each a    *)
(* guarded transaction of the host that it reads again, and undoes the     *)
(* batches in reverse when one fails.  Every await is a step of its own:   *)
(* the game stores into the records between any two, and a request whose   *)
(* answer is lost (PIPE_TIMEOUT) may be carried out before its client goes *)
(* on, later, or not at all.                                               *)
(*                                                                         *)
(* A record has the bits the mask of its descriptor selects ("edited") and *)
(* the others ("rest").                                                    *)
(***************************************************************************)
EXTENDS Integers, Sequences, FiniteSets

CONSTANTS
  Records,      \* how many descriptors the plan has
  ReadBatch,    \* READ_BATCH_SIZE
  WriteBatch,   \* WRITE_BATCH_SIZE
  Initial,      \* contents of the records the program may find
  GameStores,   \* what the game may store: [record, value]
  MaxStores     \* bound on the stores of the game

ClassAssumption ==
  /\ Records \in Nat /\ ReadBatch \in Nat \ {0} /\ WriteBatch \in Nat \ {0}
  /\ \A m \in Initial : m = [r \in 1..Records |-> m[r]]

VARIABLES
  mem,        \* record -> [edited, rest]
  disabled,   \* the host has disabled session writes
  moved,      \* history: records the game stored into after they were read
  stores,     \* bound: stores of the game
  pending,    \* operations of a request whose client gave it up
  lost,       \* history: records of forward batches that failed unverified
  dryRun,
  pc,         \* "snapshot", "forward", "verify", "rollback", "reverify" or the result
  snapshots,  \* the records read, in order
  batch,      \* the index of the batch at hand
  applied     \* the batches applied

hostVars == <<mem, disabled>>
vars == <<hostVars, moved, stores, pending, lost, dryRun, pc, snapshots, batch, applied>>

Record == 1..Records
Least(a, b) == IF a <= b THEN a ELSE b

\* applyMask: the bits of the mask are taken from the plan.
ApplyMask(current) == [current EXCEPT !.edited = "new"]

\* The n-th member of a set of records.
Nth(S, n) == CHOOSE r \in S : Cardinality({q \in S : q <= r}) = n

\* makeOperations leaves out the records that are as the plan wants them.
ToEdit == {r \in DOMAIN snapshots : snapshots[r] # ApplyMask(snapshots[r])}
Operations ==
  [n \in 1..Cardinality(ToEdit) |->
     LET r == Nth(ToEdit, n)
     IN  [record |-> r, expected |-> snapshots[r], replacement |-> ApplyMask(snapshots[r])]]

Batches == (Len(Operations) + WriteBatch - 1) \div WriteBatch
BatchOf(n) ==
  SubSeq(Operations, (n - 1) * WriteBatch + 1, Least(n * WriteBatch, Len(Operations)))
Reversed(ops) ==
  [n \in DOMAIN ops |-> [record |-> ops[n].record, expected |-> ops[n].replacement,
                         replacement |-> ops[n].expected]]
RecordsOf(ops) == {ops[n].record : n \in DOMAIN ops}

-----------------------------------------------------------------------------
(* The host: writeTransaction as its clients see it.                        *)

Stored(ops, done) ==
  [r \in Record |-> IF \E n \in done : ops[n].record = r
                    THEN ops[CHOOSE n \in done : ops[n].record = r].replacement ELSE mem[r]]
Matches(ops) == \A n \in DOMAIN ops : mem[ops[n].record] = ops[n].expected
Accepts(ops) == ~disabled /\ Matches(ops)

Applies(ops) == Accepts(ops) /\ mem' = Stored(ops, DOMAIN ops) /\ UNCHANGED disabled

\* One operation fails and those before it cannot be restored: session writes
\* are disabled.
LeavesPart(ops) ==
  /\ Accepts(ops)
  /\ \E k \in DOMAIN ops : mem' = Stored(ops, 1..k)
  /\ disabled' = TRUE

Changes(ops) == Applies(ops) \/ LeavesPart(ops)

\* The guard fails, the gate is closed, or what was written is restored.
Refuses == UNCHANGED hostVars

\* An abandoned request is carried out before the next one of its client.
Late ==
  /\ pending # <<>>
  /\ Changes(pending) \/ Refuses
  /\ pending' = <<>>
  /\ UNCHANGED <<moved, stores, lost, dryRun, pc, snapshots, batch, applied>>

-----------------------------------------------------------------------------
Init ==
  /\ mem \in Initial
  /\ disabled = FALSE /\ moved = {} /\ stores = 0 /\ pending = <<>> /\ lost = {}
  /\ dryRun \in BOOLEAN
  /\ pc = "snapshot" /\ snapshots = <<>> /\ batch = 1 /\ applied = <<>>

\* The next range of records is read in one request, or the request fails.
Snapshot ==
  /\ pc = "snapshot"
  /\ \/ /\ Len(snapshots) < Records
        /\ snapshots' = snapshots \o SubSeq([r \in Record |-> mem[r]], Len(snapshots) + 1,
                                            Least(Len(snapshots) + ReadBatch, Records))
        /\ UNCHANGED pc
     \/ /\ Len(snapshots) < Records
        /\ pc' = "LIVE_CLASS_APPLY_FAILED"
        /\ UNCHANGED snapshots
     \/ /\ Len(snapshots) = Records
        /\ pc' = IF dryRun THEN "dry_run"
                 ELSE IF Operations = <<>> THEN "applied_verified" ELSE "forward"
        /\ UNCHANGED snapshots
  /\ UNCHANGED <<hostVars, moved, stores, pending, lost, dryRun, batch, applied>>

\* A forward batch fails: what was applied is undone, the last batch first.
StartRollback == pc' = "rollback" /\ batch' = Len(applied)

\* The transaction of the next batch is applied and answered, refused, leaves
\* a part of it, or its answer is lost.
Forward ==
  /\ pc = "forward" /\ pending = <<>>
  /\ LET ops == BatchOf(batch) IN
     \/ /\ Applies(ops)
        /\ applied' = Append(applied, ops)
        /\ pc' = "verify"
        /\ UNCHANGED <<pending, lost, batch>>
     \/ /\ Refuses
        /\ StartRollback
        /\ UNCHANGED <<pending, lost, applied>>
     \/ /\ LeavesPart(ops)
        /\ lost' = lost \cup RecordsOf(ops)
        /\ StartRollback
        /\ UNCHANGED <<pending, applied>>
     \/ /\ \/ Changes(ops) /\ pending' = <<>>
           \/ Refuses /\ pending' = ops
        /\ lost' = lost \cup RecordsOf(ops)
        /\ StartRollback
        /\ UNCHANGED applied
  /\ UNCHANGED <<moved, stores, dryRun, snapshots>>

\* The batch is read again, and the next one follows.
Verify ==
  /\ pc = "verify"
  /\ LET ops == BatchOf(batch) IN
     \/ /\ Matches(Reversed(ops))
        /\ IF batch = Batches
           THEN pc' = "applied_verified" /\ UNCHANGED batch
           ELSE pc' = "forward" /\ batch' = batch + 1
     \/ StartRollback
  /\ UNCHANGED <<hostVars, moved, stores, pending, lost, dryRun, snapshots, applied>>

\* A plausible mistake: the loop ends before the first batch.
MoreThanFirst == batch > 1

MoreToUndo == batch >= 1

\* Every batch has been undone.
RolledBack ==
  /\ pc = "rollback" /\ ~MoreToUndo
  /\ pc' = "LIVE_CLASS_APPLY_FAILED"
  /\ UNCHANGED <<hostVars, moved, stores, pending, lost, dryRun, snapshots, batch, applied>>

\* The reverse transaction of a batch.  Whatever goes wrong, the rollback ends.
UndoBatch ==
  /\ pc = "rollback" /\ MoreToUndo /\ pending = <<>>
  /\ LET ops == Reversed(applied[batch]) IN
     \/ Applies(ops) /\ pc' = "reverify" /\ UNCHANGED pending
     \/ /\ pc' = "LIVE_CLASS_ROLLBACK_FAILED"
        /\ \/ (Refuses \/ Changes(ops)) /\ UNCHANGED pending
           \/ Refuses /\ pending' = ops
  /\ UNCHANGED <<moved, stores, lost, dryRun, snapshots, batch, applied>>

VerifyUndone ==
  /\ pc = "reverify"
  /\ \/ /\ Matches(applied[batch])
        /\ pc' = "rollback" /\ batch' = batch - 1
     \/ pc' = "LIVE_CLASS_ROLLBACK_FAILED" /\ UNCHANGED batch
  /\ UNCHANGED <<hostVars, moved, stores, pending, lost, dryRun, snapshots, applied>>

-----------------------------------------------------------------------------
GameStore ==
  /\ stores < MaxStores
  /\ stores' = stores + 1
  /\ \E s \in GameStores :
       /\ mem[s.record] # s.value
       /\ mem' = [mem EXCEPT ![s.record] = s.value]
       /\ moved' = IF s.record \in DOMAIN snapshots THEN moved \cup {s.record} ELSE moved
  /\ UNCHANGED <<disabled, pending, lost, dryRun, pc, snapshots, batch, applied>>

Running == pc \in {"snapshot", "forward", "verify", "rollback", "reverify"}
Ended == ~Running /\ UNCHANGED vars

Next ==
  \/ Snapshot \/ Forward \/ Verify \/ RolledBack \/ UndoBatch \/ VerifyUndone
  \/ Late \/ GameStore \/ Ended

Spec == Init /\ [][Next]_vars

-----------------------------------------------------------------------------
\* replaceLiveClass reports all or nothing: leaving aside the records the game
\* stored into, after "applied_verified" every record holds its edit, and after
\* "LIVE_CLASS_APPLY_FAILED" or a dry run every record is as it was read,
\* except those of a batch that failed without it being known how far it came.
ReplacementIsAllOrNothing ==
  \A r \in DOMAIN snapshots \ moved :
    /\ pc = "applied_verified" => mem[r] = ApplyMask(snapshots[r])
    /\ pc \in {"LIVE_CLASS_APPLY_FAILED", "dry_run"} /\ r \notin lost => mem[r] = snapshots[r]

\* The message of live-class-replace.cjs, line 245: after the failure "every
\* applied batch was rolled back and verified".  (Where the host has not said
\* itself that a transaction of it could not be undone.)
RolledBackMeansRestored ==
  pc = "LIVE_CLASS_APPLY_FAILED" /\ ~disabled =>
    \A r \in DOMAIN snapshots \ moved : mem[r] = snapshots[r]
=============================================================================
