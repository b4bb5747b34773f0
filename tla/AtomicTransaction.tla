-------------------------- MODULE AtomicTransaction --------------------------
(***************************************************************************)
(* What a guarded write promises.  When the game keeps off the ranges of   *)
(* the call, it ends by replacing every written range at once, and only if *)
(* every range held its expected bytes; or by changing nothing; or by      *)
(* admitting that it could not verify the rollback.  When the game has     *)
(* disturbed the call, the written ranges may end as anything, but a       *)
(* rejection still changes nothing, and nothing else is ever touched.      *)
(***************************************************************************)
EXTENDS Integers, Sequences

CONSTANTS
  Cell,          \* the addresses
  Byte,          \* the values of a cell
  Requests,      \* the requests callers may submit
  RejectCodes,   \* the codes that say nothing was attempted
  GameCells      \* the cells the game itself writes

VARIABLES
  store,      \* the memory a caller observes
  running,    \* a call is running
  ops,        \* the operations of the last call
  outcome,    \* the code it returned, "none" while it runs
  disturbed   \* the game has written where the call is running

vars == <<store, running, ops, outcome, disturbed>>

CellsOf(op) == op.addr .. (op.addr + Len(op.expected) - 1)
Guarded(S) == UNION {CellsOf(ops[k]) : k \in S}
Writes == {k \in DOMAIN ops : ops[k].kind = "write"}

Holds(m, op, bytes) == \A n \in 1..Len(bytes) : m[op.addr + n - 1] = bytes[n]
AllExpected == \A k \in DOMAIN ops : Holds(store, ops[k], ops[k].expected)

\* No cell but those of S changes.
Only(S) == \A c \in Cell \ S : store'[c] = store[c]

Init ==
  /\ store \in [Cell -> Byte]
  /\ running = FALSE
  /\ ops = <<>>
  /\ outcome = "none"
  /\ disturbed = FALSE

\* A malformed request is refused at once; any other starts running.
Call ==
  /\ ~running
  /\ \E r \in Requests : ops' = r.ops
  /\ \/ running' = TRUE /\ outcome' = "none"
     \/ running' = FALSE /\ outcome' \in RejectCodes
  /\ disturbed' = FALSE
  /\ UNCHANGED store

End(c) == running /\ running' = FALSE /\ outcome' = c /\ UNCHANGED <<ops, disturbed>>

Reject == \E c \in RejectCodes : End(c) /\ UNCHANGED store

\* Every replacement appears in one step, every other cell keeps its value.
Apply ==
  /\ End("applied_verified")
  /\ ~disturbed /\ AllExpected
  /\ \A k \in Writes : Holds(store', ops[k], ops[k].replacement)
  /\ Only(Guarded(Writes))

Abort == End("rolled_back_verified") /\ ~disturbed /\ AllExpected /\ UNCHANGED store

\* The rollback could not be verified: any written range may hold anything.
Damage == End("rollback_unverified") /\ ~disturbed /\ AllExpected /\ Only(Guarded(Writes))

\* A call that was disturbed.
EndDisturbed ==
  /\ disturbed
  /\ \E c \in {"applied_verified", "rolled_back_verified", "rollback_unverified"} : End(c)
  /\ Only(Guarded(Writes))

\* The game writes, but not where a call is running; or it does.
Game ==
  /\ \E c \in GameCells, b \in Byte :
       /\ running => c \notin Guarded(DOMAIN ops)
       /\ store' = [store EXCEPT ![c] = b]
  /\ UNCHANGED <<running, ops, outcome, disturbed>>

Disturb ==
  /\ running
  /\ disturbed' = TRUE
  /\ Only(Guarded(DOMAIN ops))
  /\ UNCHANGED <<running, ops, outcome>>

Next == Call \/ Reject \/ Apply \/ Abort \/ Damage \/ EndDisturbed \/ Game \/ Disturb

Spec == Init /\ [][Next]_vars
=============================================================================
