----------------------------- MODULE TypedProofs -----------------------------
(***************************************************************************)
(* For every set of tables, records and fields, and however the catalog    *)
(* changes between the calls of a script: what a transaction of the Lua    *)
(* database submits.                                                       *)
(***************************************************************************)
EXTENDS Typed, FieldTransactionProofs

-----------------------------------------------------------------------------
(* The Lua database.                                                       *)

\* While a callback runs, what SetField accepted is pending, and a refusal has
\* poisoned the transaction; the generation only moves on, so pending changes
\* were staged in the order of their generations.
DbInvariant ==
  /\ generation \in Nat
  /\ pending \in Seq(Db!Change)
  /\ active => staged = {pending[k] : k \in DOMAIN pending}
  /\ active /\ refused => failed
  /\ \A a, b \in DOMAIN pending : a < b => pending[a].gen <= pending[b].gen
  /\ \A a \in DOMAIN pending : pending[a].gen <= generation

TypedInvariant == which = "database" => DbInvariant

LEMMA RaiseKeeps ==
  ASSUME DbInvariant, Db!Raise
  PROVE  DbInvariant'
<1>1. UNCHANGED <<generation, staged>>
  BY DEF Db!Raise, Db!catalogVars
<1>2. CASE Db!Caught
  BY <1>1, <1>2 DEF DbInvariant, Db!Caught
<1>3. CASE Db!AbortTransaction
  BY <1>1, <1>3 DEF DbInvariant, Db!AbortTransaction
<1>. QED
  BY <1>2, <1>3 DEF Db!Raise

LEMMA SetFieldKeeps ==
  ASSUME DbInvariant, NEW c \in Db!Change, Db!SetField(c)
  PROVE  DbInvariant'
<1>1. CASE Db!Raise
  BY <1>1, RaiseKeeps
<1>2. CASE /\ Db!Resolves(Db!HandleOf(c))
           /\ pending' = Append(pending, c)
           /\ failed' = Db!PoisonAfter
           /\ staged' = staged \cup {c}
           /\ UNCHANGED <<generation, active, refused>>
  <2>1. c.gen = generation
    BY <1>2 DEF Db!Resolves, Db!HandleOf
  <2>2. /\ pending' \in Seq(Db!Change) /\ DOMAIN pending = 1..Len(pending) /\ Len(pending) \in Nat
        /\ DOMAIN pending' = 1..(Len(pending) + 1)
        /\ \A k \in DOMAIN pending : pending'[k] = pending[k]
        /\ pending'[Len(pending) + 1] = c
    BY <1>2 DEF DbInvariant
  <2>3. {pending'[k] : k \in DOMAIN pending'} = {pending[k] : k \in DOMAIN pending} \cup {c}
    <3>1. DOMAIN pending' = DOMAIN pending \cup {Len(pending) + 1}
      BY <2>2
    <3>. QED
      BY <2>2, <3>1
  <2>4. \A a \in DOMAIN pending' : a \in DOMAIN pending \/ a = Len(pending) + 1
    BY <2>2
  <2>5. \A a \in DOMAIN pending : a < Len(pending) + 1 /\ pending[a].gen <= generation
    BY <2>2 DEF DbInvariant
  <2>6. \A a \in DOMAIN pending' : pending'[a].gen <= generation
    <3>1. generation <= generation
      BY DEF DbInvariant
    <3>. QED
      BY <2>1, <2>2, <2>4, <2>5, <3>1
  <2>7. ASSUME NEW a \in DOMAIN pending', NEW b \in DOMAIN pending', a < b
        PROVE  pending'[a].gen <= pending'[b].gen
    <3>1. a \in DOMAIN pending
      BY <2>2, <2>7
    <3>2. CASE b \in DOMAIN pending
      BY <2>2, <2>7, <3>1, <3>2 DEF DbInvariant
    <3>3. CASE b = Len(pending) + 1
      BY <2>1, <2>2, <2>5, <3>1, <3>3
    <3>. QED
      BY <2>4, <3>2, <3>3
  <2>. QED
    BY <1>2, <2>2, <2>3, <2>6, <2>7 DEF DbInvariant, Db!PoisonAfter
<1>. QED
  BY <1>1, <1>2 DEF Db!SetField, Db!catalogVars

LEMMA GenerationLemma ==
  ASSUME DbInvariant
  PROVE  \A a \in DOMAIN pending : pending[a].gen \in Int
<1>1. \A a \in DOMAIN pending : pending[a] \in Db!Change
  BY DEF DbInvariant
<1>2. MaxGeneration \in Nat
  BY TypedAssumption DEF Db!DatabaseAssumption
<1>. QED
  BY <1>1, <1>2 DEF Db!Change

LEMMA DbStep ==
  ASSUME DbInvariant, Db!Next
  PROVE  DbInvariant'
<1>1. CASE Db!CatalogChanges
  <2>1. \A a \in DOMAIN pending : pending[a].gen \in Int /\ pending[a].gen <= generation
    BY GenerationLemma DEF DbInvariant
  <2>2. generation \in Nat /\ generation' = generation + 1
    BY <1>1 DEF Db!CatalogChanges, DbInvariant
  <2>3. \A a \in DOMAIN pending : pending[a].gen <= generation'
    BY <2>1, <2>2
  <2>4. UNCHANGED <<active, failed, pending, staged, refused>>
    BY <1>1 DEF Db!CatalogChanges, Db!apiVars
  <2>. QED
    BY <2>2, <2>3, <2>4 DEF DbInvariant
<1>2. CASE \E t \in DbTable : Db!GetTableByUniqueId(t)
  BY <1>2 DEF Db!GetTableByUniqueId, Db!catalogVars, Db!apiVars, DbInvariant
<1>3. CASE Db!BeginTransaction
  BY <1>3 DEF Db!BeginTransaction, Db!catalogVars, DbInvariant
<1>4. CASE Db!RefusedCall
  BY <1>4, RaiseKeeps DEF Db!RefusedCall
<1>5. CASE Db!CallbackFails
  BY <1>5 DEF Db!CallbackFails, Db!AbortTransaction, Db!catalogVars, DbInvariant
<1>6. CASE Db!FinishTransaction
  BY <1>6 DEF Db!FinishTransaction, Db!catalogVars, DbInvariant
<1>7. CASE \E c \in Db!Change : Db!SetField(c)
  BY <1>7, SetFieldKeeps
<1>. QED
  BY <1>1, <1>2, <1>3, <1>4, <1>5, <1>6, <1>7 DEF Db!Next

LEMMA TypedInvariantHolds == TypedSpec => []TypedInvariant
<1>1. TypedInit => TypedInvariant
  BY DEF TypedInit, TypedInvariant, DbInvariant, Db!Init
<1>2. TypedInvariant /\ [TypedNext]_<<which, vars, dbOnly>> => TypedInvariant'
  <2>1. ASSUME TypedInvariant, TypedNext PROVE TypedInvariant'
    BY <2>1, DbStep DEF TypedNext, TypedInvariant
  <2>2. ASSUME TypedInvariant, UNCHANGED <<which, vars, dbOnly>> PROVE TypedInvariant'
    BY <2>2 DEF TypedInvariant, DbInvariant, dbOnly
  <2>. QED
    BY <2>1, <2>2
<1>. QED
  BY <1>1, <1>2, PTL DEF TypedSpec

-----------------------------------------------------------------------------
(* Sorting and grouping.                                                   *)

\* What std::sort leaves is a permutation of the pending changes.
LEMMA OrderLemma ==
  ASSUME DbInvariant, NEW s \in Db!Orders
  PROVE  \E p \in [DOMAIN pending -> DOMAIN pending] :
           /\ DOMAIN s = DOMAIN pending /\ DOMAIN pending = 1..Len(pending)
           /\ {p[k] : k \in DOMAIN pending} = DOMAIN pending
           /\ \A k \in DOMAIN pending : s[k] = pending[p[k]]
           /\ Len(pending) <= StableBelow =>
                \A a, b \in DOMAIN pending :
                  a < b /\ pending[p[a]].record = pending[p[b]].record => p[a] < p[b]
<1>1. DOMAIN pending = 1..Len(pending)
  BY DEF DbInvariant
<1>. QED
  BY <1>1 DEF Db!Orders

\* The first change of a group is there, and it is of the record of the group.
LEMMA LeaderLemma ==
  ASSUME NEW s, NEW n \in Nat, DOMAIN s = 1..n
  PROVE  \A k \in 1..n : \E j \in 1..k :
           /\ Db!Leader(s, k) = s[j]
           /\ s[j].record = s[k].record
<1>. SUFFICES ASSUME NEW k \in 1..n
              PROVE  \E j \in 1..k : Db!Leader(s, k) = s[j] /\ s[j].record = s[k].record
  OBVIOUS
<1>. DEFINE same == {j \in 1..k : s[j].record = s[k].record}
            Earliest(j) == /\ Db!SameGroup(s[j], s[k])
                        /\ \A m \in 1..(j - 1) : ~Db!SameGroup(s[m], s[k])
<1>1. PICK j \in same : \A m \in same : j <= m
  <2>1. same \subseteq Nat /\ k \in same
    OBVIOUS
  <2>. HIDE DEF same
  <2>. QED
    BY <2>1, LeastNat
<1>2. j \in 1..k /\ Earliest(j)
  <2>1. ASSUME NEW m \in 1..(j - 1) PROVE s[m].record # s[k].record
    BY <1>1
  <2>. QED
    BY <1>1, <2>1 DEF Db!SameGroup
<1>3. PICK first \in 1..k : first = (CHOOSE i \in 1..k : Earliest(i)) /\ Earliest(first)
  <2>. HIDE DEF Earliest
  <2>. QED
    BY <1>2
<1>4. Db!Leader(s, k) = s[first]
  BY <1>3 DEF Db!Leader
<1>. QED
  BY <1>3, <1>4 DEF Db!SameGroup

\* A submission is the set of the pending changes.
LEMMA SubmissionLemma ==
  ASSUME DbInvariant, NEW s \in Db!Orders
  PROVE  Db!Submission(s) = {pending[k] : k \in DOMAIN pending}
<1>1. PICK p \in [DOMAIN pending -> DOMAIN pending] :
        /\ DOMAIN s = DOMAIN pending /\ DOMAIN pending = 1..Len(pending)
        /\ {p[k] : k \in DOMAIN pending} = DOMAIN pending
        /\ \A k \in DOMAIN pending : s[k] = pending[p[k]]
  BY OrderLemma
<1>2. ASSUME NEW k \in DOMAIN s
      PROVE  [s[k] EXCEPT !.record = Db!Leader(s, k).record] = s[k] /\ s[k] \in Db!Change
  <2>1. s[k] \in Db!Change
    BY <1>1 DEF DbInvariant
  <2>2. Len(pending) \in Nat /\ DOMAIN s = 1..Len(pending)
    BY <1>1 DEF DbInvariant
  <2>3. Db!Leader(s, k).record = s[k].record
    <3>1. PICK n \in Nat : n = Len(pending)
      BY <2>2
    <3>2. DOMAIN s = 1..n /\ k \in 1..n
      BY <1>2, <2>2, <3>1
    <3>3. \E j \in 1..k : Db!Leader(s, k) = s[j] /\ s[j].record = s[k].record
      BY <3>2, LeaderLemma
    <3>. QED
      BY <3>3
  <2>4. [s[k] EXCEPT !.record = s[k].record] = s[k]
    BY <2>1 DEF Db!Change
  <2>. QED
    BY <2>1, <2>3, <2>4
<1>3. Db!Submission(s) = {s[k] : k \in DOMAIN s}
  BY <1>2 DEF Db!Submission
<1>4. {s[k] : k \in DOMAIN s} = {pending[k] : k \in DOMAIN pending}
  <2>1. ASSUME NEW k \in DOMAIN s PROVE s[k] = pending[p[k]] /\ p[k] \in DOMAIN pending
    BY <1>1
  <2>2. ASSUME NEW j \in DOMAIN pending PROVE \E k \in DOMAIN s : s[k] = pending[j]
    <3>1. PICK k \in DOMAIN pending : p[k] = j
      BY <1>1
    <3>. QED
      BY <1>1, <3>1
  <2>. QED
    BY <2>1, <2>2
<1>. QED
  BY <1>3, <1>4

\* Only FinishTransaction submits, and it submits what is pending.
LEMMA OnlyFinishSubmits ==
  ASSUME Db!Next, submitted' # submitted
  PROVE  /\ active /\ ~failed
         /\ \E s \in Db!Orders : Db!Plans(s) /\ submitted' = Db!Submission(s)
<1>1. Db!FinishTransaction
  BY DEF Db!Next, Db!CatalogChanges, Db!GetTableByUniqueId, Db!BeginTransaction, Db!RefusedCall,
         Db!CallbackFails, Db!SetField, Db!Raise
<1>. QED
  BY <1>1 DEF Db!FinishTransaction, Db!FinishSubmits, Db!FinishRefused

\* A group is planned under the handle of its first change.
LEMMA CurrentLemma ==
  ASSUME DbInvariant, NEW s \in Db!Orders, Db!Plans(s), NEW c \in Db!Submission(s)
  PROVE  \/ c.gen = generation
         \/ /\ Len(pending) > StableBelow
            /\ \E d \in Db!Submission(s) : d.record = c.record /\ d.gen = generation
<1>1. PICK p \in [DOMAIN pending -> DOMAIN pending] :
        /\ DOMAIN s = DOMAIN pending /\ DOMAIN pending = 1..Len(pending)
        /\ {p[k] : k \in DOMAIN pending} = DOMAIN pending
        /\ \A k \in DOMAIN pending : s[k] = pending[p[k]]
        /\ Len(pending) <= StableBelow =>
             \A a, b \in DOMAIN pending :
               a < b /\ pending[p[a]].record = pending[p[b]].record => p[a] < p[b]
  BY OrderLemma
<1>2. Db!Submission(s) = {s[k] : k \in DOMAIN s}
  BY <1>1, SubmissionLemma
<1>3. PICK k \in DOMAIN s : c = s[k]
  BY <1>2
<1>4. /\ Len(pending) \in Nat /\ StableBelow \in Nat
      /\ DOMAIN s = 1..Len(pending) /\ k \in 1..Len(pending) /\ k \in Int
  BY <1>1, <1>3, TypedAssumption DEF DbInvariant, Db!DatabaseAssumption
<1>5. PICK j \in 1..k : Db!Leader(s, k) = s[j] /\ s[j].record = s[k].record
  BY <1>4, LeaderLemma
<1>6. s[j].gen = generation
  BY <1>3, <1>5 DEF Db!Plans, Db!Resolves, Db!HandleOf
<1>7. j \in DOMAIN s
  BY <1>1, <1>3, <1>4, <1>5
<1>8. CASE Len(pending) > StableBelow
  BY <1>2, <1>3, <1>5, <1>6, <1>7, <1>8
<1>9. CASE Len(pending) <= StableBelow
  <2>1. CASE j = k
    BY <1>3, <1>6, <2>1
  <2>2. CASE j # k
    <3>1. p[j] < p[k] /\ p[j] \in DOMAIN pending /\ p[k] \in DOMAIN pending
      <4>1. j < k /\ j \in DOMAIN pending /\ k \in DOMAIN pending
        BY <1>1, <1>3, <1>4, <1>5, <1>7, <2>2
      <4>2. pending[p[j]].record = pending[p[k]].record
        BY <1>1, <1>5, <4>1
      <4>. QED
        BY <1>1, <1>9, <4>1, <4>2
    <3>2. pending[p[j]].gen <= pending[p[k]].gen /\ pending[p[k]].gen <= generation
      BY <3>1 DEF DbInvariant
    <3>3. pending[p[k]].gen \in Int /\ generation \in Int
      BY <3>1, GenerationLemma DEF DbInvariant
    <3>. QED
      <4>1. s[j] = pending[p[j]] /\ s[k] = pending[p[k]]
        BY <1>1, <1>3, <1>7
      <4>. QED
        BY <1>3, <1>6, <3>2, <3>3, <4>1
  <2>. QED
    BY <2>1, <2>2
<1>. QED
  BY <1>4, <1>8, <1>9

-----------------------------------------------------------------------------
(* Theorems.                                                               *)

\* Sorting, grouping and planning lose no change that SetField accepted, double
\* none and move none to another record (FinishTransaction).
THEOREM StagedIsSubmitted == TypedSpec => SubmitsWhatWasStaged
<1>1. ASSUME TypedInvariant, [TypedNext]_<<which, vars, dbOnly>>
      PROVE  [submitted' # submitted => submitted' = staged]_(Db!vars)
  <2>. SUFFICES ASSUME submitted' # submitted PROVE submitted' = staged
    OBVIOUS
  <2>1. DbInvariant /\ Db!Next
    BY <1>1 DEF TypedNext, TypedInvariant, dbOnly
  <2>2. active /\ \E s \in Db!Orders : submitted' = Db!Submission(s)
    BY <2>1, OnlyFinishSubmits
  <2>3. submitted' = {pending[k] : k \in DOMAIN pending}
    BY <2>1, <2>2, SubmissionLemma
  <2>. QED
    BY <2>1, <2>2, <2>3 DEF DbInvariant
<1>. QED
  BY <1>1, TypedInvariantHolds, PTL DEF TypedSpec, SubmitsWhatWasStaged, Db!SubmitsWhatWasStaged

\* A callback in which a change was refused submits nothing, whatever the script
\* does with the error and stages afterwards (PrepareSetField).
THEOREM RefusalSubmitsNothing == TypedSpec => RefusedChangeSubmitsNothing
<1>1. ASSUME TypedInvariant, [TypedNext]_<<which, vars, dbOnly>>
      PROVE  [refused => submitted' = submitted]_(Db!vars)
  <2>. SUFFICES ASSUME refused, submitted' # submitted PROVE FALSE
    OBVIOUS
  <2>1. DbInvariant /\ Db!Next
    BY <1>1 DEF TypedNext, TypedInvariant, dbOnly
  <2>. QED
    BY <2>1, OnlyFinishSubmits DEF DbInvariant
<1>. QED
  BY <1>1, TypedInvariantHolds, PTL
  DEF TypedSpec, RefusedChangeSubmitsNothing, Db!RefusedChangeSubmitsNothing

\* A change staged under a generation that has been retired is submitted only in
\* the company of a current one of its record, and only when the changes are too
\* many for a stable sort.
THEOREM CurrentIsSubmitted == TypedSpec => SubmitsCurrentChangesOnly
<1>. DEFINE Current ==
       submitted' # submitted =>
         \A c \in submitted' :
           \/ c.gen = generation
           \/ /\ Len(pending) > StableBelow
              /\ \E d \in submitted' : d.record = c.record /\ d.gen = generation
<1>1. ASSUME TypedInvariant, [TypedNext]_<<which, vars, dbOnly>>
      PROVE  [Current]_(Db!vars)
  <2>. SUFFICES ASSUME submitted' # submitted PROVE Current
    OBVIOUS
  <2>1. DbInvariant /\ Db!Next
    BY <1>1 DEF TypedNext, TypedInvariant, dbOnly
  <2>2. PICK s \in Db!Orders : Db!Plans(s) /\ submitted' = Db!Submission(s)
    BY <2>1, OnlyFinishSubmits
  <2>. QED
    BY <2>1, <2>2, CurrentLemma
<1>. QED
  BY <1>1, TypedInvariantHolds, PTL
  DEF TypedSpec, SubmitsCurrentChangesOnly, Db!SubmitsCurrentChangesOnly

=============================================================================
