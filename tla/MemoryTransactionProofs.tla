----------------------- MODULE MemoryTransactionProofs -----------------------
(***************************************************************************)
(* For every address space, every set of requests and every behaviour of   *)
(* the game: the engine's type, the agreement of its report with its       *)
(* code, and what its writes and rollbacks may touch.                      *)
(***************************************************************************)
EXTENDS MemoryTransaction, SequenceTheorems, TLAPS

\* An operation that passed the shape checks.
ShapedOperation(op) ==
  /\ op \in Operation
  /\ op.addr \in Cell
  /\ op.addr + Size(op) <= AddressMax

-----------------------------------------------------------------------------
(* Memory.                                                                 *)

\* What copying the first n bytes of a buffer does to the memory.
LEMMA StorePrefixLemma ==
  ASSUME NEW m \in [Cell -> Byte], NEW addr \in Cell, NEW bytes \in Seq(Byte),
         NEW n \in 0..Len(bytes)
  PROVE  /\ StorePrefix(m, addr, bytes, n) \in [Cell -> Byte]
         /\ \A c \in Cell \ (addr..(addr + n - 1)) : StorePrefix(m, addr, bytes, n)[c] = m[c]
         /\ \A k \in 1..n : addr + k - 1 \in Cell =>
              StorePrefix(m, addr, bytes, n)[addr + k - 1] = bytes[k]
  <1> addr \in Int /\ Cell \subseteq Int
    BY SizeAssumption DEF Cell
  <1>1. \A c \in addr..(addr + n - 1) : c - addr + 1 \in 1..Len(bytes)
    OBVIOUS
  <1>2. \A k \in 1..n : addr + k - 1 \in addr..(addr + n - 1) /\ (addr + k - 1) - addr + 1 = k
    OBVIOUS
  <1> QED
    BY <1>1, <1>2 DEF StorePrefix

\* What is read back has the length of the operation.
LEMMA LoadLemma ==
  ASSUME NEW m \in [Cell -> Byte], NEW op, ShapedOperation(op)
  PROVE  Load(m, op) \in Seq(Byte) /\ Len(Load(m, op)) = Size(op)
  <1>1. Size(op) \in Nat
    BY DEF ShapedOperation, Operation, Size
  <1>2. \A k \in 1..Size(op) : op.addr + k - 1 \in Cell
    BY <1>1, SizeAssumption DEF ShapedOperation, Cell
  <1> QED
    BY <1>1, <1>2 DEF Load

\* A write of the backend, complete or cut short, stays inside its operation.
LEMMA WriteLemma ==
  ASSUME NEW op, ShapedOperation(op), mem \in [Cell -> Byte],
         NEW bytes \in Seq(Byte), Len(bytes) = Size(op),
         WriteOk(op, bytes) \/ WriteFails(op, bytes)
  PROVE  /\ mem' \in [Cell -> Byte]
         /\ \A c \in Cell \ Covered(op) : mem'[c] = mem[c]
         /\ WriteOk(op, bytes) => \A k \in 1..Size(op) : mem'[op.addr + k - 1] = bytes[k]
  <1>1. /\ Size(op) \in Nat
        /\ op.addr \in Cell
        /\ \A k \in 1..Size(op) : op.addr + k - 1 \in Cell
    BY SizeAssumption DEF ShapedOperation, Operation, Size, Cell
  <1>2. CASE WriteOk(op, bytes)
    <2>1. mem' = StorePrefix(mem, op.addr, bytes, Size(op))
      BY <1>2 DEF WriteOk, Store
    <2> QED
      BY <1>1, <2>1, StorePrefixLemma DEF Covered
  <1>3. CASE WriteFails(op, bytes)
    <2>1. PICK n \in 0..(Size(op) - 1) : mem' = StorePrefix(mem, op.addr, bytes, n)
      BY <1>3 DEF WriteFails
    <2>2. /\ mem' \in [Cell -> Byte]
          /\ \A c \in Cell \ (op.addr..(op.addr + n - 1)) : mem'[c] = mem[c]
      BY <1>1, <2>1, StorePrefixLemma
    <2>3. op.addr..(op.addr + n - 1) \subseteq Covered(op)
      BY <1>1, SizeAssumption DEF Covered, Cell
    <2>4. ~WriteOk(op, bytes)
      BY <1>3 DEF WriteOk, WriteFails
    <2> QED
      BY <2>2, <2>3, <2>4
  <1> QED
    BY <1>2, <1>3

\* The operations of a running request are shaped.
LEMMA RunningLemma ==
  ASSUME TypeOK, Shaped, Running
  PROVE  \A k \in DOMAIN Ops : ShapedOperation(Ops[k]) /\ Size(Ops[k]) \in Nat \ {0}
  <1> SUFFICES ASSUME NEW k \in DOMAIN Ops
               PROVE  ShapedOperation(Ops[k]) /\ Size(Ops[k]) \in Nat \ {0}
    OBVIOUS
  <1>1. Ops[k] \in Operation
    BY DEF TypeOK
  <1>2. Size(Ops[k]) \in Nat
    BY <1>1 DEF Operation, Size
  <1> QED
    BY <1>1, <1>2 DEF Shaped, ShapedOperation

-----------------------------------------------------------------------------
(* The invariant: first the requests, then one lemma per action.           *)

\* The codes of the shape checks are rejections.
LEMMA ShapeErrorsLemma ==
  ASSUME NEW r
  PROVE  ShapeErrors(r) \subseteq RejectCodes
  <1>1. \A k \in FirstError(r.ops) : OpError(r.ops, k) \in RejectCodes
    BY DEF FirstError, OpError, RejectCodes
  <1> QED
    BY <1>1 DEF ShapeErrors, RejectCodes

\* What passes the shape loop is shaped.
LEMMA WellShapedLemma ==
  ASSUME NEW r \in Requests, WellShaped(r)
  PROVE  /\ ~Overlapping(r.ops)
         /\ 1 \in DOMAIN r.ops
         /\ \A k \in DOMAIN r.ops :
              /\ Size(r.ops[k]) # 0
              /\ r.ops[k].addr \in Cell
              /\ r.ops[k].addr + Size(r.ops[k]) <= AddressMax
              /\ r.ops[k].kind = "write" => Len(r.ops[k].replacement) = Size(r.ops[k])
  <1>1. r.ops \in Seq(Operation)
    BY RequestAssumption
  <1>2. ASSUME NEW k \in DOMAIN r.ops
        PROVE  ~BadSize(r.ops[k]) /\ ~BadAddress(r.ops[k])
    BY <1>2 DEF WellShaped, OpError
  <1>3. ASSUME NEW k \in DOMAIN r.ops
        PROVE  /\ Size(r.ops[k]) # 0
               /\ r.ops[k].addr \in Cell
               /\ r.ops[k].addr + Size(r.ops[k]) <= AddressMax
               /\ r.ops[k].kind = "write" => Len(r.ops[k].replacement) = Size(r.ops[k])
    <2>0. r.ops[k] \in Operation
      BY <1>1
    <2>1. r.ops[k].addr \in Cell \cup {NoAddress} /\ Size(r.ops[k]) \in Nat
      BY <2>0 DEF Operation, Size
    <2>2. r.ops[k].addr \in Cell
      BY <1>2, <2>1 DEF BadAddress
    <2>3. r.ops[k].addr + Size(r.ops[k]) <= AddressMax
      BY <1>2, <2>1, <2>2, SizeAssumption DEF BadAddress, Cell
    <2> QED
      BY <1>2, <2>2, <2>3 DEF BadSize
  <1> QED
    BY <1>1, <1>3 DEF WellShaped

LEMMA InitInvariant == Init => Invariant
  <1> SUFFICES ASSUME Init
               PROVE  Invariant
    OBVIOUS
  <1>1. TypeOK
    BY EnvironmentAssumption
    DEF Init, TypeOK, Ops, FinalCodes, Protection, Applying, RollingBack
  <1> QED
    BY <1>1
    DEF Init, Invariant, Shaped, Originals, Attempts, Flags, ReportMatchesCode, NoResidue,
        Running, Applying, RollingBack, Ops

\* The whole state but the memory, the loop and the flags: what most steps keep.
LEMMA SubmitStep ==
  ASSUME Invariant, NEW r \in Requests, Submit(r)
  PROVE  Invariant'
  <1>1. r.ops \in Seq(Operation)
    BY RequestAssumption
  <1>2. CASE WellShaped(r) /\ pc' = "validate" /\ code' = "none"
    <2>1. TypeOK'
      BY <1>1, <1>2, WellShapedLemma
      DEF Submit, Invariant, TypeOK, Ops, Applying, RollingBack
    <2>2. Shaped'
      BY <1>2, WellShapedLemma DEF Submit, Shaped, Ops
    <2> QED
      BY <1>1, <1>2, <2>1, <2>2
      DEF Submit, Invariant, Originals, Attempts, Flags, ReportMatchesCode, NoResidue,
          Applying, RollingBack, Ops
  <1>3. CASE \E c \in ShapeErrors(r) : Finish(c)
    <2>1. code' \in RejectCodes /\ pc' = "done"
      BY <1>3, ShapeErrorsLemma DEF Finish
    <2>2. TypeOK'
      BY <1>1, <2>1 DEF Submit, Invariant, TypeOK, FinalCodes, Ops, Applying, RollingBack
    <2>3. ReportMatchesCode'
      BY <2>1 DEF Submit, ReportMatchesCode, RejectCodes
    <2> QED
      BY <1>1, <2>1, <2>2, <2>3
      DEF Submit, Invariant, Shaped, Originals, Attempts, Flags, NoResidue,
          Running, Applying, RollingBack, Ops
  <1> QED
    BY <1>2, <1>3 DEF Submit

LEMMA ValidateStep ==
  ASSUME Invariant, Validate
  PROVE  Invariant'
  <1>1. i \in DOMAIN Ops /\ Len(Ops) \in Nat /\ DOMAIN Ops = 1..Len(Ops)
    BY DEF Invariant, TypeOK, Validate
  <1>2. TypeOK'
    BY <1>1 DEF Invariant, TypeOK, Validate, Finish, FinalCodes, RejectCodes, Ops, Applying,
                RollingBack, Originals, Attempts
  <1> QED
    BY <1>2
    DEF Validate, Finish, Invariant, Shaped, Originals, Attempts, Flags, ReportMatchesCode,
        NoResidue, Running, Applying, RollingBack, Ops, RejectCodes

LEMMA PreflightStep ==
  ASSUME Invariant, PreflightRead
  PROVE  Invariant'
  <1>1. /\ i \in DOMAIN Ops
        /\ Len(Ops) \in Nat
        /\ DOMAIN Ops = 1..Len(Ops)
        /\ Len(original) = i - 1
        /\ DOMAIN original = 1..(i - 1)
        /\ original \in Seq(Seq(Byte))
        /\ \A k \in 1..(i - 1) : Len(original[k]) = Size(Ops[k])
        /\ results = <<>>
        /\ attempted = <<>>
    BY DEF Invariant, TypeOK, Originals, Flags, Attempts, PreflightRead
  <1>2. ShapedOperation(Ops[i])
    BY <1>1, RunningLemma DEF Invariant, Running, PreflightRead
  <1>3. CASE ~ReadOk(Ops[i]) /\ Finish("preflight_read_failed") /\ UNCHANGED <<i, original, results>>
    <2>1. TypeOK'
      BY <1>1, <1>3 DEF PreflightRead, Finish, Invariant, TypeOK, FinalCodes, RejectCodes, Ops,
                        Applying, RollingBack
    <2> QED
      BY <1>1, <1>3, <2>1
      DEF PreflightRead, Finish, Invariant, Shaped, Originals, Attempts, Flags, ReportMatchesCode,
          NoResidue, Running, Applying, RollingBack, Ops, RejectCodes
  <1>4. CASE original' = Append(original, Load(mem, Ops[i]))
    <2>1. /\ original' \in Seq(Seq(Byte))
          /\ Len(original') = i
          /\ DOMAIN original' = 1..i
          /\ original'[i] = Load(mem, Ops[i])
          /\ \A k \in 1..(i - 1) : original'[k] = original[k]
          /\ Len(original'[i]) = Size(Ops[i])
      BY <1>1, <1>2, <1>4, LoadLemma DEF Invariant, TypeOK
    <2>2. ASSUME NEW k \in DOMAIN original'
          PROVE  Len(original'[k]) = Size(Ops[k])
      <3>1. CASE k = i
        BY <2>1, <3>1
      <3>2. CASE k # i
        <4>1. k \in 1..(i - 1)
          BY <1>1, <2>1, <3>2
        <4>2. original'[k] = original[k]
          BY <2>1, <4>1
        <4>3. Len(original[k]) = Size(Ops[k])
          BY <1>1, <4>1
        <4> QED
          BY <4>2, <4>3
      <3> QED
        BY <3>1, <3>2
    <2>3. CASE i < Len(Ops) /\ i' = i + 1 /\ UNCHANGED <<pc, code, results>>
      <3>1. TypeOK'
        BY <1>1, <2>1, <2>3 DEF PreflightRead, Invariant, TypeOK, Ops, Applying, RollingBack
      <3>2. Originals'
        BY <1>1, <2>1, <2>2, <2>3 DEF PreflightRead, Originals, Ops, Applying, RollingBack
      <3> QED
        BY <1>1, <2>3, <3>1, <3>2
        DEF PreflightRead, Invariant, Shaped, Attempts, Flags, ReportMatchesCode, NoResidue,
            Running, Applying, RollingBack, Ops
    <2>4. CASE i = Len(Ops) /\ Finish("expected_mismatch") /\ UNCHANGED <<i, results>>
      <3>1. TypeOK'
        BY <1>1, <2>1, <2>4 DEF PreflightRead, Finish, Invariant, TypeOK, FinalCodes, RejectCodes,
                                Ops, Applying, RollingBack
      <3>2. Originals'
        BY <1>1, <2>1, <2>2, <2>4 DEF PreflightRead, Finish, Originals, Ops, Applying, RollingBack
      <3> QED
        BY <1>1, <2>4, <3>1, <3>2
        DEF PreflightRead, Finish, Invariant, Shaped, Attempts, Flags, ReportMatchesCode, NoResidue,
            Running, Applying, RollingBack, Ops, RejectCodes
    <2>5. CASE /\ i = Len(Ops) /\ Ready(original')
               /\ pc' = "apply" /\ i' = 1 /\ results' = Fresh(Ops) /\ UNCHANGED code
      <3>1. /\ results' \in Seq([applied : BOOLEAN, verified : BOOLEAN])
            /\ Len(results') = Len(Ops)
            /\ \A k \in DOMAIN Ops : ~results'[k].applied /\ ~results'[k].verified
        BY <1>1, <2>5 DEF Fresh
      <3>2. TypeOK'
        BY <1>1, <2>1, <2>5, <3>1 DEF PreflightRead, Invariant, TypeOK, Ops, Applying, RollingBack
      <3>3. Originals'
        BY <1>1, <2>1, <2>2, <2>5 DEF PreflightRead, Originals, Ready, Ops, Applying, RollingBack
      <3>4. Flags'
        BY <1>1, <2>5, <3>1 DEF PreflightRead, Flags, Marked, Ops, Applying, RollingBack
      <3> QED
        BY <1>1, <2>5, <3>2, <3>3, <3>4
        DEF PreflightRead, Invariant, Shaped, Attempts, ReportMatchesCode, NoResidue,
            Running, Applying, RollingBack, Ops
    <2> QED
      BY <1>1, <1>4, <2>3, <2>4, <2>5 DEF PreflightRead
  <1> QED
    BY <1>3, <1>4 DEF PreflightRead

\* The flags of one operation, and setting one of them.
Flag == [applied : BOOLEAN, verified : BOOLEAN]

LEMMA VerifiedLemma ==
  ASSUME results \in Seq(Flag), i \in 1..Len(results),
         results' = [results EXCEPT ![i].verified = TRUE]
  PROVE  /\ results' \in Seq(Flag)
         /\ Len(results') = Len(results)
         /\ results'[i].verified /\ results'[i].applied = results[i].applied
         /\ \A k \in 1..Len(results) : k # i => results'[k] = results[k]
  <1>1. results[i] \in Flag /\ DOMAIN results = 1..Len(results)
    OBVIOUS
  <1>2. results'[i] = [results[i] EXCEPT !.verified = TRUE]
    BY <1>1
  <1>3. results'[i] \in Flag /\ results'[i].verified /\ results'[i].applied = results[i].applied
    BY <1>1, <1>2 DEF Flag
  <1>4. \A k \in 1..Len(results) : k # i => results'[k] = results[k]
    BY <1>1
  <1>5. results' = [results EXCEPT ![i] = results'[i]]
    BY <1>1, <1>2
  <1>6. PICK e \in Flag : results' = [results EXCEPT ![i] = e]
    BY <1>3, <1>5
  <1>7. /\ [results EXCEPT ![i] = e] \in Seq(Flag)
        /\ Len([results EXCEPT ![i] = e]) = Len(results)
    BY ExceptSeq
  <1>8. results' \in Seq(Flag) /\ Len(results') = Len(results)
    BY <1>6, <1>7
  <1> QED
    BY <1>3, <1>4, <1>8

LEMMA AppliedLemma ==
  ASSUME results \in Seq(Flag), i \in 1..Len(results),
         results' = [results EXCEPT ![i].applied = TRUE]
  PROVE  /\ results' \in Seq(Flag)
         /\ Len(results') = Len(results)
         /\ results'[i].applied /\ results'[i].verified = results[i].verified
         /\ \A k \in 1..Len(results) : k # i => results'[k] = results[k]
  <1>1. results[i] \in Flag /\ DOMAIN results = 1..Len(results)
    OBVIOUS
  <1>2. results'[i] = [results[i] EXCEPT !.applied = TRUE]
    BY <1>1
  <1>3. results'[i] \in Flag /\ results'[i].applied /\ results'[i].verified = results[i].verified
    BY <1>1, <1>2 DEF Flag
  <1>4. \A k \in 1..Len(results) : k # i => results'[k] = results[k]
    BY <1>1
  <1>5. results' = [results EXCEPT ![i] = results'[i]]
    BY <1>1, <1>2
  <1>6. PICK e \in Flag : results' = [results EXCEPT ![i] = e]
    BY <1>3, <1>5
  <1>7. /\ [results EXCEPT ![i] = e] \in Seq(Flag)
        /\ Len([results EXCEPT ![i] = e]) = Len(results)
    BY ExceptSeq
  <1>8. results' \in Seq(Flag) /\ Len(results') = Len(results)
    BY <1>6, <1>7
  <1> QED
    BY <1>3, <1>4, <1>8

\* Inside the apply loop the index is the index of an operation and of its flags.
LEMMA LoopLemma ==
  ASSUME TypeOK, Applying
  PROVE  /\ i \in 1..Len(Ops) /\ Len(Ops) \in Nat /\ DOMAIN Ops = 1..Len(Ops)
         /\ results \in Seq(Flag) /\ Len(results) = Len(Ops)
  BY DEF TypeOK, Applying, Flag

\* An operation is done: the loop moves on or the call has succeeded.
LEMMA NextOperationStep ==
  ASSUME Invariant, Applying, NextOperation,
         pc = "apply" => Ops[i].kind # "write",
         results' = [results EXCEPT ![i].verified = TRUE],
         UNCHANGED <<mem, prot, req, original, attempted, restored>>
  PROVE  Invariant'
  <1>1. /\ i \in 1..Len(Ops) /\ Len(Ops) \in Nat /\ DOMAIN Ops = 1..Len(Ops)
        /\ results' \in Seq(Flag)
        /\ Len(results') = Len(Ops)
        /\ results'[i].verified /\ results'[i].applied = results[i].applied
        /\ \A k \in DOMAIN Ops \ {i} : results'[k] = results[k]
    BY LoopLemma, VerifiedLemma DEF Invariant
  <1>2. \A k \in 1..i : results'[k].verified /\ (results'[k].applied <=> Ops[k].kind = "write")
    <2> SUFFICES ASSUME NEW k \in 1..i
                 PROVE  results'[k].verified /\ (results'[k].applied <=> Ops[k].kind = "write")
      OBVIOUS
    <2>1. CASE k < i
      BY <1>1, <2>1 DEF Invariant, Flags
    <2>2. CASE k = i
      <3>1. results[i].applied <=> pc = "readback"
        BY <1>1 DEF Invariant, Flags
      <3>2. pc = "readback" => Ops[i].kind = "write"
        BY DEF Invariant, Attempts, TypeOK
      <3> QED
        BY <1>1, <2>2, <3>1, <3>2 DEF Applying
    <2> QED
      BY <1>1, <2>1, <2>2
  <1>3. CASE i = Len(Ops) /\ Finish("applied_verified") /\ UNCHANGED i
    <2>1. TypeOK'
      BY <1>1, <1>3 DEF Finish, Invariant, TypeOK, FinalCodes, Ops, Applying, RollingBack, Flag
    <2>2. ReportMatchesCode'
      BY <1>1, <1>2, <1>3 DEF Finish, ReportMatchesCode, RejectCodes, Ops
    <2> QED
      BY <1>3, <2>1, <2>2
      DEF Finish, Invariant, Shaped, Originals, Attempts, Flags, NoResidue, Running, Applying,
          RollingBack, Ops
  <1>4. CASE i # Len(Ops) /\ pc' = "apply" /\ i' = i + 1 /\ UNCHANGED code
    <2>1. TypeOK'
      BY <1>1, <1>4 DEF Invariant, TypeOK, Ops, Applying, RollingBack, Flag
    <2>2. Originals'
      BY <1>4 DEF Invariant, Originals, Ops, Applying, RollingBack
    <2>3. \A a \in DOMAIN attempted : attempted[a] <= i
      <3>1. CASE pc = "apply"
        BY <1>1, <3>1 DEF Invariant, Attempts, TypeOK
      <3>2. CASE pc = "readback"
        <4>1. attempted[Len(attempted)] = i /\ attempted \in Seq(DOMAIN Ops)
          BY <3>2 DEF Invariant, Attempts, TypeOK
        <4> QED
          BY <1>1, <4>1 DEF Invariant, Attempts
      <3> QED
        BY <3>1, <3>2 DEF Applying
    <2>4. Attempts'
      BY <1>1, <1>4, <2>3 DEF Invariant, TypeOK, Attempts, Ops
    <2>5. ASSUME NEW k \in DOMAIN Ops
          PROVE  /\ k > i + 1 => ~results'[k].verified /\ ~results'[k].applied
                 /\ k = i + 1 => ~results'[k].verified /\ ~results'[k].applied
                 /\ Marked(k)' => \E a \in DOMAIN attempted : attempted[a] = k
      <3>1. CASE k = i
        <4>1. Ops[i].kind = "write" => pc = "readback"
          BY DEF Applying
        <4>2. pc = "readback" => Len(attempted) \in DOMAIN attempted /\ attempted[Len(attempted)] = i
          BY DEF Invariant, Attempts, TypeOK
        <4>3. results'[i].applied => pc = "readback"
          BY <1>1 DEF Invariant, Flags
        <4> QED
          BY <1>1, <3>1, <4>1, <4>2, <4>3 DEF Marked, Ops
      <3>2. CASE k # i
        <4>1. results'[k] = results[k]
          BY <1>1, <3>2
        <4> QED
          BY <1>1, <3>2, <4>1 DEF Invariant, Flags, Marked, Ops
      <3> QED
        BY <3>1, <3>2
    <2>6. Flags'
      BY <1>1, <1>2, <1>4, <2>5 DEF Flags, Applying, RollingBack, Ops
    <2> QED
      BY <1>4, <2>1, <2>2, <2>4, <2>6
      DEF Invariant, Shaped, ReportMatchesCode, NoResidue, Running, Applying, RollingBack, Ops
  <1> QED
    BY <1>3, <1>4 DEF NextOperation

LEMMA ApplyVerifyOnlyStep ==
  ASSUME Invariant, ApplyVerifyOnly
  PROVE  Invariant'
  BY NextOperationStep DEF ApplyVerifyOnly, Applying

\* A rollback starts at the last attempt, with every marked operation attempted.
LEMMA StartRollbackStep ==
  ASSUME Invariant, Applying, StartRollback(Len(attempted')),
         attempted' \in Seq(DOMAIN Ops), Len(attempted') # 0,
         \A a \in DOMAIN attempted' : Ops[attempted'[a]].kind = "write",
         \A a, b \in DOMAIN attempted' : a < b => attempted'[a] < attempted'[b],
         \A a \in DOMAIN attempted : \E b \in DOMAIN attempted' : attempted'[b] = attempted[a],
         mem' \in [Cell -> Byte],
         UNCHANGED <<prot, req, original, results, restored>>
  PROVE  Invariant'
  <1>1. /\ Len(attempted') \in Nat /\ DOMAIN attempted' = 1..Len(attempted')
        /\ pc' = "restore" /\ i' = Len(attempted') /\ code' = code
    BY DEF StartRollback
  <1>2. TypeOK'
    BY <1>1 DEF Invariant, TypeOK, Ops, Applying, RollingBack
  <1>3. Originals'
    BY <1>1 DEF Invariant, Originals, Ops, Applying, RollingBack
  <1>4. Attempts'
    BY <1>1 DEF Attempts, Ops
  <1>5. Flags'
    <2>1. ASSUME NEW k \in DOMAIN Ops, Marked(k)
          PROVE  \E a \in 1..i' : attempted'[a] = k
      BY <1>1, <2>1 DEF Invariant, Flags
    <2> QED
      BY <1>1, <2>1 DEF Flags, Marked, Applying, RollingBack, Ops
  <1>6. NoResidue'
    BY <1>1 DEF NoResidue
  <1> QED
    BY <1>1, <1>2, <1>3, <1>4, <1>5, <1>6
    DEF Invariant, Shaped, ReportMatchesCode, Running, Applying, RollingBack, Ops

LEMMA ApplyWriteStep ==
  ASSUME Invariant, ApplyWrite
  PROVE  Invariant'
  <1> DEFINE op == Ops[i]
  <1>1. /\ Applying /\ pc = "apply" /\ op.kind = "write"
        /\ i \in 1..Len(Ops) /\ Len(Ops) \in Nat /\ DOMAIN Ops = 1..Len(Ops)
        /\ results \in Seq(Flag) /\ Len(results) = Len(Ops)
        /\ UNCHANGED <<prot, req, original, restored>>
    BY LoopLemma DEF ApplyWrite, Invariant, Applying
  <1>2. /\ ShapedOperation(op)
        /\ op.replacement \in Seq(Byte)
        /\ Len(op.replacement) = Size(op)
    BY <1>1, RunningLemma DEF Invariant, Shaped, Running, ShapedOperation, Operation
  <1>3. mem' \in [Cell -> Byte]
    BY <1>2, WriteLemma DEF ApplyWrite, Invariant, TypeOK
  <1>4. /\ attempted' \in Seq(DOMAIN Ops)
        /\ attempted \in Seq(DOMAIN Ops)
        /\ Len(attempted) \in Nat
        /\ DOMAIN attempted = 1..Len(attempted)
        /\ Len(attempted') = Len(attempted) + 1
        /\ DOMAIN attempted' = 1..(Len(attempted) + 1)
        /\ attempted'[Len(attempted')] = i
        /\ \A a \in DOMAIN attempted : attempted'[a] = attempted[a]
    BY <1>1 DEF ApplyWrite, Invariant, TypeOK
  <1>5. /\ \A a \in DOMAIN attempted' : Ops[attempted'[a]].kind = "write"
        /\ \A a, b \in DOMAIN attempted' : a < b => attempted'[a] < attempted'[b]
    <2>1. \A a \in DOMAIN attempted' : a \in DOMAIN attempted \/ a = Len(attempted')
      BY <1>4
    <2>2. /\ \A a \in DOMAIN attempted : Ops[attempted[a]].kind = "write" /\ attempted[a] < i
          /\ \A a, b \in DOMAIN attempted : a < b => attempted[a] < attempted[b]
      BY <1>1 DEF Invariant, Attempts
    <2>3. \A a \in DOMAIN attempted : a < Len(attempted')
      BY <1>4
    <2>4. ASSUME NEW a \in DOMAIN attempted'
          PROVE  Ops[attempted'[a]].kind = "write"
      <3>1. CASE a \in DOMAIN attempted
        BY <1>4, <2>2, <3>1
      <3>2. CASE a = Len(attempted')
        BY <1>1, <1>4, <3>2
      <3> QED
        BY <2>1, <3>1, <3>2
    <2>5. ASSUME NEW a \in DOMAIN attempted', NEW b \in DOMAIN attempted', a < b
          PROVE  attempted'[a] < attempted'[b]
      <3>1. a \in DOMAIN attempted /\ attempted'[a] = attempted[a]
        BY <1>4, <2>5
      <3>2. CASE b \in DOMAIN attempted
        BY <1>4, <2>2, <2>5, <3>1, <3>2
      <3>3. CASE b = Len(attempted')
        BY <1>4, <2>2, <3>1, <3>3
      <3> QED
        BY <2>1, <3>2, <3>3
    <2> QED
      BY <2>4, <2>5
  <1>6. CASE /\ results' = [results EXCEPT ![i].applied = TRUE]
             /\ pc' = "readback" /\ UNCHANGED <<i, code>>
    <2>1. /\ results' \in Seq(Flag) /\ Len(results') = Len(Ops)
          /\ results'[i].applied /\ results'[i].verified = results[i].verified
          /\ \A k \in DOMAIN Ops : k # i => results'[k] = results[k]
      BY <1>1, <1>6, AppliedLemma
    <2>2. TypeOK'
      BY <1>1, <1>3, <1>4, <1>6, <2>1 DEF Invariant, TypeOK, Ops, Applying, RollingBack, Flag
    <2>3. Originals'
      BY <1>1, <1>6 DEF Invariant, Originals, Ops, Applying, RollingBack
    <2>4. Attempts'
      BY <1>1, <1>4, <1>5, <1>6 DEF Attempts, Ops
    <2>5. ASSUME NEW k \in DOMAIN Ops
          PROVE  /\ k < i => results'[k].verified /\ (results'[k].applied <=> Ops[k].kind = "write")
                 /\ k > i => ~results'[k].verified /\ ~results'[k].applied
                 /\ k = i => ~results'[k].verified /\ results'[k].applied
                 /\ Marked(k)' => \E a \in DOMAIN attempted' : attempted'[a] = k
      <3>1. CASE k = i
        <4>1. ~results[i].verified
          BY <1>1 DEF Invariant, Flags
        <4>2. Len(attempted') \in DOMAIN attempted'
          BY <1>4
        <4> QED
          BY <1>1, <1>4, <2>1, <3>1, <4>1, <4>2
      <3>2. CASE k # i
        <4>1. results'[k] = results[k]
          BY <2>1, <3>2
        <4>2. Marked(k)' => \E a \in DOMAIN attempted : attempted[a] = k
          BY <1>1, <4>1 DEF Invariant, Flags, Marked, Ops
        <4>3. Marked(k)' => \E a \in DOMAIN attempted' : attempted'[a] = k
          BY <1>4, <4>2
        <4> QED
          BY <1>1, <3>2, <4>1, <4>3 DEF Invariant, Flags
      <3> QED
        BY <3>1, <3>2
    <2>6. Flags'
      BY <1>1, <1>6, <2>5 DEF Flags, Applying, RollingBack, Ops
    <2> QED
      BY <1>1, <1>6, <2>2, <2>3, <2>4, <2>6
      DEF Invariant, Shaped, ReportMatchesCode, NoResidue, Running, RollingBack, Ops
  <1>7. CASE StartRollback(Len(attempted')) /\ UNCHANGED results
    <2>1. \A a \in DOMAIN attempted : \E b \in DOMAIN attempted' : attempted'[b] = attempted[a]
      BY <1>4
    <2> QED
      BY <1>1, <1>3, <1>4, <1>5, <1>7, <2>1, StartRollbackStep
  <1> QED
    BY <1>6, <1>7 DEF ApplyWrite

LEMMA ReadbackStep ==
  ASSUME Invariant, Readback
  PROVE  Invariant'
  <1>1. Applying /\ pc = "readback"
    BY DEF Readback, Applying
  <1>2. CASE results' = [results EXCEPT ![i].verified = TRUE] /\ NextOperation
    BY <1>1, <1>2, NextOperationStep DEF Readback
  <1>3. CASE StartRollback(Len(attempted)) /\ UNCHANGED results
    <2>1. UNCHANGED attempted /\ UNCHANGED <<mem, prot, req, original, restored>>
      BY DEF Readback
    <2>2. /\ mem \in [Cell -> Byte]
          /\ attempted \in Seq(DOMAIN Ops)
          /\ Len(attempted) # 0
          /\ \A a \in DOMAIN attempted : Ops[attempted[a]].kind = "write"
          /\ \A a, b \in DOMAIN attempted : a < b => attempted[a] < attempted[b]
      BY <1>1 DEF Invariant, TypeOK, Attempts
    <2> QED
      BY <1>1, <1>3, <2>1, <2>2, StartRollbackStep
  <1> QED
    BY <1>2, <1>3 DEF Readback

\* The operation a rollback is at, and the bytes it puts back.
LEMMA RollbackLemma ==
  ASSUME Invariant, RollingBack, NEW a \in DOMAIN attempted
  PROVE  /\ attempted[a] \in 1..Len(Ops) /\ Len(Ops) \in Nat
         /\ ShapedOperation(Ops[attempted[a]])
         /\ original[attempted[a]] \in Seq(Byte)
         /\ Len(original[attempted[a]]) = Size(Ops[attempted[a]])
         /\ results \in Seq(Flag) /\ Len(results) = Len(Ops)
  <1>1. attempted[a] \in 1..Len(Ops) /\ Len(Ops) \in Nat /\ attempted[a] \in DOMAIN Ops
    BY DEF Invariant, TypeOK
  <1>2. ShapedOperation(Ops[attempted[a]])
    BY <1>1, RunningLemma DEF Invariant, Running, RollingBack
  <1>3. /\ original[attempted[a]] = Ops[attempted[a]].expected
        /\ Ops[attempted[a]].expected \in Seq(Byte)
    BY <1>1, <1>2 DEF Invariant, Originals, ShapedOperation, Operation
  <1> QED
    BY <1>1, <1>2, <1>3 DEF Invariant, TypeOK, Size, Flag

LEMMA RestoreStep ==
  ASSUME Invariant, Restore
  PROVE  Invariant'
  <1> DEFINE at == attempted[i]
             op == Ops[at]
  <1>1. /\ RollingBack /\ pc = "restore"
        /\ i \in DOMAIN attempted /\ i \in Nat
        /\ attempted \in Seq(DOMAIN Ops) /\ DOMAIN attempted = 1..Len(attempted)
        /\ Len(attempted) \in Nat
        /\ mem \in [Cell -> Byte]
        /\ UNCHANGED <<prot, req, original, attempted, code>>
    BY DEF Restore, RollingBack, Invariant, TypeOK
  <1>2. /\ at \in 1..Len(Ops) /\ Len(Ops) \in Nat /\ DOMAIN Ops = 1..Len(Ops)
        /\ ShapedOperation(op)
        /\ original[at] \in Seq(Byte) /\ Len(original[at]) = Size(op)
        /\ results \in Seq(Flag) /\ Len(results) = Len(Ops)
    <2>1. /\ at \in 1..Len(Ops) /\ ShapedOperation(op)
          /\ original[at] \in Seq(Byte) /\ Len(original[at]) = Size(op)
          /\ results \in Seq(Flag) /\ Len(results) = Len(Ops)
      <3>1. \A a \in DOMAIN attempted :
              LET b == attempted[a]
              IN  /\ b \in 1..Len(Ops) /\ ShapedOperation(Ops[b])
                  /\ original[b] \in Seq(Byte) /\ Len(original[b]) = Size(Ops[b])
                  /\ results \in Seq(Flag) /\ Len(results) = Len(Ops)
        BY <1>1, RollbackLemma
      <3> QED
        BY <1>1, <3>1, Zenon
    <2>2. Len(Ops) \in Nat /\ DOMAIN Ops = 1..Len(Ops)
      BY DEF Invariant, TypeOK
    <2> QED
      BY <2>1, <2>2, Zenon
  <1>3. /\ mem' \in [Cell -> Byte]
        /\ \A c \in Cell \ Covered(op) : mem'[c] = mem[c]
        /\ restored' \in BOOLEAN
        /\ restored' => /\ restored
                        /\ \A n \in 1..Size(op) : mem'[op.addr + n - 1] = original[at][n]
    <2>1. \/ WriteOk(op, original[at]) /\ UNCHANGED restored
          \/ WriteFails(op, original[at]) /\ restored' = FALSE
      BY DEF Restore, RestoreBytes
    <2>2. restored \in BOOLEAN
      BY DEF Invariant, TypeOK
    <2>3. /\ mem' \in [Cell -> Byte]
          /\ \A c \in Cell \ Covered(op) : mem'[c] = mem[c]
          /\ WriteOk(op, original[at]) =>
               \A n \in 1..Size(op) : mem'[op.addr + n - 1] = original[at][n]
      <3> HIDE DEF op, at
      <3> QED
        BY <1>1, <1>2, <2>1, WriteLemma
    <2>4. restored' \in BOOLEAN /\ (restored' => restored /\ WriteOk(op, original[at]))
      <3> HIDE DEF op, at
      <3>1. CASE WriteOk(op, original[at]) /\ restored' = restored
        BY <2>2, <3>1, Zenon
      <3>2. CASE restored' = FALSE
        BY <3>2, Zenon
      <3> QED
        BY <2>1, <3>1, <3>2
    <2> HIDE DEF op, at
    <2> QED
      BY <2>3, <2>4
  <1>4. /\ results' \in Seq(Flag) /\ Len(results') = Len(Ops)
        /\ ~results'[at].applied /\ ~results'[at].verified
        /\ \A k \in DOMAIN Ops : k # at => results'[k] = results[k]
    <2>1. PICK e \in Flag : /\ ~e.applied /\ ~e.verified
                            /\ results' = [results EXCEPT ![at] = e]
      BY DEF Restore, FlagsCleared, Flag
    <2>2. /\ [results EXCEPT ![at] = e] \in Seq(Flag)
          /\ Len([results EXCEPT ![at] = e]) = Len(results)
          /\ \A k \in 1..Len(results) : [results EXCEPT ![at] = e][k] = IF k = at THEN e ELSE results[k]
      BY <1>2, ExceptSeq
    <2>3. \A k \in 1..Len(results) : results'[k] = IF k = at THEN e ELSE results[k]
      BY <2>1, <2>2
    <2> QED
      BY <1>2, <2>1, <2>2, <2>3
  <1>5. \/ i > 1 /\ i' = i - 1 /\ pc' = "restore"
        \/ i = 1 /\ i' = 1 /\ pc' = "recheck"
    <2>1. i >= 1
      BY <1>1
    <2> QED
      BY <1>1, <2>1 DEF Restore, RestoreLoops
  <1>6. TypeOK'
    BY <1>1, <1>3, <1>4, <1>5 DEF Invariant, TypeOK, Ops, Applying, RollingBack, Flag
  <1>7. Originals'
    BY <1>1, <1>5 DEF Invariant, Originals, Ops, Applying, RollingBack
  <1>8. Attempts'
    BY <1>1, <1>5 DEF Invariant, Attempts, Ops
  <1>9. Flags'
    <2>1. ASSUME NEW k \in DOMAIN Ops, Marked(k)'
          PROVE  pc' = "restore" /\ \E a \in 1..i' : attempted'[a] = k
      <3>1. k # at /\ results'[k] = results[k]
        BY <1>1, <1>4, <2>1 DEF Marked
      <3>2. Marked(k)
        BY <1>1, <2>1, <3>1 DEF Marked, Ops
      <3>3. PICK a \in 1..i : attempted[a] = k
        BY <1>1, <3>2 DEF Invariant, Flags
      <3>4. a # i
        BY <3>1, <3>3
      <3> QED
        BY <1>1, <1>5, <3>3, <3>4
    <2> QED
      BY <1>1, <1>5, <2>1 DEF Flags, Applying, RollingBack, Ops
  <1>10. NoResidue'
    <2> SUFFICES ASSUME restored', NEW a \in DOMAIN attempted, a >= i,
                        NEW n \in 1..Size(Ops[attempted[a]]),
                        Ops[attempted[a]].addr + n - 1 \notin GameCells
                 PROVE  mem'[Ops[attempted[a]].addr + n - 1] = original[attempted[a]][n]
      BY <1>1, <1>5 DEF NoResidue, Ops
    <2> DEFINE other == Ops[attempted[a]]
               c == other.addr + n - 1
    <2>1. CASE a = i
      BY <1>3, <2>1
    <2>2. CASE a > i
      <3>1. attempted[a] # at /\ attempted[a] \in DOMAIN Ops /\ at \in DOMAIN Ops
        <4>1. attempted[i] < attempted[a]
          BY <1>1, <2>2 DEF Invariant, Attempts
        <4>2. attempted[a] \in 1..Len(Ops)
          BY <1>1, RollbackLemma
        <4> QED
          BY <1>2, <4>1, <4>2
      <3>2. ShapedOperation(other) /\ Size(other) \in Nat
        BY <1>1, <3>1, RunningLemma DEF Invariant, Running, RollingBack
      <3>3. c \in Cell /\ c \in Covered(other)
        BY <3>2, SizeAssumption DEF ShapedOperation, Covered, Cell
      <3>4. c \notin Covered(op)
        BY <1>1, <3>1, <3>3 DEF Invariant, Shaped, Running, RollingBack, Overlapping
      <3>5. mem'[c] = mem[c]
        BY <1>3, <3>3, <3>4
      <3>6. mem[c] = original[attempted[a]][n]
        BY <1>1, <1>3, <2>2 DEF Invariant, NoResidue
      <3> QED
        BY <3>5, <3>6
    <2> QED
      BY <1>1, <2>1, <2>2
  <1> QED
    BY <1>1, <1>5, <1>6, <1>7, <1>8, <1>9, <1>10
    DEF Invariant, Shaped, ReportMatchesCode, Running, RollingBack, Ops

LEMMA RecheckStep ==
  ASSUME Invariant, Recheck
  PROVE  Invariant'
  <1>1. /\ RollingBack /\ pc = "recheck"
        /\ i \in DOMAIN attempted /\ i \in Nat
        /\ DOMAIN attempted = 1..Len(attempted) /\ Len(attempted) \in Nat
        /\ restored \in BOOLEAN
        /\ UNCHANGED <<mem, prot, req, original, attempted, results>>
    BY DEF Recheck, RollingBack, Invariant, TypeOK
  <1>2. restored' \in BOOLEAN /\ (restored' => restored)
    BY <1>1 DEF Recheck
  <1>3. \/ i < Len(attempted) /\ i' = i + 1 /\ pc' = pc /\ code' = code
        \/ /\ i' = i /\ pc' = "done"
           /\ code' \in {"rolled_back_verified", "rollback_unverified"}
    BY <1>1 DEF Recheck, Finish
  <1>4. TypeOK'
    BY <1>1, <1>2, <1>3 DEF Invariant, TypeOK, Ops, Applying, RollingBack, FinalCodes
  <1>5. Shaped' /\ Originals' /\ Attempts'
    BY <1>1, <1>3
    DEF Invariant, Shaped, Originals, Attempts, Running, Applying, RollingBack, Ops
  <1>6. \A k \in DOMAIN Ops : ~Marked(k)
    BY <1>1 DEF Invariant, Flags
  <1>7. Flags'
    BY <1>1, <1>3, <1>6 DEF Flags, Marked, Applying, RollingBack, Ops
  <1>8. NoResidue'
    BY <1>1, <1>2, <1>3 DEF Invariant, NoResidue, RollingBack, Ops
  <1>9. results # <<>>
    <2>1. /\ attempted[i] \in 1..Len(Ops) /\ Len(Ops) \in Nat
          /\ results \in Seq(Flag) /\ Len(results) = Len(Ops)
      BY <1>1, RollbackLemma
    <2>2. Len(results) >= 1
      BY <2>1
    <2> QED
      BY <2>2
  <1>10. ReportMatchesCode'
    <2>1. SUFFICES ASSUME pc' = "done"
                   PROVE  ReportMatchesCode'
      BY DEF ReportMatchesCode
    <2>2. code' \in {"rolled_back_verified", "rollback_unverified"}
      BY <1>1, <1>3, <2>1
    <2>3. \A k \in DOMAIN Ops : Ops[k].kind \in Kind
      <3>1. \A k \in DOMAIN Ops : Ops[k] \in Operation
        BY DEF Invariant, TypeOK
      <3> QED
        BY <3>1 DEF Operation
    <2>4. \A k \in DOMAIN Ops :
            ~results[k].applied /\ (results[k].verified => Ops[k].kind = "verify_only")
      BY <1>6, <2>3 DEF Marked, Kind
    <2> QED
      BY <1>1, <1>9, <2>2, <2>4 DEF ReportMatchesCode, RejectCodes, Ops
  <1> QED
    BY <1>4, <1>5, <1>7, <1>8, <1>10 DEF Invariant

\* The game's own stores are outside what the engine answers for.
LEMMA GameWriteStep ==
  ASSUME Invariant, GameWrite
  PROVE  Invariant'
  <1>1. PICK g \in GameCells, b \in Byte : mem' = [mem EXCEPT ![g] = b]
    BY DEF GameWrite
  <1>2. /\ UNCHANGED <<prot, pc, req, i, original, attempted, results, restored, code>>
        /\ mem \in [Cell -> Byte] /\ g \in Cell
    BY <1>1, EnvironmentAssumption DEF GameWrite, engineVars, Invariant, TypeOK
  <1>3. /\ mem' \in [Cell -> Byte]
        /\ \A c \in Cell : c # g => mem'[c] = mem[c]
    BY <1>1, <1>2
  <1>4. TypeOK'
    BY <1>2, <1>3 DEF Invariant, TypeOK, Ops, Applying, RollingBack
  <1>5. NoResidue'
    <2>1. SUFFICES ASSUME RollingBack, restored, NEW a \in DOMAIN attempted,
                          pc = "recheck" \/ a > i,
                          NEW n \in 1..Size(Ops[attempted[a]]),
                          Ops[attempted[a]].addr + n - 1 \notin GameCells
                   PROVE  mem'[Ops[attempted[a]].addr + n - 1] = original[attempted[a]][n]
      BY <1>2 DEF NoResidue, RollingBack, Ops
    <2> DEFINE c == Ops[attempted[a]].addr + n - 1
    <2>2. mem[c] = original[attempted[a]][n]
      BY <2>1 DEF Invariant, NoResidue
    <2>3. ShapedOperation(Ops[attempted[a]])
      BY <2>1, RollbackLemma
    <2>4. c \in Cell
      BY <2>1, <2>3, SizeAssumption DEF ShapedOperation, Operation, Covered, Size, Cell
    <2> QED
      BY <1>1, <1>3, <2>1, <2>2, <2>4
  <1>6. Shaped' /\ Originals' /\ Attempts' /\ Flags' /\ ReportMatchesCode'
    BY <1>2 DEF Invariant, Shaped, Originals, Attempts, Flags, Marked, ReportMatchesCode,
                Running, Applying, RollingBack, Ops
  <1> QED
    BY <1>4, <1>5, <1>6 DEF Invariant

LEMMA ReprotectStep ==
  ASSUME Invariant, Reprotect
  PROVE  Invariant'
  <1>1. PICK c \in VolatileCells, p \in Protection : prot' = [prot EXCEPT ![c] = p]
    BY DEF Reprotect
  <1>2. UNCHANGED <<mem, pc, req, i, original, attempted, results, restored, code>>
    BY DEF Reprotect, engineVars
  <1>3. prot' \in [Cell -> Protection]
    BY <1>1 DEF Invariant, TypeOK
  <1> QED
    BY <1>2, <1>3
    DEF Invariant, TypeOK, Shaped, Originals, Attempts, Flags, Marked, ReportMatchesCode,
        NoResidue, Running, Applying, RollingBack, Ops

LEMMA StutterStep ==
  ASSUME Invariant, UNCHANGED vars
  PROVE  Invariant'
  BY DEF Invariant, TypeOK, Shaped, Originals, Attempts, Flags, Marked, ReportMatchesCode,
         NoResidue, Running, Applying, RollingBack, Ops, vars, engineVars

LEMMA InvariantStep ==
  ASSUME Invariant, [Next]_vars
  PROVE  Invariant'
  <1>1. CASE \E r \in Requests : Submit(r)
    BY <1>1, SubmitStep
  <1>2. CASE Engine
    BY <1>2, ValidateStep, PreflightStep, ApplyVerifyOnlyStep, ApplyWriteStep,
       ReadbackStep, RestoreStep, RecheckStep DEF Engine
  <1>3. CASE GameWrite
    BY <1>3, GameWriteStep
  <1>4. CASE Reprotect
    BY <1>4, ReprotectStep
  <1>5. CASE UNCHANGED vars
    BY <1>5, StutterStep
  <1> QED
    BY <1>1, <1>2, <1>3, <1>4, <1>5 DEF Next, Call

-----------------------------------------------------------------------------
(* Theorems.                                                               *)

\* The invariant that carries all of them.
THEOREM InvariantHolds == Spec => []Invariant
  <1>1. Init => Invariant
    BY InitInvariant
  <1>2. Invariant /\ [Next]_vars => Invariant'
    BY InvariantStep
  <1> QED
    BY <1>1, <1>2, PTL DEF Spec

\* RunTransaction and RollBack never index prepared, results or attempted out
\* of range, whatever the request, the game and the page protections do.
THEOREM TypeCorrect == Spec => []TypeOK
  <1>1. Invariant => TypeOK
    BY DEF Invariant
  <1> QED
    BY <1>1, InvariantHolds, PTL

\* The flags of every operation agree with the code RunTransaction returns.
THEOREM ReportIsHonest == Spec => []ReportMatchesCode
  <1>1. Invariant => ReportMatchesCode
    BY DEF Invariant
  <1> QED
    BY <1>1, InvariantHolds, PTL

\* While RollBack's flag still says "restored", what it has put back so far is
\* back, except where the game itself stores: a verified rollback leaves no
\* residue of the engine.
THEOREM RollbackLeavesNoResidue == Spec => []NoResidue
  <1>1. Invariant => NoResidue
    BY DEF Invariant
  <1> QED
    BY <1>1, InvariantHolds, PTL

\* The shape of a step of the backend: it stores into one write operation.
LEMMA StoringStep ==
  ASSUME Invariant, Applying \/ RollingBack,
         NEW k \in DOMAIN Ops, Ops[k].kind = "write",
         \A c \in Cell \ Covered(Ops[k]) : mem'[c] = mem[c]
  PROVE  /\ Len(original) = Len(Ops)
         /\ \A n \in DOMAIN Ops : original[n] = Ops[n].expected
         /\ \A c \in Cell : mem'[c] # mem[c] => c \in WriteCells(Ops)
  BY DEF Invariant, TypeOK, Originals, WriteCells

LEMMA ApplyWriteStores ==
  ASSUME Invariant, ApplyWrite
  PROVE  \A c \in Cell \ Covered(Ops[i]) : mem'[c] = mem[c]
  <1> DEFINE op == Ops[i]
  <1>1. /\ Applying /\ i \in 1..Len(Ops) /\ DOMAIN Ops = 1..Len(Ops)
        /\ mem \in [Cell -> Byte] /\ op.kind = "write"
    BY LoopLemma DEF ApplyWrite, Invariant, TypeOK, Applying
  <1>2. /\ ShapedOperation(op)
        /\ op.replacement \in Seq(Byte)
        /\ Len(op.replacement) = Size(op)
    BY <1>1, RunningLemma
    DEF Invariant, Shaped, Running, Applying, ShapedOperation, Operation
  <1>3. WriteOk(op, op.replacement) \/ WriteFails(op, op.replacement)
    BY DEF ApplyWrite
  <1> HIDE DEF op
  <1>4. \A c \in Cell \ Covered(op) : mem'[c] = mem[c]
    BY <1>1, <1>2, <1>3, WriteLemma
  <1> QED
    BY <1>4 DEF op

LEMMA RestoreStores ==
  ASSUME Invariant, Restore
  PROVE  \A c \in Cell \ Covered(Ops[attempted[i]]) : mem'[c] = mem[c]
  <1> DEFINE at == attempted[i]
             op == Ops[at]
  <1>1. RollingBack /\ i \in DOMAIN attempted /\ mem \in [Cell -> Byte]
    BY DEF Restore, RollingBack, Invariant, TypeOK
  <1>2. /\ ShapedOperation(op)
        /\ original[at] \in Seq(Byte) /\ Len(original[at]) = Size(op)
    BY <1>1, RollbackLemma
  <1>3. WriteOk(op, original[at]) \/ WriteFails(op, original[at])
    BY DEF Restore, RestoreBytes
  <1> HIDE DEF op, at
  <1>4. \A c \in Cell \ Covered(op) : mem'[c] = mem[c]
    BY <1>1, <1>2, <1>3, WriteLemma
  <1> QED
    BY <1>4 DEF op, at

LEMMA EngineStores ==
  ASSUME Invariant, Engine, mem' # mem
  PROVE  /\ Len(original) = Len(Ops)
         /\ \A k \in DOMAIN Ops : original[k] = Ops[k].expected
         /\ \A c \in Cell : mem'[c] # mem[c] => c \in WriteCells(Ops)
  <1>1. CASE ApplyWrite
    <2>1. /\ Applying /\ i \in DOMAIN Ops /\ Ops[i].kind = "write"
      BY <1>1 DEF ApplyWrite, Applying, Invariant, TypeOK
    <2> QED
      BY <1>1, <2>1, ApplyWriteStores, StoringStep
  <1>2. CASE Restore
    <2>1. /\ RollingBack /\ i \in DOMAIN attempted
      BY <1>2 DEF Restore, RollingBack, Invariant, TypeOK
    <2>2. /\ attempted[i] \in 1..Len(Ops) /\ Ops[attempted[i]].kind = "write"
      BY <2>1, RollbackLemma DEF Invariant, Attempts
    <2>3. attempted[i] \in DOMAIN Ops
      BY <2>2 DEF Invariant, TypeOK
    <2> QED
      BY <1>2, <2>1, <2>2, <2>3, RestoreStores, StoringStep
  <1>3. CASE Validate \/ PreflightRead \/ ApplyVerifyOnly \/ Readback \/ Recheck
    BY <1>3 DEF Validate, PreflightRead, ApplyVerifyOnly, Readback, Recheck
  <1> QED
    BY <1>1, <1>2, <1>3 DEF Engine

\* Before every operation was validated, read and compared the engine stores
\* nothing, and afterwards only the bytes of the request's writes: a guard is
\* never written, by an apply, by a failed write or by a rollback.
THEOREM GuardsAreNeverWritten == Spec => OnlyPreflightedWritesTouchMemory
  <1>1. Invariant /\ [Next]_vars =>
          [ Engine /\ mem' # mem =>
              /\ Len(original) = Len(Ops)
              /\ \A k \in DOMAIN Ops : original[k] = Ops[k].expected
              /\ \A c \in Cell : mem'[c] # mem[c] => c \in WriteCells(Ops) ]_vars
    BY EngineStores
  <1> QED
    BY <1>1, InvariantHolds, PTL DEF Spec, OnlyPreflightedWritesTouchMemory

-----------------------------------------------------------------------------
(* The refinement: the engine implements the all-or-nothing write of        *)
(* AtomicTransaction.  Until the game stores where a call is running, each  *)
(* of its operations holds its original bytes, its replacement, or what a   *)
(* rollback has restored, and which of them follows from where the loops of *)
(* RunTransaction and RollBack are.                                         *)

Holds(m, op, bytes) == \A n \in 1..Len(bytes) : m[op.addr + n - 1] = bytes[n]

\* An operation whose write has not been attempted.
Unattempted(k) == \A a \in DOMAIN attempted : attempted[a] # k

\* What has been read and not yet written is still as it was read.
OthersHoldOriginals ==
  \A k \in DOMAIN original : Unattempted(k) => Holds(mem, Ops[k], original[k])

\* The writes the apply loop is done with hold their replacements.
AppliedHoldReplacements ==
  Applying =>
    \A a \in DOMAIN attempted : attempted[a] < i =>
      Holds(mem, Ops[attempted[a]], Ops[attempted[a]].replacement)

\* While nothing has failed, the writes the restore loop is done with hold their
\* originals.
RestoredHoldOriginals ==
  RollingBack /\ restored =>
    \A a \in DOMAIN attempted : pc = "recheck" \/ a > i =>
      Holds(mem, Ops[attempted[a]], original[attempted[a]])

Steady ==
  Running /\ ~disturbed =>
    OthersHoldOriginals /\ AppliedHoldReplacements /\ RestoredHoldOriginals

SteadyInvariant == Invariant /\ disturbed \in BOOLEAN /\ Steady

-----------------------------------------------------------------------------
(* Operations and what memory holds of them.                               *)

\* An operation of a running request, what was read for it, and what it writes.
LEMMA OperationLemma ==
  ASSUME Invariant, Running, NEW k \in DOMAIN Ops
  PROVE  /\ ShapedOperation(Ops[k]) /\ Ops[k].addr \in Int /\ Size(Ops[k]) \in Nat
         /\ Covered(Ops[k]) \subseteq Cell
         /\ \A n \in 1..Size(Ops[k]) : Ops[k].addr + n - 1 \in Covered(Ops[k])
         /\ Ops[k].kind = "write" =>
              /\ Ops[k].replacement \in Seq(Byte)
              /\ Len(Ops[k].replacement) = Size(Ops[k])
  <1>1. ShapedOperation(Ops[k]) /\ Size(Ops[k]) \in Nat
    BY RunningLemma DEF Invariant
  <1>2. Ops[k] \in Operation /\ Ops[k].addr \in Int
    BY <1>1, SizeAssumption DEF ShapedOperation, Cell
  <1>3. Covered(Ops[k]) \subseteq Cell
    BY <1>1, <1>2, SizeAssumption DEF ShapedOperation, Covered, Cell
  <1>4. \A n \in 1..Size(Ops[k]) : Ops[k].addr + n - 1 \in Covered(Ops[k])
    BY <1>1, <1>2 DEF Covered
  <1>5. Ops[k].replacement \in Seq(Byte)
    BY <1>2 DEF Operation
  <1>6. Ops[k].kind = "write" => Len(Ops[k].replacement) = Size(Ops[k])
    BY DEF Invariant, Shaped
  <1> QED
    BY <1>1, <1>2, <1>3, <1>4, <1>5, <1>6

LEMMA OriginalLemma ==
  ASSUME Invariant, NEW k \in DOMAIN original
  PROVE  k \in DOMAIN Ops /\ original[k] \in Seq(Byte) /\ Len(original[k]) = Size(Ops[k])
  <1>1. original \in Seq(Seq(Byte)) /\ Ops \in Seq(Operation) /\ Len(original) <= Len(Ops)
    BY DEF Invariant, TypeOK, Originals
  <1>2. Len(original[k]) = Size(Ops[k])
    BY DEF Invariant, Originals
  <1> QED
    BY <1>1, <1>2

\* The attempts, and the originals of a call that has compared them.
LEMMA AttemptLemma ==
  ASSUME Invariant
  PROVE  /\ attempted \in Seq(DOMAIN Ops) /\ Len(attempted) \in Nat
         /\ DOMAIN attempted = 1..Len(attempted)
         /\ \A a \in DOMAIN attempted : attempted[a] \in DOMAIN Ops /\ Ops[attempted[a]].kind = "write"
         /\ Applying \/ RollingBack =>
              DOMAIN original = DOMAIN Ops /\ \A k \in DOMAIN Ops : original[k] = Ops[k].expected
  <1>1. attempted \in Seq(DOMAIN Ops)
    BY DEF Invariant, TypeOK
  <1>2. \A a \in DOMAIN attempted : Ops[attempted[a]].kind = "write"
    BY DEF Invariant, Attempts
  <1>3. ASSUME Applying \/ RollingBack
        PROVE  DOMAIN original = DOMAIN Ops /\ \A k \in DOMAIN Ops : original[k] = Ops[k].expected
    <2>1. original \in Seq(Seq(Byte)) /\ Ops \in Seq(Operation) /\ Len(original) = Len(Ops)
      BY <1>3 DEF Invariant, TypeOK
    <2> QED
      BY <1>3, <2>1 DEF Invariant, Originals
  <1> QED
    BY <1>1, <1>2, <1>3

\* Operations do not overlap.
LEMMA ApartLemma ==
  ASSUME Invariant, Running, NEW j \in DOMAIN Ops, NEW k \in DOMAIN Ops, j # k
  PROVE  Covered(Ops[j]) \cap Covered(Ops[k]) = {}
  BY DEF Invariant, Shaped, Overlapping

\* Memory that is the same where an operation is still holds the same bytes.
LEMMA HoldsKept ==
  ASSUME Invariant, Running, NEW k \in DOMAIN Ops, NEW m, NEW n,
         NEW bytes, Len(bytes) = Size(Ops[k]),
         Holds(m, Ops[k], bytes), \A c \in Covered(Ops[k]) : n[c] = m[c]
  PROVE  Holds(n, Ops[k], bytes)
  BY OperationLemma DEF Holds

\* What a write to one operation leaves alone.
LEMMA OthersKept ==
  ASSUME Invariant, Running, NEW j \in DOMAIN Ops, NEW k \in DOMAIN Ops, j # k,
         \A c \in Cell \ Covered(Ops[j]) : mem'[c] = mem[c],
         NEW bytes, Len(bytes) = Size(Ops[k]), Holds(mem, Ops[k], bytes)
  PROVE  Holds(mem', Ops[k], bytes)
  <1>1. \A c \in Covered(Ops[k]) : c \in Cell /\ c \notin Covered(Ops[j])
    BY OperationLemma, ApartLemma
  <1>2. \A c \in Covered(Ops[k]) : mem'[c] = mem[c]
    BY <1>1
  <1> QED
    BY <1>2, HoldsKept

\* What is loaded is what is held.
LEMMA LoadHolds ==
  ASSUME NEW op, NEW m, Size(op) \in Nat
  PROVE  Holds(m, op, Load(m, op))
  BY DEF Holds, Load

-----------------------------------------------------------------------------
(* Steadiness: one lemma per action.                                       *)

\* Before the first write only reading matters.
LEMMA SubmitSteady ==
  ASSUME NEW r \in Requests, Submit(r)
  PROVE  Steady'
  BY DEF Submit, Finish, Steady, OthersHoldOriginals, AppliedHoldReplacements,
         RestoredHoldOriginals, Running, Applying, RollingBack

LEMMA ValidateSteady ==
  ASSUME SteadyInvariant, Validate
  PROVE  Steady'
  <1>1. original = <<>> /\ original' = <<>>
    BY DEF SteadyInvariant, Invariant, Originals, Validate
  <1>2. Running' => pc' \in {"validate", "preflight"}
    BY DEF Validate, Finish, Running
  <1> QED
    BY <1>1, <1>2 DEF Steady, OthersHoldOriginals, AppliedHoldReplacements,
                      RestoredHoldOriginals, Applying, RollingBack

LEMMA PreflightSteady ==
  ASSUME SteadyInvariant, PreflightRead
  PROVE  Steady'
  <1>1. SUFFICES ASSUME Running', ~disturbed'
                 PROVE  OthersHoldOriginals' /\ AppliedHoldReplacements' /\ RestoredHoldOriginals'
    BY DEF Steady
  <1>2. /\ Running /\ attempted = <<>> /\ attempted' = <<>> /\ mem' = mem /\ Ops' = Ops
        /\ pc' \in {"preflight", "apply"}
    BY <1>1 DEF PreflightRead, Finish, Running, Ops, SteadyInvariant, Invariant, Attempts
  <1>3. AppliedHoldReplacements' /\ RestoredHoldOriginals'
    BY <1>2 DEF AppliedHoldReplacements, RestoredHoldOriginals, RollingBack
  <1>4. /\ original' = Append(original, Load(mem, Ops[i])) /\ original \in Seq(Seq(Byte))
        /\ i \in DOMAIN Ops /\ i \in Nat /\ Len(original) = i - 1
    BY <1>1 DEF PreflightRead, Finish, Running, SteadyInvariant, Invariant, TypeOK
  <1>5. ASSUME NEW k \in DOMAIN original'
        PROVE  Holds(mem, Ops[k], original'[k])
    <2>1. CASE k = i
      <3>1. Holds(mem, Ops[i], Load(mem, Ops[i]))
        BY <1>2, <1>4, OperationLemma, LoadHolds DEF SteadyInvariant
      <3>2. original'[i] = Load(mem, Ops[i])
        BY <1>4
      <3> QED
        BY <2>1, <3>1, <3>2
    <2>2. CASE k # i
      <3>1. k \in DOMAIN original /\ original'[k] = original[k]
        BY <1>4, <2>2
      <3>2. Unattempted(k) /\ ~disturbed
        BY <1>1, <1>2 DEF Unattempted, PreflightRead
      <3> QED
        BY <1>2, <3>1, <3>2 DEF SteadyInvariant, Steady, OthersHoldOriginals
    <2> QED
      BY <2>1, <2>2
  <1>6. OthersHoldOriginals'
    BY <1>2, <1>5 DEF OthersHoldOriginals
  <1> QED
    BY <1>3, <1>6

\* An operation is done and the apply loop goes on.
LEMMA NextOperationSteady ==
  ASSUME SteadyInvariant, Applying, NextOperation,
         UNCHANGED <<mem, disturbed, req, original, attempted>>,
         \A a \in DOMAIN attempted :
           attempted[a] < i \/ Holds(mem, Ops[attempted[a]], Ops[attempted[a]].replacement)
  PROVE  Steady'
  <1>1. SUFFICES ASSUME Running', ~disturbed'
                 PROVE  OthersHoldOriginals' /\ AppliedHoldReplacements' /\ RestoredHoldOriginals'
    BY DEF Steady
  <1>2. pc' = "apply" /\ Ops' = Ops
    BY <1>1 DEF NextOperation, Finish, Running, Ops
  <1>3. OthersHoldOriginals /\ AppliedHoldReplacements
    BY <1>1 DEF SteadyInvariant, Steady, Running, Applying
  <1>4. OthersHoldOriginals'
    BY <1>2, <1>3 DEF OthersHoldOriginals, Unattempted
  <1>5. AppliedHoldReplacements'
    BY <1>2, <1>3 DEF AppliedHoldReplacements
  <1> QED
    BY <1>2, <1>4, <1>5 DEF RestoredHoldOriginals, RollingBack

LEMMA ApplyVerifyOnlySteady ==
  ASSUME SteadyInvariant, ApplyVerifyOnly
  PROVE  Steady'
  <1>1. \A a \in DOMAIN attempted : attempted[a] < i
    BY DEF ApplyVerifyOnly, SteadyInvariant, Invariant, Attempts
  <1> QED
    BY <1>1, NextOperationSteady DEF ApplyVerifyOnly, Applying

LEMMA ApplyWriteSteady ==
  ASSUME SteadyInvariant, ApplyWrite
  PROVE  Steady'
  <1>1. SUFFICES ASSUME Running', ~disturbed'
                 PROVE  OthersHoldOriginals' /\ AppliedHoldReplacements' /\ RestoredHoldOriginals'
    BY DEF Steady
  <1>2. /\ Invariant /\ Running /\ Applying /\ i \in DOMAIN Ops /\ i \in Int
        /\ Ops' = Ops /\ original' = original
        /\ DOMAIN original = DOMAIN Ops
    BY AttemptLemma DEF ApplyWrite, SteadyInvariant, Invariant, TypeOK, Applying, Running, Ops
  <1>3. OthersHoldOriginals /\ AppliedHoldReplacements
    BY <1>1, <1>2 DEF ApplyWrite, SteadyInvariant, Steady
  <1>4. \A c \in Cell \ Covered(Ops[i]) : mem'[c] = mem[c]
    BY <1>2, ApplyWriteStores
  <1>5. /\ DOMAIN attempted' = 1..Len(attempted') /\ Len(attempted') = Len(attempted) + 1
        /\ DOMAIN attempted = 1..Len(attempted) /\ Len(attempted) \in Nat
        /\ attempted'[Len(attempted')] = i
        /\ \A a \in DOMAIN attempted : attempted'[a] = attempted[a]
    BY <1>2, AttemptLemma DEF ApplyWrite
  <1>6. OthersHoldOriginals'
    <2>1. ASSUME NEW k \in DOMAIN original, Unattempted(k)'
          PROVE  Holds(mem', Ops[k], original[k])
      <3>1. k # i /\ Unattempted(k)
        BY <1>5, <2>1 DEF Unattempted
      <3> QED
        BY <1>2, <1>3, <1>4, <3>1, OriginalLemma, OthersKept DEF OthersHoldOriginals
    <2> QED
      BY <1>2, <2>1 DEF OthersHoldOriginals
  <1>7. AppliedHoldReplacements'
    <2>1. SUFFICES ASSUME Applying', NEW a \in DOMAIN attempted', attempted'[a] < i'
                   PROVE  Holds(mem', Ops[attempted'[a]], Ops[attempted'[a]].replacement)
      BY <1>2 DEF AppliedHoldReplacements
    <2>2. i' = i
      BY <2>1 DEF ApplyWrite, StartRollback, Applying
    <2>3. a \in DOMAIN attempted /\ attempted'[a] = attempted[a] /\ attempted[a] # i
      BY <1>2, <1>5, <2>1, <2>2
    <2>4. Holds(mem, Ops[attempted[a]], Ops[attempted[a]].replacement)
      BY <1>2, <1>3, <2>1, <2>2, <2>3 DEF AppliedHoldReplacements
    <2>5. /\ attempted[a] \in DOMAIN Ops
          /\ Len(Ops[attempted[a]].replacement) = Size(Ops[attempted[a]])
      BY <1>2, <2>3, AttemptLemma, OperationLemma
    <2> QED
      BY <1>2, <1>4, <2>3, <2>4, <2>5, OthersKept
  <1>8. RestoredHoldOriginals'
    <2>1. RollingBack' => pc' = "restore" /\ i' = Len(attempted')
      BY DEF ApplyWrite, StartRollback, RollingBack
    <2> QED
      BY <1>5, <2>1 DEF RestoredHoldOriginals
  <1> QED
    BY <1>6, <1>7, <1>8

LEMMA ReadbackSteady ==
  ASSUME SteadyInvariant, Readback
  PROVE  Steady'
  <1>1. /\ Invariant /\ Applying /\ Running /\ i \in DOMAIN Ops /\ i \in Int
        /\ UNCHANGED <<mem, disturbed, req, original, attempted>>
    BY DEF Readback, SteadyInvariant, Invariant, TypeOK, Applying, Running
  <1>2. CASE Load(mem, Ops[i]) = Ops[i].replacement /\ NextOperation
    <2>1. ASSUME NEW a \in DOMAIN attempted
          PROVE  attempted[a] < i \/ attempted[a] = i
      <3>1. /\ attempted[Len(attempted)] = i
            /\ \A b, d \in DOMAIN attempted : b < d => attempted[b] < attempted[d]
        BY DEF Readback, SteadyInvariant, Invariant, Attempts
      <3>2. a \in 1..Len(attempted) /\ Len(attempted) \in DOMAIN attempted
        BY <1>1, AttemptLemma
      <3> QED
        BY <3>1, <3>2
    <2>2. Holds(mem, Ops[i], Ops[i].replacement)
      BY <1>1, <1>2, OperationLemma, LoadHolds
    <2> QED
      BY <1>1, <1>2, <2>1, <2>2, NextOperationSteady
  <1>3. CASE StartRollback(Len(attempted))
    <2>1. SUFFICES ASSUME Running', ~disturbed'
                   PROVE  /\ OthersHoldOriginals' /\ AppliedHoldReplacements'
                          /\ RestoredHoldOriginals'
      BY DEF Steady
    <2>2. pc' = "restore" /\ i' = Len(attempted) /\ Ops' = Ops
      BY <1>1, <1>3 DEF StartRollback, Ops
    <2>3. OthersHoldOriginals
      BY <1>1, <2>1 DEF SteadyInvariant, Steady
    <2>4. OthersHoldOriginals'
      BY <1>1, <2>2, <2>3 DEF OthersHoldOriginals, Unattempted
    <2>5. \A a \in DOMAIN attempted : ~(a > Len(attempted))
      BY <1>1, AttemptLemma
    <2> QED
      BY <1>1, <2>2, <2>4, <2>5 DEF AppliedHoldReplacements, RestoredHoldOriginals, Applying
  <1> QED
    BY <1>2, <1>3 DEF Readback

LEMMA RestoreSteady ==
  ASSUME SteadyInvariant, Restore
  PROVE  Steady'
  <1> DEFINE at == attempted[i]
  <1>1. SUFFICES ASSUME Running', ~disturbed'
                 PROVE  OthersHoldOriginals' /\ AppliedHoldReplacements' /\ RestoredHoldOriginals'
    BY DEF Steady
  <1>2. /\ Invariant /\ Running /\ RollingBack /\ pc = "restore"
        /\ i \in DOMAIN attempted /\ i \in Int /\ at \in DOMAIN Ops
        /\ Ops' = Ops /\ original' = original /\ attempted' = attempted
        /\ DOMAIN original = DOMAIN Ops
        /\ pc' \in {"restore", "recheck"}
    BY AttemptLemma
    DEF Restore, RestoreLoops, SteadyInvariant, Invariant, TypeOK, RollingBack, Running, Ops
  <1>3. OthersHoldOriginals /\ RestoredHoldOriginals
    BY <1>1, <1>2 DEF Restore, SteadyInvariant, Steady
  <1>4. \A c \in Cell \ Covered(Ops[at]) : mem'[c] = mem[c]
    BY <1>2, RestoreStores
  <1>5. OthersHoldOriginals'
    <2>1. ASSUME NEW k \in DOMAIN original, Unattempted(k)
          PROVE  Holds(mem', Ops[k], original[k])
      <3>1. k # at
        BY <1>2, <2>1 DEF Unattempted
      <3> HIDE DEF at
      <3> QED
        BY <1>2, <1>3, <1>4, <2>1, <3>1, OriginalLemma, OthersKept DEF OthersHoldOriginals
    <2> QED
      BY <1>2, <2>1 DEF OthersHoldOriginals, Unattempted
  <1>6. AppliedHoldReplacements'
    BY <1>2 DEF AppliedHoldReplacements, Applying
  <1>7. ASSUME restored', NEW a \in DOMAIN attempted, a >= i
        PROVE  Holds(mem', Ops[attempted[a]], original[attempted[a]])
    <2>1. WriteOk(Ops[at], original[at]) /\ restored
      BY <1>7 DEF Restore, RestoreBytes
    <2>2. CASE a = i
      <3>1. /\ ShapedOperation(Ops[at]) /\ original[at] \in Seq(Byte)
            /\ Len(original[at]) = Size(Ops[at])
        BY <1>2, RollbackLemma
      <3>2. mem \in [Cell -> Byte]
        BY <1>2 DEF Invariant, TypeOK
      <3> HIDE DEF at
      <3>3. \A n \in 1..Size(Ops[at]) : mem'[Ops[at].addr + n - 1] = original[at][n]
        BY <2>1, <3>1, <3>2, WriteLemma
      <3>4. Holds(mem', Ops[at], original[at])
        BY <3>1, <3>3 DEF Holds
      <3> QED
        BY <2>2, <3>4 DEF at
    <2>3. CASE a # i
      <3>1. a > i /\ attempted[a] \in DOMAIN Ops /\ attempted[a] \in Int /\ at \in Int
        BY <1>2, <1>7, <2>3, AttemptLemma DEF Invariant, TypeOK
      <3>2. at < attempted[a]
        BY <1>2, <1>7, <3>1 DEF Invariant, Attempts
      <3>3. Holds(mem, Ops[attempted[a]], original[attempted[a]])
        BY <1>2, <1>3, <1>7, <2>1, <3>1 DEF RestoredHoldOriginals
      <3>4. Len(original[attempted[a]]) = Size(Ops[attempted[a]])
        BY <1>2, <3>1, OriginalLemma
      <3>5. attempted[a] # at
        BY <3>1, <3>2
      <3> HIDE DEF at
      <3> QED
        BY <1>2, <1>4, <3>1, <3>3, <3>4, <3>5, OthersKept
    <2> QED
      BY <2>2, <2>3
  <1>8. RestoredHoldOriginals'
    <2>1. \A a \in DOMAIN attempted : pc' = "recheck" \/ a > i' => a >= i
      BY <1>2, AttemptLemma DEF Restore, RestoreLoops
    <2> QED
      BY <1>2, <1>7, <2>1 DEF RestoredHoldOriginals
  <1> QED
    BY <1>5, <1>6, <1>8

LEMMA RecheckSteady ==
  ASSUME SteadyInvariant, Recheck
  PROVE  Steady'
  <1>1. SUFFICES ASSUME Running', ~disturbed'
                 PROVE  OthersHoldOriginals' /\ AppliedHoldReplacements' /\ RestoredHoldOriginals'
    BY DEF Steady
  <1>2. /\ pc = "recheck" /\ pc' = "recheck" /\ Running
        /\ UNCHANGED <<mem, disturbed, original, attempted>> /\ Ops' = Ops
        /\ restored' => restored
    BY <1>1 DEF Recheck, Finish, Running, Ops
  <1>3. OthersHoldOriginals /\ RestoredHoldOriginals
    BY <1>1, <1>2 DEF SteadyInvariant, Steady
  <1> QED
    BY <1>2, <1>3 DEF OthersHoldOriginals, Unattempted, AppliedHoldReplacements, Applying,
                      RestoredHoldOriginals, RollingBack

\* A store that does not disturb the call is outside its ranges.
LEMMA GameWriteSteady ==
  ASSUME SteadyInvariant, GameWrite
  PROVE  Steady'
  <1>1. SUFFICES ASSUME Running', ~disturbed'
                 PROVE  OthersHoldOriginals' /\ AppliedHoldReplacements' /\ RestoredHoldOriginals'
    BY DEF Steady
  <1>2. /\ UNCHANGED <<pc, req, i, original, attempted, restored>> /\ Running /\ Ops' = Ops
        /\ Invariant
    BY <1>1 DEF GameWrite, engineVars, Running, Ops, SteadyInvariant
  <1>3. PICK g \in GameCells, b \in Byte :
          mem' = [mem EXCEPT ![g] = b] /\ ~disturbed /\ g \notin RequestCells(Ops)
    BY <1>1, <1>2 DEF GameWrite, Running
  <1>4. OthersHoldOriginals /\ AppliedHoldReplacements /\ RestoredHoldOriginals
    BY <1>2, <1>3 DEF SteadyInvariant, Steady
  <1>5. ASSUME NEW k \in DOMAIN Ops, NEW c \in Covered(Ops[k])
        PROVE  mem'[c] = mem[c]
    <2>1. c # g /\ c \in Cell
      BY <1>2, <1>3, OperationLemma DEF RequestCells
    <2> QED
      BY <1>2, <1>3, <2>1 DEF Invariant, TypeOK
  <1>6. ASSUME NEW k \in DOMAIN Ops, NEW bytes, Len(bytes) = Size(Ops[k]),
               Holds(mem, Ops[k], bytes)
        PROVE  Holds(mem', Ops[k], bytes)
    BY <1>2, <1>5, <1>6, HoldsKept
  <1>7. OthersHoldOriginals'
    BY <1>2, <1>4, <1>6, OriginalLemma DEF OthersHoldOriginals, Unattempted
  <1>8. AppliedHoldReplacements'
    <2>1. \A a \in DOMAIN attempted :
            /\ attempted[a] \in DOMAIN Ops
            /\ Len(Ops[attempted[a]].replacement) = Size(Ops[attempted[a]])
      BY <1>2, AttemptLemma, OperationLemma
    <2> QED
      BY <1>2, <1>4, <1>6, <2>1 DEF AppliedHoldReplacements, Applying
  <1>9. RestoredHoldOriginals'
    <2>1. RollingBack => \A a \in DOMAIN attempted :
            /\ attempted[a] \in DOMAIN Ops
            /\ Len(original[attempted[a]]) = Size(Ops[attempted[a]])
      BY <1>2, AttemptLemma, OriginalLemma
    <2> QED
      BY <1>2, <1>4, <1>6, <2>1 DEF RestoredHoldOriginals, RollingBack
  <1> QED
    BY <1>7, <1>8, <1>9

LEMMA SteadyStep ==
  ASSUME SteadyInvariant, [Next]_vars
  PROVE  SteadyInvariant'
  <1>1. Invariant'
    BY InvariantStep DEF SteadyInvariant
  <1>2. disturbed' \in BOOLEAN
    BY DEF SteadyInvariant, Next, Call, Engine, Submit, Validate, PreflightRead, ApplyVerifyOnly,
           ApplyWrite, Readback, Restore, Recheck, GameWrite, Reprotect, vars
  <1>3. CASE \E r \in Requests : Submit(r)
    BY <1>1, <1>2, <1>3, SubmitSteady DEF SteadyInvariant
  <1>4. CASE Engine
    BY <1>1, <1>2, <1>4, ValidateSteady, PreflightSteady, ApplyVerifyOnlySteady, ApplyWriteSteady,
       ReadbackSteady, RestoreSteady, RecheckSteady DEF Engine, SteadyInvariant
  <1>5. CASE GameWrite
    BY <1>1, <1>2, <1>5, GameWriteSteady DEF SteadyInvariant
  <1>6. CASE Reprotect \/ UNCHANGED vars
    <2>1. UNCHANGED <<mem, disturbed, engineVars>>
      BY <1>6 DEF Reprotect, vars
    <2> QED
      BY <1>1, <1>2, <2>1
      DEF SteadyInvariant, Steady, OthersHoldOriginals, Unattempted, AppliedHoldReplacements,
          RestoredHoldOriginals, Running, Applying, RollingBack, Ops, engineVars
  <1> QED
    BY <1>3, <1>4, <1>5, <1>6 DEF Next, Call

LEMMA SteadyHolds == Spec => []SteadyInvariant
  <1>1. Init => SteadyInvariant
    BY InitInvariant DEF Init, SteadyInvariant, Steady, Running
  <1>2. SteadyInvariant /\ [Next]_vars => SteadyInvariant'
    BY SteadyStep
  <1> QED
    BY <1>1, <1>2, PTL DEF Spec

-----------------------------------------------------------------------------
(* The memory a caller observes.                                           *)

\* Where a write was attempted it is the original, elsewhere the memory itself.
LEMMA ObservedOutside ==
  ASSUME NEW c \in Cell, c \notin AttemptedCells
  PROVE  ObservedMemory[c] = mem[c]
  BY DEF ObservedMemory

LEMMA OriginalByteLemma ==
  ASSUME Invariant, Running, NEW k \in DOMAIN Ops, NEW c \in Covered(Ops[k])
  PROVE  OriginalByte(c) = original[k][c - Ops[k].addr + 1]
  <1>1. \A j \in DOMAIN Ops : c \in Covered(Ops[j]) => j = k
    BY ApartLemma
  <1>2. (CHOOSE j \in DOMAIN Ops : c \in Covered(Ops[j])) = k
    BY <1>1
  <1> QED
    BY <1>2 DEF OriginalByte

LEMMA ObservedAttempted ==
  ASSUME Invariant, Running, NEW k \in DOMAIN Ops, NEW c \in Covered(Ops[k]),
         c \in AttemptedCells
  PROVE  ObservedMemory[c] = original[k][c - Ops[k].addr + 1]
  <1>1. c \in Cell
    BY OperationLemma
  <1> QED
    BY <1>1, OriginalByteLemma DEF ObservedMemory

\* The cells of an attempt are cells of a write.
LEMMA AttemptedAreWrites ==
  ASSUME Invariant
  PROVE  AttemptedCells \subseteq WriteCells(Ops) /\ WriteCells(Ops) \subseteq RequestCells(Ops)
  BY AttemptLemma DEF AttemptedCells, WriteCells, RequestCells

\* The ranges of AtomicTransaction are those of the engine.
LEMMA SameRanges ==
  /\ Atomic!Guarded(Atomic!Writes) = WriteCells(Ops)
  /\ Atomic!Guarded(DOMAIN Ops) = RequestCells(Ops)
  BY DEF Atomic!Guarded, Atomic!Writes, Atomic!CellsOf, WriteCells, RequestCells, Covered, Size

\* While a call runs, stores to what it has attempted are not observed.
LEMMA ObservedKept ==
  ASSUME Running, Running', Ops' = Ops, original' = original, attempted' = attempted,
         \A c \in Cell \ AttemptedCells : mem'[c] = mem[c]
  PROVE  ObservedMemory' = ObservedMemory
  <1>1. AttemptedCells' = AttemptedCells
    BY DEF AttemptedCells
  <1>2. \A c \in Cell : OriginalByte(c)' = OriginalByte(c)
    BY DEF OriginalByte
  <1> QED
    BY <1>1, <1>2 DEF ObservedMemory

\* Before the first attempt, and when no call runs, it is the memory itself.
LEMMA ObservedPlain ==
  /\ attempted = <<>> \/ ~Running => ObservedMemory = [c \in Cell |-> mem[c]]
  /\ attempted' = <<>> \/ ~Running' => ObservedMemory' = [c \in Cell |-> mem'[c]]
  BY DEF ObservedMemory, AttemptedCells

\* What an undisturbed call observes at its end: every expected byte.
LEMMA ExpectedLemma ==
  ASSUME SteadyInvariant, Applying \/ RollingBack, ~disturbed
  PROVE  Atomic!AllExpected
  <1>1. Invariant /\ Running /\ OthersHoldOriginals
    BY DEF SteadyInvariant, Steady, Running, Applying, RollingBack
  <1>2. ASSUME NEW k \in DOMAIN Ops, NEW n \in 1..Len(Ops[k].expected)
        PROVE  ObservedMemory[Ops[k].addr + n - 1] = Ops[k].expected[n]
    <2> DEFINE c == Ops[k].addr + n - 1
    <2>1. /\ k \in DOMAIN original /\ original[k] = Ops[k].expected
          /\ c \in Covered(Ops[k]) /\ c \in Cell /\ c - Ops[k].addr + 1 = n
      BY <1>1, AttemptLemma, OperationLemma DEF Size
    <2>2. CASE c \in AttemptedCells
      <3> HIDE DEF c
      <3> QED
        BY <1>1, <2>1, <2>2, ObservedAttempted DEF c
    <2>3. CASE c \notin AttemptedCells
      <3>1. Unattempted(k)
        BY <2>1, <2>3 DEF Unattempted, AttemptedCells
      <3>2. mem[c] = original[k][n]
        BY <1>1, <2>1, <3>1 DEF OthersHoldOriginals, Holds
      <3> QED
        BY <2>1, <2>3, <3>2, ObservedOutside
    <2> QED
      BY <2>2, <2>3
  <1> QED
    BY <1>2 DEF Atomic!AllExpected, Atomic!Holds

\* A call that ends after its preflight leaves everything but its writes alone.
LEMMA ReturnKeepsRest ==
  ASSUME Invariant, ~Running', mem' = mem
  PROVE  Atomic!Only(Atomic!Guarded(Atomic!Writes))
  <1>1. ASSUME NEW c \in Cell \ WriteCells(Ops)
        PROVE  ObservedMemory'[c] = ObservedMemory[c]
    BY ObservedPlain, ObservedOutside, AttemptedAreWrites
  <1> QED
    BY <1>1, SameRanges DEF Atomic!Only

-----------------------------------------------------------------------------
(* Refinement: one lemma per action.                                       *)

\* What AtomicTransaction may do in one step.
AtomicStep == [Atomic!Next]_(Atomic!vars)

LEMMA StutterRefines ==
  ASSUME ObservedMemory' = ObservedMemory, Running' = Running,
         Ops' = Ops, code' = code, disturbed' = disturbed
  PROVE  AtomicStep
  BY DEF AtomicStep, Atomic!vars

LEMMA SubmitRefines ==
  ASSUME NEW r \in Requests, Submit(r)
  PROVE  AtomicStep
  <1>1. ~Running /\ attempted' = <<>> /\ mem' = mem /\ Ops' = r.ops /\ disturbed' = FALSE
    BY DEF Submit, Running, Ops
  <1>2. ObservedMemory' = ObservedMemory
    BY <1>1, ObservedPlain
  <1>3. \/ Running' = TRUE /\ code' = "none"
        \/ Running' = FALSE /\ code' \in RejectCodes
    BY ShapeErrorsLemma DEF Submit, Finish, Running
  <1>4. Atomic!Call
    BY <1>1, <1>2, <1>3 DEF Atomic!Call
  <1> QED
    BY <1>4 DEF AtomicStep, Atomic!Next

\* A rejection after the shape checks: nothing was attempted.
LEMMA RejectRefines ==
  ASSUME Running, attempted = <<>>, NEW c \in RejectCodes, Finish(c),
         mem' = mem, disturbed' = disturbed, req' = req, attempted' = attempted
  PROVE  AtomicStep
  <1>1. ObservedMemory' = ObservedMemory
    BY ObservedPlain
  <1>2. Atomic!End(c)
    BY DEF Atomic!End, Finish, Running, Ops
  <1>3. Atomic!Reject
    BY <1>1, <1>2 DEF Atomic!Reject
  <1> QED
    BY <1>3 DEF AtomicStep, Atomic!Next

LEMMA ValidateRefines ==
  ASSUME SteadyInvariant, Validate
  PROVE  AtomicStep
  <1>1. /\ Running /\ attempted = <<>>
        /\ UNCHANGED <<mem, disturbed, req, original, attempted>>
    BY DEF Validate, Running, SteadyInvariant, Invariant, Attempts
  <1>2. CASE Finish("invalid_memory_range")
    BY <1>1, <1>2, RejectRefines DEF RejectCodes
  <1>3. CASE pc' \in {"validate", "preflight"} /\ code' = code
    <2>1. ObservedMemory' = ObservedMemory
      BY <1>1, ObservedPlain
    <2> QED
      BY <1>1, <1>3, <2>1, StutterRefines DEF Running, Ops
  <1> QED
    BY <1>2, <1>3 DEF Validate

LEMMA PreflightRefines ==
  ASSUME SteadyInvariant, PreflightRead
  PROVE  AtomicStep
  <1>1. /\ Running /\ attempted = <<>>
        /\ UNCHANGED <<mem, disturbed, req, attempted>>
    BY DEF PreflightRead, Running, SteadyInvariant, Invariant, Attempts
  <1>2. CASE Finish("preflight_read_failed") \/ Finish("expected_mismatch")
    BY <1>1, <1>2, RejectRefines DEF RejectCodes
  <1>3. CASE pc' \in {"preflight", "apply"} /\ code' = code
    <2>1. ObservedMemory' = ObservedMemory
      BY <1>1, ObservedPlain
    <2> QED
      BY <1>1, <1>3, <2>1, StutterRefines DEF Running, Ops
  <1> QED
    BY <1>2, <1>3 DEF PreflightRead

\* The end of one turn of the apply loop: the last one replaces every range.
LEMMA NextOperationRefines ==
  ASSUME SteadyInvariant, Applying, NextOperation,
         UNCHANGED <<mem, disturbed, req, original, attempted>>,
         Ops[i].kind = "write" => Holds(mem, Ops[i], Ops[i].replacement)
  PROVE  AtomicStep
  <1>1. Invariant /\ Running /\ Ops' = Ops /\ i \in DOMAIN Ops /\ DOMAIN Ops = 1..Len(Ops)
    BY LoopLemma DEF SteadyInvariant, Invariant, Running, Applying, Ops
  <1>2. CASE pc' = "apply" /\ code' = code
    <2>1. Running'
      BY <1>2 DEF Running
    <2>2. ObservedMemory' = ObservedMemory
      BY <1>1, <2>1, ObservedKept
    <2> QED
      BY <1>1, <1>2, <2>1, <2>2, StutterRefines
  <1>3. CASE i = Len(Ops) /\ Finish("applied_verified")
    <2>1. ~Running' /\ Atomic!End("applied_verified")
      BY <1>1, <1>3 DEF Finish, Running, Atomic!End
    <2>2. Atomic!Only(Atomic!Guarded(Atomic!Writes))
      BY <1>1, <2>1, ReturnKeepsRest
    <2>3. CASE disturbed
      <3>1. Atomic!EndDisturbed
        BY <2>1, <2>2, <2>3 DEF Atomic!EndDisturbed
      <3> QED
        BY <3>1 DEF AtomicStep, Atomic!Next
    <2>4. CASE ~disturbed
      <3>1. Atomic!AllExpected
        BY <2>4, ExpectedLemma
      <3>2. ASSUME NEW k \in DOMAIN Ops, Ops[k].kind = "write"
            PROVE  Holds(mem, Ops[k], Ops[k].replacement)
        <4>1. CASE k = i
          BY <3>2, <4>1
        <4>2. CASE k # i
          <5>1. k < i
            BY <1>1, <1>3, <4>2
          <5>2. results[k].applied
            BY <3>2, <5>1 DEF SteadyInvariant, Invariant, Flags
          <5>3. PICK a \in DOMAIN attempted : attempted[a] = k
            BY <5>2 DEF SteadyInvariant, Invariant, Flags, Marked
          <5>4. AppliedHoldReplacements
            BY <1>1, <2>4 DEF SteadyInvariant, Steady
          <5> QED
            BY <5>1, <5>3, <5>4 DEF AppliedHoldReplacements
        <4> QED
          BY <4>1, <4>2
      <3>3. ASSUME NEW k \in DOMAIN Ops, Ops[k].kind = "write",
                   NEW n \in 1..Len(Ops[k].replacement)
            PROVE  ObservedMemory'[Ops[k].addr + n - 1] = Ops[k].replacement[n]
        <4>1. Ops[k].addr + n - 1 \in Cell
          BY <1>1, <3>3, OperationLemma
        <4>2. mem[Ops[k].addr + n - 1] = Ops[k].replacement[n]
          BY <3>2, <3>3 DEF Holds
        <4> QED
          BY <2>1, <4>1, <4>2, ObservedPlain
      <3>4. Atomic!Apply
        BY <2>1, <2>2, <2>4, <3>1, <3>3 DEF Atomic!Apply, Atomic!Writes, Atomic!Holds
      <3> QED
        BY <3>4 DEF AtomicStep, Atomic!Next
    <2> QED
      BY <2>3, <2>4
  <1> QED
    BY <1>2, <1>3 DEF NextOperation

LEMMA ApplyVerifyOnlyRefines ==
  ASSUME SteadyInvariant, ApplyVerifyOnly
  PROVE  AtomicStep
  BY NextOperationRefines DEF ApplyVerifyOnly, Applying

\* From its attempt on a write is not observed; only a disturbed call may show
\* that its range had changed in between.
LEMMA ApplyWriteRefines ==
  ASSUME SteadyInvariant, ApplyWrite
  PROVE  AtomicStep
  <1>1. /\ Invariant /\ Running /\ Applying /\ i \in DOMAIN Ops /\ i \in Int
        /\ Ops' = Ops /\ original' = original /\ disturbed' = disturbed /\ code' = code
        /\ DOMAIN original = DOMAIN Ops
        /\ pc' \in {"readback", "restore"} /\ Running'
    BY AttemptLemma
    DEF ApplyWrite, StartRollback, SteadyInvariant, Invariant, TypeOK, Applying, Running, Ops
  <1>2. \A c \in Cell \ Covered(Ops[i]) : mem'[c] = mem[c]
    BY <1>1, ApplyWriteStores
  <1>3. AttemptedCells' = AttemptedCells \cup Covered(Ops[i])
    <2>1. /\ DOMAIN attempted' = 1..(Len(attempted) + 1)
          /\ DOMAIN attempted = 1..Len(attempted) /\ Len(attempted) \in Nat
          /\ attempted'[Len(attempted) + 1] = i
          /\ \A a \in DOMAIN attempted : attempted'[a] = attempted[a]
      BY <1>1, AttemptLemma DEF ApplyWrite
    <2>2. \A a \in DOMAIN attempted' : a \in DOMAIN attempted \/ a = Len(attempted) + 1
      BY <2>1
    <2>3. DOMAIN attempted \subseteq DOMAIN attempted' /\ Len(attempted) + 1 \in DOMAIN attempted'
      BY <2>1
    <2> QED
      BY <1>1, <2>1, <2>2, <2>3 DEF AttemptedCells
  <1>4. \A c \in Cell : OriginalByte(c)' = OriginalByte(c)
    BY <1>1 DEF OriginalByte
  <1>5. ASSUME NEW c \in Cell \ Covered(Ops[i])
        PROVE  ObservedMemory'[c] = ObservedMemory[c]
    BY <1>1, <1>2, <1>3, <1>4 DEF ObservedMemory
  <1>6. CASE disturbed
    <2>1. Covered(Ops[i]) \subseteq RequestCells(Ops)
      BY <1>1 DEF RequestCells
    <2>2. Atomic!Only(Atomic!Guarded(DOMAIN Ops))
      BY <1>5, <2>1, SameRanges DEF Atomic!Only
    <2>3. Atomic!Disturb
      BY <1>1, <1>6, <2>2 DEF Atomic!Disturb
    <2> QED
      BY <2>3 DEF AtomicStep, Atomic!Next
  <1>7. CASE ~disturbed
    <2>1. Unattempted(i) /\ Holds(mem, Ops[i], original[i])
      <3>1. \A a \in DOMAIN attempted : attempted[a] < i
        BY DEF ApplyWrite, SteadyInvariant, Invariant, Attempts
      <3>2. Unattempted(i)
        BY <1>1, <3>1 DEF Unattempted
      <3> QED
        BY <1>1, <1>7, <3>2 DEF SteadyInvariant, Steady, OthersHoldOriginals
    <2>2. ASSUME NEW c \in Covered(Ops[i])
          PROVE  ObservedMemory'[c] = ObservedMemory[c]
      <3>1. c \in Cell /\ c \notin AttemptedCells
        <4>1. \A a \in DOMAIN attempted : attempted[a] \in DOMAIN Ops /\ attempted[a] # i
          BY <1>1, <2>1, AttemptLemma DEF Unattempted
        <4>2. \A a \in DOMAIN attempted : c \notin Covered(Ops[attempted[a]])
          BY <1>1, <4>1, ApartLemma
        <4> QED
          BY <1>1, <4>2, OperationLemma DEF AttemptedCells
      <3>2. ObservedMemory'[c] = OriginalByte(c)
        BY <1>1, <1>3, <1>4, <3>1 DEF ObservedMemory
      <3>3. OriginalByte(c) = original[i][c - Ops[i].addr + 1]
        BY <1>1, OriginalByteLemma
      <3>4. mem[c] = original[i][c - Ops[i].addr + 1]
        <4> DEFINE n == c - Ops[i].addr + 1
        <4>1. Len(original[i]) = Size(Ops[i])
          BY <1>1, OriginalLemma
        <4>2. n \in 1..Len(original[i]) /\ Ops[i].addr + n - 1 = c
          BY <1>1, <4>1, OperationLemma DEF Covered
        <4>3. mem[Ops[i].addr + n - 1] = original[i][n]
          BY <2>1, <4>2 DEF Holds
        <4> QED
          BY <4>2, <4>3
      <3> QED
        BY <3>1, <3>2, <3>3, <3>4, ObservedOutside
    <2>3. \A c \in Cell : ObservedMemory'[c] = ObservedMemory[c]
      BY <1>5, <2>2
    <2>4. ObservedMemory' = ObservedMemory
      BY <2>3 DEF ObservedMemory
    <2> QED
      BY <1>1, <2>4, StutterRefines
  <1> QED
    BY <1>6, <1>7

LEMMA ReadbackRefines ==
  ASSUME SteadyInvariant, Readback
  PROVE  AtomicStep
  <1>1. /\ Invariant /\ Applying /\ Running /\ i \in DOMAIN Ops /\ Ops' = Ops
        /\ UNCHANGED <<mem, disturbed, req, original, attempted>>
    BY DEF Readback, SteadyInvariant, Invariant, TypeOK, Applying, Running, Ops
  <1>2. CASE Load(mem, Ops[i]) = Ops[i].replacement /\ NextOperation
    <2>1. Holds(mem, Ops[i], Ops[i].replacement)
      BY <1>1, <1>2, OperationLemma, LoadHolds
    <2> QED
      BY <1>1, <1>2, <2>1, NextOperationRefines
  <1>3. CASE StartRollback(Len(attempted))
    <2>1. Running' /\ code' = code
      BY <1>3 DEF StartRollback, Running
    <2>2. ObservedMemory' = ObservedMemory
      BY <1>1, <2>1, ObservedKept
    <2> QED
      BY <1>1, <2>1, <2>2, StutterRefines
  <1> QED
    BY <1>2, <1>3 DEF Readback

LEMMA RestoreRefines ==
  ASSUME SteadyInvariant, Restore
  PROVE  AtomicStep
  <1>1. /\ Invariant /\ Running /\ Running' /\ Ops' = Ops /\ i \in DOMAIN attempted
        /\ UNCHANGED <<disturbed, original, attempted, code>>
    BY DEF Restore, RestoreLoops, SteadyInvariant, Invariant, TypeOK, RollingBack, Running, Ops
  <1>2. \A c \in Cell \ AttemptedCells : mem'[c] = mem[c]
    BY <1>1, RestoreStores DEF AttemptedCells
  <1>3. ObservedMemory' = ObservedMemory
    BY <1>1, <1>2, ObservedKept
  <1> QED
    BY <1>1, <1>3, StutterRefines

\* The end of a rollback: verified, nothing has changed; otherwise only the
\* ranges of the writes have.
LEMMA RecheckRefines ==
  ASSUME SteadyInvariant, Recheck
  PROVE  AtomicStep
  <1>1. /\ Invariant /\ Running /\ RollingBack /\ pc = "recheck" /\ Ops' = Ops
        /\ UNCHANGED <<mem, disturbed, original, attempted>>
        /\ restored' => restored
    BY DEF Recheck, SteadyInvariant, Running, RollingBack, Ops
  <1>2. CASE pc' = pc /\ code' = code
    <2>1. Running'
      BY <1>1, <1>2 DEF Running
    <2>2. ObservedMemory' = ObservedMemory
      BY <1>1, <2>1, ObservedKept
    <2> QED
      BY <1>1, <1>2, <2>1, <2>2, StutterRefines
  <1>3. CASE Finish(IF restored' THEN "rolled_back_verified" ELSE "rollback_unverified")
    <2>1. ~Running' /\ Atomic!End(code')
      BY <1>1, <1>3 DEF Finish, Running, Atomic!End
    <2>2. /\ restored' => code' = "rolled_back_verified"
          /\ ~restored' => code' = "rollback_unverified"
      BY <1>3 DEF Finish
    <2>3. Atomic!Only(Atomic!Guarded(Atomic!Writes))
      BY <1>1, <2>1, ReturnKeepsRest
    <2>4. CASE disturbed
      <3>1. Atomic!EndDisturbed
        BY <2>1, <2>2, <2>3, <2>4 DEF Atomic!EndDisturbed
      <3> QED
        BY <3>1 DEF AtomicStep, Atomic!Next
    <2>5. CASE ~disturbed /\ ~restored'
      <3>1. Atomic!Damage
        BY <1>1, <2>1, <2>2, <2>3, <2>5, ExpectedLemma DEF Atomic!Damage
      <3> QED
        BY <3>1 DEF AtomicStep, Atomic!Next
    <2>6. CASE ~disturbed /\ restored'
      <3>1. RestoredHoldOriginals
        BY <1>1, <2>6 DEF SteadyInvariant, Steady
      <3>2. ASSUME NEW c \in AttemptedCells
            PROVE  c \in Cell /\ ObservedMemory[c] = mem[c]
        <4>1. PICK a \in DOMAIN attempted : c \in Covered(Ops[attempted[a]])
          BY DEF AttemptedCells
        <4> DEFINE k == attempted[a]
                   n == c - Ops[k].addr + 1
        <4>2. k \in DOMAIN Ops /\ Holds(mem, Ops[k], original[k])
          BY <1>1, <2>6, <3>1, AttemptLemma DEF RestoredHoldOriginals
        <4>3. k \in DOMAIN original /\ Len(original[k]) = Size(Ops[k])
          BY <1>1, <4>2, AttemptLemma, OriginalLemma
        <4> HIDE DEF k
        <4>4. c \in Covered(Ops[k])
          BY <4>1 DEF k
        <4>5. n \in 1..Len(original[k]) /\ Ops[k].addr + n - 1 = c /\ c \in Cell
          BY <1>1, <4>2, <4>3, <4>4, OperationLemma DEF Covered
        <4>6. mem[Ops[k].addr + n - 1] = original[k][n]
          BY <4>2, <4>5 DEF Holds
        <4>7. ObservedMemory[c] = original[k][n]
          BY <1>1, <4>2, <4>4, ObservedAttempted
        <4> QED
          BY <4>5, <4>6, <4>7
      <3>3. \A c \in Cell : ObservedMemory'[c] = ObservedMemory[c]
        BY <1>1, <2>1, <3>2, ObservedPlain, ObservedOutside
      <3>4. ObservedMemory' = ObservedMemory
        BY <3>3 DEF ObservedMemory
      <3>5. Atomic!Abort
        BY <1>1, <2>1, <2>2, <2>6, <3>4, ExpectedLemma DEF Atomic!Abort
      <3> QED
        BY <3>5 DEF AtomicStep, Atomic!Next
    <2> QED
      BY <2>4, <2>5, <2>6
  <1> QED
    BY <1>2, <1>3 DEF Recheck

LEMMA GameWriteRefines ==
  ASSUME SteadyInvariant, GameWrite
  PROVE  AtomicStep
  <1>1. /\ UNCHANGED <<pc, original, attempted, code>> /\ Ops' = Ops
        /\ Running' = Running /\ Invariant /\ disturbed \in BOOLEAN
    BY DEF GameWrite, engineVars, Running, Ops, SteadyInvariant
  <1>2. PICK g \in GameCells, b \in Byte :
          /\ mem' = [mem EXCEPT ![g] = b]
          /\ disturbed' = (disturbed \/ (Running /\ g \in RequestCells(Ops)))
    BY DEF GameWrite, Running
  <1>3. mem \in [Cell -> Byte] /\ g \in Cell
    BY <1>1, EnvironmentAssumption DEF Invariant, TypeOK
  <1>4. AttemptedCells' = AttemptedCells /\ \A c \in Cell : OriginalByte(c)' = OriginalByte(c)
    BY <1>1 DEF AttemptedCells, OriginalByte
  <1>5. \A c \in Cell : c # g => ObservedMemory'[c] = ObservedMemory[c]
    BY <1>1, <1>2, <1>3, <1>4 DEF ObservedMemory
  <1>6. CASE Running /\ g \in RequestCells(Ops)
    <2>1. Atomic!Only(Atomic!Guarded(DOMAIN Ops))
      BY <1>5, <1>6, SameRanges DEF Atomic!Only
    <2>2. Atomic!Disturb
      BY <1>1, <1>2, <1>6, <2>1 DEF Atomic!Disturb
    <2> QED
      BY <2>2 DEF AtomicStep, Atomic!Next
  <1>7. CASE ~(Running /\ g \in RequestCells(Ops))
    <2>1. disturbed' = disturbed
      BY <1>1, <1>2, <1>7
    <2>2. ObservedMemory'[g] = b
      BY <1>1, <1>2, <1>3, <1>4, <1>7, AttemptedAreWrites DEF ObservedMemory
    <2>3. ObservedMemory' = [ObservedMemory EXCEPT ![g] = b]
      <3>1. DOMAIN ObservedMemory = Cell
        BY DEF ObservedMemory
      <3>2. ObservedMemory' = [c \in Cell |-> ObservedMemory'[c]]
        BY DEF ObservedMemory
      <3> QED
        BY <1>3, <1>5, <2>2, <3>1, <3>2
    <2>4. Running => g \notin Atomic!Guarded(DOMAIN Ops)
      BY <1>7, SameRanges
    <2>5. Atomic!Game
      BY <1>1, <2>1, <2>3, <2>4 DEF Atomic!Game
    <2> QED
      BY <2>5 DEF AtomicStep, Atomic!Next
  <1> QED
    BY <1>6, <1>7

LEMMA OtherRefines ==
  ASSUME UNCHANGED <<mem, disturbed, engineVars>>
  PROVE  AtomicStep
  <1>1. Ops' = Ops /\ Running' = Running /\ code' = code /\ disturbed' = disturbed
    BY DEF engineVars, Ops, Running
  <1>2. AttemptedCells' = AttemptedCells /\ \A c \in Cell : OriginalByte(c)' = OriginalByte(c)
    BY <1>1 DEF AttemptedCells, OriginalByte, engineVars
  <1>3. ObservedMemory' = ObservedMemory
    BY <1>1, <1>2 DEF ObservedMemory
  <1> QED
    BY <1>1, <1>3, StutterRefines

LEMMA StepRefines ==
  ASSUME SteadyInvariant, [Next]_vars
  PROVE  AtomicStep
  <1>1. CASE \E r \in Requests : Submit(r)
    BY <1>1, SubmitRefines
  <1>2. CASE Engine
    BY <1>2, ValidateRefines, PreflightRefines, ApplyVerifyOnlyRefines, ApplyWriteRefines,
       ReadbackRefines, RestoreRefines, RecheckRefines DEF Engine
  <1>3. CASE GameWrite
    BY <1>3, GameWriteRefines
  <1>4. CASE Reprotect \/ UNCHANGED vars
    BY <1>4, OtherRefines DEF Reprotect, vars
  <1> QED
    BY <1>1, <1>2, <1>3, <1>4 DEF Next, Call

-----------------------------------------------------------------------------
(* The theorem.                                                            *)

\* RunTransaction implements the all-or-nothing write, whatever the request, the
\* page protections and the game do: an undisturbed call replaces every written
\* range at once with every guard in place, or changes nothing, or says that its
\* rollback could not be verified; a rejected one stores nothing at all; and no
\* call changes a byte outside its writes (docs/safety.md, "Runtime write gates").
THEOREM EngineIsAtomic == Spec => ImplementsAtomic
  <1>1. Init => Atomic!Init
    <2> SUFFICES ASSUME Init
                 PROVE  Atomic!Init
      OBVIOUS
    <2>1. Running = FALSE /\ Ops = <<>> /\ mem \in [Cell -> Byte]
      BY DEF Init, Running, Ops
    <2>2. ObservedMemory \in [Cell -> Byte]
      BY <2>1, ObservedPlain
    <2> QED
      BY <2>1, <2>2 DEF Init, Atomic!Init
  <1>2. SteadyInvariant /\ [Next]_vars => [Atomic!Next]_(Atomic!vars)
    BY StepRefines DEF AtomicStep
  <1> QED
    BY <1>1, <1>2, SteadyHolds, PTL DEF Spec, ImplementsAtomic, Atomic!Spec

=============================================================================
