------------------------- MODULE MCMemoryTransaction -------------------------
(* Small instances of MemoryTransaction: four usable cells and a guard cell    *)
(* at the top of the address space; two-byte operations, so that a failed      *)
(* write can stop between two bytes.                                           *)
EXTENDS MemoryTransaction

WriteOp(a, e, n) == [addr |-> a, kind |-> "write", expected |-> e, replacement |-> n]
GuardOp(a, e) == [addr |-> a, kind |-> "verify_only", expected |-> e, replacement |-> <<>>]
Request(ops) == [id |-> "tx", ops |-> ops]

\* Two writes around a guard, and one write that changes nothing.
TwoWrites == Request(<<WriteOp(0, <<0, 0>>, <<1, 1>>), GuardOp(2, <<0>>), WriteOp(3, <<0>>, <<1>>)>>)
GuardLast == Request(<<WriteOp(2, <<0, 0>>, <<1, 0>>), WriteOp(1, <<0>>, <<1>>), GuardOp(0, <<0>>)>>)

\* One request for each check the shape loop makes.
ShapeRequests ==
  { [id |-> "bad id", ops |-> <<GuardOp(0, <<0>>)>>],
    Request(<<>>),
    Request(<<GuardOp(0, <<0>>), GuardOp(1, <<0>>), GuardOp(2, <<0>>), GuardOp(3, <<0>>)>>),
    Request(<<WriteOp(0, <<0, 0>>, <<1>>)>>),
    Request(<<WriteOp(0, <<>>, <<>>)>>),
    Request(<<WriteOp(0, <<0, 0, 0>>, <<1, 1, 1>>)>>),
    Request(<<[GuardOp(0, <<0>>) EXCEPT !.replacement = <<1>>]>>),
    Request(<<WriteOp(0, <<0, 0>>, <<1, 1>>), WriteOp(2, <<0, 0>>, <<1, 1>>), GuardOp(1, <<0>>)>>),
    Request(<<GuardOp(NoAddress, <<0>>)>>),
    Request(<<WriteOp(3, <<0, 0>>, <<1, 1>>)>>),
    Request(<<WriteOp(0, <<0, 0>>, <<1, 1>>), WriteOp(1, <<0, 0>>, <<1, 1>>)>>),
    Request(<<WriteOp(2, <<0>>, <<1>>), WriteOp(0, <<0>>, <<1>>), GuardOp(2, <<0>>)>>) }

AllRequests == {TwoWrites, GuardLast} \cup ShapeRequests

AllWritable == {[c \in Cell |-> "write"]}
\* Every cell writable at first, or the guard cell read-only.
SomeReadOnly == AllWritable \cup {[c \in Cell |-> IF c = 2 THEN "read" ELSE "write"]}
=============================================================================
