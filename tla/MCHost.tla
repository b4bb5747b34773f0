------------------------------- MODULE MCHost -------------------------------
(* Values for the constants of Host that a configuration cannot write down.   *)
EXTENDS Host, TLC

(* Three tables in a chain of relationships, so that a quarantine has to      *)
(* spread twice, and two profiles.                                            *)
CONSTANTS A, B, C

Tables == {A, B, C}
Chain == [t \in Tables |-> IF t = A THEN {B} ELSE IF t = B THEN {C} ELSE {}]
TwoProfiles == {{A, B, C}, {C}}

(* Three names that may be sent and one that may not; a scalar of one byte,   *)
(* one of four, and one that cannot be sent (not finite, a function, too      *)
(* long).  Three tables, which are empty at first, or hold one another: a     *)
(* chain as deep as is allowed, a table that two entries share, and a full    *)
(* object and a full array one level down.                                    *)
CONSTANTS speed, note, yards, address, t1, t2, t3

Names == {speed, note, yards, address}
BytesOfNames == [k \in Names |-> IF k = speed THEN 3 ELSE 2]
Scalars == {[kind |-> "scalar", bytes |-> b, sound |-> TRUE] : b \in {1, 4}} \cup
           {[kind |-> "scalar", bytes |-> 1, sound |-> FALSE]}
One == [kind |-> "scalar", bytes |-> 1, sound |-> TRUE]
Four == [kind |-> "scalar", bytes |-> 4, sound |-> TRUE]
Heap(first, second, third) ==
  [t \in {t1, t2, t3} |-> IF t = t1 THEN first ELSE IF t = t2 THEN second ELSE third]
Bare == [k \in {} |-> One]
SomeHeaps ==
  { Heap(Bare, Bare, Bare),
    Heap(speed :> t2 @@ note :> Four, 1 :> One @@ 2 :> One, Bare),
    Heap(speed :> t2 @@ note :> t2, 1 :> One, note :> t1),
    Heap(1 :> t2 @@ 2 :> t3, speed :> One @@ note :> One, 1 :> Four @@ 2 :> One) }
=============================================================================
