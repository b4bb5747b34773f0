------------------------ MODULE MCClassReplacement ------------------------
(* Four records in batches of two, one of them as the plan wants it already. *)
EXTENDS ClassReplacement

Content(e, r) == [edited |-> e, rest |-> r]
MCInitial ==
  { [r \in 1..4 |-> Content("old", 0)],
    [r \in 1..4 |-> Content(IF r = 2 THEN "new" ELSE "old", 0)],
    [r \in 1..4 |-> Content("new", 0)] }
MCStores ==
  {[record |-> 1, value |-> Content("old", 1)], [record |-> 4, value |-> Content("new", 0)],
   [record |-> 4, value |-> Content("old", 0)]}
===========================================================================
