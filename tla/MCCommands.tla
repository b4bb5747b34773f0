------------------------------ MODULE MCCommands ------------------------------
(* Values for the constants of Commands that a configuration cannot write down. *)
EXTENDS Commands

-----------------------------------------------------------------------------
(* Six bytes in three pages; chunks of two bytes and pages of results of    *)
(* four, so that a pattern of three straddles a chunk, a page of results and *)
(* a region boundary.                                                        *)

ScanPages == 0..2
Wild == {0, 1}
TwoPatterns == {<<{0}, Wild, {1}>>, <<Wild, {1}, {1}>>, <<{0}>>}

Private(p, a) == [private |-> p, alloc |-> a]
\* One allocation; a hole in the middle of one; two allocations side by side.
SomeLayouts ==
  { [p \in ScanPages |-> Private(TRUE, 0)],
    [p \in ScanPages |-> Private(p # 1, 0)],
    [p \in ScanPages |-> Private(TRUE, IF p < 2 THEN 0 ELSE 4)] }

Span(a, n) == [address |-> a, length |-> n]
SomeRangeLists ==
  { <<>>, <<Span(0, 0)>>, <<Span(0, 3)>>,
    <<Span(0, 2), Span(2, 2), Span(4, 2)>>,
    <<Span(1, 2), Span(4, 2)>>, <<Span(5, 2)>> }

-----------------------------------------------------------------------------
(* Two tables that refer to each other, in twelve record slots.              *)

TwoTables ==
  << [rows |-> <<0, 1, 3, 4>>, fps |-> <<"p", "q", "r", "s">>, capacity |-> 5, indexed |-> FALSE,
      links |-> {[row |-> 0, target |-> 2, targetRow |-> 1, mapped |-> FALSE]}],
     [rows |-> <<0, 1, 2>>, fps |-> <<"u", "v", "w">>, capacity |-> 3, indexed |-> TRUE,
      links |-> {[row |-> 0, target |-> 1, targetRow |-> 0, mapped |-> TRUE]}] >>

\* A slot holds a fingerprint and, in the first row of a table, a reference.
Cell(fp, other) ==
  [fp |-> fp, ref |-> IF fp = "p" THEN <<2, IF other THEN 0 ELSE 1>>
                      ELSE IF fp = "u" THEN <<1, 0>> ELSE <<0, 0>>]
World(fps, bases, ds, other) ==
  [mem |-> [s \in 1..12 |-> Cell(fps[s], other)], alloc |-> [s \in 1..12 |-> bases[s]], desc |-> ds]

Desc(t, a, b) == [table |-> t, start |-> a, end |-> b]
OneEach == <<Desc(1, 1, 7), Desc(2, 7, 10)>>
Halves == <<1, 1, 1, 1, 1, 1, 7, 7, 7, 7, 7, 7>>

SomeWorlds ==
  { \* both tables, once
    World(<<"p", "q", "-", "r", "s", "-", "u", "v", "w", "-", "-", "-">>, Halves, OneEach, FALSE),
    \* the wrong reference
    World(<<"p", "q", "-", "r", "s", "-", "u", "v", "w", "-", "-", "-">>, Halves, OneEach, TRUE),
    \* the second table twice, with a descriptor each
    World(<<"p", "q", "-", "r", "s", "-", "u", "v", "w", "u", "v", "w">>, Halves,
          Append(OneEach, Desc(2, 10, 13)), FALSE),
    \* the fourth row is not there; a descriptor that ends too soon
    World(<<"p", "q", "-", "r", "-", "-", "u", "v", "w", "-", "-", "-">>, Halves,
          <<Desc(1, 1, 7), Desc(2, 7, 9), Desc(2, 7, 10)>>, FALSE),
    \* the first table does not lie in one allocation
    World(<<"p", "q", "-", "r", "s", "-", "u", "v", "w", "-", "-", "-">>,
          <<1, 1, 1, 1, 5, 5, 7, 7, 7, 7, 7, 7>>, OneEach, FALSE),
    \* a descriptor of the right size that leads nowhere, before the right one
    World(<<"p", "q", "-", "r", "s", "-", "u", "v", "w", "-", "-", "-">>, Halves,
          <<Desc(1, 1, 7), Desc(2, 10, 13), Desc(2, 7, 10)>>, FALSE),
    \* the first row occurs more often than the scans are capped at
    World(<<"p", "p", "p", "q", "-", "r", "s", "-", "u", "v", "w", "-">>,
          <<1, 1, 1, 1, 1, 1, 1, 1, 9, 9, 9, 9>>, <<Desc(1, 1, 9), Desc(2, 9, 12)>>, FALSE) }

\* The first and the last row of the first table vanish and come back.
SomeStores ==
  {[slot |-> 1, value |-> Cell(f, FALSE)] : f \in {"-", "p"}}
    \cup {[slot |-> 5, value |-> Cell(f, FALSE)] : f \in {"-", "s"}}

-----------------------------------------------------------------------------
(* Two dynasties in 56 cells, read in chunks of eight: some signatures cross *)
(* the end of a chunk, some pointers lie in the bytes carried over it.       *)

TwoDynasties ==
  << [controller |-> 7, team |-> 3, targets |-> 14, pitches |-> 19, membership |-> 25,
      r1 |-> 23, r2 |-> 11],
     [controller |-> 31, team |-> 35, targets |-> 38, pitches |-> 43, membership |-> 47,
      r1 |-> 29, r2 |-> 53] >>
SomeBoards == {<<>>, <<"r1">>, <<"r2">>, <<"r2", "r1">>}

-----------------------------------------------------------------------------
(* Four records in batches of two, one of them as the plan wants it already. *)

Content(e, r) == [edited |-> e, rest |-> r]
SomeContents ==
  { [r \in 1..4 |-> Content("old", 0)],
    [r \in 1..4 |-> Content(IF r = 2 THEN "new" ELSE "old", 0)],
    [r \in 1..4 |-> Content("new", 0)] }
SomeRecordStores ==
  {[record |-> 1, value |-> Content("old", 1)], [record |-> 4, value |-> Content("new", 0)],
   [record |-> 4, value |-> Content("old", 0)]}
=============================================================================
