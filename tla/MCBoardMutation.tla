--------------------------- MODULE MCBoardMutation ---------------------------
EXTENDS BoardMutation
\* Two dynasties in 56 cells, read in chunks of eight: some signatures cross
\* the end of a chunk, some pointers lie in the bytes carried over it.
TwoDynasties ==
  << [controller |-> 7, team |-> 3, targets |-> 14, pitches |-> 19, membership |-> 25,
      r1 |-> 23, r2 |-> 11],
     [controller |-> 31, team |-> 35, targets |-> 38, pitches |-> 43, membership |-> 47,
      r1 |-> 29, r2 |-> 53] >>
TwoRecruits == {"r1", "r2"}
SomeChunks == {{}, {1}, {2}, {5}}
SomeBoards == {<<>>, <<"r1">>, <<"r2">>, <<"r2", "r1">>}
=============================================================================
