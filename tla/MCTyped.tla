------------------------------- MODULE MCTyped -------------------------------
(* Values for the constants of Typed that a configuration cannot write down.  *)
(*                                                                            *)
(* Bytes: a writable table of three records whose first word is a reference   *)
(* and whose last two bytes hold a number across a byte boundary next to an   *)
(* offset-binary bit; one row is not fingerprinted, so its bytes are only     *)
(* guarded where a change touches them.                                       *)
(* Database: two records of a writable table, one of a read-only table.       *)
EXTENDS Typed

CONSTANTS A, B

Link == [name |-> 1, encoding |-> "packed-reference", byte |-> 0, storage |-> 4,
         bit |-> 0, width |-> 8, min |-> 0, max |-> 255, target |-> 3]
Spread == [name |-> 2, encoding |-> "signed", byte |-> 1, storage |-> 5,
           bit |-> 7, width |-> 2, min |-> -2, max |-> 1, target |-> NoTable]
Score == [name |-> 3, encoding |-> "unsigned", byte |-> 4, storage |-> 2,
          bit |-> 1, width |-> 2, min |-> 0, max |-> 3, target |-> NoTable]
Delta == [name |-> 4, encoding |-> "offset-binary", byte |-> 5, storage |-> 1,
          bit |-> 1, width |-> 1, min |-> 5, max |-> 6, target |-> NoTable]

Layout(name, id, uid, capacity, size, fields) ==
  [name |-> name, id |-> id, uid |-> uid, capacity |-> capacity, size |-> size,
   authority |-> "discovery_only", fields |-> fields]
Players(fields) == Layout(1, 1, 10, 3, 6, fields)
Teams == Layout(2, 3, 30, 2, 1, <<>>)

Fingerprinted(row, pattern, mask) == [row |-> row, pattern |-> pattern, mask |-> mask]
PlayerRows == << Fingerprinted(0, <<0, 0, 0, 1, 0, 0>>, {4}), Fingerprinted(2, <<0, 0, 0, 0, 0, 0>>, {4}) >>
TeamRows == << Fingerprinted(0, <<1>>, {1}), Fingerprinted(1, <<2>>, {1}) >>
Profiled(layout, rows, links) ==
  [name |-> layout.name, id |-> layout.id, uid |-> layout.uid, capacity |-> layout.capacity,
   size |-> layout.size, rows |-> rows, links |-> links]
FirstLink(row) == [row |-> 0, field |-> 1, target |-> 3, targetRow |-> row]

BundleOf(fields, rows, links) ==
  [ schema |-> "schema", build |-> "certified", signed |-> TRUE,
    tables |-> << Profiled(Players(fields), rows, links), Profiled(Teams, TeamRows, <<>>) >>,
    layout |-> [schema |-> "schema", build |-> "certified", tables |-> <<Players(fields), Teams>>] ]
Plain == BundleOf(<<Link, Score, Delta>>, PlayerRows, <<FirstLink(1)>>)

\* Two that are accepted, and bundles with one thing wrong.
SomeBundles ==
  { Plain,
    BundleOf(<<Link, Spread, Score, Delta>>, PlayerRows, <<FirstLink(1)>>),
    BundleOf(<<Link, Delta, Score>>, PlayerRows, <<FirstLink(1)>>),
    BundleOf(<<Link, Score, Score>>, PlayerRows, <<FirstLink(1)>>),
    BundleOf(<<Link, [Score EXCEPT !.bit = 3], Delta>>, PlayerRows, <<FirstLink(1)>>),
    BundleOf(<<[Link EXCEPT !.target = 2], Score, Delta>>, PlayerRows, <<>>),
    BundleOf(<<Link, Score, Delta>>, Reverse(PlayerRows), <<FirstLink(1)>>),
    BundleOf(<<Link, Score, Delta>>, PlayerRows, <<FirstLink(2)>>),
    [Plain EXCEPT !.signed = FALSE],
    [Plain EXCEPT !.build = "other"],
    [Plain EXCEPT !.layout.tables[1].authority = "direct_verified"],
    [Plain EXCEPT !.tables = Reverse(@)] }

Swap(r) == <<r[4], r[3], r[2], r[1], r[6], r[5]>>
Canonical(x, y) == << <<0, 3, 0, 1, x, y>>, <<0, 3, 0, 0, x, y>>, <<0, 3, 0, 0, y, x>> >>
SomeMemories ==
  UNION { {FoldLeft(\o, <<>>, Canonical(x[1], x[2])),
           FoldLeft(\o, <<>>, [k \in 1..3 |-> Swap(Canonical(x[1], x[2])[k])])}
          : x \in {<<2, 1>>, <<1, 3>>} }

Change(field, value) == [field |-> field, value |-> value]
Group(row, changes) == [row |-> row, changes |-> changes]
SomeRequests ==
  { <<Group(1, <<Change(3, Number(n))>>)>> : n \in 0..3 }
  \cup { <<Group(1, <<Change(4, Number(n)), Change(3, Number(2))>>),
           Group(0, <<Change(4, Number(6))>>)>> : n \in 5..6 }
  \cup { <<Group(1, <<Change(1, Reference(3, n))>>)>> : n \in 1..2 }
  \cup { <<Group(2, <<Change(2, Number(-2)), Change(3, Number(3))>>)>>,
         <<Group(0, <<Change(1, Reference(3, 0))>>), Group(1, <<Change(4, Number(6))>>)>>,
         <<Group(3, <<Change(3, Number(1))>>)>> }

RecordTables == <<A, A, B>>
SomeCatalogs == {{}, {A, B}}
=============================================================================
