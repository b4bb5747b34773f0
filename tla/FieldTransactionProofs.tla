----------------------- MODULE FieldTransactionProofs -----------------------
(***************************************************************************)
(* For every bundle, memory and request, and whatever the game stores      *)
(* meanwhile: the request a typed transaction submits is whole, its        *)
(* evidence held when it was compared, and a profile has one form.         *)
(***************************************************************************)
EXTENDS FieldTransaction, WellFoundedInduction, TLAPS

-----------------------------------------------------------------------------
(* Numbers and arrays.                                                     *)

\* A set of natural numbers has a least one.
Less == {p \in Nat \X Nat : p[1] < p[2]}

LEMMA LeastNat ==
  ASSUME NEW S, S \subseteq Nat, S # {}
  PROVE  \E n \in S : \A m \in S : n <= m
<1>1. OpToRel(<, Nat) = Less
  BY DEF OpToRel, Less
<1>2. IsWellFoundedOn(Less, Nat)
  BY <1>1, NatLessThanWellFounded
<1>3. PICK n \in S : \A m \in S : ~(<<m, n>> \in Less)
  BY <1>2, WFMin
<1>4. ASSUME NEW m \in S PROVE n <= m
  <2>1. <<m, n>> \in Nat \X Nat /\ ~(m < n) => n <= m
    OBVIOUS
  <2>2. m < n => <<m, n>> \in Less
    BY DEF Less
  <2>. QED
    BY <1>3, <2>1, <2>2
<1>. QED
  BY <1>4
LEMMA ArrayIsSeq ==
  ASSUME NEW s, Array(s)
  PROVE  s \in Seq({s[k] : k \in DOMAIN s}) /\ DOMAIN s = 1..Len(s) /\ Len(s) \in Nat
BY DEF Array

LEMMA SeqIsArray ==
  ASSUME NEW S, NEW s \in Seq(S)
  PROVE  Array(s)
BY DEF Array

LEMMA TailLemma ==
  ASSUME NEW s, Array(s), Len(s) > 0
  PROVE  /\ Array(Tail(s)) /\ Len(Tail(s)) = Len(s) - 1
         /\ \A k \in DOMAIN Tail(s) : k + 1 \in DOMAIN s /\ Tail(s)[k] = s[k + 1]
<1>. DEFINE S == {s[k] : k \in DOMAIN s}
<1>1. s \in Seq(S) /\ DOMAIN s = 1..Len(s) /\ Len(s) \in Nat
  BY ArrayIsSeq
<1>. HIDE DEF S
<1>2. /\ Tail(s) \in Seq(S) /\ Len(Tail(s)) = Len(s) - 1
      /\ DOMAIN Tail(s) = 1..(Len(s) - 1)
      /\ \A k \in 1..(Len(s) - 1) : k + 1 \in 1..Len(s) /\ Tail(s)[k] = s[k + 1]
  BY <1>1
<1>3. Array(Tail(s))
  BY <1>2, SeqIsArray
<1>. QED
  BY <1>1, <1>2, <1>3

LEMMA AppendLemma ==
  ASSUME NEW s, NEW e, Array(s)
  PROVE  /\ Array(Append(s, e)) /\ Len(Append(s, e)) = Len(s) + 1
         /\ \A k \in DOMAIN Append(s, e) :
              \/ k \in DOMAIN s /\ Append(s, e)[k] = s[k]
              \/ Append(s, e)[k] = e
<1>. DEFINE S == {s[k] : k \in DOMAIN s} \cup {e}
<1>1. s \in Seq(S) /\ DOMAIN s = 1..Len(s) /\ Len(s) \in Nat /\ e \in S
  BY DEF Array
<1>. HIDE DEF S
<1>2. /\ Append(s, e) \in Seq(S) /\ Len(Append(s, e)) = Len(s) + 1
      /\ DOMAIN Append(s, e) = 1..(Len(s) + 1)
      /\ \A k \in 1..Len(s) : Append(s, e)[k] = s[k]
      /\ Append(s, e)[Len(s) + 1] = e
  BY <1>1
<1>3. \A k \in 1..(Len(s) + 1) : k \in 1..Len(s) \/ k = Len(s) + 1
  BY <1>1
<1>4. Array(Append(s, e))
  BY <1>2, SeqIsArray
<1>. QED
  BY <1>1, <1>2, <1>3, <1>4

-----------------------------------------------------------------------------
(* Merging.                                                                *)

LEMMA MaxLemma ==
  ASSUME NEW S, S \subseteq Nat, S # {}, NEW n \in Nat, \A x \in S : x <= n
  PROVE  Max(S) \in S /\ \A x \in S : x <= Max(S)
<1>. DEFINE Below == {n - x : x \in S}
<1>1. Below \subseteq Nat /\ Below # {}
  <2>1. \A x \in S : x \in Nat /\ x <= n /\ n - x \in Nat
    OBVIOUS
  <2>. QED
    BY <2>1
<1>2. PICK b \in Below : \A m \in Below : b <= m
  <2>. HIDE DEF Below
  <2>. QED
    BY <1>1, LeastNat
<1>3. PICK x \in S : b = n - x
  BY <1>2
<1>4. ASSUME NEW y \in S PROVE x >= y
  <2>1. n - x <= n - y
    BY <1>2, <1>3
  <2>2. x \in Nat /\ y \in Nat
    OBVIOUS
  <2>. QED
    BY <2>1, <2>2
<1>5. Max(S) \in S /\ \A y \in S : Max(S) >= y
  BY <1>4 DEF Max
<1>. QED
  BY <1>5

\* A constraint guards some bytes below n.
Constrains(c, n) ==
  /\ c.addr \in Nat
  /\ Array(c.expected) /\ Len(c.expected) > 0
  /\ End(c) < n
AllConstrain(cs, n) == n \in Nat /\ \A c \in cs : Constrains(c, n)
First(cs, c) == Max({s \in Starts(cs) : s <= c.addr})

LEMMA EndLemma ==
  ASSUME NEW n \in Nat, NEW c, Constrains(c, n)
  PROVE  End(c) \in Nat /\ c.addr <= End(c) /\ End(c) < n /\ CellsOf(c) = c.addr..End(c)
BY DEF Constrains, Array, End, CellsOf

\* The least address after a point that no range covers is a start.
LEMMA NextStart ==
  ASSUME NEW n, NEW cs, AllConstrain(cs, n), NEW x \in Int,
         NEW m \in cs, x < m.addr, \A c \in cs : ~(c.addr <= x /\ x <= End(c))
  PROVE  \E s \in Starts(cs) : x < s /\ s <= m.addr
<1>. DEFINE after == {c.addr : c \in {d \in cs : x < d.addr}}
<1>1. after \subseteq Nat /\ m.addr \in after
  BY DEF AllConstrain, Constrains, Array
<1>2. PICK a \in after : \A b \in after : a <= b
  <2>. HIDE DEF after
  <2>. QED
    BY <1>1, LeastNat
<1>3. a \in Nat /\ x < a /\ a <= m.addr /\ a \in {c.addr : c \in cs}
  BY <1>1, <1>2
<1>4. ASSUME NEW d \in cs, a \in (d.addr + 1)..End(d) PROVE FALSE
  <2>1. d.addr \in Nat /\ End(d) \in Nat
    BY EndLemma DEF AllConstrain, Constrains, Array
  <2>2. CASE x < d.addr
    <3>1. d.addr \in after
      BY <2>2
    <3>. QED
      BY <1>2, <1>4, <2>1, <3>1
  <2>3. CASE ~(x < d.addr)
    BY <1>3, <1>4, <2>1, <2>3
  <2>. QED
    BY <2>2, <2>3
<1>5. a \in Starts(cs)
  BY <1>3, <1>4 DEF Starts
<1>. QED
  BY <1>3, <1>5

LEMMA StartLemma ==
  ASSUME NEW cs, NEW s \in Starts(cs)
  PROVE  /\ \E c \in cs : c.addr = s
         /\ \A c \in cs : ~(s \in (c.addr + 1)..End(c))
BY DEF Starts

\* The component of a constraint begins at the last start up to its address.
LEMMA FirstLemma ==
  ASSUME NEW n, NEW cs, AllConstrain(cs, n), NEW c \in cs
  PROVE  /\ First(cs, c) \in Starts(cs) /\ First(cs, c) \in Nat
         /\ First(cs, c) <= c.addr
         /\ \A s \in Starts(cs) : s <= c.addr => s <= First(cs, c)
         /\ c \in Members(cs, First(cs, c))
<1>. DEFINE S == {s \in Starts(cs) : s <= c.addr}
<1>1. S \subseteq Nat
  <2>1. \A d \in cs : d.addr \in Nat
    BY DEF AllConstrain, Constrains, Array
  <2>2. \A s \in Starts(cs) : \E d \in cs : d.addr = s
    BY StartLemma
  <2>. QED
    BY <2>1, <2>2
<1>2. S # {}
  <2>1. c.addr \in Nat /\ \A d \in cs : d.addr \in Nat
    BY DEF AllConstrain, Constrains, Array
  <2>2. -1 < c.addr /\ \A d \in cs : ~(d.addr <= -1 /\ -1 <= End(d))
    BY <2>1
  <2>. QED
    BY <2>2, NextStart
<1>3. Max(S) \in S /\ \A s \in S : s <= Max(S)
  <2>1. c.addr \in Nat /\ \A s \in S : s <= c.addr
    BY DEF AllConstrain, Constrains, Array
  <2>. HIDE DEF S
  <2>. QED
    BY <1>1, <1>2, <2>1, MaxLemma
<1>. QED
  BY <1>1, <1>3 DEF First, Members

LEMMA MemberLemma ==
  ASSUME NEW cs, NEW first, NEW c \in Members(cs, first)
  PROVE  c \in cs /\ First(cs, c) = first
BY DEF Members, First

\* A component holds the range that begins it, and ends with its last byte.
LEMMA LastLemma ==
  ASSUME NEW n, NEW cs, AllConstrain(cs, n), NEW first \in Starts(cs)
  PROVE  /\ first \in Nat /\ LastCell(cs, first) \in Nat
         /\ first <= LastCell(cs, first) /\ LastCell(cs, first) < n
         /\ \A c \in Members(cs, first) : End(c) <= LastCell(cs, first)
         /\ \E c \in Members(cs, first) : End(c) = LastCell(cs, first)
<1>. DEFINE ends == {End(c) : c \in Members(cs, first)}
<1>1. PICK c \in cs : c.addr = first
  BY StartLemma
<1>2. c \in Members(cs, first) /\ first \in Nat
  <2>0. first \in Nat
    BY <1>1 DEF AllConstrain, Constrains, Array
  <2>1. /\ First(cs, c) \in Nat /\ First(cs, c) <= first /\ first <= First(cs, c)
        /\ c \in Members(cs, First(cs, c)) /\ first \in Nat
    BY <1>1, <2>0, FirstLemma
  <2>2. First(cs, c) = first
    BY <2>1
  <2>. QED
    BY <2>1, <2>2
<1>3. \A d \in Members(cs, first) : End(d) \in Nat /\ End(d) <= n /\ End(d) < n
  <2>1. \A d \in cs : End(d) \in Nat /\ End(d) < n /\ n \in Nat
    BY EndLemma DEF AllConstrain
  <2>. QED
    BY <2>1, MemberLemma
<1>4. Max(ends) \in ends /\ \A x \in ends : x <= Max(ends)
  <2>1. ends \subseteq Nat /\ ends # {} /\ n \in Nat /\ \A x \in ends : x <= n
    BY <1>2, <1>3 DEF AllConstrain
  <2>. HIDE DEF ends
  <2>. QED
    BY <2>1, MaxLemma
<1>5. first <= End(c)
  BY <1>1, EndLemma DEF AllConstrain
<1>. QED
  <2>1. LastCell(cs, first) = Max(ends)
    BY DEF LastCell
  <2>2. End(c) \in ends
    BY <1>2
  <2>3. \E d \in Members(cs, first) : End(d) = LastCell(cs, first)
    BY <1>4, <2>1
  <2>4. \A d \in Members(cs, first) : End(d) <= LastCell(cs, first)
    BY <1>4, <2>1
  <2>5. LastCell(cs, first) \in Nat /\ LastCell(cs, first) < n
    BY <1>3, <2>3
  <2>. QED
    BY <1>2, <1>3, <1>5, <2>3, <2>4, <2>5

\* Every byte of a component is asked for.
LEMMA NoGaps ==
  ASSUME NEW n, NEW cs, AllConstrain(cs, n), NEW first \in Starts(cs),
         NEW x \in first..LastCell(cs, first)
  PROVE  \E c \in cs : x \in CellsOf(c)
<1>. SUFFICES ASSUME \A c \in cs : ~(c.addr <= x /\ x <= End(c)) PROVE FALSE
  <2>1. \A c \in cs : CellsOf(c) = c.addr..End(c) /\ c.addr \in Nat /\ End(c) \in Nat
    BY EndLemma DEF AllConstrain, Constrains, Array
  <2>2. x \in Int
    OBVIOUS
  <2>. QED
    BY <2>1, <2>2
<1>1. PICK m \in Members(cs, first) : End(m) = LastCell(cs, first)
  BY LastLemma
<1>2. m \in cs /\ First(cs, m) = first
  BY MemberLemma
<1>3. /\ x \in Int /\ first \in Nat /\ first <= x /\ x <= End(m)
  BY <1>1, LastLemma
<1>4. m.addr \in Nat
  BY <1>2 DEF AllConstrain, Constrains, Array
<1>5. x < m.addr
  BY <1>2, <1>3, <1>4
<1>6. PICK s \in Starts(cs) : x < s /\ s <= m.addr
  BY <1>2, <1>3, <1>5, NextStart
<1>7. s <= first
  BY <1>2, <1>6, FirstLemma
<1>8. s \in Nat
  BY LastLemma
<1>. QED
  BY <1>3, <1>6, <1>7, <1>8

\* A component ends before the next one begins.
LEMMA Apart ==
  ASSUME NEW n, NEW cs, AllConstrain(cs, n),
         NEW f \in Starts(cs), NEW g \in Starts(cs), f < g
  PROVE  LastCell(cs, f) < g
<1>1. PICK m \in Members(cs, f) : End(m) = LastCell(cs, f)
  BY LastLemma
<1>2. m \in cs /\ First(cs, m) = f
  BY MemberLemma
<1>3. f \in Nat /\ g \in Nat
  BY LastLemma
<1>4. m.addr \in Nat /\ End(m) \in Nat
  BY <1>2, EndLemma DEF AllConstrain, Constrains, Array
<1>5. m.addr < g
  <2>1. g <= m.addr => g <= f
    BY <1>2, FirstLemma
  <2>. QED
    BY <1>3, <1>4, <2>1
<1>6. ~(g \in (m.addr + 1)..End(m))
  BY <1>2, StartLemma
<1>. QED
  BY <1>1, <1>3, <1>4, <1>5, <1>6

\* Where the constraints agree, the merged bytes are those of any of them.
LEMMA MergedLemma ==
  ASSUME NEW cs, ~Ambiguous(cs), NEW c \in cs, NEW x \in CellsOf(c)
  PROVE  /\ MergedExpected(cs, x) = Expected(c, x)
         /\ IsWrite(c) => MergedReplacement(cs, x) = Replacement(c, x)
<1>1. ASSUME NEW a \in cs, x \in CellsOf(a)
      PROVE  /\ Expected(a, x) = Expected(c, x)
             /\ IsWrite(a) /\ IsWrite(c) => Replacement(a, x) = Replacement(c, x)
  BY <1>1 DEF Ambiguous
<1>2. MergedExpected(cs, x) = Expected(c, x)
  BY <1>1 DEF MergedExpected
<1>3. ASSUME IsWrite(c) PROVE MergedReplacement(cs, x) = Replacement(c, x)
  <2>. DEFINE writers == {a \in cs : IsWrite(a) /\ x \in CellsOf(a)}
              w == CHOOSE a \in writers : TRUE
  <2>1. w \in writers
    BY <1>3
  <2>2. MergedReplacement(cs, x) = Replacement(w, x)
    BY <1>3 DEF MergedReplacement
  <2>. QED
    BY <1>1, <1>3, <2>1, <2>2
<1>. QED
  BY <1>2, <1>3

\* FinalizeFieldTransaction keeps every byte of the constraints it is given, once
\* (frtk_record_access.cpp, lines 321 to 370).
Whole(cs) ==
  /\ \A a, b \in Finalized(cs) : a # b => CellsOf(a) \cap CellsOf(b) = {}
  /\ Covered(Finalized(cs)) = Covered(cs)
  /\ \A c \in cs : \A x \in CellsOf(c) :
       \E o \in Finalized(cs) :
         /\ x \in CellsOf(o)
         /\ Expected(o, x) = Expected(c, x)
         /\ IsWrite(c) => IsWrite(o) /\ Replacement(o, x) = Replacement(c, x)

LEMMA OperationLemma ==
  ASSUME NEW n, NEW cs, AllConstrain(cs, n), NEW f \in Starts(cs)
  PROVE  /\ CellsOf(Operation(cs, f)) = f..LastCell(cs, f)
         /\ Operation(cs, f).addr = f
         /\ Len(Operation(cs, f).expected) \in Nat
         /\ \A x \in f..LastCell(cs, f) :
              /\ Expected(Operation(cs, f), x) = MergedExpected(cs, x)
              /\ \A c \in Members(cs, f) : IsWrite(c) =>
                   /\ IsWrite(Operation(cs, f))
                   /\ Replacement(Operation(cs, f), x) = MergedReplacement(cs, x)
<1>. DEFINE o == Operation(cs, f)
            last == LastCell(cs, f)
            size == last - f + 1
            e == [k \in 1..size |-> MergedExpected(cs, f + k - 1)]
            r == [k \in 1..size |-> MergedReplacement(cs, f + k - 1)]
<1>1. f \in Nat /\ last \in Nat /\ f <= last /\ size \in Nat /\ size > 0
  <2>1. f \in Nat /\ last \in Nat /\ f <= last
    BY LastLemma
  <2>. QED
    BY <2>1
<1>2. /\ o.addr = f /\ o.expected = e
      /\ (\E c \in Members(cs, f) : IsWrite(c)) => o.replacement = r
  BY DEF Operation
<1>. HIDE DEF o, last
<1>3. Len(e) = size
  BY <1>1
<1>4. CellsOf(o) = f..last
  BY <1>1, <1>2, <1>3 DEF CellsOf
<1>5. ASSUME NEW x \in f..last
      PROVE  e[x - f + 1] = MergedExpected(cs, x) /\ r[x - f + 1] = MergedReplacement(cs, x)
  <2>1. x - f + 1 \in 1..size /\ f + (x - f + 1) - 1 = x
    BY <1>1
  <2>. QED
    BY <2>1
<1>6. r # <<>>
  BY <1>1
<1>7. ASSUME NEW x \in f..last
      PROVE  /\ Expected(o, x) = MergedExpected(cs, x)
             /\ \A c \in Members(cs, f) : IsWrite(c) =>
                  IsWrite(o) /\ Replacement(o, x) = MergedReplacement(cs, x)
  <2>. HIDE DEF e, r
  <2>1. Expected(o, x) = MergedExpected(cs, x)
    BY <1>2, <1>5 DEF Expected
  <2>2. ASSUME NEW c \in Members(cs, f), IsWrite(c)
        PROVE  IsWrite(o) /\ Replacement(o, x) = MergedReplacement(cs, x)
    <3>1. o.replacement = r
      BY <1>2, <2>2
    <3>. QED
      BY <1>2, <1>5, <1>6, <3>1 DEF IsWrite, Replacement
  <2>. QED
    BY <2>1, <2>2
<1>. QED
  BY <1>1, <1>2, <1>3, <1>4, <1>7 DEF o, last

LEMMA FinalizedIsWhole ==
  ASSUME NEW n, NEW cs, AllConstrain(cs, n), ~Ambiguous(cs)
  PROVE  Whole(cs)
<1>1. ASSUME NEW c \in cs, NEW x \in CellsOf(c)
      PROVE  \E f \in Starts(cs) : x \in f..LastCell(cs, f) /\ c \in Members(cs, f)
  <2>1. /\ First(cs, c) \in Starts(cs) /\ First(cs, c) <= c.addr
        /\ c \in Members(cs, First(cs, c)) /\ First(cs, c) \in Nat
    BY FirstLemma
  <2>2. End(c) <= LastCell(cs, First(cs, c)) /\ LastCell(cs, First(cs, c)) \in Nat
    BY <2>1, LastLemma
  <2>3. x \in c.addr..End(c) /\ c.addr \in Nat /\ End(c) \in Nat
    BY EndLemma DEF AllConstrain, Constrains, Array
  <2>4. x \in First(cs, c)..LastCell(cs, First(cs, c))
    BY <2>1, <2>2, <2>3
  <2>. QED
    BY <2>1, <2>4
<1>2. ASSUME NEW a \in Finalized(cs), NEW b \in Finalized(cs), a # b
      PROVE  CellsOf(a) \cap CellsOf(b) = {}
  <2>1. PICK f \in Starts(cs), g \in Starts(cs) : a = Operation(cs, f) /\ b = Operation(cs, g)
    BY DEF Finalized
  <2>2. CellsOf(a) = f..LastCell(cs, f) /\ CellsOf(b) = g..LastCell(cs, g)
    BY <2>1, OperationLemma
  <2>3. /\ f \in Nat /\ g \in Nat /\ f # g
        /\ LastCell(cs, f) \in Nat /\ LastCell(cs, g) \in Nat
    BY <1>2, <2>1, LastLemma
  <2>4. LastCell(cs, f) < g \/ LastCell(cs, g) < f
    <3>1. f < g \/ g < f
      BY <2>3
    <3>. QED
      BY <3>1, Apart
  <2>. QED
    BY <2>2, <2>3, <2>4
<1>3. ASSUME NEW x \in Covered(Finalized(cs)) PROVE x \in Covered(cs)
  <2>1. PICK f \in Starts(cs) : x \in CellsOf(Operation(cs, f))
    BY DEF Covered, Finalized
  <2>2. x \in f..LastCell(cs, f)
    BY <2>1, OperationLemma
  <2>. QED
    BY <2>2, NoGaps DEF Covered
<1>4. ASSUME NEW c \in cs, NEW x \in CellsOf(c)
      PROVE  \E o \in Finalized(cs) :
               /\ x \in CellsOf(o)
               /\ Expected(o, x) = Expected(c, x)
               /\ IsWrite(c) => IsWrite(o) /\ Replacement(o, x) = Replacement(c, x)
  <2>1. PICK f \in Starts(cs) : x \in f..LastCell(cs, f) /\ c \in Members(cs, f)
    BY <1>1
  <2>2. Operation(cs, f) \in Finalized(cs)
    BY DEF Finalized
  <2>3. /\ x \in CellsOf(Operation(cs, f))
        /\ Expected(Operation(cs, f), x) = MergedExpected(cs, x)
        /\ IsWrite(c) => /\ IsWrite(Operation(cs, f))
                         /\ Replacement(Operation(cs, f), x) = MergedReplacement(cs, x)
    BY <2>1, OperationLemma
  <2>4. /\ MergedExpected(cs, x) = Expected(c, x)
        /\ IsWrite(c) => MergedReplacement(cs, x) = Replacement(c, x)
    BY MergedLemma
  <2>. QED
    BY <2>2, <2>3, <2>4
<1>5. Covered(Finalized(cs)) = Covered(cs)
  <2>1. ASSUME NEW x \in Covered(cs) PROVE x \in Covered(Finalized(cs))
    BY <1>4 DEF Covered
  <2>. QED
    BY <1>3, <2>1
<1>. QED
  BY <1>2, <1>4, <1>5 DEF Whole

-----------------------------------------------------------------------------
(* The layout of the table.                                                *)

ProfileAccepted == profile = <<Bundle>> /\ Bundle \in Bundles /\ ParseProfile(Bundle)

\* What the parsers leave of the table and of a field of it.
LEMMA TableLemma ==
  ASSUME ProfileAccepted
  PROVE  /\ Table.size \in Nat \ {0} /\ Table.capacity \in Nat
         /\ \A r \in SomeOf(Table.rows) : r.row \in Nat /\ r.row < Table.capacity
         /\ \A l \in SomeOf(Table.links) : l.row \in Nat /\ l.row < Table.capacity
<1>1. /\ ArrayOf(Bundle.tables, ParsedTable)
      /\ MaxRecordSize \in Nat
  BY FieldAssumption DEF ProfileAccepted, ParsedBundle
<1>2. 1 \in DOMAIN Bundle.tables /\ \A k \in DOMAIN Bundle.tables : AcceptedProfileTable(Bundle.tables[k])
  <2>1. Len(Bundle.tables) \in 1..MaxTables
    BY DEF ProfileAccepted, ParseProfile
  <2>2. Len(Bundle.tables) \in Nat /\ DOMAIN Bundle.tables = 1..Len(Bundle.tables)
    BY <1>1 DEF ArrayOf, Array
  <2>3. Len(Bundle.tables) >= 1
    BY <2>1, <2>2
  <2>4. \A k \in DOMAIN Bundle.tables : AcceptedProfileTable(Bundle.tables[k])
    BY DEF ProfileAccepted, ParseProfile
  <2>. QED
    BY <2>2, <2>3, <2>4
<1>3. AcceptedProfileTable(Table) /\ ParsedTable(Table)
  BY <1>1, <1>2 DEF Table, ArrayOf
<1>4. Table.size \in 1..MaxRecordSize /\ Table.capacity \in Rows \ {0}
  BY <1>3 DEF AcceptedProfileTable
<1>5. Table.size \in Nat \ {0} /\ Table.capacity \in Nat
  BY <1>1, <1>4 DEF Rows
<1>6. /\ \A k \in DOMAIN Table.rows : Table.rows[k].row \in Nat
      /\ \A k \in DOMAIN Table.links : Table.links[k].row \in Nat
  BY <1>3 DEF ParsedTable, ArrayOf
<1>7. /\ \A k \in DOMAIN Table.rows : Table.rows[k].row < Table.capacity
      /\ \A k \in DOMAIN Table.links : Table.links[k].row < Table.capacity
  BY <1>3 DEF AcceptedProfileTable, AcceptedRow
<1>. QED
  BY <1>5, <1>6, <1>7 DEF SomeOf

LEMMA ReferenceLemma ==
  ASSUME ProfileAccepted, NEW l, LinkIsPlain(l)
  PROVE  Definition(l.field).byte \in Nat /\ Definition(l.field).byte + 4 <= Table.size
<1>. DEFINE layout == Bundle.layout.tables
            found == FindTable(layout, Table.id)
<1>1. /\ 1 \in DOMAIN Bundle.tables /\ Array(layout)
      /\ \A k \in DOMAIN layout : ParsedLayout(layout[k])
  <2>1. Len(Bundle.tables) \in Nat /\ DOMAIN Bundle.tables = 1..Len(Bundle.tables)
    BY FieldAssumption DEF ProfileAccepted, ParsedBundle, ArrayOf, Array
  <2>2. Len(Bundle.tables) \in 1..MaxTables
    BY DEF ProfileAccepted, ParseProfile
  <2>3. 1 \in DOMAIN Bundle.tables
    BY <2>1, <2>2
  <2>. QED
    BY <2>3, FieldAssumption DEF ProfileAccepted, ParsedBundle, ArrayOf
<1>2. /\ \A k \in DOMAIN layout : AcceptedTable(layout[k])
      /\ \A a, b \in DOMAIN layout : layout[a].id = layout[b].id => a = b
      /\ \E k \in found : SameIdentity(Table, layout[k])
  <2>1. LoadsLayout(Bundle.layout)
    BY DEF ProfileAccepted, ParseProfile
  <2>2. /\ \A k \in DOMAIN layout : AcceptedTable(layout[k])
        /\ \A a, b \in DOMAIN layout : layout[a].id = layout[b].id => a = b
    BY <2>1 DEF LoadsLayout
  <2>3. \E k \in found : SameIdentity(Table, layout[k])
    BY <1>1 DEF ProfileAccepted, ParseProfile, Table
  <2>. QED
    BY <2>2, <2>3
<1>3. PICK k \in found : SameIdentity(Table, layout[k])
  BY <1>2
<1>4. Schema = layout[k] /\ k \in DOMAIN layout
  <2>1. \A j \in found : j = k
    BY <1>2, <1>3 DEF FindTable
  <2>2. (CHOOSE j \in found : TRUE) = k
    BY <1>3, <2>1
  <2>. QED
    BY <1>3, <2>2 DEF Schema, FindTable
<1>5. /\ AcceptedTable(Schema) /\ ParsedLayout(Schema) /\ Schema.size = Table.size
  BY <1>1, <1>2, <1>3, <1>4 DEF SameIdentity
<1>6. PICK f \in DOMAIN Schema.fields : Definition(l.field) = Schema.fields[f]
  BY DEF LinkIsPlain, HasField, Definition, FindField
<1>7. AcceptedField(Table.size, Definition(l.field)) /\ Definition(l.field).byte \in Nat
  BY <1>5, <1>6 DEF AcceptedTable, ParsedLayout, ArrayOf
<1>. QED
  BY <1>7 DEF AcceptedField, ValidDefinition, LinkIsPlain

\* The records of the table lie below its end.
TableEnd == Table.capacity * Table.size

LEMMA RowLemma ==
  ASSUME ProfileAccepted, NEW row \in Nat, row < Table.capacity
  PROVE  RowAddress(row) \in Nat /\ RowAddress(row) + Table.size <= TableEnd
<1>1. /\ Table.size \in Nat /\ Table.capacity \in Nat
  BY TableLemma
<1>2. ASSUME NEW s \in Nat, NEW c \in Nat, row < c
      PROVE  row * s \in Nat /\ row * s + s <= c * s
  BY <1>2
<1>. QED
  BY <1>1, <1>2 DEF RowAddress, TableEnd

\* What is read at an address is as long as was asked for.
LEMMA LoadLemma ==
  ASSUME NEW a \in Nat, NEW n \in Nat
  PROVE  Load(a, n) = [k \in 1..n |-> memory[a + k]] /\ Len(Load(a, n)) = n
BY DEF Load

LEMMA GuardLemma ==
  ASSUME NEW a \in Nat, NEW n \in Nat \ {0}, NEW end \in Nat, a + n <= end
  PROVE  Constrains(Guard(a, n), end)
<1>1. /\ Guard(a, n).addr = a /\ Guard(a, n).expected = Load(a, n)
  BY DEF Guard
<1>2. Load(a, n) = [k \in 1..Len(Load(a, n)) |-> Load(a, n)[k]] /\ Len(Load(a, n)) = n
  <2>1. Load(a, n) = [k \in 1..n |-> memory[a + k]] /\ Len(Load(a, n)) = n
    BY LoadLemma
  <2>. QED
    BY <2>1
<1>. QED
  BY <1>1, <1>2 DEF Constrains, Array, End

-----------------------------------------------------------------------------
(* What a transaction knows.                                               *)

\* Guards that show the evidence: their bytes are those of every fingerprinted
\* row and of every relationship, and these were as they have to be.
Prove(gs) ==
  /\ \A r \in SomeOf(Table.rows) :
       \E g \in gs : /\ g.addr = RowAddress(r.row) /\ Len(g.expected) = Table.size
                     /\ \A k \in r.mask : Live(g.expected)[k] = r.pattern[k]
  /\ \A l \in SomeOf(Table.links) :
       /\ LinkIsPlain(l)
       /\ \E g \in gs : /\ g.addr = LinkAddress(l) /\ Len(g.expected) = 4
                        /\ DecodePackedReference(
                              BigEndian(IF swapped THEN Reverse(g.expected) ELSE g.expected))
                             = Reference(l.target, l.targetRow)

LEMMA LinkLemma ==
  ASSUME ProfileAccepted, NEW l \in SomeOf(Table.links), LinkIsPlain(l)
  PROVE  LinkAddress(l) \in Nat /\ LinkAddress(l) + 4 <= TableEnd
<1>1. RowAddress(l.row) \in Nat /\ RowAddress(l.row) + Table.size <= TableEnd
  BY TableLemma, RowLemma
<1>2. Definition(l.field).byte \in Nat /\ Definition(l.field).byte + 4 <= Table.size
  BY ReferenceLemma
<1>3. Table.size \in Nat /\ TableEnd \in Nat
  BY TableLemma DEF TableEnd
<1>. QED
  BY <1>1, <1>2, <1>3 DEF LinkAddress

LEMMA GuardsLemma ==
  ASSUME ProfileAccepted, Evidence
  PROVE  AllConstrain(Guards, TableEnd) /\ Prove(Guards)
<1>1. Table.size \in Nat \ {0} /\ TableEnd \in Nat
  BY TableLemma DEF TableEnd
<1>2. ASSUME NEW r \in SomeOf(Table.rows)
      PROVE  /\ RowAddress(r.row) \in Nat
             /\ Constrains(Guard(RowAddress(r.row), Table.size), TableEnd)
  <2>1. RowAddress(r.row) \in Nat /\ RowAddress(r.row) + Table.size <= TableEnd
    BY TableLemma, RowLemma
  <2>. QED
    BY <1>1, <2>1, GuardLemma
<1>3. ASSUME NEW l \in SomeOf(Table.links)
      PROVE  LinkAddress(l) \in Nat /\ Constrains(Guard(LinkAddress(l), 4), TableEnd)
  <2>1. LinkAddress(l) \in Nat /\ LinkAddress(l) + 4 <= TableEnd
    BY LinkLemma DEF Evidence, LinkHolds
  <2>. QED
    BY <1>1, <2>1, GuardLemma
<1>4. AllConstrain(Guards, TableEnd)
  BY <1>1, <1>2, <1>3 DEF AllConstrain, Guards
<1>5. ASSUME NEW r \in SomeOf(Table.rows)
      PROVE  \E g \in Guards : /\ g.addr = RowAddress(r.row) /\ Len(g.expected) = Table.size
                               /\ \A k \in r.mask : Live(g.expected)[k] = r.pattern[k]
  <2>. DEFINE g == Guard(RowAddress(r.row), Table.size)
  <2>1. g \in Guards
    BY DEF Guards
  <2>2. g.addr = RowAddress(r.row) /\ g.expected = Load(RowAddress(r.row), Table.size)
    BY DEF Guard
  <2>3. Len(g.expected) = Table.size
    <3>1. Len(Load(RowAddress(r.row), Table.size)) = Table.size
      BY <1>1, <1>2, LoadLemma
    <3>. QED
      BY <2>2, <3>1
  <2>4. \A k \in r.mask : Live(g.expected)[k] = r.pattern[k]
    BY <2>2 DEF Evidence, Fingerprint
  <2>. QED
    BY <2>1, <2>2, <2>3, <2>4
<1>6. ASSUME NEW l \in SomeOf(Table.links)
      PROVE  /\ LinkIsPlain(l)
             /\ \E g \in Guards :
                  /\ g.addr = LinkAddress(l) /\ Len(g.expected) = 4
                  /\ DecodePackedReference(
                        BigEndian(IF swapped THEN Reverse(g.expected) ELSE g.expected))
                       = Reference(l.target, l.targetRow)
  <2>. DEFINE g == Guard(LinkAddress(l), 4)
  <2>1. g \in Guards
    BY DEF Guards
  <2>2. g.addr = LinkAddress(l) /\ g.expected = Load(LinkAddress(l), 4)
    BY DEF Guard
  <2>3. Len(g.expected) = 4
    <3>1. LinkAddress(l) \in Nat /\ 4 \in Nat
      BY <1>3
    <3>2. Len(Load(LinkAddress(l), 4)) = 4
      BY <3>1, LoadLemma
    <3>. QED
      BY <2>2, <3>2
  <2>4. LinkHolds(l)
    BY DEF Evidence
  <2>. QED
    BY <2>1, <2>2, <2>3, <2>4 DEF LinkHolds
<1>. QED
  BY <1>4, <1>5, <1>6 DEF Prove

\* Guards that still hold show that the evidence does, where they hold.
LEMMA ProofLemma ==
  ASSUME ProfileAccepted, NEW gs, Prove(gs), NEW lost,
         \A g \in gs : CellsOf(g) \cap lost = {} => Load(g.addr, Len(g.expected)) = g.expected
  PROVE  /\ \A r \in SomeOf(Table.rows) : RowCells(r) \cap lost = {} => Fingerprint(r)
         /\ \A l \in SomeOf(Table.links) : LinkCells(l) \cap lost = {} => LinkHolds(l)
<1>1. ASSUME NEW r \in SomeOf(Table.rows), RowCells(r) \cap lost = {} PROVE Fingerprint(r)
  <2>1. PICK g \in gs : /\ g.addr = RowAddress(r.row) /\ Len(g.expected) = Table.size
                        /\ \A k \in r.mask : Live(g.expected)[k] = r.pattern[k]
    BY DEF Prove
  <2>2. Load(RowAddress(r.row), Table.size) = g.expected
    BY <1>1, <2>1 DEF RowCells, CellsOf
  <2>. QED
    BY <2>1, <2>2 DEF Fingerprint
<1>2. ASSUME NEW l \in SomeOf(Table.links), LinkCells(l) \cap lost = {} PROVE LinkHolds(l)
  <2>1. PICK g \in gs : /\ g.addr = LinkAddress(l) /\ Len(g.expected) = 4
                        /\ DecodePackedReference(
                              BigEndian(IF swapped THEN Reverse(g.expected) ELSE g.expected))
                             = Reference(l.target, l.targetRow)
    BY DEF Prove
  <2>2. Load(LinkAddress(l), 4) = g.expected
    <3>1. CellsOf(g) = LinkAddress(l)..(LinkAddress(l) + 4 - 1)
      BY <2>1 DEF CellsOf
    <3>2. LinkAddress(l) + 4 - 1 = LinkAddress(l) + 3
      BY LinkLemma DEF Prove
    <3>. QED
      BY <1>2, <2>1, <3>1, <3>2 DEF LinkCells
  <2>3. LinkIsPlain(l)
    BY DEF Prove
  <2>. QED
    BY <2>1, <2>2, <2>3 DEF LinkHolds
<1>. QED
  BY <1>1, <1>2

\* The runs of bytes a group changes lie in its record.
LEMMA OperationsLemma ==
  ASSUME ProfileAccepted, NEW g, g.row \in Nat, Plannable(g)
  PROVE  AllConstrain(Operations(g), TableEnd)
<1>. DEFINE address == RowAddress(g.row)
            old == Load(address, Table.size)
            new == Live(Encoded(Record(g.row), g.changes))
            cells == Differ(old, new)
<1>1. /\ address \in Nat /\ address + Table.size <= TableEnd
      /\ Table.size \in Nat /\ TableEnd \in Nat
  BY RowLemma, TableLemma DEF Plannable, TableEnd
<1>2. cells \subseteq 1..Table.size
  <2>1. \A a \in Nat, n \in Nat : DOMAIN Load(a, n) = 1..n
    BY LoadLemma
  <2>2. DOMAIN old = 1..Table.size
    BY <1>1, <2>1
  <2>. HIDE DEF old, new
  <2>. QED
    BY <2>2 DEF Differ
<1>. HIDE DEF cells, old, new, address
<1>3. ASSUME NEW first \in cells
      PROVE  /\ Max(RunFrom(cells, first)) \in 1..Table.size
             /\ first <= Max(RunFrom(cells, first))
  <2>0. first \in Nat /\ first..first = {first} /\ \A x \in cells : x \in Nat /\ x <= Table.size
    BY <1>1, <1>2
  <2>1. /\ RunFrom(cells, first) \subseteq Nat /\ first \in RunFrom(cells, first)
        /\ \A x \in RunFrom(cells, first) : x \in cells /\ x <= Table.size /\ x >= first
    <3>1. first \in RunFrom(cells, first)
      BY <2>0 DEF RunFrom
    <3>2. \A x \in RunFrom(cells, first) : x \in cells /\ x >= first
      BY DEF RunFrom
    <3>. QED
      BY <2>0, <3>1, <3>2
  <2>2. Max(RunFrom(cells, first)) \in RunFrom(cells, first)
    BY <1>1, <2>1, MaxLemma
  <2>. QED
    BY <1>2, <2>1, <2>2
<1>4. ASSUME NEW first \in cells, NEW last \in 1..Table.size, first <= last
      PROVE  Constrains([addr |-> address + first - 1,
                         expected |-> SubSeq(old, first, last),
                         replacement |-> SubSeq(new, first, last)], TableEnd)
  <2>1. first \in 1..Table.size
    BY <1>2
  <2>2. /\ Len(SubSeq(old, first, last)) = last - first + 1
        /\ SubSeq(old, first, last) = [k \in 1..(last - first + 1) |-> old[first + k - 1]]
    BY <1>4, <2>1
  <2>3. SubSeq(old, first, last)
          = [k \in 1..Len(SubSeq(old, first, last)) |-> SubSeq(old, first, last)[k]]
    BY <2>2
  <2>. QED
    BY <1>1, <1>4, <2>1, <2>2, <2>3 DEF Constrains, Array, End
<1>5. \A c \in Runs(old, new, address) : Constrains(c, TableEnd)
  BY <1>3, <1>4 DEF Runs, cells
<1>6. Operations(g) = Runs(old, new, address)
  BY DEF Operations, old, new, address
<1>. QED
  BY <1>1, <1>5, <1>6 DEF AllConstrain

-----------------------------------------------------------------------------
(* The invariant of the byte level.                                        *)

PlanIsSound(p) ==
  /\ AllConstrain(p.guards, TableEnd) /\ Prove(p.guards)
  /\ AllConstrain(p.ops, TableEnd)

\* A transaction runs under one accepted profile; the groups it has still to plan
\* are requests, its guards show the evidence, and so do those of its plans.
FieldInvariant ==
  /\ pc \in {"idle", "revalidate", "plan", "submit", "compare", "write"}
  /\ profile # <<>> => ProfileAccepted
  /\ installed \/ pc # "idle" => profile # <<>>
  /\ ArrayOf(todo, ParsedGroup)
  /\ pc \in {"revalidate", "plan"} => Len(todo) > 0
  /\ pc = "plan" => AllConstrain(guards, TableEnd) /\ Prove(guards)
  /\ ArrayOf(plans, PlanIsSound)
  /\ pc \in {"submit", "compare", "write"} => Len(plans) > 0
  /\ pc = "idle" => Len(plans) = 0

\* What guards show, and where the table lies, depend on the profile alone.
LEMMA SameProfile ==
  ASSUME UNCHANGED <<profile, swapped>>
  PROVE  /\ ProfileAccepted' = ProfileAccepted /\ TableEnd' = TableEnd
         /\ \A gs : Prove(gs)' = Prove(gs)
         /\ \A p : PlanIsSound(p)' = PlanIsSound(p)
<1>1. Bundle' = Bundle /\ Table' = Table /\ Schema' = Schema
  BY DEF Bundle, Table, Schema
<1>2. ProfileAccepted' = ProfileAccepted /\ TableEnd' = TableEnd
  BY <1>1 DEF ProfileAccepted, TableEnd
<1>3. /\ \A name : HasField(name)' = HasField(name) /\ Definition(name)' = Definition(name)
      /\ \A row : RowAddress(row)' = RowAddress(row)
      /\ \A record : Live(record)' = Live(record)
  BY <1>1 DEF HasField, Definition, RowAddress, Live
<1>4. \A l : LinkIsPlain(l)' = LinkIsPlain(l) /\ LinkAddress(l)' = LinkAddress(l)
  BY <1>3 DEF LinkIsPlain, LinkAddress
<1>5. ASSUME NEW gs PROVE Prove(gs)' = Prove(gs)
  BY <1>1, <1>3, <1>4 DEF Prove
<1>. QED
  BY <1>2, <1>5 DEF PlanIsSound

\* Steps that leave the transaction and the profile alone.
LEMMA SameTransaction ==
  ASSUME FieldInvariant, UNCHANGED <<profile, swapped, pc, todo, guards, plans>>,
         installed' => profile # <<>>
  PROVE  FieldInvariant'
BY SameProfile DEF FieldInvariant, Array, ArrayOf

LEMMA ReturnKeeps ==
  ASSUME FieldInvariant, Return, UNCHANGED <<profile, swapped>>, installed' => profile # <<>>
  PROVE  FieldInvariant'
BY SameProfile DEF FieldInvariant, Return, Array, ArrayOf

LEMMA LoadKeeps ==
  ASSUME FieldInvariant, NEW b \in Bundles, LoadFrtkProfile(b)
  PROVE  FieldInvariant'
<1>1. ProfileAccepted' /\ profile' # <<>>
  BY DEF LoadFrtkProfile, ProfileAccepted, Bundle
<1>2. DOMAIN plans = {}
  BY DEF FieldInvariant, LoadFrtkProfile, ArrayOf, Array
<1>3. pc = "idle" /\ UNCHANGED <<pc, todo, guards, plans>>
  BY DEF LoadFrtkProfile, transaction
<1>. QED
  BY <1>1, <1>2, <1>3 DEF FieldInvariant, ArrayOf, Array

LEMMA BeginKeeps ==
  ASSUME FieldInvariant, NEW groups \in Requests, TransactBegin(groups)
  PROVE  FieldInvariant'
<1>1. Len(groups) > 0 /\ ArrayOf(groups, ParsedGroup)
  BY FieldAssumption
<1>2. DOMAIN plans = {}
  BY DEF FieldInvariant, TransactBegin, ArrayOf, Array
<1>3. /\ installed /\ pc' = "revalidate" /\ todo' = groups
      /\ UNCHANGED <<profile, installed, swapped, guards, plans>>
  BY DEF TransactBegin, host, game
<1>. QED
  BY <1>1, <1>2, <1>3, SameProfile DEF FieldInvariant, ArrayOf, Array

LEMMA RevalidateKeeps ==
  ASSUME FieldInvariant, Revalidate
  PROVE  FieldInvariant'
<1>1. CASE Quarantine /\ Return /\ UNCHANGED profile
  BY <1>1, ReturnKeeps DEF Revalidate, Quarantine
<1>2. CASE Evidence /\ guards' = Guards /\ pc' = "plan" /\ UNCHANGED <<host, todo, plans>>
  <2>1. pc = "revalidate" /\ UNCHANGED <<profile, installed, swapped, todo, plans>>
    BY <1>2 DEF Revalidate, host
  <2>2. AllConstrain(Guards, TableEnd) /\ Prove(Guards)
    BY <1>2, <2>1, GuardsLemma DEF FieldInvariant
  <2>3. (AllConstrain(guards, TableEnd) /\ Prove(guards))'
    BY <1>2, <2>1, <2>2, SameProfile
  <2>. QED
    BY <1>2, <2>1, <2>3, SameProfile DEF FieldInvariant, ArrayOf, Array
<1>. QED
  BY <1>1, <1>2 DEF Revalidate

LEMMA PlanKeeps ==
  ASSUME FieldInvariant, PlanFieldWrites
  PROVE  FieldInvariant'
<1>. DEFINE g == Head(todo)
            p == [group |-> g, read |-> Load(RowAddress(g.row), Table.size),
                  guards |-> guards, ops |-> Operations(g)]
<1>1. CASE Return
  BY <1>1, ReturnKeeps DEF PlanFieldWrites, host, FieldInvariant
<1>2. CASE /\ Plannable(g)
           /\ plans' = Append(plans, p)
           /\ todo' = Tail(todo)
           /\ pc' = IF Len(todo) = 1 THEN "submit" ELSE "revalidate"
           /\ guards' = {}
  <2>1. pc = "plan" /\ UNCHANGED <<profile, installed, swapped>>
    BY DEF PlanFieldWrites, host
  <2>2. /\ Array(todo) /\ Len(todo) \in Nat /\ Len(todo) > 0 /\ DOMAIN todo = 1..Len(todo)
        /\ \A k \in DOMAIN todo : todo[k].row \in Nat
    BY <2>1 DEF FieldInvariant, ArrayOf, Array, ParsedGroup
  <2>3. g.row \in Nat
    BY <2>2
  <2>4. PlanIsSound(p)
    BY <1>2, <2>1, <2>3, OperationsLemma DEF FieldInvariant, PlanIsSound
  <2>. HIDE DEF p
  <2>5. ArrayOf(todo', ParsedGroup) /\ Len(todo') = Len(todo) - 1
    BY <1>2, <2>2, TailLemma DEF ArrayOf, ParsedGroup
  <2>6. Array(plans) /\ Len(plans) \in Nat /\ \A k \in DOMAIN plans : PlanIsSound(plans[k])
    BY DEF FieldInvariant, ArrayOf, Array
  <2>7. Array(plans') /\ Len(plans') > 0 /\ \A k \in DOMAIN plans' : PlanIsSound(plans'[k])
    BY <1>2, <2>4, <2>6, AppendLemma
  <2>8. (Array(plans) /\ Len(plans) > 0 /\ \A k \in DOMAIN plans : PlanIsSound(plans[k]))'
    BY <2>1, <2>7, SameProfile
  <2>9. /\ pc' \in {"revalidate", "submit"}
        /\ pc' = "revalidate" => Len(todo') > 0
    BY <1>2, <2>2, <2>5
  <2>10. ProfileAccepted' /\ profile' # <<>>
    BY <2>1, SameProfile DEF FieldInvariant
  <2>. QED
    BY <2>5, <2>8, <2>9, <2>10 DEF FieldInvariant, ArrayOf
<1>. QED
  BY <1>1, <1>2 DEF PlanFieldWrites

LEMMA FieldStep ==
  ASSUME FieldInvariant, Next
  PROVE  FieldInvariant'
<1>1. CASE \E b \in Bundles : LoadFrtkProfile(b)
  BY <1>1, LoadKeeps
<1>2. CASE Discover
  BY <1>2, SameTransaction DEF Discover, game, transaction
<1>3. CASE ReadFields
  BY <1>3, SameTransaction DEF ReadFields, Quarantine, game, transaction
<1>4. CASE \E groups \in Requests : TransactBegin(groups)
  BY <1>4, BeginKeeps
<1>5. CASE Revalidate
  BY <1>5, RevalidateKeeps
<1>6. CASE PlanFieldWrites
  BY <1>6, PlanKeeps
<1>7. CASE Submit \/ Compare
  <2>1. CASE Return
    BY <1>7, <2>1, ReturnKeeps DEF Submit, Compare, host, FieldInvariant
  <2>2. CASE pc' \in {"compare", "write"} /\ UNCHANGED <<todo, guards, plans>>
    <3>1. pc \in {"submit", "compare"} /\ UNCHANGED <<profile, installed, swapped, todo, plans>>
      BY <1>7, <2>2 DEF Submit, Compare, host
    <3>. QED
      BY <2>2, <3>1, SameProfile DEF FieldInvariant, ArrayOf, Array
  <2>. QED
    BY <1>7, <2>1, <2>2 DEF Submit, Compare
<1>9. CASE Write
  <2>1. UNCHANGED <<profile, installed, swapped, pc, todo, guards, plans>>
    BY <1>9 DEF Write, host
  <2>. QED
    BY <2>1, SameTransaction DEF FieldInvariant
<1>10. CASE Finish \/ RollBack
  <2>1. Return /\ UNCHANGED <<profile, installed, swapped>>
    BY <1>10 DEF Finish, RollBack, host
  <2>. QED
    BY <2>1, ReturnKeeps DEF FieldInvariant
<1>8. CASE \E cell \in GameCells, byte \in Byte : GameStores(cell, byte)
  <2>1. UNCHANGED <<profile, installed, swapped, pc, todo, guards, plans>>
    BY <1>8 DEF GameStores, host, transaction
  <2>. QED
    BY <2>1, SameTransaction DEF FieldInvariant
<1>. QED
  BY <1>1, <1>2, <1>3, <1>4, <1>5, <1>6, <1>7, <1>8, <1>9, <1>10 DEF Next

\* The constraints of a transaction that is submitted.
LEMMA ConstraintsLemma ==
  ASSUME FieldInvariant, pc \in {"submit", "compare", "write"}
  PROVE  /\ AllConstrain(Constraints, TableEnd)
         /\ \E p \in SomeOf(plans) : Prove(p.guards) /\ p.guards \subseteq Constraints
<1>1. Len(plans) \in Nat /\ 1 \in DOMAIN plans /\ \A k \in DOMAIN plans : PlanIsSound(plans[k])
  BY DEF FieldInvariant, ArrayOf, Array
<1>2. \A p \in SomeOf(plans) : PlanIsSound(p)
  BY <1>1 DEF SomeOf
<1>3. AllConstrain(Constraints, TableEnd)
  BY <1>1, <1>2 DEF Constraints, PlanIsSound, AllConstrain
<1>4. plans[1] \in SomeOf(plans)
  BY <1>1 DEF SomeOf
<1>5. Prove(plans[1].guards) /\ plans[1].guards \subseteq Constraints
  BY <1>2, <1>4 DEF Constraints, PlanIsSound
<1>. QED
  BY <1>3, <1>4, <1>5

LEMMA WholeLemma == FieldInvariant => RequestIsWhole
<1>. SUFFICES ASSUME FieldInvariant, pc = "submit", ~Ambiguous(Constraints)
              PROVE  Whole(Constraints)
  BY DEF RequestIsWhole, Whole
<1>. QED
  BY ConstraintsLemma, FinalizedIsWhole

-----------------------------------------------------------------------------
(* Comparing, while the game stores.                                       *)

\* Operations of a request that hold what is expected, but for some cells.
Hold(ops, lost) ==
  \A o \in ops : \A x \in CellsOf(o) \ lost : memory[x + 1] = Expected(o, x)

\* A request that is compared is the merged one; what has been compared holds
\* until the first write, where the game did not store since.
ComparedInv ==
  /\ pc \in {"compare", "write"} => request = Finalized(Constraints) /\ ~Ambiguous(Constraints)
  /\ compared \subseteq request
  /\ pc = "write" => compared = request
  /\ pc \notin {"compare", "write"} => request = {}
  /\ pc # "write" => written = {}
  /\ written = {} => Hold(compared, late)

\* The memory keeps its size.
MemoryInv == \E m \in Memories : DOMAIN memory = DOMAIN m

LEMMA MemoryStep ==
  ASSUME MemoryInv, Next
  PROVE  MemoryInv'
<1>1. DOMAIN memory' = DOMAIN memory
  BY DEF Next, LoadFrtkProfile, Discover, ReadFields, TransactBegin, Revalidate, PlanFieldWrites,
         Submit, Compare, Write, Finish, RollBack, GameStores, game, With, Cells
<1>. QED
  BY <1>1 DEF MemoryInv

\* The bytes a request asks for are there.
LEMMA InMemory ==
  ASSUME FieldInvariant, MemoryInv, pc \in {"compare", "write"}, NEW o \in Finalized(Constraints),
         NEW x \in CellsOf(o)
  PROVE  x \in Nat /\ x + 1 \in DOMAIN memory
<1>1. ProfileAccepted
  <2>1. profile # <<>>
    BY DEF FieldInvariant
  <2>. QED
    BY <2>1 DEF FieldInvariant
<1>2. 1..TableEnd \subseteq DOMAIN memory /\ TableEnd \in Nat
  <2>1. PICK m \in Memories : DOMAIN memory = DOMAIN m
    BY DEF MemoryInv
  <2>2. 1..TableEnd \subseteq DOMAIN m
    BY <1>1, FieldAssumption DEF ProfileAccepted, TableEnd, Table
  <2>. QED
    BY <1>1, <2>1, <2>2, TableLemma DEF TableEnd
<1>3. PICK f \in Starts(Constraints) : o = Operation(Constraints, f)
  BY DEF Finalized
<1>4. AllConstrain(Constraints, TableEnd)
  BY ConstraintsLemma
<1>5. /\ f \in Nat /\ LastCell(Constraints, f) \in Nat /\ LastCell(Constraints, f) < TableEnd
      /\ x \in f..LastCell(Constraints, f)
  BY <1>3, <1>4, LastLemma, OperationLemma
<1>. QED
  BY <1>2, <1>5

\* The bytes of a range that matches.
LEMMA MatchesLemma ==
  ASSUME NEW o, o.addr \in Nat, Len(o.expected) \in Nat, Matches(o), NEW x \in CellsOf(o)
  PROVE  memory[x + 1] = Expected(o, x)
<1>1. /\ x \in Int /\ x - o.addr + 1 \in 1..Len(o.expected)
      /\ o.addr + (x - o.addr + 1) = x + 1
  BY DEF CellsOf
<1>2. Load(o.addr, Len(o.expected)) = [j \in 1..Len(o.expected) |-> memory[o.addr + j]]
  BY LoadLemma
<1>3. Load(o.addr, Len(o.expected))[x - o.addr + 1] = memory[o.addr + (x - o.addr + 1)]
  BY <1>1, <1>2
<1>. QED
  BY <1>1, <1>3 DEF Matches, Expected

LEMMA OperationIsRange ==
  ASSUME NEW n, NEW cs, AllConstrain(cs, n), NEW o \in Finalized(cs)
  PROVE  o.addr \in Nat /\ Len(o.expected) \in Nat
<1>1. PICK f \in Starts(cs) : o = Operation(cs, f)
  BY DEF Finalized
<1>2. f \in Nat
  BY LastLemma
<1>. QED
  BY <1>1, <1>2, OperationLemma

LEMMA ConstraintsStay ==
  ASSUME UNCHANGED plans
  PROVE  Constraints' = Constraints
BY DEF Constraints

LEMMA ReturnCompares ==
  ASSUME Return
  PROVE  ComparedInv'
BY DEF Return, ComparedInv, Hold

\* Steps that only shorten or lengthen the plans, or touch the catalog.
LEMMA OtherKeepsCompared ==
  ASSUME ComparedInv, pc \notin {"compare", "write"}, pc' \notin {"compare", "write"},
         UNCHANGED <<request, compared, written>>
  PROVE  ComparedInv'
<1>1. compared = {}
  BY DEF ComparedInv
<1>. QED
  BY <1>1 DEF ComparedInv, Hold

LEMMA CompareKeepsCompared ==
  ASSUME FieldInvariant, ComparedInv, Compare
  PROVE  ComparedInv'
<1>1. CASE Return
  BY <1>1, ReturnCompares
<1>2. CASE \E o \in request :
             /\ IsNext(o, request \ compared)
             /\ Matches(o)
             /\ compared' = compared \cup {o}
             /\ pc' = IF compared' = request THEN "write" ELSE "compare"
             /\ UNCHANGED <<todo, guards, plans, request, written, late>>
  <2>1. PICK o \in request : /\ Matches(o)
                             /\ compared' = compared \cup {o}
                             /\ pc' = IF compared' = request THEN "write" ELSE "compare"
                             /\ UNCHANGED <<todo, guards, plans, request, written, late>>
    BY <1>2
  <2>2. pc = "compare" /\ memory' = memory
    BY DEF Compare
  <2>3. o.addr \in Nat /\ Len(o.expected) \in Nat
    BY <2>2, ConstraintsLemma, OperationIsRange DEF ComparedInv
  <2>4. \A x \in CellsOf(o) : memory[x + 1] = Expected(o, x)
    BY <2>1, <2>3, MatchesLemma
  <2>5. Hold(compared, late)
    BY <2>2 DEF ComparedInv
  <2>6. Hold(compared', late)
    BY <2>1, <2>4, <2>5 DEF Hold
  <2>7. Hold(compared, late)'
    BY <2>1, <2>2, <2>6 DEF Hold, CellsOf, Expected
  <2>8. request' = Finalized(Constraints)' /\ ~Ambiguous(Constraints)'
    BY <2>1, <2>2, ConstraintsStay DEF ComparedInv
  <2>. QED
    BY <2>1, <2>2, <2>7, <2>8 DEF ComparedInv
<1>. QED
  BY <1>1, <1>2 DEF Compare

LEMMA StoreKeepsCompared ==
  ASSUME ComparedInv, NEW cell \in Nat, NEW byte, GameStores(cell, byte),
         \A o \in compared : \A x \in CellsOf(o) : x \in Nat /\ x + 1 \in DOMAIN memory
  PROVE  ComparedInv'
<1>1. /\ UNCHANGED <<pc, plans, request, compared, written>>
      /\ memory' = [memory EXCEPT ![cell + 1] = byte]
      /\ late' = IF cell \in Covered(compared) THEN late \cup {cell} ELSE late
  BY DEF GameStores, transaction
<1>2. ASSUME Hold(compared, late) PROVE Hold(compared, late)'
  <2>. SUFFICES ASSUME NEW o \in compared, NEW x \in CellsOf(o), x \notin late'
                PROVE  memory'[x + 1] = Expected(o, x)
    BY <1>1 DEF Hold, CellsOf, Expected
  <2>1. cell # x /\ x \notin late
    BY <1>1 DEF Covered
  <2>2. x + 1 # cell + 1 /\ x + 1 \in DOMAIN memory
    <3>1. x \in Nat /\ x + 1 \in DOMAIN memory
      OBVIOUS
    <3>. QED
      BY <2>1, <3>1
  <2>3. memory'[x + 1] = memory[x + 1]
    BY <1>1, <2>2
  <2>. QED
    BY <1>2, <2>1, <2>3 DEF Hold
<1>. QED
  BY <1>1, <1>2, ConstraintsStay DEF ComparedInv

LEMMA ComparedStep ==
  ASSUME FieldInvariant, MemoryInv, ComparedInv, Next
  PROVE  ComparedInv'
<1>1. CASE Compare
  BY <1>1, CompareKeepsCompared
<1>2. CASE Submit
  <2>1. CASE Return
    BY <2>1, ReturnCompares
  <2>2. CASE /\ ~Ambiguous(Constraints) /\ request' = Finalized(Constraints) /\ pc' = "compare"
             /\ UNCHANGED <<todo, guards, plans, compared, written, late>>
    <3>1. pc = "submit" /\ compared = {}
      BY <1>2 DEF Submit, ComparedInv
    <3>. QED
      BY <2>2, <3>1, ConstraintsStay DEF ComparedInv, Hold
  <2>. QED
    BY <1>2, <2>1, <2>2 DEF Submit
<1>3. CASE Write
  <2>1. /\ written' # {} /\ UNCHANGED <<pc, plans, request, compared>>
    BY <1>3 DEF Write
  <2>2. pc = "write"
    BY <1>3 DEF Write
  <2>. QED
    BY <2>1, <2>2, ConstraintsStay DEF ComparedInv
<1>4. CASE \E cell \in GameCells, byte \in Byte : GameStores(cell, byte)
  <2>1. PICK cell \in GameCells, byte \in Byte : GameStores(cell, byte)
    BY <1>4
  <2>2. ASSUME NEW o \in compared, NEW x \in CellsOf(o) PROVE x \in Nat /\ x + 1 \in DOMAIN memory
    <3>1. pc \in {"compare", "write"} /\ o \in Finalized(Constraints)
      BY <2>2 DEF ComparedInv, FieldInvariant
    <3>. QED
      BY <2>2, <3>1, InMemory
  <2>. QED
    BY <2>1, <2>2, StoreKeepsCompared, FieldAssumption
<1>5. CASE Finish \/ RollBack
  BY <1>5, ReturnCompares DEF Finish, RollBack
<1>6. CASE \/ \E b \in Bundles : LoadFrtkProfile(b)
           \/ Discover \/ ReadFields
  <2>1. pc = "idle" /\ UNCHANGED <<pc, request, compared, written>>
    BY <1>6 DEF LoadFrtkProfile, Discover, ReadFields, transaction
  <2>. QED
    BY <2>1, OtherKeepsCompared
<1>7. CASE \E groups \in Requests : TransactBegin(groups)
  <2>1. pc = "idle" /\ pc' = "revalidate" /\ UNCHANGED <<request, compared, written>>
    BY <1>7 DEF TransactBegin
  <2>. QED
    BY <2>1, OtherKeepsCompared
<1>8. CASE Revalidate \/ PlanFieldWrites
  <2>1. CASE Return
    BY <2>1, ReturnCompares
  <2>2. CASE pc' \in {"revalidate", "plan", "submit"} /\ UNCHANGED <<request, compared, written>>
    <3>1. pc \in {"revalidate", "plan"}
      BY <1>8 DEF Revalidate, PlanFieldWrites
    <3>. QED
      BY <2>2, <3>1, OtherKeepsCompared
  <2>. QED
    BY <1>8, <2>1, <2>2 DEF Revalidate, PlanFieldWrites
<1>. QED
  BY <1>1, <1>2, <1>3, <1>4, <1>5, <1>6, <1>7, <1>8 DEF Next

\* When all is compared, a guard reads as expected where the game did not store.
LEMMA HoldLemma ==
  ASSUME NEW n, NEW cs, AllConstrain(cs, n), ~Ambiguous(cs), NEW lost, Hold(Finalized(cs), lost),
         NEW c \in cs, CellsOf(c) \cap lost = {}
  PROVE  Load(c.addr, Len(c.expected)) = c.expected
<1>. DEFINE size == Len(c.expected)
<1>1. /\ c.addr \in Nat /\ size \in Nat \ {0}
      /\ c.expected = [k \in 1..size |-> c.expected[k]]
      /\ CellsOf(c) = c.addr..(c.addr + size - 1)
  <2>1. Constrains(c, n)
    BY DEF AllConstrain
  <2>. QED
    BY <2>1 DEF Constrains, Array, CellsOf
<1>2. ASSUME NEW k \in 1..size PROVE memory[c.addr + k] = c.expected[k]
  <2>. DEFINE x == c.addr + k - 1
  <2>1. x \in CellsOf(c) /\ x - c.addr + 1 = k /\ x + 1 = c.addr + k
    BY <1>1
  <2>2. PICK o \in Finalized(cs) : x \in CellsOf(o) /\ Expected(o, x) = Expected(c, x)
    BY <2>1, FinalizedIsWhole DEF Whole
  <2>3. memory[x + 1] = Expected(o, x)
    <3>1. x \in CellsOf(o) \ lost
      BY <2>1, <2>2
    <3>. HIDE DEF x
    <3>. QED
      BY <3>1 DEF Hold
  <2>. QED
    BY <2>1, <2>2, <2>3 DEF Expected
<1>3. Load(c.addr, size) = [k \in 1..size |-> memory[c.addr + k]]
  BY <1>1, LoadLemma
<1>. QED
  BY <1>1, <1>2, <1>3

LEMMA CommitLemma ==
  ASSUME FieldInvariant, ComparedInv
  PROVE  EvidenceHoldsAtCommit
<1>. SUFFICES ASSUME pc = "write", written = {}
     PROVE  /\ \A r \in SomeOf(Table.rows) : RowCells(r) \cap late = {} => Fingerprint(r)
            /\ \A l \in SomeOf(Table.links) : LinkCells(l) \cap late = {} => LinkHolds(l)
  BY DEF EvidenceHoldsAtCommit
<1>1. ~Ambiguous(Constraints) /\ Hold(Finalized(Constraints), late)
  BY DEF ComparedInv
<1>2. PICK p \in SomeOf(plans) : Prove(p.guards) /\ p.guards \subseteq Constraints
  BY ConstraintsLemma
<1>3. \A g \in p.guards : CellsOf(g) \cap late = {} => Load(g.addr, Len(g.expected)) = g.expected
  BY <1>1, <1>2, ConstraintsLemma, HoldLemma
<1>4. ProfileAccepted
  <2>1. profile # <<>>
    BY DEF FieldInvariant
  <2>. QED
    BY <2>1 DEF FieldInvariant
<1>. QED
  BY <1>2, <1>3, <1>4, ProofLemma

-----------------------------------------------------------------------------
(* One accepted form.                                                      *)

\* Two arrays in strictly ascending order that hold the same are the same.
Ordered(s, R) ==
  /\ Array(s)
  /\ \A j, k \in DOMAIN s : j < k => <<s[j], s[k]>> \in R

LEMMA PrefixLemma ==
  ASSUME NEW R, NEW s, NEW t, Ordered(s, R), Ordered(t, R), SomeOf(s) \subseteq SomeOf(t),
         \A p \in R : <<p[2], p[1]>> \notin R,
         NEW k \in DOMAIN s, \A j \in DOMAIN s : j < k => j \in DOMAIN t /\ t[j] = s[j]
  PROVE  \E i \in DOMAIN t : i >= k /\ t[i] = s[k]
<1>1. PICK i \in DOMAIN t : t[i] = s[k]
  BY DEF SomeOf
<1>2. /\ DOMAIN s = 1..Len(s) /\ DOMAIN t = 1..Len(t)
      /\ i \in Nat /\ k \in Nat /\ Len(s) \in Nat /\ i >= 1 /\ k <= Len(s)
  BY <1>1 DEF Ordered, Array
<1>3. ASSUME i < k PROVE FALSE
  <2>1. i \in DOMAIN s
    BY <1>2, <1>3
  <2>2. s[i] = s[k] /\ <<s[i], s[k]>> \in R
    BY <1>1, <1>3, <2>1 DEF Ordered
  <2>. QED
    BY <2>2
<1>. QED
  BY <1>1, <1>2, <1>3

LEMMA OrderedLemma ==
  ASSUME NEW R, NEW s, NEW t, Ordered(s, R), Ordered(t, R), SomeOf(s) = SomeOf(t),
         \A p \in R : <<p[2], p[1]>> \notin R
  PROVE  s = t
<1>. DEFINE Differs(k) == ~(k \in DOMAIN s /\ k \in DOMAIN t /\ s[k] = t[k])
            odd == {k \in DOMAIN s \cup DOMAIN t : Differs(k)}
<1>1. /\ DOMAIN s = 1..Len(s) /\ Len(s) \in Nat
      /\ DOMAIN t = 1..Len(t) /\ Len(t) \in Nat
  BY DEF Ordered, Array
<1>2. odd = {}
  <2>. SUFFICES ASSUME odd # {} PROVE FALSE
    OBVIOUS
  <2>1. odd \subseteq Nat
    BY <1>1
  <2>2. PICK k \in odd : \A m \in odd : k <= m
    <3>. HIDE DEF odd
    <3>. QED
      BY <2>1, LeastNat
  <2>3. k \in Nat /\ k >= 1 /\ k \in DOMAIN s \cup DOMAIN t /\ Differs(k)
    BY <1>1, <2>2
  <2>4. ASSUME NEW j \in Nat, j >= 1, j < k PROVE j \in DOMAIN s /\ j \in DOMAIN t /\ s[j] = t[j]
    <3>1. j \in DOMAIN s \cup DOMAIN t
      BY <1>1, <2>3, <2>4
    <3>2. j \notin odd
      BY <2>2, <2>3, <2>4
    <3>. QED
      BY <3>1, <3>2
  <2>. HIDE DEF odd, Differs
  <2>5. /\ k \in DOMAIN s => \E i \in DOMAIN t : i >= k /\ t[i] = s[k]
        /\ k \in DOMAIN t => \E i \in DOMAIN s : i >= k /\ s[i] = t[k]
    <3>1. \A j \in DOMAIN s : j < k => j \in DOMAIN t /\ t[j] = s[j]
      BY <1>1, <2>4
    <3>2. \A j \in DOMAIN t : j < k => j \in DOMAIN s /\ s[j] = t[j]
      BY <1>1, <2>4
    <3>3. k \in DOMAIN s => \E i \in DOMAIN t : i >= k /\ t[i] = s[k]
      BY <3>1, PrefixLemma
    <3>4. k \in DOMAIN t => \E i \in DOMAIN s : i >= k /\ s[i] = t[k]
      BY <3>2, PrefixLemma
    <3>. QED
      BY <3>3, <3>4
  <2>6. k \in DOMAIN s /\ k \in DOMAIN t
    <3>1. k \in DOMAIN s => k \in DOMAIN t
      BY <1>1, <2>3, <2>5
    <3>2. k \in DOMAIN t => k \in DOMAIN s
      BY <1>1, <2>3, <2>5
    <3>. QED
      BY <2>3, <3>1, <3>2
  <2>7. s[k] # t[k]
    BY <2>3, <2>6 DEF Differs
  <2>8. PICK i \in DOMAIN t : i > k /\ t[i] = s[k]
    <3>1. PICK i \in DOMAIN t : i >= k /\ t[i] = s[k]
      BY <2>5, <2>6
    <3>2. i \in Nat /\ i # k
      BY <1>1, <2>7, <3>1
    <3>. QED
      BY <2>3, <3>1, <3>2
  <2>9. PICK j \in DOMAIN s : j > k /\ s[j] = t[k]
    <3>1. PICK j \in DOMAIN s : j >= k /\ s[j] = t[k]
      BY <2>5, <2>6
    <3>2. j \in Nat /\ j # k
      BY <1>1, <2>7, <3>1
    <3>. QED
      BY <2>3, <3>1, <3>2
  <2>10. <<t[k], s[k]>> \in R /\ <<s[k], t[k]>> \in R
    <3>1. k < i /\ k < j
      BY <1>1, <2>3, <2>8, <2>9
    <3>2. <<t[k], t[i]>> \in R /\ <<s[k], s[j]>> \in R
      BY <2>6, <2>8, <2>9, <3>1 DEF Ordered
    <3>. QED
      BY <2>8, <2>9, <3>2
  <2>11. <<t[k], s[k]>>[1] = t[k] /\ <<t[k], s[k]>>[2] = s[k]
    OBVIOUS
  <2>. QED
    BY <2>10, <2>11
<1>3. \A k \in DOMAIN s \cup DOMAIN t : k \in DOMAIN s /\ k \in DOMAIN t /\ s[k] = t[k]
  BY <1>2
<1>4. Len(s) = Len(t)
  <2>1. Len(s) >= 1 => Len(s) <= Len(t)
    <3>1. Len(s) >= 1 => Len(s) \in DOMAIN t
      BY <1>1, <1>3
    <3>. QED
      BY <1>1, <3>1
  <2>2. Len(t) >= 1 => Len(t) <= Len(s)
    <3>1. Len(t) >= 1 => Len(t) \in DOMAIN s
      BY <1>1, <1>3
    <3>. QED
      BY <1>1, <3>1
  <2>3. \A m, n \in Nat : (m >= 1 => m <= n) /\ (n >= 1 => n <= m) => m = n
    OBVIOUS
  <2>. QED
    BY <1>1, <2>1, <2>2, <2>3
<1>5. s = [k \in 1..Len(s) |-> s[k]] /\ t = [k \in 1..Len(s) |-> t[k]]
  BY <1>4 DEF Ordered, Array
<1>6. \A k \in 1..Len(s) : s[k] = t[k]
  BY <1>1, <1>3
<1>. QED
  BY <1>5, <1>6

\* The orders of the parsers, on what two arrays hold.
LEMMA RowsAreEqual ==
  ASSUME NEW t, NEW u, ParsedTable(t), ParsedTable(u), AcceptedProfileTable(t), AcceptedProfileTable(u),
         SomeOf(t.rows) = SomeOf(u.rows)
  PROVE  t.rows = u.rows
<1>. DEFINE S == SomeOf(t.rows)
            R == {p \in S \X S : RowBefore(p[1], p[2])}
<1>1. \A r \in S : r.row \in Nat
  BY DEF ParsedTable, ArrayOf, SomeOf
<1>2. \A p \in R : <<p[2], p[1]>> \notin R
  BY <1>1 DEF RowBefore
<1>3. ASSUME NEW v, ParsedTable(v), AcceptedProfileTable(v), SomeOf(v.rows) = S
      PROVE  Ordered(v.rows, R)
  <2>1. Array(v.rows) /\ DOMAIN v.rows \subseteq Nat
    BY <1>3 DEF ParsedTable, ArrayOf, Array
  <2>2. ASSUME NEW j \in DOMAIN v.rows, NEW k \in DOMAIN v.rows, j < k
        PROVE  <<v.rows[j], v.rows[k]>> \in R
    <3>1. v.rows[j] \in S /\ v.rows[k] \in S
      BY <1>3 DEF SomeOf
    <3>2. v.rows[j].row # v.rows[k].row /\ ~(v.rows[k].row < v.rows[j].row)
      <4>1. j # k
        BY <2>1, <2>2
      <4>. QED
        BY <1>3, <2>2, <4>1 DEF AcceptedProfileTable, Ascending, RowBefore
    <3>3. v.rows[j].row < v.rows[k].row
      BY <1>1, <3>1, <3>2
    <3>. QED
      BY <3>1, <3>3 DEF RowBefore
  <2>. QED
    BY <2>1, <2>2 DEF Ordered
<1>4. Ordered(t.rows, R) /\ Ordered(u.rows, R)
  <2>. HIDE DEF R
  <2>. QED
    BY <1>3
<1>. HIDE DEF R, S
<1>. QED
  BY <1>2, <1>4, OrderedLemma

LEMMA LinksAreEqual ==
  ASSUME NEW t, NEW u, ParsedTable(t), ParsedTable(u), AcceptedProfileTable(t), AcceptedProfileTable(u),
         SomeOf(t.links) = SomeOf(u.links)
  PROVE  t.links = u.links
<1>. DEFINE S == SomeOf(t.links)
            R == {p \in S \X S : LinkBefore(p[1], p[2])}
<1>1. \A l \in S : l.row \in Nat /\ l.field \in Nat
  BY DEF ParsedTable, ArrayOf, SomeOf
<1>2. \A p \in R : <<p[2], p[1]>> \notin R
  BY <1>1 DEF LinkBefore
<1>3. ASSUME NEW v, ParsedTable(v), AcceptedProfileTable(v), SomeOf(v.links) = S
      PROVE  Ordered(v.links, R)
  <2>1. Array(v.links) /\ DOMAIN v.links \subseteq Nat
    BY <1>3 DEF ParsedTable, ArrayOf, Array
  <2>2. ASSUME NEW j \in DOMAIN v.links, NEW k \in DOMAIN v.links, j < k
        PROVE  <<v.links[j], v.links[k]>> \in R
    <3>1. v.links[j] \in S /\ v.links[k] \in S
      BY <1>3 DEF SomeOf
    <3>2. /\ ~(v.links[j].row = v.links[k].row /\ v.links[j].field = v.links[k].field)
          /\ ~LinkBefore(v.links[k], v.links[j])
      <4>1. j # k
        BY <2>1, <2>2
      <4>. QED
        BY <1>3, <2>2, <4>1 DEF AcceptedProfileTable, Ascending
    <3>3. LinkBefore(v.links[j], v.links[k])
      BY <1>1, <3>1, <3>2 DEF LinkBefore
    <3>. QED
      BY <3>1, <3>3
  <2>. QED
    BY <2>1, <2>2 DEF Ordered
<1>4. Ordered(t.links, R) /\ Ordered(u.links, R)
  <2>. HIDE DEF R
  <2>. QED
    BY <1>3
<1>. HIDE DEF R, S
<1>. QED
  BY <1>2, <1>4, OrderedLemma

LEMMA FieldsAreEqual ==
  ASSUME NEW t, NEW u, ParsedLayout(t), ParsedLayout(u), AcceptedTable(t), AcceptedTable(u),
         SomeOf(t.fields) = SomeOf(u.fields)
  PROVE  t.fields = u.fields
<1>. DEFINE S == SomeOf(t.fields)
            R == {p \in S \X S : FieldBefore(p[1], p[2])}
<1>1. \A d \in S : d.byte \in Nat /\ d.bit \in Nat /\ d.name \in Nat
  BY DEF ParsedLayout, ArrayOf, SomeOf
<1>2. \A p \in R : <<p[2], p[1]>> \notin R
  BY <1>1 DEF FieldBefore
<1>3. ASSUME NEW v, ParsedLayout(v), AcceptedTable(v), SomeOf(v.fields) = S
      PROVE  Ordered(v.fields, R)
  <2>1. Array(v.fields) /\ DOMAIN v.fields \subseteq Nat
    BY <1>3 DEF ParsedLayout, ArrayOf, Array
  <2>2. ASSUME NEW j \in DOMAIN v.fields, NEW k \in DOMAIN v.fields, j < k
        PROVE  <<v.fields[j], v.fields[k]>> \in R
    <3>1. v.fields[j] \in S /\ v.fields[k] \in S
      BY <1>3 DEF SomeOf
    <3>2. v.fields[j].name # v.fields[k].name /\ ~FieldBefore(v.fields[k], v.fields[j])
      <4>1. j # k
        BY <2>1, <2>2
      <4>. QED
        BY <1>3, <2>2, <4>1 DEF AcceptedTable, Ascending
    <3>3. FieldBefore(v.fields[j], v.fields[k])
      BY <1>1, <3>1, <3>2 DEF FieldBefore
    <3>. QED
      BY <3>1, <3>3
  <2>. QED
    BY <2>1, <2>2 DEF Ordered
<1>4. Ordered(t.fields, R) /\ Ordered(u.fields, R)
  <2>. HIDE DEF R
  <2>. QED
    BY <1>3
<1>. HIDE DEF R, S
<1>. QED
  BY <1>2, <1>4, OrderedLemma

\* Arrays of tables that are in the order of their IDs.
InIdOrder(s) ==
  /\ Array(s) /\ Ascending(s, IdBefore)
  /\ \A j, k \in DOMAIN s : s[j].id = s[k].id => j = k

LEMMA TablesAreEqual ==
  ASSUME NEW s, NEW t, InIdOrder(s), InIdOrder(t),
         SomeOf(s) = SomeOf(t), \A x \in SomeOf(s) : x.id \in Nat
  PROVE  s = t
<1>. DEFINE S == SomeOf(s)
            R == {p \in S \X S : IdBefore(p[1], p[2])}
<1>1. \A x \in S : x.id \in Nat
  OBVIOUS
<1>. HIDE DEF S
<1>2. \A p \in R : <<p[2], p[1]>> \notin R
  BY <1>1 DEF IdBefore
<1>3. ASSUME NEW v, InIdOrder(v), SomeOf(v) = S
      PROVE  Ordered(v, R)
  <2>1. Array(v) /\ DOMAIN v \subseteq Nat
    BY <1>3 DEF InIdOrder, Array
  <2>2. ASSUME NEW j \in DOMAIN v, NEW k \in DOMAIN v, j < k
        PROVE  <<v[j], v[k]>> \in R
    <3>1. v[j] \in S /\ v[k] \in S
      <4>1. SomeOf(v) = S
        BY <1>3
      <4>. QED
        BY <4>1 DEF SomeOf
    <3>2. v[j].id # v[k].id /\ ~IdBefore(v[k], v[j])
      <4>1. j # k
        BY <2>1, <2>2
      <4>. QED
        BY <1>3, <2>2, <4>1 DEF InIdOrder, Ascending
    <3>3. IdBefore(v[j], v[k])
      BY <1>1, <3>1, <3>2 DEF IdBefore
    <3>. QED
      BY <3>1, <3>3
  <2>. QED
    BY <2>1, <2>2 DEF Ordered
<1>4. Ordered(s, R) /\ Ordered(t, R)
  <2>. HIDE DEF R
  <2>1. SomeOf(s) = S /\ SomeOf(t) = S
    BY DEF S
  <2>. QED
    BY <1>3, <2>1
<1>. HIDE DEF R
<1>. QED
  BY <1>2, <1>4, OrderedLemma

\* A set of tables from which the order of their parts is left out still says
\* which tables they are.
PlainTable(t) == [t EXCEPT !.rows = SomeOf(t.rows), !.links = SomeOf(t.links)]
PlainLayout(t) == [t EXCEPT !.fields = SomeOf(t.fields)]

LEMMA SameTable ==
  ASSUME NEW t, NEW u, ParsedTable(t), ParsedTable(u), AcceptedProfileTable(t), AcceptedProfileTable(u),
         PlainTable(t) = PlainTable(u)
  PROVE  t = u
<1>1. ASSUME NEW v, ParsedTable(v)
      PROVE  PlainTable(v) = [name |-> v.name, id |-> v.id, uid |-> v.uid, capacity |-> v.capacity,
                              size |-> v.size, rows |-> SomeOf(v.rows), links |-> SomeOf(v.links)]
  <2>. DEFINE rows == SomeOf(v.rows)
              links == SomeOf(v.links)
  <2>1. v = [name |-> v.name, id |-> v.id, uid |-> v.uid, capacity |-> v.capacity,
             size |-> v.size, rows |-> v.rows, links |-> v.links]
    BY <1>1 DEF ParsedTable
  <2>2. PlainTable(v) = [v EXCEPT !.rows = rows, !.links = links]
    BY DEF PlainTable
  <2>. HIDE DEF rows, links
  <2>3. [v EXCEPT !.rows = rows, !.links = links]
          = [name |-> v.name, id |-> v.id, uid |-> v.uid, capacity |-> v.capacity,
             size |-> v.size, rows |-> rows, links |-> links]
    <3>1. [v EXCEPT !.rows = rows]
            = [name |-> v.name, id |-> v.id, uid |-> v.uid, capacity |-> v.capacity,
               size |-> v.size, rows |-> rows, links |-> v.links]
      BY <2>1
    <3>2. [v EXCEPT !.rows = rows, !.links = links] = [[v EXCEPT !.rows = rows] EXCEPT !.links = links]
      OBVIOUS
    <3>3. [[name |-> v.name, id |-> v.id, uid |-> v.uid, capacity |-> v.capacity,
            size |-> v.size, rows |-> rows, links |-> v.links] EXCEPT !.links = links]
            = [name |-> v.name, id |-> v.id, uid |-> v.uid, capacity |-> v.capacity,
               size |-> v.size, rows |-> rows, links |-> links]
      OBVIOUS
    <3>. QED
      BY <3>1, <3>2, <3>3
  <2>. QED
    BY <2>2, <2>3 DEF rows, links
<1>2. /\ t.name = u.name /\ t.id = u.id /\ t.uid = u.uid /\ t.capacity = u.capacity /\ t.size = u.size
      /\ SomeOf(t.rows) = SomeOf(u.rows) /\ SomeOf(t.links) = SomeOf(u.links)
  BY <1>1
<1>3. t.rows = u.rows /\ t.links = u.links
  BY <1>2, RowsAreEqual, LinksAreEqual
<1>. QED
  BY <1>2, <1>3 DEF ParsedTable

LEMMA SameLayout ==
  ASSUME NEW t, NEW u, ParsedLayout(t), ParsedLayout(u), AcceptedTable(t), AcceptedTable(u),
         PlainLayout(t) = PlainLayout(u)
  PROVE  t = u
<1>1. ASSUME NEW v, ParsedLayout(v)
      PROVE  PlainLayout(v) = [name |-> v.name, id |-> v.id, uid |-> v.uid, capacity |-> v.capacity,
                               size |-> v.size, authority |-> v.authority, fields |-> SomeOf(v.fields)]
  <2>. DEFINE fields == SomeOf(v.fields)
  <2>1. v = [name |-> v.name, id |-> v.id, uid |-> v.uid, capacity |-> v.capacity,
             size |-> v.size, authority |-> v.authority, fields |-> v.fields]
    BY <1>1 DEF ParsedLayout
  <2>2. PlainLayout(v) = [v EXCEPT !.fields = fields]
    BY DEF PlainLayout
  <2>. HIDE DEF fields
  <2>3. [v EXCEPT !.fields = fields]
          = [name |-> v.name, id |-> v.id, uid |-> v.uid, capacity |-> v.capacity,
             size |-> v.size, authority |-> v.authority, fields |-> fields]
    BY <2>1
  <2>. QED
    BY <2>2, <2>3 DEF fields
<1>2. /\ t.name = u.name /\ t.id = u.id /\ t.uid = u.uid /\ t.capacity = u.capacity /\ t.size = u.size
      /\ t.authority = u.authority /\ SomeOf(t.fields) = SomeOf(u.fields)
  BY <1>1
<1>3. t.fields = u.fields
  BY <1>2, FieldsAreEqual
<1>. QED
  BY <1>2, <1>3 DEF ParsedLayout

LEMMA OneForm ==
  ASSUME NEW b \in Bundles, NEW c \in Bundles, ParseProfile(b), ParseProfile(c), Meaning(b) = Meaning(c)
  PROVE  b = c
<1>1. ParsedBundle(b) /\ ParsedBundle(c)
  BY FieldAssumption
<1>2. /\ b.schema = c.schema /\ b.build = c.build
      /\ {PlainTable(t) : t \in SomeOf(b.tables)} = {PlainTable(t) : t \in SomeOf(c.tables)}
      /\ {PlainLayout(t) : t \in SomeOf(b.layout.tables)} = {PlainLayout(t) : t \in SomeOf(c.layout.tables)}
  BY DEF Meaning, PlainTable, PlainLayout
<1>3. ASSUME NEW x, ParsedBundle(x), ParseProfile(x)
      PROVE  /\ InIdOrder(x.tables) /\ InIdOrder(x.layout.tables)
             /\ \A t \in SomeOf(x.tables) : ParsedTable(t) /\ AcceptedProfileTable(t)
             /\ \A t \in SomeOf(x.layout.tables) : ParsedLayout(t) /\ AcceptedTable(t)
  <2>1. /\ InIdOrder(x.tables)
        /\ \A t \in SomeOf(x.tables) : ParsedTable(t) /\ AcceptedProfileTable(t)
    BY <1>3 DEF ParsedBundle, ParseProfile, ArrayOf, SomeOf, InIdOrder
  <2>2. /\ Array(x.layout.tables)
        /\ \A k \in DOMAIN x.layout.tables : ParsedLayout(x.layout.tables[k])
    BY <1>3 DEF ParsedBundle, ArrayOf
  <2>3. /\ \A k \in DOMAIN x.layout.tables : AcceptedTable(x.layout.tables[k])
        /\ \A j, k \in DOMAIN x.layout.tables :
             x.layout.tables[j].id = x.layout.tables[k].id => j = k
        /\ Ascending(x.layout.tables, IdBefore)
    BY <1>3 DEF ParseProfile, LoadsLayout
  <2>4. InIdOrder(x.layout.tables)
    BY <2>2, <2>3 DEF InIdOrder
  <2>5. \A t \in SomeOf(x.layout.tables) : ParsedLayout(t) /\ AcceptedTable(t)
    BY <2>2, <2>3 DEF SomeOf
  <2>. QED
    BY <2>1, <2>4, <2>5
<1>4. SomeOf(b.tables) = SomeOf(c.tables)
  <2>1. \A t \in SomeOf(b.tables), u \in SomeOf(c.tables) : PlainTable(t) = PlainTable(u) => t = u
    BY <1>1, <1>3, SameTable
  <2>. QED
    BY <1>2, <2>1
<1>5. SomeOf(b.layout.tables) = SomeOf(c.layout.tables)
  <2>1. \A t \in SomeOf(b.layout.tables), u \in SomeOf(c.layout.tables) :
          PlainLayout(t) = PlainLayout(u) => t = u
    BY <1>1, <1>3, SameLayout
  <2>. QED
    BY <1>2, <2>1
<1>6. b.tables = c.tables
  <2>1. \A t \in SomeOf(b.tables) : t.id \in Nat
    <3>1. \A t \in SomeOf(b.tables) : t.id \in TableIds
      BY <1>1, <1>3 DEF AcceptedProfileTable
    <3>. QED
      BY <3>1 DEF TableIds
  <2>. QED
    BY <1>1, <1>3, <1>4, <2>1, TablesAreEqual
<1>7. b.layout.tables = c.layout.tables
  <2>1. \A t \in SomeOf(b.layout.tables) : t.id \in Nat
    <3>1. \A t \in SomeOf(b.layout.tables) : t.id \in TableIds
      BY <1>1, <1>3 DEF AcceptedTable
    <3>. QED
      BY <3>1 DEF TableIds
  <2>. QED
    BY <1>1, <1>3, <1>5, <2>1, TablesAreEqual
<1>8. b.layout = c.layout
  <2>1. /\ b.schema = b.layout.schema /\ b.build = b.layout.build
        /\ c.schema = c.layout.schema /\ c.build = c.layout.build
    BY DEF ParseProfile
  <2>. QED
    BY <1>1, <1>2, <1>7, <2>1 DEF ParsedBundle
<1>9. b.signed = c.signed
  <2>1. b.signed /\ c.signed
    BY DEF ParseProfile
  <2>. QED
    BY <1>1, <2>1 DEF ParsedBundle
<1>. QED
  BY <1>1, <1>2, <1>6, <1>8, <1>9 DEF ParsedBundle

LEMMA NewFormLemma ==
  ASSUME FieldInvariant, Next, profile # <<>>, profile' # profile
  PROVE  Meaning(profile'[1]) # Meaning(profile[1])
<1>1. PICK b \in Bundles : LoadFrtkProfile(b)
  BY DEF Next, Discover, ReadFields, TransactBegin, Revalidate, PlanFieldWrites, Submit, Compare, Write,
         Finish, RollBack, GameStores, host
<1>2. profile' = <<b>> /\ ParseProfile(b) /\ profile'[1] = b
  BY <1>1 DEF LoadFrtkProfile
<1>3. profile = <<profile[1]>> /\ profile[1] \in Bundles /\ ParseProfile(profile[1])
  BY DEF FieldInvariant, ProfileAccepted, Bundle
<1>4. b # profile[1]
  BY <1>2, <1>3
<1>. QED
  BY <1>2, <1>3, <1>4, OneForm

-----------------------------------------------------------------------------
(* Theorems.                                                               *)

\* Whatever is loaded, asked for and stored by the game, a transaction goes from
\* step to step with plans whose guards show the evidence (transactFrtkFields).
THEOREM FieldsAreKept == Spec => []FieldInvariant
<1>1. Init => FieldInvariant
  BY DEF Init, FieldInvariant, ArrayOf, Array
<1>2. FieldInvariant /\ [Next]_vars => FieldInvariant'
  <2>1. ASSUME FieldInvariant, UNCHANGED vars PROVE FieldInvariant'
    <3>1. UNCHANGED <<profile, installed, swapped, pc, todo, guards, plans>>
      BY <2>1 DEF vars, host, game, transaction
    <3>. QED
      BY <2>1, <3>1, SameTransaction DEF FieldInvariant
  <2>. QED
    BY <2>1, FieldStep
<1>. QED
  BY <1>1, <1>2, PTL DEF Spec

\* However the ranges of the plans overlap, the request they are merged into has
\* disjoint operations, asks for every byte they ask for and no other one, and
\* expects and replaces it alike (FinalizeFieldTransaction, lines 321 to 370).
THEOREM RequestsAreWhole == Spec => []RequestIsWhole
BY FieldsAreKept, WholeLemma, PTL

\* When RunTransaction has compared everything and is about to write, the evidence of
\* the catalog is as it has to be, whatever the game stored since the plans were made;
\* only what it stored between the comparison of a range and that moment can be missed
\* (FinalizeFieldTransaction, lines 303 to 312; RunTransaction, lines 221 to 230).
THEOREM EvidenceIsCurrent == Spec => []EvidenceHoldsAtCommit
<1>1. Init => ComparedInv /\ MemoryInv
  BY DEF Init, ComparedInv, Hold, MemoryInv
<1>2. ASSUME FieldInvariant, MemoryInv, ComparedInv, [Next]_vars PROVE (ComparedInv /\ MemoryInv)'
  <2>1. CASE UNCHANGED vars
    <3>1. UNCHANGED <<pc, plans, request, compared, written, memory, late>>
      BY <2>1 DEF vars, game, transaction
    <3>. QED
      BY <1>2, <3>1, ConstraintsStay DEF ComparedInv, Hold, CellsOf, Expected, MemoryInv
  <2>. QED
    BY <1>2, <2>1, ComparedStep, MemoryStep
<1>. QED
  BY <1>1, <1>2, FieldsAreKept, CommitLemma, PTL DEF Spec

\* Two bundles that say the same are the same bundle: the order checks of the
\* parsers leave one form for every set of tables, rows, relationships and
\* fields, so the digest of it identifies what it says.
THEOREM FormsAreUnique == Spec => OneAcceptedForm
<1>. DEFINE New == profile # <<>> /\ profile' # profile => Meaning(profile'[1]) # Meaning(profile[1])
<1>1. ASSUME FieldInvariant, [Next]_vars PROVE [New]_vars
  BY <1>1, NewFormLemma
<1>. QED
  BY <1>1, FieldsAreKept, PTL DEF Spec, OneAcceptedForm
=============================================================================
