--------------------------- MODULE FrtkFieldSchema ---------------------------
(***************************************************************************)
(* The field layouts of native/host/frtk_field_schema.cpp and their codec: *)
(* which layouts are accepted, what value a field of a record has, and the *)
(* record that results from giving it another one.                         *)
(*                                                                         *)
(* A record is a sequence of bytes; byte and bit offsets count from 0, the *)
(* most significant bit first.  The sizes of the code (8 bits in a byte,   *)
(* 17 in the row part of a reference) are constants, because TLC's         *)
(* integers cannot hold a five-byte window; the arithmetic is the code's.  *)
(* A logical name is a number in the order of the names.                   *)
(***************************************************************************)
EXTENDS Integers, Sequences, FiniteSets

CONSTANTS
  ByteBits,        \* the bits of a byte
  RowBits,         \* the bits of a row index in a packed reference
  MaxRecordSize,   \* 4096
  MaxFields,       \* kMaxFieldsPerTable
  MaxTables        \* kMaxTables

MaxWidth == 4 * ByteBits
MaxStorage == 5
NoTable == -1      \* a reference_table_id that is null

Radix == 2 ^ ByteBits
Byte == 0..(Radix - 1)
TableIds == 0..(2 ^ (MaxWidth - RowBits) - 1)
Rows == 0..(2 ^ RowBits - 1)
Encodings == {"unsigned", "signed", "offset-binary", "bitfield", "packed-reference"}

\* The two shapes of a DecodedField.
Number(n) == [number |-> n]
Reference(table, row) == [table |-> table, row |-> row]
IsReference(v) == "table" \in DOMAIN v

-----------------------------------------------------------------------------
(* Layouts.                                                                *)

LegalMinimum(d) == IF d.encoding = "signed" THEN -(2 ^ (d.width - 1)) ELSE 0
LegalMaximum(d) == IF d.encoding = "signed" THEN 2 ^ (d.width - 1) - 1 ELSE 2 ^ d.width - 1

\* ValidateDefinition.  An offset-binary field may start anywhere as long as
\* its range fits the width.
LegalRange(d) ==
  /\ d.min <= d.max
  /\ IF d.encoding = "offset-binary" THEN d.max - d.min < 2 ^ d.width
     ELSE LegalMinimum(d) <= d.min /\ d.max <= LegalMaximum(d)

ValidDefinition(size, d) ==
  /\ d.width \in 1..MaxWidth
  /\ d.storage \in 1..MaxStorage
  /\ d.byte + d.storage <= size
  /\ d.bit + d.width <= d.storage * ByteBits
  /\ d.encoding \in Encodings
  /\ d.encoding = "packed-reference" => d.storage = 4 /\ d.bit = 0 /\ d.width = MaxWidth
  /\ LegalRange(d)

\* ParseField: the declared numbers are bounded before the definition is
\* checked, and exactly the references name a target table.
AcceptedField(size, d) ==
  /\ d.min \in -(2 ^ (MaxWidth - 1))..(2 ^ MaxWidth - 1)
  /\ d.max \in -(2 ^ (MaxWidth - 1))..(2 ^ MaxWidth - 1)
  /\ ValidDefinition(size, d)
  /\ (d.encoding = "packed-reference") = (d.target # NoTable)
  /\ d.target # NoTable => d.target \in TableIds

FieldBefore(c, d) ==
  \/ c.byte < d.byte
  \/ c.byte = d.byte /\ c.bit < d.bit
  \/ c.byte = d.byte /\ c.bit = d.bit /\ c.name < d.name

\* ParseTable: a sequence of fields in canonical order, each name once.  Two
\* fields may share bits.
Ascending(s, Before(_, _)) == \A a, b \in DOMAIN s : a < b => ~Before(s[b], s[a])
AcceptedTable(t) ==
  /\ t.id \in TableIds
  /\ t.capacity \in Rows \ {0}
  /\ t.size \in 1..MaxRecordSize
  /\ Len(t.fields) <= MaxFields
  /\ \A k \in DOMAIN t.fields : AcceptedField(t.size, t.fields[k])
  /\ \A a, b \in DOMAIN t.fields : t.fields[a].name = t.fields[b].name => a = b
  /\ Ascending(t.fields, FieldBefore)

FindTable(tables, id) == {k \in DOMAIN tables : tables[k].id = id}
FindField(table, name) == {k \in DOMAIN table.fields : table.fields[k].name = name}

\* SchemaRegistry::Load.  A file cannot declare another authority than
\* discovery_only.
IdBefore(s, t) == s.id < t.id
LoadsLayout(layout) ==
  /\ Len(layout.tables) \in 1..MaxTables
  /\ \A k \in DOMAIN layout.tables :
       AcceptedTable(layout.tables[k]) /\ layout.tables[k].authority = "discovery_only"
  /\ \A a, b \in DOMAIN layout.tables :
       \/ layout.tables[a].id = layout.tables[b].id
       \/ layout.tables[a].uid = layout.tables[b].uid
       => a = b
  /\ Ascending(layout.tables, IdBefore)
  /\ \A k \in DOMAIN layout.tables :
       \A f \in DOMAIN layout.tables[k].fields :
         LET target == layout.tables[k].fields[f].target
         IN  target # NoTable => FindTable(layout.tables, target) # {}

-----------------------------------------------------------------------------
(* The codec.                                                              *)

\* DecodePackedReference, EncodePackedReference
DecodePackedReference(n) == Reference(n \div 2 ^ RowBits, n % 2 ^ RowBits)
EncodePackedReference(r) == r.table * 2 ^ RowBits + r.row

\* ReadStorage: the big-endian number in the field's window.
BigEndian(bytes) ==
  LET value[k \in 0..Len(bytes)] == IF k = 0 THEN 0 ELSE value[k - 1] * Radix + bytes[k]
  IN  value[Len(bytes)]
ReadStorage(record, d) == BigEndian(SubSeq(record, d.byte + 1, d.byte + d.storage))

Shift(d) == 2 ^ (d.storage * ByteBits - d.bit - d.width)
Raw(record, d) == (ReadStorage(record, d) \div Shift(d)) % 2 ^ d.width

DecodeField(record, d) ==
  LET raw == Raw(record, d)
  IN  CASE d.encoding = "packed-reference" -> DecodePackedReference(raw)
        [] d.encoding = "offset-binary" -> Number(raw + d.min)
        [] d.encoding = "signed" ->
             Number(IF raw < 2 ^ (d.width - 1) THEN raw ELSE raw - 2 ^ d.width)
        [] OTHER -> Number(raw)

\* The number EncodeField stores for a value, and the values it refuses.  A bug:
\* an offset-binary number is stored without its offset.
Numeric(d, v) == IF IsReference(v) THEN EncodePackedReference(v) ELSE v.number
Encodable(d, v) ==
  /\ IsReference(v) = (d.encoding = "packed-reference")
  /\ IsReference(v) => v.table = d.target /\ v.table \in TableIds /\ v.row \in Rows
  /\ Numeric(d, v) \in d.min..d.max
StoredFromZero(d, v) == Numeric(d, v) % 2 ^ d.width
Stored(d, v) ==
  IF d.encoding = "offset-binary" THEN Numeric(d, v) - d.min ELSE Numeric(d, v) % 2 ^ d.width

\* The record with the window's number replaced.
WithStorage(record, d, n) ==
  [k \in DOMAIN record |->
     IF k \in (d.byte + 1)..(d.byte + d.storage)
     THEN (n \div Radix ^ (d.byte + d.storage - k)) % Radix
     ELSE record[k]]

EncodeField(record, d, v) ==
  LET kept == ReadStorage(record, d) - Raw(record, d) * Shift(d)
  IN  WithStorage(record, d, kept + Stored(d, v) * Shift(d))
=============================================================================
