-------------------------- MODULE FieldTransaction --------------------------
(***************************************************************************)
(* Typed writes, byte by byte: transactFrtkFields of lua_host.cpp with     *)
(* native/host/frtk_record_access.cpp.  Each group of changes to a record  *)
(* revalidates the catalog, which reads the evidence, and is planned from  *)
(* a fresh read of the record; the plans are merged into one guarded       *)
(* request, which compares its ranges one after another and then writes    *)
(* them one after another.  Between any two of these steps the game may    *)
(* store into the table.  A range is read and written whole here; module   *)
(* MemoryTransaction has the steps below that, and those of a rollback.    *)
(*                                                                         *)
(* One table of the profile is modelled with its bytes; the evidence of    *)
(* the others lies elsewhere.  Addresses count from 0 at its base.         *)
(***************************************************************************)
EXTENDS FrtkProfile, SequencesExt

CONSTANTS
  Bundles,         \* the bundles a client may send to loadFrtkProfile
  Builds,          \* the build identities this executable matches
  Memories,        \* the contents the table may start with
  Requests,        \* the requests: sequences of groups [row, changes]
  GameCells,       \* the addresses the game stores to
  MaxStores,       \* bound on its stores
  MaxRequests,     \* bound on the requests of a behaviour
  MaxOpBytes,      \* kMaxOperationBytes
  MaxOps,          \* kMaxTransactionOperations
  MaxTotalBytes    \* kMaxTransactionBytes

\* What is left of a bundle and of a request when they have been read: arrays, not
\* empty in a request, and structures; rows and offsets are unsigned numbers, and
\* names have an order.
Array(s) == Len(s) \in Nat /\ s = [k \in 1..Len(s) |-> s[k]]
ArrayOf(s, Sound(_)) == Array(s) /\ \A k \in DOMAIN s : Sound(s[k])
ParsedTable(t) ==
  /\ t = [name |-> t.name, id |-> t.id, uid |-> t.uid, capacity |-> t.capacity,
          size |-> t.size, rows |-> t.rows, links |-> t.links]
  /\ ArrayOf(t.rows, LAMBDA r : r.row \in Nat)
  /\ ArrayOf(t.links, LAMBDA l : l.row \in Nat /\ l.field \in Nat)
ParsedLayout(t) ==
  /\ t = [name |-> t.name, id |-> t.id, uid |-> t.uid, capacity |-> t.capacity,
          size |-> t.size, authority |-> t.authority, fields |-> t.fields]
  /\ ArrayOf(t.fields, LAMBDA d : d.byte \in Nat /\ d.bit \in Nat /\ d.name \in Nat)
ParsedBundle(b) ==
  /\ b = [schema |-> b.schema, build |-> b.build, signed |-> b.signed,
          tables |-> b.tables, layout |-> b.layout]
  /\ b.signed \in BOOLEAN
  /\ b.layout = [schema |-> b.layout.schema, build |-> b.layout.build,
                 tables |-> b.layout.tables]
  /\ ArrayOf(b.tables, ParsedTable)
  /\ ArrayOf(b.layout.tables, ParsedLayout)
ParsedGroup(g) == g.row \in Nat
ASSUME FieldAssumption ==
  /\ MaxRecordSize \in Nat
  /\ \A b \in Bundles : ParsedBundle(b)
  /\ \A groups \in Requests : Len(groups) > 0 /\ ArrayOf(groups, ParsedGroup)
  /\ GameCells \subseteq Nat
  /\ \A b \in Bundles, m \in Memories :      \* the bytes of the whole table
       ParseProfile(b) => 1..(b.tables[1].capacity * b.tables[1].size) \subseteq DOMAIN m

VARIABLES
  profile,     \* g_frtk_profile, <<>> when none is loaded
  installed,   \* the catalog holds the profile's tables
  swapped,     \* the game keeps the records word-swapped
  memory,      \* the bytes of the table, from its base on
  pc,          \* idle; the next step of a transaction: revalidate, plan, submit,
               \* compare, write
  todo,        \* its groups not planned yet
  guards,      \* the evidence the last Revalidate read
  plans,       \* its FieldWritePlans
  request,     \* the operations of its TransactionRequest
  compared,    \* those that RunTransaction has compared
  written,     \* those that it has written
  late,        \* history: the cells the game stored to after their comparison
  stores, requests   \* counters for the bounds

host == <<profile, installed>>
transaction == <<pc, todo, guards, plans, request, compared, written>>
game == <<swapped, memory, late>>
counters == <<stores, requests>>
vars == <<host, game, transaction, counters>>

Cells == DOMAIN memory
Bundle == profile[1]
Table == Bundle.tables[1]
Schema == Bundle.layout.tables[CHOOSE k \in FindTable(Bundle.layout.tables, Table.id) : TRUE]
HasField(name) == FindField(Schema, name) # {}
Definition(name) == Schema.fields[CHOOSE k \in FindField(Schema, name) : TRUE]

-----------------------------------------------------------------------------
(* Live records.                                                           *)

\* SwapWords reverses every four bytes, and what is left of them at the end.
WordEnd(n, k) == LET end == ((k - 1) \div 4) * 4 + 4 IN IF end < n THEN end ELSE n
SwapWords(bytes) ==
  [k \in DOMAIN bytes |-> bytes[((k - 1) \div 4) * 4 + 1 + WordEnd(Len(bytes), k) - k]]
Live(record) == IF swapped THEN SwapWords(record) ELSE record

RowAddress(row) == row * Table.size
Load(address, n) == SubSeq(memory, address + 1, address + n)
Record(row) == Live(Load(RowAddress(row), Table.size))

\* A reference names the declared table, that table is in the catalog, and its
\* row exists.
ValidReference(d, v) ==
  d.encoding = "packed-reference" =>
    /\ IsReference(v)
    /\ v.table = d.target
    /\ \E k \in FindTable(Bundle.tables, v.table) : v.row < Bundle.tables[k].capacity

-----------------------------------------------------------------------------
(* Revalidate, for the table that is modelled.                             *)

Guard(address, n) == [addr |-> address, expected |-> Load(address, n), replacement |-> <<>>]

\* A fingerprinted row still has its selected bytes.
Fingerprint(r) == \A k \in r.mask : Live(Load(RowAddress(r.row), Table.size))[k] = r.pattern[k]

\* A relationship's field is a reference, and its four bytes, taken where the
\* field is in the layout and reversed when the words are, name the target.
LinkAddress(l) == RowAddress(l.row) + Definition(l.field).byte
LinkIsPlain(l) == HasField(l.field) /\ Definition(l.field).encoding = "packed-reference"
LinkHolds(l) ==
  LET raw == Load(LinkAddress(l), 4)
  IN  /\ LinkIsPlain(l)
      /\ DecodePackedReference(BigEndian(IF swapped THEN Reverse(raw) ELSE raw))
           = Reference(l.target, l.targetRow)

SomeOf(s) == {s[k] : k \in DOMAIN s}
Evidence ==
  /\ \A r \in SomeOf(Table.rows) : Fingerprint(r)
  /\ \A l \in SomeOf(Table.links) : LinkHolds(l)

\* What the evidence snapshot guards: whole fingerprinted records, masked or
\* not, and the bytes of the relationships.
Guards ==
  {Guard(RowAddress(r.row), Table.size) : r \in SomeOf(Table.rows)}
    \cup {Guard(LinkAddress(l), 4) : l \in SomeOf(Table.links)}

-----------------------------------------------------------------------------
Init ==
  /\ profile = <<>>
  /\ installed = FALSE
  /\ swapped \in BOOLEAN
  /\ memory \in Memories
  /\ pc = "idle"
  /\ todo = <<>>
  /\ guards = {}
  /\ plans = <<>>
  /\ request = {} /\ compared = {} /\ written = {}
  /\ late = {}
  /\ stores = 0
  /\ requests = 0

\* loadFrtkProfile: anything but an accepted bundle of this build is refused
\* and leaves the profile and the catalog alone.
LoadFrtkProfile(b) ==
  /\ pc = "idle"
  /\ ParseProfile(b)
  /\ b.build \in Builds
  /\ profile' = <<b>>
  /\ installed' = FALSE
  /\ UNCHANGED <<game, transaction, counters>>

\* discoverFrtkCatalog found every table (modules FrtkDiscovery, FrtkCatalog).
\* Here one discovered table is promoted to direct_verified.
Discover ==
  /\ pc = "idle"
  /\ profile # <<>>
  /\ Evidence
  /\ installed' = TRUE
  /\ UNCHANGED <<profile, game, transaction, counters>>

\* The handler returns.
Return ==
  /\ pc' = "idle" /\ todo' = <<>> /\ guards' = {} /\ plans' = <<>>
  /\ request' = {} /\ compared' = {} /\ written' = {} /\ late' = {}

\* readFrtkRecords, and the refusals of transactFrtkFields that read nothing,
\* only leave a trace when the revalidation fails: the table is quarantined,
\* also when other evidence is gone or could not be read.
Quarantine == installed' = FALSE
ReadFields ==
  /\ pc = "idle"
  /\ installed
  /\ Quarantine
  /\ UNCHANGED <<profile, game, transaction, counters>>

\* transactFrtkFields has grouped its changes by record.
TransactBegin(groups) ==
  /\ pc = "idle"
  /\ installed
  /\ requests < MaxRequests
  /\ requests' = requests + 1
  /\ pc' = "revalidate"
  /\ todo' = groups
  /\ UNCHANGED <<host, game, guards, plans, request, compared, written, stores>>

\* PlanFieldWrites begins with a Revalidate of its own.
Revalidate ==
  /\ pc = "revalidate"
  /\ \/ /\ Evidence
        /\ guards' = Guards
        /\ pc' = "plan"
        /\ UNCHANGED <<host, todo, plans, request, compared, written, late>>
     \/ Quarantine /\ Return /\ UNCHANGED profile
  /\ UNCHANGED <<swapped, memory, counters>>

\* The record with every change of a group encoded in turn.
Encoded(record, changes) ==
  FoldLeft(LAMBDA r, c : EncodeField(r, Definition(c.field), c.value), record, changes)

\* The smallest runs of differing bytes, as write operations at an address.
Differ(old, new) == {k \in DOMAIN old : old[k] # new[k]}
RunFrom(cells, first) ==
  {k \in cells : k >= first /\ first..k \subseteq cells}
Runs(old, new, address) ==
  LET cells == Differ(old, new)
  IN  { LET last == Max(RunFrom(cells, first))
        IN  [addr |-> address + first - 1,
             expected |-> SubSeq(old, first, last),
             replacement |-> SubSeq(new, first, last)]
        : first \in {k \in cells : k - 1 \notin cells} }

Plannable(g) ==
  /\ g.row < Table.capacity
  /\ g.changes # <<>>
  /\ \A a, b \in DOMAIN g.changes : g.changes[a].field = g.changes[b].field => a = b
  /\ \A c \in SomeOf(g.changes) :
       /\ HasField(c.field)
       /\ ValidReference(Definition(c.field), c.value)
       /\ Encodable(Definition(c.field), c.value)

\* The rest of PlanFieldWrites.  Only the bytes that change are part of the
\* plan; "read" remembers the whole record for the properties.
Operations(g) ==
  LET old == Load(RowAddress(g.row), Table.size)
      new == Live(Encoded(Record(g.row), g.changes))
  IN  Runs(old, new, RowAddress(g.row))
PlanFieldWrites ==
  /\ pc = "plan"
  /\ LET g == Head(todo) IN
       \/ /\ Plannable(g)
          /\ Cardinality(Operations(g)) \in 1..MaxOps
          /\ plans' = Append(plans,
               [group |-> g, read |-> Load(RowAddress(g.row), Table.size),
                guards |-> guards, ops |-> Operations(g)])
          /\ todo' = Tail(todo)
          /\ pc' = IF Len(todo) = 1 THEN "submit" ELSE "revalidate"
          /\ guards' = {}
          /\ UNCHANGED <<request, compared, written, late>>
       \/ Return      \* FIELD_INVALID, or the record could not be read
  /\ UNCHANGED <<host, swapped, memory, counters>>

-----------------------------------------------------------------------------
(* FinalizeFieldTransaction.                                               *)

\* A bug: the plans' guards stay behind.
ConstraintsWithoutGuards == UNION {p.ops : p \in SomeOf(plans)}
Constraints == UNION {p.guards \cup p.ops : p \in SomeOf(plans)}

CellsOf(c) == c.addr..(c.addr + Len(c.expected) - 1)
IsWrite(c) == c.replacement # <<>>
Expected(c, cell) == c.expected[cell - c.addr + 1]
Replacement(c, cell) == c.replacement[cell - c.addr + 1]

\* AddOperationConstraints: two expectations or two replacements of one byte
\* differ.
Ambiguous(cs) ==
  \E a, b \in cs :
    \E cell \in CellsOf(a) \cap CellsOf(b) :
      \/ Expected(a, cell) # Expected(b, cell)
      \/ IsWrite(a) /\ IsWrite(b) /\ Replacement(a, cell) # Replacement(b, cell)

\* Ranges that share a byte become one component; ranges that only touch stay
\* apart.  A component starts where no range begun earlier is still open, and
\* ends with the last of its ranges to end.
End(c) == c.addr + Len(c.expected) - 1
Starts(cs) == {c.addr : c \in cs} \ UNION {(c.addr + 1)..End(c) : c \in cs}
Members(cs, first) == {c \in cs : Max({n \in Starts(cs) : n <= c.addr}) = first}
EndOfLastBegun(cs, first) ==
  LET begun == Max({c.addr : c \in Members(cs, first)})
  IN  Max({End(c) : c \in {m \in Members(cs, first) : m.addr = begun}})
LastCell(cs, first) == Max({End(c) : c \in Members(cs, first)})

MergedExpected(cs, cell) ==
  LET c == CHOOSE c \in cs : cell \in CellsOf(c) IN Expected(c, cell)
MergedReplacement(cs, cell) ==
  LET writers == {c \in cs : IsWrite(c) /\ cell \in CellsOf(c)}
  IN  IF writers = {} THEN MergedExpected(cs, cell)
      ELSE LET c == CHOOSE c \in writers : TRUE IN Replacement(c, cell)

Operation(cs, first) ==
  LET size == LastCell(cs, first) - first + 1
  IN  [ addr |-> first,
        expected |-> [k \in 1..size |-> MergedExpected(cs, first + k - 1)],
        replacement |->
          IF \E c \in Members(cs, first) : IsWrite(c)
          THEN [k \in 1..size |-> MergedReplacement(cs, first + k - 1)]
          ELSE <<>> ]

Covered(cs) == UNION {CellsOf(c) : c \in cs}
Finalized(cs) == {Operation(cs, first) : first \in Starts(cs)}

WithinLimits(ops) ==
  /\ \A o \in ops : Len(o.expected) <= MaxOpBytes
  /\ Cardinality(ops) <= MaxOps
  /\ Cardinality(Covered(ops)) <= MaxTotalBytes

Submit ==
  /\ pc = "submit"
  /\ \/ /\ ~Ambiguous(Constraints)
        /\ WithinLimits(Finalized(Constraints))
        /\ request' = Finalized(Constraints)
        /\ pc' = "compare"
        /\ UNCHANGED <<todo, guards, plans, compared, written, late>>
     \/ Return      \* refused
  /\ UNCHANGED <<host, swapped, memory, counters>>

-----------------------------------------------------------------------------
(* RunTransaction.                                                         *)

\* Operations have the order of their addresses.
IsNext(o, rest) == o \in rest /\ \A p \in rest : o.addr <= p.addr
Writes == {o \in request : IsWrite(o)}

\* The preflight reads one range after another; each has to hold what is expected.
Matches(o) == Load(o.addr, Len(o.expected)) = o.expected
Compare ==
  /\ pc = "compare"
  /\ \/ \E o \in request :
          /\ IsNext(o, request \ compared)
          /\ Matches(o)
          /\ compared' = compared \cup {o}
          /\ pc' = IF compared' = request THEN "write" ELSE "compare"
          /\ UNCHANGED <<todo, guards, plans, request, written, late>>
     \/ Return      \* a mismatch, or a range that cannot be read
  /\ UNCHANGED <<host, swapped, memory, counters>>

\* The memory with some operations' bytes in place, as Byte says.
With(ops, ByteOf(_, _)) ==
  [k \in Cells |-> IF \E o \in ops : k - 1 \in CellsOf(o)
                   THEN ByteOf(CHOOSE o \in ops : k - 1 \in CellsOf(o), k - 1)
                   ELSE memory[k]]
Write ==
  /\ pc = "write"
  /\ \E o \in Writes :
       /\ IsNext(o, Writes \ written)
       /\ memory' = With({o}, Replacement)
       /\ written' = written \cup {o}
  /\ UNCHANGED <<host, swapped, late, pc, todo, guards, plans, request, compared, counters>>

\* applied_verified
Finish ==
  /\ pc = "write"
  /\ written = Writes
  /\ Return
  /\ UNCHANGED <<host, swapped, memory, counters>>

\* A write failed or does not read back: the ranges attempted get their old bytes
\* back, as far as that works.
RollBack ==
  /\ pc = "write"
  /\ \E attempted \in {written} \cup {written \cup {o} : o \in {w \in Writes : IsNext(w, Writes \ written)}} :
       /\ attempted # {}
       /\ \E restored \in SUBSET attempted : memory' = With(restored, Expected)
  /\ Return
  /\ UNCHANGED <<host, swapped, counters>>

-----------------------------------------------------------------------------
GameStores(cell, byte) ==
  /\ stores < MaxStores
  /\ pc # "idle"
  /\ stores' = stores + 1
  /\ memory' = [memory EXCEPT ![cell + 1] = byte]
  /\ late' = IF cell \in Covered(compared) THEN late \cup {cell} ELSE late
  /\ UNCHANGED <<host, swapped, transaction, requests>>

Next ==
  \/ \E b \in Bundles : LoadFrtkProfile(b)
  \/ Discover \/ ReadFields
  \/ \E groups \in Requests : TransactBegin(groups)
  \/ Revalidate \/ PlanFieldWrites \/ Submit
  \/ Compare \/ Write \/ Finish \/ RollBack
  \/ \E cell \in GameCells, byte \in Byte : GameStores(cell, byte)

Spec == Init /\ [][Next]_vars

-----------------------------------------------------------------------------
(* Properties.                                                             *)

Asked == UNION {{<<p, c>> : c \in SomeOf(p.group.changes)} : p \in SomeOf(plans)}

\* Bits of a record, most significant first, and those of a field: the layout
\* as docs/lua-api.md:47 describes it, apart from the codec's arithmetic.
Bit(record, n) ==
  (record[n \div ByteBits + 1] \div 2 ^ (ByteBits - 1 - (n % ByteBits))) % 2
BitsOf(d) == LET first == d.byte * ByteBits + d.bit IN first..(first + d.width - 1)
BytesOf(d) == {n \div ByteBits : n \in BitsOf(d)}

\* Which bytes of a record lie in some cells.
Marks(row, cells) == Live([k \in 1..Table.size |-> RowAddress(row) + k - 1 \in cells])

\* Two changes of a record that share bits.  A byte of a field that no longer is
\* what the plan read: the plan did not have to change it, so it is not guarded, or
\* the game stored into it after it had been compared.
Overwritten(p, c) ==
  \E q \in Asked : /\ q[1].group.row = p.group.row
                   /\ q[2].field # c.field
                   /\ BitsOf(Definition(q[2].field)) \cap BitsOf(Definition(c.field)) # {}
Drifted(p, c) ==
  \E k \in BytesOf(Definition(c.field)) :
    \/ Marks(p.group.row, late)[k + 1]
    \/ /\ ~Marks(p.group.row, Covered(p.ops))[k + 1]
       /\ Live(p.read)[k + 1] # Record(p.group.row)[k + 1]

\* When all is written, every field asked for reads back as the value asked for,
\* also where several plans and guards share a range.  Two things may prevent it:
\* another change of the transaction shares its bits, which a layout may allow; or
\* the game stored into a byte of it that is not guarded (PlanFieldWrites, lines 254
\* to 276), or after the comparison (docs/safety.md:39, "Transaction sequencing is
\* not game-thread atomicity").
AskedFieldsLand ==
  pc = "write" /\ written = Writes =>
    \A q \in Asked :
      \/ DecodeField(Record(q[1].group.row), Definition(q[2].field)) = q[2].value
      \/ Overwritten(q[1], q[2])
      \/ Drifted(q[1], q[2])

\* docs/lua-api.md:49: "Field writes preserve bits outside that window's field
\* mask": no step that writes or rolls back changes another bit, whatever else lies
\* in the window, in the word-swapped record or in the other plans of the
\* transaction, and whatever the game stored before the comparison.
OtherBitsStay ==
  pc = "write" /\ stores' = stores =>
    \A row \in 0..(Table.capacity - 1) :
      \A n \in 0..(Table.size * ByteBits - 1) :
        \/ Bit(Record(row)', n) = Bit(Record(row), n)
        \/ \E q \in Asked : q[1].group.row = row /\ n \in BitsOf(Definition(q[2].field))
        \/ Marks(row, late)[n \div ByteBits + 1]

\* A transaction writes what was asked for and nothing else.
WritesWhatWasAsked == [][AskedFieldsLand /\ OtherBitsStay]_vars

\* docs/superpowers/specs/2026-07-12-live-frtk-table-catalog-design.md:110,
\* "validate lifecycle generation and descriptor evidence": when the first byte is
\* about to be written, every fingerprint and relationship of the catalog holds, as
\* the guards of all plans are part of the request (lines 303 to 312), except where
\* the game stored after the comparison.
RowCells(r) == RowAddress(r.row)..(RowAddress(r.row) + Table.size - 1)
LinkCells(l) == LinkAddress(l)..(LinkAddress(l) + 3)
EvidenceHoldsAtCommit ==
  pc = "write" /\ written = {} =>
    /\ \A r \in SomeOf(Table.rows) : RowCells(r) \cap late = {} => Fingerprint(r)
    /\ \A l \in SomeOf(Table.links) : LinkCells(l) \cap late = {} => LinkHolds(l)

\* The request passes RunTransaction's own checks for overlapping ranges, and it
\* asks for exactly the bytes the plans asked for (lines 321 to 370).
RequestIsWhole ==
  pc = "submit" /\ ~Ambiguous(Constraints) =>
    LET ops == Finalized(Constraints)
    IN  /\ \A a, b \in ops : a # b => CellsOf(a) \cap CellsOf(b) = {}
        /\ Covered(ops) = Covered(Constraints)
        /\ \A c \in Constraints : \A cell \in CellsOf(c) :
             \E o \in ops :
               /\ cell \in CellsOf(o)
               /\ Expected(o, cell) = Expected(c, cell)
               /\ IsWrite(c) => IsWrite(o) /\ Replacement(o, cell) = Replacement(c, cell)

\* A bundle has one accepted form: another one with the same tables, rows,
\* relationships and fields is refused, so the profile ID, the digest of that
\* form, identifies the contents (the order checks of both parsers).
Meaning(b) ==
  << b.schema, b.build,
     {[t EXCEPT !.rows = SomeOf(t.rows), !.links = SomeOf(t.links)] : t \in SomeOf(b.tables)},
     {[t EXCEPT !.fields = SomeOf(t.fields)] : t \in SomeOf(b.layout.tables)} >>
OneAcceptedForm ==
  [][ profile # <<>> /\ profile' # profile => Meaning(profile'[1]) # Meaning(profile[1]) ]_vars
=============================================================================
