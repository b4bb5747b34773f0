----------------------------- MODULE FrtkProfile -----------------------------
(***************************************************************************)
(* ParseProfile of native/host/frtk_profile.cpp: which bundles of a        *)
(* profile and its layout the host accepts.  The limits on the rows, links *)
(* and fields of all tables together are left out.                         *)
(***************************************************************************)
EXTENDS FrtkFieldSchema

CONSTANTS
  MinRows,           \* the distinct rows a table must fingerprint: 3
  MaxRows,           \* kMaxFingerprintsPerTable
  MinSelectedBits,   \* the mask bits a table must select: 64
  MaxLinks           \* kMaxRelationshipsPerTable

\* ParseRow: pattern and mask cover the record, and the pattern is zero where
\* the mask does not look.  A mask is the set of the bytes it selects.
AcceptedRow(t, r) ==
  /\ r.row < t.capacity
  /\ Len(r.pattern) = t.size
  /\ r.mask \subseteq 1..t.size
  /\ \A k \in DOMAIN r.pattern : k \notin r.mask => r.pattern[k] = 0

\* The mask bits that the rows of a table select together.
SelectedBits(t) ==
  ByteBits * Cardinality({c \in (DOMAIN t.rows) \X (1..t.size) : c[2] \in t.rows[c[1]].mask})

\* ParseTable of the profile, with ParseRelationship.  A bug: the rows may come
\* in any order.
AnyRowOrder(a, b) == FALSE
RowBefore(a, b) == a.row < b.row
LinkBefore(a, b) == a.row < b.row \/ (a.row = b.row /\ a.field < b.field)
AcceptedProfileTable(t) ==
  /\ t.id \in TableIds
  /\ t.capacity \in Rows \ {0}
  /\ t.size \in 1..MaxRecordSize
  /\ Len(t.rows) \in MinRows..MaxRows
  /\ \A k \in DOMAIN t.rows : AcceptedRow(t, t.rows[k])
  /\ \A a, b \in DOMAIN t.rows : t.rows[a].row = t.rows[b].row => a = b
  /\ SelectedBits(t) >= MinSelectedBits
  /\ Cardinality({t.rows[k].pattern : k \in DOMAIN t.rows}) >= MinRows
  /\ Ascending(t.rows, RowBefore)
  /\ Len(t.links) <= MaxLinks
  /\ \A k \in DOMAIN t.links : t.links[k].row < t.capacity /\ t.links[k].targetRow \in Rows
  /\ \A a, b \in DOMAIN t.links :
       t.links[a].row = t.links[b].row /\ t.links[a].field = t.links[b].field => a = b
  /\ Ascending(t.links, LinkBefore)

\* ValidateTableIdentity
SameIdentity(t, s) ==
  t.name = s.name /\ t.id = s.id /\ t.uid = s.uid /\ t.capacity = s.capacity /\ t.size = s.size

\* ParseProfile.  "signed" says that the profile ID is the digest of the rest.
ParseProfile(b) ==
  /\ Len(b.tables) \in 1..MaxTables
  /\ LoadsLayout(b.layout)
  /\ b.schema = b.layout.schema /\ b.build = b.layout.build
  /\ \A k \in DOMAIN b.tables : AcceptedProfileTable(b.tables[k])
  /\ \A a, c \in DOMAIN b.tables :
       b.tables[a].id = b.tables[c].id \/ b.tables[a].uid = b.tables[c].uid => a = c
  /\ Ascending(b.tables, IdBefore)
  /\ Len(b.tables) = Len(b.layout.tables)
  /\ \A k \in DOMAIN b.tables :
       /\ \E s \in FindTable(b.layout.tables, b.tables[k].id) :
            SameIdentity(b.tables[k], b.layout.tables[s])
       /\ \A n \in DOMAIN b.tables[k].links :
            \E target \in FindTable(b.tables, b.tables[k].links[n].target) :
              b.tables[k].links[n].targetRow < b.tables[target].capacity
  /\ b.signed
=============================================================================
