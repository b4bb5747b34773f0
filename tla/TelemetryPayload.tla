--------------------------- MODULE TelemetryPayload ---------------------------
(***************************************************************************)
(* cfb.emit of native/host/lua_host.cpp and the payload check of           *)
(* native/host/telemetry.cpp.  A script builds tables, which may share and *)
(* contain one another; LuaToTelemetryJson walks them into a JSON value    *)
(* and counts the bytes of its text as it goes, ValidateTelemetryPayload   *)
(* walks that value once more, and an event is appended if both agree.     *)
(*                                                                         *)
(* Both walks stop at the first thing they refuse; which one that is, and  *)
(* so the order of lua_next, shows in the wording of the error alone.      *)
(***************************************************************************)
EXTENDS Integers, Sequences, FiniteSets, FiniteSetsExt, SequencesExt

CONSTANTS
  Table,        \* the tables of a script
  Name,         \* the strings it uses as keys
  Barred,       \* those that are forbidden, longer than kMaxStringBytes, or not UTF-8
  NameBytes,    \* the bytes of each in a text, quotes included
  IntegerKey,   \* the integers it uses as keys
  OtherKey,     \* a key that is neither
  Scalar,       \* the other values; a sound one can be sent, in so many bytes
  MaxDepth,     \* kMaxDepth
  MaxKeys,      \* kMaxObjectKeys
  MaxEntries,   \* kMaxArrayEntries
  MaxBytes,     \* kMaxSerializedBytes
  Heaps,        \* the tables as they may be when a script is first looked at
  MaxAssigns    \* bound on its assignments from then on

Key == Name \cup IntegerKey \cup {OtherKey}
Value == Scalar \cup Table

PayloadAssumption ==
  /\ Barred \subseteq Name
  /\ NameBytes \in [Name -> Nat]
  /\ IntegerKey \subseteq Int
  /\ Scalar \subseteq [kind : {"scalar"}, bytes : Nat, sound : BOOLEAN]
  /\ \A h \in Heaps : /\ DOMAIN h = Table
                     /\ \A t \in Table : DOMAIN h[t] \subseteq Key /\ h[t] \in [DOMAIN h[t] -> Value]
  /\ {MaxDepth, MaxKeys, MaxEntries, MaxBytes, MaxAssigns} \subseteq Nat

VARIABLES
  heap,      \* the entries of each table
  emitted,   \* whether an event has been appended (module HostEvents)
  assigns    \* bound: assignments made

vars == <<heap, emitted, assigns>>

\* Integer keys make an array, names or no keys an object.
Kind(keys) ==
  IF keys # {} /\ keys \subseteq IntegerKey THEN "array"
  ELSE IF keys \subseteq Name THEN "object" ELSE "mixed"

NamesOf(keys) == MapThenSumSet(LAMBDA k : NameBytes[k] + 1, keys)

-----------------------------------------------------------------------------
(* LuaToTelemetryJson.  A JSON value is a tree: what is found at each path. *)

Leaf(scalar) == [p \in {<<>>} |-> scalar]
Tree(kind, parts) ==
  [p \in {<<>>} \cup UNION {{<<k>> \o q : q \in DOMAIN parts[k].json} : k \in DOMAIN parts} |->
     IF p = <<>> THEN [kind |-> kind] ELSE parts[Head(p)].json[Tail(p)]]

Refused == [ok |-> FALSE, bytes |-> 0, json |-> <<>>]
Converted(bytes, json) == [ok |-> bytes <= MaxBytes, bytes |-> bytes, json |-> json]

\* What it asks of the keys of a table: an array is checked key by key, and once more
\* for holes when it is sorted.
LuaFits(keys) ==
  \/ /\ Kind(keys) = "array"
     /\ keys \subseteq 1..MaxEntries
     /\ keys = 1..Cardinality(keys)
  \/ Kind(keys) = "object" /\ Cardinality(keys) <= MaxKeys /\ keys \cap Barred = {}

\* The bytes it counts for a table apart from the values: brackets, a comma before
\* every entry but the first, and the names of an object with their colons.
\* A bug: the commas of an object are not counted.
LuaBytesOfOne(keys) ==
  IF Kind(keys) = "array" THEN 1 + Cardinality(keys) ELSE 2 + NamesOf(keys)
LuaBytes(keys) ==
  IF Kind(keys) = "array" THEN 2 + Cardinality(keys) - 1
  ELSE IF keys = {} THEN 2 ELSE 2 + NamesOf(keys) + Cardinality(keys) - 1

\* "visiting" are the tables on the way to this one, which is that many levels down.
LuaToTelemetryJson[value \in Value, visiting \in SUBSET Table] ==
  IF value \in Scalar
  THEN IF value.sound THEN Converted(value.bytes, Leaf(value)) ELSE Refused
  ELSE IF Cardinality(visiting) >= MaxDepth \/ value \in visiting THEN Refused
  ELSE LET keys == DOMAIN heap[value]
           parts == [k \in keys |->
                       LuaToTelemetryJson[heap[value][k], visiting \cup {value}]]
       IN  IF LuaFits(keys) /\ \A k \in keys : parts[k].ok
           THEN Converted(LuaBytes(keys) + MapThenSumSet(LAMBDA k : parts[k].bytes, keys),
                          Tree(Kind(keys), parts))
           ELSE Refused

\* ValidateValue, the second walk, which refuses for what it finds anywhere.
KeysAt(json, path) == {k \in Key : Append(path, k) \in DOMAIN json}
JsonFits(kind, keys) ==
  \/ kind = "array" /\ Cardinality(keys) <= MaxEntries
  \/ kind = "object" /\ Cardinality(keys) <= MaxKeys /\ keys \cap Barred = {}
JsonBytes(kind, keys) ==
  2 + (IF keys = {} THEN 0 ELSE Cardinality(keys) - 1)
    + (IF kind = "array" THEN 0 ELSE NamesOf(keys))
BytesAt(json, path) ==
  IF json[path].kind = "scalar" THEN json[path].bytes
  ELSE JsonBytes(json[path].kind, KeysAt(json, path))
ValidateTelemetryPayload(json) ==
  /\ \A p \in DOMAIN json :
       IF json[p].kind = "scalar" THEN json[p].sound
       ELSE Len(p) < MaxDepth /\ JsonFits(json[p].kind, KeysAt(json, p))
  /\ MapThenSumSet(LAMBDA p : BytesAt(json, p), DOMAIN json) <= MaxBytes

-----------------------------------------------------------------------------
Init ==
  /\ heap \in Heaps
  /\ emitted = FALSE
  /\ assigns = 0

\* The script stores into one of its tables; what it does after its first event is
\* no different.
Assign(t, k, value) ==
  /\ assigns < MaxAssigns
  /\ ~emitted
  /\ assigns' = assigns + 1
  /\ heap' = [heap EXCEPT ![t] =
       [n \in DOMAIN heap[t] \cup {k} |-> IF n = k THEN value ELSE heap[t][n]]]
  /\ UNCHANGED emitted

\* cfb.emit, of a registered type.
Emits(value) ==
  LET converted == LuaToTelemetryJson[value, {}]
  IN  converted.ok /\ ValidateTelemetryPayload(converted.json)
LuaEmit(value) ==
  /\ Emits(value)
  /\ emitted' = TRUE
  /\ UNCHANGED <<heap, assigns>>

Next ==
  \/ \E t \in Table, k \in Key, value \in Value : Assign(t, k, value)
  \/ \E value \in Value : LuaEmit(value)

Spec == Init /\ [][Next]_vars

-----------------------------------------------------------------------------
(* Properties.                                                             *)

\* The value a script reaches from another one by a path of keys, and those paths
\* of up to n keys.
Reach(value, path) == FoldLeft(LAMBDA t, k : heap[t][k], value, path)
Further(value, paths) ==
  UNION { {Append(p, k) : k \in DOMAIN heap[Reach(value, p)]}
          : p \in {p \in paths : Reach(value, p) \in Table} }
Unrolled(value, n) ==
  LET unrolled[m \in 0..n] ==
        IF m = 0 THEN {<<>>} ELSE unrolled[m - 1] \cup Further(value, unrolled[m - 1])
  IN  unrolled[n]

\* The text of a value: its scalars, and of each table two brackets, a comma
\* between two entries, and name and colon before the values of an object.
TextBytes(value) ==
  LET entries(t) == DOMAIN heap[t]
      own(v) == IF v \in Scalar THEN v.bytes
                ELSE IF entries(v) = {} THEN 2
                ELSE 1 + Cardinality(entries(v))
                       + MapThenSumSet(LAMBDA k : NameBytes[k] + 1, entries(v) \cap Name)
  IN  MapThenSumSet(LAMBDA p : own(Reach(value, p)), Unrolled(value, MaxDepth))

\* What there is in JSON: trees of arrays without holes and of objects.
Depth == Cardinality(Table)
Array(keys) == keys # {} /\ keys = 1..Cardinality(keys)
IsJson(value) ==
  \A p \in Unrolled(value, Depth) :
    Reach(value, p) \in Table =>
      /\ Len(p) < Depth      \* else a table contains itself
      /\ LET keys == DOMAIN heap[Reach(value, p)] IN Array(keys) \/ keys \subseteq Name
JsonOf(value) ==
  [p \in Unrolled(value, Depth) |->
     LET v == Reach(value, p) IN
     IF v \in Scalar THEN v
     ELSE [kind |-> IF Array(DOMAIN heap[v]) THEN "array" ELSE "object"]]

\* docs/protocol.md:142 to 147, "Payloads are JSON-compatible and limited to depth
\* 4, 64 keys per object, 128 entries per array, ... and 16 KiB serialized.  ...
\* rejected at every object depth ... additionally rejects cycles, ... mixed or
\* sparse tables, and non-string object keys."
Allowed(value) ==
  /\ \A p \in Unrolled(value, MaxDepth) :
       LET v == Reach(value, p) IN
       IF v \in Scalar THEN v.sound
       ELSE /\ Len(p) < MaxDepth
            /\ \/ \E n \in 0..MaxEntries : DOMAIN heap[v] = 1..n
               \/ DOMAIN heap[v] \subseteq Name \ Barred /\ Cardinality(DOMAIN heap[v]) <= MaxKeys
  /\ TextBytes(value) <= MaxBytes

\* cfb.emit sends what the documents allow and nothing else, however the tables of
\* the script share and contain one another: neither walk miscounts the text, and
\* none of the limits that hold at the top is lost further down.  Each walk keeps all
\* limits for itself, so that a mistake in one is not hidden by the other.
EmitsWhatIsAllowed ==
  \A value \in Value :
    /\ LuaToTelemetryJson[value, {}].ok <=> Allowed(value)
    /\ IsJson(value) => (ValidateTelemetryPayload(JsonOf(value)) <=> Allowed(value))
    /\ Emits(value) <=> Allowed(value)
=============================================================================
