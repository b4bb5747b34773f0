----------------------------- MODULE LuaDatabase -----------------------------
(***************************************************************************)
(* CFB27.db:Transaction of native/host/frtk_lua_api.cpp.  A script's       *)
(* callback stages field changes under handles it took at any time; other  *)
(* threads may retire and reinstall the catalog between any two calls of   *)
(* the script, because only the single calls lock it.  When the callback   *)
(* returns, the changes are sorted, grouped by record and planned.         *)
(***************************************************************************)
EXTENDS Integers, Sequences, FiniteSets

CONSTANTS
  Table,           \* the Unique IDs
  Records,         \* how many records there are, numbered in sort order
  TableOf,         \* the table of each record: records of a table are neighbours
  Field,           \* the field names
  Direct,          \* the tables with authority direct_verified
  Catalogs,        \* the table sets another thread may install
  MaxGeneration,   \* bound on the generations
  MaxChanges,      \* bound on the changes one callback stages
  StableBelow      \* std::sort is an insertion sort up to this length

Record == 1..Records

DatabaseAssumption ==
  /\ Records \in Nat
  /\ TableOf \in [Record -> Table]
  /\ Direct \subseteq Table
  /\ Catalogs \subseteq SUBSET Table
  /\ MaxGeneration \in Nat
  /\ MaxChanges \in Nat
  /\ StableBelow \in Nat

VARIABLES
  generation,   \* the catalog's generation_
  installed,    \* the tables of the catalog
  handles,      \* the handles the scripts hold
  active,       \* transaction_active_
  failed,       \* transaction_failed_
  pending,      \* pending_changes_
  staged,       \* history: the changes SetField accepted since the callback began
  refused,      \* history: SetField or a nested Transaction raised an error in it
  submitted     \* history: the changes of the last request that was submitted

catalogVars == <<generation, installed>>
apiVars == <<active, failed, pending>>
vars == <<catalogVars, handles, apiVars, staged, refused, submitted>>

Handle == [table : Table, gen : 0..MaxGeneration]
Change == [record : Record, field : Field, gen : 0..MaxGeneration]

HandleOf(c) == [table |-> TableOf[c.record], gen |-> c.gen]
Resolves(h) == h.gen = generation /\ h.table \in installed

-----------------------------------------------------------------------------
Init ==
  /\ generation = 0
  /\ installed \in Catalogs
  /\ handles = {}
  /\ active = FALSE
  /\ failed = FALSE
  /\ pending = <<>>
  /\ staged = {}
  /\ refused = FALSE
  /\ submitted = {}

\* Another thread loads a profile, discovers, invalidates or quarantines
\* (module FrtkCatalog): every handle issued so far is stale.
CatalogChanges ==
  /\ generation < MaxGeneration
  /\ generation' = generation + 1
  /\ installed' \in Catalogs
  /\ UNCHANGED <<handles, apiVars, staged, refused, submitted>>

\* GetTableByUniqueId, and GetRecord, which keeps the table's handle.
GetTableByUniqueId(t) ==
  /\ t \in installed
  /\ handles' = handles \cup {[table |-> t, gen |-> generation]}
  /\ UNCHANGED <<catalogVars, apiVars, staged, refused, submitted>>

-----------------------------------------------------------------------------
(* The callback.                                                           *)

BeginTransaction ==
  /\ ~active
  /\ active' = TRUE
  /\ failed' = FALSE
  /\ pending' = <<>>
  /\ staged' = {}
  /\ refused' = FALSE
  /\ UNCHANGED <<catalogVars, handles, submitted>>

\* The callback ended with an error.
AbortTransaction == active' = FALSE /\ failed' = FALSE /\ pending' = <<>>

\* An error is raised in the callback: pcall catches it there and the
\* transaction stays poisoned, or it ends the callback.
Caught == failed' = TRUE /\ UNCHANGED <<active, pending>>
Raise ==
  /\ Caught \/ AbortTransaction
  /\ refused' = TRUE
  /\ UNCHANGED <<catalogVars, handles, staged, submitted>>

\* A nested Transaction, a wrong argument or an unusable value.
RefusedCall == active /\ Raise

\* A bug: the same field under another handle counts as another change.
DuplicateStaging(c) == \E k \in DOMAIN pending : pending[k] = c
Duplicate(c) ==
  \E k \in DOMAIN pending : pending[k].record = c.record /\ pending[k].field = c.field

\* PrepareSetField: transaction_failed_ is set on entry and put back to what it
\* was only when the change was staged.
PoisonForgotten == FALSE
PoisonAfter == failed
SetField(c) ==
  /\ active
  /\ HandleOf(c) \in handles
  /\ \/ /\ Resolves(HandleOf(c))
        /\ TableOf[c.record] \in Direct
        /\ ~Duplicate(c)
        /\ Len(pending) < MaxChanges
        /\ pending' = Append(pending, c)
        /\ failed' = PoisonAfter
        /\ staged' = staged \cup {c}
        /\ UNCHANGED <<catalogVars, handles, active, refused, submitted>>
     \/ /\ ~Resolves(HandleOf(c)) \/ TableOf[c.record] \notin Direct \/ Duplicate(c)
        /\ Raise

\* An error of the script's own.
CallbackFails ==
  /\ active
  /\ AbortTransaction
  /\ UNCHANGED <<catalogVars, handles, staged, refused, submitted>>

-----------------------------------------------------------------------------
(* FinishTransaction.                                                      *)

\* The orders std::sort may leave: by record, and stable only while it is an
\* insertion sort.
Sorted(s) == \A a, b \in DOMAIN s : a < b => s[a].record <= s[b].record
Orders ==
  LET n == Len(pending)
      permutations == {p \in [1..n -> 1..n] : {p[k] : k \in 1..n} = 1..n}
      stable(p) == \A a, b \in 1..n :
        a < b /\ pending[p[a]].record = pending[p[b]].record => p[a] < p[b]
  IN  { [k \in 1..n |-> pending[p[k]]] :
          p \in {p \in permutations :
                   /\ Sorted([k \in 1..n |-> pending[p[k]]])
                   /\ n <= StableBelow => stable(p)} }

\* Neighbours of one record form a group, planned under the handle and the row
\* of its first change.
SameTable(c, d) == TableOf[c.record] = TableOf[d.record]
SameGroup(c, d) == c.record = d.record
Leader(s, k) ==
  LET first == CHOOSE j \in 1..k :
                 /\ SameGroup(s[j], s[k])
                 /\ \A n \in 1..(j - 1) : ~SameGroup(s[n], s[k])
  IN  s[first]

\* PlanFieldWrites accepts every group of the order; what is submitted says
\* which record each change goes to.
PlansTrustStaging(s) == \A k \in DOMAIN s : TableOf[Leader(s, k).record] \in installed
Plans(s) == \A k \in DOMAIN s : Resolves(HandleOf(Leader(s, k)))
Submission(s) == {[s[k] EXCEPT !.record = Leader(s, k).record] : k \in DOMAIN s}

\* The changes are given up: poisoned, nothing staged, or a group is refused
\* (stale, unreadable, over a limit, or the evidence has moved).
FinishRefused == UNCHANGED submitted
FinishSubmits ==
  /\ ~failed
  /\ pending # <<>>
  /\ \E s \in Orders : Plans(s) /\ submitted' = Submission(s)

FinishTransaction ==
  /\ active
  /\ FinishSubmits \/ FinishRefused
  /\ active' = FALSE
  /\ failed' = FALSE
  /\ pending' = <<>>
  /\ UNCHANGED <<catalogVars, handles, staged, refused>>

Next ==
  \/ CatalogChanges
  \/ \E t \in Table : GetTableByUniqueId(t)
  \/ BeginTransaction \/ RefusedCall \/ CallbackFails \/ FinishTransaction
  \/ \E c \in Change : SetField(c)

Spec == Init /\ [][Next]_vars

-----------------------------------------------------------------------------
(* Properties.                                                             *)

\* A submission is exactly what one callback staged, each change for the record
\* it was staged for: nothing is lost, doubled, or moved to another row by the
\* sorting and grouping (lines 570 to 601).
SubmitsWhatWasStaged ==
  [][ submitted' # submitted => submitted' = staged ]_vars

\* A change refused inside the callback refuses the whole transaction, even
\* when the script caught the error and staged more afterwards (line 555,
\* "transaction callback contained a refused change").
RefusedChangeSubmitsNothing == [][ refused => submitted' = submitted ]_vars

\* docs/lua-api.md:24: "lifecycle invalidation makes retained values stale
\* instead of retaining a process address".  What is submitted was staged
\* under the generation that is current, as long as the changes are few enough
\* for a stable sort; past that a change of a retired generation may follow a
\* current one of the same record.
SubmitsCurrentChangesOnly ==
  [][ submitted' # submitted =>
        \A c \in submitted' :
          \/ c.gen = generation
          \/ /\ Len(pending) > StableBelow
             /\ \E d \in submitted' : d.record = c.record /\ d.gen = generation ]_vars
=============================================================================
