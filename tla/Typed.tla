-------------------------------- MODULE Typed --------------------------------
(***************************************************************************)
(* Typed writes from both ends: a behaviour is one of the byte level       *)
(* (FieldTransaction) or one of the Lua database above it (LuaDatabase),   *)
(* and "which" says which; the variables of the other rest.  Both keep     *)
(* what is installed in the variable of that name.                         *)
(***************************************************************************)
EXTENDS FieldTransaction

CONSTANTS
  DbTable, Records, TableOf, Field, Direct, Catalogs,   \* LuaDatabase
  MaxGeneration, MaxChanges, StableBelow

-----------------------------------------------------------------------------
VARIABLES which, generation, handles, active, failed, pending, staged, refused, submitted

dbOnly == <<generation, handles, active, failed, pending, staged, refused, submitted>>
fieldsOnly == <<profile, game, transaction, counters>>

Db == INSTANCE LuaDatabase WITH Table <- DbTable
ASSUME TypedAssumption == Db!DatabaseAssumption

DbRests ==
  /\ generation = 0 /\ handles = {} /\ active = FALSE /\ failed = FALSE
  /\ pending = <<>> /\ staged = {} /\ refused = FALSE /\ submitted = {}
FieldsRest ==
  /\ profile = <<>> /\ swapped = FALSE /\ memory = <<>> /\ pc = "rests"
  /\ todo = <<>> /\ guards = {} /\ plans = <<>>
  /\ request = {} /\ compared = {} /\ written = {} /\ late = {}
  /\ stores = 0 /\ requests = 0

TypedInit ==
  \/ which = "fields" /\ Init /\ DbRests
  \/ which = "database" /\ Db!Init /\ FieldsRest
TypedNext ==
  \/ which = "fields" /\ Next /\ UNCHANGED <<which, dbOnly>>
  \/ which = "database" /\ Db!Next /\ UNCHANGED <<which, fieldsOnly>>
TypedSpec == TypedInit /\ [][TypedNext]_<<which, vars, dbOnly>>

\* FinishTransaction (frtk_lua_api.cpp, lines 544 to 626): a submission is what
\* one callback staged, each change for its own record.
SubmitsWhatWasStaged == Db!SubmitsWhatWasStaged

\* A change refused inside the callback refuses the transaction.
RefusedChangeSubmitsNothing == Db!RefusedChangeSubmitsNothing

\* What is submitted was staged under the generation that is current.
SubmitsCurrentChangesOnly == Db!SubmitsCurrentChangesOnly
=============================================================================
