------------------------------ MODULE HostWrites ------------------------------
(***************************************************************************)
(* Who may change the game's memory, and under which locks: the threads    *)
(* of native/host/lua_host.cpp (the one that starts the host, the v1 pipe  *)
(* worker, legacy pipe worker and tick loop it starts, and the thread of   *)
(* the game that reports game_ready), the four mutexes they share, and the *)
(* flag g_session_writes_disabled.                                         *)
(*                                                                         *)
(* A handler is the sequence of its synchronisation steps, in the order of *)
(* the code; what it computes between two of them is left out, except that *)
(* it may refuse the request there.  The guarded engine itself is module   *)
(* MemoryTransaction; here it is one critical section with one outcome.    *)
(***************************************************************************)
EXTENDS Integers, Sequences, FiniteSets

CONSTANTS
  Thread,      \* the threads of the host taking part
  MaxJobs,     \* how many requests, ticks or notifications each one serves
  MaxCalls     \* how many host functions a script or callback of each calls

ASSUME ThreadAssumption ==
  /\ Thread \subseteq {"start", "v1", "legacy", "tick", "game"}
  /\ MaxJobs \in Nat
  /\ MaxCalls \in [Thread -> Nat]

Mutex == {"lua", "frtk", "write", "native"}
Free == "free"

VARIABLES
  owner,      \* the thread that holds each mutex, or Free
  disabled,   \* g_session_writes_disabled
  jobs,       \* the requests each thread still serves
  calls,      \* the host functions the running script still calls
  code,       \* the steps each thread still has to run, <<>> when idle
  outcome,    \* how the last engine, board or native call of the thread ended
  busy,       \* the kind of memory change the thread is inside, or "no"
  failed      \* history: the kinds of unverifiable changes the host has found

vars == <<owner, disabled, jobs, calls, code, outcome, busy, failed>>

-----------------------------------------------------------------------------
(* Handlers as sequences of steps.                                         *)

Lock(S) == [do |-> "lock", on |-> S]
Unlock(S) == [do |-> "unlock", on |-> S]
Do(step) == [do |-> step, on |-> {}]

\* "gate" loads the flag and the environment; "check" may refuse for reasons
\* outside this module; "disable" sets the flag when the change just made was
\* unverifiable; "change" kinds are "guarded", "poke", "board" and "native".

WriteTransactionStoresLate ==
  << Lock({"write"}), Do("gate"), Do("check"), Do("guarded"),
     Unlock({"write"}), Do("disable") >>
WriteTransaction ==
  << Lock({"write"}), Do("gate"), Do("check"), Do("guarded"),
     Do("disable"), Unlock({"write"}) >>

\* The catalog stays locked from the generation check to the end of the write.
TransactFrtkFields ==
  << Lock({"frtk"}), Lock({"write"}), Do("gate"), Do("check"), Do("guarded"),
     Do("disable"), Unlock({"frtk", "write"}) >>

\* Both gates are read before any mutex is taken.
NativeCall == << Do("gate"), Lock({"native"}), Do("native"), Unlock({"native"}) >>

\* The locks are gone when a failed postcondition is published.
BoardMutationSkipsWriteMutex ==
  << Do("gate"), Lock({"native"}), Do("board"), Unlock({"native"}), Do("disable") >>
BoardMutation ==
  << Do("gate"), Lock({"write", "native"}), Do("board"), Unlock({"write", "native"}),
     Do("disable") >>

\* loadFrtkProfile, discoverFrtkCatalog, inspectFrtkTables, readFrtkRecords
\* and invalidateFrtkCatalog.
CatalogCommand == << Lock({"frtk"}), Do("check"), Unlock({"frtk"}) >>

\* status copies g_last_error under the Lua mutex.
StatusCommand == << Lock({"lua"}), Unlock({"lua"}) >>

\* RunLuaText and FireEvent: "script" calls any of the Lua functions below.
RunLua == << Lock({"lua"}), Do("script"), Unlock({"lua"}) >>

\* UpdateGameReady lets go of the catalog before it calls back into Lua.
UpdateGameReady == << Lock({"frtk"}), Unlock({"frtk"}) >> \o RunLua

\* autorun.lua and the first game_ready, which may meet the game's own.
Start == RunLua \o UpdateGameReady

LuaWriteU8 ==
  << Lock({"write"}), Do("gate"), Do("check"), Do("poke"), Unlock({"write"}) >>
LuaNativeCall == NativeCall
LuaTableRead == << Lock({"frtk"}), Do("check"), Unlock({"frtk"}) >>

\* FinishTransaction plans under the catalog lock and submits inside it.
LuaTransactionInverted ==
  << Lock({"write"}), Do("check"), Lock({"frtk"}), Do("gate"), Do("guarded"),
     Do("disable"), Unlock({"frtk", "write"}) >>
LuaTransaction ==
  << Lock({"frtk"}), Do("check"), Lock({"write"}), Do("gate"), Do("guarded"),
     Do("disable"), Unlock({"frtk", "write"}) >>

LuaFunctions == {LuaWriteU8, LuaNativeCall, LuaTableRead, LuaTransaction}

\* What each thread is asked to do.
Handlers(t) ==
  CASE t = "start" -> {Start}
    [] t = "v1" -> { WriteTransaction, TransactFrtkFields, NativeCall, BoardMutation,
                     CatalogCommand, StatusCommand, RunLua }
    [] t \in {"legacy", "tick"} -> {RunLua}
    [] t = "game" -> {UpdateGameReady}

-----------------------------------------------------------------------------
Init ==
  /\ owner = [m \in Mutex |-> Free]
  /\ disabled = FALSE
  /\ jobs = [t \in Thread |-> IF t = "start" THEN 1 ELSE MaxJobs]
  /\ calls = [t \in Thread |-> 0]
  /\ code = [t \in Thread |-> <<>>]
  /\ outcome = [t \in Thread |-> "none"]
  /\ busy = [t \in Thread |-> "no"]
  /\ failed = {}

Held(t) == {m \in Mutex : owner[m] = t}
At(t, step) == code[t] # <<>> /\ Head(code[t]).do = step
Step(t) == code' = [code EXCEPT ![t] = Tail(@)]
Release(t, S) == owner' = [m \in Mutex |-> IF m \in S /\ owner[m] = t THEN Free ELSE owner[m]]

\* The rest of the script a Lua function was called from.
ScriptRest(t) == << Do("script"), Unlock({"lua"}) >>
InScript(t) == owner["lua"] = t

\* The workers are started when everything else of the start is done.
Started == "start" \in Thread => jobs["start"] = 0 /\ code["start"] = <<>>

\* A thread takes the next request off its pipe, its timer or the game.
Accept(t) ==
  /\ t \in {"v1", "legacy", "tick"} => Started
  /\ code[t] = <<>>
  /\ jobs[t] > 0
  /\ \E h \in Handlers(t) : code' = [code EXCEPT ![t] = h]
  /\ jobs' = [jobs EXCEPT ![t] = @ - 1]
  /\ calls' = [calls EXCEPT ![t] = MaxCalls[t]]
  /\ outcome' = [outcome EXCEPT ![t] = "none"]
  /\ UNCHANGED <<owner, disabled, busy, failed>>

\* std::lock_guard takes one mutex, std::scoped_lock all of its mutexes or none.
Acquire(t) ==
  /\ At(t, "lock")
  /\ \A m \in Head(code[t]).on : owner[m] = Free
  /\ owner' = [m \in Mutex |-> IF m \in Head(code[t]).on THEN t ELSE owner[m]]
  /\ Step(t)
  /\ UNCHANGED <<disabled, jobs, calls, outcome, busy, failed>>

Leave(t) ==
  /\ At(t, "unlock")
  /\ Release(t, Head(code[t]).on)
  /\ Step(t)
  /\ UNCHANGED <<disabled, jobs, calls, outcome, busy, failed>>

\* An early return: the guards on the stack let go of their mutexes; inside a
\* script only the function's own, and the error goes to the script.
Refuse(t) ==
  /\ IF InScript(t) THEN /\ Release(t, Mutex \ {"lua"})
                         /\ code' = [code EXCEPT ![t] = ScriptRest(t)]
     ELSE /\ Release(t, Mutex)
          /\ code' = [code EXCEPT ![t] = <<>>]

\* A bug: the request waits for the flag to clear instead of being refused.
GateWaits(t) ==
  /\ At(t, "gate")
  /\ IF disabled THEN UNCHANGED code ELSE Step(t)
  /\ UNCHANGED <<owner, disabled, jobs, calls, outcome, busy, failed>>

\* The flag is live; the environment (build, anticheat) may refuse as well.
Gate(t) ==
  /\ At(t, "gate")
  /\ \/ ~disabled /\ Step(t) /\ UNCHANGED owner
     \/ Refuse(t)
  /\ UNCHANGED <<disabled, jobs, calls, outcome, busy, failed>>

Check(t) ==
  /\ At(t, "check")
  /\ (Step(t) /\ UNCHANGED owner) \/ Refuse(t)
  /\ UNCHANGED <<disabled, jobs, calls, outcome, busy, failed>>

\* A change of the game's memory begins.
Changes == {"guarded", "poke", "board", "native"}
Begin(t) ==
  /\ busy[t] = "no"
  /\ \E k \in Changes : At(t, k) /\ busy' = [busy EXCEPT ![t] = k]
  /\ UNCHANGED <<owner, disabled, jobs, calls, code, outcome, failed>>

\* The changes whose failure can leave the memory unaccounted for.
Unverifiable == {"guarded", "board"}

\* It ends: an unverified rollback, a failed board postcondition, or any other
\* result (applied, rolled back, refused, native fault).
End(t) ==
  /\ busy[t] # "no"
  /\ \E bad \in BOOLEAN :
       /\ bad => busy[t] \in Unverifiable
       /\ outcome' = [outcome EXCEPT ![t] = IF bad THEN "unverified" ELSE "other"]
       /\ failed' = IF bad THEN failed \cup {busy[t]} ELSE failed
  /\ busy' = [busy EXCEPT ![t] = "no"]
  /\ Step(t)
  /\ UNCHANGED <<owner, disabled, jobs, calls>>

Disable(t) ==
  /\ At(t, "disable")
  /\ disabled' = (disabled \/ outcome[t] = "unverified")
  /\ Step(t)
  /\ UNCHANGED <<owner, jobs, calls, outcome, busy, failed>>

\* A running script calls one more host function or returns.
Script(t) ==
  /\ At(t, "script")
  /\ \/ Step(t) /\ UNCHANGED calls
     \/ /\ calls[t] > 0
        /\ calls' = [calls EXCEPT ![t] = @ - 1]
        /\ \E f \in LuaFunctions : code' = [code EXCEPT ![t] = f \o @]
  /\ UNCHANGED <<owner, disabled, jobs, outcome, busy, failed>>

Run(t) ==
  \/ Accept(t) \/ Acquire(t) \/ Leave(t) \/ Gate(t) \/ Check(t)
  \/ Begin(t) \/ End(t) \/ Disable(t) \/ Script(t)

\* Every request has been served.
Idle == \A t \in Thread : code[t] = <<>> /\ jobs[t] = 0
Quiescent == Idle /\ UNCHANGED vars

Next == (\E t \in Thread : Run(t)) \/ Quiescent

\* Each thread is scheduled; nothing is assumed of who gets a contended mutex.
Spec == Init /\ [][Next]_vars /\ \A t \in Thread : WF_vars(Run(t))

-----------------------------------------------------------------------------
(* Properties.                                                             *)

Busy(kinds) == {t \in Thread : busy[t] \in kinds}

\* Guarded writes, single-byte writes and board mutations never overlap: each
\* one's checks, stores and read-backs see no other host thread's stores
\* (g_host_write_mutex).  Native calls are serialised with each other and with
\* board mutations (g_native_call_mutex).
OneWriterAtATime ==
  /\ Cardinality(Busy({"guarded", "poke", "board"})) <= 1
  /\ Cardinality(Busy({"native", "board"})) <= 1

\* Once a rollback could not be verified no guarded or single-byte write
\* starts again: the flag is set before the engine's lock is let go
\* (docs/safety.md, "permanently sets sessionWritesDisabled").
UnverifiedRollbackStopsGuardedWrites ==
  [][ \A t \in Thread :
        busy[t] = "no" /\ busy'[t] \in {"guarded", "poke"} => "guarded" \notin failed ]_vars

\* The locks are always taken in the order lua, frtk, write, native, so no set
\* of threads waits for itself.
Rank(m) == CASE m = "lua" -> 1 [] m = "frtk" -> 2 [] m = "write" -> 3 [] m = "native" -> 4
LockOrder ==
  \A t \in Thread : At(t, "lock") =>
    \A m \in Head(code[t]).on, h \in Held(t) : Rank(h) < Rank(m)

\* Every finite workload is served to the end, without any assumption on how
\* fairly a mutex is handed over.
AllServed == <>Idle

-----------------------------------------------------------------------------
(* What the documentation says and the code does not do.                   *)

\* docs/protocol.md:334: "A postcondition failure disables further writes for
\* that host session."
BoardFailureStopsWrites ==
  [][ \A t \in Thread :
        busy[t] = "no" /\ busy'[t] \in {"guarded", "poke", "board"} => "board" \notin failed ]_vars
=============================================================================
