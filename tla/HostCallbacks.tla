---------------------------- MODULE HostCallbacks ----------------------------
(***************************************************************************)
(* cfb.on and FireEvent of native/host/lua_host.cpp: the callbacks a       *)
(* session registers, and the loop that runs them for one event.           *)
(*                                                                         *)
(* The loop is a range-for over the vector g_callbacks.  It holds the Lua  *)
(* mutex, so no script of another thread registers in between; but the     *)
(* callback it is running may call cfb.on itself, and a push_back that     *)
(* outgrows the vector's buffer leaves the loop with iterators into a      *)
(* buffer that has been freed.                                             *)
(***************************************************************************)
EXTENDS Integers, Sequences

CONSTANTS
  EventName,          \* the events cfb.on accepts
  CallbacksRegister,  \* whether a callback may call cfb.on
  MaxCallbacks        \* bound on the registrations of a session

CallbackAssumption ==
  CallbacksRegister \in BOOLEAN /\ MaxCallbacks \in Nat

VARIABLES
  callbacks,  \* g_callbacks: the event of each, in registration order
  room,       \* the capacity of its buffer
  firing,     \* the event whose loop is running, if any
  position,   \* the element the loop's iterator points to
  last,       \* the element its end iterator follows
  freed,      \* the buffer of the running loop has been freed
  ran         \* history: the callbacks the running loop has called

walkVars == <<firing, position, last, ran>>
vars == <<callbacks, room, freed, walkVars>>

-----------------------------------------------------------------------------
\* push_back: a full buffer is replaced by one half as large again.
Grown(n) == IF n + n \div 2 > n THEN n + n \div 2 ELSE n + 1
Register(name) ==
  /\ Len(callbacks) < MaxCallbacks
  /\ callbacks' = Append(callbacks, name)
  /\ room' = IF Len(callbacks) = room THEN Grown(room) ELSE room
  /\ freed' = (freed \/ (firing # {} /\ Len(callbacks) = room))

Init ==
  /\ callbacks = <<>>
  /\ room = 0
  /\ firing = {}
  /\ position = 0
  /\ last = 0
  /\ freed = FALSE
  /\ ran = {}

\* A script registers a callback.
LuaOn(name) ==
  /\ firing = {}
  /\ Register(name)
  /\ UNCHANGED walkVars

\* FireEvent takes the Lua mutex and begins its loop; end() is taken once.
End == Len(callbacks)
FireEvent(name) ==
  /\ firing = {}
  /\ firing' = {name}
  /\ position' = 1
  /\ last' = End
  /\ ran' = {}
  /\ freed' = FALSE
  /\ UNCHANGED <<callbacks, room>>

\* The callback runs: an error it raises is noted and the loop goes on.
StopAtError == position' \in {position + 1, last + 1}
Continue == position' = position + 1

Call ==
  /\ ran' = ran \cup {position}
  /\ \/ UNCHANGED <<callbacks, room, freed>>
     \/ CallbacksRegister /\ \E name \in EventName : Register(name)

Skip == UNCHANGED <<ran, callbacks, room, freed>>

\* One element of the loop.  In a freed buffer it may still read the old
\* element, or an event name or reference that calls nothing.
Element ==
  /\ firing # {}
  /\ position <= last
  /\ \/ callbacks[position] \in firing /\ Call
     \/ (freed \/ callbacks[position] \notin firing) /\ Skip
  /\ Continue
  /\ UNCHANGED <<firing, last>>

\* The loop is over and the mutex is let go.
Done ==
  /\ firing # {}
  /\ position > last
  /\ firing' = {}
  /\ freed' = FALSE
  /\ UNCHANGED <<callbacks, room, position, last, ran>>

Next ==
  \/ \E name \in EventName : LuaOn(name) \/ FireEvent(name)
  \/ Element \/ Done

Spec == Init /\ [][Next]_vars

-----------------------------------------------------------------------------
(* Properties.                                                             *)

\* A loop whose buffer was not freed runs every callback that was registered for
\* its event when it began, and only those, whatever an earlier one raises or
\* registers (FireEvent).
HeldLoopsRunAll ==
  [][ firing # {} /\ firing' = {} /\ ~freed =>
        ran = {k \in 1..last : callbacks[k] \in firing} ]_vars

\* An event runs every callback registered for it before, and only those,
\* whatever an earlier one raises or registers: docs/lua-api.md:4, "callbacks
\* registered by one script remain available to later scripts".
EveryCallbackRuns ==
  [][ firing # {} /\ firing' = {} =>
        ran = {k \in 1..last : callbacks[k] \in firing} ]_vars
=============================================================================
