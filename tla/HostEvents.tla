------------------------------ MODULE HostEvents ------------------------------
(***************************************************************************)
(* The events a client observes: the ring of native/host/lua_host.cpp and  *)
(* its cursor pages, the log that shares it, the coalescing of ticks, and  *)
(* the session's telemetry types of native/host/telemetry.cpp.             *)
(*                                                                         *)
(* Scripts, the tick thread and game_ready notifications append; a client  *)
(* pages at its own pace, and the ring drops what it is too slow for.      *)
(***************************************************************************)
EXTENDS Integers, Sequences, FiniteSets

CONSTANTS
  Capacity,       \* 1024 events
  Type,           \* the valid telemetry type names
  MaxTypes,       \* kMaxTelemetryTypes
  Period,         \* 1000 ms
  MaxLimit,       \* the largest page a client asks for
  MaxCursor,      \* bound on the events of a session
  MaxClock        \* bound on the clock

HostType == {"log", "tick", "game_ready"}

EventAssumption ==
  /\ Capacity \in Nat \ {0}
  /\ IsFiniteSet(Type) /\ Type \cap HostType = {}
  /\ MaxTypes \in Nat
  /\ Period \in Nat \ {0}
  /\ MaxLimit \in Nat \ {0}
  /\ MaxCursor \in Nat
  /\ MaxClock \in Nat

VARIABLES
  events,       \* g_events
  nextCursor,   \* g_next_event_cursor
  registered,   \* g_registered_types
  clock,        \* the system clock, which may be set back
  waking,       \* the time TickLoop read after its callbacks ran, if it did
  lastTick,     \* g_last_tick_event_ms
  after,        \* the cursor the client will page from
  delivered     \* history: the cursors the client was given since it connected

hostVars == <<events, nextCursor, registered, lastTick>>
vars == <<hostVars, clock, waking, after, delivered>>

\* The timestamp matters for tick events only.
Event == [cursor : 1..MaxCursor, type : Type \cup HostType, at : 0..MaxClock]

-----------------------------------------------------------------------------
\* push_back, and pop_front until the deque is back at its capacity.
LastOf(s, n) == IF Len(s) > n THEN SubSeq(s, Len(s) - n + 1, Len(s)) ELSE s
PushBack(s, x, n) == LastOf(Append(s, x), n)

\* AppendEvent, under g_event_mutex.
AppendEventAt(type, at) ==
  /\ nextCursor <= MaxCursor
  /\ events' = PushBack(events, [cursor |-> nextCursor, type |-> type, at |-> at], Capacity)
  /\ nextCursor' = nextCursor + 1
AppendEvent(type) == AppendEventAt(type, 0)

Init ==
  /\ events = <<>>
  /\ nextCursor = 1
  /\ registered = {}
  /\ clock \in 0..MaxClock
  /\ waking = {}
  /\ lastTick = 0 - Period
  /\ after = 0
  /\ delivered = <<>>

\* Log appends an event to the ring next to the entry of the log's own ring.
Log ==
  /\ AppendEvent("log")
  /\ UNCHANGED <<registered, clock, waking, lastTick, after, delivered>>

\* cfb.emit tests the type, then appends; no type is ever unregistered.
Emit(type) ==
  /\ type \in registered
  /\ AppendEvent(type)
  /\ UNCHANGED <<registered, clock, waking, lastTick, after, delivered>>

\* UpdateGameReady ends by reporting it.
ReportGameReady ==
  /\ AppendEvent("game_ready")
  /\ UNCHANGED <<registered, clock, waking, lastTick, after, delivered>>

\* RegisterTelemetryTypes: all the types of a request or none of them.
Fits(types) ==
  Cardinality(types \ registered) <= MaxTypes - Cardinality(registered)
RegisterTelemetryTypes(types) ==
  /\ Cardinality(types) <= MaxTypes
  /\ Fits(types)
  /\ registered' = registered \cup types
  /\ UNCHANGED <<events, nextCursor, clock, waking, lastTick, after, delivered>>

-----------------------------------------------------------------------------
(* TickLoop: the tick callbacks have run; the time is read, and other      *)
(* threads may append before the event is.                                 *)

TickWakes ==
  /\ waking = {}
  /\ waking' = {clock}
  /\ UNCHANGED <<hostVars, clock, after, delivered>>

\* A bug: the time of the event is not remembered.
TickEventForgotten ==
  /\ \E now \in waking :
       IF now - lastTick >= Period THEN AppendEventAt("tick", now)
       ELSE UNCHANGED <<events, nextCursor>>
  /\ waking' = {}
  /\ UNCHANGED <<registered, clock, lastTick, after, delivered>>

\* The compare-exchange never fails: TickLoop is the only thread that stores.
TickEvent ==
  /\ \E now \in waking :
       IF now - lastTick >= Period
       THEN AppendEventAt("tick", now) /\ lastTick' = now
       ELSE UNCHANGED <<events, nextCursor, lastTick>>
  /\ waking' = {}
  /\ UNCHANGED <<registered, clock, after, delivered>>

\* Time passes, or the user sets the clock.
ClockMoves ==
  /\ clock' \in 0..MaxClock
  /\ UNCHANGED <<hostVars, waking, after, delivered>>

-----------------------------------------------------------------------------
(* EventsResult.                                                           *)

\* The events after a cursor, as many as the limit allows: the k-th one returned
\* has k - 1 others before it in the ring.
\* A bug: the page begins with the event of the cursor.
NewerOrSame(e) == e.cursor >= after
Newer(e) == e.cursor > after
NewerPlaces == {i \in DOMAIN events : Newer(events[i])}
PlaceOf(k) == CHOOSE i \in NewerPlaces : Cardinality({j \in NewerPlaces : j < i}) = k - 1
PageSize(limit) ==
  IF Cardinality(NewerPlaces) > limit THEN limit ELSE Cardinality(NewerPlaces)
Events(limit) == [k \in 1..PageSize(limit) |-> events[PlaceOf(k)]]

\* nextCursor is the cursor of the last event returned, or "after" again.
PageCursor(returned) ==
  IF returned = <<>> THEN after ELSE returned[Len(returned)].cursor

\* The client asks for one page and keeps its cursor.
Poll(limit) ==
  LET returned == Events(limit)
  IN  /\ delivered' = delivered \o [k \in DOMAIN returned |-> returned[k].cursor]
      /\ after' = PageCursor(returned)
      /\ UNCHANGED <<hostVars, clock, waking>>

\* A client starts from the beginning.
Reconnect ==
  /\ after' = 0
  /\ delivered' = <<>>
  /\ UNCHANGED <<hostVars, clock, waking>>

Next ==
  \/ Log \/ ReportGameReady \/ (\E t \in Type : Emit(t))
  \/ \E types \in (SUBSET Type) \ {{}} : RegisterTelemetryTypes(types)
  \/ TickWakes \/ TickEvent \/ ClockMoves
  \/ (\E limit \in 1..MaxLimit : Poll(limit)) \/ Reconnect

Spec == Init /\ [][Next]_vars

-----------------------------------------------------------------------------
(* Properties.                                                             *)

\* A client that follows nextCursor is given no event twice, and the events in the
\* order in which they were appended, across its pages and however these interleave
\* with the appending threads (docs/protocol.md:39, "return an ordered cursor page").
NoEventTwice ==
  \A j, k \in DOMAIN delivered : j < k => delivered[j] < delivered[k]

\* Paging skips an event only when the ring had already dropped it: one that is in
\* the ring and that the client's cursor has passed was given to it, so that none is
\* lost between two pages, at a full page, or at an empty one.
MissesOnlyDropped ==
  \A k \in DOMAIN events :
    events[k].cursor <= after =>
      \E j \in DOMAIN delivered : delivered[j] = events[k].cursor

\* What a client that pages may rely on: both.
PagesAreFaithful == NoEventTwice /\ MissesOnlyDropped

\* "Tick events are coalesced to at most one per second" (docs/protocol.md:338),
\* although TickLoop wakes far more often and the clock may be set back.
TicksCoalesced ==
  \A a, b \in DOMAIN events :
    a < b /\ events[a].type = "tick" /\ events[b].type = "tick" =>
      events[b].at - events[a].at >= Period
=============================================================================
