-------------------------------- MODULE Host --------------------------------
(***************************************************************************)
(* The session catalog and the parts of the host that serve observers and  *)
(* scripts, side by side: a behaviour is one of the catalog, of the event  *)
(* ring, of the callback loop, of the hardware watches, of their hit       *)
(* buffer or of the payloads scripts emit, and "which" says which.         *)
(* Variables of the same name hold the value of that component; those of   *)
(* the others rest.                                                        *)
(***************************************************************************)
EXTENDS FrtkCatalog, Sequences

CONSTANTS
  Capacity, Type, MaxTypes, Period, MaxLimit, MaxCursor, MaxClock,  \* HostEvents
  EventName, CallbacksRegister, MaxCallbacks,                       \* HostCallbacks
  Thread, Caller, Slots, Address, Foreign, Off,                     \* ResearchWatch
  GameThread, MaxHits, MaxTraps,                                    \* WatchHits
  LuaTable, Name, Barred, NameBytes, IntegerKey, OtherKey, Scalar,  \* TelemetryPayload
  MaxDepth, MaxKeys, MaxEntries, MaxBytes, Heaps, MaxAssigns

-----------------------------------------------------------------------------
VARIABLES
  which,
  events, nextCursor, registered, clock, waking, lastTick, after, delivered,
  callbacks, room, firing, position, last, freed, ran,
  alive, regs, slots, saved, handler, early, left,
  traps, cleared, overtaken, count, dropped, hit, ready, collect, snapshot,
  heap, emitted, assigns

eventVars == <<events, nextCursor, registered, clock, waking, lastTick, after, delivered>>
callbackVars == <<callbacks, room, firing, position, last, freed, ran>>
watchVars == <<alive, regs, slots, saved, early, left>>
hitVars == <<traps, cleared, overtaken, count, dropped, hit, ready, collect, snapshot>>
payloadVars == <<heap, emitted, assigns>>
observerVars == <<eventVars, callbackVars, watchVars, handler, hitVars, payloadVars>>

-----------------------------------------------------------------------------
Events == INSTANCE HostEvents
Callbacks == INSTANCE HostCallbacks
Watch == INSTANCE ResearchWatch
Hits == INSTANCE WatchHits WITH Thread <- GameThread
Payload == INSTANCE TelemetryPayload WITH Table <- LuaTable

ASSUME HostAssumption ==
  /\ Events!EventAssumption /\ Callbacks!CallbackAssumption
  /\ Watch!WatchAssumption /\ Hits!HitsAssumption
  /\ Payload!PayloadAssumption

-----------------------------------------------------------------------------
EventsRest ==
  /\ events = <<>> /\ nextCursor = 0 /\ registered = {} /\ clock = 0 /\ waking = {}
  /\ lastTick = 0 /\ after = 0 /\ delivered = <<>>
CallbacksRest ==
  /\ callbacks = <<>> /\ room = 0 /\ firing = {} /\ position = 0 /\ last = 0
  /\ freed = FALSE /\ ran = {}
WatchRests ==
  /\ alive = {} /\ regs = <<>> /\ slots = <<>> /\ saved = {} /\ early = {} /\ left = <<>>
HitsRest ==
  /\ traps = 0 /\ cleared = 0 /\ overtaken = FALSE /\ count = 0 /\ dropped = 0
  /\ hit = <<>> /\ ready = {} /\ collect = <<>> /\ snapshot = <<>>
PayloadRests == heap = <<>> /\ emitted = FALSE /\ assigns = 0

\* The catalog rests in one of its initial states.
CatalogRests == Init /\ place = [t \in Table |-> Nowhere]
ObserverInit ==
  \/ /\ which = "events" /\ Events!Init
     /\ CallbacksRest /\ WatchRests /\ HitsRest /\ handler = FALSE /\ PayloadRests
  \/ /\ which = "callbacks" /\ Callbacks!Init
     /\ EventsRest /\ WatchRests /\ HitsRest /\ handler = FALSE /\ PayloadRests
  \/ /\ which = "watch" /\ Watch!Init
     /\ EventsRest /\ CallbacksRest /\ HitsRest /\ PayloadRests
  \/ /\ which = "hits" /\ Hits!Init
     /\ EventsRest /\ CallbacksRest /\ WatchRests /\ PayloadRests
  \/ /\ which = "payload" /\ Payload!Init
     /\ EventsRest /\ CallbacksRest /\ WatchRests /\ HitsRest /\ handler = FALSE
HostInit ==
  \/ /\ which = "catalog" /\ Init
     /\ EventsRest /\ CallbacksRest /\ WatchRests /\ HitsRest /\ handler = FALSE
     /\ PayloadRests
  \/ ObserverInit /\ CatalogRests

ObserverNext ==
  \/ /\ which = "events" /\ Events!Next
     /\ UNCHANGED <<callbackVars, watchVars, handler, hitVars, payloadVars>>
  \/ /\ which = "callbacks" /\ Callbacks!Next
     /\ UNCHANGED <<eventVars, watchVars, handler, hitVars, payloadVars>>
  \/ /\ which = "watch" /\ Watch!Next
     /\ UNCHANGED <<eventVars, callbackVars, hitVars, payloadVars>>
  \/ /\ which = "hits" /\ Hits!Next
     /\ UNCHANGED <<eventVars, callbackVars, watchVars, payloadVars>>
  \/ /\ which = "payload" /\ Payload!Next
     /\ UNCHANGED <<eventVars, callbackVars, watchVars, handler, hitVars>>
HostNext ==
  \/ which = "catalog" /\ Next /\ UNCHANGED <<which, observerVars>>
  \/ ObserverNext /\ UNCHANGED <<which, vars>>

HostSpec == HostInit /\ [][HostNext]_<<which, vars, observerVars>>

-----------------------------------------------------------------------------
\* EventsResult and AppendEvent (lua_host.cpp): a client that follows nextCursor is
\* given no event twice, and misses only those the ring had already dropped.
PagesAreFaithful == which = "events" => Events!PagesAreFaithful

\* TickLoop coalesces its events to at most one per period.
TicksCoalesced == which = "events" => Events!TicksCoalesced

\* FireEvent runs every callback of its event when its buffer was not freed.
HeldLoopsRunAll == Callbacks!HeldLoopsRunAll

\* Arm and Disarm (research_watch.cpp): a breakpoint that can fire is handled, as
\* the watch it was armed for, unless RestoreThread skipped or failed for it.
TrapsAreHandled == which = "watch" => Watch!TrapsAreHandled

\* ConfigureThread: a breakpoint somebody else set in a thread the host had not
\* saved is never overwritten.
OwnBreakpointsStay == which = "watch" => Watch!OwnBreakpointsStay

\* Collect: hits copied without an overtaking clearing are whole.
UndisturbedHitsAreWhole == which = "hits" => Hits!UndisturbedHitsAreWhole

\* HandleException and Collect: a call leaves out no trap that was over when it
\* began, and stored and dropped hits together are all traps.
NothingMissed == which = "hits" => Hits!NothingMissed /\ Hits!EveryTrapIsCounted

\* LuaEmit and ValidateTelemetryPayload (lua_host.cpp, telemetry.cpp): what
\* cfb.emit sends is what the documents allow.
EmitsWhatIsAllowed == which = "payload" => Payload!EmitsWhatIsAllowed
=============================================================================
