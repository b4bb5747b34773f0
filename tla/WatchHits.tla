------------------------------ MODULE WatchHits ------------------------------
(***************************************************************************)
(* The hit buffer of native/host/research_watch.cpp.  HandleException runs *)
(* on whichever game thread trapped and takes no lock: it claims an index  *)
(* of g_hits, fills the entry and marks it ready, while cfb.watch_hits     *)
(* copies the buffer, and clears it on request, from the host thread that  *)
(* holds the Lua mutex.  An entry is filled and copied field by field; two *)
(* fields, registers and stack, are enough to tell a whole hit from one    *)
(* that mixes two traps.                                                   *)
(***************************************************************************)
EXTENDS Integers, FiniteSets

CONSTANTS
  Thread,      \* the game threads that trap
  MaxHits,     \* kMaxHits
  MaxTraps     \* bounds the traps of a behaviour

Trap == 1..MaxTraps
None == 0
Index == 0..(MaxHits - 1)

HitsAssumption ==
  /\ IsFiniteSet(Thread)
  /\ MaxHits \in Nat \ {0}
  /\ MaxTraps \in Nat

VARIABLES
  traps,      \* the traps taken so far; each is named by its number
  cleared,    \* how many of them were taken when the buffer was last cleared
  overtaken,  \* history: a thread was in the handler during that clearing
  count,      \* g_hit_count
  dropped,    \* g_dropped
  hit,        \* the fields of each entry of g_hits, by the trap they came from
  ready,      \* the entries marked ready
  handler,    \* each thread's step of HandleException
  collect,    \* the step of Collect
  snapshot    \* what Collect has copied or returned

buffer == <<count, dropped, hit, ready>>
vars == <<traps, cleared, overtaken, buffer, handler, collect, snapshot>>

Idle == [step |-> "idle", trap |-> None, index |-> 0]
At(step, trap, index) == [step |-> step, trap |-> trap, index |-> index]
Empty == [regs |-> None, stack |-> None]
Rest == [step |-> "idle", index |-> 0, upto |-> 0, clear |-> FALSE]

-----------------------------------------------------------------------------
Init ==
  /\ traps = 0
  /\ cleared = 0
  /\ overtaken = FALSE
  /\ count = 0
  /\ dropped = 0
  /\ hit = [i \in Index |-> Empty]
  /\ ready = {}
  /\ handler = [t \in Thread |-> Idle]
  /\ collect = Rest
  /\ snapshot = [hits |-> {}, dropped |-> 0, due |-> 0]

\* HandleException, for one slot that fired.
Goes(t, step) == handler' = [handler EXCEPT ![t].step = step]

\* fetch_add returns the index claimed; past the end of the buffer only
\* g_dropped counts the hit.
HasRoom(index) == index < MaxHits

Clearing == collect.step \in {"clearDropped", "clearReady"}

Claim(t) ==
  /\ handler[t] = Idle
  /\ traps < MaxTraps
  /\ traps' = traps + 1
  /\ count' = count + 1
  /\ handler' = [handler EXCEPT ![t] =
       At(IF HasRoom(count) THEN "reset" ELSE "drop", traps', count)]
  /\ overtaken' = (overtaken \/ Clearing)
  /\ UNCHANGED <<cleared, dropped, hit, ready, collect, snapshot>>

Drop(t) ==
  /\ handler[t].step = "drop"
  /\ dropped' = dropped + 1
  /\ handler' = [handler EXCEPT ![t] = Idle]
  /\ UNCHANGED <<traps, cleared, overtaken, count, hit, ready, collect, snapshot>>

\* hit = {}
Reset(t) ==
  /\ handler[t].step = "reset"
  /\ hit' = [hit EXCEPT ![handler[t].index] = Empty]
  /\ Goes(t, "registers")
  /\ UNCHANGED <<traps, cleared, overtaken, count, dropped, ready, collect, snapshot>>

Registers(t) ==
  /\ handler[t].step = "registers"
  /\ hit' = [hit EXCEPT ![handler[t].index].regs = handler[t].trap]
  /\ Goes(t, "stack")
  /\ UNCHANGED <<traps, cleared, overtaken, count, dropped, ready, collect, snapshot>>

Stack(t) ==
  /\ handler[t].step = "stack"
  /\ hit' = [hit EXCEPT ![handler[t].index].stack = handler[t].trap]
  /\ Goes(t, "publish")
  /\ UNCHANGED <<traps, cleared, overtaken, count, dropped, ready, collect, snapshot>>

Publish(t) ==
  /\ handler[t].step = "publish"
  /\ ready' = ready \cup {handler[t].index}
  /\ handler' = [handler EXCEPT ![t] = Idle]
  /\ UNCHANGED <<traps, cleared, overtaken, count, dropped, hit, collect, snapshot>>

-----------------------------------------------------------------------------
InFlight == {t \in Thread : handler[t] # Idle}

\* Collect: how many entries there are, each one in turn, then the count of the
\* dropped ones.  "due" is the number of traps over and done with at the call.
UptoLast == IF count < MaxHits THEN count ELSE MaxHits - 1
Upto == IF count < MaxHits THEN count ELSE MaxHits

Collect(clear) ==
  /\ collect = Rest
  /\ collect' = [step |-> "copy", index |-> 0, upto |-> Upto, clear |-> clear]
  /\ snapshot' = [hits |-> {}, dropped |-> 0, due |-> traps - cleared - Cardinality(InFlight)]
  /\ UNCHANGED <<traps, cleared, overtaken, buffer, handler>>

\* The copy starts only after the entry was seen ready.
CopiesAlways(index) == TRUE
Copies(index) == index \in ready

CopyRegisters ==
  /\ collect.step = "copy"
  /\ collect.index < collect.upto
  /\ IF Copies(collect.index)
     THEN /\ snapshot' = [snapshot EXCEPT !.hits = @ \cup
               {<<collect.index, hit[collect.index].regs, None>>}]
          /\ collect' = [collect EXCEPT !.step = "stack"]
     ELSE /\ collect' = [collect EXCEPT !.index = @ + 1]
          /\ UNCHANGED snapshot
  /\ UNCHANGED <<traps, cleared, overtaken, buffer, handler>>

CopyStack ==
  /\ collect.step = "stack"
  /\ snapshot' = [snapshot EXCEPT !.hits =
       {IF h[1] = collect.index THEN <<h[1], h[2], hit[h[1]].stack>> ELSE h : h \in @}]
  /\ collect' = [collect EXCEPT !.step = "copy", !.index = @ + 1]
  /\ UNCHANGED <<traps, cleared, overtaken, buffer, handler>>

Copied ==
  /\ collect.step = "copy"
  /\ collect.index = collect.upto
  /\ snapshot' = [snapshot EXCEPT !.dropped = dropped]
  /\ collect' = IF collect.clear THEN [collect EXCEPT !.step = "clear"] ELSE Rest
  /\ UNCHANGED <<traps, cleared, overtaken, buffer, handler>>

\* ClearHits: the two counters, then the ready flags; Arm runs it as well, when
\* it installs the exception handler.
ClearCount ==
  /\ collect.step = "clear"
  /\ count' = 0
  /\ cleared' = traps
  /\ overtaken' = (InFlight # {})
  /\ collect' = [collect EXCEPT !.step = "clearDropped"]
  /\ UNCHANGED <<traps, dropped, hit, ready, handler, snapshot>>

ResetDropped == dropped' = 0

ClearDropped ==
  /\ collect.step = "clearDropped"
  /\ ResetDropped
  /\ collect' = [collect EXCEPT !.step = "clearReady", !.index = 0]
  /\ UNCHANGED <<traps, cleared, overtaken, count, hit, ready, handler, snapshot>>

ClearReady ==
  /\ collect.step = "clearReady"
  /\ ready' = ready \ {collect.index}
  /\ collect' = IF collect.index = MaxHits - 1 THEN Rest ELSE [collect EXCEPT !.index = @ + 1]
  /\ UNCHANGED <<traps, cleared, overtaken, count, dropped, hit, handler, snapshot>>

HandleException(t) ==
  Claim(t) \/ Drop(t) \/ Reset(t) \/ Registers(t) \/ Stack(t) \/ Publish(t)

WatchHits ==
  \/ \E clear \in BOOLEAN : Collect(clear)
  \/ CopyRegisters \/ CopyStack \/ Copied

ClearHits == ClearCount \/ ClearDropped \/ ClearReady

Next == (\E t \in Thread : HandleException(t)) \/ WatchHits \/ ClearHits

Spec == Init /\ [][Next]_vars

-----------------------------------------------------------------------------
(* Properties.                                                             *)

\* A snapshot copied since a clearing that overtook no thread holds whole records
\* of one trap each, whichever entries are being filled meanwhile: the ready
\* flag of an entry is enough to copy it (Collect).
UndisturbedHitsAreWhole ==
  collect.step = "copy" /\ ~overtaken =>
    \A h \in snapshot.hits : h[2] = h[3] /\ h[2] # None

\* "at most 128 fixed snapshots plus a `dropped` count" (docs/lua-api.md:107): once
\* the threads that trapped have left the handler, the buffer holds the first
\* traps since the last clearing and g_dropped counts the others.
EveryTrapIsCounted ==
  InFlight = {} /\ ~Clearing /\ ~overtaken =>
    /\ dropped + Cardinality(ready) = traps - cleared
    /\ {hit[i].regs : i \in ready} = (cleared + 1)..(cleared + Cardinality(ready))

\* A call to cfb.watch_hits leaves out no trap that was over when it began, in
\* whatever order the threads that trapped since finish their entries.
NothingMissed ==
  collect.step = "copy" /\ collect.index = collect.upto /\ ~overtaken =>
    Cardinality(snapshot.hits) + dropped >= snapshot.due

-----------------------------------------------------------------------------
(* What the documentation says and the code does not do.                   *)

\* "Each hit includes the integer registers" (docs/lua-api.md:108): every hit a
\* call returns is a whole record of one trap.
HitsAreWhole == collect = Rest => \A h \in snapshot.hits : h[2] = h[3] /\ h[2] # None
=============================================================================
