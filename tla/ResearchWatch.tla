---------------------------- MODULE ResearchWatch ----------------------------
(***************************************************************************)
(* The hardware watches of native/host/research_watch.cpp: which threads   *)
(* carry which watch slots in their debug registers, and what the host     *)
(* remembers to put back.  Arm and Disarm run under g_mutex, on whichever  *)
(* host thread runs the Lua code: the pipe workers, or the tick thread in  *)
(* a callback.  A thread cannot suspend itself, so both skip the thread    *)
(* that runs them.  The hit buffer is module WatchHits.                    *)
(***************************************************************************)
EXTENDS Integers, FiniteSets

CONSTANTS
  Thread,      \* the threads of the process, by identifier
  Caller,      \* the host threads that may run Lua
  Slots,       \* kMaxSlots
  Address,     \* the addresses scripts may watch
  Foreign,     \* a breakpoint of somebody else: a debugger, the game
  Off          \* a slot without an address

Slot == 1..Slots

WatchAssumption ==
  /\ Caller \subseteq Thread
  /\ Slots \in Nat \ {0}
  /\ Off \notin Address /\ Foreign \notin Address /\ Foreign # Off

VARIABLES
  alive,      \* the threads that run
  regs,       \* what each thread's debug registers hold
  slots,      \* g_slots
  saved,      \* the threads in g_saved_threads
  handler,    \* the exception handler is installed
  early,      \* history: the <<thread, slot>> of the foreign breakpoints that were
              \* set while the host had not saved that thread
  left        \* history: why a thread still carries watches nobody answers for

hostVars == <<slots, saved, handler>>
vars == <<alive, regs, hostVars, early, left>>

NoWatch == [s \in Slot |-> Off]
SlotsOf(s) == {k \in Slot : s[k] # Off}

\* Dr7 & 0xFF: no breakpoint is enabled, the thread's or the host's.
Unused(t) == regs[t] = NoWatch
Carries(t) == \E k \in Slot : regs[t][k] \in Address

-----------------------------------------------------------------------------
Init ==
  /\ alive \in {A \in SUBSET Thread : Caller \subseteq A}
  /\ regs = [t \in Thread |-> NoWatch]
  /\ slots = NoWatch
  /\ saved = {}
  /\ handler = FALSE
  /\ early = {}
  /\ left = [t \in Thread |-> "no"]

\* The first free slot takes the address.
FirstFree == CHOOSE k \in Slot : slots[k] = Off /\ \A n \in 1..(k - 1) : slots[n] # Off

\* ConfigureThread: a thread whose registers were saved, or are unused, and then
\* they are saved first.  Any other thread is left alone.
ConfiguresAll(t) == TRUE
Configures(t) == t \in saved \/ Unused(t)
Entered(opened) == {t \in opened : Configures(t)}

\* Arm, of an address that is valid.  A thread may refuse to be opened or
\* suspended or its registers to be read ("opened" are the others), and then to
\* be written: it stays saved all the same.  With no thread written the slot is
\* given back, and the handler with it when no other slot is in use.
Arm(caller, address) ==
  /\ SlotsOf(slots) # Slot
  /\ \E opened \in SUBSET (alive \ {caller}) : \E written \in SUBSET Entered(opened) :
       LET armed == [slots EXCEPT ![FirstFree] = address]
       IN  /\ IF written = {} /\ slots = NoWatch
              THEN saved' = {} /\ handler' = FALSE
              ELSE saved' = saved \cup Entered(opened) /\ handler' = TRUE
           /\ slots' = IF written = {} THEN slots ELSE armed
           /\ regs' = [t \in Thread |-> IF t \in written THEN armed ELSE regs[t]]
           /\ left' = [t \in Thread |-> IF t \in written THEN "no" ELSE left[t]]
  /\ UNCHANGED <<alive, early>>

\* Disarm: RestoreThread, for every saved thread; it returns early for the thread
\* that runs it, and may fail to open, suspend or write any other one.  What it
\* returns is counted and otherwise ignored.
Saved(caller) == (saved \cap alive) \ {caller}
RestoredUntilFailure(caller, reached) == IF reached = Saved(caller) THEN reached ELSE {}
Restored(caller, reached) == reached
Disarm(caller) ==
  /\ handler \/ slots # NoWatch
  /\ \E reached \in SUBSET Saved(caller) :
       /\ regs' = [t \in Thread |->
                     IF t \in Restored(caller, reached) THEN NoWatch ELSE regs[t]]
       /\ left' = [t \in Thread |->
                     IF t \in (saved \cap alive) \ reached /\ Carries(t)
                     THEN IF t = caller THEN "skipped" ELSE "failed"
                     ELSE left[t]]
  /\ slots' = NoWatch
  /\ handler' = FALSE
  /\ saved' = {}
  /\ UNCHANGED <<alive, early>>

-----------------------------------------------------------------------------
(* The process.                                                            *)

MarksOf(t) == {m \in early : m[1] = t}

\* Threads end and start; a new one has no breakpoints.  The saved entry of one
\* that ended stays, and its identifier may be used again.
ThreadStarts(t) ==
  /\ t \notin alive
  /\ alive' = alive \cup {t}
  /\ UNCHANGED <<regs, hostVars, early, left>>
ThreadEnds(t) ==
  /\ t \in alive \ Caller
  /\ alive' = alive \ {t}
  /\ regs' = [regs EXCEPT ![t] = NoWatch]
  /\ early' = early \ MarksOf(t)
  /\ left' = [left EXCEPT ![t] = "no"]
  /\ UNCHANGED hostVars

\* A debugger, or the game itself, sets a breakpoint in a register that is free,
\* whenever it likes, and removes it again.
ForeignSets(t, k) ==
  /\ t \in alive
  /\ regs[t][k] = Off
  /\ regs' = [regs EXCEPT ![t][k] = Foreign]
  /\ early' = IF t \in saved THEN early ELSE early \cup {<<t, k>>}
  /\ UNCHANGED <<alive, hostVars, left>>
ForeignClears(t, k) ==
  /\ t \in alive
  /\ regs[t][k] = Foreign
  /\ regs' = [regs EXCEPT ![t][k] = Off]
  /\ early' = early \ {<<t, k>>}
  /\ UNCHANGED <<alive, hostVars, left>>

Next ==
  \/ \E c \in Caller : Disarm(c) \/ \E a \in Address : Arm(c, a)
  \/ \E t \in Thread : ThreadStarts(t) \/ ThreadEnds(t)
  \/ \E t \in Thread, k \in Slot : ForeignSets(t, k) \/ ForeignClears(t, k)

Spec == Init /\ [][Next]_vars

-----------------------------------------------------------------------------
(* Properties.                                                             *)

\* A breakpoint that can fire is one the handler answers for, as the very watch
\* it was armed for: HandleException passes on a trap of a slot without an
\* address, and once it is removed the game sees every trap; either ends the
\* process.  Only a thread that RestoreThread skipped or failed for is left armed
\* (Disarm ignores what it returns, line 354): no other one, and nothing that
\* fails in Arm, leaves a watch behind.
TrapsAreHandled ==
  \A t \in alive, k \in Slot :
    regs[t][k] \in Address /\ left[t] = "no" => handler /\ slots[k] = regs[t][k]

\* A breakpoint of somebody else that was set in a thread whose identifier the host
\* had not saved is never overwritten, whatever is armed, disarmed and refused later
\* (ConfigureThread, lines 135 to 143).  For a saved identifier, that of a thread which
\* has ended included, the code does not look at Dr7, and nothing is said here.
OwnBreakpointsStay == \A m \in early : regs[m[1]][m[2]] = Foreign

-----------------------------------------------------------------------------
(* What the documentation says and the code does not do.                   *)

\* docs/lua-api.md:111: "cfb.unwatch() restores saved debug-register state."
\* Threads that could not be opened or written are excused.
UnwatchRestores ==
  slots = NoWatch => \A t \in alive : left[t] # "failed" => ~Carries(t)
=============================================================================
