------------------------------ MODULE HostProofs ------------------------------
(***************************************************************************)
(* Proofs about the parts of the host that serve observers, for any        *)
(* threads, slots, addresses, buffer sizes and limits.                     *)
(*                                                                         *)
(* Each component has an inductive invariant of its own, kept by its       *)
(* steps; the steps of the others leave its variables at rest (StepOf).    *)
(***************************************************************************)
EXTENDS Host, FiniteSetTheorems, WellFoundedInduction, TLAPS

hostVars == <<which, vars, observerVars>>

\* A step of the host is one of the component the behaviour is of.
LEMMA StepOf ==
  ASSUME [HostNext]_hostVars
  PROVE  /\ which' = which
         /\ which = "events" => [Events!Next]_(Events!vars)
         /\ which = "watch" => [Watch!Next]_(Watch!vars)
         /\ which = "hits" => [Hits!Next]_(Hits!vars)
<1>1. CASE HostNext
  BY <1>1 DEF HostNext, ObserverNext, observerVars
<1>2. CASE UNCHANGED hostVars
  BY <1>2 DEF hostVars, observerVars, eventVars, watchVars, hitVars,
              Events!vars, Events!hostVars, Watch!vars, Watch!hostVars, Hits!vars, Hits!buffer
<1>. QED BY <1>1, <1>2

LEMMA InitOf ==
  ASSUME HostInit
  PROVE  /\ which = "events" => Events!Init
         /\ which = "watch" => Watch!Init
         /\ which = "hits" => Hits!Init
BY DEF HostInit, ObserverInit

-----------------------------------------------------------------------------
(* Hardware watches (ResearchWatch).                                       *)

Contents == [1..Slots -> Address \cup {Foreign, Off}]

WatchTypeOK ==
  /\ alive \in SUBSET Thread
  /\ regs \in [Thread -> Contents]
  /\ slots \in [1..Slots -> Address \cup {Off}]
  /\ saved \in SUBSET Thread
  /\ handler \in BOOLEAN
  /\ early \in SUBSET (Thread \X (1..Slots))
  /\ left \in [Thread -> {"no", "skipped", "failed"}]

\* Whoever carries a watch is remembered, so that Arm refreshes and Disarm
\* restores it, and carries it in its slot; only a thread that Disarm skipped or
\* failed for does not.
CarriersAreSaved ==
  \A t \in Thread, k \in 1..Slots :
    regs[t][k] \in Address /\ left[t] = "no" => t \in saved /\ slots[k] = regs[t][k]

\* While a slot is in use the handler is there.
SlotsAreHandled == \A k \in 1..Slots : slots[k] \in Address => handler

\* A thread with a breakpoint of somebody else set early is not saved: neither Arm
\* nor Disarm writes its registers.
EarlyAreLeft == \A m \in early : m[1] \notin saved /\ regs[m[1]][m[2]] = Foreign

\* A thread that has ended has no registers.
EndedAreBare == \A t \in Thread \ alive, k \in 1..Slots : regs[t][k] \notin Address

WatchInv ==
  WatchTypeOK /\ CarriersAreSaved /\ SlotsAreHandled /\ EarlyAreLeft /\ EndedAreBare

LEMMA WatchConstants ==
  Slots \in Nat \ {0} /\ Off \notin Address /\ Foreign \notin Address /\ Foreign # Off
BY HostAssumption DEF Watch!WatchAssumption

LEMMA NoWatchIsOff == Watch!NoWatch = [k \in 1..Slots |-> Off]
BY DEF Watch!NoWatch, Watch!Slot

LEMMA WatchInit == Watch!Init => WatchInv
<1>. SUFFICES ASSUME Watch!Init PROVE WatchInv
  OBVIOUS
<1>1. /\ alive \in SUBSET Thread /\ saved = {} /\ handler = FALSE /\ early = {}
      /\ regs = [t \in Thread |-> [k \in 1..Slots |-> Off]]
      /\ slots = [k \in 1..Slots |-> Off]
      /\ left = [t \in Thread |-> "no"]
  BY NoWatchIsOff DEF Watch!Init
<1>2. WatchTypeOK
  BY <1>1 DEF WatchTypeOK, Contents
<1>3. \A k \in 1..Slots : slots[k] \notin Address /\ \A t \in Thread : regs[t][k] \notin Address
  BY <1>1, WatchConstants
<1>. QED
  BY <1>1, <1>2, <1>3
     DEF WatchInv, CarriersAreSaved, SlotsAreHandled, EarlyAreLeft, EndedAreBare

\* The slot that Arm chooses is free.
LEMMA FirstFreeIsOff ==
  ASSUME WatchTypeOK, Watch!SlotsOf(slots) # Watch!Slot
  PROVE  Watch!FirstFree \in 1..Slots /\ slots[Watch!FirstFree] = Off
<1>. DEFINE Free == {k \in 1..Slots : slots[k] = Off}
            Below == {p \in Nat \X Nat : p[1] < p[2]}
<1>1. Free # {} /\ Free \subseteq Nat
  BY DEF Watch!SlotsOf, Watch!Slot
<1>2. IsWellFoundedOn(Below, Nat)
  <2>1. OpToRel(<, Nat) = Below
    BY DEF OpToRel
  <2>. QED
    BY <2>1, NatLessThanWellFounded
<1>3. PICK k \in Free : \A n \in Free : ~(<<n, k>> \in Below)
  BY <1>1, <1>2, WFMin, Zenon
<1>4. ASSUME NEW n \in 1..(k - 1) PROVE slots[n] # Off
  <2>1. n \in 1..Slots /\ n \in Nat /\ k \in Nat /\ n < k
    BY <1>1, WatchConstants
  <2>. QED
    BY <1>3, <2>1
<1>5. k \in Watch!Slot /\ slots[k] = Off
  BY DEF Watch!Slot
<1>. QED
  BY <1>4, <1>5 DEF Watch!FirstFree, Watch!Slot

LEMMA ArmKeepsWatch ==
  ASSUME WatchInv, NEW c \in Caller, NEW a \in Address, Watch!Arm(c, a)
  PROVE  WatchInv'
<1>. DEFINE armed == [slots EXCEPT ![Watch!FirstFree] = a]
<1>1. /\ alive' = alive /\ early' = early
      /\ Watch!SlotsOf(slots) # Watch!Slot
  BY DEF Watch!Arm
<1>2. PICK opened \in SUBSET (alive \ {c}) : \E written \in SUBSET Watch!Entered(opened) :
        /\ IF written = {} /\ slots = Watch!NoWatch
           THEN saved' = {} /\ handler' = FALSE
           ELSE saved' = saved \cup Watch!Entered(opened) /\ handler' = TRUE
        /\ slots' = IF written = {} THEN slots ELSE armed
        /\ regs' = [t \in Thread |-> IF t \in written THEN armed ELSE regs[t]]
        /\ left' = [t \in Thread |-> IF t \in written THEN "no" ELSE left[t]]
  BY DEF Watch!Arm
<1>. DEFINE entered == Watch!Entered(opened)
<1>3. PICK written \in SUBSET entered :
        /\ IF written = {} /\ slots = Watch!NoWatch
           THEN saved' = {} /\ handler' = FALSE
           ELSE saved' = saved \cup entered /\ handler' = TRUE
        /\ slots' = IF written = {} THEN slots ELSE armed
        /\ regs' = [t \in Thread |-> IF t \in written THEN armed ELSE regs[t]]
        /\ left' = [t \in Thread |-> IF t \in written THEN "no" ELSE left[t]]
  BY <1>2
<1>4. WatchTypeOK
  BY DEF WatchInv
<1>5. PICK f \in 1..Slots : f = Watch!FirstFree /\ slots[f] = Off
  BY <1>1, <1>4, FirstFreeIsOff
<1>6. /\ armed \in [1..Slots -> Address \cup {Off}]
      /\ armed[f] = a /\ \A k \in 1..Slots : k # f => armed[k] = slots[k]
  BY <1>4, <1>5 DEF WatchTypeOK
<1>7. entered \subseteq Thread /\ \A t \in entered : t \in saved \/ regs[t] = Watch!NoWatch
  BY <1>2, <1>4 DEF Watch!Entered, Watch!Configures, Watch!Unused, WatchTypeOK
<1>. HIDE DEF armed, entered
<1>8. WatchTypeOK'
  <2>1. saved' \in SUBSET Thread /\ handler' \in BOOLEAN
    BY <1>3, <1>4, <1>7 DEF WatchTypeOK
  <2>2. slots' \in [1..Slots -> Address \cup {Off}]
    BY <1>3, <1>4, <1>6 DEF WatchTypeOK
  <2>3. armed \in Contents
    BY <1>6 DEF Contents
  <2>4. regs' \in [Thread -> Contents] /\ left' \in [Thread -> {"no", "skipped", "failed"}]
    BY <1>3, <1>4, <2>3 DEF WatchTypeOK
  <2>. QED
    BY <1>1, <1>4, <2>1, <2>2, <2>4 DEF WatchTypeOK
<1>9. CarriersAreSaved'
  <2>. SUFFICES ASSUME NEW t \in Thread, NEW k \in 1..Slots,
                       regs'[t][k] \in Address, left'[t] = "no"
                PROVE  t \in saved' /\ slots'[k] = regs'[t][k]
    BY DEF CarriersAreSaved
  <2>1. CASE t \in written
    BY <1>3, <2>1
  <2>2. CASE t \notin written
    <3>1. regs'[t] = regs[t] /\ left[t] = "no"
      BY <1>3, <2>2
    <3>2. t \in saved /\ slots[k] = regs[t][k] /\ slots[k] \in Address
      BY <3>1 DEF WatchInv, CarriersAreSaved
    <3>3. k # f
      BY <1>5, <3>2, WatchConstants
    <3>4. slots # Watch!NoWatch
      BY <3>2, NoWatchIsOff, WatchConstants
    <3>. QED
      BY <1>3, <1>6, <3>1, <3>2, <3>3, <3>4
  <2>. QED
    BY <2>1, <2>2
<1>10. SlotsAreHandled'
  <2>1. CASE written = {} /\ slots = Watch!NoWatch
    BY <1>3, <2>1, NoWatchIsOff, WatchConstants DEF SlotsAreHandled
  <2>2. CASE ~(written = {} /\ slots = Watch!NoWatch)
    BY <1>3, <2>2 DEF SlotsAreHandled
  <2>. QED
    BY <2>1, <2>2
<1>11. EarlyAreLeft'
  <2>. SUFFICES ASSUME NEW m \in early
                PROVE  m[1] \notin saved' /\ regs'[m[1]][m[2]] = Foreign
    BY <1>1 DEF EarlyAreLeft
  <2>1. m[1] \in Thread /\ m[2] \in 1..Slots /\ m[1] \notin saved /\ regs[m[1]][m[2]] = Foreign
    BY <1>4 DEF WatchInv, EarlyAreLeft, WatchTypeOK
  <2>2. regs[m[1]] # Watch!NoWatch
    BY <2>1, NoWatchIsOff, WatchConstants
  <2>3. m[1] \notin entered
    BY <1>7, <2>1, <2>2
  <2>4. m[1] \notin written /\ m[1] \notin saved'
    BY <1>3, <2>1, <2>3
  <2>. QED
    BY <1>3, <2>1, <2>4
<1>12. EndedAreBare'
  <2>1. \A t \in written : t \in alive
    BY <1>2, <1>3 DEF Watch!Entered, entered
  <2>. QED
    BY <1>1, <1>3, <2>1 DEF WatchInv, EndedAreBare
<1>. QED
  BY <1>8, <1>9, <1>10, <1>11, <1>12 DEF WatchInv

LEMMA DisarmKeepsWatch ==
  ASSUME WatchInv, NEW c \in Caller, Watch!Disarm(c)
  PROVE  WatchInv'
<1>1. PICK reached \in SUBSET Watch!Saved(c) :
        /\ regs' = [t \in Thread |-> IF t \in reached THEN Watch!NoWatch ELSE regs[t]]
        /\ left' = [t \in Thread |->
                      IF t \in (saved \cap alive) \ reached /\ Watch!Carries(t)
                      THEN IF t = c THEN "skipped" ELSE "failed"
                      ELSE left[t]]
  BY DEF Watch!Disarm, Watch!Restored
<1>2. /\ slots' = Watch!NoWatch /\ handler' = FALSE /\ saved' = {}
      /\ alive' = alive /\ early' = early
  BY DEF Watch!Disarm
<1>3. WatchTypeOK
  BY DEF WatchInv
<1>4. reached \subseteq saved
  BY <1>1 DEF Watch!Saved
<1>5. WatchTypeOK'
  <2>1. Watch!NoWatch \in [1..Slots -> Address \cup {Off}] /\ Watch!NoWatch \in Contents
    BY NoWatchIsOff DEF Contents
  <2>2. regs' \in [Thread -> Contents] /\ left' \in [Thread -> {"no", "skipped", "failed"}]
    BY <1>1, <1>3, <2>1 DEF WatchTypeOK
  <2>. QED
    BY <1>2, <1>3, <2>1, <2>2 DEF WatchTypeOK
<1>6. CarriersAreSaved'
  <2>. SUFFICES ASSUME NEW t \in Thread, NEW k \in 1..Slots,
                       regs'[t][k] \in Address, left'[t] = "no"
                PROVE  FALSE
    BY DEF CarriersAreSaved
  <2>1. t \notin reached /\ regs'[t] = regs[t]
    BY <1>1, NoWatchIsOff, WatchConstants
  <2>2. Watch!Carries(t)
    BY <2>1 DEF Watch!Carries, Watch!Slot
  <2>3. ~(t \in saved /\ t \in alive) /\ left[t] = "no"
    BY <1>1, <2>1, <2>2
  <2>4. t \in saved
    BY <2>1, <2>3 DEF WatchInv, CarriersAreSaved
  <2>5. t \in alive
    BY <2>1 DEF WatchInv, EndedAreBare
  <2>. QED
    BY <2>3, <2>4, <2>5
<1>7. SlotsAreHandled'
  BY <1>2, NoWatchIsOff, WatchConstants DEF SlotsAreHandled
<1>8. EarlyAreLeft'
  BY <1>1, <1>2, <1>4 DEF WatchInv, EarlyAreLeft, WatchTypeOK
<1>9. EndedAreBare'
  BY <1>1, <1>2, <1>3, NoWatchIsOff, WatchConstants DEF WatchInv, EndedAreBare, WatchTypeOK
<1>. QED
  BY <1>5, <1>6, <1>7, <1>8, <1>9 DEF WatchInv

LEMMA ThreadsKeepWatch ==
  ASSUME WatchInv, NEW t \in Thread, Watch!ThreadStarts(t) \/ Watch!ThreadEnds(t)
  PROVE  WatchInv'
<1>1. WatchTypeOK
  BY DEF WatchInv
<1>2. CASE Watch!ThreadStarts(t)
  <2>1. alive' = alive \cup {t} /\ UNCHANGED <<regs, slots, saved, handler, early, left>>
    BY <1>2 DEF Watch!ThreadStarts, Watch!hostVars
  <2>. QED
    BY <1>1, <2>1 DEF WatchInv, WatchTypeOK, CarriersAreSaved, SlotsAreHandled, EarlyAreLeft,
                      EndedAreBare
<1>3. CASE Watch!ThreadEnds(t)
  <2>1. /\ alive' = alive \ {t} /\ regs' = [regs EXCEPT ![t] = Watch!NoWatch]
        /\ early' = early \ Watch!MarksOf(t) /\ left' = [left EXCEPT ![t] = "no"]
        /\ UNCHANGED <<slots, saved, handler>>
    BY <1>3 DEF Watch!ThreadEnds, Watch!hostVars
  <2>2. /\ \A u \in Thread : u # t => regs'[u] = regs[u] /\ left'[u] = left[u]
        /\ \A k \in 1..Slots : regs'[t][k] = Off
    BY <1>1, <2>1, NoWatchIsOff DEF WatchTypeOK
  <2>3. WatchTypeOK'
    <3>1. Watch!NoWatch \in Contents
      BY NoWatchIsOff DEF Contents
    <3>. QED
      BY <1>1, <2>1, <3>1 DEF WatchTypeOK
  <2>4. CarriersAreSaved' /\ SlotsAreHandled'
    BY <2>1, <2>2, WatchConstants DEF WatchInv, CarriersAreSaved, SlotsAreHandled
  <2>5. EarlyAreLeft'
    <3>1. \A m \in early' : m \in early /\ m[1] # t /\ m[1] \in Thread
      BY <1>1, <2>1 DEF Watch!MarksOf, WatchTypeOK
    <3>. QED
      BY <2>1, <2>2, <3>1 DEF WatchInv, EarlyAreLeft
  <2>6. EndedAreBare'
    BY <2>1, <2>2, WatchConstants DEF WatchInv, EndedAreBare
  <2>. QED
    BY <2>3, <2>4, <2>5, <2>6 DEF WatchInv
<1>. QED
  BY <1>2, <1>3

\* Somebody else's breakpoints come and go in registers without a watch.
LEMMA ForeignKeepsWatch ==
  ASSUME WatchInv, NEW t \in Thread, NEW k \in Watch!Slot,
         Watch!ForeignSets(t, k) \/ Watch!ForeignClears(t, k)
  PROVE  WatchInv'
<1>. DEFINE v == IF Watch!ForeignSets(t, k) THEN Foreign ELSE Off
<1>1. WatchTypeOK /\ k \in 1..Slots
  BY DEF WatchInv, Watch!Slot
<1>2. /\ t \in alive /\ regs[t][k] \notin Address /\ v \notin Address /\ v \in {Foreign, Off}
      /\ regs' = [regs EXCEPT ![t][k] = v]
      /\ UNCHANGED <<alive, slots, saved, handler, left>>
  <2>1. CASE Watch!ForeignSets(t, k)
    BY <2>1, WatchConstants DEF Watch!ForeignSets, Watch!hostVars
  <2>2. CASE ~Watch!ForeignSets(t, k)
    BY <2>2, WatchConstants DEF Watch!ForeignClears, Watch!hostVars
  <2>. QED
    BY <2>1, <2>2
<1>3. \/ v = Foreign /\ (early' = early \/ (early' = early \cup {<<t, k>>} /\ t \notin saved))
      \/ early' = early \ {<<t, k>>}
  <2>1. CASE Watch!ForeignSets(t, k)
    BY <2>1 DEF Watch!ForeignSets
  <2>2. CASE ~Watch!ForeignSets(t, k)
    BY <2>2 DEF Watch!ForeignClears
  <2>. QED
    BY <2>1, <2>2
<1>. HIDE DEF v
<1>4. /\ regs'[t][k] = v
      /\ \A u \in Thread, n \in 1..Slots : <<u, n>> # <<t, k>> => regs'[u][n] = regs[u][n]
  BY <1>1, <1>2 DEF WatchTypeOK, Contents
<1>5. WatchTypeOK'
  <2>1. regs' \in [Thread -> Contents]
    BY <1>1, <1>2 DEF WatchTypeOK, Contents
  <2>2. early' \in SUBSET (Thread \X (1..Slots))
    BY <1>1, <1>3 DEF WatchTypeOK
  <2>. QED
    BY <1>1, <1>2, <2>1, <2>2 DEF WatchTypeOK
<1>6. \A u \in Thread, n \in 1..Slots : regs'[u][n] \in Address => regs[u][n] = regs'[u][n]
  BY <1>2, <1>4
<1>7. CarriersAreSaved' /\ SlotsAreHandled'
  BY <1>2, <1>6 DEF WatchInv, CarriersAreSaved, SlotsAreHandled
<1>8. EarlyAreLeft'
  <2>. SUFFICES ASSUME NEW m \in early'
                PROVE  m[1] \notin saved /\ regs'[m[1]][m[2]] = Foreign
    BY <1>2 DEF EarlyAreLeft
  <2>1. CASE m = <<t, k>>
    BY <1>3, <1>4, <2>1 DEF WatchInv, EarlyAreLeft
  <2>2. CASE m # <<t, k>>
    <3>1. m \in early /\ m[1] \in Thread /\ m[2] \in 1..Slots /\ m = <<m[1], m[2]>>
      BY <1>1, <1>3, <2>2 DEF WatchTypeOK
    <3>. QED
      BY <1>4, <2>2, <3>1 DEF WatchInv, EarlyAreLeft
  <2>. QED
    BY <2>1, <2>2
<1>9. EndedAreBare'
  BY <1>2, <1>6 DEF WatchInv, EndedAreBare
<1>. QED
  BY <1>5, <1>7, <1>8, <1>9 DEF WatchInv

LEMMA WatchStep == WatchInv /\ [Watch!Next]_(Watch!vars) => WatchInv'
<1>1. ASSUME WatchInv, Watch!Next PROVE WatchInv'
  BY <1>1, ArmKeepsWatch, DisarmKeepsWatch, ThreadsKeepWatch, ForeignKeepsWatch DEF Watch!Next
<1>2. ASSUME WatchInv, UNCHANGED Watch!vars PROVE WatchInv'
  BY <1>2 DEF Watch!vars, Watch!hostVars, WatchInv, WatchTypeOK, CarriersAreSaved,
              SlotsAreHandled, EarlyAreLeft, EndedAreBare
<1>. QED BY <1>1, <1>2

LEMMA WatchInvariant == HostSpec => [](which = "watch" => WatchInv)
<1>1. HostInit => (which = "watch" => WatchInv)
  BY InitOf, WatchInit
<1>2. (which = "watch" => WatchInv) /\ [HostNext]_hostVars => (which = "watch" => WatchInv)'
  BY StepOf, WatchStep
<1>. QED BY <1>1, <1>2, PTL DEF HostSpec, hostVars

\* However threads start and end, identifiers are used again, threads refuse to be
\* opened or written, others set breakpoints and whichever host threads arm and
\* disarm (Arm, Disarm): a watch in the registers of a thread that Disarm neither
\* skipped nor failed for has the handler and is the one in its slot.
THEOREM EveryTrapIsAnswered == HostSpec => []TrapsAreHandled
<1>1. ASSUME WatchInv PROVE Watch!TrapsAreHandled
  <2>. SUFFICES ASSUME NEW t \in alive, NEW k \in 1..Slots, regs[t][k] \in Address, left[t] = "no"
                PROVE  handler /\ slots[k] = regs[t][k]
    BY DEF Watch!TrapsAreHandled, Watch!Slot
  <2>1. t \in Thread
    BY <1>1 DEF WatchInv, WatchTypeOK
  <2>. QED
    BY <1>1, <2>1 DEF WatchInv, CarriersAreSaved, SlotsAreHandled
<1>2. (which = "watch" => WatchInv) => TrapsAreHandled
  BY <1>1 DEF TrapsAreHandled
<1>. QED BY <1>2, WatchInvariant, PTL

\* A breakpoint that somebody else set in a thread whose identifier the host had not
\* saved stays until its owner removes it or the thread ends, whenever it was set
\* (ConfigureThread, RestoreThread).
THEOREM ForeignBreakpointsStay == HostSpec => []OwnBreakpointsStay
<1>1. (which = "watch" => WatchInv) => OwnBreakpointsStay
  BY DEF WatchInv, EarlyAreLeft, OwnBreakpointsStay, Watch!OwnBreakpointsStay
<1>. QED BY <1>1, WatchInvariant, PTL

-----------------------------------------------------------------------------
(* Tick events (HostEvents).                                               *)

\* What the deque holds after push_back is a tail of what it would hold unbounded.
IsTail(t, s, x, d) ==
  \A k \in DOMAIN t : \/ k + d \in DOMAIN s /\ t[k] = s[k + d]
                      \/ k + d = Len(s) + 1 /\ t[k] = x

LEMMA PushBackIsATail ==
  ASSUME NEW S, NEW s \in Seq(S), NEW x \in S, NEW n \in Nat
  PROVE  /\ Events!PushBack(s, x, n) \in Seq(S)
         /\ \E d \in Nat : /\ IsTail(Events!PushBack(s, x, n), s, x, d)
                          /\ Len(Events!PushBack(s, x, n)) = Len(s) + 1 - d
<1>. DEFINE long == Append(s, x)
<1>1. /\ long \in Seq(S) /\ Len(s) \in Nat /\ Len(long) = Len(s) + 1
      /\ DOMAIN s = 1..Len(s)
      /\ \A k \in 1..Len(s) : long[k] = s[k]
      /\ long[Len(s) + 1] = x
  OBVIOUS
<1>2. CASE Len(long) > n
  <2>. DEFINE d == Len(long) - n
              tail == SubSeq(long, d + 1, Len(long))
  <2>1. Events!PushBack(s, x, n) = tail
    BY <1>2 DEF Events!PushBack, Events!LastOf
  <2>. HIDE DEF long
  <2>2. d \in Nat /\ d + 1 \in 1..(Len(long) + 1) /\ Len(long) \in Nat
    BY <1>1, <1>2
  <2>3. /\ tail \in Seq(S) /\ DOMAIN tail = 1..n /\ \A k \in 1..n : tail[k] = long[k + d]
        /\ Len(tail) = Len(s) + 1 - d
    BY <1>1, <2>2
  <2>. HIDE DEF tail
  <2>4. IsTail(tail, s, x, d)
    BY <1>1, <1>2, <2>3 DEF IsTail
  <2>. QED BY <2>1, <2>2, <2>3, <2>4
<1>3. CASE ~(Len(long) > n)
  <2>1. Events!PushBack(s, x, n) = long
    BY <1>3 DEF Events!PushBack, Events!LastOf
  <2>. HIDE DEF long
  <2>2. IsTail(long, s, x, 0) /\ Len(long) = Len(s) + 1 - 0
    BY <1>1 DEF IsTail
  <2>. QED BY <1>1, <2>1, <2>2
<1>. QED BY <1>2, <1>3

EventTypeOK ==
  /\ events \in Seq([cursor : Int, type : Type \cup Events!HostType, at : Int])
  /\ nextCursor \in Int
  /\ registered \in SUBSET Type
  /\ clock \in Int
  /\ waking \in SUBSET Int
  /\ lastTick \in Int

\* No tick event is later than the one TickLoop remembers.
TicksRemembered ==
  \A k \in DOMAIN events : events[k].type = "tick" => events[k].at <= lastTick

EventInv == EventTypeOK /\ TicksRemembered /\ Events!TicksCoalesced

LEMMA EventInit == Events!Init => EventInv
BY HostAssumption DEF Events!EventAssumption, Events!Init, EventInv, EventTypeOK,
   TicksRemembered, Events!TicksCoalesced

\* An event that is no tick, or a tick late enough, may be appended.
LEMMA AppendKeepsEvents ==
  ASSUME EventInv, NEW type \in Type \cup Events!HostType, NEW at \in Int,
         Events!AppendEventAt(type, at), registered' \in SUBSET Type, clock' \in Int,
         waking' \in SUBSET Int, lastTick' \in Int,
         IF type = "tick" THEN at - lastTick >= Period /\ lastTick' = at
         ELSE lastTick' = lastTick
  PROVE  EventInv'
<1>. USE HostAssumption DEF Events!EventAssumption
<1>. DEFINE E == [cursor : Int, type : Type \cup Events!HostType, at : Int]
            x == [cursor |-> nextCursor, type |-> type, at |-> at]
<1>1. x \in E /\ events \in Seq(E) /\ Capacity \in Nat
  BY DEF EventInv, EventTypeOK
<1>2. events' = Events!PushBack(events, x, Capacity) /\ nextCursor' = nextCursor + 1
  BY DEF Events!AppendEventAt
<1>. HIDE DEF E, x
<1>3. PICK d \in Nat : IsTail(events', events, x, d)
  BY <1>1, <1>2, PushBackIsATail
<1>4. events' \in Seq(E)
  BY <1>1, <1>2, PushBackIsATail
<1>5. EventTypeOK'
  BY <1>2, <1>4 DEF EventInv, EventTypeOK, E
<1>6. \A k \in DOMAIN events : events[k].at \in Int
  <2>1. \A k \in DOMAIN events : events[k] \in E
    BY <1>1
  <2>. QED BY <2>1 DEF E
<1>7. x.type = type /\ x.at = at
  BY DEF x
<1>8. TicksRemembered'
  <2>. SUFFICES ASSUME NEW k \in DOMAIN events', events'[k].type = "tick"
                PROVE  events'[k].at <= lastTick'
    BY DEF TicksRemembered
  <2>1. CASE k + d \in DOMAIN events /\ events'[k] = events[k + d]
    <3>1. events[k + d].at <= lastTick /\ events[k + d].at \in Int /\ lastTick \in Int
      BY <1>6, <2>1 DEF EventInv, EventTypeOK, TicksRemembered
    <3>2. lastTick <= lastTick'
      BY DEF EventInv, EventTypeOK
    <3>. QED BY <2>1, <3>1, <3>2
  <2>2. CASE events'[k] = x
    BY <1>7, <2>2
  <2>. QED BY <1>3, <2>1, <2>2 DEF IsTail
<1>9. Events!TicksCoalesced'
  <2>. SUFFICES ASSUME NEW a \in DOMAIN events', NEW b \in DOMAIN events', a < b,
                       events'[a].type = "tick", events'[b].type = "tick"
                PROVE  events'[b].at - events'[a].at >= Period
    BY DEF Events!TicksCoalesced
  <2>0. DOMAIN events' \subseteq Nat /\ DOMAIN events = 1..Len(events) /\ Len(events) \in Nat
    BY <1>1, <1>4
  <2>1. a + d \in DOMAIN events /\ events'[a] = events[a + d]
    BY <1>3, <2>0 DEF IsTail
  <2>2. CASE b + d \in DOMAIN events /\ events'[b] = events[b + d]
    BY <2>0, <2>1, <2>2 DEF EventInv, Events!TicksCoalesced
  <2>3. CASE b + d = Len(events) + 1 /\ events'[b] = x
    <3>1. type = "tick" /\ at - lastTick >= Period
      BY <1>7, <2>3
    <3>2. events[a + d].at <= lastTick /\ events[a + d].at \in Int /\ lastTick \in Int
      BY <1>6, <2>1 DEF EventInv, EventTypeOK, TicksRemembered
    <3>. QED BY <1>7, <2>1, <2>3, <3>1, <3>2
  <2>. QED BY <1>3, <2>2, <2>3 DEF IsTail
<1>. QED BY <1>5, <1>8, <1>9 DEF EventInv

LEMMA EventStep == EventInv /\ [Events!Next]_(Events!vars) => EventInv'
<1>. USE HostAssumption DEF Events!EventAssumption
<1>. SUFFICES ASSUME EventInv, [Events!Next]_(Events!vars) PROVE EventInv'
  OBVIOUS
<1>1. ASSUME UNCHANGED <<events, nextCursor, lastTick>>, registered' \in SUBSET Type,
             clock' \in Int, waking' \in SUBSET Int
      PROVE  EventInv'
  BY <1>1 DEF EventInv, EventTypeOK, TicksRemembered, Events!TicksCoalesced
<1>0. ASSUME NEW type \in (Type \cup Events!HostType) \ {"tick"}, Events!AppendEvent(type),
             UNCHANGED <<registered, clock, waking, lastTick>>
      PROVE  EventInv'
  <2>1. /\ registered' \in SUBSET Type /\ clock' \in Int /\ waking' \in SUBSET Int
        /\ lastTick' \in Int /\ lastTick' = lastTick
    BY <1>0 DEF EventInv, EventTypeOK
  <2>2. Events!AppendEventAt(type, 0) /\ 0 \in Int /\ type # "tick"
    BY <1>0 DEF Events!AppendEvent
  <2>. QED BY <1>0, <2>1, <2>2, AppendKeepsEvents
<1>2. CASE Events!Log
  BY <1>0, <1>2 DEF Events!Log, Events!HostType
<1>3. CASE Events!ReportGameReady
  BY <1>0, <1>3 DEF Events!ReportGameReady, Events!HostType
<1>4. ASSUME NEW t \in Type, Events!Emit(t) PROVE EventInv'
  BY <1>0, <1>4 DEF Events!Emit, Events!HostType
<1>5. ASSUME NEW types \in SUBSET Type, Events!RegisterTelemetryTypes(types) PROVE EventInv'
  BY <1>1, <1>5 DEF Events!RegisterTelemetryTypes, EventInv, EventTypeOK
<1>6. CASE Events!TickWakes
  BY <1>1, <1>6 DEF Events!TickWakes, Events!hostVars, EventInv, EventTypeOK
<1>7. CASE Events!TickEvent
  <2>1. PICK now \in waking :
          IF now - lastTick >= Period
          THEN Events!AppendEventAt("tick", now) /\ lastTick' = now
          ELSE UNCHANGED <<events, nextCursor, lastTick>>
    BY <1>7 DEF Events!TickEvent
  <2>2. now \in Int /\ waking' = {} /\ clock' = clock /\ registered' = registered
    BY <1>7 DEF Events!TickEvent, EventInv, EventTypeOK
  <2>3. CASE now - lastTick >= Period
    BY <2>1, <2>2, <2>3, AppendKeepsEvents DEF EventInv, EventTypeOK, Events!HostType
  <2>4. CASE ~(now - lastTick >= Period)
    BY <1>1, <2>1, <2>2, <2>4 DEF EventInv, EventTypeOK
  <2>. QED BY <2>3, <2>4
<1>8. CASE Events!ClockMoves
  BY <1>1, <1>8 DEF Events!ClockMoves, Events!hostVars, EventInv, EventTypeOK
<1>9. ASSUME NEW limit \in 1..MaxLimit, Events!Poll(limit) PROVE EventInv'
  BY <1>1, <1>9 DEF Events!Poll, Events!hostVars, EventInv, EventTypeOK
<1>10. CASE Events!Reconnect
  BY <1>1, <1>10 DEF Events!Reconnect, Events!hostVars, EventInv, EventTypeOK
<1>11. CASE UNCHANGED Events!vars
  BY <1>1, <1>11 DEF Events!vars, Events!hostVars, EventInv, EventTypeOK
<1>. QED BY <1>2, <1>3, <1>4, <1>5, <1>6, <1>7, <1>8, <1>9, <1>10, <1>11 DEF Events!Next

\* Tick events in the ring are at least a period apart, however often TickLoop
\* wakes, whatever other threads append and however the clock is set (TickLoop).
THEOREM TicksStayApart == HostSpec => []TicksCoalesced
<1>1. HostInit => (which = "events" => EventInv)
  BY InitOf, EventInit
<1>2. (which = "events" => EventInv) /\ [HostNext]_hostVars => (which = "events" => EventInv)'
  BY StepOf, EventStep
<1>3. (which = "events" => EventInv) => TicksCoalesced
  BY DEF EventInv, TicksCoalesced
<1>. QED BY <1>1, <1>2, <1>3, PTL DEF HostSpec, hostVars

-----------------------------------------------------------------------------
(* The pages of the ring: the cursors in it are consecutive and end at the  *)
(* newest one, so what lies after a client's cursor is a tail of the ring   *)
(* and a page is the beginning of that tail.                                *)

\* The cursor before the oldest one in the ring.
Dropped == nextCursor - 1 - Len(events)

PageInv ==
  /\ events \in Seq([cursor : Int, type : Type \cup Events!HostType, at : Int])
  /\ nextCursor \in Nat /\ Dropped \in Nat
  /\ after \in Nat /\ after < nextCursor
  /\ \A k \in DOMAIN events : events[k].cursor = Dropped + k

\* How many events of the ring the client has seen.
Seen == IF after > Dropped THEN after - Dropped ELSE 0

\* The instance counts the members of a set as this module does.
LEMMA EventCardinality == ASSUME NEW S PROVE Events!Cardinality(S) = Cardinality(S)
BY DEF Events!Cardinality, Cardinality

LEMMA RingLemma ==
  ASSUME PageInv
  PROVE  /\ DOMAIN events = 1..Len(events) /\ Len(events) \in Nat
         /\ Seen \in 0..Len(events)
         /\ Events!NewerPlaces = (Seen + 1)..Len(events)
<1>1. DOMAIN events = 1..Len(events) /\ Len(events) \in Nat
  BY DEF PageInv
<1>2. Seen \in 0..Len(events)
  BY <1>1 DEF PageInv, Seen, Dropped
<1>3. ASSUME NEW i \in 1..Len(events)
      PROVE  events[i].cursor > after <=> i \in (Seen + 1)..Len(events)
  <2>1. events[i].cursor = Dropped + i /\ Dropped \in Nat /\ after \in Nat
    BY <1>1 DEF PageInv
  <2>. QED
    BY <1>1, <2>1 DEF Seen
<1>4. Events!NewerPlaces = {i \in 1..Len(events) : events[i].cursor > after}
  BY <1>1 DEF Events!NewerPlaces, Events!Newer
<1>5. (Seen + 1)..Len(events) \subseteq 1..Len(events)
  BY <1>1, <1>2
<1>. QED
  BY <1>1, <1>2, <1>3, <1>4, <1>5

\* A page holds the events that follow those the client has seen.
LEMMA PageLemma ==
  ASSUME PageInv, NEW limit \in Nat
  PROVE  /\ Events!PageSize(limit) \in Nat
         /\ Seen + Events!PageSize(limit) <= Len(events)
         /\ DOMAIN Events!Events(limit) = 1..Events!PageSize(limit)
         /\ Len(Events!Events(limit)) = Events!PageSize(limit)
         /\ \A k \in 1..Events!PageSize(limit) :
              Events!Events(limit)[k].cursor = Dropped + Seen + k
<1>1. PICK m \in Nat : m = Seen
  BY RingLemma
<1>2. PICK n \in Nat : n = Len(events)
  BY RingLemma
<1>3. m <= n /\ Events!NewerPlaces = (m + 1)..n
  BY <1>1, <1>2, RingLemma
<1>4. Events!Cardinality(Events!NewerPlaces) = n - m
  <2>1. Cardinality((m + 1)..n) = n - m
    <3>1. m + 1 \in Int /\ n \in Int /\ (m + 1 > n <=> m = n)
      BY <1>3
    <3>2. Cardinality((m + 1)..n) = IF m + 1 > n THEN 0 ELSE n - (m + 1) + 1
      BY <3>1, FS_Interval
    <3>. QED
      BY <3>1, <3>2
  <2>. QED
    BY <1>3, <2>1, EventCardinality
<1>5. Events!PageSize(limit) \in Nat /\ m + Events!PageSize(limit) <= n
  BY <1>3, <1>4 DEF Events!PageSize
<1>6. PICK size \in Nat : size = Events!PageSize(limit)
  BY <1>5
<1>7. ASSUME NEW i \in (m + 1)..n
      PROVE  Events!Cardinality({j \in Events!NewerPlaces : j < i}) = i - m - 1
  <2>1. {j \in (m + 1)..n : j < i} = (m + 1)..(i - 1)
    OBVIOUS
  <2>2. Cardinality((m + 1)..(i - 1)) = i - m - 1
    BY FS_Interval
  <2>. QED
    BY <1>3, <2>1, <2>2, EventCardinality
<1>8. ASSUME NEW k \in 1..size PROVE Events!PlaceOf(k) = m + k
  <2>1. m + k \in (m + 1)..n
    BY <1>5, <1>6
  <2>2. \A i \in Events!NewerPlaces :
          Events!Cardinality({j \in Events!NewerPlaces : j < i}) = k - 1 <=> i = m + k
    BY <1>3, <1>7
  <2>3. m + k \in Events!NewerPlaces
    BY <1>3, <2>1
  <2>. QED
    BY <2>2, <2>3 DEF Events!PlaceOf
<1>9. Events!Events(limit) = [k \in 1..size |-> events[Events!PlaceOf(k)]]
  BY <1>6 DEF Events!Events
<1>10. DOMAIN Events!Events(limit) = 1..size /\ Len(Events!Events(limit)) = size
  BY <1>9
<1>11. ASSUME NEW k \in 1..size
       PROVE  Events!Events(limit)[k].cursor = Dropped + m + k
  <2>1. Events!Events(limit)[k] = events[m + k]
    BY <1>8, <1>9
  <2>2. m + k \in DOMAIN events
    BY <1>2, <1>5, <1>6, RingLemma
  <2>3. events[m + k].cursor = Dropped + (m + k) /\ Dropped \in Nat
    BY <2>2 DEF PageInv
  <2>. QED
    BY <2>1, <2>3
<1>. QED
  BY <1>1, <1>2, <1>5, <1>6, <1>10, <1>11

\* Where the client stands after a page.
LEMMA CursorLemma ==
  ASSUME PageInv, NEW limit \in Nat
  PROVE  Events!PageCursor(Events!Events(limit)) =
           IF Events!PageSize(limit) = 0 THEN after
           ELSE Dropped + Seen + Events!PageSize(limit)
<1>1. PICK size \in Nat : size = Events!PageSize(limit)
  BY PageLemma
<1>2. PICK u : u = Events!Events(limit)
  OBVIOUS
<1>3. /\ DOMAIN u = 1..size /\ Len(u) = size
      /\ \A k \in 1..size : u[k].cursor = Dropped + Seen + k
  BY <1>1, <1>2, PageLemma
<1>4. u = <<>> <=> size = 0
  <2>1. u = <<>> => size = 0
    BY <1>3
  <2>2. size = 0 => u = <<>>
    <3>1. u = [k \in 1..size |-> events[Events!PlaceOf(k)]]
      BY <1>1, <1>2 DEF Events!Events
    <3>. QED
      BY <3>1
  <2>. QED
    BY <2>1, <2>2
<1>5. Events!PageCursor(u) = IF size = 0 THEN after ELSE Dropped + Seen + size
  BY <1>3, <1>4 DEF Events!PageCursor
<1>. QED
  BY <1>1, <1>2, <1>5

LEMMA PageInit == Events!Init => PageInv
BY DEF Events!Init, PageInv, Dropped

\* Appending keeps the cursors consecutive, and only the oldest are dropped.
LEMMA AppendKeepsPages ==
  ASSUME PageInv, NEW type \in Type \cup Events!HostType, NEW at \in Int,
         Events!AppendEventAt(type, at), after' = after
  PROVE  PageInv'
<1>. DEFINE E == [cursor : Int, type : Type \cup Events!HostType, at : Int]
            x == [cursor |-> nextCursor, type |-> type, at |-> at]
<1>1. x \in E /\ events \in Seq(E) /\ Capacity \in Nat /\ x.cursor = nextCursor
  BY HostAssumption DEF Events!EventAssumption, PageInv
<1>2. events' = Events!PushBack(events, x, Capacity) /\ nextCursor' = nextCursor + 1
  BY DEF Events!AppendEventAt
<1>. HIDE DEF E, x
<1>3. PICK d \in Nat : IsTail(events', events, x, d) /\ Len(events') = Len(events) + 1 - d
  BY <1>1, <1>2, PushBackIsATail
<1>4. events' \in Seq(E)
  BY <1>1, <1>2, PushBackIsATail
<1>5. DOMAIN events' \subseteq Nat /\ Len(events') \in Nat /\ Len(events) \in Nat
  BY <1>1, <1>4
<1>6. nextCursor \in Nat /\ Dropped = nextCursor - 1 - Len(events) /\ Dropped \in Nat
  BY DEF PageInv, Dropped
<1>7. Dropped' = Dropped + d
  BY <1>2, <1>3, <1>5, <1>6 DEF Dropped
<1>8. ASSUME NEW k \in DOMAIN events' PROVE events'[k].cursor = Dropped + d + k
  <2>1. CASE k + d \in DOMAIN events /\ events'[k] = events[k + d]
    <3>1. events[k + d].cursor = Dropped + (k + d)
      BY <2>1 DEF PageInv
    <3>. QED
      BY <1>5, <1>6, <2>1, <3>1
  <2>2. CASE k + d = Len(events) + 1 /\ events'[k] = x
    <3>1. events'[k].cursor = nextCursor
      BY <1>1, <2>2
    <3>2. nextCursor = Dropped + d + k
      BY <1>5, <1>6, <2>2
    <3>. QED
      BY <3>1, <3>2
  <2>. QED
    BY <1>3, <2>1, <2>2 DEF IsTail
<1>9. after' \in Nat /\ after' < nextCursor'
  BY <1>2 DEF PageInv
<1>. QED
  BY <1>2, <1>4, <1>6, <1>7, <1>8, <1>9 DEF PageInv, E

LEMMA PollKeepsPages ==
  ASSUME PageInv, NEW limit \in 1..MaxLimit, Events!Poll(limit)
  PROVE  PageInv'
<1>1. /\ events' = events /\ nextCursor' = nextCursor
      /\ after' = Events!PageCursor(Events!Events(limit))
  BY DEF Events!Poll, Events!hostVars
<1>2. limit \in Nat
  BY HostAssumption DEF Events!EventAssumption
<1>3. PICK size \in Nat : size = Events!PageSize(limit)
  BY <1>2, PageLemma
<1>4. Seen \in Nat /\ Seen + size <= Len(events) /\ Len(events) \in Nat
  BY <1>2, <1>3, PageLemma, RingLemma
<1>5. after' = IF size = 0 THEN after ELSE Dropped + Seen + size
  BY <1>1, <1>2, <1>3, CursorLemma
<1>6. /\ nextCursor \in Nat /\ Dropped = nextCursor - 1 - Len(events) /\ Dropped \in Nat
      /\ after \in Nat /\ after < nextCursor
  BY DEF PageInv, Dropped
<1>7. after' \in Nat /\ after' < nextCursor
  BY <1>4, <1>5, <1>6
<1>8. Dropped' = Dropped
  BY <1>1 DEF Dropped
<1>. QED
  BY <1>1, <1>7, <1>8 DEF PageInv

LEMMA PageStep == EventInv /\ PageInv /\ [Events!Next]_(Events!vars) => PageInv'
<1>. SUFFICES ASSUME EventInv, PageInv, [Events!Next]_(Events!vars) PROVE PageInv'
  OBVIOUS
<1>1. ASSUME UNCHANGED <<events, nextCursor>>, after' \in {0, after}
      PROVE  PageInv'
  <2>1. after' \in Nat /\ after' < nextCursor
    <3>1. after \in Nat /\ after < nextCursor /\ nextCursor \in Nat
      BY DEF PageInv
    <3>. QED
      BY <1>1, <3>1
  <2>2. Dropped' = Dropped
    BY <1>1 DEF Dropped
  <2>. QED
    BY <1>1, <2>1, <2>2 DEF PageInv
<1>2. ASSUME NEW type \in Type \cup Events!HostType, Events!AppendEvent(type), after' = after
      PROVE  PageInv'
  BY <1>2, AppendKeepsPages DEF Events!AppendEvent
<1>3. CASE Events!Log
  BY <1>2, <1>3 DEF Events!Log, Events!HostType
<1>4. CASE Events!ReportGameReady
  BY <1>2, <1>4 DEF Events!ReportGameReady, Events!HostType
<1>5. ASSUME NEW t \in Type, Events!Emit(t) PROVE PageInv'
  BY <1>2, <1>5 DEF Events!Emit
<1>6. ASSUME NEW types \in SUBSET Type, Events!RegisterTelemetryTypes(types) PROVE PageInv'
  BY <1>1, <1>6 DEF Events!RegisterTelemetryTypes
<1>7. CASE Events!TickWakes \/ Events!ClockMoves
  BY <1>1, <1>7 DEF Events!TickWakes, Events!ClockMoves, Events!hostVars
<1>8. CASE Events!TickEvent
  <2>1. PICK now \in waking :
          IF now - lastTick >= Period
          THEN Events!AppendEventAt("tick", now) /\ lastTick' = now
          ELSE UNCHANGED <<events, nextCursor, lastTick>>
    BY <1>8 DEF Events!TickEvent
  <2>2. after' = after /\ now \in Int
    BY <1>8 DEF Events!TickEvent, EventInv, EventTypeOK
  <2>3. CASE now - lastTick >= Period
    BY <2>1, <2>2, <2>3, AppendKeepsPages DEF Events!HostType
  <2>4. CASE ~(now - lastTick >= Period)
    BY <1>1, <2>1, <2>2, <2>4
  <2>. QED
    BY <2>3, <2>4
<1>9. ASSUME NEW limit \in 1..MaxLimit, Events!Poll(limit) PROVE PageInv'
  BY <1>9, PollKeepsPages
<1>10. CASE Events!Reconnect
  BY <1>1, <1>10 DEF Events!Reconnect, Events!hostVars
<1>11. CASE UNCHANGED Events!vars
  BY <1>1, <1>11 DEF Events!vars, Events!hostVars
<1>. QED
  BY <1>3, <1>4, <1>5, <1>6, <1>7, <1>8, <1>9, <1>10, <1>11 DEF Events!Next

-----------------------------------------------------------------------------
(* What a client was given since it connected: none of it twice, none newer *)
(* than its cursor, and every event of the ring up to its cursor.           *)

DeliveredInv ==
  /\ delivered \in Seq(Nat)
  /\ \A k \in DOMAIN delivered : delivered[k] <= after
  /\ Events!NoEventTwice
  /\ Events!MissesOnlyDropped

LEMMA DeliveredInit == Events!Init => DeliveredInv
<1>. SUFFICES ASSUME Events!Init PROVE DeliveredInv
  OBVIOUS
<1>1. delivered = <<>> /\ events = <<>>
  BY DEF Events!Init
<1>. QED
  BY <1>1 DEF DeliveredInv, Events!NoEventTwice, Events!MissesOnlyDropped

\* A new event is newer than any cursor; the others were in the ring before.
LEMMA AppendKeepsDelivered ==
  ASSUME PageInv, DeliveredInv, NEW type \in Type \cup Events!HostType, NEW at \in Int,
         Events!AppendEventAt(type, at), UNCHANGED <<after, delivered>>
  PROVE  DeliveredInv'
<1>. DEFINE E == [cursor : Int, type : Type \cup Events!HostType, at : Int]
            x == [cursor |-> nextCursor, type |-> type, at |-> at]
<1>1. x \in E /\ events \in Seq(E) /\ Capacity \in Nat /\ x.cursor = nextCursor
  BY HostAssumption DEF Events!EventAssumption, PageInv
<1>2. events' = Events!PushBack(events, x, Capacity)
  BY DEF Events!AppendEventAt
<1>. HIDE DEF E, x
<1>3. PICK d \in Nat : IsTail(events', events, x, d)
  BY <1>1, <1>2, PushBackIsATail
<1>4. ASSUME NEW k \in DOMAIN events', events'[k].cursor <= after
      PROVE  \E j \in DOMAIN delivered : delivered[j] = events'[k].cursor
  <2>1. CASE k + d \in DOMAIN events /\ events'[k] = events[k + d]
    BY <1>4, <2>1 DEF DeliveredInv, Events!MissesOnlyDropped
  <2>2. CASE events'[k] = x
    <3>1. nextCursor <= after /\ after < nextCursor /\ after \in Nat /\ nextCursor \in Nat
      BY <1>1, <1>4, <2>2 DEF PageInv
    <3>. QED
      BY <3>1
  <2>. QED
    BY <1>3, <2>1, <2>2 DEF IsTail
<1>5. Events!MissesOnlyDropped'
  BY <1>4 DEF Events!MissesOnlyDropped
<1>. QED
  BY <1>5 DEF DeliveredInv, Events!NoEventTwice

\* A page continues where the last one ended, or at the oldest event in the ring.
LEMMA PollKeepsDelivered ==
  ASSUME PageInv, DeliveredInv, NEW limit \in 1..MaxLimit, Events!Poll(limit)
  PROVE  DeliveredInv'
<1>1. limit \in Nat
  BY HostAssumption DEF Events!EventAssumption
<1>2. PICK size \in Nat : size = Events!PageSize(limit)
  BY <1>1, PageLemma
<1>3. PICK base \in Nat : base = Dropped + Seen /\ Seen \in Nat
  BY RingLemma DEF PageInv
<1>4. PICK u : u = Events!Events(limit)
  OBVIOUS
<1>5. DOMAIN u = 1..size /\ \A n \in 1..size : u[n].cursor = base + n
  BY <1>1, <1>2, <1>3, <1>4, PageLemma
<1>6. PICK s : s = [n \in DOMAIN u |-> u[n].cursor]
  OBVIOUS
<1>7. s \in Seq(Nat) /\ Len(s) = size /\ \A n \in 1..size : s[n] = base + n
  <2>1. s = [n \in 1..size |-> base + n]
    BY <1>5, <1>6
  <2>. QED
    BY <2>1
<1>8. /\ delivered' = delivered \o s /\ events' = events /\ nextCursor' = nextCursor
      /\ after' = IF size = 0 THEN after ELSE base + size
  BY <1>1, <1>2, <1>3, <1>4, <1>6, CursorLemma DEF Events!Poll, Events!hostVars
<1>9. PICK n \in Nat : n = Len(delivered) /\ delivered \in Seq(Nat)
  BY DEF DeliveredInv
<1>10. /\ delivered' \in Seq(Nat) /\ DOMAIN delivered' = 1..(n + size)
       /\ \A k \in 1..n : delivered'[k] = delivered[k]
       /\ \A k \in (n + 1)..(n + size) : delivered'[k] = base + (k - n)
  <2>1. delivered' \in Seq(Nat) /\ DOMAIN delivered' = 1..(n + size)
    <3>1. \A x, y \in Seq(Nat) : x \o y \in Seq(Nat) /\ Len(x \o y) = Len(x) + Len(y)
      OBVIOUS
    <3>2. delivered' \in Seq(Nat) /\ Len(delivered') = Len(delivered) + Len(s)
      BY <1>7, <1>8, <1>9, <3>1, Zenon
    <3>. QED
      BY <1>7, <1>9, <3>2
  <2>2. ASSUME NEW k \in (n + 1)..(n + size) PROVE delivered'[k] = base + (k - n)
    <3>1. delivered'[k] = s[k - n] /\ k - n \in 1..size
      BY <1>7, <1>8, <1>9
    <3>. QED
      BY <1>7, <3>1
  <2>3. \A k \in 1..n : delivered'[k] = delivered[k]
    BY <1>7, <1>8, <1>9
  <2>. QED
    BY <2>1, <2>2, <2>3
<1>11. after \in Nat /\ after <= base
  BY <1>3 DEF PageInv, Seen
<1>12. ASSUME NEW k \in 1..n
       PROVE  /\ delivered[k] \in Nat /\ delivered[k] <= after
              /\ \A j \in 1..n : j < k => delivered[j] < delivered[k]
  <2>1. DOMAIN delivered = 1..n
    BY <1>9
  <2>2. delivered[k] \in Nat
    BY <1>9
  <2>. QED
    BY <2>1, <2>2 DEF DeliveredInv, Events!NoEventTwice
<1>13. ASSUME NEW k \in DOMAIN delivered' PROVE delivered'[k] <= after'
  <2>1. k \in 1..n \/ k \in (n + 1)..(n + size)
    BY <1>10
  <2>2. CASE k \in 1..n
    BY <1>8, <1>10, <1>11, <1>12, <2>2
  <2>3. CASE k \in (n + 1)..(n + size)
    BY <1>8, <1>10, <2>3
  <2>. QED
    BY <2>1, <2>2, <2>3
<1>14. ASSUME NEW j \in DOMAIN delivered', NEW k \in DOMAIN delivered', j < k
       PROVE  delivered'[j] < delivered'[k]
  <2>1. (j \in 1..n \/ j \in (n + 1)..(n + size)) /\ (k \in 1..n \/ k \in (n + 1)..(n + size))
    BY <1>10
  <2>2. CASE k \in 1..n
    <3>1. j \in 1..n
      BY <1>14, <2>1, <2>2
    <3>. QED
      BY <1>10, <1>12, <1>14, <2>2, <3>1
  <2>3. CASE k \in (n + 1)..(n + size)
    <3>1. delivered'[k] = base + (k - n)
      BY <1>10, <2>3
    <3>2. CASE j \in 1..n
      <4>1. delivered'[j] \in Nat /\ delivered'[j] <= after
        BY <1>10, <1>12, <3>2
      <4>2. delivered'[k] > base
        BY <2>3, <3>1
      <4>. QED
        BY <1>11, <2>3, <3>1, <4>1, <4>2
    <3>3. CASE j \in (n + 1)..(n + size)
      <4>1. delivered'[j] = base + (j - n)
        BY <1>10, <3>3
      <4>. QED
        BY <1>14, <2>3, <3>1, <3>3, <4>1
    <3>. QED
      BY <2>1, <3>2, <3>3
  <2>. QED
    BY <2>1, <2>2, <2>3
<1>15. ASSUME NEW i \in DOMAIN events, events[i].cursor <= after'
       PROVE  \E k \in DOMAIN delivered' : delivered'[k] = events[i].cursor
  <2>1. events[i].cursor = Dropped + i /\ i \in Nat /\ Dropped \in Nat /\ i >= 1
    BY RingLemma DEF PageInv
  <2>2. CASE events[i].cursor <= after
    <3>1. PICK k \in DOMAIN delivered : delivered[k] = events[i].cursor
      BY <2>2 DEF DeliveredInv, Events!MissesOnlyDropped
    <3>. QED
      BY <1>9, <1>10, <3>1
  <2>3. CASE ~(events[i].cursor <= after)
    <3>1. size # 0 /\ Dropped + i <= base + size
      BY <1>8, <1>15, <2>1, <2>3
    <3>2. Dropped + i > base
      BY <1>3, <1>11, <2>1, <2>3 DEF Seen
    <3>3. PICK k \in (n + 1)..(n + size) : base + (k - n) = Dropped + i
      <4>1. PICK c \in Nat : c = Dropped + i
        BY <2>1
      <4>2. PICK k \in Int : k = n + (c - base)
        BY <4>1
      <4>3. k \in (n + 1)..(n + size) /\ base + (k - n) = c
        BY <3>1, <3>2, <4>1, <4>2
      <4>. QED
        BY <4>1, <4>3
    <3>. QED
      BY <1>10, <2>1, <3>3
  <2>. QED
    BY <2>2, <2>3
<1>16. Events!NoEventTwice'
  BY <1>14 DEF Events!NoEventTwice
<1>17. Events!MissesOnlyDropped'
  BY <1>8, <1>15 DEF Events!MissesOnlyDropped
<1>. QED
  BY <1>10, <1>13, <1>16, <1>17 DEF DeliveredInv

LEMMA DeliveredStep ==
  EventInv /\ PageInv /\ DeliveredInv /\ [Events!Next]_(Events!vars) => DeliveredInv'
<1>. SUFFICES ASSUME EventInv, PageInv, DeliveredInv, [Events!Next]_(Events!vars)
              PROVE  DeliveredInv'
  OBVIOUS
<1>1. ASSUME UNCHANGED <<events, after, delivered>> PROVE DeliveredInv'
  BY <1>1 DEF DeliveredInv, Events!NoEventTwice, Events!MissesOnlyDropped
<1>2. ASSUME NEW type \in Type \cup Events!HostType, Events!AppendEvent(type),
             UNCHANGED <<after, delivered>>
      PROVE  DeliveredInv'
  BY <1>2, AppendKeepsDelivered DEF Events!AppendEvent
<1>3. CASE Events!Log
  BY <1>2, <1>3 DEF Events!Log, Events!HostType
<1>4. CASE Events!ReportGameReady
  BY <1>2, <1>4 DEF Events!ReportGameReady, Events!HostType
<1>5. ASSUME NEW t \in Type, Events!Emit(t) PROVE DeliveredInv'
  BY <1>2, <1>5 DEF Events!Emit
<1>6. ASSUME NEW types \in SUBSET Type, Events!RegisterTelemetryTypes(types) PROVE DeliveredInv'
  BY <1>1, <1>6 DEF Events!RegisterTelemetryTypes
<1>7. CASE Events!TickWakes \/ Events!ClockMoves
  BY <1>1, <1>7 DEF Events!TickWakes, Events!ClockMoves, Events!hostVars
<1>8. CASE Events!TickEvent
  <2>1. PICK now \in waking :
          IF now - lastTick >= Period
          THEN Events!AppendEventAt("tick", now) /\ lastTick' = now
          ELSE UNCHANGED <<events, nextCursor, lastTick>>
    BY <1>8 DEF Events!TickEvent
  <2>2. UNCHANGED <<after, delivered>> /\ now \in Int
    BY <1>8 DEF Events!TickEvent, EventInv, EventTypeOK
  <2>3. CASE now - lastTick >= Period
    BY <2>1, <2>2, <2>3, AppendKeepsDelivered DEF Events!HostType
  <2>4. CASE ~(now - lastTick >= Period)
    BY <1>1, <2>1, <2>2, <2>4
  <2>. QED
    BY <2>3, <2>4
<1>9. ASSUME NEW limit \in 1..MaxLimit, Events!Poll(limit) PROVE DeliveredInv'
  BY <1>9, PollKeepsDelivered
<1>10. CASE Events!Reconnect
  <2>1. after' = 0 /\ delivered' = <<>> /\ events' = events
    BY <1>10 DEF Events!Reconnect, Events!hostVars
  <2>2. \A i \in DOMAIN events : ~(events[i].cursor <= 0)
    <3>. SUFFICES ASSUME NEW i \in DOMAIN events PROVE ~(events[i].cursor <= 0)
      OBVIOUS
    <3>1. events[i].cursor = Dropped + i /\ i \in Nat /\ Dropped \in Nat /\ i >= 1
      BY RingLemma DEF PageInv
    <3>. QED
      BY <3>1
  <2>. QED
    BY <2>1, <2>2 DEF DeliveredInv, Events!NoEventTwice, Events!MissesOnlyDropped
<1>11. CASE UNCHANGED Events!vars
  BY <1>1, <1>11 DEF Events!vars, Events!hostVars
<1>. QED
  BY <1>3, <1>4, <1>5, <1>6, <1>7, <1>8, <1>9, <1>10, <1>11 DEF Events!Next

LEMMA DeliveredInvariant ==
  HostSpec => [](which = "events" => EventInv /\ PageInv /\ DeliveredInv)
<1>1. HostInit => (which = "events" => EventInv /\ PageInv /\ DeliveredInv)
  BY InitOf, EventInit, PageInit, DeliveredInit
<1>2. (which = "events" => EventInv /\ PageInv /\ DeliveredInv) /\ [HostNext]_hostVars
        => (which = "events" => EventInv /\ PageInv /\ DeliveredInv)'
  BY StepOf, EventStep, PageStep, DeliveredStep
<1>. QED
  BY <1>1, <1>2, PTL DEF HostSpec, hostVars

\* A client that follows nextCursor is given no event twice, its events in the order
\* in which they were appended, and misses only those the ring had already dropped, for
\* any capacity, page sizes and threads that append (EventsResult, AppendEvent).
THEOREM ClientsPageFaithfully == HostSpec => []PagesAreFaithful
<1>1. (which = "events" => EventInv /\ PageInv /\ DeliveredInv) => PagesAreFaithful
  BY DEF PagesAreFaithful, Events!PagesAreFaithful, DeliveredInv
<1>. QED
  BY <1>1, DeliveredInvariant, PTL

-----------------------------------------------------------------------------
(* The loop over the callbacks (HostCallbacks).                            *)

\* While its buffer is kept, the loop stands at an element of what was there
\* when it began, or past it, and has run those of its event before that.
Loop ==
  firing # {} /\ ~freed =>
    /\ position \in 1..(last + 1) /\ last <= Len(callbacks)
    /\ ran = {k \in 1..(position - 1) : callbacks[k] \in firing}

LoopInv ==
  /\ callbacks \in Seq(EventName) /\ position \in Nat /\ last \in Nat /\ freed \in BOOLEAN
  /\ Loop

LEMMA LoopInit == HostInit => LoopInv
<1>. SUFFICES ASSUME HostInit PROVE LoopInv
  OBVIOUS
<1>1. callbacks = <<>> /\ firing = {} /\ position = 0 /\ last = 0 /\ freed = FALSE
  BY DEF HostInit, ObserverInit, CallbacksRest, Callbacks!Init
<1>2. callbacks \in Seq(EventName) /\ position \in Nat /\ last \in Nat /\ freed \in BOOLEAN
  <2>1. <<>> \in Seq(EventName) /\ 0 \in Nat
    OBVIOUS
  <2>. QED
    BY <1>1, <2>1, Zenon
<1>3. Loop
  BY <1>1 DEF Loop
<1>. QED
  BY <1>2, <1>3 DEF LoopInv

\* cfb.on appends, and leaves the loop alone or without its buffer.
LEMMA RegisterLemma ==
  ASSUME LoopInv, NEW name \in EventName, Callbacks!Register(name)
  PROVE  /\ callbacks' \in Seq(EventName) /\ Len(callbacks') = Len(callbacks) + 1
         /\ Len(callbacks) \in Nat
         /\ \A k \in 1..Len(callbacks) : callbacks'[k] = callbacks[k]
         /\ freed' \in BOOLEAN /\ (freed => freed')
BY DEF Callbacks!Register, LoopInv

LEMMA LoopStep == LoopInv /\ [Callbacks!Next]_(Callbacks!vars) => LoopInv'
<1>. SUFFICES ASSUME LoopInv, [Callbacks!Next]_(Callbacks!vars) PROVE LoopInv'
  OBVIOUS
<1>1. CASE UNCHANGED Callbacks!vars
  BY <1>1 DEF Callbacks!vars, Callbacks!walkVars, LoopInv, Loop
<1>2. ASSUME NEW name \in EventName, Callbacks!LuaOn(name) PROVE LoopInv'
  BY <1>2, RegisterLemma DEF Callbacks!LuaOn, Callbacks!walkVars, LoopInv, Loop
<1>3. ASSUME NEW name \in EventName, Callbacks!FireEvent(name) PROVE LoopInv'
  <2>1. /\ callbacks' = callbacks /\ callbacks \in Seq(EventName) /\ Len(callbacks) \in Nat
        /\ position' = 1 /\ last' = Len(callbacks) /\ freed' = FALSE /\ ran' = {}
    BY <1>3 DEF Callbacks!FireEvent, Callbacks!End, LoopInv
  <2>2. 1..(position' - 1) = {}
    BY <2>1
  <2>3. Loop'
    BY <2>1, <2>2 DEF Loop
  <2>. QED
    BY <2>1, <2>3 DEF LoopInv
<1>4. CASE Callbacks!Done
  BY <1>4 DEF Callbacks!Done, LoopInv, Loop
<1>5. CASE Callbacks!Element
  <2>1. /\ firing # {} /\ position <= last /\ position' = position + 1
        /\ UNCHANGED <<firing, last>>
    BY <1>5 DEF Callbacks!Element, Callbacks!Continue
  <2>2. /\ callbacks' \in Seq(EventName) /\ Len(callbacks) <= Len(callbacks')
        /\ Len(callbacks) \in Nat /\ Len(callbacks') \in Nat
        /\ \A k \in 1..Len(callbacks) : callbacks'[k] = callbacks[k]
        /\ freed' \in BOOLEAN /\ (freed => freed')
    <3>1. CASE UNCHANGED <<callbacks, freed>>
      BY <3>1 DEF LoopInv
    <3>2. CASE \E name \in EventName : Callbacks!Register(name)
      BY <3>2, RegisterLemma
    <3>. QED
      BY <1>5, <3>1, <3>2 DEF Callbacks!Element, Callbacks!Call, Callbacks!Skip
  <2>3. ASSUME ~freed' PROVE Loop'
    <3>1. /\ ~freed /\ position \in 1..(last + 1) /\ last <= Len(callbacks) /\ last \in Nat
          /\ ran = {k \in 1..(position - 1) : callbacks[k] \in firing}
      BY <2>1, <2>2, <2>3 DEF LoopInv, Loop
    <3>2. ran' = IF callbacks[position] \in firing THEN ran \cup {position} ELSE ran
      BY <1>5, <3>1 DEF Callbacks!Element, Callbacks!Call, Callbacks!Skip
    <3>3. ran' = {k \in 1..position : callbacks[k] \in firing}
      BY <3>1, <3>2
    <3>4. \A k \in 1..position : callbacks'[k] = callbacks[k]
      BY <2>1, <2>2, <3>1
    <3>5. ran' = {k \in 1..(position' - 1) : callbacks'[k] \in firing'}
      BY <2>1, <3>1, <3>3, <3>4
    <3>. QED
      BY <2>1, <2>2, <3>1, <3>5 DEF Loop
  <2>4. freed' => Loop'
    BY DEF Loop
  <2>. QED
    BY <2>1, <2>2, <2>3, <2>4 DEF LoopInv
<1>. QED
  BY <1>1, <1>2, <1>3, <1>4, <1>5 DEF Callbacks!Next

\* However many callbacks there are and whatever they register, a loop whose
\* buffer is kept runs those registered for its event when it began (FireEvent).
THEOREM LoopsRunAll == HostSpec => HeldLoopsRunAll
<1>1. LoopInv /\ [HostNext]_hostVars => LoopInv'
  <2>1. ASSUME LoopInv, UNCHANGED callbackVars PROVE LoopInv'
    BY <2>1 DEF callbackVars, LoopInv, Loop
  <2>2. [HostNext]_hostVars => [Callbacks!Next]_(Callbacks!vars) \/ UNCHANGED callbackVars
    BY DEF HostNext, ObserverNext, observerVars, hostVars
  <2>. QED
    BY <2>1, <2>2, LoopStep
<1>2. ASSUME LoopInv, [HostNext]_hostVars
      PROVE  [ firing # {} /\ firing' = {} /\ ~freed =>
                 ran = {k \in 1..last : callbacks[k] \in firing} ]_(Callbacks!vars)
  <2>. SUFFICES ASSUME firing # {}, firing' = {}, ~freed
                PROVE  ran = {k \in 1..last : callbacks[k] \in firing}
    OBVIOUS
  <2>1. Callbacks!Done
    BY <1>2
    DEF HostNext, ObserverNext, observerVars, hostVars, callbackVars, Callbacks!Next,
        Callbacks!LuaOn, Callbacks!FireEvent, Callbacks!Element, Callbacks!walkVars
  <2>2. position = last + 1 /\ last \in Nat
    BY <1>2, <2>1 DEF LoopInv, Loop, Callbacks!Done
  <2>3. ran = {k \in 1..(position - 1) : callbacks[k] \in firing}
    BY <1>2 DEF LoopInv, Loop
  <2>4. position - 1 = last
    BY <2>2
  <2>. QED
    BY <2>3, <2>4
<1>. QED
  BY <1>1, <1>2, LoopInit, PTL DEF HostSpec, hostVars, HeldLoopsRunAll, Callbacks!HeldLoopsRunAll

-----------------------------------------------------------------------------
(* The hit buffer (WatchHits).                                             *)

Entry == 0..(MaxHits - 1)
Filling(t) == handler[t].step \in {"reset", "registers", "stack", "publish"}
Dropping == {t \in GameThread : handler[t].step = "drop"}
Excess == IF count < MaxHits THEN 0 ELSE count - MaxHits

HandlerState ==
  {Hits!Idle}
    \cup [step : {"drop"}, trap : Nat, index : Nat]
    \cup [step : {"reset", "registers", "stack", "publish"}, trap : Nat, index : Entry]

BufferTypeOK ==
  /\ traps \in Nat /\ cleared \in Nat /\ overtaken \in BOOLEAN
  /\ count \in Nat /\ dropped \in Nat
  /\ hit \in [Entry -> [regs : Nat, stack : Nat]]
  /\ ready \in SUBSET Entry

CollectTypeOK ==
  /\ collect \in [step : {"idle", "copy", "stack", "clear", "clearDropped", "clearReady"},
                  index : Nat, upto : 0..MaxHits, clear : BOOLEAN]
  /\ collect.step = "clearReady" => collect.index \in Entry
  /\ snapshot \in [hits : SUBSET (Entry \X Nat \X Nat), dropped : Nat, due : Int]
  /\ IsFiniteSet(snapshot.hits)

HitTypeOK == BufferTypeOK /\ handler \in [GameThread -> HandlerState] /\ CollectTypeOK

\* Since the last clearing trap number n has had entry n - 1: it is ready, or a
\* thread is filling it, or it is past the end of the buffer.
EntriesAccountedFor ==
  /\ count = traps - cleared
  /\ \A i \in ready : /\ i < count
                       /\ hit[i].regs = cleared + i + 1 /\ hit[i].stack = cleared + i + 1
  /\ \A t \in GameThread : Filling(t) =>
       /\ handler[t].index < count /\ handler[t].index \notin ready
       /\ handler[t].trap = cleared + handler[t].index + 1
       /\ handler[t].step \in {"stack", "publish"} => hit[handler[t].index].regs = handler[t].trap
       /\ handler[t].step = "publish" => hit[handler[t].index].stack = handler[t].trap
  /\ \A t, u \in GameThread :
       t # u /\ Filling(t) /\ Filling(u) => handler[t].index # handler[u].index
  /\ \A i \in Entry \ ready :
       i < count => \E t \in GameThread : Filling(t) /\ handler[t].index = i
  /\ dropped + Cardinality(Dropping) = Excess

\* While a clearing is under way that overtook nobody, nobody is in the handler.
ClearedInPeace ==
  /\ \A t \in GameThread : handler[t] = Hits!Idle
  /\ count = 0 /\ cleared = traps
  /\ collect.step = "clearReady" => dropped = 0 /\ \A i \in ready : i >= collect.index

\* What a call has copied is whole, but for the entry it is at.
CopiesWhole ==
  /\ \A h \in snapshot.hits :
       /\ h[2] = cleared + h[1] + 1
       /\ collect.step = "copy" \/ h[1] # collect.index => h[3] = h[2]
  /\ collect.step = "stack" =>
       /\ collect.index \in ready /\ collect.index < collect.upto
       /\ \E h \in snapshot.hits : h[1] = collect.index

\* The entries that were ready when the call began: it has copied, or will reach,
\* each of them, and with the hits dropped they are as many as were due.
DueAreReached ==
  \E R \in SUBSET ready :
    /\ Cardinality(R) + dropped >= snapshot.due
    /\ \A i \in R : i < collect.upto /\ (i < collect.index => \E h \in snapshot.hits : h[1] = i)

HitInv ==
  /\ HitTypeOK
  /\ ~overtaken /\ ~Hits!Clearing => EntriesAccountedFor
  /\ ~overtaken /\ Hits!Clearing => ClearedInPeace
  /\ ~overtaken /\ collect.step \in {"copy", "stack"} => CopiesWhole /\ DueAreReached

\* The operators of an instantiated library are those of the library.
LEMMA SameOperators ==
  ASSUME NEW S
  PROVE  /\ Hits!IsFiniteSet(S) <=> IsFiniteSet(S)
         /\ Hits!Cardinality(S) = Cardinality(S)
<1>1. Hits!IsFiniteSet(S) <=> IsFiniteSet(S)
  BY DEF Hits!IsFiniteSet, IsFiniteSet
<1>2. Hits!Cardinality(S) = Cardinality(S)
  BY DEF Hits!Cardinality, Cardinality
<1>. QED BY <1>1, <1>2

LEMMA HitConstants ==
  /\ MaxHits \in Nat \ {0} /\ IsFiniteSet(GameThread)
  /\ Hits!Index = Entry
BY HostAssumption, SameOperators DEF Hits!HitsAssumption, Hits!Index, Entry

LEMMA DroppingIsFinite == IsFiniteSet(Dropping) /\ Cardinality(Dropping) \in Nat
BY HitConstants, FS_Subset, FS_CardinalityType DEF Dropping

\* The states of a thread in the handler, by their step.
LEMMA HandlerStates ==
  ASSUME NEW s \in HandlerState
  PROVE  /\ s.trap \in Nat /\ s.index \in Nat
         /\ s = Hits!Idle \/ s.step = "drop" \/ s.step \in {"reset", "registers", "stack", "publish"}
         /\ s.step \in {"reset", "registers", "stack", "publish"} => s.index \in Entry
         /\ s.step = "idle" <=> s = Hits!Idle
         /\ s = [step |-> s.step, trap |-> s.trap, index |-> s.index]
BY HitConstants DEF HandlerState, Hits!Idle, Hits!None, Entry

LEMMA HandlerTypes ==
  ASSUME HitTypeOK, NEW t \in GameThread
  PROVE  /\ handler[t] \in HandlerState
         /\ handler[t].trap \in Nat /\ handler[t].index \in Nat
         /\ Filling(t) => handler[t].index \in Entry
         /\ handler[t].step = "idle" <=> handler[t] = Hits!Idle
BY HandlerStates DEF HitTypeOK, Filling

LEMMA HitInit == Hits!Init => HitInv
<1>. SUFFICES ASSUME Hits!Init PROVE HitInv
  OBVIOUS
<1>1. HitTypeOK
  <2>1. BufferTypeOK
    BY HitConstants DEF BufferTypeOK, Hits!Init, Hits!Empty, Hits!None
  <2>2. handler \in [GameThread -> HandlerState]
    BY DEF Hits!Init, HandlerState
  <2>3. CollectTypeOK
    BY HitConstants, FS_EmptySet DEF CollectTypeOK, Hits!Init, Hits!Rest
  <2>. QED BY <2>1, <2>2, <2>3 DEF HitTypeOK
<1>2. EntriesAccountedFor
  <2>1. Dropping = {}
    BY DEF Dropping, Hits!Init, Hits!Idle
  <2>2. dropped + Cardinality(Dropping) = Excess
    BY <2>1, HitConstants, FS_EmptySet DEF Excess, Hits!Init
  <2>. QED BY <2>2 DEF EntriesAccountedFor, Filling, Entry, Hits!Init, Hits!Idle
<1>. QED BY <1>1, <1>2 DEF HitInv, Hits!Init, Hits!Rest, Hits!Clearing

\* While no field of Collect changes and the buffer only gains, what a call has
\* copied stays whole and what it was due stays within reach.
LEMMA HandlerLeavesCopies ==
  ASSUME HitTypeOK, UNCHANGED <<cleared, collect, snapshot>>,
         dropped' \in Nat, dropped' >= dropped, ready \subseteq ready', ready' \subseteq Entry,
         CopiesWhole, DueAreReached
  PROVE  CopiesWhole' /\ DueAreReached'
<1>1. CopiesWhole'
  BY DEF CopiesWhole
<1>2. DueAreReached'
  <2>1. PICK R \in SUBSET ready :
          /\ Cardinality(R) + dropped >= snapshot.due
          /\ \A i \in R : /\ i < collect.upto
                          /\ i < collect.index => \E h \in snapshot.hits : h[1] = i
    BY DEF DueAreReached
  <2>2. R \in SUBSET ready' /\ IsFiniteSet(Entry)
    BY HitConstants, FS_Interval DEF Entry
  <2>3. Cardinality(R) \in Nat
    BY <2>1, <2>2, FS_Subset, FS_CardinalityType DEF HitTypeOK, BufferTypeOK
  <2>4. Cardinality(R) + dropped' >= snapshot'.due
    BY <2>1, <2>3 DEF HitTypeOK, BufferTypeOK, CollectTypeOK
  <2>. QED BY <2>1, <2>2, <2>4 DEF DueAreReached
<1>. QED BY <1>1, <1>2

LEMMA ClaimKeepsHits ==
  ASSUME HitInv, NEW t \in GameThread, Hits!Claim(t)
  PROVE  HitInv'
<1>. DEFINE goes == IF count < MaxHits THEN "reset" ELSE "drop"
            claimed == [step |-> goes, trap |-> traps + 1, index |-> count]
<1>1. /\ handler[t] = Hits!Idle
      /\ traps' = traps + 1 /\ count' = count + 1
      /\ handler' = [handler EXCEPT ![t] = claimed]
      /\ overtaken' = (overtaken \/ Hits!Clearing)
      /\ UNCHANGED <<cleared, dropped, hit, ready, collect, snapshot>>
  BY DEF Hits!Claim, Hits!Idle, Hits!At, Hits!HasRoom
<1>2. HitTypeOK /\ BufferTypeOK /\ MaxHits \in Nat \ {0}
  BY HitConstants DEF HitInv, HitTypeOK
<1>3. \A u \in GameThread : handler'[u] = IF u = t THEN claimed ELSE handler[u]
  BY <1>1, <1>2 DEF HitTypeOK
<1>4. HitTypeOK'
  <2>1. BufferTypeOK'
    BY <1>1, <1>2 DEF BufferTypeOK
  <2>2. claimed \in HandlerState
    BY <1>2 DEF BufferTypeOK, HandlerState, Entry
  <2>3. CollectTypeOK'
    BY <1>1, <1>2 DEF HitTypeOK, CollectTypeOK
  <2>. QED BY <1>1, <1>2, <2>1, <2>2, <2>3 DEF HitTypeOK
<1>5. ASSUME ~overtaken, ~Hits!Clearing PROVE EntriesAccountedFor'
  <2>1. EntriesAccountedFor
    BY <1>5 DEF HitInv
  <2>2. count' = traps' - cleared' /\ claimed.trap = cleared' + claimed.index + 1
    BY <1>1, <1>2, <2>1 DEF EntriesAccountedFor, BufferTypeOK
  <2>3. ~Filling(t) /\ \A u \in GameThread \ {t} : handler'[u] = handler[u] /\ (Filling(u)' <=> Filling(u))
    BY <1>1, <1>3 DEF Filling, Hits!Idle
  <2>4. handler'[t] = claimed /\ (Filling(t)' <=> count < MaxHits)
    BY <1>3 DEF Filling
  <2>5. \A i \in ready' : /\ i < count'
                          /\ hit'[i].regs = cleared' + i + 1 /\ hit'[i].stack = cleared' + i + 1
    BY <1>1, <1>2, <2>1 DEF EntriesAccountedFor, BufferTypeOK, Entry
  <2>6. ASSUME NEW u \in GameThread, Filling(u)'
        PROVE  /\ handler'[u].index < count' /\ handler'[u].index \notin ready'
               /\ handler'[u].trap = cleared' + handler'[u].index + 1
               /\ handler'[u].step \in {"stack", "publish"} => hit'[handler'[u].index].regs = handler'[u].trap
               /\ handler'[u].step = "publish" => hit'[handler'[u].index].stack = handler'[u].trap
    <3>1. CASE u = t
      <4>1. count \notin ready
        BY <1>2, <2>1 DEF EntriesAccountedFor, BufferTypeOK
      <4>. QED BY <1>1, <1>2, <2>2, <2>4, <3>1, <4>1 DEF BufferTypeOK
    <3>2. CASE u # t
      BY <1>1, <1>2, <2>1, <2>3, <2>6, <3>2, HandlerTypes DEF EntriesAccountedFor, BufferTypeOK
    <3>. QED BY <3>1, <3>2
  <2>7. ASSUME NEW u \in GameThread, NEW v \in GameThread, u # v, Filling(u)', Filling(v)'
        PROVE  handler'[u].index # handler'[v].index
    <3>1. ASSUME NEW w \in GameThread \ {t}, Filling(w)' PROVE handler'[w].index < count
      BY <2>1, <2>3, <3>1 DEF EntriesAccountedFor
    <3>2. handler'[t].index = count
      BY <2>4
    <3>3. CASE u # t /\ v # t
      BY <2>1, <2>3, <2>7, <3>3 DEF EntriesAccountedFor
    <3>4. CASE u = t \/ v = t
      BY <1>2, <2>7, <3>1, <3>2, <3>4 DEF BufferTypeOK
    <3>. QED BY <3>3, <3>4
  <2>8. ASSUME NEW i \in Entry \ ready', i < count'
        PROVE  \E u \in GameThread : Filling(u)' /\ handler'[u].index = i
    <3>1. CASE i < count
      <4>1. PICK u \in GameThread : Filling(u) /\ handler[u].index = i
        BY <1>1, <2>1, <2>8, <3>1 DEF EntriesAccountedFor
      <4>. QED BY <2>3, <4>1
    <3>2. CASE ~(i < count)
      BY <1>1, <1>2, <2>4, <2>8, <3>2 DEF BufferTypeOK, Entry
    <3>. QED BY <3>1, <3>2
  <2>9. dropped' + Cardinality(Dropping') = Excess'
    <3>1. CASE count < MaxHits
      <4>1. Dropping' = Dropping
        BY <1>1, <1>3, <3>1 DEF Dropping, Hits!Idle
      <4>. QED BY <1>1, <1>2, <2>1, <3>1, <4>1, DroppingIsFinite DEF EntriesAccountedFor, BufferTypeOK, Excess
    <3>2. CASE ~(count < MaxHits)
      <4>1. Dropping' = Dropping \cup {t} /\ t \notin Dropping
        BY <1>1, <1>3, <3>2 DEF Dropping, Hits!Idle
      <4>2. Cardinality(Dropping') = Cardinality(Dropping) + 1
        BY <4>1, DroppingIsFinite, FS_AddElement
      <4>. QED BY <1>1, <1>2, <2>1, <3>2, <4>2, DroppingIsFinite DEF EntriesAccountedFor, BufferTypeOK, Excess
    <3>. QED BY <3>1, <3>2
  <2>. QED BY <2>2, <2>5, <2>6, <2>7, <2>8, <2>9 DEF EntriesAccountedFor
<1>6. ASSUME ~overtaken, collect.step \in {"copy", "stack"} PROVE CopiesWhole' /\ DueAreReached'
  BY <1>1, <1>2, <1>6, HandlerLeavesCopies DEF HitInv, BufferTypeOK
<1>. QED BY <1>1, <1>4, <1>5, <1>6 DEF HitInv, Hits!Clearing

LEMMA DropKeepsHits ==
  ASSUME HitInv, NEW t \in GameThread, Hits!Drop(t)
  PROVE  HitInv'
<1>1. /\ handler[t].step = "drop" /\ dropped' = dropped + 1
      /\ handler' = [handler EXCEPT ![t] = Hits!Idle]
      /\ UNCHANGED <<traps, cleared, overtaken, count, hit, ready, collect, snapshot>>
  BY DEF Hits!Drop
<1>2. HitTypeOK /\ BufferTypeOK /\ MaxHits \in Nat \ {0}
  BY HitConstants DEF HitInv, HitTypeOK
<1>3. \A u \in GameThread : handler'[u] = IF u = t THEN Hits!Idle ELSE handler[u]
  BY <1>1, <1>2 DEF HitTypeOK
<1>4. HitTypeOK'
  <2>1. BufferTypeOK'
    BY <1>1, <1>2 DEF BufferTypeOK
  <2>2. handler' \in [GameThread -> HandlerState]
    BY <1>1, <1>2 DEF HitTypeOK, HandlerState
  <2>3. CollectTypeOK'
    BY <1>1, <1>2 DEF HitTypeOK, CollectTypeOK
  <2>. QED BY <2>1, <2>2, <2>3 DEF HitTypeOK
<1>5. ASSUME ~overtaken, ~Hits!Clearing PROVE EntriesAccountedFor'
  <2>1. EntriesAccountedFor
    BY <1>5 DEF HitInv
  <2>2. \A u \in GameThread : /\ Filling(u)' <=> Filling(u)
                              /\ Filling(u) => handler'[u] = handler[u]
    BY <1>1, <1>3 DEF Filling, Hits!Idle
  <2>3. Dropping' = Dropping \ {t} /\ t \in Dropping
    BY <1>1, <1>3 DEF Dropping, Hits!Idle
  <2>4. Cardinality(Dropping') = Cardinality(Dropping) - 1
    BY <2>3, DroppingIsFinite, FS_RemoveElement
  <2>5. dropped' + Cardinality(Dropping') = Excess'
    BY <1>1, <1>2, <2>1, <2>4, DroppingIsFinite DEF BufferTypeOK, EntriesAccountedFor, Excess
  <2>. QED BY <1>1, <2>1, <2>2, <2>5 DEF EntriesAccountedFor
<1>6. ASSUME ~overtaken, collect.step \in {"copy", "stack"} PROVE CopiesWhole' /\ DueAreReached'
  BY <1>1, <1>2, <1>6, HandlerLeavesCopies DEF HitInv, BufferTypeOK
<1>7. ~overtaken => ~Hits!Clearing
  BY <1>1 DEF HitInv, ClearedInPeace, Hits!Idle
<1>. QED BY <1>1, <1>4, <1>5, <1>6, <1>7 DEF HitInv, Hits!Clearing

\* A thread writes one more field of the entry it fills.
LEMMA FillKeepsHits ==
  ASSUME HitInv, NEW t \in GameThread, Filling(t),
         NEW entry \in [regs : Nat, stack : Nat],
         NEW step \in {"registers", "stack", "publish"},
         handler' = [handler EXCEPT ![t].step = step],
         hit' = [hit EXCEPT ![handler[t].index] = entry],
         EntriesAccountedFor =>
           /\ step \in {"stack", "publish"} => entry.regs = handler[t].trap
           /\ step = "publish" => entry.stack = handler[t].trap,
         UNCHANGED <<traps, cleared, overtaken, count, dropped, ready, collect, snapshot>>
  PROVE  HitInv'
<1>1. HitTypeOK /\ BufferTypeOK
  BY DEF HitInv, HitTypeOK
<1>. DEFINE index == handler[t].index
<1>2. index \in Entry /\ handler[t].trap \in Nat
  BY <1>1, HandlerTypes
<1>3. /\ handler'[t].step = step /\ handler'[t].trap = handler[t].trap /\ handler'[t].index = index
      /\ handler'[t] \in HandlerState
  <2>1. handler'[t] = [step |-> step, trap |-> handler[t].trap, index |-> index]
    BY <1>1, HandlerTypes, HandlerStates DEF HitTypeOK
  <2>. QED BY <1>2, <2>1 DEF HandlerState
<1>4. \A u \in GameThread \ {t} : handler'[u] = handler[u]
  BY <1>1 DEF HitTypeOK
<1>5. \A u \in GameThread : /\ Filling(u)' <=> Filling(u)
                            /\ handler'[u].index = handler[u].index /\ handler'[u].trap = handler[u].trap
                            /\ handler'[u].step = "drop" <=> handler[u].step = "drop"
  BY <1>3, <1>4 DEF Filling
<1>6. \A i \in Entry : hit'[i] = IF i = index THEN entry ELSE hit[i]
  BY <1>1 DEF BufferTypeOK
<1>7. HitTypeOK'
  <2>1. BufferTypeOK'
    BY <1>1, <1>2 DEF BufferTypeOK
  <2>2. handler' \in [GameThread -> HandlerState]
    BY <1>1, <1>3, <1>4 DEF HitTypeOK
  <2>3. CollectTypeOK'
    BY <1>1 DEF HitTypeOK, CollectTypeOK
  <2>. QED BY <2>1, <2>2, <2>3 DEF HitTypeOK
<1>8. ASSUME ~overtaken, ~Hits!Clearing PROVE EntriesAccountedFor'
  <2>1. EntriesAccountedFor
    BY <1>8 DEF HitInv
  <2>2. index \notin ready
    BY <2>1 DEF EntriesAccountedFor
  <2>3. \A i \in ready' : /\ i < count'
                          /\ hit'[i].regs = cleared' + i + 1 /\ hit'[i].stack = cleared' + i + 1
    BY <1>1, <1>6, <2>1, <2>2 DEF EntriesAccountedFor, BufferTypeOK
  <2>4. ASSUME NEW u \in GameThread, Filling(u)'
        PROVE  /\ handler'[u].index < count' /\ handler'[u].index \notin ready'
               /\ handler'[u].trap = cleared' + handler'[u].index + 1
               /\ handler'[u].step \in {"stack", "publish"} => hit'[handler'[u].index].regs = handler'[u].trap
               /\ handler'[u].step = "publish" => hit'[handler'[u].index].stack = handler'[u].trap
    <3>1. CASE u = t
      BY <1>2, <1>3, <1>6, <2>1, <3>1 DEF EntriesAccountedFor
    <3>2. CASE u # t
      <4>1. handler[u].index # index /\ handler[u].index \in Entry
        BY <1>1, <1>5, <2>1, <2>4, <3>2, HandlerTypes DEF EntriesAccountedFor
      <4>. QED BY <1>4, <1>5, <1>6, <2>1, <2>4, <3>2, <4>1 DEF EntriesAccountedFor
    <3>. QED BY <3>1, <3>2
  <2>5. Dropping' = Dropping
    BY <1>5 DEF Dropping
  <2>6. dropped' + Cardinality(Dropping') = Excess'
    BY <2>1, <2>5 DEF EntriesAccountedFor, Excess
  <2>. QED BY <1>5, <2>1, <2>3, <2>4, <2>6 DEF EntriesAccountedFor
<1>9. ASSUME ~overtaken, collect.step \in {"copy", "stack"} PROVE CopiesWhole' /\ DueAreReached'
  BY <1>1, <1>9, HandlerLeavesCopies DEF HitInv, BufferTypeOK
<1>10. ~overtaken => ~Hits!Clearing
  BY DEF HitInv, ClearedInPeace, Hits!Idle, Filling
<1>. QED BY <1>7, <1>8, <1>9, <1>10 DEF HitInv, Hits!Clearing

LEMMA FieldsKeepHits ==
  ASSUME HitInv, NEW t \in GameThread,
         Hits!Reset(t) \/ Hits!Registers(t) \/ Hits!Stack(t)
  PROVE  HitInv'
<1>1. HitTypeOK /\ BufferTypeOK
  BY DEF HitInv, HitTypeOK
<1>2. Filling(t)
  BY DEF Hits!Reset, Hits!Registers, Hits!Stack, Filling
<1>. DEFINE index == handler[t].index
<1>3. index \in Entry /\ handler[t].trap \in Nat /\ hit[index] \in [regs : Nat, stack : Nat]
  BY <1>1, <1>2, HandlerTypes DEF BufferTypeOK
<1>4. CASE Hits!Reset(t)
  <2>1. Hits!Empty \in [regs : Nat, stack : Nat]
    BY DEF Hits!Empty, Hits!None
  <2>. QED BY <1>2, <1>4, <2>1, FillKeepsHits DEF Hits!Reset, Hits!Goes
<1>5. CASE Hits!Registers(t)
  <2>. DEFINE entry == [hit[index] EXCEPT !.regs = handler[t].trap]
  <2>1. entry \in [regs : Nat, stack : Nat] /\ entry.regs = handler[t].trap
    BY <1>3
  <2>2. hit' = [hit EXCEPT ![index] = entry]
    BY <1>5 DEF Hits!Registers
  <2>. HIDE DEF entry
  <2>. QED BY <1>2, <1>5, <2>1, <2>2, FillKeepsHits DEF Hits!Registers, Hits!Goes
<1>6. CASE Hits!Stack(t)
  <2>. DEFINE entry == [hit[index] EXCEPT !.stack = handler[t].trap]
  <2>1. /\ entry \in [regs : Nat, stack : Nat] /\ entry.stack = handler[t].trap
        /\ entry.regs = hit[index].regs
    BY <1>3
  <2>2. hit' = [hit EXCEPT ![index] = entry] /\ handler[t].step = "stack"
    BY <1>6 DEF Hits!Stack
  <2>3. EntriesAccountedFor => entry.regs = handler[t].trap
    BY <1>2, <2>1, <2>2 DEF EntriesAccountedFor
  <2>. HIDE DEF entry
  <2>. QED BY <1>2, <1>6, <2>1, <2>2, <2>3, FillKeepsHits DEF Hits!Stack, Hits!Goes
<1>. QED BY <1>4, <1>5, <1>6

LEMMA PublishKeepsHits ==
  ASSUME HitInv, NEW t \in GameThread, Hits!Publish(t)
  PROVE  HitInv'
<1>. DEFINE index == handler[t].index
<1>1. /\ handler[t].step = "publish" /\ ready' = ready \cup {index}
      /\ handler' = [handler EXCEPT ![t] = Hits!Idle]
      /\ UNCHANGED <<traps, cleared, overtaken, count, dropped, hit, collect, snapshot>>
  BY DEF Hits!Publish
<1>2. HitTypeOK /\ BufferTypeOK
  BY DEF HitInv, HitTypeOK
<1>3. Filling(t) /\ index \in Entry
  BY <1>1, <1>2, HandlerTypes DEF Filling
<1>4. \A u \in GameThread : handler'[u] = IF u = t THEN Hits!Idle ELSE handler[u]
  BY <1>1, <1>2 DEF HitTypeOK
<1>5. \A u \in GameThread : Filling(u)' <=> Filling(u) /\ u # t
  BY <1>4 DEF Filling, Hits!Idle
<1>6. HitTypeOK'
  <2>1. BufferTypeOK'
    BY <1>1, <1>2, <1>3 DEF BufferTypeOK
  <2>2. handler' \in [GameThread -> HandlerState]
    BY <1>1, <1>2 DEF HitTypeOK, HandlerState
  <2>3. CollectTypeOK'
    BY <1>1, <1>2 DEF HitTypeOK, CollectTypeOK
  <2>. QED BY <2>1, <2>2, <2>3 DEF HitTypeOK
<1>7. ASSUME ~overtaken, ~Hits!Clearing PROVE EntriesAccountedFor'
  <2>1. EntriesAccountedFor
    BY <1>7 DEF HitInv
  <2>2. /\ index < count /\ hit[index].regs = cleared + index + 1
        /\ hit[index].stack = cleared + index + 1
    BY <1>1, <1>3, <2>1 DEF EntriesAccountedFor
  <2>3. \A i \in ready' : /\ i < count'
                          /\ hit'[i].regs = cleared' + i + 1 /\ hit'[i].stack = cleared' + i + 1
    BY <1>1, <2>1, <2>2 DEF EntriesAccountedFor
  <2>4. ASSUME NEW u \in GameThread, Filling(u)'
        PROVE  /\ handler'[u].index < count' /\ handler'[u].index \notin ready'
               /\ handler'[u].trap = cleared' + handler'[u].index + 1
               /\ handler'[u].step \in {"stack", "publish"} => hit'[handler'[u].index].regs = handler'[u].trap
               /\ handler'[u].step = "publish" => hit'[handler'[u].index].stack = handler'[u].trap
    <3>1. u # t /\ Filling(u) /\ handler'[u] = handler[u]
      BY <1>4, <1>5, <2>4
    <3>2. handler[u].index # index
      BY <1>3, <2>1, <3>1 DEF EntriesAccountedFor
    <3>. QED BY <1>1, <2>1, <3>1, <3>2 DEF EntriesAccountedFor
  <2>5. \A u, v \in GameThread :
          u # v /\ Filling(u)' /\ Filling(v)' => handler'[u].index # handler'[v].index
    BY <1>4, <1>5, <2>1 DEF EntriesAccountedFor
  <2>6. ASSUME NEW i \in Entry \ ready', i < count'
        PROVE  \E u \in GameThread : Filling(u)' /\ handler'[u].index = i
    <3>1. i \in Entry \ ready /\ i # index /\ i < count
      BY <1>1, <2>6
    <3>2. PICK u \in GameThread : Filling(u) /\ handler[u].index = i
      BY <2>1, <3>1 DEF EntriesAccountedFor
    <3>. QED BY <1>4, <1>5, <3>1, <3>2
  <2>7. Dropping' = Dropping
    BY <1>1, <1>4 DEF Dropping, Hits!Idle
  <2>8. dropped' + Cardinality(Dropping') = Excess'
    BY <1>1, <2>1, <2>7 DEF EntriesAccountedFor, Excess
  <2>. QED BY <1>1, <2>1, <2>3, <2>4, <2>5, <2>6, <2>8 DEF EntriesAccountedFor
<1>8. ASSUME ~overtaken, collect.step \in {"copy", "stack"} PROVE CopiesWhole' /\ DueAreReached'
  BY <1>1, <1>2, <1>3, <1>8, HandlerLeavesCopies DEF HitInv, BufferTypeOK
<1>9. ~overtaken => ~Hits!Clearing
  BY <1>3 DEF HitInv, ClearedInPeace, Hits!Idle, Filling
<1>. QED BY <1>1, <1>6, <1>7, <1>8, <1>9 DEF HitInv, Hits!Clearing

\* What finitely many things are mapped to is no larger a set than they are.
LEMMA ImageIsNoLarger ==
  ASSUME NEW S, IsFiniteSet(S), NEW f, f \in [S -> {f[x] : x \in S}],
         NEW T \in SUBSET {f[x] : x \in S}
  PROVE  /\ IsFiniteSet(T) /\ Cardinality(T) \in Nat
         /\ Cardinality(T) <= Cardinality(S) /\ Cardinality(S) \in Nat
<1>. DEFINE image == {f[x] : x \in S}
<1>1. f \in Surjection(S, image)
  BY DEF Surjection
<1>2. IsFiniteSet(image) /\ Cardinality(image) <= Cardinality(S)
  BY <1>1, FS_Surjection
<1>3. IsFiniteSet(T) /\ Cardinality(T) <= Cardinality(image)
  BY <1>2, FS_Subset
<1>. QED BY <1>2, <1>3, FS_CardinalityType

\* The hits accounted for are those that are ready, being filled or past the end.
LEMMA ReadyEntries ==
  ASSUME HitTypeOK, EntriesAccountedFor
  PROVE  /\ IsFiniteSet(ready) /\ Cardinality(ready) \in Nat
         /\ Cardinality(ready) + dropped >= count - Hits!Cardinality(Hits!InFlight)
         /\ Hits!Cardinality(Hits!InFlight) \in Nat
<1>. DEFINE fillers == {t \in GameThread : Filling(t)}
            missing == {i \in Entry \ ready : i < count}
            top == IF count < MaxHits THEN count - 1 ELSE MaxHits - 1
            f == [t \in fillers |-> handler[t].index]
<1>1. BufferTypeOK /\ MaxHits \in Nat \ {0}
  BY HitConstants DEF HitTypeOK
<1>2. IsFiniteSet(fillers) /\ IsFiniteSet(Dropping)
  BY HitConstants, FS_Subset DEF Dropping
<1>3. Hits!InFlight = fillers \cup Dropping /\ fillers \cap Dropping = {}
  <2>1. ASSUME NEW t \in GameThread
        PROVE  /\ handler[t] # Hits!Idle <=> Filling(t) \/ handler[t].step = "drop"
               /\ ~(Filling(t) /\ handler[t].step = "drop")
    <3>1. handler[t] \in HandlerState
      BY HandlerTypes
    <3>. QED BY <3>1, HandlerStates DEF Filling, Hits!Idle
  <2>. QED BY <2>1 DEF Hits!InFlight, Dropping
<1>4. Cardinality(Hits!InFlight) = Cardinality(fillers) + Cardinality(Dropping)
  <2>. HIDE DEF fillers
  <2>1. Cardinality(fillers \cup Dropping)
          = Cardinality(fillers) + Cardinality(Dropping) - Cardinality(fillers \cap Dropping)
    BY <1>2, FS_Union
  <2>2. /\ Cardinality(fillers \cap Dropping) = 0
        /\ Cardinality(fillers) \in Nat /\ Cardinality(Dropping) \in Nat
    BY <1>2, <1>3, FS_EmptySet, FS_CardinalityType
  <2>. QED BY <1>3, <2>1, <2>2
<1>5. missing \subseteq {f[t] : t \in fillers}
  BY DEF EntriesAccountedFor
<1>6. f \in [fillers -> {f[t] : t \in fillers}]
  OBVIOUS
<1>7. IsFiniteSet(missing) /\ Cardinality(missing) <= Cardinality(fillers) /\ Cardinality(missing) \in Nat
  <2>. HIDE DEF fillers, missing, f
  <2>. QED BY <1>2, <1>5, <1>6, ImageIsNoLarger
<1>8. IsFiniteSet(Entry) /\ IsFiniteSet(ready)
  <2>1. IsFiniteSet(Entry)
    BY <1>1, FS_Interval DEF Entry
  <2>2. ready \in SUBSET Entry
    BY <1>1 DEF BufferTypeOK
  <2>. QED BY <2>1, <2>2, FS_Subset
<1>9. ready \cup missing = 0..top /\ ready \cap missing = {}
  <2>1. count \in Nat /\ ready \subseteq Entry /\ \A i \in ready : i < count
    BY <1>1 DEF EntriesAccountedFor, BufferTypeOK
  <2>2. ready \cup missing = {i \in Entry : i < count}
    BY <2>1
  <2>3. {i \in Entry : i < count} = 0..top
    BY <1>1, <2>1 DEF Entry
  <2>. QED BY <2>2, <2>3
<1>10. Cardinality(0..top) = top + 1
  BY <1>1, FS_Interval DEF BufferTypeOK
<1>11. Cardinality(ready) + Cardinality(missing) = top + 1
  <2>. HIDE DEF missing, top
  <2>1. Cardinality(ready \cup missing)
          = Cardinality(ready) + Cardinality(missing) - Cardinality(ready \cap missing)
    BY <1>7, <1>8, FS_Union
  <2>2. Cardinality(ready \cap missing) = 0 /\ Cardinality(ready) \in Nat
    BY <1>8, <1>9, FS_EmptySet, FS_CardinalityType
  <2>3. Cardinality(ready \cup missing) = top + 1
    BY <1>9, <1>10
  <2>. QED BY <1>7, <2>1, <2>2, <2>3
<1>12. dropped + Cardinality(Dropping) = count - (top + 1)
  BY <1>1 DEF EntriesAccountedFor, Excess, BufferTypeOK
<1>13. /\ Cardinality(ready) \in Nat /\ Cardinality(fillers) \in Nat /\ Cardinality(Dropping) \in Nat
       /\ Hits!Cardinality(Hits!InFlight) = Cardinality(Hits!InFlight)
  BY <1>2, <1>8, FS_CardinalityType, SameOperators
<1>14. top \in Int /\ dropped \in Nat /\ count \in Nat
  BY <1>1 DEF BufferTypeOK
<1>. HIDE DEF fillers, missing, top, f
<1>. QED BY <1>4, <1>7, <1>8, <1>11, <1>12, <1>13, <1>14

LEMMA CollectKeepsHits ==
  ASSUME HitInv, NEW clear \in BOOLEAN, Hits!Collect(clear)
  PROVE  HitInv'
<1>1. /\ collect = Hits!Rest
      /\ collect' = [step |-> "copy", index |-> 0, upto |-> Hits!Upto, clear |-> clear]
      /\ snapshot' = [hits |-> {}, dropped |-> 0,
                      due |-> traps - cleared - Hits!Cardinality(Hits!InFlight)]
      /\ UNCHANGED <<traps, cleared, overtaken, count, dropped, hit, ready, handler>>
  BY DEF Hits!Collect, Hits!buffer
<1>2. HitTypeOK /\ BufferTypeOK /\ MaxHits \in Nat \ {0}
  BY HitConstants DEF HitInv, HitTypeOK
<1>3. ~Hits!Clearing /\ ~Hits!Clearing'
  BY <1>1 DEF Hits!Clearing, Hits!Rest
<1>4. Hits!Cardinality(Hits!InFlight) \in Nat
  <2>1. IsFiniteSet(Hits!InFlight)
    BY HitConstants, FS_Subset DEF Hits!InFlight
  <2>. QED BY <2>1, FS_CardinalityType, SameOperators
<1>5. HitTypeOK'
  <2>1. BufferTypeOK'
    BY <1>1, <1>2 DEF BufferTypeOK
  <2>2. Hits!Upto \in 0..MaxHits
    BY <1>2 DEF Hits!Upto, BufferTypeOK
  <2>3. CollectTypeOK'
    BY <1>1, <1>2, <1>4, <2>2, FS_EmptySet DEF CollectTypeOK, BufferTypeOK
  <2>. QED BY <1>1, <1>2, <2>1, <2>3 DEF HitTypeOK
<1>6. ASSUME ~overtaken PROVE EntriesAccountedFor' /\ CopiesWhole' /\ DueAreReached'
  <2>1. EntriesAccountedFor
    BY <1>3, <1>6 DEF HitInv
  <2>2. EntriesAccountedFor'
    BY <1>1, <2>1 DEF EntriesAccountedFor, Filling, Dropping, Excess
  <2>3. CopiesWhole'
    BY <1>1 DEF CopiesWhole
  <2>4. Cardinality(ready) + dropped >= snapshot'.due
    BY <1>1, <1>2, <2>1, ReadyEntries DEF EntriesAccountedFor
  <2>5. \A i \in ready : i < Hits!Upto /\ ~(i < 0)
    BY <1>2, <2>1 DEF EntriesAccountedFor, BufferTypeOK, Hits!Upto, Entry
  <2>6. ready \in SUBSET ready' /\ dropped' = dropped /\ collect'.upto = Hits!Upto /\ collect'.index = 0
    BY <1>1
  <2>7. DueAreReached'
    BY <2>4, <2>5, <2>6 DEF DueAreReached
  <2>. QED BY <2>2, <2>3, <2>7
<1>. QED BY <1>1, <1>3, <1>5, <1>6 DEF HitInv

\* Collect leaves the buffer and the handlers alone.
LEMMA CollectLeavesEntries ==
  ASSUME UNCHANGED <<traps, cleared, overtaken, count, dropped, hit, ready, handler>>
  PROVE  /\ EntriesAccountedFor => EntriesAccountedFor'
         /\ BufferTypeOK => BufferTypeOK'
BY DEF EntriesAccountedFor, BufferTypeOK, Filling, Dropping, Excess

LEMMA CopyRegistersKeepsHits == HitInv /\ Hits!CopyRegisters => HitInv'
<1>. SUFFICES ASSUME HitInv, Hits!CopyRegisters PROVE HitInv'
  OBVIOUS
<1>. DEFINE index == collect.index
            copied == <<index, hit[index].regs, 0>>
<1>1. /\ collect.step = "copy" /\ index < collect.upto
      /\ UNCHANGED <<traps, cleared, overtaken, count, dropped, hit, ready, handler>>
  BY DEF Hits!CopyRegisters, Hits!buffer
<1>2. HitTypeOK /\ BufferTypeOK /\ CollectTypeOK /\ MaxHits \in Nat \ {0} /\ index \in Nat
  BY HitConstants DEF HitInv, HitTypeOK, CollectTypeOK
<1>3. ~Hits!Clearing
  BY <1>1 DEF Hits!Clearing
<1>4. CASE index \in ready
  <2>1. /\ snapshot' = [snapshot EXCEPT !.hits = @ \cup {copied}]
        /\ collect' = [collect EXCEPT !.step = "stack"]
    BY <1>4 DEF Hits!CopyRegisters, Hits!Copies, Hits!None
  <2>2. /\ collect'.step = "stack" /\ collect'.index = index /\ collect'.upto = collect.upto
        /\ snapshot'.hits = snapshot.hits \cup {copied} /\ snapshot'.due = snapshot.due
    BY <1>2, <2>1 DEF CollectTypeOK
  <2>3. copied \in Entry \X Nat \X Nat
    BY <1>2, <1>4 DEF BufferTypeOK
  <2>4. CollectTypeOK'
    <3>1. IsFiniteSet(snapshot'.hits)
      <4>1. IsFiniteSet(snapshot.hits)
        BY <1>2 DEF CollectTypeOK
      <4>. HIDE DEF copied
      <4>2. IsFiniteSet(snapshot.hits \cup {copied})
        BY <4>1, FS_AddElement
      <4>. QED BY <2>2, <4>2
    <3>2. snapshot' \in [hits : SUBSET (Entry \X Nat \X Nat), dropped : Nat, due : Int]
      BY <1>2, <2>1, <2>3 DEF CollectTypeOK
    <3>. QED BY <1>2, <2>1, <3>1, <3>2 DEF CollectTypeOK
  <2>5. HitTypeOK'
    BY <1>1, <1>2, <2>4, CollectLeavesEntries DEF HitTypeOK
  <2>6. ASSUME ~overtaken PROVE EntriesAccountedFor' /\ CopiesWhole' /\ DueAreReached'
    <3>1. EntriesAccountedFor /\ CopiesWhole /\ DueAreReached
      BY <1>1, <1>3, <2>6 DEF HitInv
    <3>2. copied[1] = index /\ copied[2] = cleared + index + 1
      BY <1>4, <3>1 DEF EntriesAccountedFor
    <3>3. CopiesWhole'
      BY <1>1, <1>4, <2>2, <3>1, <3>2 DEF CopiesWhole
    <3>4. DueAreReached'
      BY <1>1, <2>2, <3>1 DEF DueAreReached
    <3>. QED BY <1>1, <3>1, <3>3, <3>4, CollectLeavesEntries
  <2>7. ~Hits!Clearing'
    BY <2>2 DEF Hits!Clearing
  <2>. QED BY <1>1, <2>5, <2>6, <2>7 DEF HitInv
<1>5. CASE index \notin ready
  <2>1. snapshot' = snapshot /\ collect' = [collect EXCEPT !.index = @ + 1]
    BY <1>5 DEF Hits!CopyRegisters, Hits!Copies
  <2>2. collect'.step = "copy" /\ collect'.index = index + 1 /\ collect'.upto = collect.upto
    BY <1>1, <1>2, <2>1 DEF CollectTypeOK
  <2>3. HitTypeOK'
    <3>1. CollectTypeOK'
      BY <1>1, <1>2, <2>1 DEF CollectTypeOK
    <3>. QED BY <1>1, <1>2, <3>1, CollectLeavesEntries DEF HitTypeOK
  <2>4. ASSUME ~overtaken PROVE EntriesAccountedFor' /\ CopiesWhole' /\ DueAreReached'
    <3>1. EntriesAccountedFor /\ CopiesWhole /\ DueAreReached
      BY <1>1, <1>3, <2>4 DEF HitInv
    <3>2. CopiesWhole'
      BY <1>1, <2>1, <2>2, <3>1 DEF CopiesWhole
    <3>3. PICK R \in SUBSET ready :
            /\ Cardinality(R) + dropped >= snapshot.due
            /\ \A i \in R : /\ i < collect.upto
                            /\ i < collect.index => \E h \in snapshot.hits : h[1] = i
      BY <3>1 DEF DueAreReached
    <3>4. \A i \in R : i < index + 1 => i < index
      BY <1>2, <1>5 DEF BufferTypeOK, Entry
    <3>5. DueAreReached'
      BY <1>1, <2>1, <2>2, <3>3, <3>4 DEF DueAreReached
    <3>. QED BY <1>1, <3>1, <3>2, <3>5, CollectLeavesEntries
  <2>5. ~Hits!Clearing'
    BY <2>2 DEF Hits!Clearing
  <2>. QED BY <1>1, <2>3, <2>4, <2>5 DEF HitInv
<1>. QED BY <1>4, <1>5

LEMMA CopyStackKeepsHits == HitInv /\ Hits!CopyStack => HitInv'
<1>. SUFFICES ASSUME HitInv, Hits!CopyStack PROVE HitInv'
  OBVIOUS
<1>. DEFINE index == collect.index
            g == [h \in snapshot.hits |->
                    IF h[1] = index THEN <<h[1], h[2], hit[h[1]].stack>> ELSE h]
            copied == {g[h] : h \in snapshot.hits}
<1>1. /\ collect.step = "stack"
      /\ snapshot' = [snapshot EXCEPT !.hits = copied]
      /\ collect' = [collect EXCEPT !.step = "copy", !.index = @ + 1]
      /\ UNCHANGED <<traps, cleared, overtaken, count, dropped, hit, ready, handler>>
  BY DEF Hits!CopyStack, Hits!buffer
<1>2. HitTypeOK /\ BufferTypeOK /\ CollectTypeOK /\ MaxHits \in Nat \ {0} /\ index \in Nat
  BY HitConstants DEF HitInv, HitTypeOK, CollectTypeOK
<1>3. /\ collect'.step = "copy" /\ collect'.index = index + 1 /\ collect'.upto = collect.upto
      /\ snapshot'.hits = copied /\ snapshot'.due = snapshot.due
  BY <1>1, <1>2 DEF CollectTypeOK
<1>4. \A h \in snapshot.hits : /\ h[1] \in Entry
                               /\ g[h] \in Entry \X Nat \X Nat
                               /\ g[h][1] = h[1] /\ g[h][2] = h[2]
                               /\ g[h][3] = IF h[1] = index THEN hit[h[1]].stack ELSE h[3]
  BY <1>2 DEF CollectTypeOK, BufferTypeOK
<1>5. IsFiniteSet(copied)
  <2>1. g \in [snapshot.hits -> {g[h] : h \in snapshot.hits}]
    OBVIOUS
  <2>2. copied \in SUBSET {g[h] : h \in snapshot.hits} /\ IsFiniteSet(snapshot.hits)
    BY <1>2 DEF CollectTypeOK
  <2>. HIDE DEF g, copied
  <2>. QED BY <2>1, <2>2, ImageIsNoLarger
<1>6. copied \in SUBSET (Entry \X Nat \X Nat)
  BY <1>4
<1>. HIDE DEF g
<1>7. HitTypeOK'
  <2>1. CollectTypeOK'
    <3>. HIDE DEF copied
    <3>1. collect' \in [step : {"idle", "copy", "stack", "clear", "clearDropped", "clearReady"},
                          index : Nat, upto : 0..MaxHits, clear : BOOLEAN]
      <4>1. collect' = [step |-> "copy", index |-> index + 1,
                        upto |-> collect.upto, clear |-> collect.clear]
        BY <1>1, <1>2 DEF CollectTypeOK
      <4>2. index + 1 \in Nat /\ collect.upto \in 0..MaxHits /\ collect.clear \in BOOLEAN
        BY <1>2 DEF CollectTypeOK
      <4>. HIDE DEF index
      <4>. QED BY <4>1, <4>2
    <3>2. snapshot' \in [hits : SUBSET (Entry \X Nat \X Nat), dropped : Nat, due : Int]
      BY <1>1, <1>2, <1>6 DEF CollectTypeOK
    <3>. QED BY <1>3, <1>5, <3>1, <3>2 DEF CollectTypeOK
  <2>. QED BY <1>1, <1>2, <2>1, CollectLeavesEntries DEF HitTypeOK
<1>8. ASSUME ~overtaken PROVE EntriesAccountedFor' /\ CopiesWhole' /\ DueAreReached'
  <2>1. EntriesAccountedFor /\ CopiesWhole /\ DueAreReached
    BY <1>1, <1>8 DEF HitInv, Hits!Clearing
  <2>2. index \in ready /\ hit[index].stack = cleared + index + 1
    BY <1>1, <2>1 DEF CopiesWhole, EntriesAccountedFor
  <2>3. \A h \in snapshot.hits : g[h][2] = cleared + g[h][1] + 1 /\ g[h][3] = g[h][2]
    BY <1>1, <1>4, <2>1, <2>2 DEF CopiesWhole
  <2>4. CopiesWhole'
    BY <1>1, <1>3, <2>3 DEF CopiesWhole
  <2>5. PICK R \in SUBSET ready :
          /\ Cardinality(R) + dropped >= snapshot.due
          /\ \A i \in R : /\ i < collect.upto
                          /\ i < collect.index => \E h \in snapshot.hits : h[1] = i
    BY <2>1 DEF DueAreReached
  <2>6. ASSUME NEW i \in R, i < index + 1 PROVE \E h \in copied : h[1] = i
    <3>1. i < index \/ i = index
      BY <1>2, <2>6 DEF BufferTypeOK, Entry
    <3>2. PICK h \in snapshot.hits : h[1] = i
      BY <1>1, <2>1, <2>5, <3>1 DEF CopiesWhole
    <3>. QED BY <1>4, <3>2
  <2>7. DueAreReached'
    BY <1>1, <1>3, <2>5, <2>6 DEF DueAreReached
  <2>. QED BY <1>1, <2>1, <2>4, <2>7, CollectLeavesEntries
<1>9. ~Hits!Clearing'
  BY <1>3 DEF Hits!Clearing
<1>. QED BY <1>1, <1>7, <1>8, <1>9 DEF HitInv

LEMMA CopiedKeepsHits == HitInv /\ Hits!Copied => HitInv'
<1>. SUFFICES ASSUME HitInv, Hits!Copied PROVE HitInv'
  OBVIOUS
<1>1. /\ collect.step = "copy"
      /\ snapshot' = [snapshot EXCEPT !.dropped = dropped]
      /\ collect' = IF collect.clear THEN [collect EXCEPT !.step = "clear"] ELSE Hits!Rest
      /\ UNCHANGED <<traps, cleared, overtaken, count, dropped, hit, ready, handler>>
  BY DEF Hits!Copied, Hits!buffer
<1>2. HitTypeOK /\ BufferTypeOK /\ CollectTypeOK /\ MaxHits \in Nat \ {0}
  BY HitConstants DEF HitInv, HitTypeOK
<1>3. collect'.step \in {"clear", "idle"}
  BY <1>1, <1>2 DEF CollectTypeOK, Hits!Rest
<1>4. HitTypeOK'
  <2>1. CollectTypeOK'
    BY <1>1, <1>2, <1>3 DEF CollectTypeOK, BufferTypeOK, Hits!Rest
  <2>. QED BY <1>1, <1>2, <2>1, CollectLeavesEntries DEF HitTypeOK
<1>5. ~overtaken => EntriesAccountedFor'
  BY <1>1, CollectLeavesEntries DEF HitInv, Hits!Clearing
<1>. QED BY <1>1, <1>3, <1>4, <1>5 DEF HitInv, Hits!Clearing

LEMMA ClearCountKeepsHits == HitInv /\ Hits!ClearCount => HitInv'
<1>. SUFFICES ASSUME HitInv, Hits!ClearCount PROVE HitInv'
  OBVIOUS
<1>1. /\ count' = 0 /\ cleared' = traps /\ traps' = traps
      /\ overtaken' = (Hits!InFlight # {})
      /\ collect' = [collect EXCEPT !.step = "clearDropped"]
      /\ UNCHANGED <<dropped, hit, ready, handler, snapshot>>
  BY DEF Hits!ClearCount
<1>2. HitTypeOK /\ BufferTypeOK /\ CollectTypeOK
  BY DEF HitInv, HitTypeOK
<1>3. collect'.step = "clearDropped"
  BY <1>1, <1>2 DEF CollectTypeOK
<1>4. HitTypeOK'
  <2>1. BufferTypeOK'
    BY <1>1, <1>2 DEF BufferTypeOK
  <2>2. CollectTypeOK'
    BY <1>1, <1>2 DEF CollectTypeOK
  <2>. QED BY <1>1, <1>2, <2>1, <2>2 DEF HitTypeOK
<1>5. ~overtaken' => ClearedInPeace'
  BY <1>1, <1>3 DEF ClearedInPeace, Hits!InFlight
<1>. QED BY <1>3, <1>4, <1>5 DEF HitInv, Hits!Clearing

LEMMA ClearDroppedKeepsHits == HitInv /\ Hits!ClearDropped => HitInv'
<1>. SUFFICES ASSUME HitInv, Hits!ClearDropped PROVE HitInv'
  OBVIOUS
<1>1. /\ collect.step = "clearDropped" /\ dropped' = 0
      /\ collect' = [collect EXCEPT !.step = "clearReady", !.index = 0]
      /\ UNCHANGED <<traps, cleared, overtaken, count, hit, ready, handler, snapshot>>
  BY DEF Hits!ClearDropped, Hits!ResetDropped
<1>2. HitTypeOK /\ BufferTypeOK /\ CollectTypeOK /\ MaxHits \in Nat \ {0}
  BY HitConstants DEF HitInv, HitTypeOK
<1>3. collect'.step = "clearReady" /\ collect'.index = 0
  BY <1>1, <1>2 DEF CollectTypeOK
<1>4. HitTypeOK'
  <2>1. BufferTypeOK'
    BY <1>1, <1>2 DEF BufferTypeOK
  <2>2. CollectTypeOK'
    <3>1. collect' = [step |-> "clearReady", index |-> 0,
                      upto |-> collect.upto, clear |-> collect.clear]
      BY <1>1, <1>2 DEF CollectTypeOK
    <3>2. collect.upto \in 0..MaxHits /\ collect.clear \in BOOLEAN /\ 0 \in Entry
      BY <1>2 DEF CollectTypeOK, Entry
    <3>3. collect' \in [step : {"idle", "copy", "stack", "clear", "clearDropped", "clearReady"},
                          index : Nat, upto : 0..MaxHits, clear : BOOLEAN]
      BY <3>1, <3>2
    <3>. QED BY <1>1, <1>2, <1>3, <3>2, <3>3 DEF CollectTypeOK
  <2>. QED BY <1>1, <1>2, <2>1, <2>2 DEF HitTypeOK
<1>5. ~overtaken => ClearedInPeace
  BY <1>1 DEF HitInv, Hits!Clearing
<1>6. \A i \in ready : i >= 0
  BY <1>2 DEF BufferTypeOK, Entry
<1>7. ~overtaken' => ClearedInPeace'
  BY <1>1, <1>3, <1>5, <1>6 DEF ClearedInPeace
<1>. QED BY <1>3, <1>4, <1>7 DEF HitInv, Hits!Clearing

LEMMA ClearReadyKeepsHits == HitInv /\ Hits!ClearReady => HitInv'
<1>. SUFFICES ASSUME HitInv, Hits!ClearReady PROVE HitInv'
  OBVIOUS
<1>. DEFINE index == collect.index
<1>1. /\ collect.step = "clearReady" /\ ready' = ready \ {index}
      /\ collect' = IF index = MaxHits - 1 THEN Hits!Rest ELSE [collect EXCEPT !.index = @ + 1]
      /\ UNCHANGED <<traps, cleared, overtaken, count, dropped, hit, handler, snapshot>>
  BY DEF Hits!ClearReady
<1>2. HitTypeOK /\ BufferTypeOK /\ CollectTypeOK /\ MaxHits \in Nat \ {0}
  BY HitConstants DEF HitInv, HitTypeOK
<1>3. index \in Entry
  BY <1>1, <1>2 DEF CollectTypeOK
<1>4. BufferTypeOK'
  BY <1>1, <1>2 DEF BufferTypeOK
<1>5. ~overtaken => ClearedInPeace
  BY <1>1 DEF HitInv, Hits!Clearing
<1>6. CASE index = MaxHits - 1
  <2>1. collect' = Hits!Rest /\ collect'.step = "idle"
    BY <1>1, <1>6 DEF Hits!Rest
  <2>2. CollectTypeOK'
    BY <1>1, <1>2, <2>1 DEF CollectTypeOK, Hits!Rest
  <2>3. HitTypeOK'
    BY <1>1, <1>2, <1>4, <2>2 DEF HitTypeOK
  <2>4. ASSUME ~overtaken PROVE EntriesAccountedFor'
    <3>1. /\ \A t \in GameThread : handler'[t] = Hits!Idle
          /\ count' = 0 /\ cleared' = traps' /\ dropped' = 0
      BY <1>1, <1>5, <2>4 DEF ClearedInPeace
    <3>2. ready' = {}
      BY <1>1, <1>2, <1>5, <1>6, <2>4 DEF ClearedInPeace, BufferTypeOK, Entry
    <3>3. Dropping' = {}
      BY <3>1 DEF Dropping, Hits!Idle
    <3>4. dropped' + Cardinality(Dropping') = Excess'
      BY <1>2, <3>1, <3>3, FS_EmptySet DEF Excess
    <3>. QED BY <1>1, <1>2, <3>1, <3>2, <3>4
             DEF EntriesAccountedFor, Filling, Hits!Idle, Entry, BufferTypeOK
  <2>. QED BY <1>1, <2>1, <2>3, <2>4 DEF HitInv, Hits!Clearing
<1>7. CASE index # MaxHits - 1
  <2>1. collect' = [collect EXCEPT !.index = @ + 1]
    BY <1>1, <1>7
  <2>2. collect'.step = "clearReady" /\ collect'.index = index + 1
    BY <1>1, <1>2, <2>1 DEF CollectTypeOK
  <2>3. CollectTypeOK'
    BY <1>1, <1>2, <1>3, <1>7, <2>1 DEF CollectTypeOK, Entry
  <2>4. HitTypeOK'
    BY <1>1, <1>2, <1>4, <2>3 DEF HitTypeOK
  <2>5. ASSUME ~overtaken PROVE ClearedInPeace'
    <3>1. \A i \in ready' : i >= index + 1
      BY <1>1, <1>2, <1>3, <1>5, <2>5 DEF ClearedInPeace, BufferTypeOK, Entry
    <3>. QED BY <1>1, <1>5, <2>2, <2>5, <3>1 DEF ClearedInPeace
  <2>. QED BY <1>1, <2>2, <2>4, <2>5 DEF HitInv, Hits!Clearing
<1>. QED BY <1>6, <1>7

LEMMA HitStep == HitInv /\ [Hits!Next]_(Hits!vars) => HitInv'
<1>1. ASSUME HitInv, Hits!Next PROVE HitInv'
  <2>1. CASE \E t \in GameThread : Hits!HandleException(t)
    BY <1>1, <2>1, ClaimKeepsHits, DropKeepsHits, FieldsKeepHits, PublishKeepsHits
       DEF Hits!HandleException
  <2>2. CASE Hits!WatchHits
    BY <1>1, <2>2, CollectKeepsHits, CopyRegistersKeepsHits, CopyStackKeepsHits, CopiedKeepsHits
       DEF Hits!WatchHits
  <2>3. CASE Hits!ClearHits
    BY <1>1, <2>3, ClearCountKeepsHits, ClearDroppedKeepsHits, ClearReadyKeepsHits
       DEF Hits!ClearHits
  <2>. QED BY <1>1, <2>1, <2>2, <2>3 DEF Hits!Next
<1>2. ASSUME HitInv, UNCHANGED Hits!vars PROVE HitInv'
  <2>1. UNCHANGED <<traps, cleared, overtaken, count, dropped, hit, ready, handler, collect, snapshot>>
    BY <1>2 DEF Hits!vars, Hits!buffer
  <2>2. HitTypeOK'
    BY <1>2, <2>1 DEF HitInv, HitTypeOK, BufferTypeOK, CollectTypeOK
  <2>. QED BY <1>2, <2>1, <2>2, CollectLeavesEntries
           DEF HitInv, ClearedInPeace, CopiesWhole, DueAreReached, Hits!Clearing
<1>. QED BY <1>1, <1>2

\* For any number of threads and entries, the hit buffer accounts for every trap
\* (HandleException, Collect, ClearHits).
LEMMA HitInvariant == HostSpec => [](which = "hits" => HitInv)
<1>1. HostInit => (which = "hits" => HitInv)
  BY InitOf, HitInit
<1>2. (which = "hits" => HitInv) /\ [HostNext]_hostVars => (which = "hits" => HitInv)'
  BY StepOf, HitStep
<1>. QED BY <1>1, <1>2, PTL DEF HostSpec, hostVars

\* A call copies whole records only, since a clearing that overtook no thread
\* (Collect, HandleException).
THEOREM HitsAreOfOneTrap == HostSpec => []UndisturbedHitsAreWhole
<1>1. ASSUME HitInv PROVE Hits!UndisturbedHitsAreWhole
  <2>. SUFFICES ASSUME collect.step = "copy", ~overtaken, NEW h \in snapshot.hits
                PROVE  h[2] = h[3] /\ h[2] # 0
    BY DEF Hits!UndisturbedHitsAreWhole, Hits!None
  <2>1. CopiesWhole
    BY <1>1 DEF HitInv
  <2>2. h[1] \in Nat /\ cleared \in Nat
    BY <1>1, HitConstants DEF HitInv, HitTypeOK, CollectTypeOK, BufferTypeOK, Entry
  <2>. QED BY <2>1, <2>2 DEF CopiesWhole
<1>2. (which = "hits" => HitInv) => UndisturbedHitsAreWhole
  BY <1>1 DEF UndisturbedHitsAreWhole
<1>. QED BY <1>2, HitInvariant, PTL

\* A call leaves out no trap that was over when it began, and what is stored and
\* what is dropped are together all traps (HandleException, Collect).
THEOREM NoTrapIsMissed == HostSpec => []NothingMissed
<1>1. ASSUME HitInv PROVE Hits!NothingMissed
  <2>. SUFFICES ASSUME collect.step = "copy", collect.index = collect.upto, ~overtaken
                PROVE  Hits!Cardinality(snapshot.hits) + dropped >= snapshot.due
    BY DEF Hits!NothingMissed
  <2>1. HitTypeOK /\ BufferTypeOK /\ CollectTypeOK
    BY <1>1 DEF HitInv, HitTypeOK
  <2>2. PICK R \in SUBSET ready :
          /\ Cardinality(R) + dropped >= snapshot.due
          /\ \A i \in R : /\ i < collect.upto
                          /\ i < collect.index => \E h \in snapshot.hits : h[1] = i
    BY <1>1 DEF HitInv, DueAreReached
  <2>. DEFINE f == [h \in snapshot.hits |-> h[1]]
  <2>3. R \in SUBSET {f[h] : h \in snapshot.hits} /\ f \in [snapshot.hits -> {f[h] : h \in snapshot.hits}]
    BY <2>2
  <2>4. IsFiniteSet(snapshot.hits)
    BY <2>1 DEF CollectTypeOK
  <2>5. /\ Cardinality(R) <= Cardinality(snapshot.hits)
        /\ Cardinality(R) \in Nat /\ Cardinality(snapshot.hits) \in Nat
    <3>. HIDE DEF f
    <3>. QED BY <2>3, <2>4, ImageIsNoLarger
  <2>6. dropped \in Nat /\ snapshot.due \in Int
    BY <2>1 DEF BufferTypeOK, CollectTypeOK
  <2>7. Hits!Cardinality(snapshot.hits) = Cardinality(snapshot.hits)
    BY SameOperators
  <2>. QED BY <2>2, <2>5, <2>6, <2>7
<1>2. ASSUME HitInv PROVE Hits!EveryTrapIsCounted
  <2>. SUFFICES ASSUME Hits!InFlight = {}, ~Hits!Clearing, ~overtaken
                PROVE  LET n == Hits!Cardinality(ready)
                       IN  /\ dropped + n = traps - cleared
                           /\ {hit[i].regs : i \in ready} = (cleared + 1)..(cleared + n)
    BY DEF Hits!EveryTrapIsCounted
  <2>. DEFINE n == Cardinality(ready)
              m == IF count < MaxHits THEN count ELSE MaxHits
  <2>1. HitTypeOK /\ BufferTypeOK /\ EntriesAccountedFor /\ MaxHits \in Nat \ {0}
    BY <1>2, HitConstants DEF HitInv, HitTypeOK
  <2>2. \A t \in GameThread : handler[t] = Hits!Idle
    BY DEF Hits!InFlight
  <2>3. Dropping = {} /\ \A t \in GameThread : ~Filling(t)
    BY <2>2 DEF Dropping, Filling, Hits!Idle
  <2>4. ready = 0..(m - 1)
    <3>1. \A i \in Entry : i \in ready <=> i < count
      BY <2>1, <2>3 DEF EntriesAccountedFor
    <3>2. {i \in Entry : i < count} = 0..(m - 1)
      BY <2>1 DEF BufferTypeOK, Entry
    <3>3. ready = {i \in Entry : i < count}
      BY <2>1, <3>1 DEF BufferTypeOK
    <3>. QED BY <3>2, <3>3
  <2>5. n = m
    BY <2>1, <2>4, FS_Interval DEF BufferTypeOK
  <2>6. dropped = Excess
    BY <2>1, <2>3, FS_EmptySet DEF EntriesAccountedFor, BufferTypeOK
  <2>7. dropped + m = traps - cleared
    BY <2>1, <2>6 DEF EntriesAccountedFor, Excess, BufferTypeOK
  <2>8. \A i \in ready : hit[i].regs = cleared + i + 1
    BY <2>1 DEF EntriesAccountedFor
  <2>9. {hit[i].regs : i \in ready} = (cleared + 1)..(cleared + m)
    <3>1. ASSUME NEW k \in (cleared + 1)..(cleared + m) PROVE \E i \in ready : hit[i].regs = k
      <4>1. k - cleared - 1 \in ready
        BY <2>1, <2>4 DEF BufferTypeOK
      <4>2. cleared + (k - cleared - 1) + 1 = k
        BY <2>1 DEF BufferTypeOK
      <4>. QED BY <2>8, <4>1, <4>2
    <3>2. ASSUME NEW i \in ready PROVE hit[i].regs \in (cleared + 1)..(cleared + m)
      BY <2>1, <2>4, <2>8 DEF BufferTypeOK
    <3>. QED BY <3>1, <3>2
  <2>10. Hits!Cardinality(ready) = m
    BY <2>5, SameOperators
  <2>. QED BY <2>7, <2>9, <2>10
<1>3. (which = "hits" => HitInv) => NothingMissed
  BY <1>1, <1>2 DEF NothingMissed
<1>. QED BY <1>3, HitInvariant, PTL
=============================================================================
