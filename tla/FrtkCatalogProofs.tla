-------------------------- MODULE FrtkCatalogProofs --------------------------
(***************************************************************************)
(* For every set of tables, relationships, profiles and addresses: the     *)
(* catalog's type, its closure under the relationships, and what its       *)
(* handles and typed writes may reach.                                     *)
(***************************************************************************)
EXTENDS FrtkCatalog, TLAPS

\* What a quarantine leaves was installed, is not quarantined, and is closed
\* under the relationships: the meaning of Revalidate's closure loop.
LEMMA SurvivorsLemma ==
  ASSUME NEW bad
  PROVE  /\ Survivors(bad) \subseteq Installed \ bad
         /\ \A t \in Survivors(bad) : Links[t] \subseteq Survivors(bad)
  BY DEF Survivors

\* The ways a step may treat the installed tables.
Kept == UNCHANGED <<generation, entries>>
Shrunk ==
  /\ AdvanceGeneration
  /\ entries' \in [Installed' -> Location]
  /\ Installed' \subseteq Installed
  /\ \A t \in Installed' : entries'[t] = entries[t] /\ Links[t] \subseteq Installed'
Replaced ==
  /\ AdvanceGeneration
  /\ entries' = found
  /\ DOMAIN found = profile
  /\ UNCHANGED profile
  /\ gameReady'

\* Losing every table is a way to shrink.
LEMMA EmptiedLemma ==
  ASSUME AdvanceGeneration, entries' = Empty
  PROVE  Shrunk /\ Installed' = {}
  BY DEF Shrunk, Installed, Empty

\* Revalidate either refuses an empty catalog or leaves a closed part of it.
LEMMA InvalidatedLemma ==
  ASSUME NEW flaky, TypeOK, Invalidated(flaky)
  PROVE  (Kept \/ Shrunk) /\ UNCHANGED gameReady
  <1>1. CASE Installed = {}
    BY <1>1 DEF Invalidated, Kept
  <1>2. CASE Installed # {}
    <2> DEFINE kept == Survivors(Moved \cup flaky)
    <2>1. Quarantine(Moved \cup flaky)
      BY <1>2 DEF Invalidated
    <2>2. kept \subseteq Installed /\ \A t \in kept : Links[t] \subseteq kept
      BY SurvivorsLemma
    <2>3. entries' = [t \in kept |-> entries[t]] /\ AdvanceGeneration /\ UNCHANGED gameReady
      BY <2>1 DEF Quarantine
    <2> QED
      BY <2>2, <2>3 DEF Shrunk, TypeOK, Installed
  <1> QED
    BY <1>1, <1>2

\* Every step keeps the tables, shrinks the catalog, or replaces all of it.
LEMMA StepLemma ==
  ASSUME TypeOK, [Next]_vars
  PROVE  \/ Kept
         \/ Shrunk /\ (UNCHANGED gameReady \/ Installed' = {})
         \/ Replaced
  <1>1. CASE LoadFrtkProfile
    BY <1>1, EmptiedLemma DEF LoadFrtkProfile, Invalidate
  <1>2. CASE InvalidateFrtkCatalog
    BY <1>2, EmptiedLemma DEF InvalidateFrtkCatalog, Invalidate
  <1>3. ASSUME NEW ready \in BOOLEAN, AdvanceLifecycle(ready)
        PROVE  Kept \/ (Shrunk /\ Installed' = {})
    BY <1>3, EmptiedLemma DEF AdvanceLifecycle, Invalidate, Kept
  <1>4. ASSUME NEW h \in Handle, ReadRecords(h)
        PROVE  (Kept \/ Shrunk) /\ UNCHANGED gameReady
    BY <1>4, InvalidatedLemma DEF ReadRecords
  <1>5. ASSUME NEW h \in Handle, Plan(h)
        PROVE  (Kept \/ Shrunk) /\ UNCHANGED gameReady
    <2>1. CASE UNCHANGED <<generation, gameReady, entries>>
      BY <2>1 DEF Kept
    <2>2. CASE \E flaky \in SUBSET Installed : Invalidated(flaky)
      BY <2>2, InvalidatedLemma
    <2> QED
      BY <1>5, <2>1, <2>2 DEF Plan, PlanFieldWrites, catalogVars
  <1>6. CASE DiscoverEnd
    <2>1. CASE Complete /\ Install(found)
      BY <1>6, <2>1 DEF DiscoverEnd, Complete, Install, Replaced
    <2>2. CASE Install(Empty)
      BY <2>2, EmptiedLemma DEF Install
    <2> QED
      BY <1>6, <2>1, <2>2 DEF DiscoverEnd
  <1>7. CASE \/ DiscoverBegin \/ Finalize \/ TransactReturns \/ GameMoves \/ UNCHANGED vars
             \/ \E t \in Table : Locate(t) \/ Compare(t)
             \/ \E p \in plans : Write(p)
             \/ \E gen \in 0..MaxGeneration, tables \in (SUBSET Table) \ {{}} :
                  TransactBegin(gen, tables)
    BY <1>7 DEF DiscoverBegin, Finalize, Compare, Write, TransactReturns, GameMoves, Locate,
                TransactBegin, Kept, vars, catalogVars
  <1> QED
    BY <1>1, <1>2, <1>3, <1>4, <1>5, <1>6, <1>7 DEF Next

-----------------------------------------------------------------------------
(* The type invariant.                                                     *)

LEMMA InitTypeOK == Init => TypeOK
  BY CatalogAssumption DEF Init, TypeOK, Installed, Empty, Guards

\* The catalog's half of TypeOK.
CatalogTypeOK ==
  /\ generation \in 0..MaxGeneration
  /\ entries \in [Installed -> Location]
  /\ Installed \subseteq profile

LEMMA CatalogTypeStep ==
  ASSUME TypeOK, [Next]_vars, Kept \/ Shrunk, UNCHANGED profile \/ Installed' = {}
  PROVE  CatalogTypeOK'
  BY CatalogAssumption DEF TypeOK, CatalogTypeOK, Kept, Shrunk, AdvanceGeneration, Installed

\* TypeOK is inductive: one step per action.
LEMMA StepTypeOK ==
  ASSUME TypeOK, [Next]_vars
  PROVE  TypeOK'
  <1> USE CatalogAssumption
  <1>1. CASE LoadFrtkProfile
    <2>1. Shrunk /\ Installed' = {}
      BY <1>1, EmptiedLemma DEF LoadFrtkProfile, Invalidate
    <2>2. CatalogTypeOK'
      BY <2>1, CatalogTypeStep
    <2> QED
      BY <1>1, <2>2 DEF LoadFrtkProfile, Command, lockVars, TypeOK, CatalogTypeOK, Empty, Guards
  <1>2. CASE InvalidateFrtkCatalog
    <2>1. Shrunk /\ Installed' = {}
      BY <1>2, EmptiedLemma DEF InvalidateFrtkCatalog, Invalidate
    <2>2. CatalogTypeOK'
      BY <2>1, CatalogTypeStep
    <2> QED
      BY <1>2, <2>2 DEF InvalidateFrtkCatalog, Command, lockVars, TypeOK, CatalogTypeOK, Guards
  <1>3. ASSUME NEW ready \in BOOLEAN, AdvanceLifecycle(ready)
        PROVE  TypeOK'
    <2>1. Kept \/ Shrunk
      BY <1>3, EmptiedLemma DEF AdvanceLifecycle, Invalidate, Kept
    <2>2. CatalogTypeOK'
      BY <1>3, <2>1, CatalogTypeStep DEF AdvanceLifecycle
    <2> QED
      BY <1>3, <2>2 DEF AdvanceLifecycle, Command, lockVars, TypeOK, CatalogTypeOK, Guards
  <1>4. ASSUME NEW h \in Handle, ReadRecords(h)
        PROVE  TypeOK'
    <2>1. (Kept \/ Shrunk) /\ UNCHANGED gameReady
      BY <1>4, InvalidatedLemma DEF ReadRecords
    <2>2. CatalogTypeOK'
      BY <1>4, <2>1, CatalogTypeStep DEF ReadRecords
    <2> QED
      BY <1>4, <2>1, <2>2 DEF ReadRecords, Command, lockVars, TypeOK, CatalogTypeOK, Guards
  <1>5. ASSUME NEW h \in Handle, Plan(h)
        PROVE  TypeOK'
    <2>1. CASE TransactEnd /\ (UNCHANGED <<generation, gameReady, entries>>
                               \/ \E flaky \in SUBSET Installed : Invalidated(flaky))
      <3>1. (Kept \/ Shrunk) /\ UNCHANGED gameReady
        BY <2>1, InvalidatedLemma DEF Kept
      <3>2. CatalogTypeOK'
        BY <2>1, <3>1, CatalogTypeStep DEF TransactEnd
      <3> QED
        BY <1>5, <2>1, <3>1, <3>2 DEF Plan, TransactEnd, TypeOK, CatalogTypeOK, Guards
    <2>2. CASE /\ h.table \in Installed
               /\ plans' = plans \cup {[table |-> h.table, at |-> entries[h.table],
                                        gen |-> generation, guarded |-> Installed]}
               /\ todo' = todo \ {h}
               /\ UNCHANGED <<catalogVars, place, holder, found, toCompare>>
      BY <1>5, <2>2 DEF Plan, TypeOK, EvidenceIsActive, Installed, catalogVars
    <2> QED
      BY <1>5, <2>1, <2>2 DEF Plan, PlanFieldWrites
  <1>6. CASE DiscoverBegin
    BY <1>6 DEF DiscoverBegin, TypeOK, catalogVars, Installed, EvidenceIsActive, Empty, Guards
  <1>7. ASSUME NEW t \in Table, Locate(t)
        PROVE  TypeOK'
    <2>1. DOMAIN found' \subseteq profile' /\ found' \in [DOMAIN found' -> Location]
      BY <1>7 DEF Locate, TypeOK, catalogVars
    <2> QED
      BY <1>7, <2>1 DEF Locate, TypeOK, catalogVars, Installed, EvidenceIsActive, Guards
  <1>8. CASE DiscoverEnd
    <2>1. CASE Complete /\ Install(found)
      BY <1>8, <2>1 DEF DiscoverEnd, Complete, Install, AdvanceGeneration, TypeOK, Installed, Empty, Guards
    <2>2. CASE Install(Empty)
      <3>1. Shrunk /\ Installed' = {}
        BY <2>2, EmptiedLemma DEF Install
      <3>2. CatalogTypeOK'
        BY <3>1, CatalogTypeStep
      <3> QED
        BY <1>8, <2>2, <3>2 DEF DiscoverEnd, Install, TypeOK, CatalogTypeOK, Empty, Guards
    <2> QED
      BY <1>8, <2>1, <2>2 DEF DiscoverEnd
  <1>9. ASSUME NEW gen \in 0..MaxGeneration, NEW tables \in (SUBSET Table) \ {{}},
               TransactBegin(gen, tables)
        PROVE  TypeOK'
    BY <1>9 DEF TransactBegin, CurrentHandle, Handle, TypeOK, catalogVars, Installed, EvidenceIsActive, Guards
  <1>10. CASE Finalize \/ TransactReturns \/ (\E t \in Table : Compare(t)) \/ (\E p \in plans : Write(p))
    <2>1. /\ UNCHANGED <<generation, gameReady, entries, profile, place, found>>
          /\ holder \in {"transact", "run"}
      BY <1>10 DEF Finalize, TransactReturns, Compare, Write, TransactEnd, catalogVars, lockVars
    <2>2. CASE TransactEnd
      BY <2>1, <2>2 DEF TransactEnd, TypeOK, Installed, Guards, EvidenceIsActive
    <2>3. CASE ~TransactEnd
      <3>1. /\ holder' = "run" /\ UNCHANGED <<todo, plans>>
            /\ toCompare' = Guards \/ toCompare' \subseteq toCompare
            /\ holder \in {"transact", "run"}
        BY <1>10, <2>3 DEF Finalize, TransactReturns, Compare, Write, lockVars
      <3>. QED
        BY <2>1, <3>1 DEF TypeOK, Installed, Guards, EvidenceIsActive
    <2>. QED
      BY <2>2, <2>3
  <1>11. CASE GameMoves
    BY <1>11 DEF GameMoves, catalogVars, lockVars, TypeOK, Installed, EvidenceIsActive, Guards
  <1>12. CASE UNCHANGED vars
    BY <1>12 DEF vars, catalogVars, lockVars, TypeOK, Installed, EvidenceIsActive, Guards
  <1> QED
    BY <1>1, <1>2, <1>3, <1>4, <1>5, <1>6, <1>7, <1>8, <1>9, <1>10, <1>11, <1>12 DEF Next

\* The catalog has the shape TypeOK gives it, for every set of tables.
THEOREM TypeCorrect == Spec => []TypeOK
  BY InitTypeOK, StepTypeOK, PTL DEF Spec

-----------------------------------------------------------------------------
(* Safety.                                                                 *)

\* Whatever a quarantine removes, the references of what remains stay inside.
THEOREM CatalogIsClosed == Spec => []ClosedUnderLinks
  <1>1. Init => ClosedUnderLinks
    BY DEF Init, ClosedUnderLinks, Installed, Empty
  <1>2. TypeOK /\ ClosedUnderLinks /\ [Next]_vars => ClosedUnderLinks'
    <2> SUFFICES ASSUME TypeOK, ClosedUnderLinks, [Next]_vars
                 PROVE  ClosedUnderLinks'
      OBVIOUS
    <2>1. CASE Kept
      BY <2>1 DEF Kept, ClosedUnderLinks, Installed
    <2>2. CASE Shrunk
      BY <2>2 DEF Shrunk, ClosedUnderLinks
    <2>3. CASE Replaced
      BY <2>3, CatalogAssumption DEF Replaced, ClosedUnderLinks, Installed, TypeOK
    <2> QED
      BY <2>1, <2>2, <2>3, StepLemma
  <1> QED
    BY <1>1, <1>2, TypeCorrect, PTL DEF Spec

\* Nothing is installed while the game is not ready.
THEOREM NotReadyIsEmpty == Spec => []NotReadyMeansEmpty
  <1>1. Init => NotReadyMeansEmpty
    BY DEF Init, NotReadyMeansEmpty
  <1>2. TypeOK /\ NotReadyMeansEmpty /\ [Next]_vars => NotReadyMeansEmpty'
    <2> SUFFICES ASSUME TypeOK, NotReadyMeansEmpty, [Next]_vars, ~gameReady'
                 PROVE  Installed' = {}
      BY DEF NotReadyMeansEmpty
    <2>1. CASE UNCHANGED gameReady
      BY <2>1, StepLemma DEF NotReadyMeansEmpty, Kept, Shrunk, Replaced, Installed
    <2>2. CASE ~UNCHANGED gameReady
      <3>1. PICK ready \in BOOLEAN : AdvanceLifecycle(ready)
        BY <2>2, InvalidatedLemma
        DEF Next, LoadFrtkProfile, InvalidateFrtkCatalog, ReadRecords, Plan, PlanFieldWrites,
            DiscoverBegin, Locate, DiscoverEnd, Install, TransactBegin, Finalize, Compare,
            Write, TransactReturns, GameMoves, vars, catalogVars
      <3> QED
        BY <2>2, <3>1, EmptiedLemma DEF AdvanceLifecycle, Invalidate, TypeOK
    <2> QED
      BY <2>1, <2>2
  <1> QED
    BY <1>1, <1>2, TypeCorrect, PTL DEF Spec

\* A handle never changes the address it reaches and never comes back to life.
THEOREM HandlesAreStable == Spec => HandlesNeverRetarget
  <1> DEFINE Stable(h) == Resolves(h)' =>
               \/ h.gen > generation
               \/ Resolves(h) /\ entries'[h.table] = entries[h.table]
  <1>1. ASSUME TypeOK, [Next]_vars, NEW h \in Handle
        PROVE  Stable(h)
    BY <1>1, StepLemma
    DEF Kept, Shrunk, Replaced, AdvanceGeneration, Resolves, Installed, TypeOK, Handle
  <1>2. TypeOK /\ [Next]_vars =>
          [\A h \in Handle : Stable(h)]_vars
    BY <1>1
  <1> QED
    BY <1>2, TypeCorrect, PTL DEF Spec, HandlesNeverRetarget

\* The catalog grows only by installing a whole profile.
THEOREM GrowthIsWhole == Spec => GrowsByWholeProfiles
  <1>1. TypeOK /\ [Next]_vars => [Installed' \subseteq Installed \/ Installed' = profile]_vars
    BY StepLemma DEF Kept, Shrunk, Replaced, Installed
  <1> QED
    BY <1>1, TypeCorrect, PTL DEF Spec, GrowsByWholeProfiles

\* While a request runs, the tables compared are in place or moved afterwards, and
\* the guards are all the tables of the catalog.
ComparedInv ==
  holder = "run" => \A t \in Guards \ toCompare : t \in Installed /\ (InPlace(t) \/ t \in strayed)

LEMMA ComparedStep ==
  ASSUME TypeOK, ComparedInv, [Next]_vars
  PROVE  ComparedInv'
  <1>. SUFFICES ASSUME holder' = "run"
                PROVE  \A t \in Guards' \ toCompare' :
                         t \in Installed' /\ (InPlace(t)' \/ t \in strayed')
    BY DEF ComparedInv
  <1>1. CASE Finalize
    BY <1>1 DEF Finalize, TransactEnd, Guards
  <1>2. ASSUME NEW u \in Table, Compare(u)
        PROVE  \A t \in Guards' \ toCompare' : t \in Installed' /\ (InPlace(t)' \/ t \in strayed')
    <2>1. /\ holder = "run" /\ u \in toCompare /\ InPlace(u) /\ toCompare' = toCompare \ {u}
          /\ UNCHANGED <<place, entries, plans, strayed>>
      BY <1>2 DEF Compare, TransactEnd, writeVars
    <2>2. u \in Installed
      BY <2>1 DEF TypeOK, Guards, EvidenceIsActive
    <2>. QED
      BY <2>1, <2>2 DEF ComparedInv, Guards, InPlace, Installed
  <1>3. ASSUME NEW p \in plans, Write(p)
        PROVE  \A t \in Guards' \ toCompare' : t \in Installed' /\ (InPlace(t)' \/ t \in strayed')
    <2>1. holder = "run" /\ UNCHANGED <<place, entries, plans, toCompare, strayed>>
      BY <1>3 DEF Write, catalogVars, lockVars
    <2>. QED
      BY <2>1 DEF ComparedInv, Guards, InPlace, Installed
  <1>4. CASE GameMoves
    <2>1. PICK u \in Table : \E l \in (Location \cup {Nowhere}) \ {place[u]} :
             /\ place' = [place EXCEPT ![u] = l]
             /\ strayed' = IF Compared(u) THEN strayed \cup {u} ELSE strayed
      BY <1>4 DEF GameMoves
    <2>2. holder = "run" /\ UNCHANGED <<entries, plans, toCompare>>
      BY <1>4 DEF GameMoves, catalogVars, lockVars
    <2>3. \A t \in Table : t # u => place'[t] = place[t]
      BY <2>1 DEF TypeOK
    <2>4. Installed \subseteq Table
      BY CatalogAssumption DEF TypeOK
    <2>. QED
      BY <2>1, <2>2, <2>3, <2>4 DEF ComparedInv, Compared, Guards, InPlace, Installed
  <1>5. CASE UNCHANGED vars
    BY <1>5 DEF vars, catalogVars, lockVars, writeVars, ComparedInv, Guards, InPlace, Installed
  <1>6. CASE Next /\ ~(Finalize \/ GameMoves \/ (\E t \in Table : Compare(t)) \/ (\E p \in plans : Write(p)))
    BY <1>6 DEF Next, Command, lockVars, LoadFrtkProfile, InvalidateFrtkCatalog, AdvanceLifecycle,
                ReadRecords, Plan, PlanFieldWrites, DiscoverBegin, Locate, DiscoverEnd, TransactBegin,
                TransactEnd, TransactReturns
  <1>. QED
    BY <1>1, <1>2, <1>3, <1>4, <1>5, <1>6

\* For every set of tables and profiles and wherever the game moves them: a typed
\* write reaches a table in its place, or one the game moved after its evidence had
\* been compared; and so for every other table of the catalog
\* (FinalizeFieldTransaction, RunTransaction).
THEOREM TypedWritesLandInPlace == Spec => WritesLandInPlace
  <1> DEFINE InPlaceStep ==
        landed' # landed /\ landed' # {} =>
          /\ \A w \in landed' \ landed : place[w[1]] = w[2] \/ w[1] \in strayed
          /\ \A t \in Installed : InPlace(t) \/ t \in strayed
  <1>1. ASSUME TypeOK, ComparedInv, NEW p \in plans, Write(p)
        PROVE  InPlaceStep
    <2>1. holder = "run" /\ toCompare = {} /\ landed' = landed \cup {<<p.table, p.at>>}
      BY <1>1 DEF Write
    <2>2. p.guarded = Installed /\ p.table \in Installed /\ p.at = entries[p.table]
      BY <1>1 DEF TypeOK, EvidenceIsActive
    <2>3. \A t \in Installed : InPlace(t) \/ t \in strayed
      BY <1>1, <2>1, <2>2 DEF ComparedInv, Guards
    <2> QED
      BY <2>1, <2>2, <2>3 DEF InPlace
  <1>2. ASSUME Next, landed' # landed, landed' # {}
        PROVE  \E p \in plans : Write(p)
    BY <1>2 DEF Next, Command, writeVars, LoadFrtkProfile, InvalidateFrtkCatalog, AdvanceLifecycle,
       ReadRecords, Plan, PlanFieldWrites, DiscoverBegin, Locate, DiscoverEnd, TransactBegin,
       TransactEnd, TransactReturns, Finalize, Compare, GameMoves
  <1>3. TypeOK /\ ComparedInv /\ [Next]_vars => [InPlaceStep]_vars
    BY <1>1, <1>2 DEF vars
  <1>4. Init => ComparedInv
    BY DEF Init, ComparedInv
  <1> QED
    BY <1>3, <1>4, ComparedStep, TypeCorrect, PTL DEF Spec, WritesLandInPlace
=============================================================================
