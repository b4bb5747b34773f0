---------------------------- MODULE CommandsProofs ----------------------------
(***************************************************************************)
(* For any number of commands and calls, any tables and any behaviour of   *)
(* the game and of the mod manager: what clients set in motion ends as     *)
(* they are told.                                                          *)
(***************************************************************************)
EXTENDS Commands, SequenceTheorems, FiniteSetTheorems, TLAPS

-----------------------------------------------------------------------------
(* The installer: whatever fails and wherever the process ends, no command  *)
(* takes the last copy of MMC's proxy from a location.  The reason is the   *)
(* order of the steps: a step that replaces a file, and the report of it,   *)
(* are reached only behind the steps that make or check both backups, and   *)
(* the one step that writes a backup is taken only where there was none.    *)

File == {"mmc", "proxy", "unknown", "none"}

\* The steps taken only once both backups are known to be MMC's.
Touching ==
  {"putProxy", "put", "verifyProxy", "verify", "rollBack", "checkRollback",
   "putBack", "verifyBack", "report"}

\* The steps that read or write a proxy or a backup.
Located == {"backUp", "verifyBackup", "putProxy", "rollBack", "checkRollback", "putBack"}
Unlocated == {"recognize", "put", "verifyProxy", "verify", "verifyBack", "report"}
Target == Location \cup Artifact \cup {"both", "installed", "rolledBack", "restored"}
Later == [op : Located, at : Location] \cup [op : Unlocated, at : Target]
StepRecord == Later \cup [op : {"copyBackup"}, at : Location]

\* The steps that stop the command unless the location's backup is MMC's.
Checks(l) == {Step("backUp", l), Step("verifyBackup", l)}

\* The backup of l is MMC's when step n of s is reached.
Protected(s, b, n, l) == b[l] = "mmc" \/ \E m \in 1..(n - 1) : s[m] \in Checks(l)

\* The rest s of a command can do no harm to the backups b.
Safe(s, b) ==
  /\ s \in Seq(StepRecord)
  /\ \A n \in 1..Len(s) :
       /\ s[n].op = "copyBackup" => n = 1 /\ b[s[n].at] = "none"
       /\ s[n].op \in Touching => \A l \in Location : Protected(s, b, n, l)

TypeOK ==
  /\ active \in [Location -> File] /\ backup \in [Location -> File]
  /\ installed \in [Artifact -> {"new", "damaged", "old"}] /\ updates \in Nat

InstallInvariant == TypeOK /\ Safe(steps, backup)

-----------------------------------------------------------------------------
\* None of the later steps makes a backup.
LEMMA LaterLemma == \A s \in Later : s.op # "copyBackup"
  BY DEF Later, Located, Unlocated

\* What follows steps that check both backups, or both being MMC's already, is
\* safe when it makes no backup.
LEMMA ConcatLemma ==
  ASSUME NEW b, NEW s, NEW t \in Seq(Later), Safe(s, b),
         \A l \in Location : b[l] = "mmc" \/ \E m \in 1..Len(s) : s[m] \in Checks(l)
  PROVE  Safe(s \o t, b)
  <1> DEFINE u == s \o t
  <1>1. /\ s \in Seq(StepRecord) /\ t \in Seq(StepRecord) /\ u \in Seq(StepRecord)
        /\ Len(s) \in Nat /\ Len(t) \in Nat /\ Len(u) = Len(s) + Len(t)
        /\ \A n \in 1..Len(u) : u[n] = IF n <= Len(s) THEN s[n] ELSE t[n - Len(s)]
    BY DEF Safe, StepRecord
  <1>2. ASSUME NEW n \in 1..Len(u)
        PROVE  /\ u[n].op = "copyBackup" => n = 1 /\ b[u[n].at] = "none"
               /\ u[n].op \in Touching => \A l \in Location : Protected(u, b, n, l)
    <2>1. CASE n <= Len(s)
      <3>1. n \in 1..Len(s) /\ u[n] = s[n] /\ \A m \in 1..(n - 1) : u[m] = s[m]
        BY <1>1, <2>1
      <3> QED
        BY <3>1 DEF Safe, Protected
    <2>2. CASE n > Len(s)
      <3>1. u[n].op # "copyBackup"
        <4>1. n - Len(s) \in 1..Len(t) /\ u[n] = t[n - Len(s)]
          BY <1>1, <2>2
        <4>2. u[n] \in Later
          BY <4>1
        <4> QED
          BY <4>2, LaterLemma
      <3>2. \A m \in 1..Len(s) : m \in 1..(n - 1) /\ u[m] = s[m]
        BY <1>1, <2>2
      <3> QED
        BY <3>1, <3>2 DEF Protected
    <2> QED
      BY <1>1, <2>1, <2>2
  <1> HIDE DEF u
  <1>3. Safe(u, b)
    BY <1>1, <1>2 DEF Safe
  <1> QED
    BY <1>3 DEF u

\* Where both backups are MMC's, any steps that make no backup are safe.
LEMMA BothMmcLemma ==
  ASSUME NEW b, NEW s \in Seq(Later), \A l \in Location : b[l] = "mmc"
  PROVE  Safe(s, b)
  <1>1. s \in Seq(StepRecord)
    BY DEF StepRecord
  <1>2. \A n \in 1..Len(s) : s[n].op # "copyBackup"
    BY LaterLemma
  <1> QED
    BY <1>1, <1>2 DEF Safe, Protected

-----------------------------------------------------------------------------
\* A plan that begins with steps for both backups may go on with anything that
\* makes no backup.
LEMMA PlanLemma ==
  ASSUME NEW b, NEW op \in {"backUp", "verifyBackup"}, NEW t \in Seq(Later)
  PROVE  Safe(<<Step(op, "game"), Step(op, "manager")>> \o t, b)
  <1> DEFINE s == <<Step(op, "game"), Step(op, "manager")>>
  <1>1. Step(op, "game") \in Later /\ Step(op, "manager") \in Later
    BY DEF Step, Later, Located, Location
  <1>2. s \in Seq(Later) /\ Len(s) = 2
    BY <1>1
  <1>3. s[1] = Step(op, "game") /\ s[2] = Step(op, "manager")
    OBVIOUS
  <1> HIDE DEF s
  <1>4. s[1] \in Checks("game") /\ s[2] \in Checks("manager")
    BY <1>3 DEF Checks
  <1>5. s[1].op \notin Touching /\ s[2].op \notin Touching
    BY <1>3 DEF Step, Touching
  <1>6. Safe(s, b)
    <2>1. \A n \in 1..2 : s[n].op # "copyBackup"
      BY <1>2, LaterLemma
    <2>2. s \in Seq(StepRecord)
      BY <1>2 DEF StepRecord
    <2>3. \A n \in 1..2 : s[n].op \notin Touching
      <3>1. \A n \in 1..2 : n = 1 \/ n = 2
        OBVIOUS
      <3> QED
        BY <1>5, <3>1
    <2> QED
      BY <1>2, <2>1, <2>2, <2>3 DEF Safe
  <1>7. \A l \in Location : \E m \in 1..Len(s) : s[m] \in Checks(l)
    <2>1. 1 \in 1..Len(s) /\ 2 \in 1..Len(s)
      BY <1>2
    <2> QED
      BY <1>4, <2>1, Zenon DEF Location
  <1>8. Safe(s \o t, b)
    BY <1>6, <1>7, ConcatLemma
  <1> QED
    BY <1>8 DEF s

\* The report that ends a plan.
LEMMA ReportLemma ==
  ASSUME NEW at \in Target
  PROVE  <<Step("report", at)>> \in Seq(Later)
  <1>1. Step("report", at) \in Later
    BY DEF Step, Later, Unlocated
  <1> QED
    BY <1>1

\* installHook: both calls of ensureBackup come first.
LEMMA InstallIsSafe == \A b : Safe(InstallSteps, b)
  <1>1. Copies \in Seq(Later)
    <2>1. /\ Step("recognize", "both") \in Later
          /\ Step("putProxy", "game") \in Later /\ Step("putProxy", "manager") \in Later
          /\ Step("put", "host") \in Later /\ Step("put", "autorun") \in Later
          /\ Step("verifyProxy", "game") \in Later /\ Step("verifyProxy", "manager") \in Later
          /\ Step("verify", "host") \in Later /\ Step("verify", "autorun") \in Later
      BY DEF Step, Later, Located, Unlocated, Target, Location, Artifact
    <2> QED
      BY <2>1 DEF Copies
  <1> DEFINE r == <<Step("report", "installed")>>
  <1>2. r \in Seq(Later)
    BY ReportLemma DEF Target
  <1>3. Copies \o r \in Seq(Later)
    BY <1>1, <1>2
  <1>4. Backups \in Seq(Later)
    <2>1. Step("backUp", "game") \in Later /\ Step("backUp", "manager") \in Later
      BY DEF Step, Later, Located, Location
    <2> QED
      BY <2>1 DEF Backups
  <1>5. InstallSteps = Backups \o (Copies \o r)
    BY <1>1, <1>2, <1>4, ConcatAssociative DEF InstallSteps
  <1> QED
    BY <1>3, <1>5, PlanLemma DEF Backups

\* restoreMmcHook: both backups are verified first.
LEMMA RestoreIsSafe == \A b : Safe(RestoreSteps, b)
  <1> DEFINE t == << Step("putBack", "game"), Step("putBack", "manager"),
                     Step("verifyBack", "game"), Step("verifyBack", "manager"),
                     Step("report", "restored") >>
  <1>1. t \in Seq(Later)
    BY DEF Step, Later, Located, Unlocated, Target, Location
  <1>2. RestoreSteps = <<Step("verifyBackup", "game"), Step("verifyBackup", "manager")>> \o t
    BY DEF RestoreSteps
  <1> QED
    BY <1>1, <1>2, PlanLemma

\* The rollback of either location, and of the other one when it fails.
LEMMA RollbackLemma ==
  /\ RollbackSteps \in Seq(Later)
  /\ \A l : RollbackAfter(l) \in Seq(Later)
  <1> DEFINE r == <<Step("report", "rolledBack")>>
  <1>1. r \in Seq(Later)
    BY ReportLemma DEF Target
  <1>2. \A l \in Location : RollBackOf(l) \in Seq(Later)
    BY DEF RollBackOf, Step, Later, Located, Unlocated, Target
  <1>3. <<>> \in Seq(Later)
    OBVIOUS
  <1>4. \A l : RollbackAfter(l) \in Seq(Later)
    BY <1>1, <1>2, <1>3 DEF RollbackAfter, Location
  <1> QED
    BY <1>2, <1>4 DEF RollbackSteps, Location

-----------------------------------------------------------------------------
\* Taking a step leaves the rest safe: what the step checked is known by now.
LEMMA TailLemma ==
  ASSUME NEW s, NEW b, NEW c, Safe(s, b), s # <<>>,
         \A l \in Location : b[l] = "mmc" => c[l] = "mmc",
         \A l \in Location : s[1] \in Checks(l) => c[l] = "mmc"
  PROVE  Safe(Tail(s), c)
  <1> DEFINE u == Tail(s)
  <1>1. /\ s \in Seq(StepRecord) /\ u \in Seq(StepRecord)
        /\ Len(s) \in Nat /\ Len(s) > 0 /\ Len(u) = Len(s) - 1
        /\ \A n \in 1..Len(u) : u[n] = s[n + 1]
    BY DEF Safe
  <1>2. ASSUME NEW n \in 1..Len(u)
        PROVE  /\ u[n].op # "copyBackup"
               /\ u[n].op \in Touching => \A l \in Location : Protected(u, c, n, l)
    <2>1. n + 1 \in 1..Len(s) /\ u[n] = s[n + 1] /\ n + 1 # 1
      BY <1>1
    <2>2. u[n].op # "copyBackup"
      BY <2>1 DEF Safe
    <2>3. ASSUME u[n].op \in Touching, NEW l \in Location
          PROVE  Protected(u, c, n, l)
      <3>1. Protected(s, b, n + 1, l)
        BY <2>1, <2>3 DEF Safe
      <3>2. CASE b[l] = "mmc"
        BY <3>2 DEF Protected
      <3>3. ASSUME NEW m \in 1..n, s[m] \in Checks(l)
            PROVE  Protected(u, c, n, l)
        <4>1. CASE m = 1
          BY <3>3, <4>1 DEF Protected
        <4>2. CASE m # 1
          <5>1. m - 1 \in 1..(n - 1) /\ u[m - 1] = s[m]
            BY <1>1, <4>2
          <5> QED
            BY <3>3, <5>1 DEF Protected
        <4> QED
          BY <4>1, <4>2
      <3> QED
        BY <3>1, <3>2, <3>3 DEF Protected
    <2> QED
      BY <2>2, <2>3
  <1> HIDE DEF u
  <1>3. Safe(u, c)
    BY <1>1, <1>2 DEF Safe
  <1> QED
    BY <1>3 DEF u

\* A copy of the active proxy and its verification stand for the check of the
\* backup that was missing.
LEMMA MissingBackupLemma ==
  ASSUME NEW s, NEW b, NEW a \in Location, Safe(s, b), s # <<>>, s[1] = Step("backUp", a),
         b[a] = "none"
  PROVE  Safe(<<Step("copyBackup", a), Step("verifyBackup", a)>> \o Tail(s), b)
  <1> DEFINE v == <<Step("copyBackup", a), Step("verifyBackup", a)>>
             u == v \o Tail(s)
  <1>1. Step("copyBackup", a) \in StepRecord /\ Step("verifyBackup", a) \in StepRecord
    BY DEF Step, StepRecord, Later, Located
  <1>2. v \in Seq(StepRecord) /\ Len(v) = 2
    BY <1>1
  <1>3. v[1] = Step("copyBackup", a) /\ v[2] = Step("verifyBackup", a)
    OBVIOUS
  <1> HIDE DEF v
  <1>4. /\ s \in Seq(StepRecord) /\ u \in Seq(StepRecord)
        /\ Len(s) \in Nat /\ Len(s) > 0 /\ Len(u) = Len(s) + 1
        /\ u[1] = v[1] /\ u[2] = v[2]
        /\ \A n \in 3..Len(u) : u[n] = s[n - 1]
    <2>1. s \in Seq(StepRecord) /\ Len(s) \in Nat /\ Len(s) > 0
      BY DEF Safe
    <2> DEFINE w == Tail(s)
    <2>2. w \in Seq(StepRecord) /\ Len(w) = Len(s) - 1 /\ \A n \in 1..Len(w) : w[n] = s[n + 1]
      BY <2>1
    <2> HIDE DEF w
    <2>3. /\ v \o w \in Seq(StepRecord)
          /\ Len(v \o w) = Len(v) + Len(w)
          /\ \A n \in 1..(Len(v) + Len(w)) :
               (v \o w)[n] = IF n <= Len(v) THEN v[n] ELSE w[n - Len(v)]
      BY <1>2, <2>2, ConcatProperties
    <2>4. \A n \in 1..(2 + Len(w)) : (v \o w)[n] = IF n <= 2 THEN v[n] ELSE w[n - 2]
      BY <1>2, <2>3
    <2>5. u = v \o w
      BY DEF u, w
    <2> QED
      BY <1>2, <2>1, <2>2, <2>3, <2>4, <2>5
  <1> HIDE DEF u
  <1>5. ASSUME NEW n \in 1..Len(u)
        PROVE  /\ u[n].op = "copyBackup" => n = 1 /\ b[u[n].at] = "none"
               /\ u[n].op \in Touching => \A l \in Location : Protected(u, b, n, l)
    <2>1. CASE n = 1
      BY <1>3, <1>4, <2>1 DEF Step, Touching
    <2>2. CASE n = 2
      BY <1>3, <1>4, <2>2 DEF Step, Touching
    <2>3. CASE n > 2
      <3>1. n - 1 \in 1..Len(s) /\ u[n] = s[n - 1] /\ n - 1 # 1 /\ 2 \in 1..(n - 1)
        BY <1>4, <2>3
      <3>2. u[n].op # "copyBackup"
        BY <3>1 DEF Safe
      <3>3. ASSUME u[n].op \in Touching, NEW l \in Location
            PROVE  Protected(u, b, n, l)
        <4>1. Protected(s, b, n - 1, l)
          BY <3>1, <3>3 DEF Safe
        <4>2. CASE b[l] = "mmc"
          BY <4>2 DEF Protected
        <4>3. ASSUME NEW m \in 1..(n - 2), s[m] \in Checks(l)
              PROVE  Protected(u, b, n, l)
          <5>1. CASE m = 1
            <6>1. l = a
              BY <4>3, <5>1 DEF Checks, Step
            <6>2. u[2] \in Checks(l)
              BY <1>3, <1>4, <6>1 DEF Checks
            <6> QED
              BY <3>1, <6>2 DEF Protected
          <5>2. CASE m # 1
            <6>2. /\ m + 1 \in 1..(n - 1) /\ m + 1 \in 3..Len(u)
                  /\ (m + 1) - 1 = m
              BY <1>4, <5>2
            <6>3. u[m + 1] = s[(m + 1) - 1]
              BY <1>4, <6>2
            <6>1. m + 1 \in 1..(n - 1) /\ u[m + 1] = s[m]
              BY <6>2, <6>3
            <6> QED
              BY <4>3, <6>1 DEF Protected
          <5> QED
            BY <5>1, <5>2
        <4> QED
          BY <3>1, <4>1, <4>2, <4>3 DEF Protected
      <3> QED
        BY <3>2, <3>3
    <2> QED
      BY <2>1, <2>2, <2>3
  <1>6. Safe(u, b)
    BY <1>4, <1>5 DEF Safe
  <1> QED
    BY <1>6 DEF u, v

\* The step taken next is harmless: a copy is made where there is no backup,
\* and a step that touches a proxy finds both backups in place.
LEMMA HeadLemma ==
  ASSUME NEW s, NEW b, Safe(s, b), s # <<>>
  PROVE  /\ Head(s) = s[1] /\ Head(s) \in StepRecord
         /\ Head(s).op = "copyBackup" => b[Head(s).at] = "none"
         /\ Head(s).op \in Touching => \A l \in Location : b[l] = "mmc"
  <1>1. s \in Seq(StepRecord) /\ 1 \in 1..Len(s) /\ Head(s) = s[1] /\ s[1] \in StepRecord
    BY DEF Safe
  <1>2. \A l \in Location : Protected(s, b, 1, l) => b[l] = "mmc"
    BY DEF Protected
  <1> QED
    BY <1>1, <1>2 DEF Safe

-----------------------------------------------------------------------------
\* A command that has ended takes no further step.
LEMMA NoSteps == \A b : Safe(<<>>, b)
  <1>1. <<>> \in Seq(StepRecord) /\ Len(<<>>) = 0
    OBVIOUS
  <1> QED
    BY <1>1 DEF Safe

\* The manager's folder and the game each have a proxy or none.
LEMMA InitInvariant == Init => InstallInvariant
  BY NoSteps DEF Init, InstallInvariant, TypeOK, File

\* Every step of a command, and every write of the manager, keeps the rest of
\* the command safe.
LEMMA NextInvariant ==
  ASSUME InstallInvariant, [Next]_vars
  PROVE  InstallInvariant'
  <1> DEFINE a == Head(steps).at
  <1>0. installed' \in [Artifact -> {"new", "damaged", "old"}] /\ updates' \in Nat
    BY DEF InstallInvariant, TypeOK, files, Next, Command, Install, Restore, Begin, EnsureBackup, CopyBackup,
           Verify, PutNew, PutBackupBack, Continue, StepFails, Report, Crash, MmcUpdate, Done, vars
  <1>1. ASSUME steps # <<>>
        PROVE  /\ Head(steps) = steps[1] /\ Head(steps) \in StepRecord
               /\ Head(steps).op = "copyBackup" => backup[a] = "none"
               /\ Head(steps).op \in Touching => \A l \in Location : backup[l] = "mmc"
    BY <1>1, HeadLemma DEF InstallInvariant
  <1>2. ASSUME Head(steps).op \in Located \cup {"copyBackup"}, steps # <<>>
        PROVE  a \in Location
    BY <1>1, <1>2 DEF StepRecord, Later, Located, Unlocated
  <1>3. CASE Install
    BY <1>0, <1>3, InstallIsSafe, NoSteps DEF Install, Begin, files, InstallInvariant, TypeOK
  <1>4. CASE Restore
    BY <1>0, <1>4, RestoreIsSafe, NoSteps DEF Restore, Begin, files, InstallInvariant, TypeOK
  <1>5. CASE EnsureBackup
    <2>1. steps # <<>> /\ Head(steps).op = "backUp" /\ a \in Location
      BY <1>2, <1>5 DEF EnsureBackup, Do, Op, Located
    <2>2. UNCHANGED files
      BY <1>5 DEF EnsureBackup
    <2>3. CASE backup[a] = "mmc" /\ steps' = Tail(steps)
      <3>1. \A l \in Location : steps[1] \in Checks(l) => backup[l] = "mmc"
        BY <1>1, <2>1, <2>3 DEF Checks, Step
      <3> QED
        BY <1>0, <2>1, <2>2, <2>3, <3>1, TailLemma DEF InstallInvariant, TypeOK, files
    <2>4. CASE /\ backup[a] = "none"
               /\ steps' = <<Step("copyBackup", a), Step("verifyBackup", a)>> \o Tail(steps)
      <3>1. steps[1] = Step("backUp", a)
        BY <1>1, <2>1 DEF Step, StepRecord, Later
      <3> QED
        BY <1>0, <2>1, <2>2, <2>4, <3>1, MissingBackupLemma DEF InstallInvariant, TypeOK, files
    <2> QED
      BY <1>5, <2>3, <2>4 DEF EnsureBackup, At
  <1>6. CASE CopyBackup
    <2>1. steps # <<>> /\ Head(steps).op = "copyBackup" /\ a \in Location /\ backup[a] = "none"
      BY <1>1, <1>2, <1>6 DEF CopyBackup, Do, Op
    <2>2. /\ UNCHANGED active
          /\ steps' = Tail(steps)
          /\ \E c \in {active[a], "unknown"} : backup' = [backup EXCEPT ![a] = c]
      BY <1>6 DEF CopyBackup, Copied, Continue, At
    <2>3. \A l \in Location : backup[l] = "mmc" => backup'[l] = "mmc"
      BY <2>1, <2>2 DEF InstallInvariant, TypeOK
    <2>4. \A l \in Location : steps[1] \notin Checks(l)
      BY <1>1, <2>1 DEF Checks, Step
    <2>5. Safe(Tail(steps), backup')
      BY <2>1, <2>3, <2>4, TailLemma DEF InstallInvariant
    <2>6. TypeOK'
      BY <1>0, <2>1, <2>2 DEF InstallInvariant, TypeOK, File
    <2> QED
      BY <2>2, <2>5, <2>6 DEF InstallInvariant
  <1>7. CASE Verify
    <2>1. steps # <<>> /\ UNCHANGED files /\ steps' = Tail(steps) /\ AsExpected
      BY <1>7 DEF Verify, Do, Continue
    <2>2. Head(steps).op # "backUp"
      BY <1>7 DEF Verify, Do, Op
    <2>3. \A l \in Location : steps[1] \in Checks(l) => backup[l] = "mmc"
      BY <1>1, <2>1, <2>2 DEF Checks, Step, AsExpected, Op, At
    <2> QED
      BY <1>0, <2>1, <2>3, TailLemma DEF InstallInvariant, TypeOK, files
  <1>8. ASSUME Head(steps).op \in {"putProxy", "put", "rollBack", "putBack"}, steps # <<>>,
               UNCHANGED backup, active' \in [Location -> File], steps' = Tail(steps)
        PROVE  InstallInvariant'
    <2>1. \A l \in Location : backup[l] = "mmc"
      BY <1>1, <1>8 DEF Touching
    <2> QED
      BY <1>0, <1>8, <2>1, TailLemma DEF InstallInvariant, TypeOK
  <1>9. CASE PutNew
    <2>1. /\ steps # <<>> /\ UNCHANGED backup /\ steps' = Tail(steps)
          /\ Head(steps).op \in {"putProxy", "put"}
      BY <1>9 DEF PutNew, Do, Op, Continue
    <2>2. active' \in [Location -> File]
      BY <1>9 DEF PutNew, Copied, InstallInvariant, TypeOK, File
    <2> QED
      BY <1>8, <2>1, <2>2
  <1>10. CASE PutBackupBack
    <2>1. /\ steps # <<>> /\ UNCHANGED backup /\ steps' = Tail(steps)
          /\ Head(steps).op \in {"rollBack", "putBack"}
          /\ \E c \in {backup[a], "unknown"} : active' = [active EXCEPT ![a] = c]
      BY <1>10 DEF PutBackupBack, Do, Op, At, Copied, Continue
    <2>2. active' \in [Location -> File]
      <3>1. a \in Location
        BY <1>2, <2>1 DEF Located
      <3> QED
        BY <2>1, <3>1 DEF InstallInvariant, TypeOK, File
    <2> QED
      BY <1>8, <2>1, <2>2
  <1>11. CASE StepFails
    <2>1. steps # <<>> /\ UNCHANGED files
      BY <1>11 DEF StepFails, Do
    <2>2. CASE steps' = <<>>
      BY <1>0, <2>1, <2>2, NoSteps DEF InstallInvariant, TypeOK, files
    <2>3. CASE /\ Head(steps).op \in Touching
               /\ steps' = RollbackSteps \/ steps' = RollbackAfter(a)
      <3>1. steps' \in Seq(Later) /\ \A l \in Location : backup'[l] = "mmc"
        BY <1>1, <2>1, <2>3, RollbackLemma DEF files
      <3> QED
        BY <1>0, <2>1, <3>1, BothMmcLemma DEF InstallInvariant, TypeOK, files
    <2> QED
      BY <1>11, <2>2, <2>3 DEF StepFails, Do, Op, At, Touching
  <1>12. CASE Report \/ Crash
    BY <1>0, <1>12, NoSteps DEF Report, Crash, InstallInvariant, TypeOK, files
  <1>13. CASE MmcUpdate
    BY <1>0, <1>13 DEF MmcUpdate, InstallInvariant, TypeOK, File
  <1>14. CASE Done \/ UNCHANGED vars
    BY <1>0, <1>14 DEF Done, vars, files, InstallInvariant, TypeOK
  <1> QED
    BY <1>3, <1>4, <1>5, <1>6, <1>7, <1>9, <1>10, <1>11, <1>12, <1>13, <1>14
    DEF Next, Command

\* Spec => []InstallInvariant, by the two lemmas above.
THEOREM InstallerInvariant == Spec => []InstallInvariant
  BY InitInvariant, NextInvariant, PTL DEF Spec

-----------------------------------------------------------------------------
\* One step from a safe state takes no last copy: only three actions of a
\* command write a proxy or a backup.
LEMMA StepKeepsMmc ==
  ASSUME InstallInvariant, [Next]_vars, files' # files, updates' = updates
  PROVE  \A l \in Location : HasMmc(l) => HasMmc(l)'
  <1>1. CASE CopyBackup
    <2>1. steps # <<>> /\ Head(steps).op = "copyBackup" /\ UNCHANGED active
      BY <1>1 DEF CopyBackup, Do, Op
    <2>2. backup[Head(steps).at] = "none"
      BY <2>1, HeadLemma DEF InstallInvariant
    <2>3. \E c : backup' = [backup EXCEPT ![Head(steps).at] = c]
      BY <1>1 DEF CopyBackup, Copied, At
    <2>4. \A l \in Location : backup[l] = "mmc" => backup'[l] = "mmc"
      BY <2>2, <2>3 DEF InstallInvariant, TypeOK
    <2> QED
      BY <2>1, <2>4 DEF HasMmc
  <1>2. CASE PutNew \/ PutBackupBack
    <2>1. /\ steps # <<>> /\ Head(steps).op \in Touching /\ UNCHANGED backup
      BY <1>2 DEF PutNew, PutBackupBack, Do, Op, Touching
    <2>2. \A l \in Location : backup[l] = "mmc"
      BY <2>1, HeadLemma DEF InstallInvariant
    <2> QED
      BY <2>1, <2>2 DEF HasMmc
  <1>3. CASE MmcUpdate
    BY <1>3 DEF MmcUpdate, InstallInvariant, TypeOK
  <1>4. CASE UNCHANGED files
    BY <1>4
  <1> QED
    BY <1>1, <1>2, <1>3, <1>4
    DEF Next, Command, Install, Restore, Begin, EnsureBackup, Verify, StepFails, Report, Crash,
        Done, vars

\* A command never takes from a location the last copy of MMC's proxy.
THEOREM MmcIsNeverLost == Spec => MmcNeverLost
  BY InstallerInvariant, StepKeepsMmc, PTL DEF Spec, MmcNeverLost

-----------------------------------------------------------------------------
(* What a command of the installer reports: a location or an artifact that  *)
(* is written is checked afterwards, before the report, and the steps       *)
(* before the first replacement leave the proxies alone.                    *)

Endings == {"installed", "rolledBack", "restored"}
RollingBack == {"rollBack", "checkRollback"}
Early == {"backUp", "copyBackup", "recognize", "verifyBackup"}

\* The outcome the rest s of a command ends with.
Ending(s) == s[Len(s)].at

WellOrdered(s) ==
  /\ s \in Seq(StepRecord) /\ Len(s) > 0
  /\ \E e \in Endings : s[Len(s)] = Step("report", e)
  /\ \A n \in 1..Len(s) :
       /\ n < Len(s) => s[n].op # "report"
       /\ s[n].op \in RollingBack => Ending(s) = "rolledBack"
  /\ \A m, n \in 1..Len(s) :
       m < n => /\ s[n].op \in Early => s[m].op \in Early
                /\ s[m].op \in RollingBack /\ s[m].at = "manager" =>
                     ~(s[n].op \in RollingBack /\ s[n].at = "game")

\* What the proxy of l has to be, the step that checks it, and those that write it.
Wanted(e) == IF e = "installed" THEN "proxy" ELSE "mmc"
Checking(e, l) ==
  Step(CASE e = "installed" -> "verifyProxy" [] e = "rolledBack" -> "checkRollback"
         [] OTHER -> "verifyBack", l)
Replacing(l) == {Step("putProxy", l), Step("rollBack", l), Step("putBack", l)}

\* No step ahead is one of W; the check c is ahead, and nothing of W after it.
Unwritten(s, W) == \A n \in 1..Len(s) : s[n] \notin W
Awaited(s, c, W) ==
  \E m \in 1..Len(s) : s[m] = c /\ \A n \in 1..Len(s) : n > m => s[n] \notin W

LEMMA RestLemma ==
  ASSUME NEW s, WellOrdered(s), Len(s) > 1
  PROVE  /\ WellOrdered(Tail(s)) /\ Ending(Tail(s)) = Ending(s)
         /\ \A W : Unwritten(s, W) => Unwritten(Tail(s), W)
         /\ \A c, W : Awaited(s, c, W) =>
              Awaited(Tail(s), c, W) \/ (s[1] = c /\ Unwritten(Tail(s), W))
<1>. DEFINE u == Tail(s)
<1>1. /\ u \in Seq(StepRecord) /\ Len(s) \in Nat /\ Len(u) = Len(s) - 1
      /\ \A n \in 1..Len(u) : u[n] = s[n + 1] /\ n + 1 \in 1..Len(s)
  BY DEF WellOrdered
<1>. HIDE DEF u
<1>2. u[Len(u)] = s[Len(s)] /\ Ending(u) = Ending(s)
  BY <1>1 DEF Ending
<1>3. WellOrdered(u)
  <2>1. \A n \in 1..Len(u) : /\ n < Len(u) => u[n].op # "report"
                             /\ u[n].op \in RollingBack => Ending(u) = "rolledBack"
    BY <1>1, <1>2 DEF WellOrdered
  <2>2. ASSUME NEW m \in 1..Len(u), NEW n \in 1..Len(u), m < n
        PROVE  /\ u[n].op \in Early => u[m].op \in Early
               /\ u[m].op \in RollingBack /\ u[m].at = "manager" =>
                    ~(u[n].op \in RollingBack /\ u[n].at = "game")
    <3>1. m + 1 \in 1..Len(s) /\ n + 1 \in 1..Len(s) /\ m + 1 < n + 1
          /\ u[m] = s[m + 1] /\ u[n] = s[n + 1]
      BY <1>1, <2>2
    <3>. QED
      BY <3>1 DEF WellOrdered
  <2>3. \E e \in Endings : u[Len(u)] = Step("report", e)
    BY <1>2 DEF WellOrdered
  <2>. QED
    BY <1>1, <2>1, <2>2, <2>3 DEF WellOrdered
<1>4. ASSUME NEW W, Unwritten(s, W) PROVE Unwritten(u, W)
  BY <1>1, <1>4 DEF Unwritten
<1>5. ASSUME NEW c, NEW W, Awaited(s, c, W), ~(s[1] = c /\ Unwritten(u, W))
      PROVE  Awaited(u, c, W)
  <2>1. PICK m \in 1..Len(s) : s[m] = c /\ \A n \in 1..Len(s) : n > m => s[n] \notin W
    BY <1>5 DEF Awaited
  <2>2. m # 1
    BY <1>1, <1>5, <2>1 DEF Unwritten
  <2>3. m - 1 \in 1..Len(u) /\ u[m - 1] = c
    BY <1>1, <2>1, <2>2
  <2>4. \A n \in 1..Len(u) : n > m - 1 => u[n] \notin W
    BY <1>1, <2>1
  <2>. QED
    BY <2>3, <2>4 DEF Awaited
<1>6. /\ \A W : Unwritten(s, W) => Unwritten(u, W)
      /\ \A c, W : Awaited(s, c, W) => Awaited(u, c, W) \/ (s[1] = c /\ Unwritten(u, W))
  BY <1>4, <1>5
<1>. QED
  BY <1>2, <1>3, <1>6 DEF u

-----------------------------------------------------------------------------
\* What holds while a command runs, and what it has reported since.
ProxyAssured(l) ==
  LET e == Ending(steps)
  IN  \/ Awaited(steps, Checking(e, l), Replacing(l))
      \/ /\ active[l] = Wanted(e) \/ l \in updated \/ (e = "rolledBack" /\ l \in trouble)
         /\ Unwritten(steps, Replacing(l))
ArtifactAssured(a) ==
  \/ Awaited(steps, Step("verify", a), {Step("put", a)})
  \/ installed[a] = "new" /\ Unwritten(steps, {Step("put", a)})

ReportInvariant ==
  /\ InstallInvariant
  /\ steps # <<>> =>
       /\ outcome = "running" /\ WellOrdered(steps)
       /\ \A l \in Location : ProxyAssured(l)
       /\ Ending(steps) = "installed" => \A a \in Artifact : ArtifactAssured(a)
       /\ (\E n \in 1..Len(steps) : steps[n].op \in Early) =>
            \A l \in Location : active[l] = found[l] \/ l \in updated
  /\ steps = <<>> => FailedInstallRestores

-----------------------------------------------------------------------------
\* What follows two early steps is not disturbed by them.
LEMMA PushLemma ==
  ASSUME NEW u, WellOrdered(u), NEW v \in Seq(StepRecord), Len(v) = 2,
         v[1].op \in Early, v[2].op \in Early
  PROVE  /\ WellOrdered(v \o u) /\ Ending(v \o u) = Ending(u)
         /\ \A W : Unwritten(u, W) /\ v[1] \notin W /\ v[2] \notin W => Unwritten(v \o u, W)
         /\ \A c, W : Awaited(u, c, W) => Awaited(v \o u, c, W)
<1>. DEFINE t == v \o u
<1>1. /\ u \in Seq(StepRecord) /\ t \in Seq(StepRecord)
      /\ Len(u) \in Nat /\ Len(u) > 0 /\ Len(t) = Len(u) + 2
      /\ t[1] = v[1] /\ t[2] = v[2]
      /\ \A n \in 1..Len(u) : t[n + 2] = u[n]
      /\ \A n \in 3..Len(t) : n - 2 \in 1..Len(u) /\ t[n] = u[n - 2]
  <2>1. u \in Seq(StepRecord) /\ Len(u) \in Nat /\ Len(u) > 0
    BY DEF WellOrdered
  <2>2. /\ t \in Seq(StepRecord) /\ Len(t) = Len(v) + Len(u)
        /\ \A n \in 1..(Len(v) + Len(u)) : t[n] = IF n <= Len(v) THEN v[n] ELSE u[n - Len(v)]
    BY <2>1, ConcatProperties
  <2>. HIDE DEF t
  <2>. QED
    BY <2>1, <2>2
<1>. HIDE DEF t
<1>2. t[Len(t)] = u[Len(u)] /\ Ending(t) = Ending(u)
  BY <1>1 DEF Ending
<1>3. \A n \in 1..Len(t) : n = 1 \/ n = 2 \/ n \in 3..Len(t)
  BY <1>1
<1>4. t[1].op \in Early /\ t[2].op \in Early
  BY <1>1
<1>5. WellOrdered(t)
  <2>1. ASSUME NEW n \in 1..Len(t)
        PROVE  /\ n < Len(t) => t[n].op # "report"
               /\ t[n].op \in RollingBack => Ending(t) = "rolledBack"
    <3>1. CASE n = 1 \/ n = 2
      BY <1>4, <3>1 DEF Early, RollingBack
    <3>2. CASE n \in 3..Len(t)
      BY <1>1, <1>2, <3>2 DEF WellOrdered
    <3>. QED
      BY <1>3, <3>1, <3>2
  <2>2. ASSUME NEW m \in 1..Len(t), NEW n \in 1..Len(t), m < n
        PROVE  /\ t[n].op \in Early => t[m].op \in Early
               /\ t[m].op \in RollingBack /\ t[m].at = "manager" =>
                    ~(t[n].op \in RollingBack /\ t[n].at = "game")
    <3>1. CASE m = 1 \/ m = 2
      BY <1>4, <3>1 DEF Early, RollingBack
    <3>2. CASE m \in 3..Len(t)
      <4>1. /\ m - 2 \in 1..Len(u) /\ n - 2 \in 1..Len(u) /\ m - 2 < n - 2
            /\ t[m] = u[m - 2] /\ t[n] = u[n - 2]
        BY <1>1, <2>2, <3>2
      <4>. QED
        BY <4>1 DEF WellOrdered
    <3>. QED
      BY <1>3, <3>1, <3>2
  <2>3. \E e \in Endings : t[Len(t)] = Step("report", e)
    BY <1>2 DEF WellOrdered
  <2>. QED
    BY <1>1, <2>1, <2>2, <2>3 DEF WellOrdered
<1>6. ASSUME NEW W, Unwritten(u, W), v[1] \notin W, v[2] \notin W
      PROVE  Unwritten(t, W)
  BY <1>1, <1>3, <1>6 DEF Unwritten
<1>7. ASSUME NEW c, NEW W, Awaited(u, c, W)
      PROVE  Awaited(t, c, W)
  <2>1. PICK m \in 1..Len(u) : u[m] = c /\ \A n \in 1..Len(u) : n > m => u[n] \notin W
    BY <1>7 DEF Awaited
  <2>2. m + 2 \in 1..Len(t) /\ t[m + 2] = c
    BY <1>1, <2>1
  <2>3. ASSUME NEW n \in 1..Len(t), n > m + 2
        PROVE  t[n] \notin W
    <3>1. n - 2 \in 1..Len(u) /\ n - 2 > m
      BY <1>1, <2>1, <2>3
    <3>2. t[n] = u[n - 2]
      BY <1>1, <2>1, <2>3
    <3>. QED
      BY <2>1, <3>1, <3>2
  <2>. QED
    BY <2>2, <2>3 DEF Awaited
<1>. QED
  BY <1>2, <1>5, <1>6, <1>7 DEF t

-----------------------------------------------------------------------------
\* A command is ready to go on with s: the order is right, and the checks of
\* what is going to be written are ahead.
Ready(s) ==
  /\ WellOrdered(s)
  /\ \A l \in Location : Awaited(s, Checking(Ending(s), l), Replacing(l))
  /\ Ending(s) = "installed" => \A a \in Artifact : Awaited(s, Step("verify", a), {Step("put", a)})

\* installHook checks what it has copied before it says so.
LEMMA InstallIsReady == Ready(InstallSteps)
<1>. DEFINE s == InstallSteps
<1>1. /\ s \in Seq(StepRecord) /\ Len(s) = 12
      /\ s[1] = Step("backUp", "game") /\ s[2] = Step("backUp", "manager")
      /\ s[3] = Step("recognize", "both")
      /\ s[4] = Step("putProxy", "game") /\ s[5] = Step("putProxy", "manager")
      /\ s[6] = Step("put", "host") /\ s[7] = Step("put", "autorun")
      /\ s[8] = Step("verifyProxy", "game") /\ s[9] = Step("verifyProxy", "manager")
      /\ s[10] = Step("verify", "host") /\ s[11] = Step("verify", "autorun")
      /\ s[12] = Step("report", "installed")
  <2>1. \A op, at : Step(op, at).op = op /\ Step(op, at).at = at
    BY DEF Step
  <2>2. s \in Seq(StepRecord)
    BY InstallIsSafe DEF Safe
  <2>. QED
    BY <2>2 DEF InstallSteps, Backups, Copies
<1>. HIDE DEF s
<1>2. \A n \in 1..12 : \/ n = 1 \/ n = 2 \/ n = 3 \/ n = 4 \/ n = 5 \/ n = 6 \/ n = 7
                        \/ n = 8 \/ n = 9 \/ n = 10 \/ n = 11 \/ n = 12
  OBVIOUS
<1>3. /\ \A n \in 1..12 : n < 12 => s[n].op # "report"
      /\ \A n \in 1..12 : s[n].op \notin RollingBack
      /\ \A n \in 1..12 : s[n].op \in Early <=> n <= 3
  BY <1>1, <1>2 DEF Step, RollingBack, Early
<1>4. WellOrdered(s)
  <2>1. \E e \in Endings : s[12] = Step("report", e)
    BY <1>1 DEF Endings
  <2>. QED
    BY <1>1, <1>3, <2>1 DEF WellOrdered
<1>5. Ending(s) = "installed"
  BY <1>1 DEF Ending, Step
<1>6. \A l \in Location : Awaited(s, Step("verifyProxy", l), Replacing(l))
  <2>1. \A l : \A n \in 8..12 : s[n] \notin Replacing(l)
    BY <1>1, <1>2 DEF Replacing, Step
  <2>2. 8 \in 1..12 /\ 9 \in 1..12 /\ \A n \in 1..12 : n > 8 \/ n > 9 => n \in 8..12
    OBVIOUS
  <2>3. Awaited(s, s[8], Replacing("game")) /\ Awaited(s, s[9], Replacing("manager"))
    BY <1>1, <2>1, <2>2 DEF Awaited
  <2>. QED
    BY <1>1, <2>3 DEF Location
<1>7. \A a \in Artifact : Awaited(s, Step("verify", a), {Step("put", a)})
  <2>1. \A a : \A n \in 8..12 : s[n] \notin {Step("put", a)}
    BY <1>1, <1>2 DEF Step
  <2>2. 10 \in 1..12 /\ 11 \in 1..12 /\ \A n \in 1..12 : n > 10 \/ n > 11 => n \in 8..12
    OBVIOUS
  <2>3. /\ Awaited(s, s[10], {Step("put", "host")})
        /\ Awaited(s, s[11], {Step("put", "autorun")})
    BY <1>1, <2>1, <2>2 DEF Awaited
  <2>. QED
    BY <1>1, <2>3 DEF Artifact
<1>8. Ready(s)
  BY <1>4, <1>5, <1>6, <1>7 DEF Ready, Checking
<1>. QED
  BY <1>8 DEF s

\* restoreMmcHook checks both proxies after it has put both back.
LEMMA RestoreIsReady == Ready(RestoreSteps)
<1>. DEFINE s == RestoreSteps
<1>1. /\ s \in Seq(StepRecord) /\ Len(s) = 7
      /\ s[1] = Step("verifyBackup", "game") /\ s[2] = Step("verifyBackup", "manager")
      /\ s[3] = Step("putBack", "game") /\ s[4] = Step("putBack", "manager")
      /\ s[5] = Step("verifyBack", "game") /\ s[6] = Step("verifyBack", "manager")
      /\ s[7] = Step("report", "restored")
  <2>1. s \in Seq(StepRecord)
    BY RestoreIsSafe DEF Safe
  <2>. QED
    BY <2>1 DEF RestoreSteps
<1>. HIDE DEF s
<1>2. \A n \in 1..7 : n = 1 \/ n = 2 \/ n = 3 \/ n = 4 \/ n = 5 \/ n = 6 \/ n = 7
  OBVIOUS
<1>3. /\ \A n \in 1..7 : n < 7 => s[n].op # "report"
      /\ \A n \in 1..7 : s[n].op \notin RollingBack
      /\ \A n \in 1..7 : s[n].op \in Early <=> n <= 2
  BY <1>1, <1>2 DEF Step, RollingBack, Early
<1>4. WellOrdered(s)
  <2>1. \E e \in Endings : s[7] = Step("report", e)
    BY <1>1 DEF Endings
  <2>. QED
    BY <1>1, <1>3, <2>1 DEF WellOrdered
<1>5. Ending(s) = "restored"
  BY <1>1 DEF Ending, Step
<1>6. \A l \in Location : Awaited(s, Step("verifyBack", l), Replacing(l))
  <2>1. \A l : \A n \in 5..7 : s[n] \notin Replacing(l)
    BY <1>1, <1>2 DEF Replacing, Step
  <2>2. 5 \in 1..7 /\ 6 \in 1..7 /\ \A n \in 1..7 : n > 5 \/ n > 6 => n \in 5..7
    OBVIOUS
  <2>3. Awaited(s, s[5], Replacing("game")) /\ Awaited(s, s[6], Replacing("manager"))
    BY <1>1, <2>1, <2>2 DEF Awaited
  <2>. QED
    BY <1>1, <2>3 DEF Location
<1>7. Ready(s)
  BY <1>4, <1>5, <1>6 DEF Ready, Checking
<1>. QED
  BY <1>7 DEF s

\* Without an early step among them.
Late(s) == \A n \in 1..Len(s) : s[n].op \notin Early

\* rollbackProxies takes the game first and checks each location behind its copy.
LEMMA RollbackIsReady == Ready(RollbackSteps) /\ Ending(RollbackSteps) = "rolledBack" /\ Late(RollbackSteps)
<1>. DEFINE s == RollbackSteps
<1>1. /\ s \in Seq(StepRecord) /\ Len(s) = 5
      /\ s[1] = Step("rollBack", "game") /\ s[2] = Step("checkRollback", "game")
      /\ s[3] = Step("rollBack", "manager") /\ s[4] = Step("checkRollback", "manager")
      /\ s[5] = Step("report", "rolledBack")
  <2>1. s \in Seq(StepRecord)
    BY RollbackLemma DEF StepRecord
  <2>. QED
    BY <2>1 DEF RollbackSteps, RollbackAfter, RollBackOf
<1>. HIDE DEF s
<1>2. \A n \in 1..5 : n = 1 \/ n = 2 \/ n = 3 \/ n = 4 \/ n = 5
  OBVIOUS
<1>3. /\ \A n \in 1..5 : n < 5 => s[n].op # "report"
      /\ \A n \in 1..5 : s[n].op \notin Early
      /\ \A n \in 1..5 : s[n].op \in RollingBack => (s[n].at = "game" <=> n <= 2)
  BY <1>1, <1>2 DEF Step, RollingBack, Early
<1>4. Ending(s) = "rolledBack"
  BY <1>1 DEF Ending, Step
<1>5. WellOrdered(s)
  <2>1. \E e \in Endings : s[5] = Step("report", e)
    BY <1>1 DEF Endings
  <2>2. ASSUME NEW m \in 1..5, NEW n \in 1..5, m < n
        PROVE  s[m].op \in RollingBack /\ s[m].at = "manager" =>
                 ~(s[n].op \in RollingBack /\ s[n].at = "game")
    <3>1. n <= 2 => m <= 2
      BY <2>2
    <3>. QED
      BY <1>3, <3>1
  <2>. QED
    BY <1>1, <1>3, <1>4, <2>1, <2>2 DEF WellOrdered
<1>6. \A l \in Location : Awaited(s, Step("checkRollback", l), Replacing(l))
  <2>1. /\ \A n \in 1..5 : n > 2 => s[n] \notin Replacing("game")
        /\ \A n \in 1..5 : n > 4 => s[n] \notin Replacing("manager")
    BY <1>1, <1>2 DEF Replacing, Step
  <2>2. 2 \in 1..5 /\ 4 \in 1..5
    OBVIOUS
  <2>3. Awaited(s, s[2], Replacing("game")) /\ Awaited(s, s[4], Replacing("manager"))
    BY <1>1, <2>1, <2>2 DEF Awaited
  <2>. QED
    BY <1>1, <2>3 DEF Location
<1>7. Ready(s)
  BY <1>4, <1>5, <1>6 DEF Ready, Checking
<1>. QED
  BY <1>1, <1>3, <1>4, <1>7 DEF s, Late

\* When the game cannot be rolled back the manager's folder still is, and
\* when that cannot be only the report is left.
LEMMA RollbackGoesOn ==
  /\ \A l \in Location :
       LET s == RollbackAfter(l)
       IN  /\ WellOrdered(s) /\ Ending(s) = "rolledBack" /\ Late(s) /\ s # <<>>
           /\ Unwritten(s, Replacing(l))
  /\ Awaited(RollbackAfter("game"), Step("checkRollback", "manager"), Replacing("manager"))
  /\ \A l \in Location : Unwritten(RollbackAfter("manager"), Replacing(l))
<1>1. /\ WellOrdered(RollbackAfter("game")) /\ Ending(RollbackAfter("game")) = "rolledBack"
      /\ Late(RollbackAfter("game")) /\ RollbackAfter("game") # <<>>
      /\ Unwritten(RollbackAfter("game"), Replacing("game"))
      /\ Awaited(RollbackAfter("game"), Step("checkRollback", "manager"), Replacing("manager"))
  <2>. DEFINE s == RollbackAfter("game")
  <2>1. /\ s \in Seq(StepRecord) /\ Len(s) = 3
        /\ s[1] = Step("rollBack", "manager") /\ s[2] = Step("checkRollback", "manager")
        /\ s[3] = Step("report", "rolledBack")
    <3>1. s \in Seq(StepRecord)
      BY RollbackLemma DEF StepRecord
    <3>. QED
      BY <3>1 DEF RollbackAfter, RollBackOf
  <2>. HIDE DEF s
  <2>2. \A n \in 1..3 : n = 1 \/ n = 2 \/ n = 3
    OBVIOUS
  <2>3. /\ \A n \in 1..3 : n < 3 => s[n].op # "report"
        /\ \A n \in 1..3 : s[n].op \notin Early /\ s[n].at # "game"
        /\ \A n \in 1..3 : s[n] \notin Replacing("game")
        /\ \A n \in 1..3 : n > 2 => s[n] \notin Replacing("manager")
    BY <2>1, <2>2 DEF Step, Early, Replacing
  <2>4. Ending(s) = "rolledBack"
    BY <2>1 DEF Ending, Step
  <2>5. \E e \in Endings : s[3] = Step("report", e)
    BY <2>1 DEF Endings
  <2>6. WellOrdered(s)
    BY <2>1, <2>3, <2>4, <2>5 DEF WellOrdered
  <2>7. 2 \in 1..3
    OBVIOUS
  <2>. QED
    BY <2>1, <2>3, <2>4, <2>6, <2>7 DEF Late, Unwritten, Awaited, s
<1>2. /\ WellOrdered(RollbackAfter("manager")) /\ Ending(RollbackAfter("manager")) = "rolledBack"
      /\ Late(RollbackAfter("manager")) /\ RollbackAfter("manager") # <<>>
      /\ \A l : Unwritten(RollbackAfter("manager"), Replacing(l))
  <2>. DEFINE s == RollbackAfter("manager")
  <2>1. s \in Seq(StepRecord) /\ Len(s) = 1 /\ s[1] = Step("report", "rolledBack")
    <3>1. s \in Seq(StepRecord)
      BY RollbackLemma DEF StepRecord
    <3>. QED
      BY <3>1 DEF RollbackAfter
  <2>. HIDE DEF s
  <2>2. /\ \A n \in 1..1 : s[n].op \notin Early \cup RollingBack
        /\ \A l : \A n \in 1..1 : s[n] \notin Replacing(l)
    BY <2>1 DEF Step, Early, RollingBack, Replacing
  <2>3. Ending(s) = "rolledBack"
    BY <2>1 DEF Ending, Step
  <2>4. \E e \in Endings : s[1] = Step("report", e)
    BY <2>1 DEF Endings
  <2>5. WellOrdered(s)
    BY <2>1, <2>2, <2>4 DEF WellOrdered
  <2>. QED
    BY <2>1, <2>2, <2>3, <2>5 DEF Late, Unwritten, s
<1>. QED
  BY <1>1, <1>2 DEF Location

-----------------------------------------------------------------------------
\* A command begins with nothing written.
LEMMA ReadyLemma ==
  ASSUME InstallInvariant', Ready(steps'), steps' # <<>>, outcome' = "running",
         Late(steps') \/ \A l \in Location : active'[l] = found'[l] \/ l \in updated'
  PROVE  ReportInvariant'
  BY DEF Ready, Late, ReportInvariant, ProxyAssured, ArtifactAssured

\* A step is done: what it checked is known, and what it wrote is still to be
\* checked.
LEMMA ContinueLemma ==
  ASSUME ReportInvariant, InstallInvariant', steps # <<>>, Head(steps).op # "report",
         steps' = Tail(steps), UNCHANGED <<trouble, outcome, found, updated>>,
         Head(steps).op \in Early => UNCHANGED active,
         \A l \in Location : active'[l] = active[l] \/ Head(steps) \in Replacing(l),
         \A l \in Location :
           Head(steps) = Checking(Ending(steps), l) => active'[l] = Wanted(Ending(steps)),
         \A a \in Artifact : installed'[a] = installed[a] \/ Head(steps) = Step("put", a),
         \A a \in Artifact : Head(steps) = Step("verify", a) => installed'[a] = "new"
  PROVE  ReportInvariant'
<1>1. /\ WellOrdered(steps) /\ outcome' = "running" /\ Head(steps) = steps[1]
      /\ Len(steps) \in Nat /\ Len(steps) > 1 /\ 1 \in 1..Len(steps)
      /\ Len(Tail(steps)) = Len(steps) - 1
      /\ \A n \in 1..Len(Tail(steps)) : Tail(steps)[n] = steps[n + 1]
  <2>1. WellOrdered(steps) /\ outcome' = "running"
    BY DEF ReportInvariant
  <2>2. /\ steps \in Seq(StepRecord) /\ Len(steps) \in Nat /\ Len(steps) > 0
        /\ Head(steps) = steps[1]
    BY <2>1 DEF WellOrdered
  <2>3. steps[Len(steps)].op = "report"
    BY <2>1 DEF WellOrdered, Step
  <2>4. Len(steps) # 1
    BY <2>2, <2>3
  <2>5. \A n \in 1..(Len(steps) - 1) : Tail(steps)[n] = steps[n + 1]
    BY <2>2
  <2>6. Len(Tail(steps)) = Len(steps) - 1
    BY <2>2
  <2>. QED
    BY <2>1, <2>2, <2>4, <2>5, <2>6
<1>2. /\ WellOrdered(Tail(steps)) /\ Ending(Tail(steps)) = Ending(steps)
      /\ \A W : Unwritten(steps, W) => Unwritten(Tail(steps), W)
      /\ \A c, W : Awaited(steps, c, W) =>
           Awaited(Tail(steps), c, W) \/ (Head(steps) = c /\ Unwritten(Tail(steps), W))
  BY <1>1, RestLemma
<1>3. \A W : Unwritten(steps, W) => Head(steps) \notin W
  BY <1>1 DEF Unwritten
<1>4. steps' # <<>>
  <2>1. Len(steps') # 0
    BY <1>1
  <2>. QED
    BY <2>1
<1>5. ASSUME NEW l \in Location PROVE ProxyAssured(l)'
  <2>1. ProxyAssured(l)
    BY DEF ReportInvariant
  <2>2. CASE Awaited(steps, Checking(Ending(steps), l), Replacing(l))
    BY <1>2, <2>2 DEF ProxyAssured
  <2>3. CASE Unwritten(steps, Replacing(l))
    <3>1. active'[l] = active[l]
      BY <1>3, <2>3
    <3>. QED
      BY <1>2, <2>1, <2>3, <3>1 DEF ProxyAssured
  <2>. QED
    BY <2>1, <2>2, <2>3 DEF ProxyAssured
<1>6. ASSUME NEW a \in Artifact, Ending(steps') = "installed" PROVE ArtifactAssured(a)'
  <2>1. ArtifactAssured(a)
    BY <1>2, <1>6 DEF ReportInvariant
  <2>2. CASE Awaited(steps, Step("verify", a), {Step("put", a)})
    BY <1>2, <2>2 DEF ArtifactAssured
  <2>3. CASE installed[a] = "new" /\ Unwritten(steps, {Step("put", a)})
    <3>1. installed'[a] = "new"
      BY <1>3, <2>3
    <3>. QED
      BY <1>2, <2>3, <3>1 DEF ArtifactAssured
  <2>. QED
    BY <2>1, <2>2, <2>3 DEF ArtifactAssured
<1>7. ASSUME NEW n \in 1..Len(steps'), steps'[n].op \in Early, NEW l \in Location
      PROVE  active'[l] = found'[l] \/ l \in updated'
  <2>1. n + 1 \in 1..Len(steps) /\ 1 < n + 1 /\ steps[n + 1].op \in Early
    BY <1>1, <1>7
  <2>2. Head(steps).op \in Early
    BY <1>1, <2>1 DEF WellOrdered
  <2>3. active[l] = found[l] \/ l \in updated
    BY <2>1 DEF ReportInvariant
  <2>. QED
    BY <2>2, <2>3
<1>. QED
  BY <1>1, <1>2, <1>4, <1>5, <1>6, <1>7 DEF ReportInvariant

\* A step that cannot be done: refused before the first replacement, else the
\* proxies are rolled back, one location whatever becomes of the other.
LEMMA FailsLemma ==
  ASSUME ReportInvariant, InstallInvariant', StepFails
  PROVE  ReportInvariant'
<1>. DEFINE a == Head(steps).at
<1>1. /\ steps # <<>> /\ WellOrdered(steps) /\ outcome = "running"
      /\ Head(steps) = steps[1] /\ Len(steps) \in Nat /\ 1 \in 1..Len(steps)
      /\ Head(steps) \in StepRecord
  <2>1. steps # <<>> /\ WellOrdered(steps) /\ outcome = "running"
    BY DEF StepFails, Do, ReportInvariant
  <2>. QED
    BY <2>1 DEF WellOrdered
<1>2. UNCHANGED <<active, backup, installed, found, updated>>
  BY DEF StepFails, files
<1>3. CASE steps' = <<>> /\ outcome' = "refused" /\ Head(steps).op \in Early
  <2>1. \A l \in Location : active[l] = found[l] \/ l \in updated
    BY <1>1, <1>3 DEF ReportInvariant
  <2>. QED
    BY <1>2, <1>3, <2>1 DEF ReportInvariant, FailedInstallRestores
<1>4. CASE steps' = <<>> /\ outcome' = "failed"
  BY <1>4 DEF ReportInvariant, FailedInstallRestores
<1>5. CASE steps' = RollbackSteps /\ UNCHANGED outcome
  <2>1. RollbackSteps # <<>>
    BY RollbackIsReady DEF Ready, WellOrdered
  <2>. QED
    BY <1>1, <1>5, <2>1, RollbackIsReady, ReadyLemma
<1>6. CASE /\ Head(steps).op \in RollingBack /\ trouble' = trouble \cup {a}
           /\ steps' = RollbackAfter(a) /\ UNCHANGED outcome
  <2>1. a \in Location
    BY <1>1, <1>6 DEF StepRecord, Later, Unlocated, RollingBack
  <2>2. Ending(steps) = "rolledBack"
    BY <1>1, <1>6 DEF WellOrdered
  <2>3. /\ WellOrdered(steps') /\ Ending(steps') = "rolledBack" /\ Late(steps')
        /\ steps' # <<>> /\ Unwritten(steps', Replacing(a))
    BY <1>6, <2>1, RollbackGoesOn
  <2>4. ASSUME NEW l \in Location
        PROVE  ProxyAssured(l)'
    <3>1. CASE l = a
      BY <1>6, <2>3, <3>1 DEF ProxyAssured
    <3>2. CASE l # a /\ a = "game"
      <4>1. l = "manager"
        BY <3>2 DEF Location
      <4>2. Awaited(steps', Checking("rolledBack", l), Replacing(l))
        BY <1>6, <3>2, <4>1, RollbackGoesOn DEF Checking
      <4>. QED
        BY <2>3, <4>2 DEF ProxyAssured
    <3>3. CASE l # a /\ a = "manager"
      <4>1. l = "game"
        BY <3>3 DEF Location
      <4>2. \A n \in 1..Len(steps) : ~(steps[n].op \in RollingBack /\ steps[n].at = "game")
        <5>1. ASSUME NEW n \in 1..Len(steps)
              PROVE  ~(steps[n].op \in RollingBack /\ steps[n].at = "game")
          <6>1. CASE n = 1
            BY <1>1, <3>3, <6>1
          <6>2. CASE 1 < n
            BY <1>1, <1>6, <3>3, <6>2 DEF WellOrdered
          <6>. QED
            BY <6>1, <6>2
        <5>. QED
          BY <5>1
      <4>3. ~Awaited(steps, Checking("rolledBack", l), Replacing(l))
        <5>1. Checking("rolledBack", l).op \in RollingBack /\ Checking("rolledBack", l).at = "game"
          BY <4>1 DEF Checking, Step, RollingBack
        <5>. QED
          BY <4>2, <5>1 DEF Awaited
      <4>4. ProxyAssured(l)
        BY <1>1 DEF ReportInvariant
      <4>5. active[l] = Wanted("rolledBack") \/ l \in updated \/ l \in trouble
        BY <2>2, <4>3, <4>4 DEF ProxyAssured
      <4>6. Unwritten(steps', Replacing(l))
        BY <1>6, <3>3, RollbackGoesOn
      <4>. QED
        BY <1>2, <1>6, <2>3, <4>5, <4>6 DEF ProxyAssured
    <3>. QED
      BY <2>1, <3>1, <3>2, <3>3 DEF Location
  <2>5. outcome' = "running"
    BY <1>1, <1>6
  <2>. QED
    BY <2>3, <2>4, <2>5 DEF ReportInvariant, Late
<1>. QED
  BY <1>3, <1>4, <1>5, <1>6 DEF StepFails, Do, Op, At, Early, RollingBack

\* What is reported is so.
LEMMA ReportIsTrue ==
  ASSUME ReportInvariant, InstallInvariant', Report
  PROVE  ReportInvariant'
<1>. DEFINE e == Head(steps).at
<1>1. /\ steps # <<>> /\ WellOrdered(steps) /\ Head(steps).op = "report"
      /\ Head(steps) = steps[1] /\ Len(steps) \in Nat /\ 1 \in 1..Len(steps)
  <2>1. steps # <<>> /\ WellOrdered(steps) /\ Head(steps).op = "report"
    BY DEF Report, Do, Op, ReportInvariant
  <2>. QED
    BY <2>1 DEF WellOrdered
<1>2. /\ Len(steps) = 1 /\ steps[1] = Step("report", e)
      /\ Ending(steps) = e /\ e \in Endings
  <2>1. Len(steps) = 1
    <3>1. 1 < Len(steps) => steps[1].op # "report"
      BY <1>1, Zenon DEF WellOrdered
    <3>2. ~(1 < Len(steps))
      BY <1>1, <3>1, Zenon
    <3>3. Len(steps) \in Nat /\ Len(steps) > 0
      BY <1>1
    <3>4. \A k \in Nat : k > 0 /\ ~(1 < k) => k = 1
      OBVIOUS
    <3>. QED
      BY <3>2, <3>3, <3>4, Zenon
  <2>2. PICK f \in Endings : steps[1] = Step("report", f)
    BY <1>1, <2>1 DEF WellOrdered
  <2>. QED
    BY <1>1, <2>1, <2>2 DEF Ending, Step
<1>3. \A c, W : Awaited(steps, c, W) => c.op = "report"
  BY <1>1, <1>2 DEF Awaited
<1>4. \A l \in Location : active[l] = Wanted(e) \/ l \in updated \/ (e = "rolledBack" /\ l \in trouble)
  <2>1. \A l : Checking(e, l).op # "report"
    BY DEF Checking, Step
  <2>. QED
    BY <1>1, <1>2, <1>3, <2>1 DEF ReportInvariant, ProxyAssured
<1>5. e = "installed" => installed["host"] = "new"
  <2>1. Step("verify", "host").op # "report" /\ "host" \in Artifact
    BY DEF Step, Artifact
  <2>. QED
    BY <1>1, <1>2, <1>3, <2>1 DEF ReportInvariant, ArtifactAssured
<1>6. \A l \in Location : backup[l] = "mmc"
  BY <1>1, HeadLemma DEF ReportInvariant, InstallInvariant, Touching
<1>7. steps' = <<>> /\ outcome' = e /\ UNCHANGED <<active, backup, installed, trouble, found, updated>>
  BY DEF Report, At, files
<1>8. updated = {} /\ (e = "rolledBack" => trouble = {}) => Mode = IF e = "installed" THEN e ELSE "restored"
  BY <1>2, <1>4, <1>5, <1>6 DEF Mode, Wanted, Endings, Location
<1>9. (e = "rolledBack" => \A l \in Location \ (trouble \cup updated) : active[l] = "mmc")
  BY <1>4 DEF Wanted
<1>10. Mode' = Mode
  BY <1>7 DEF Mode
<1>11. FailedInstallRestores'
  BY <1>2, <1>7, <1>8, <1>9, <1>10 DEF FailedInstallRestores, Endings
<1>. QED
  BY <1>7, <1>11 DEF ReportInvariant

\* The manager writes: the location is its own from now on.
LEMMA UpdateLemma ==
  ASSUME ReportInvariant, InstallInvariant', MmcUpdate
  PROVE  ReportInvariant'
<1>1. /\ UNCHANGED <<backup, installed, steps, trouble, outcome, found>>
      /\ updated' # {} /\ updated \subseteq updated'
      /\ \A l \in Location : active'[l] = active[l] \/ l \in updated'
  BY DEF MmcUpdate, ReportInvariant, InstallInvariant, TypeOK
<1>2. CASE steps = <<>>
  BY <1>1, <1>2 DEF ReportInvariant, FailedInstallRestores
<1>3. CASE steps # <<>>
  <2>1. ASSUME NEW l \in Location, ProxyAssured(l) PROVE ProxyAssured(l)'
    BY <1>1, <2>1 DEF ProxyAssured
  <2>2. ASSUME NEW a \in Artifact, ArtifactAssured(a) PROVE ArtifactAssured(a)'
    BY <1>1, <2>2 DEF ArtifactAssured
  <2>. QED
    BY <1>1, <1>3, <2>1, <2>2 DEF ReportInvariant
<1>. QED
  BY <1>2, <1>3

LEMMA InitReport == Init => ReportInvariant
  BY InitInvariant DEF Init, ReportInvariant, FailedInstallRestores

\* The steps of a command that are done one after the other.
LEMMA StepKeepsReport ==
  ASSUME ReportInvariant, InstallInvariant', EnsureBackup \/ CopyBackup \/ Verify \/ PutNew \/ PutBackupBack
  PROVE  ReportInvariant'
<1>. DEFINE a == Head(steps).at
<1>1. /\ steps # <<>> /\ WellOrdered(steps) /\ outcome = "running"
      /\ Head(steps) = steps[1] /\ Len(steps) \in Nat /\ 1 \in 1..Len(steps)
      /\ Head(steps) \in StepRecord
  <2>1. steps # <<>> /\ WellOrdered(steps) /\ outcome = "running"
    BY DEF EnsureBackup, CopyBackup, Verify, PutNew, PutBackupBack, Do, ReportInvariant
  <2>. QED
    BY <2>1 DEF WellOrdered
<1>2. Head(steps) = Step(Head(steps).op, a)
  BY <1>1 DEF Step, StepRecord, Later
<1>3. \A op, at : Step(op, at).op = op /\ Step(op, at).at = at
  BY DEF Step
<1>4. \A e, l : Checking(e, l).op \in {"verifyProxy", "checkRollback", "verifyBack"}
  BY <1>3 DEF Checking
<1>5. CASE EnsureBackup
  <2>1. /\ Head(steps).op = "backUp" /\ UNCHANGED <<files, trouble, outcome, found, updated>>
    BY <1>5 DEF EnsureBackup, Do, Op
  <2>2. CASE steps' = Tail(steps)
    BY <1>1, <1>3, <1>4, <2>1, <2>2, ContinueLemma DEF files
  <2>3. CASE steps' = <<Step("copyBackup", a), Step("verifyBackup", a)>> \o Tail(steps)
    <3>. DEFINE v == <<Step("copyBackup", a), Step("verifyBackup", a)>>
                u == Tail(steps)
    <3>1. /\ WellOrdered(u) /\ Ending(u) = Ending(steps)
          /\ \A W : Unwritten(steps, W) => Unwritten(u, W)
          /\ \A c, W : Awaited(steps, c, W) => Awaited(u, c, W) \/ Head(steps) = c
      <4>1. steps[Len(steps)].op = "report"
        BY <1>1, <1>3 DEF WellOrdered
      <4>2. Len(steps) > 1
        BY <1>1, <2>1, <4>1
      <4>. QED
        BY <1>1, <4>2, RestLemma
    <3>2. v \in Seq(StepRecord) /\ Len(v) = 2 /\ v[1] = Step("copyBackup", a) /\ v[2] = Step("verifyBackup", a)
      <4>1. a \in Location
        BY <1>1, <2>1 DEF StepRecord, Later, Unlocated
      <4>2. Step("copyBackup", a) \in StepRecord /\ Step("verifyBackup", a) \in StepRecord
        BY <4>1 DEF Step, StepRecord, Later, Located
      <4>. QED
        BY <4>2
    <3>. HIDE DEF v, u
    <3>3. v[1].op \in Early /\ v[2].op \in Early
      BY <1>3, <3>2 DEF Early
    <3>4. /\ WellOrdered(v \o u) /\ Ending(v \o u) = Ending(steps)
          /\ \A W : Unwritten(u, W) /\ v[1] \notin W /\ v[2] \notin W => Unwritten(v \o u, W)
          /\ \A c, W : Awaited(u, c, W) => Awaited(v \o u, c, W)
      BY <3>1, <3>2, <3>3, PushLemma
    <3>5. steps' = v \o u /\ steps' # <<>>
      <4>1. steps' = v \o u
        BY <2>3 DEF v, u
      <4>. QED
        BY <3>4, <4>1 DEF WellOrdered
    <3>6. ASSUME NEW l \in Location PROVE ProxyAssured(l)'
      <4>1. Head(steps) # Checking(Ending(steps), l) /\ v[1] \notin Replacing(l) /\ v[2] \notin Replacing(l)
        BY <1>3, <1>4, <2>1, <3>2 DEF Replacing
      <4>2. ProxyAssured(l)
        BY <1>1 DEF ReportInvariant
      <4>. QED
        BY <2>1, <3>1, <3>4, <3>5, <4>1, <4>2 DEF ProxyAssured, files
    <3>7. ASSUME NEW b \in Artifact, Ending(steps) = "installed" PROVE ArtifactAssured(b)'
      <4>1. /\ Head(steps) # Step("verify", b)
            /\ v[1] \notin {Step("put", b)} /\ v[2] \notin {Step("put", b)}
        BY <1>3, <2>1, <3>2
      <4>2. ArtifactAssured(b)
        BY <1>1, <3>7 DEF ReportInvariant
      <4>. QED
        BY <2>1, <3>1, <3>4, <3>5, <4>1, <4>2 DEF ArtifactAssured, files
    <3>8. \A l \in Location : active'[l] = found'[l] \/ l \in updated'
      BY <1>1, <2>1 DEF ReportInvariant, Early, files
    <3>. QED
      BY <1>1, <2>1, <3>4, <3>5, <3>6, <3>7, <3>8 DEF ReportInvariant
  <2>. QED
    BY <1>5, <2>2, <2>3 DEF EnsureBackup, At
<1>6. CASE CopyBackup
  <2>1. /\ Head(steps).op = "copyBackup" /\ steps' = Tail(steps)
        /\ UNCHANGED <<active, installed, trouble, outcome, found, updated>>
    BY <1>6 DEF CopyBackup, Do, Op, Continue
  <2>. QED
    BY <1>1, <1>3, <1>4, <2>1, ContinueLemma
<1>7. CASE Verify
  <2>1. /\ Head(steps).op \in {"recognize", "verifyBackup", "verifyProxy", "verify", "verifyBack", "checkRollback"}
        /\ steps' = Tail(steps) /\ UNCHANGED <<active, installed, trouble, outcome, found, updated>>
    BY <1>7 DEF Verify, Do, Op, Continue, files
  <2>2. ASSUME NEW l \in Location, Head(steps) = Checking(Ending(steps), l)
        PROVE  active'[l] = Wanted(Ending(steps))
    BY <1>3, <1>7, <2>1, <2>2 DEF Verify, AsExpected, Op, At, Checking, Wanted
  <2>3. ASSUME NEW b \in Artifact, Head(steps) = Step("verify", b)
        PROVE  installed'[b] = "new"
    BY <1>3, <1>7, <2>1, <2>3 DEF Verify, AsExpected, Op, At
  <2>. QED
    BY <1>1, <2>1, <2>2, <2>3, ContinueLemma
<1>8. CASE PutNew \/ PutBackupBack
  <2>1. /\ Head(steps).op \in {"putProxy", "put", "rollBack", "putBack"}
        /\ steps' = Tail(steps) /\ UNCHANGED <<trouble, outcome, found, updated>>
        /\ \/ /\ Head(steps) \in Replacing(a) /\ UNCHANGED installed
              /\ \E c : active' = [active EXCEPT ![a] = c]
           \/ /\ Head(steps) = Step("put", a) /\ UNCHANGED active
              /\ \E c : installed' = [installed EXCEPT ![a] = c]
    BY <1>2, <1>8 DEF PutNew, PutBackupBack, Do, Op, At, Copied, Continue, Replacing
  <2>2. \A l \in Location : active'[l] = active[l] \/ Head(steps) \in Replacing(l)
    BY <2>1 DEF ReportInvariant, InstallInvariant, TypeOK
  <2>3. \A b \in Artifact : installed'[b] = installed[b] \/ Head(steps) = Step("put", b)
    BY <2>1 DEF ReportInvariant, InstallInvariant, TypeOK
  <2>. QED
    BY <1>1, <1>3, <1>4, <2>1, <2>2, <2>3, ContinueLemma DEF Early
<1>. QED
  BY <1>5, <1>6, <1>7, <1>8

LEMMA NextReport == ReportInvariant /\ [Next]_vars => ReportInvariant'
<1>. SUFFICES ASSUME ReportInvariant, [Next]_vars PROVE ReportInvariant'
  OBVIOUS
<1>1. InstallInvariant'
  BY NextInvariant DEF ReportInvariant
<1>2. CASE Install \/ Restore
  <2>1. /\ found' = active /\ active' = active /\ backup' = backup /\ trouble' = {}
        /\ \/ steps' \in {InstallSteps, RestoreSteps} /\ outcome' = "running"
           \/ steps' = <<>> /\ outcome' = "refused"
    BY <1>2 DEF Install, Restore, Begin, files
  <2>2. CASE steps' \in {InstallSteps, RestoreSteps} /\ outcome' = "running"
    <3>1. Ready(steps') /\ steps' # <<>>
      <4>1. Ready(InstallSteps) /\ Ready(RestoreSteps)
        BY InstallIsReady, RestoreIsReady
      <4>2. Ready(steps')
        BY <2>2, <4>1
      <4>. QED
        BY <4>2 DEF Ready, WellOrdered
    <3>. QED
      BY <1>1, <2>1, <2>2, <3>1, ReadyLemma
  <2>3. CASE steps' = <<>> /\ outcome' = "refused"
    BY <1>1, <2>1, <2>3 DEF ReportInvariant, FailedInstallRestores
  <2>. QED
    BY <2>1, <2>2, <2>3
<1>3. CASE EnsureBackup \/ CopyBackup \/ Verify \/ PutNew \/ PutBackupBack
  BY <1>1, <1>3, StepKeepsReport
<1>4. CASE StepFails
  BY <1>1, <1>4, FailsLemma
<1>5. CASE Report
  BY <1>1, <1>5, ReportIsTrue
<1>6. CASE Crash
  BY <1>1, <1>6 DEF Crash, ReportInvariant, FailedInstallRestores
<1>7. CASE MmcUpdate
  BY <1>1, <1>7, UpdateLemma
<1>8. CASE Done \/ UNCHANGED vars
  <2>1. /\ UNCHANGED <<active, backup, installed, steps, trouble, outcome, found, updated>>
    BY <1>8 DEF Done, vars, files
  <2>2. \A l : ProxyAssured(l)' = ProxyAssured(l)
    BY <2>1 DEF ProxyAssured
  <2>3. \A b : ArtifactAssured(b)' = ArtifactAssured(b)
    BY <2>1 DEF ArtifactAssured
  <2>4. FailedInstallRestores' = FailedInstallRestores
    BY <2>1 DEF FailedInstallRestores, Mode
  <2>. QED
    BY <1>1, <2>1, <2>2, <2>3, <2>4 DEF ReportInvariant
<1>. QED
  BY <1>2, <1>3, <1>4, <1>5, <1>6, <1>7, <1>8 DEF Next, Command

\* An install that failed and was rolled back without errors, and a restore,
\* leave MMC's proxies and backups in both locations; a complete install its own
\* files; a refused command the proxies it found.
THEOREM CommandsReportTruly == Spec => []FailedInstallRestores
<1>1. ReportInvariant => FailedInstallRestores
  <2>1. CASE steps = <<>>
    BY <2>1 DEF ReportInvariant
  <2>2. CASE steps # <<>>
    BY <2>2 DEF ReportInvariant, FailedInstallRestores
  <2>. QED
    BY <2>1, <2>2
<1>. QED
  BY <1>1, InitReport, NextReport, PTL DEF Spec

-----------------------------------------------------------------------------
(* The pipe: what became of a call.  While it waits for the pipe nothing    *)
(* was done for it; once it has an outcome it is connected to nothing       *)
(* again.  A response is on its way only when the request has been handled  *)
(* or was a bad frame, and the host hangs up on a client that still listens *)
(* only when there is nothing it could send.                                *)

Serving == {"reading", "handling", "writing", "flushing"}
Waiting == {"idle", "connecting", "retry"}
Unanswered == {"INVALID_RESPONSE", "HOST_NOT_READY"}

PipeType ==
  /\ host \in Serving \cup {"closed", "listening", "exited"}
  /\ peer \in Calls \cup {NoCall}
  /\ call \in [Calls -> Waiting \cup Unanswered
                         \cup {"connected", "answered", "INVALID_REQUEST", "PIPE_TIMEOUT", "left"}]
  /\ kind \in [Calls -> {"fits", "oversized", "malformed"}]
  /\ sent \in [Calls -> Nat] /\ written \in [Calls -> Nat] /\ got \in [Calls -> Nat]
  /\ answer \in [Calls -> {"none", "fits", "oversized"}]
  /\ executed \in [Calls -> {0, 1}]

\* The handler has run as often as an answer to the call says.
Handled(c) == executed[c] = IF kind[c] = "malformed" THEN 0 ELSE 1

\* What the instance is doing for the call it is connected to.
Attended(c) ==
  peer = c =>
    /\ host \in {"reading", "handling"} => executed[c] = 0 /\ written[c] = 0
    /\ host = "handling" => kind[c] = "fits"
    /\ host \in {"writing", "flushing"} /\ call[c] = "connected" => Handled(c)
    /\ host = "flushing" /\ call[c] = "connected" =>
         answer[c] = "oversized" \/ written[c] = Pieces

CallInvariant(c) ==
  /\ got[c] <= written[c]
  /\ executed[c] = 1 => kind[c] = "fits"
  /\ kind[c] = "oversized" => sent[c] = 0
  /\ call[c] \in Waiting =>
       peer # c /\ executed[c] = 0 /\ sent[c] = 0 /\ written[c] = 0
  /\ call[c] = "connected" =>
       /\ got[c] < Pieces
       /\ written[c] > 0 => Handled(c)
       /\ peer # c /\ executed[c] = 1 => answer[c] = "oversized" \/ host = "exited"
  /\ call[c] = "answered" => got[c] > 0 /\ Handled(c)
  /\ call[c] = "INVALID_REQUEST" => kind[c] = "oversized"
  /\ call[c] \in Unanswered =>
       peer # c /\ (executed[c] = 1 => answer[c] = "oversized" \/ host = "exited")
  /\ Attended(c)

PipeInvariant ==
  which = "pipe" =>
    /\ PipeType
    /\ host \in Serving <=> peer # NoCall
    /\ \A c \in Calls : CallInvariant(c)

LEMMA InitPipe == CommandsInit => PipeInvariant
<1>. SUFFICES ASSUME CommandsInit, which = "pipe"
     PROVE  /\ PipeType
            /\ host \in Serving <=> peer # NoCall
            /\ \A c \in Calls : CallInvariant(c)
  BY DEF PipeInvariant
<1>1. Pipe!Init
  BY DEF CommandsInit
<1>2. Pieces \in Nat \ {0, 1} /\ NoCall \notin Calls
  BY CommandsAssumption DEF Pipe!PipeAssumption
<1>. QED
  BY <1>1, <1>2
  DEF Pipe!Init, PipeType, Serving, Waiting, CallInvariant, Attended, Unanswered, Handled

\* A step of the pipe keeps what is known of one call.
LEMMA PipeStepLemma ==
  ASSUME which = "pipe", PipeInvariant, Pipe!Next
  PROVE  /\ PipeType'
         /\ (host \in Serving <=> peer # NoCall)'
         /\ \A c \in Calls : CallInvariant(c)'
<1>1. Pieces \in Nat \ {0, 1} /\ NoCall \notin Calls
  BY CommandsAssumption DEF Pipe!PipeAssumption
<1>2. /\ PipeType /\ (host \in Serving <=> peer # NoCall)
      /\ \A c \in Calls : CallInvariant(c)
  BY DEF PipeInvariant
<1>3. ASSUME NEW d \in Calls, Pipe!ClientStep(d)
      PROVE  PipeType' /\ (host \in Serving <=> peer # NoCall)'
  BY <1>1, <1>2, <1>3
  DEF PipeType, Serving, Waiting, Unanswered, Pipe!ClientStep, Pipe!Call, Pipe!NotThere,
      Pipe!Retry, Pipe!Refused, Pipe!Connect, Pipe!TooLarge, Pipe!Send, Pipe!Receive,
      Pipe!HungUp, Pipe!Timeout, Pipe!Leave, Pipe!Finish, Pipe!serveVars
<1>4. ASSUME NEW d \in Calls, NEW c \in Calls, Pipe!ClientStep(d)
      PROVE  CallInvariant(c)'
  <2>1. CallInvariant(c) /\ CallInvariant(d)
    BY <1>2
  <2>2. CASE Pipe!Connect(d)
    BY <1>1, <1>2, <2>1, <2>2
    DEF Pipe!Connect, Pipe!Finish, CallInvariant, Attended, Handled, PipeType, Serving, Waiting,
        Unanswered
  <2>3. CASE Pipe!Send(d)
    BY <1>1, <1>2, <2>1, <2>3
    DEF Pipe!Send, Pipe!serveVars, CallInvariant, Attended, Handled, PipeType, Waiting, Unanswered
  <2>4. CASE Pipe!Receive(d)
    <3>1. /\ UNCHANGED <<host, peer, written, answer, executed, kind, sent>>
          /\ call[d] = "connected" /\ got[d] < written[d] /\ got[d] \in Nat
          /\ got' = [got EXCEPT ![d] = @ + 1]
          /\ \/ call' = [call EXCEPT ![d] = "answered"]
             \/ call' = call /\ got[d] + 1 # Pieces
      BY <1>2, <2>4
      DEF Pipe!Receive, Pipe!Decoded, Pipe!Finish, Pipe!serveVars, PipeType
    <3>2. Handled(c)' <=> Handled(c)
      BY <3>1 DEF Handled
    <3>3. Attended(c) => Attended(c)'
      BY <1>2, <3>1, <3>2 DEF Attended, PipeType
    <3>4. written[d] > 0 /\ written[d] \in Nat /\ got[d] < Pieces /\ Handled(d)
      BY <1>2, <2>1, <3>1 DEF CallInvariant, PipeType
    <3>5. CASE c # d
      <4>1. call'[c] = call[c] /\ got'[c] = got[c]
        BY <1>2, <3>1, <3>5 DEF PipeType
      <4>. QED
        BY <2>1, <3>1, <3>2, <3>3, <4>1 DEF CallInvariant
    <3>6. CASE c = d
      <4>1. got'[d] = got[d] + 1 /\ got'[d] > 0 /\ got'[d] <= written'[d]
        BY <1>2, <3>1, <3>4 DEF PipeType
      <4>2. call'[d] = "answered" \/ (call'[d] = "connected" /\ got'[d] < Pieces)
        BY <1>1, <1>2, <3>1, <3>4, <4>1 DEF PipeType
      <4>3. "answered" \notin Waiting \cup Unanswered /\ "connected" \notin Waiting \cup Unanswered
        BY DEF Waiting, Unanswered
      <4>. QED
        BY <2>1, <3>1, <3>2, <3>3, <3>4, <3>6, <4>1, <4>2, <4>3 DEF CallInvariant
    <3>. QED
      BY <3>5, <3>6
  <2>5. CASE Pipe!Call(d) \/ Pipe!NotThere(d) \/ Pipe!Retry(d)
    BY <1>1, <1>2, <2>1, <2>5
    DEF Pipe!Call, Pipe!NotThere, Pipe!Retry, Pipe!Finish, Pipe!serveVars, CallInvariant, Attended,
        Handled, PipeType, Waiting, Unanswered
  <2>6. CASE \/ Pipe!Refused(d) \/ Pipe!TooLarge(d) \/ Pipe!HungUp(d)
            \/ Pipe!Timeout(d) \/ Pipe!Leave(d)
    <3>1. /\ UNCHANGED <<host, peer, written, answer, executed, kind, sent, got>>
          /\ \E o \in Unanswered \cup {"INVALID_REQUEST", "PIPE_TIMEOUT", "left"} :
               call' = [call EXCEPT ![d] = o]
      BY <2>6
      DEF Pipe!Refused, Pipe!TooLarge, Pipe!HungUp, Pipe!Timeout, Pipe!Leave, Pipe!Finish, Pipe!serveVars,
          Unanswered
    <3>2. /\ call'[d] \in Unanswered =>
               peer # d /\ (executed[d] = 1 => answer[d] = "oversized" \/ host = "exited")
          /\ call'[d] = "INVALID_REQUEST" => kind[d] = "oversized"
      BY <1>2, <2>1, <2>6
      DEF Pipe!Refused, Pipe!TooLarge, Pipe!HungUp, Pipe!Timeout, Pipe!Leave, Pipe!Finish,
          CallInvariant, PipeType, Waiting, Unanswered
    <3>3. Handled(c)' <=> Handled(c)
      BY <3>1 DEF Handled
    <3>4. call'[c] # "connected" \/ call'[c] = call[c]
      BY <1>2, <3>1 DEF PipeType, Unanswered
    <3>5. Attended(c) => Attended(c)'
      BY <3>1, <3>3, <3>4 DEF Attended
    <3>6. CASE c # d
      <4>1. call'[c] = call[c]
        BY <1>2, <3>1, <3>6 DEF PipeType
      <4>. QED
        BY <2>1, <3>1, <3>3, <3>5, <4>1 DEF CallInvariant
    <3>7. CASE c = d
      <4>1. call'[d] \in Unanswered \cup {"INVALID_REQUEST", "PIPE_TIMEOUT", "left"}
        BY <1>2, <3>1 DEF PipeType
      <4>2. call'[d] \notin Waiting \cup {"connected", "answered"}
        BY <4>1 DEF Waiting, Unanswered
      <4>. QED
        BY <2>1, <3>1, <3>2, <3>5, <3>7, <4>2 DEF CallInvariant
    <3>. QED
      BY <3>6, <3>7
  <2>. QED
    BY <1>4, <2>2, <2>3, <2>4, <2>5, <2>6 DEF Pipe!ClientStep
<1>5. ASSUME Pipe!Serve \/ Pipe!HostExits
      PROVE  PipeType' /\ (host \in Serving <=> peer # NoCall)'
  <2>1. peer # NoCall => peer \in Calls
    BY <1>2 DEF PipeType
  <2>2. host \in Serving => peer \in Calls
    BY <1>2, <2>1
  <2>3. ASSUME host = "handling"
        PROVE  executed[peer] = 0
    BY <1>2, <2>2, <2>3 DEF CallInvariant, Attended, Serving
  <2>4. CASE Pipe!CreateInstance \/ Pipe!ReadRequest \/ Pipe!HostExits
    BY <1>1, <1>2, <2>2, <2>4
    DEF PipeType, Serving, Pipe!HostExits, Pipe!CreateInstance, Pipe!ReadRequest
  <2>5. CASE Pipe!HandleRequest
    BY <1>1, <1>2, <2>2, <2>3, <2>5 DEF PipeType, Serving, Pipe!HandleRequest
  <2>6. CASE Pipe!WriteResponse
    <3>1. written' \in [Calls -> Nat]
      BY <1>2, <2>2, <2>6 DEF PipeType, Serving, Pipe!WriteResponse, Pipe!WritePiece
    <3>. QED
      BY <1>1, <1>2, <2>2, <2>6, <3>1
      DEF PipeType, Serving, Pipe!WriteResponse, Pipe!WritePiece
  <2>7. CASE Pipe!FlushAndHangUp
    BY <1>1, <1>2, <2>2, <2>7 DEF PipeType, Serving, Pipe!FlushAndHangUp
  <2>. QED
    BY <1>5, <2>4, <2>5, <2>6, <2>7 DEF Pipe!Serve
<1>6. ASSUME NEW c \in Calls, Pipe!Serve \/ Pipe!HostExits
      PROVE  CallInvariant(c)'
  <2>1. CallInvariant(c) /\ peer \in Calls \cup {NoCall}
    BY <1>2 DEF PipeType
  <2>2. host \in Serving => peer \in Calls
    BY <1>2, <2>1
  <2>3. Pipe!Closed(c) => call[c] # "connected" /\ call[c] \notin Waiting
    BY DEF Pipe!Closed, Pipe!Settled, Pipe!Live, Waiting
  <2>4. CASE Pipe!CreateInstance \/ Pipe!HostExits
    BY <1>1, <1>2, <2>1, <2>4
    DEF Pipe!CreateInstance, Pipe!HostExits, CallInvariant, Attended, Handled, PipeType, Serving
  <2>5. CASE Pipe!ReadRequest
    BY <1>1, <1>2, <2>1, <2>2, <2>3, <2>5
    DEF Pipe!ReadRequest, Pipe!Foreign, Pipe!HasRead, Pipe!ReadEnds, CallInvariant, Attended, Handled, PipeType,
        Serving, Unanswered
  <2>6. CASE Pipe!HandleRequest
    <3>1. /\ host = "handling" /\ host' = "writing" /\ peer \in Calls
          /\ UNCHANGED <<peer, written, call, kind, sent, got>>
          /\ \A e \in Calls : e # peer => executed'[e] = executed[e] /\ answer'[e] = answer[e]
          /\ executed'[peer] = executed[peer] + 1
      BY <1>2, <2>2, <2>6 DEF Pipe!HandleRequest, PipeType, Serving
    <3>2. CASE c # peer
      BY <2>1, <3>1, <3>2 DEF CallInvariant, Attended, Handled
    <3>3. CASE c = peer
      <4>1. /\ executed[c] = 0 /\ written[c] = 0 /\ kind[c] = "fits" /\ call[c] \notin Unanswered
            /\ call[c] \notin Waiting
        BY <2>1, <3>1, <3>3 DEF CallInvariant, Attended
      <4>2. executed'[c] = 1 /\ Handled(c)'
        BY <3>1, <3>3, <4>1 DEF Handled
      <4>3. call[c] # "answered"
        BY <1>2, <2>1, <4>1 DEF CallInvariant, PipeType
      <4>. QED
        BY <2>1, <3>1, <3>3, <4>1, <4>2, <4>3 DEF CallInvariant, Attended
    <3>. QED
      BY <3>2, <3>3
  <2>7. CASE Pipe!WriteResponse
    <3>1. /\ host = "writing" /\ peer \in Calls /\ UNCHANGED <<peer, answer, executed, call, kind, sent, got>>
          /\ \/ /\ host' = "flushing" /\ UNCHANGED written
                /\ answer[peer] = "oversized" \/ Pipe!Closed(peer) \/ written[peer] = Pieces
             \/ /\ UNCHANGED host /\ ~Pipe!Closed(peer)
                /\ written' = [written EXCEPT ![peer] = @ + 1]
      BY <1>2, <2>2, <2>7 DEF Pipe!WriteResponse, Pipe!WritePiece, Serving
    <3>2. Handled(c)' <=> Handled(c)
      BY <3>1 DEF Handled
    <3>3. Attended(c)'
      BY <1>2, <2>1, <2>3, <3>1, <3>2 DEF CallInvariant, Attended, PipeType
    <3>4. CASE written'[c] = written[c]
      BY <2>1, <3>1, <3>2, <3>3, <3>4 DEF CallInvariant
    <3>5. CASE written'[c] # written[c]
      <4>1. c = peer /\ written'[c] = written[c] + 1 /\ written[c] \in Nat /\ got[c] \in Nat
        BY <1>2, <3>1, <3>5 DEF PipeType
      <4>2. call[c] \notin Waiting /\ (call[c] = "connected" => Handled(c))
        BY <2>1, <3>1, <4>1 DEF CallInvariant, Attended
      <4>3. got'[c] <= written'[c]
        BY <2>1, <3>1, <4>1 DEF CallInvariant
      <4>. QED
        BY <2>1, <3>1, <3>2, <3>3, <4>1, <4>2, <4>3 DEF CallInvariant
    <3>. QED
      BY <3>4, <3>5
  <2>8. CASE Pipe!FlushAndHangUp
    <3>1. /\ host = "flushing" /\ peer \in Calls /\ host' = "closed" /\ peer' = NoCall
          /\ UNCHANGED <<answer, executed, call, kind, sent, got>>
          /\ got[peer] = written[peer] \/ Pipe!Closed(peer)
          /\ written' = [written EXCEPT ![peer] = got[peer]]
      BY <1>2, <2>2, <2>8 DEF Pipe!FlushAndHangUp, Serving
    <3>2. /\ Handled(c)' <=> Handled(c)
          /\ peer' # c /\ Attended(c)'
      BY <1>1, <3>1 DEF Handled, Attended
    <3>3. CASE c # peer
      <4>1. written'[c] = written[c]
        BY <1>2, <3>1, <3>3 DEF PipeType
      <4>. QED
        BY <2>1, <3>1, <3>2, <3>3, <4>1 DEF CallInvariant
    <3>4. CASE c = peer
      <4>1. /\ written'[c] = got[c] /\ got[c] <= written[c]
            /\ written[c] \in Nat /\ got[c] \in Nat
        BY <1>2, <2>1, <3>1, <3>4 DEF PipeType, CallInvariant
      <4>2. call[c] \notin Waiting \cup Unanswered
        BY <2>1, <3>4 DEF CallInvariant
      <4>3. call[c] = "connected" => answer[c] = "oversized"
        <5>1. SUFFICES ASSUME call[c] = "connected", written[c] = Pieces PROVE FALSE
          BY <2>1, <3>1, <3>4 DEF CallInvariant, Attended
        <5>2. got[c] = written[c] /\ got[c] < Pieces
          BY <2>1, <2>3, <3>1, <3>4, <5>1 DEF CallInvariant
        <5>. QED
          BY <1>1, <5>1, <5>2
      <4>4. written'[c] > 0 => written[c] > 0
        BY <4>1
      <4>5. got'[c] <= written'[c]
        BY <3>1, <4>1
      <4>. QED
        BY <2>1, <3>1, <3>2, <4>2, <4>3, <4>4, <4>5 DEF CallInvariant
    <3>. QED
      BY <3>3, <3>4
  <2>. QED
    BY <1>6, <2>4, <2>5, <2>6, <2>7, <2>8 DEF Pipe!Serve
<1>7. CASE Pipe!Quiet
  BY <1>2, <1>7
  DEF Pipe!Quiet, Pipe!vars, CallInvariant, Attended, Handled, PipeType
<1>. QED
  BY <1>3, <1>4, <1>5, <1>6, <1>7 DEF Pipe!Next

LEMMA NextPipe == PipeInvariant /\ [CommandsNext]_commandVars => PipeInvariant'
<1>1. CASE which # "pipe"
  BY <1>1 DEF PipeInvariant, CommandsNext, ScanStep, PipeStep, commandVars
<1>2. ASSUME PipeInvariant, which = "pipe", UNCHANGED commandVars PROVE PipeInvariant'
  BY <1>2 DEF PipeInvariant, commandVars, pipeOnly, CallInvariant, Attended, Handled, PipeType
<1>3. ASSUME PipeInvariant, which = "pipe", CommandsNext PROVE PipeInvariant'
  <2>1. Pipe!Next
    BY <1>3 DEF CommandsNext, ScanStep
  <2>. QED
    BY <1>3, <2>1, PipeStepLemma DEF PipeInvariant
<1>. QED
  BY <1>1, <1>2, <1>3

\* For any number of calls, a request runs at most once and its client is told
\* what became of it.
THEOREM CallsAreToldTheTruth == CommandsSpec => []OutcomesAreTrue
<1>1. PipeInvariant => OutcomesAreTrue
  <2>1. SUFFICES ASSUME PipeInvariant, which = "pipe", NEW c \in Calls
        PROVE  /\ executed[c] <= 1
               /\ call[c] = "answered" => executed[c] = IF kind[c] = "malformed" THEN 0 ELSE 1
               /\ call[c] = "INVALID_REQUEST" => executed[c] = 0
               /\ call[c] \in {"INVALID_RESPONSE", "HOST_NOT_READY"} /\ executed[c] = 1
                    => answer[c] = "oversized" \/ host = "exited"
    BY DEF OutcomesAreTrue, Pipe!OutcomesAreTrue, Pipe!Foreign
  <2>2. executed[c] \in {0, 1} /\ CallInvariant(c)
    BY <2>1 DEF PipeInvariant, PipeType
  <2>3. executed[c] <= 1
    BY <2>2
  <2>. QED
    BY <2>2, <2>3 DEF CallInvariant, Handled, Unanswered
<1>. QED
  BY <1>1, InitPipe, NextPipe, PTL DEF CommandsSpec

-----------------------------------------------------------------------------
(* The replacement of a class: the operations are the records to be edited, *)
(* each once, and batch b is made of those from (b - 1) * WriteBatch + 1 to *)
(* b * WriteBatch.  After k batches, leaving aside what the game stored and *)
(* what failed half way, the records of these batches hold their edits and  *)
(* the others what was read; the rollback takes k down to zero.             *)

\* The instance counts the members of a set as this module does.
LEMMA ClassCardinality == ASSUME NEW S PROVE Class!Cardinality(S) = Cardinality(S)
BY DEF Class!Cardinality, Cardinality

\* The members of a set of records can be counted off in order.
LEMMA NthLemma ==
  ASSUME NEW N \in Nat, NEW S \in SUBSET (1..N)
  PROVE  /\ Cardinality(S) \in Nat
         /\ \A n \in 1..Cardinality(S) : Class!Nth(S, n) \in S
         /\ \A m, n \in 1..Cardinality(S) : Class!Nth(S, m) = Class!Nth(S, n) => m = n
         /\ \A r \in S : \E n \in 1..Cardinality(S) : Class!Nth(S, n) = r
<1>. DEFINE Up(r) == {q \in S : q <= r}
            f == [r \in S |-> Cardinality(Up(r))]
            K == 1..Cardinality(S)
<1>1. IsFiniteSet(S) /\ Cardinality(S) \in Nat
  <2>1. IsFiniteSet(1..N)
    BY FS_Interval
  <2>. QED
    BY <2>1, FS_Subset, FS_CardinalityType
<1>2. IsFiniteSet(K) /\ Cardinality(K) = Cardinality(S)
  <2>1. 1 \in Int /\ Cardinality(S) \in Int /\ Cardinality(S) \in Nat
    BY <1>1
  <2>2. IsFiniteSet(K) /\ Cardinality(K) = IF 1 > Cardinality(S) THEN 0 ELSE Cardinality(S) - 1 + 1
    BY <2>1, FS_Interval
  <2>. QED
    BY <1>1, <2>2
<1>3. ASSUME NEW r \in S
      PROVE  IsFiniteSet(Up(r)) /\ Cardinality(Up(r)) \in K
  <2>1. Up(r) \in SUBSET S /\ r \in Up(r)
    OBVIOUS
  <2>2. IsFiniteSet(Up(r)) /\ Cardinality(Up(r)) <= Cardinality(S) /\ Cardinality(Up(r)) \in Nat
    BY <1>1, <2>1, FS_Subset, FS_CardinalityType
  <2>3. Cardinality(Up(r)) # 0
    BY <2>1, <2>2, FS_EmptySet
  <2>. QED
    BY <1>1, <2>2, <2>3
<1>4. ASSUME NEW r \in S, NEW p \in S, Cardinality(Up(r)) = Cardinality(Up(p))
      PROVE  r = p
  <2>1. ASSUME NEW x \in S, NEW y \in S, x <= y, Cardinality(Up(x)) = Cardinality(Up(y))
        PROVE  x = y
    <3>1. Up(x) \in SUBSET Up(y) /\ y \in Up(y)
      <4>1. \A z \in S : z \in Nat
        OBVIOUS
      <4>2. \A z \in S : z <= x => z <= y
        BY <2>1, <4>1
      <4>3. y <= y
        BY <4>1
      <4>. QED
        BY <4>2, <4>3, Zenon
    <3>2. IsFiniteSet(Up(y)) /\ Cardinality(Up(x)) = Cardinality(Up(y))
      BY <1>3, <2>1
    <3>3. Up(x) = Up(y)
      BY <3>1, <3>2, FS_Subset
    <3>4. y <= x
      BY <3>1, <3>3
    <3>. QED
      BY <2>1, <3>4
  <2>2. r <= p \/ p <= r
    OBVIOUS
  <2>. QED
    BY <1>4, <2>1, <2>2
<1>. HIDE DEF Up
<1>5. f \in [S -> K] /\ \A r \in S : f[r] = Cardinality(Up(r))
  BY <1>3
<1>. HIDE DEF f, K
<1>6. f \in Injection(S, K)
  BY <1>4, <1>5 DEF Injection, IsInjective
<1>7. f \in Surjection(S, K)
  BY <1>2, <1>6, FS_Injection
<1>8. \A n \in K : \E r \in S : f[r] = n
  BY <1>7 DEF Surjection
<1>9. \A n \in K : Class!Nth(S, n) \in S /\ f[Class!Nth(S, n)] = n
  <2>1. ASSUME NEW n \in K PROVE Class!Nth(S, n) \in S /\ Cardinality(Up(Class!Nth(S, n))) = n
    BY <1>5, <1>8, ClassCardinality DEF Class!Nth, Up
  <2>. QED
    BY <1>5, <2>1
<1>10. ASSUME NEW r \in S PROVE Class!Nth(S, f[r]) = r
  <2>1. f[r] \in K
    BY <1>5
  <2>2. Class!Nth(S, f[r]) \in S /\ f[Class!Nth(S, f[r])] = f[r]
    BY <1>9, <2>1
  <2>. QED
    BY <1>4, <1>5, <2>2
<1>11. /\ \A n \in K : Class!Nth(S, n) \in S
       /\ \A m, n \in K : Class!Nth(S, m) = Class!Nth(S, n) => m = n
       /\ \A r \in S : \E n \in K : Class!Nth(S, n) = r
  BY <1>5, <1>9, <1>10
<1>. QED
  BY <1>1, <1>11 DEF K

-----------------------------------------------------------------------------
\* What records can hold.
Given == {s.value : s \in RecordStores} \cup UNION {{m[r] : r \in Class!Record} : m \in Initial}
ClassContent == Given \cup {Class!ApplyMask(c) : c \in Given}
Edit == [record : Class!Record, expected : ClassContent, replacement : ClassContent]

LEMMA MaskLemma == \A c \in ClassContent : Class!ApplyMask(c) \in ClassContent
<1>1. ASSUME NEW c PROVE Class!ApplyMask(Class!ApplyMask(c)) = Class!ApplyMask(c)
  BY DEF Class!ApplyMask
<1>. QED
  BY <1>1 DEF ClassContent

Distinct(ops) == \A m, n \in 1..Len(ops) : ops[m].record = ops[n].record => m = n

SnapshotsType == snapshots \in Seq(ClassContent) /\ Len(snapshots) <= Records

\* makeOperations: each record to be edited, once.
LEMMA OperationsLemma ==
  ASSUME SnapshotsType
  PROVE  /\ Class!Operations \in Seq(Edit) /\ Distinct(Class!Operations)
         /\ \A n \in 1..Len(Class!Operations) :
              LET o == Class!Operations[n]
              IN  /\ o.record \in Class!ToEdit
                  /\ o.expected = snapshots[o.record]
                  /\ o.replacement = Class!ApplyMask(snapshots[o.record])
         /\ \A r \in Class!ToEdit : \E n \in 1..Len(Class!Operations) :
              Class!Operations[n].record = r
<1>. DEFINE S == Class!ToEdit
            L == Cardinality(S)
            o == Class!Operations
<1>1. Records \in Nat /\ Len(snapshots) \in Nat /\ DOMAIN snapshots = 1..Len(snapshots)
  BY CommandsAssumption DEF SnapshotsType, Class!ClassAssumption
<1>2. S \in SUBSET (1..Len(snapshots)) /\ S \subseteq Class!Record
  BY <1>1 DEF Class!ToEdit, Class!Record, SnapshotsType
<1>3. /\ L \in Nat
      /\ \A n \in 1..L : Class!Nth(S, n) \in S
      /\ \A m, n \in 1..L : Class!Nth(S, m) = Class!Nth(S, n) => m = n
      /\ \A r \in S : \E n \in 1..L : Class!Nth(S, n) = r
  BY <1>1, <1>2, NthLemma
<1>4. /\ o = [n \in 1..L |-> o[n]]
      /\ \A n \in 1..L : /\ o[n].record = Class!Nth(S, n)
                         /\ o[n].expected = snapshots[Class!Nth(S, n)]
                         /\ o[n].replacement = Class!ApplyMask(snapshots[Class!Nth(S, n)])
                         /\ o[n] = [record |-> o[n].record, expected |-> o[n].expected,
                                    replacement |-> o[n].replacement]
  <2>1. L = Class!Cardinality(S)
    BY ClassCardinality
  <2>. QED
    BY <2>1 DEF Class!Operations
<1>. HIDE DEF S, L, o
<1>5. ASSUME NEW n \in 1..L PROVE o[n] \in Edit
  <2>1. Class!Nth(S, n) \in 1..Len(snapshots) /\ Class!Nth(S, n) \in Class!Record
    BY <1>2, <1>3
  <2>2. snapshots[Class!Nth(S, n)] \in ClassContent
    BY <1>1, <2>1 DEF SnapshotsType
  <2>. QED
    BY <1>4, <2>1, <2>2, MaskLemma DEF Edit
<1>6. o \in Seq(Edit) /\ Len(o) = L
  BY <1>3, <1>4, <1>5
<1>. QED
  BY <1>3, <1>4, <1>6 DEF Distinct, S, o

\* chunks: batch b is the b-th run of WriteBatch operations.
LEMMA BatchLemma ==
  ASSUME SnapshotsType, NEW b \in Nat \ {0}
  PROVE  /\ Class!BatchOf(b) \in Seq(Edit) /\ Distinct(Class!BatchOf(b))
         /\ b * WriteBatch \in Nat /\ (b - 1) * WriteBatch \in Nat
         /\ (b - 1) * WriteBatch <= b * WriteBatch
         /\ \A k \in 1..Len(Class!BatchOf(b)) :
              \E n \in 1..Len(Class!Operations) :
                /\ (b - 1) * WriteBatch < n /\ n <= b * WriteBatch
                /\ Class!BatchOf(b)[k] = Class!Operations[n]
         /\ \A n \in 1..Len(Class!Operations) :
              (b - 1) * WriteBatch < n /\ n <= b * WriteBatch =>
                \E k \in 1..Len(Class!BatchOf(b)) : Class!BatchOf(b)[k] = Class!Operations[n]
<1>. DEFINE o == Class!Operations
            from == (b - 1) * WriteBatch
            to == b * WriteBatch
            end == Class!Least(to, Len(o))
            s == Class!BatchOf(b)
<1>1. WriteBatch \in Nat \ {0}
  BY CommandsAssumption DEF Class!ClassAssumption
<1>2. from \in Nat /\ to \in Nat /\ from <= to
  <2>1. \A x, w \in Nat : x * w \in Nat /\ x * w <= x * w + w
    OBVIOUS
  <2>2. to = from + WriteBatch /\ b - 1 \in Nat
    BY <1>1
  <2>. QED
    BY <1>1, <2>1, <2>2
<1>3. o \in Seq(Edit) /\ Len(o) \in Nat /\ Distinct(o)
  BY OperationsLemma
<1>4. s = SubSeq(o, from + 1, end)
  BY DEF Class!BatchOf
<1>5. end \in Nat /\ end <= Len(o) /\ end <= to /\ \A n \in 1..Len(o) : n <= to => n <= end
  <2>. HIDE DEF o, to
  <2>. QED
    BY <1>2, <1>3 DEF Class!Least
<1>. HIDE DEF o, from, to, end, s
<1>6. /\ s \in Seq(Edit)
      /\ Len(s) = IF from + 1 <= end THEN end - from ELSE 0
      /\ \A k \in 1..Len(s) : s[k] = o[k + from]
  BY <1>2, <1>3, <1>4, <1>5
<1>7. \A k \in 1..Len(s) : k + from \in 1..Len(o) /\ from < k + from /\ k + from <= to
  BY <1>2, <1>3, <1>5, <1>6
<1>8. \A n \in 1..Len(o) : from < n /\ n <= to => n - from \in 1..Len(s) /\ s[n - from] = o[n]
  BY <1>2, <1>3, <1>5, <1>6
<1>9. Distinct(s)
  <2>1. ASSUME NEW j \in 1..Len(s), NEW k \in 1..Len(s), s[j].record = s[k].record
        PROVE  j = k
    <3>1. j + from \in 1..Len(o) /\ k + from \in 1..Len(o)
      BY <1>7
    <3>2. o[j + from].record = o[k + from].record
      BY <1>6, <2>1
    <3>3. j + from = k + from
      BY <1>3, <3>1, <3>2, Zenon DEF Distinct
    <3>4. j \in Int /\ k \in Int
      OBVIOUS
    <3>. QED
      BY <1>2, <3>3, <3>4
  <2>. QED
    BY <2>1 DEF Distinct
<1>10. /\ \A k \in 1..Len(s) : \E n \in 1..Len(o) : from < n /\ n <= to /\ s[k] = o[n]
       /\ \A n \in 1..Len(o) : from < n /\ n <= to => \E k \in 1..Len(s) : s[k] = o[n]
  BY <1>6, <1>7, <1>8
<1>. QED
  BY <1>2, <1>6, <1>9, <1>10 DEF o, s, from, to

-----------------------------------------------------------------------------
\* A transaction of the host writes the records of its operations.
LEMMA StoredLemma ==
  ASSUME mem \in [Class!Record -> ClassContent], NEW ops \in Seq(Edit),
         NEW done \in SUBSET (1..Len(ops))
  PROVE  LET new == Class!Stored(ops, done)
         IN  /\ new \in [Class!Record -> ClassContent]
             /\ \A r \in Class!Record \ Class!RecordsOf(ops) : new[r] = mem[r]
             /\ Distinct(ops) => \A n \in done : new[ops[n].record] = ops[n].replacement
<1>. DEFINE new == Class!Stored(ops, done)
            at(r) == CHOOSE n \in done : ops[n].record = r
<1>1. \A n \in 1..Len(ops) : ops[n] \in Edit
  OBVIOUS
<1>2. \A r : (\E n \in done : ops[n].record = r) => at(r) \in done /\ ops[at(r)].record = r
  OBVIOUS
<1>3. /\ new = [r \in Class!Record |-> new[r]]
      /\ \A r \in Class!Record :
           new[r] = IF \E n \in done : ops[n].record = r THEN ops[at(r)].replacement ELSE mem[r]
  BY DEF Class!Stored
<1>. HIDE DEF new, at
<1>4. new \in [Class!Record -> ClassContent]
  <2>1. ASSUME NEW r \in Class!Record PROVE new[r] \in ClassContent
    BY <1>1, <1>2, <1>3 DEF Edit
  <2>. QED
    BY <1>3, <2>1
<1>5. \A r \in Class!Record \ Class!RecordsOf(ops) : new[r] = mem[r]
  BY <1>3 DEF Class!RecordsOf
<1>6. ASSUME Distinct(ops), NEW n \in done PROVE new[ops[n].record] = ops[n].replacement
  <2>1. ops[n].record \in Class!Record
    BY <1>1 DEF Edit
  <2>2. at(ops[n].record) = n
    <3>1. at(ops[n].record) \in done /\ ops[at(ops[n].record)].record = ops[n].record
      BY <1>2, <1>6
    <3>2. at(ops[n].record) \in 1..Len(ops) /\ n \in 1..Len(ops)
      BY <3>1
    <3>. QED
      BY <1>6, <3>1, <3>2, Zenon DEF Distinct
  <2>. QED
    BY <1>3, <2>1, <2>2
<1>. QED
  BY <1>4, <1>5, <1>6 DEF new

\* So does one that leaves a part of them.
LEMMA ChangesLemma ==
  ASSUME mem \in [Class!Record -> ClassContent], NEW ops \in Seq(Edit),
         Class!Changes(ops) \/ Class!Refuses
  PROVE  /\ mem' \in [Class!Record -> ClassContent]
         /\ \A r \in Class!Record \ Class!RecordsOf(ops) : mem'[r] = mem[r]
<1>1. DOMAIN ops = 1..Len(ops) /\ Len(ops) \in Nat
  OBVIOUS
<1>2. CASE \E done \in SUBSET (1..Len(ops)) : mem' = Class!Stored(ops, done)
  BY <1>2, StoredLemma
<1>3. CASE UNCHANGED mem
  BY <1>3
<1>4. \A k \in DOMAIN ops : 1..k \in SUBSET (1..Len(ops))
  BY <1>1
<1>. QED
  BY <1>1, <1>2, <1>3, <1>4
  DEF Class!Changes, Class!Applies, Class!LeavesPart, Class!Refuses, Class!hostVars

-----------------------------------------------------------------------------
\* The record r is one of those the first k batches edit.
Edited(r, k) ==
  \E n \in 1..Len(Class!Operations) : n <= k * WriteBatch /\ Class!Operations[n].record = r

Expected(r, k) == IF Edited(r, k) THEN Class!ApplyMask(snapshots[r]) ELSE snapshots[r]

\* Memory is as the first k batches leave it.
InPlace(k) == \A r \in DOMAIN snapshots \ (moved \cup lost) : mem[r] = Expected(r, k)
AsRead == \A r \in DOMAIN snapshots \ (moved \cup lost) : mem[r] = snapshots[r]
BatchAwaited == InPlace(batch - 1)
BatchPlaced == InPlace(batch)

ClassType ==
  /\ mem \in [Class!Record -> ClassContent] /\ SnapshotsType
  /\ batch \in Nat
  /\ applied \in Seq(Seq(Edit)) /\ pending \in Seq(Edit)
  /\ \A n \in 1..Len(applied) : applied[n] = Class!BatchOf(n)

ClassPhase ==
  /\ pc \in {"snapshot", "dry_run", "forward", "verify", "applied_verified"} =>
       pending = <<>> /\ lost = {}
  /\ pc \in {"forward", "verify", "rollback", "reverify"} => Len(snapshots) = Records
  /\ pc = "snapshot" => AsRead /\ applied = <<>> /\ batch = 1
  /\ pc = "dry_run" => AsRead
  /\ pc = "forward" => BatchAwaited /\ Len(applied) = batch - 1
  /\ pc = "verify" => BatchPlaced /\ Len(applied) = batch
  /\ pc = "rollback" =>
       BatchPlaced /\ batch <= Len(applied) /\ Class!RecordsOf(pending) \subseteq lost
  /\ pc = "reverify" => BatchAwaited /\ batch \in 1..Len(applied) /\ pending = <<>>
  /\ pc = "LIVE_CLASS_APPLY_FAILED" => AsRead /\ Class!RecordsOf(pending) \subseteq lost
  /\ pc = "applied_verified" =>
       \A r \in DOMAIN snapshots \ moved : mem[r] = Class!ApplyMask(snapshots[r])

ClassInvariant == which = "class" => ClassType /\ ClassPhase

-----------------------------------------------------------------------------
LEMMA BatchesLemma ==
  ASSUME NEW L \in Nat, NEW W \in Nat \ {0}
  PROVE  (L + W - 1) \div W \in Nat /\ ((L + W - 1) \div W) * W >= L
OBVIOUS

\* Which records the batches edit.
LEMMA EditedLemma ==
  ASSUME SnapshotsType
  PROVE  /\ \A r : Expected(r, 0) = snapshots[r]
         /\ AsRead <=> InPlace(0)
         /\ \A r \in Class!ToEdit : Edited(r, Class!Batches)
         /\ \A k \in Nat : \A r : Edited(r, k) => r \in Class!ToEdit
<1>1. WriteBatch \in Nat \ {0}
  BY CommandsAssumption DEF Class!ClassAssumption
<1>2. Class!Operations \in Seq(Edit) /\ Len(Class!Operations) \in Nat
  BY OperationsLemma
<1>3. Len(Class!Operations) <= Class!Batches * WriteBatch
  BY <1>1, <1>2, BatchesLemma DEF Class!Batches
<1>4. /\ \A r : Expected(r, 0) = snapshots[r]
      /\ AsRead <=> InPlace(0)
  <2>1. \A r : Expected(r, 0) = snapshots[r]
    BY <1>1, <1>2 DEF Edited, Expected
  <2>. QED
    BY <2>1 DEF AsRead, InPlace
<1>5. \A n \in 1..Len(Class!Operations) : n <= Class!Batches * WriteBatch
  <2>1. Class!Batches \in Nat /\ Class!Batches * WriteBatch \in Nat
    BY <1>1, <1>2, BatchesLemma DEF Class!Batches
  <2>. QED
    BY <1>2, <1>3, <2>1
<1>6. \A r \in Class!ToEdit : Edited(r, Class!Batches)
  BY <1>5, OperationsLemma DEF Edited
<1>7. \A k \in Nat : \A r : Edited(r, k) => r \in Class!ToEdit
  BY OperationsLemma DEF Edited
<1>. QED
  BY <1>4, <1>6, <1>7

\* A batch adds its own records, takes what was read for its guard and writes
\* what the plan wants.
LEMMA BatchEdits ==
  ASSUME SnapshotsType, NEW b \in Nat \ {0}
  PROVE  /\ \A r : r \notin Class!RecordsOf(Class!BatchOf(b)) =>
              (Edited(r, b) <=> Edited(r, b - 1))
         /\ \A r \in Class!RecordsOf(Class!BatchOf(b)) : Edited(r, b) /\ ~Edited(r, b - 1)
         /\ \A k \in 1..Len(Class!BatchOf(b)) :
              LET o == Class!BatchOf(b)[k]
              IN  /\ o.expected = snapshots[o.record]
                  /\ o.replacement = Class!ApplyMask(snapshots[o.record])
<1>. DEFINE ops == Class!Operations
            s == Class!BatchOf(b)
            from == (b - 1) * WriteBatch
            to == b * WriteBatch
<1>1. /\ from \in Nat /\ to \in Nat /\ from <= to /\ s \in Seq(Edit)
      /\ \A k \in 1..Len(s) : \E n \in 1..Len(ops) : from < n /\ n <= to /\ s[k] = ops[n]
      /\ \A n \in 1..Len(ops) : from < n /\ n <= to => \E k \in 1..Len(s) : s[k] = ops[n]
  BY BatchLemma
<1>2. /\ Len(ops) \in Nat /\ Distinct(ops)
      /\ \A n \in 1..Len(ops) :
           /\ ops[n].expected = snapshots[ops[n].record]
           /\ ops[n].replacement = Class!ApplyMask(snapshots[ops[n].record])
  BY OperationsLemma
<1>3. \A r : /\ Edited(r, b) <=> \E n \in 1..Len(ops) : n <= to /\ ops[n].record = r
             /\ Edited(r, b - 1) <=> \E n \in 1..Len(ops) : n <= from /\ ops[n].record = r
  BY DEF Edited
<1>4. \A r : r \in Class!RecordsOf(s) <=> \E k \in 1..Len(s) : s[k].record = r
  BY <1>1 DEF Class!RecordsOf
<1>. HIDE DEF ops, s, from, to
<1>5. \A n \in 1..Len(ops) : n <= from \/ from < n
  <2>1. from \in Nat /\ Len(ops) \in Nat
    BY <1>1, <1>2
  <2>. QED  BY <2>1
<1>6. ASSUME NEW r, r \notin Class!RecordsOf(s)
      PROVE  Edited(r, b) <=> Edited(r, b - 1)
  <2>1. \A n \in 1..Len(ops) : n <= from => n <= to
    BY <1>1, <1>2
  <2>2. ASSUME NEW n \in 1..Len(ops), n <= to, ops[n].record = r
        PROVE  n <= from
    <3>1. SUFFICES ASSUME from < n PROVE FALSE
      BY <1>5
    <3>2. PICK k \in 1..Len(s) : s[k] = ops[n]
      BY <1>1, <2>2, <3>1
    <3>. QED
      BY <1>4, <1>6, <2>2, <3>2
  <2>. QED
    BY <1>3, <2>1, <2>2
<1>7. ASSUME NEW r \in Class!RecordsOf(s)
      PROVE  Edited(r, b) /\ ~Edited(r, b - 1)
  <2>4. PICK k \in 1..Len(s) : s[k].record = r
    BY <1>4, <1>7
  <2>5. PICK n \in 1..Len(ops) : from < n /\ n <= to /\ s[k] = ops[n]
    BY <1>1
  <2>1. from < n /\ n <= to /\ ops[n].record = r
    BY <2>4, <2>5
  <2>2. \A m \in 1..Len(ops) : ops[m].record = r => m = n
    BY <1>2, <2>1 DEF Distinct
  <2>3. ~(n <= from)
    BY <1>1, <2>1
  <2>. QED
    BY <1>3, <2>1, <2>2, <2>3
<1>8. \A k \in 1..Len(s) : /\ s[k].expected = snapshots[s[k].record]
                           /\ s[k].replacement = Class!ApplyMask(snapshots[s[k].record])
  BY <1>1, <1>2
<1>. QED
  BY <1>6, <1>7, <1>8 DEF s

-----------------------------------------------------------------------------
\* What a rollback sends: the same records, guard and value exchanged.
LEMMA ReversedLemma ==
  ASSUME NEW ops \in Seq(Edit)
  PROVE  LET back == Class!Reversed(ops)
         IN  /\ back \in Seq(Edit) /\ Len(back) = Len(ops)
             /\ Distinct(ops) => Distinct(back)
             /\ Class!RecordsOf(back) = Class!RecordsOf(ops)
             /\ \A n \in 1..Len(ops) :
                  back[n].record = ops[n].record /\ back[n].replacement = ops[n].expected
<1>. DEFINE back == Class!Reversed(ops)
<1>1. /\ Len(ops) \in Nat /\ DOMAIN ops = 1..Len(ops)
      /\ \A n \in 1..Len(ops) : ops[n] \in Edit
  OBVIOUS
<1>2. /\ back = [n \in 1..Len(ops) |-> back[n]]
      /\ \A n \in 1..Len(ops) :
           back[n] = [record |-> ops[n].record, expected |-> ops[n].replacement,
                      replacement |-> ops[n].expected]
  BY <1>1 DEF Class!Reversed
<1>. HIDE DEF back
<1>3. \A n \in 1..Len(ops) : /\ back[n] \in Edit /\ back[n].record = ops[n].record
                             /\ back[n].replacement = ops[n].expected
  BY <1>1, <1>2 DEF Edit
<1>4. back \in Seq(Edit) /\ Len(back) = Len(ops) /\ DOMAIN back = 1..Len(ops)
  BY <1>1, <1>2, <1>3
<1>5. Distinct(ops) => Distinct(back)
  BY <1>3, <1>4 DEF Distinct
<1>6. Class!RecordsOf(back) = Class!RecordsOf(ops)
  BY <1>1, <1>3, <1>4 DEF Class!RecordsOf
<1>. QED
  BY <1>3, <1>4, <1>5, <1>6 DEF back

-----------------------------------------------------------------------------
(* A step that leaves what was read alone.                                  *)

LEMMA SameOperations ==
  ASSUME UNCHANGED snapshots
  PROVE  /\ Class!Operations' = Class!Operations
         /\ \A n : Class!BatchOf(n)' = Class!BatchOf(n)
<1>1. Class!Operations' = Class!Operations
  BY DEF Class!Operations, Class!ToEdit, Class!ApplyMask, Class!Nth, Class!Cardinality
<1>. QED
  BY <1>1 DEF Class!BatchOf, Class!Least

LEMMA PlaceLemma ==
  ASSUME SnapshotsType, UNCHANGED snapshots, NEW k,
         \A r \in DOMAIN snapshots \ (moved' \cup lost') : mem'[r] = Expected(r, k)
  PROVE  /\ k = 0 => AsRead'
         /\ k = batch' - 1 => BatchAwaited'
         /\ k = batch' => BatchPlaced'
<1>1. /\ k = batch' - 1 => BatchAwaited'
      /\ k = batch' => BatchPlaced'
  BY SameOperations DEF BatchAwaited, BatchPlaced, InPlace, Expected, Edited, Class!ApplyMask
<1>2. k = 0 => AsRead'
  BY EditedLemma DEF AsRead
<1>. QED
  BY <1>1, <1>2

\* Whatever is stored into records that were moved, or lost, leaves the rest.
LEMMA StayLemma ==
  ASSUME ClassType, UNCHANGED snapshots, moved \subseteq moved', lost \subseteq lost',
         \A r \in DOMAIN snapshots \ (moved' \cup lost') : mem'[r] = mem[r]
  PROVE  /\ AsRead => AsRead'
         /\ BatchAwaited /\ batch' = batch => BatchAwaited'
         /\ BatchPlaced /\ batch' = batch => BatchPlaced'
         /\ BatchAwaited /\ batch' = batch - 1 => BatchPlaced'
         /\ BatchPlaced /\ batch' = batch + 1 => BatchAwaited'
<1>1. SnapshotsType
  BY DEF ClassType
<1>2. ASSUME NEW k, InPlace(k)
      PROVE  \A r \in DOMAIN snapshots \ (moved' \cup lost') : mem'[r] = Expected(r, k)
  BY <1>2 DEF InPlace
<1>3. AsRead => AsRead'
  BY <1>1, <1>2, EditedLemma, PlaceLemma
<1>4. ASSUME BatchAwaited, batch' = batch PROVE BatchAwaited'
  BY <1>1, <1>2, <1>4, PlaceLemma DEF BatchAwaited
<1>5. ASSUME BatchPlaced, batch' = batch PROVE BatchPlaced'
  BY <1>1, <1>2, <1>5, PlaceLemma DEF BatchPlaced
<1>6. ASSUME BatchAwaited, batch' = batch - 1 PROVE BatchPlaced'
  BY <1>1, <1>2, <1>6, PlaceLemma DEF BatchAwaited
<1>7. ASSUME BatchPlaced, batch' = batch + 1 PROVE BatchAwaited'
  <2>1. batch = batch' - 1
    BY <1>7 DEF ClassType
  <2>. QED
    BY <1>1, <1>2, <1>7, <2>1, PlaceLemma DEF BatchPlaced
<1>. QED
  BY <1>3, <1>4, <1>5, <1>6, <1>7

\* A forward batch that is applied.
LEMMA ForwardLemma ==
  ASSUME ClassType, batch \in Nat \ {0}, UNCHANGED <<snapshots, moved, lost, batch>>,
         BatchAwaited, Class!Applies(Class!BatchOf(batch))
  PROVE  BatchPlaced'
<1>. DEFINE ops == Class!BatchOf(batch)
<1>1. SnapshotsType /\ ops \in Seq(Edit) /\ Distinct(ops)
  BY BatchLemma DEF ClassType
<1>2. /\ mem' = Class!Stored(ops, 1..Len(ops))
      /\ \A n \in 1..Len(ops) : mem'[ops[n].record] = ops[n].replacement
      /\ \A r \in Class!Record \ Class!RecordsOf(ops) : mem'[r] = mem[r]
  <2>1. DOMAIN ops = 1..Len(ops)
    BY <1>1
  <2>2. mem' = Class!Stored(ops, 1..Len(ops))
    BY <2>1 DEF Class!Applies
  <2>. HIDE DEF ops
  <2>. QED
    BY <1>1, <2>2, StoredLemma DEF ClassType
<1>3. /\ \A r : r \notin Class!RecordsOf(ops) => (Edited(r, batch) <=> Edited(r, batch - 1))
      /\ \A r \in Class!RecordsOf(ops) : Edited(r, batch)
      /\ \A n \in 1..Len(ops) : ops[n].replacement = Class!ApplyMask(snapshots[ops[n].record])
  BY <1>1, BatchEdits
<1>. HIDE DEF ops
<1>4. ASSUME NEW r \in DOMAIN snapshots \ (moved \cup lost)
      PROVE  mem'[r] = Expected(r, batch)
  <2>1. r \in Class!Record
    BY CommandsAssumption DEF ClassType, SnapshotsType, Class!Record, Class!ClassAssumption
  <2>2. CASE r \in Class!RecordsOf(ops)
    <3>1. \E n \in 1..Len(ops) : ops[n].record = r
      BY <1>1, <2>2 DEF Class!RecordsOf
    <3>2. mem'[r] = Class!ApplyMask(snapshots[r])
      BY <1>2, <1>3, <3>1
    <3>. QED
      BY <1>3, <2>2, <3>2 DEF Expected
  <2>3. CASE r \notin Class!RecordsOf(ops)
    <3>1. mem'[r] = mem[r] /\ mem[r] = Expected(r, batch - 1)
      BY <1>2, <2>1, <2>3 DEF BatchAwaited, InPlace
    <3>. QED
      BY <1>3, <2>3, <3>1 DEF Expected
  <2>. QED
    BY <2>2, <2>3
<1>. QED
  BY <1>1, <1>4, PlaceLemma

\* The reverse of a batch, applied.
LEMMA UndoneLemma ==
  ASSUME ClassType, batch \in Nat \ {0}, UNCHANGED <<snapshots, moved, lost, batch>>,
         BatchPlaced, Class!Applies(Class!Reversed(Class!BatchOf(batch)))
  PROVE  BatchAwaited'
<1>. DEFINE ops == Class!BatchOf(batch)
            back == Class!Reversed(ops)
<1>1. SnapshotsType /\ ops \in Seq(Edit) /\ Distinct(ops)
  BY BatchLemma DEF ClassType
<1>2. /\ \A r : r \notin Class!RecordsOf(ops) => (Edited(r, batch) <=> Edited(r, batch - 1))
      /\ \A r \in Class!RecordsOf(ops) : ~Edited(r, batch - 1)
      /\ \A n \in 1..Len(ops) : ops[n].expected = snapshots[ops[n].record]
  BY <1>1, BatchEdits
<1>3. Class!Applies(back)
  OBVIOUS
<1>. HIDE DEF ops
<1>4. /\ back \in Seq(Edit) /\ Len(back) = Len(ops) /\ Distinct(back)
      /\ Class!RecordsOf(back) = Class!RecordsOf(ops)
      /\ \A n \in 1..Len(ops) : back[n].record = ops[n].record /\ back[n].replacement = ops[n].expected
  BY <1>1, ReversedLemma
<1>. HIDE DEF back
<1>5. /\ \A n \in 1..Len(back) : mem'[back[n].record] = back[n].replacement
      /\ \A r \in Class!Record \ Class!RecordsOf(back) : mem'[r] = mem[r]
  <2>1. DOMAIN back = 1..Len(back)
    BY <1>4
  <2>2. mem' = Class!Stored(back, 1..Len(back))
    BY <1>3, <2>1 DEF Class!Applies
  <2>3. mem \in [Class!Record -> ClassContent]
    BY DEF ClassType
  <2>4. 1..Len(back) \in SUBSET (1..Len(back))
    OBVIOUS
  <2>. QED
    BY <1>4, <2>2, <2>3, <2>4, StoredLemma
<1>6. ASSUME NEW r \in DOMAIN snapshots \ (moved \cup lost)
      PROVE  mem'[r] = Expected(r, batch - 1)
  <2>1. r \in Class!Record
    BY CommandsAssumption DEF ClassType, SnapshotsType, Class!Record, Class!ClassAssumption
  <2>2. CASE r \in Class!RecordsOf(ops)
    <3>1. \E n \in 1..Len(ops) : ops[n].record = r
      BY <1>1, <2>2 DEF Class!RecordsOf
    <3>2. mem'[r] = snapshots[r]
      BY <1>2, <1>4, <1>5, <3>1
    <3>. QED
      BY <1>2, <2>2, <3>2 DEF Expected
  <2>3. CASE r \notin Class!RecordsOf(ops)
    <3>1. mem'[r] = mem[r] /\ mem[r] = Expected(r, batch)
      BY <1>4, <1>5, <2>1, <2>3 DEF BatchPlaced, InPlace
    <3>. QED
      BY <1>2, <2>3, <3>1 DEF Expected
  <2>. QED
    BY <2>2, <2>3
<1>. QED
  BY <1>1, <1>6, PlaceLemma

-----------------------------------------------------------------------------
\* The replacement keeps its invariant, step by step.
LEMMA SnapshotLemma ==
  ASSUME ClassType, ClassPhase, Class!Snapshot
  PROVE  ClassType' /\ ClassPhase'
<1>. DEFINE upto == Class!Least(Len(snapshots) + ReadBatch, Records)
            piece == SubSeq([r \in Class!Record |-> mem[r]], Len(snapshots) + 1, upto)
<1>1. /\ pc = "snapshot" /\ UNCHANGED <<mem, moved, pending, lost, batch, applied>>
      /\ pending = <<>> /\ lost = {} /\ applied = <<>> /\ batch = 1 /\ AsRead
      /\ SnapshotsType /\ Len(snapshots) \in Nat
  BY DEF Class!Snapshot, Class!hostVars, ClassPhase, ClassType, SnapshotsType
<1>2. Records \in Nat /\ ReadBatch \in Nat \ {0}
  BY CommandsAssumption DEF Class!ClassAssumption
<1>3. CASE /\ Len(snapshots) < Records
           /\ snapshots' = snapshots \o piece /\ UNCHANGED pc
  <2>1. upto \in Nat /\ Len(snapshots) <= upto /\ upto <= Records
    BY <1>1, <1>2, <1>3 DEF Class!Least
  <2>2. [r \in Class!Record |-> mem[r]] \in Seq(ClassContent) /\ Len([r \in Class!Record |-> mem[r]]) = Records
    BY <1>2 DEF ClassType, Class!Record
  <2>. HIDE DEF upto
  <2>3. /\ piece \in Seq(ClassContent) /\ Len(piece) = upto - Len(snapshots)
        /\ \A n \in 1..Len(piece) : piece[n] = mem[n + Len(snapshots)]
    BY <1>1, <1>2, <2>1, <2>2 DEF Class!Record
  <2>. HIDE DEF piece
  <2>4. /\ snapshots' \in Seq(ClassContent) /\ Len(snapshots') = upto
        /\ \A r \in 1..Len(snapshots) : snapshots'[r] = snapshots[r]
        /\ \A r \in 1..upto : r > Len(snapshots) => snapshots'[r] = mem[r]
    BY <1>1, <1>3, <2>1, <2>3 DEF SnapshotsType
  <2>5. SnapshotsType'
    BY <2>1, <2>4 DEF SnapshotsType
  <2>6. \A r \in DOMAIN snapshots \ moved : mem[r] = snapshots[r]
    BY <1>1 DEF AsRead
  <2>7. \A r \in DOMAIN snapshots' \ moved : mem[r] = snapshots'[r]
    BY <1>1, <2>1, <2>4, <2>6 DEF SnapshotsType
  <2>8. AsRead'
    BY <1>1, <2>7 DEF AsRead
  <2>9. ClassType'
    BY <1>1, <2>5 DEF ClassType
  <2>. QED
    BY <1>1, <1>3, <2>8, <2>9 DEF ClassPhase
<1>4. CASE /\ UNCHANGED snapshots
           /\ \/ pc' = "LIVE_CLASS_APPLY_FAILED"
              \/ pc' = "dry_run"
              \/ pc' = "applied_verified" /\ Class!Operations = <<>>
              \/ pc' = "forward" /\ Len(snapshots) = Records
  <2>1. AsRead'
    BY <1>1, <1>4, StayLemma
  <2>2. ClassType'
    BY <1>1, <1>4, SameOperations DEF ClassType, SnapshotsType
  <2>3. CASE pc' = "LIVE_CLASS_APPLY_FAILED"
    BY <1>1, <2>1, <2>2, <2>3 DEF ClassPhase, Class!RecordsOf
  <2>4. CASE pc' = "dry_run"
    BY <1>1, <2>1, <2>2, <2>4 DEF ClassPhase
  <2>5. CASE pc' = "forward" /\ Len(snapshots) = Records
    <3>1. BatchAwaited
      BY <1>1, EditedLemma DEF BatchAwaited
    <3>2. BatchAwaited'
      BY <1>1, <1>4, <3>1, StayLemma
    <3>3. Len(applied) = batch - 1
      BY <1>1
    <3>. QED
      BY <1>1, <1>4, <2>2, <2>5, <3>2, <3>3 DEF ClassPhase
  <2>6. CASE pc' = "applied_verified" /\ Class!Operations = <<>>
    <3>1. Class!ToEdit = {}
      BY <1>1, <2>6, OperationsLemma
    <3>2. \A r \in DOMAIN snapshots \ moved : mem[r] = snapshots[r]
      BY <1>1 DEF AsRead
    <3>3. \A r \in DOMAIN snapshots \ moved : mem[r] = Class!ApplyMask(snapshots[r])
      BY <3>1, <3>2 DEF Class!ToEdit
    <3>4. (\A r \in DOMAIN snapshots \ moved : mem[r] = Class!ApplyMask(snapshots[r]))'
      BY <1>1, <1>4, <3>3 DEF Class!ApplyMask
    <3>. QED
      BY <1>1, <2>2, <2>6, <3>4 DEF ClassPhase
  <2>. QED
    BY <1>4, <2>3, <2>4, <2>5, <2>6
<1>. QED
  BY <1>3, <1>4 DEF Class!Snapshot

\* The type of the state, and what the two sequences of batches hold, stay.
LEMMA StaysTyped ==
  ASSUME ClassType, UNCHANGED snapshots, mem' \in [Class!Record -> ClassContent],
         batch' \in Nat, pending' \in Seq(Edit), UNCHANGED applied
  PROVE  ClassType'
BY SameOperations DEF ClassType, SnapshotsType

\* A rollback starts after a batch whose records are lost, or were refused.
LEMMA StartLemma ==
  ASSUME ClassType, UNCHANGED <<snapshots, moved, applied>>, lost \subseteq lost',
         Len(snapshots) = Records,
         mem' \in [Class!Record -> ClassContent],
         \A r \in Class!Record \ lost' : mem'[r] = mem[r],
         pending' \in Seq(Edit), Class!RecordsOf(pending') \subseteq lost',
         \/ BatchAwaited /\ Len(applied) = batch - 1
         \/ BatchPlaced /\ Len(applied) = batch,
         Class!StartRollback
  PROVE  ClassType' /\ ClassPhase'
<1>1. pc' = "rollback" /\ batch' = Len(applied) /\ batch' \in Nat
  BY DEF Class!StartRollback, ClassType
<1>2. ClassType'
  BY <1>1, StaysTyped
<1>3. \A r \in DOMAIN snapshots : r \in Class!Record
  BY CommandsAssumption DEF ClassType, SnapshotsType, Class!Record, Class!ClassAssumption
<1>4. BatchPlaced'
  BY <1>1, <1>3, StayLemma
<1>5. (Class!RecordsOf(pending) \subseteq lost)'
  BY DEF Class!RecordsOf
<1>6. (Len(snapshots) = Records)' /\ (batch <= Len(applied))'
  BY <1>1
<1>. QED
  BY <1>1, <1>2, <1>4, <1>5, <1>6 DEF ClassPhase

LEMMA ForwardStep ==
  ASSUME ClassType, ClassPhase, Class!Forward
  PROVE  ClassType' /\ ClassPhase'
<1>. DEFINE ops == Class!BatchOf(batch)
<1>1. /\ pc = "forward" /\ pending = <<>> /\ lost = {} /\ UNCHANGED <<moved, snapshots>>
      /\ Len(snapshots) = Records /\ BatchAwaited /\ Len(applied) = batch - 1
  BY DEF Class!Forward, ClassPhase
<1>2. /\ batch \in Nat \ {0} /\ SnapshotsType /\ applied \in Seq(Seq(Edit))
      /\ mem \in [Class!Record -> ClassContent]
  BY <1>1 DEF ClassType
<1>3. ops \in Seq(Edit) /\ DOMAIN ops = 1..Len(ops)
  BY <1>2, BatchLemma
<1>4. CASE Class!Applies(ops) /\ applied' = Append(applied, ops) /\ pc' = "verify"
           /\ UNCHANGED <<pending, lost, batch>>
  <2>1. BatchPlaced'
    BY <1>1, <1>2, <1>4, ForwardLemma
  <2>2. mem' \in [Class!Record -> ClassContent]
    BY <1>2, <1>3, <1>4, ChangesLemma DEF Class!Changes
  <2>3. /\ applied' \in Seq(Seq(Edit)) /\ Len(applied') = batch
        /\ \A n \in 1..Len(applied') : applied'[n] = Class!BatchOf(n)
    <3>1. \A n \in 1..Len(applied) : applied[n] = Class!BatchOf(n)
      BY DEF ClassType
    <3>. HIDE DEF ops
    <3>2. /\ applied' \in Seq(Seq(Edit)) /\ Len(applied') = batch /\ applied'[batch] = ops
          /\ \A n \in 1..Len(applied) : applied'[n] = applied[n]
      BY <1>1, <1>2, <1>3, <1>4
    <3>3. ASSUME NEW n \in 1..Len(applied') PROVE applied'[n] = Class!BatchOf(n)
      <4>1. CASE n = batch
        BY <3>2, <4>1 DEF ops
      <4>2. CASE n # batch
        <5>1. n \in 1..Len(applied)
          BY <1>1, <1>2, <3>2, <4>2
        <5>. QED
          BY <3>1, <3>2, <5>1
      <4>. QED
        BY <4>1, <4>2
    <3>. QED
      BY <3>2, <3>3
  <2>4. ClassType'
    BY <1>1, <1>2, <1>4, <2>2, <2>3, SameOperations DEF ClassType, SnapshotsType
  <2>. QED
    BY <1>1, <1>4, <2>1, <2>3, <2>4 DEF ClassPhase
<1>5. CASE /\ Class!StartRollback /\ UNCHANGED applied
           /\ \/ Class!Refuses /\ pending' = <<>> /\ lost' = lost
              \/ /\ Class!Changes(ops) \/ Class!Refuses
                 /\ pending' \in {<<>>, ops}
                 /\ lost' = lost \cup Class!RecordsOf(ops)
  <2>1. /\ mem' \in [Class!Record -> ClassContent]
        /\ \A r \in Class!Record \ lost' : mem'[r] = mem[r]
    <3>1. CASE Class!Refuses
      BY <1>2, <3>1 DEF Class!Refuses, Class!hostVars
    <3>2. CASE Class!Changes(ops) /\ lost' = lost \cup Class!RecordsOf(ops)
      BY <1>2, <1>3, <3>2, ChangesLemma
    <3>. QED
      BY <1>5, <3>1, <3>2
  <2>2. pending' \in Seq(Edit) /\ Class!RecordsOf(pending') \subseteq lost' /\ lost \subseteq lost'
    <3>1. Class!RecordsOf(<<>>) = {} /\ <<>> \in Seq(Edit)
      BY DEF Class!RecordsOf
    <3>2. \/ lost' = lost /\ pending' = <<>>
          \/ lost' = lost \cup Class!RecordsOf(ops) /\ pending' \in {<<>>, ops}
      BY <1>5
    <3>. QED
      BY <1>3, <3>1, <3>2
  <2>. QED
    BY <1>1, <1>5, <2>1, <2>2, StartLemma
<1>. QED
  BY <1>1, <1>4, <1>5 DEF Class!Forward, Class!Changes

LEMMA VerifyStep ==
  ASSUME ClassType, ClassPhase, Class!Verify
  PROVE  ClassType' /\ ClassPhase'
<1>1. /\ pc = "verify" /\ pending = <<>> /\ lost = {} /\ Len(snapshots) = Records
      /\ UNCHANGED <<mem, moved, pending, lost, snapshots, applied>>
      /\ BatchPlaced /\ Len(applied) = batch
  BY DEF Class!Verify, Class!hostVars, ClassPhase
<1>2. SnapshotsType /\ batch \in Nat /\ mem \in [Class!Record -> ClassContent]
  BY DEF ClassType
<1>3. CASE Class!StartRollback
  <2>1. Class!RecordsOf(pending') \subseteq lost' /\ pending' \in Seq(Edit)
    BY <1>1 DEF Class!RecordsOf
  <2>. QED
    BY <1>1, <1>2, <1>3, <2>1, StartLemma
<1>4. CASE pc' = "applied_verified" /\ batch = Class!Batches /\ UNCHANGED batch
  <2>1. ClassType'
    BY <1>1, <1>2, <1>4, StaysTyped DEF ClassType
  <2>2. ASSUME NEW r \in DOMAIN snapshots \ moved
        PROVE  mem[r] = Class!ApplyMask(snapshots[r])
    <3>1. mem[r] = Expected(r, batch)
      BY <1>1 DEF BatchPlaced, InPlace
    <3>2. CASE r \in Class!ToEdit
      BY <1>2, <1>4, <3>1, <3>2, EditedLemma DEF Expected
    <3>3. CASE r \notin Class!ToEdit
      <4>1. mem[r] = snapshots[r]
        BY <1>2, <3>1, <3>3, EditedLemma DEF Expected
      <4>. QED
        BY <3>3, <4>1 DEF Class!ToEdit
    <3>. QED
      BY <3>2, <3>3
  <2>3. (\A r \in DOMAIN snapshots \ moved : mem[r] = Class!ApplyMask(snapshots[r]))'
    BY <1>1, <2>2 DEF Class!ApplyMask
  <2>. QED
    BY <1>1, <1>4, <2>1, <2>3 DEF ClassPhase
<1>5. CASE pc' = "forward" /\ batch' = batch + 1
  <2>1. ClassType' /\ BatchAwaited'
    <3>1. batch' \in Nat /\ pending' \in Seq(Edit)
      BY <1>1, <1>2, <1>5
    <3>. QED
      BY <1>1, <1>2, <1>5, <3>1, StaysTyped, StayLemma
  <2>2. Len(applied) = batch' - 1
    BY <1>1, <1>2, <1>5
  <2>. QED
    BY <1>1, <1>5, <2>1, <2>2 DEF ClassPhase
<1>. QED
  BY <1>3, <1>4, <1>5 DEF Class!Verify

LEMMA RolledBackStep ==
  ASSUME ClassType, ClassPhase, Class!RolledBack
  PROVE  ClassType' /\ ClassPhase'
<1>1. /\ pc = "rollback" /\ pc' = "LIVE_CLASS_APPLY_FAILED" /\ ~(batch >= 1)
      /\ UNCHANGED <<mem, moved, pending, lost, snapshots, batch, applied>>
      /\ BatchPlaced /\ Class!RecordsOf(pending) \subseteq lost
  BY DEF Class!RolledBack, Class!MoreToUndo, Class!hostVars, ClassPhase
<1>2. SnapshotsType /\ batch = 0
  BY <1>1 DEF ClassType
<1>3. AsRead
  BY <1>1, <1>2, EditedLemma DEF BatchPlaced
<1>4. ClassType' /\ AsRead'
  <2>1. mem' \in [Class!Record -> ClassContent] /\ batch' \in Nat /\ pending' \in Seq(Edit)
    BY <1>1 DEF ClassType
  <2>. QED
    BY <1>1, <1>3, <2>1, StaysTyped, StayLemma
<1>5. (Class!RecordsOf(pending) \subseteq lost)'
  BY <1>1 DEF Class!RecordsOf
<1>. QED
  BY <1>1, <1>4, <1>5 DEF ClassPhase

LEMMA UndoStep ==
  ASSUME ClassType, ClassPhase, Class!UndoBatch
  PROVE  ClassType' /\ ClassPhase'
<1>. DEFINE ops == Class!Reversed(applied[batch])
<1>1. /\ pc = "rollback" /\ pending = <<>> /\ batch >= 1
      /\ UNCHANGED <<moved, lost, snapshots, batch, applied>>
      /\ Len(snapshots) = Records /\ BatchPlaced /\ batch <= Len(applied)
  BY DEF Class!UndoBatch, Class!MoreToUndo, ClassPhase
<1>2. /\ batch \in Nat \ {0} /\ batch \in 1..Len(applied) /\ SnapshotsType
      /\ mem \in [Class!Record -> ClassContent]
  BY <1>1 DEF ClassType
<1>3. applied[batch] = Class!BatchOf(batch)
  BY <1>2 DEF ClassType
<1>4. ops \in Seq(Edit)
  BY <1>2, <1>3, BatchLemma, ReversedLemma
<1>5. CASE Class!Applies(ops) /\ pc' = "reverify" /\ UNCHANGED pending
  <2>1. BatchAwaited'
    BY <1>1, <1>2, <1>3, <1>5, UndoneLemma
  <2>2. mem' \in [Class!Record -> ClassContent]
    BY <1>2, <1>4, <1>5, ChangesLemma DEF Class!Changes
  <2>3. ClassType'
    <3>1. batch' \in Nat /\ pending' \in Seq(Edit)
      BY <1>1, <1>2, <1>5
    <3>. QED
      BY <1>1, <2>2, <3>1, StaysTyped
  <2>. QED
    BY <1>1, <1>2, <1>5, <2>1, <2>3 DEF ClassPhase
<1>6. CASE /\ pc' = "LIVE_CLASS_ROLLBACK_FAILED"
           /\ Class!Changes(ops) \/ Class!Refuses
           /\ pending' \in {<<>>, ops}
  <2>1. mem' \in [Class!Record -> ClassContent]
    <3>1. CASE Class!Refuses
      BY <1>2, <3>1 DEF Class!Refuses, Class!hostVars
    <3>2. CASE Class!Changes(ops)
      BY <1>2, <1>4, <3>2, ChangesLemma
    <3>. QED
      BY <1>6, <3>1, <3>2
  <2>2. batch' \in Nat /\ pending' \in Seq(Edit)
    <3>1. <<>> \in Seq(Edit)
      OBVIOUS
    <3>. HIDE DEF ops
    <3>. QED
      BY <1>1, <1>2, <1>4, <1>6, <3>1
  <2>3. ClassType'
    BY <1>1, <2>1, <2>2, StaysTyped
  <2>. QED
    BY <1>6, <2>3 DEF ClassPhase
<1>. QED
  BY <1>1, <1>5, <1>6 DEF Class!UndoBatch

LEMMA VerifyUndoneStep ==
  ASSUME ClassType, ClassPhase, Class!VerifyUndone
  PROVE  ClassType' /\ ClassPhase'
<1>1. /\ pc = "reverify" /\ UNCHANGED <<mem, moved, pending, lost, snapshots, applied>>
      /\ pending = <<>> /\ Len(snapshots) = Records /\ BatchAwaited
      /\ batch \in 1..Len(applied)
      /\ \/ pc' = "rollback" /\ batch' = batch - 1
         \/ pc' = "LIVE_CLASS_ROLLBACK_FAILED" /\ UNCHANGED batch
  BY DEF Class!VerifyUndone, Class!hostVars, ClassPhase
<1>2. Len(applied) \in Nat
  BY DEF ClassType
<1>3. batch' \in Nat /\ batch' <= Len(applied)
  BY <1>1, <1>2
<1>4. ClassType'
  <2>1. mem' \in [Class!Record -> ClassContent] /\ pending' \in Seq(Edit)
    BY <1>1 DEF ClassType
  <2>. QED
    BY <1>1, <1>3, <2>1, StaysTyped
<1>5. batch' = batch - 1 => BatchPlaced'
  BY <1>1, StayLemma
<1>6. (Class!RecordsOf(pending) \subseteq lost)'
  BY <1>1 DEF Class!RecordsOf
<1>. QED
  BY <1>1, <1>3, <1>4, <1>5, <1>6 DEF ClassPhase

\* A request carried out late changes nothing but the records that count as lost.
LEMMA LateStep ==
  ASSUME ClassType, ClassPhase, Class!Late
  PROVE  ClassType' /\ ClassPhase'
<1>1. /\ pending # <<>> /\ pending' = <<>>
      /\ Class!Changes(pending) \/ Class!Refuses
      /\ UNCHANGED <<moved, lost, pc, snapshots, batch, applied>>
  BY DEF Class!Late
<1>2. /\ mem \in [Class!Record -> ClassContent] /\ pending \in Seq(Edit) /\ batch \in Nat
      /\ SnapshotsType
  BY DEF ClassType
<1>3. /\ mem' \in [Class!Record -> ClassContent]
      /\ \A r \in Class!Record \ Class!RecordsOf(pending) : mem'[r] = mem[r]
  <2>1. CASE Class!Refuses
    BY <1>2, <2>1 DEF Class!Refuses, Class!hostVars
  <2>2. CASE Class!Changes(pending)
    BY <1>2, <2>2, ChangesLemma
  <2>. QED
    BY <1>1, <2>1, <2>2
<1>4. ClassType'
  BY <1>1, <1>2, <1>3, StaysTyped
<1>5. \A r \in DOMAIN snapshots : r \in Class!Record
  BY CommandsAssumption DEF ClassType, SnapshotsType, Class!Record, Class!ClassAssumption
<1>6. (Class!RecordsOf(pending) \subseteq lost)'
  BY <1>1 DEF Class!RecordsOf
<1>7. CASE pc \in {"rollback", "LIVE_CLASS_APPLY_FAILED"}
  <2>1. Class!RecordsOf(pending) \subseteq lost
    BY <1>7 DEF ClassPhase
  <2>2. (AsRead => AsRead') /\ (BatchPlaced => BatchPlaced')
    BY <1>1, <1>3, <1>5, <2>1, StayLemma
  <2>. QED
    BY <1>1, <1>4, <1>6, <1>7, <2>2 DEF ClassPhase
<1>8. CASE pc \notin {"rollback", "LIVE_CLASS_APPLY_FAILED"}
  BY <1>1, <1>4, <1>8 DEF ClassPhase
<1>. QED
  BY <1>7, <1>8

LEMMA StoreStep ==
  ASSUME ClassType, ClassPhase, Class!GameStore
  PROVE  ClassType' /\ ClassPhase'
<1>1. PICK s \in RecordStores :
        /\ mem' = [mem EXCEPT ![s.record] = s.value]
        /\ moved' = IF s.record \in DOMAIN snapshots THEN moved \cup {s.record} ELSE moved
        /\ UNCHANGED <<pending, lost, pc, snapshots, batch, applied>>
  BY DEF Class!GameStore
<1>2. mem \in [Class!Record -> ClassContent] /\ SnapshotsType /\ batch \in Nat /\ pending \in Seq(Edit)
  BY DEF ClassType
<1>3. s.value \in ClassContent
  BY DEF ClassContent, Given
<1>4. mem' \in [Class!Record -> ClassContent]
  BY <1>1, <1>2, <1>3
<1>5. ClassType'
  BY <1>1, <1>2, <1>4, StaysTyped
<1>6. \A r \in DOMAIN snapshots : r \in Class!Record
  BY <1>2, CommandsAssumption DEF SnapshotsType, Class!Record, Class!ClassAssumption
<1>7. moved \subseteq moved' /\ \A r \in DOMAIN snapshots \ moved' : mem'[r] = mem[r]
  BY <1>1, <1>2, <1>6
<1>8. /\ AsRead => AsRead'
      /\ BatchAwaited => BatchAwaited'
      /\ BatchPlaced => BatchPlaced'
  BY <1>1, <1>7, StayLemma
<1>9. (\A r \in DOMAIN snapshots \ moved : mem[r] = Class!ApplyMask(snapshots[r]))
        => (\A r \in DOMAIN snapshots \ moved : mem[r] = Class!ApplyMask(snapshots[r]))'
  BY <1>1, <1>7 DEF Class!ApplyMask
<1>10. Class!RecordsOf(pending) \subseteq lost => (Class!RecordsOf(pending) \subseteq lost)'
  BY <1>1 DEF Class!RecordsOf
<1>. QED
  BY <1>1, <1>5, <1>8, <1>9, <1>10 DEF ClassPhase

LEMMA InitClass == CommandsInit => ClassInvariant
<1>1. SUFFICES ASSUME CommandsInit, which = "class" PROVE ClassType /\ ClassPhase
  BY DEF ClassInvariant
<1>2. Class!Init
  BY <1>1 DEF CommandsInit
<1>3. /\ mem \in Initial /\ pending = <<>> /\ lost = {} /\ pc = "snapshot" /\ snapshots = <<>>
      /\ batch = 1 /\ applied = <<>> /\ moved = {}
  BY <1>2 DEF Class!Init
<1>4. mem \in [Class!Record -> ClassContent]
  <2>1. mem = [r \in Class!Record |-> mem[r]]
    BY <1>3, CommandsAssumption DEF Class!ClassAssumption, Class!Record
  <2>2. \A r \in Class!Record : mem[r] \in ClassContent
    BY <1>3 DEF ClassContent, Given
  <2>. QED
    BY <2>1, <2>2
<1>5. SnapshotsType /\ DOMAIN snapshots = {}
  BY <1>3, CommandsAssumption DEF SnapshotsType, Class!ClassAssumption
<1>6. ClassType
  BY <1>3, <1>4, <1>5 DEF ClassType
<1>7. AsRead
  BY <1>5 DEF AsRead
<1>. QED
  BY <1>3, <1>6, <1>7 DEF ClassPhase

LEMMA ClassStays ==
  ASSUME ClassType, ClassPhase,
         UNCHANGED <<mem, moved, pending, lost, pc, snapshots, batch, applied>>
  PROVE  ClassType' /\ ClassPhase'
<1>1. ClassType'
  BY StaysTyped DEF ClassType
<1>2. /\ AsRead => AsRead'
      /\ BatchAwaited => BatchAwaited'
      /\ BatchPlaced => BatchPlaced'
  BY StayLemma
<1>3. (\A r \in DOMAIN snapshots \ moved : mem[r] = Class!ApplyMask(snapshots[r]))
        => (\A r \in DOMAIN snapshots \ moved : mem[r] = Class!ApplyMask(snapshots[r]))'
  BY DEF Class!ApplyMask
<1>4. Class!RecordsOf(pending) \subseteq lost => (Class!RecordsOf(pending) \subseteq lost)'
  BY DEF Class!RecordsOf
<1>. QED
  BY <1>1, <1>2, <1>3, <1>4 DEF ClassPhase

LEMMA NextClass == ClassInvariant /\ [CommandsNext]_commandVars => ClassInvariant'
<1>1. CASE which # "class"
  BY <1>1 DEF ClassInvariant, CommandsNext, ScanStep, PipeStep, commandVars
<1>2. ASSUME ClassInvariant, which = "class", UNCHANGED commandVars PROVE ClassInvariant'
  <2>1. /\ ClassType /\ ClassPhase
        /\ UNCHANGED <<which, mem, moved, pending, lost, pc, snapshots, batch, applied>>
    BY <1>2 DEF ClassInvariant, commandVars, shared, classOnly
  <2>. QED
    BY <2>1, ClassStays DEF ClassInvariant
<1>3. ASSUME ClassInvariant, which = "class", CommandsNext PROVE ClassInvariant'
  <2>1. Class!Next /\ ClassType /\ ClassPhase
    BY <1>3 DEF CommandsNext, ScanStep, PipeStep, ClassInvariant
  <2>2. CASE Class!Ended
    BY <2>1, <2>2, ClassStays DEF Class!Ended, Class!vars, Class!hostVars, ClassInvariant
  <2>. QED
    BY <2>1, <2>2, SnapshotLemma, ForwardStep, VerifyStep, RolledBackStep, UndoStep,
       VerifyUndoneStep, LateStep, StoreStep
    DEF Class!Next, ClassInvariant
<1>. QED
  BY <1>1, <1>2, <1>3

\* For any number of records and any sizes of the batches, replaceLiveClass
\* (live-class-replace.cjs, lines 212 to 249) edits all of them or none: what
\* it reports is so for every record the game left alone and whose batch did
\* not fail half way.
THEOREM ClassIsReplacedWhollyOrNot == CommandsSpec => []ReplacementIsAllOrNothing
<1>1. ClassInvariant => ReplacementIsAllOrNothing
  <2>1. SUFFICES ASSUME ClassType, ClassPhase PROVE Class!ReplacementIsAllOrNothing
    BY DEF ClassInvariant, ReplacementIsAllOrNothing
  <2>2. pc = "applied_verified" =>
          \A r \in DOMAIN snapshots \ moved : mem[r] = Class!ApplyMask(snapshots[r])
    BY <2>1 DEF ClassPhase
  <2>3. pc \in {"LIVE_CLASS_APPLY_FAILED", "dry_run"} => AsRead
    BY <2>1 DEF ClassPhase
  <2>. QED
    BY <2>2, <2>3 DEF Class!ReplacementIsAllOrNothing, AsRead
<1>. QED
  BY <1>1, InitClass, NextClass, PTL DEF CommandsSpec
=============================================================================
