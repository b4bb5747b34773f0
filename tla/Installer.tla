------------------------------ MODULE Installer ------------------------------
(***************************************************************************)
(* packages/sdk/src/install.cjs: installHook puts the startup proxy in     *)
(* front of the proxy of the mod manager (MMC), in the game and in the     *)
(* folder the manager deploys from, and keeps MMC's as a backup;           *)
(* restoreMmcHook puts MMC's back.  A command is the list of steps its     *)
(* source awaits one after the other.  Any step may fail, the process may  *)
(* end between any two, and the manager may write its proxies at any time. *)
(* A file is known by its hash.                                            *)
(***************************************************************************)
EXTENDS Naturals, Sequences

CONSTANTS
  MaxCommands,   \* bound on the commands of a user, one after the other
  MaxUpdates     \* bound on the writes of the manager

Location == {"game", "manager"}
Artifact == {"host", "autorun"}

VARIABLES
  active,     \* location -> CryptBase.dll
  backup,     \* location -> MMCBase.dll
  installed,  \* artifact -> "new", "damaged" or "old" (or missing)
  steps,      \* the steps of the command still to be taken
  trouble,    \* rollbackErrors
  outcome,    \* "running", or how the last command ended
  found,      \* history: the active proxies when the command began
  updated,    \* history: locations the manager wrote since then
  commands, updates   \* bounds

files == <<active, backup, installed>>
vars == <<files, steps, trouble, outcome, found, updated, commands, updates>>

Step(op, at) == [op |-> op, at |-> at]

Backups == <<Step("backUp", "game"), Step("backUp", "manager")>>
Copies ==
  << Step("recognize", "both"), Step("putProxy", "game"), Step("putProxy", "manager"),
     Step("put", "host"), Step("put", "autorun"),
     Step("verifyProxy", "game"), Step("verifyProxy", "manager"),
     Step("verify", "host"), Step("verify", "autorun") >>

\* A plausible mistake: the backups are made when all has been copied.
BackupsLast == Copies \o Backups \o <<Step("report", "installed")>>

InstallSteps == Backups \o Copies \o <<Step("report", "installed")>>

RollBackOf(l) == <<Step("rollBack", l), Step("checkRollback", l)>>

\* A plausible mistake: the manager's folder is not rolled back.
RollsBackGame == RollBackOf("game") \o <<Step("report", "rolledBack")>>

\* What is left to do when a location is rolled back or cannot be.
RollbackAfter(l) ==
  (IF l = "game" THEN RollBackOf("manager") ELSE <<>>) \o <<Step("report", "rolledBack")>>

RollbackSteps == RollBackOf("game") \o RollbackAfter("game")

RestoreSteps ==
  << Step("verifyBackup", "game"), Step("verifyBackup", "manager"),
     Step("putBack", "game"), Step("putBack", "manager"),
     Step("verifyBack", "game"), Step("verifyBack", "manager"), Step("report", "restored") >>

-----------------------------------------------------------------------------
Init ==
  /\ active \in [Location -> {"mmc", "unknown", "none"}]
  /\ backup \in [Location -> {"none", "unknown"}]
  /\ installed = [a \in Artifact |-> "old"]
  /\ steps = <<>> /\ trouble = {} /\ outcome = "none"
  /\ found = active /\ updated = {} /\ commands = 0 /\ updates = 0

\* The game is closed and the artifacts exist, or the command is refused.
Begin(plan) ==
  /\ steps = <<>> /\ commands < MaxCommands
  /\ commands' = commands + 1
  /\ trouble' = {} /\ found' = active /\ updated' = {}
  /\ \/ steps' = plan /\ outcome' = "running"
     \/ steps' = <<>> /\ outcome' = "refused"
  /\ UNCHANGED <<files, updates>>

Install == Begin(InstallSteps)
Restore == Begin(RestoreSteps)

Op == Head(steps).op
At == Head(steps).at
Do(ops) == steps # <<>> /\ Op \in ops
Continue == steps' = Tail(steps) /\ UNCHANGED <<trouble, outcome, found, updated, commands, updates>>

\* atomicCopy: the destination is replaced by a rename once the copy of it is
\* complete; what was copied may be damaged.
Copied(file, at, content) ==
  \E c \in {content, "unknown"} : file' = [file EXCEPT ![at] = c]

\* ensureBackup: an existing backup has to be MMC's; without one, the active
\* proxy has to be, and is copied and the copy verified.
EnsureBackup ==
  /\ Do({"backUp"})
  /\ \/ backup[At] = "mmc" /\ steps' = Tail(steps)
     \/ /\ backup[At] = "none" /\ active[At] = "mmc"
        /\ steps' = <<Step("copyBackup", At), Step("verifyBackup", At)>> \o Tail(steps)
  /\ UNCHANGED <<files, trouble, outcome, found, updated, commands, updates>>

CopyBackup ==
  /\ Do({"copyBackup"}) /\ active[At] # "none"
  /\ Copied(backup, At, active[At])
  /\ UNCHANGED <<active, installed>>
  /\ Continue

\* The proxies of both locations are recognized before one is replaced, and
\* verifyHash checks the files that were copied.
AsExpected ==
  CASE Op = "recognize" -> \A l \in Location : active[l] \in {"mmc", "proxy"}
    [] Op = "verifyBackup" -> backup[At] = "mmc"
    [] Op = "verifyProxy" -> active[At] = "proxy"
    [] Op = "verify" -> installed[At] = "new"
    [] OTHER -> active[At] = "mmc"

Verify ==
  /\ Do({"recognize", "verifyBackup", "verifyProxy", "verify", "verifyBack", "checkRollback"})
  /\ AsExpected
  /\ UNCHANGED files
  /\ Continue

PutNew ==
  /\ \/ Do({"putProxy"}) /\ Copied(active, At, "proxy") /\ UNCHANGED installed
     \/ /\ Do({"put"}) /\ UNCHANGED active
        /\ \E c \in {"new", "damaged"} : installed' = [installed EXCEPT ![At] = c]
  /\ UNCHANGED backup
  /\ Continue

PutBackupBack ==
  /\ Do({"rollBack", "putBack"}) /\ backup[At] # "none"
  /\ Copied(active, At, backup[At])
  /\ UNCHANGED <<backup, installed>>
  /\ Continue

\* A file cannot be read, copied or renamed, or is not what it has to be: before
\* the first replacement the command is refused; a failed replacement rolls both
\* locations back; a location that cannot be is reported and the other one
\* tried; a restore stops where it is.
StepFails ==
  /\ \/ /\ Do({"backUp", "copyBackup", "recognize", "verifyBackup"})
        /\ steps' = <<>> /\ outcome' = "refused" /\ UNCHANGED trouble
     \/ /\ Do({"putProxy", "put", "verifyProxy", "verify"})
        /\ steps' = RollbackSteps /\ UNCHANGED <<outcome, trouble>>
     \/ /\ Do({"rollBack", "checkRollback"})
        /\ trouble' = trouble \cup {At}
        /\ steps' = RollbackAfter(At)
        /\ UNCHANGED outcome
     \/ /\ Do({"putBack", "verifyBack"})
        /\ steps' = <<>> /\ outcome' = "failed" /\ UNCHANGED trouble
  /\ UNCHANGED <<files, found, updated, commands, updates>>

Report ==
  /\ Do({"report"})
  /\ steps' = <<>> /\ outcome' = At
  /\ UNCHANGED <<files, trouble, found, updated, commands, updates>>

-----------------------------------------------------------------------------
\* The process of the command ends between two steps.
Crash ==
  /\ steps # <<>>
  /\ steps' = <<>> /\ outcome' = "crashed"
  /\ UNCHANGED <<files, trouble, found, updated, commands, updates>>

\* The manager deploys its proxy, or another version of it.
MmcUpdate ==
  /\ updates < MaxUpdates
  /\ updates' = updates + 1
  /\ \E l \in Location, c \in {"mmc", "unknown"} :
       /\ active' = [active EXCEPT ![l] = c]
       /\ updated' = updated \cup {l}
  /\ UNCHANGED <<backup, installed, steps, trouble, outcome, found, commands>>

\* The user gives no other command.
Done == steps = <<>> /\ commands = MaxCommands /\ UNCHANGED vars

Command ==
  \/ Install \/ Restore \/ EnsureBackup \/ CopyBackup \/ Verify \/ PutNew
  \/ PutBackupBack \/ StepFails \/ Report \/ Crash

Next == Command \/ MmcUpdate \/ Done

Spec == Init /\ [][Next]_vars

-----------------------------------------------------------------------------
\* inspectInstallation, what "status" says of the files.
Mode ==
  IF \/ \E l \in Location : backup[l] \notin {"none", "mmc"}
     \/ \E l \in Location : active[l] = "unknown"
  THEN "conflict"
  ELSE IF /\ \A l \in Location : active[l] = "proxy" /\ backup[l] = "mmc"
          /\ installed["host"] = "new"
  THEN "installed"
  ELSE IF \A l \in Location : active[l] = "mmc" THEN "restored" ELSE "partial"

HasMmc(l) == active[l] = "mmc" \/ backup[l] = "mmc"

\* Whatever fails and wherever the process ends, a command never takes from a
\* location the last copy of MMC's proxy: ensureBackup comes before the first
\* replacement, and a backup that exists is never written again.
MmcNeverLost ==
  [][files' # files /\ updates' = updates => \A l \in Location : HasMmc(l) => HasMmc(l)']_vars

\* docs/safety.md: "A failed install restores both verified MMC proxies."  Where
\* the manager has not written meanwhile, an install that was rolled back
\* without errors and a restore leave what "status" calls restored, a complete
\* install what it calls installed, and a refused command the proxies it found.
FailedInstallRestores ==
  /\ updated = {} /\ outcome \in {"installed", "restored"} => Mode = outcome
  /\ updated = {} /\ outcome = "rolledBack" /\ trouble = {} => Mode = "restored"
  /\ outcome = "rolledBack" =>
       \A l \in Location \ (trouble \cup updated) : active[l] = "mmc"
  /\ outcome = "refused" => \A l \in Location \ updated : active[l] = found[l]
=============================================================================
