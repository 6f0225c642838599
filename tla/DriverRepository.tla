-------------------------- MODULE DriverRepository --------------------------
(***************************************************************************)
(* The selection of a managed driver at one logical path: what the owner   *)
(* picked (the active row in SQLite, the link in active/, the pin that     *)
(* records a choice of an older version) and what runs (the link in        *)
(* effective/, or the release's own file).  The manager of                 *)
(* go/internal/driverrepo/manager.go and the handlers of                   *)
(* go/internal/api/api_device_repository.go that drive it.                 *)
(*                                                                         *)
(* The handlers hold one lock, so one operation runs at a time; every      *)
(* durable write of it is a step of its own, which may fail, and the       *)
(* process may stop between any two.  A version stands for its artifact    *)
(* and its SemVer; 0 is "none".                                            *)
(***************************************************************************)
EXTENDS Naturals, FiniteSets

CONSTANTS
    Versions,    \* the versions a repository offers or the disk retains
    Retired,     \* retained Device Support packages of an older Core
    Releases,    \* Core releases: [own |-> version shipped, replaces |-> BOOLEAN]
    MaxOps,      \* bound: operations the owner starts
    MaxStops,    \* bound: stops of the process (crash, update, restart)
    MaxFaults    \* bound: failing writes and damaged files

ASSUME RepositoryAssumption ==
    /\ Versions \subseteq Nat \ {0}
    /\ Retired \subseteq Versions
    /\ \A r \in Releases : r.own \in Nat /\ r.replaces \in BOOLEAN
    /\ MaxOps \in Nat /\ MaxStops \in Nat /\ MaxFaults \in Nat

VARIABLES
    kept,        \* versions with a row and a file on disk
    prev,        \* previous_installed_path of each row
    active,      \* the row with active = 1
    link,        \* what active/<path> points at
    effective,   \* what effective/<path> points at
    pin,         \* driver_repository/pinned/<path>
    prevPin,     \* the value the pin replaced
    bad,         \* retained files whose hash no longer matches
    saved,       \* the stored configuration names the replacing driver
    moved,       \* the running configuration does
    release,     \* the Core release that runs
    pc,          \* the next step of the process
    op,          \* the operation in progress
    before,      \* the selection when it started (history)
    result,      \* how the last one ended (history)
    torn,        \* a write failed and the code went on without it (history)
    wanted,      \* the older version the owner went back to (history)
    ops, stops, faults

records == <<kept, prev, active, link, effective, pin, prevPin, bad, saved>>
bounds  == <<ops, stops, faults>>
vars    == <<records, moved, release, pc, op, before, result, torn, wanted, bounds>>

Choices == Versions \cup {0}
NoOp == [kind |-> "none", go |-> 0, from |-> 0, mode |-> "forget", pinTo |-> 0, again |-> FALSE]

Steps == {"off", "reconcile", "dropRow", "retire", "first", "apply", "migrate", "save",
          "idle", "row", "link", "undo", "unlink", "unrow", "pin1", "pin2", "derive", "restart"}

(* A selection runs when the release has no copy or an older one, or when  *)
(* the owner chose it over something newer.                                *)
Runs(v, pinned, own) == own = 0 \/ v >= own \/ pinned = v

(* rebuildEffective: what effective/<path> is made to point at. *)
Derived(own) == IF active # 0 /\ Runs(active, pin, own) THEN active ELSE 0

(* Faulty variant of Choice: compares with the release's own copy only. *)
ChoiceOverRelease(go, previous) == IF release.own # 0 /\ go < release.own THEN go ELSE 0

(* recordChoice: the pin for go, when previous (0: none) was selected. *)
Choice(go, previous) ==
    LET own == release.own
        running == IF previous # 0 /\ Runs(previous, pin, own) /\ (own = 0 \/ previous > own)
                   THEN previous ELSE own
    IN  IF running # 0 /\ go < running THEN go ELSE 0

(* Faulty variant of PinFor: a rollback leaves no choice behind. *)
PinForForgetful == IF op.mode = "record" THEN Choice(op.go, op.from) ELSE 0

(* savePin's argument in recordChoice, restoreChoice and forgetChoice. *)
PinFor ==
    CASE op.mode = "record"  -> Choice(op.go, op.from)
      [] op.mode = "restore" -> prevPin
      [] op.mode = "forget"  -> 0

(* Faulty variant of Usable: the file is not hashed again. *)
UsableUnread(v) == v \in kept /\ v \notin Retired

(* validateInstalledFile and retiredPackage: v may be linked again. *)
Usable(v) == v \in kept /\ v \notin bad /\ v \notin Retired

(* ActivateDriverRepoInstall: one transaction. *)
ActivateRow(v) ==
    /\ kept' = kept \cup {v}
    /\ prev' = [prev EXCEPT ![v] = active]
    /\ active' = v

(* A write that may fail. *)
Fault == faults < MaxFaults /\ faults' = faults + 1
NoFault == faults' = faults

-----------------------------------------------------------------------------
(* The box is off; an older release left at most one selection behind. *)
Init ==
    /\ active \in Choices
    /\ kept = Retired \cup ({active} \ {0})
    /\ prev = [v \in Versions |-> 0]
    /\ link = active
    /\ pin = 0 /\ prevPin = 0 /\ bad = {}
    /\ saved = FALSE /\ moved = FALSE
    /\ release \in {r \in Releases : ~r.replaces}
    /\ effective = Derived(release.own)
    /\ pc = "off" /\ op = NoOp
    /\ before = [active |-> 0, pin |-> 0, effective |-> 0]
    /\ result = "none" /\ torn = FALSE /\ wanted = 0
    /\ ops = 0 /\ stops = 0 /\ faults = 0

-----------------------------------------------------------------------------
(* Operations the owner starts, one at a time (driverUpdateMu).            *)

Begin(o, next) ==
    /\ pc = "idle" /\ ops < MaxOps
    /\ ops' = ops + 1
    /\ op' = o /\ pc' = next /\ result' = "running"
    /\ before' = [active |-> active, pin |-> pin, effective |-> effective]
    /\ UNCHANGED <<moved, release, torn, wanted, stops, faults>>

(* Install: the artifact is fetched, verified and written before anything  *)
(* is recorded; every earlier error leaves the selection as it is.         *)
Install(v) ==
    /\ v \notin Retired
    /\ Begin([NoOp EXCEPT !.kind = "install", !.go = v, !.from = active, !.mode = "record"], "row")
    /\ bad' = bad \ {v}
    /\ UNCHANGED <<kept, prev, active, link, effective, pin, prevPin, saved>>

(* ActivateInstalled: any retained version. *)
ActivateInstalled(v) ==
    /\ Usable(v)
    /\ Begin([NoOp EXCEPT !.kind = "activate", !.go = v, !.from = active, !.mode = "record"], "row")
    /\ UNCHANGED records

(* The version Rollback puts back; 0 when it returns an error. *)
RollbackTarget ==
    IF active # 0 /\ prev[active] # 0 /\ Usable(prev[active]) THEN prev[active] ELSE 0

Rollback ==
    /\ RollbackTarget # 0
    /\ Begin([NoOp EXCEPT !.kind = "rollback", !.go = RollbackTarget, !.from = active,
                          !.mode = "restore"], "row")
    /\ UNCHANGED records

(* UseBundled: refused when the release has nothing at the path. *)
UseBundled ==
    /\ active # 0 /\ release.own # 0
    /\ Begin([NoOp EXCEPT !.kind = "bundled", !.from = active], "unlink")
    /\ UNCHANGED records

-----------------------------------------------------------------------------
(* How an operation ends.  When its recovery failed too the owner is told, *)
(* and nothing is expected of the selection from then on; an owner who     *)
(* asked for the release's own copy no longer holds on to a version.       *)
End(how) ==
    /\ op' = NoOp /\ pc' = "idle" /\ result' = how
    /\ wanted' = IF how = "lost" \/ op.kind = "bundled" THEN 0 ELSE wanted

(* Where an operation goes when one of its calls returns an error.  A      *)
(* recovery of an install that cannot roll back deactivates instead.       *)
GiveUp(how) ==
    IF op.again /\ op.kind = "install" /\ op.mode = "restore"
    THEN /\ op' = [op EXCEPT !.go = 0, !.mode = "forget"]
         /\ pc' = "unlink" /\ UNCHANGED <<result, wanted>>
    ELSE End(how)

(* Deactivate during start-up returns to the start-up, with a warning. *)
AfterDeactivate ==
    CASE op.kind = "retire"  -> "first"
      [] op.kind = "migrate" -> "save"
      [] OTHER -> "restart"

quiet == <<moved, release, before, ops, stops>>

StepRow ==
    /\ pc = "row"
    /\ \/ /\ ActivateRow(op.go) /\ pc' = "link" /\ NoFault
          /\ UNCHANGED <<op, result, wanted, link>>
       \/ /\ Fault /\ GiveUp(IF op.again THEN "lost" ELSE "failed")
          /\ UNCHANGED <<kept, prev, active, link>>
    /\ UNCHANGED <<quiet, effective, pin, prevPin, bad, saved, torn>>

(* commitSymlink: rename over active/<path>. *)
StepLink ==
    /\ pc = "link"
    /\ \/ link' = op.go /\ pc' = "pin1" /\ NoFault
       \/ Fault /\ pc' = "undo" /\ UNCHANGED link
    /\ UNCHANGED <<quiet, kept, prev, active, effective, pin, prevPin, bad, saved, op, result, torn, wanted>>

(* Faulty variant of UndoRow: the new row stays active. *)
UndoRowNever == UNCHANGED <<kept, prev, active>>

(* The rename failed: the row that was active is activated again. *)
UndoRow ==
    IF op.from # 0 THEN ActivateRow(op.from)
    ELSE active' = 0 /\ UNCHANGED <<kept, prev>>

StepUndo ==
    /\ pc = "undo"
    /\ \/ UndoRow /\ NoFault /\ UNCHANGED torn
       \/ Fault /\ torn' = TRUE /\ UNCHANGED <<kept, prev, active>>
    /\ GiveUp(IF op.again THEN "lost" ELSE "failed")
    /\ UNCHANGED <<quiet, link, effective, pin, prevPin, bad, saved>>

(* Deactivate: the link, then the row; an error between them is returned. *)
StepUnlink ==
    /\ pc = "unlink"
    /\ \/ link' = 0 /\ pc' = "unrow" /\ NoFault /\ UNCHANGED <<op, result, wanted, torn>>
       \/ /\ Fault /\ UNCHANGED link
          /\ IF AfterDeactivate = "restart"
             THEN GiveUp(IF op.again THEN "lost" ELSE "failed") /\ UNCHANGED torn
             ELSE pc' = AfterDeactivate /\ torn' = TRUE /\ UNCHANGED <<op, result, wanted>>
    /\ UNCHANGED <<quiet, kept, prev, active, effective, pin, prevPin, bad, saved>>

StepUnrow ==
    /\ pc = "unrow"
    /\ \/ active' = 0 /\ pc' = "pin1" /\ NoFault /\ UNCHANGED <<op, result, wanted, torn>>
       \/ /\ Fault /\ torn' = TRUE /\ UNCHANGED active
          /\ IF AfterDeactivate = "restart" THEN GiveUp("lost")
             ELSE pc' = AfterDeactivate /\ UNCHANGED <<op, result, wanted>>
    /\ UNCHANGED <<quiet, kept, prev, link, effective, pin, prevPin, bad, saved>>

(* savePin: two saves, the second after the first; errors are only logged. *)
StepPinPrevious ==
    /\ pc = "pin1" /\ pc' = "pin2"
    /\ op' = [op EXCEPT !.pinTo = PinFor]
    /\ \/ prevPin' = pin /\ NoFault /\ UNCHANGED torn
       \/ Fault /\ torn' = TRUE /\ UNCHANGED prevPin
    /\ UNCHANGED <<quiet, kept, prev, active, link, effective, pin, bad, saved, result, wanted>>

StepPin ==
    /\ pc = "pin2" /\ pc' = "derive"
    /\ \/ pin' = op.pinTo /\ NoFault /\ UNCHANGED torn
       \/ Fault /\ torn' = TRUE /\ UNCHANGED pin
    /\ UNCHANGED <<quiet, kept, prev, active, link, effective, prevPin, bad, saved, op, result, wanted>>

StepDerive ==
    /\ pc = "derive"
    /\ \/ effective' = Derived(release.own) /\ NoFault /\ UNCHANGED torn
       \/ Fault /\ torn' = TRUE /\ UNCHANGED effective
    /\ pc' = IF op.mode = "forget" THEN AfterDeactivate ELSE "restart"
    /\ UNCHANGED <<quiet, kept, prev, active, link, pin, prevPin, bad, saved, op, result, wanted>>

(* What ran when the operation started. *)
RanBefore == IF before.effective # 0 THEN before.effective ELSE release.own

(* restartManagedDrivers succeeds.  A version the owner went back to is    *)
(* remembered; moving on ends that.                                        *)
StepStarted ==
    /\ pc = "restart" /\ ~op.again
    /\ wanted' = IF op.kind \in {"install", "activate"} /\ op.go < RanBefore /\ ~torn
                 THEN op.go ELSE 0
    /\ op' = NoOp /\ pc' = "idle" /\ result' = "done"
    /\ UNCHANGED <<records, quiet, torn, faults>>

(* restartManagedDrivers fails: each handler's recovery. *)
Recovery ==
    CASE op.kind \in {"install", "rollback"} \/ (op.kind = "activate" /\ op.from # 0) ->
           IF RollbackTarget # 0
           THEN [op EXCEPT !.go = RollbackTarget, !.from = active, !.mode = "restore", !.again = TRUE]
           ELSE IF op.kind = "install"
           THEN [op EXCEPT !.go = 0, !.mode = "forget", !.again = TRUE] ELSE NoOp
      [] op.kind = "activate" /\ op.from = 0 ->
           [op EXCEPT !.go = 0, !.mode = "forget", !.again = TRUE]
      [] op.kind = "bundled" ->
           IF Usable(op.from)
           THEN [op EXCEPT !.go = op.from, !.from = active, !.mode = "record", !.again = TRUE]
           ELSE NoOp

StepNotStarted ==
    /\ pc = "restart" /\ ~op.again
    /\ IF Recovery = NoOp THEN End("lost")
       ELSE /\ op' = Recovery /\ pc' = IF Recovery.go # 0 THEN "row" ELSE "unlink"
            /\ UNCHANGED <<result, wanted>>
    /\ UNCHANGED <<records, quiet, torn, faults>>

(* The recovered driver is restarted; the selection stays either way. *)
StepRecovered ==
    /\ pc = "restart" /\ op.again
    /\ End(IF op.mode = "forget" /\ before.active # 0 THEN "lost" ELSE "failed")
    /\ UNCHANGED <<records, quiet, torn, faults>>

-----------------------------------------------------------------------------
(* A stop finds the version the owner asked for last in place of the one   *)
(* they had gone back to: the link names it, or the recovery that puts the *)
(* older one back has not renamed it again.                                *)
MovedOn ==
    /\ op.kind # "none"
    /\ IF op.again THEN op.kind = "bundled" \/ op.mode = "forget" \/ pc \in {"row", "link", "undo"}
       ELSE pc \notin {"row", "link", "undo", "unlink"}

(* A recovery renamed the link back and has not saved the pin that belongs *)
(* to it: Rollback between commitSymlink and the end of restoreChoice.  A  *)
(* stop here loses the owner's choice, which start-up does not repair.     *)
PinNotSaved == op.again /\ op.mode = "restore" /\ pc \in {"pin1", "pin2"}

(* The process ends, anywhere: a crash, an update or a plain restart.  A   *)
(* version the owner went back to is still theirs in the next process,     *)
(* except after the two stops above and a failed write passed over.        *)
Stop ==
    /\ pc # "off" /\ stops < MaxStops
    /\ pc' = "off" /\ stops' = stops + 1
    /\ op' = NoOp /\ result' = "none"
    /\ wanted' = IF MovedOn \/ PinNotSaved \/ torn THEN 0 ELSE wanted
    /\ UNCHANGED <<records, moved, release, before, torn, ops, faults>>

(* A retained file is lost or damaged while the box is off. *)
Damage(v) ==
    /\ pc = "off" /\ v \in kept \ bad
    /\ Fault
    /\ bad' = bad \cup {v}
    /\ wanted' = IF v = wanted THEN 0 ELSE wanted
    /\ UNCHANGED <<quiet, kept, prev, active, link, effective, pin, prevPin, saved, pc, op, result, torn>>

Boot(r) ==
    /\ pc = "off" /\ pc' = "reconcile"
    /\ release' = r /\ moved' = saved
    /\ wanted' = IF r.replaces THEN 0 ELSE wanted
    /\ UNCHANGED <<records, op, before, result, torn, bounds>>

(* reconcileActive's test of the link it found. *)
LinkIsValid == link # 0 /\ link \in kept /\ link \notin bad

(* reconcileActive: the link decides; without a sound one the row goes. *)
Reconcile ==
    /\ pc = "reconcile"
    /\ \/ /\ active = 0 \/ (LinkIsValid /\ link = active)
          /\ pc' = "retire" /\ NoFault
          /\ UNCHANGED <<kept, prev, active, link>>
       \/ /\ active # 0 /\ LinkIsValid /\ link # active
          /\ ActivateRow(link)
          /\ pc' = "retire" /\ NoFault /\ UNCHANGED link
       \/ /\ active # 0 /\ LinkIsValid /\ link # active /\ Fault
          /\ link' = 0 /\ pc' = "dropRow" /\ UNCHANGED <<kept, prev, active>>
       \/ /\ active # 0 /\ ~LinkIsValid
          /\ link' = 0 /\ pc' = "dropRow" /\ NoFault
          /\ UNCHANGED <<kept, prev, active>>
    /\ torn' = FALSE
    /\ wanted' = IF pc' = "dropRow" THEN 0 ELSE wanted
    /\ UNCHANGED <<quiet, effective, pin, prevPin, bad, saved, op, result>>

DropRow ==
    /\ pc = "dropRow" /\ pc' = "retire"
    /\ \/ active' = 0 /\ NoFault /\ UNCHANGED torn
       \/ Fault /\ torn' = TRUE /\ UNCHANGED active
    /\ UNCHANGED <<quiet, kept, prev, link, effective, pin, prevPin, bad, saved, op, result, wanted>>

(* retirePackages, before the release's own drivers are known. *)
RetirePackages ==
    /\ pc = "retire"
    /\ IF active \in Retired
       THEN pc' = "unlink" /\ op' = [NoOp EXCEPT !.kind = "retire", !.from = active]
       ELSE pc' = "first" /\ op' = NoOp
    /\ UNCHANGED <<records, quiet, result, torn, wanted, faults>>

(* NewWithHostVersion's rebuildEffective: bundledDir is not set yet. *)
DeriveFirst ==
    /\ pc = "first" /\ pc' = "apply"
    /\ effective' = Derived(0)
    /\ op' = NoOp
    /\ UNCHANGED <<quiet, kept, prev, active, link, pin, prevPin, bad, saved, result, torn, wanted, faults>>

ApplyBundled ==
    /\ pc = "apply" /\ pc' = "migrate"
    /\ effective' = Derived(release.own)
    /\ UNCHANGED <<quiet, kept, prev, active, link, pin, prevPin, bad, saved, op, result, torn, wanted, faults>>

(* MigrateReplaced: the configuration in memory names the replacing file,  *)
(* the selection ends, and the caller saves the configuration afterwards.  *)
MigrateReplaced ==
    /\ pc = "migrate"
    /\ IF release.replaces /\ active # 0
       THEN /\ moved' = TRUE /\ pc' = "unlink"
            /\ op' = [NoOp EXCEPT !.kind = "migrate", !.from = active]
       ELSE pc' = "idle" /\ UNCHANGED <<moved, op>>
    /\ UNCHANGED <<records, release, before, result, torn, wanted, bounds>>

(* config.SaveStored, an error of which is only logged. *)
SaveMoved ==
    /\ pc = "save" /\ pc' = "idle"
    /\ \/ saved' = moved /\ NoFault
       \/ Fault /\ UNCHANGED saved
    /\ op' = NoOp
    /\ UNCHANGED <<quiet, kept, prev, active, link, effective, pin, prevPin, bad, result, torn, wanted>>

-----------------------------------------------------------------------------
Next ==
    \/ \E v \in Versions : Install(v) \/ ActivateInstalled(v) \/ Damage(v)
    \/ Rollback \/ UseBundled
    \/ StepRow \/ StepLink \/ StepUndo \/ StepUnlink \/ StepUnrow
    \/ StepPinPrevious \/ StepPin \/ StepDerive
    \/ StepStarted \/ StepNotStarted \/ StepRecovered
    \/ Stop
    \/ \E r \in Releases : Boot(r)
    \/ Reconcile \/ DropRow \/ RetirePackages \/ DeriveFirst \/ ApplyBundled
    \/ MigrateReplaced \/ SaveMoved

Spec == Init /\ [][Next]_vars

-----------------------------------------------------------------------------
(* The records have the shape the schema and the directories give them. *)
TypeOK ==
    /\ kept \subseteq Versions /\ bad \subseteq Versions
    /\ prev \in [Versions -> Choices]
    /\ active \in Choices /\ link \in Choices /\ effective \in Choices
    /\ (active # 0 => active \in kept) /\ (link # 0 => link \in kept)
    /\ pin \in Choices /\ prevPin \in Choices /\ wanted \in Choices
    /\ saved \in BOOLEAN /\ moved \in BOOLEAN /\ torn \in BOOLEAN
    /\ release \in Releases /\ pc \in Steps
    /\ op.go \in Choices /\ op.from \in Choices /\ op.pinTo \in Choices
    /\ result \in {"none", "running", "done", "failed", "lost"}

(* Whenever no operation is in progress, the row, the link and what runs   *)
(* agree: after an operation that failed at any write and was undone, and  *)
(* after a stop anywhere and the start-up that follows, the owner sees as  *)
(* selected what the resolver runs.  Only a failed write that the code     *)
(* goes on without (torn) may part them, until the next start.             *)
ResolverFollowsSelection ==
    (pc = "idle" /\ ~torn) => (link = active /\ effective = Derived(release.own))

(* Nothing damaged while the box was off and no retired package runs:      *)
(* every way back to a retained artifact hashes it again, and so does the  *)
(* start-up.                                                               *)
OnlySoundArtifactsRun ==
    (pc = "idle" /\ ~torn /\ effective # 0) => effective \in kept \ (bad \cup Retired)

(* An install, a switch of version or a rollback that failed and was       *)
(* recovered leaves the selection, what runs and the owner's choice of an  *)
(* older version as they were.                                             *)
FailedUpdateRestores ==
    [][(pc # "idle" /\ pc' = "idle" /\ result' = "failed" /\ op.kind # "bundled" /\ ~torn') =>
         /\ active' = before.active /\ effective' = before.effective
         /\ (active' # 0 => pin' = before.pin)]_vars

(* A version the owner went back to from a newer one keeps running, across *)
(* later operations that failed or were cut off by a stop, and across      *)
(* starts of any release, until the owner moves on, asks for the release's *)
(* own copy, or its file or its row is lost.  Not covered, because the     *)
(* code loses the choice there: a stop while a recovery has put the link   *)
(* back and not yet the pin (PinNotSaved), and a failed write that the     *)
(* code only logs, followed by a stop.                                     *)
GoingBackStays ==
    (pc = "idle" /\ wanted # 0 /\ ~torn) => effective = wanted

\* Row, link and what runs are well formed and agree whenever no operation is in
\* progress.
RecordsAgree == TypeOK /\ ResolverFollowsSelection
=============================================================================
