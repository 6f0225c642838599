---------------------------- MODULE ReleaseSlots ----------------------------
(***************************************************************************)
(* The native release slots (go/internal/nativeupdate/slots.go,            *)
(* probation.go, install.go), the launcher that systemd starts             *)
(* (go/cmd/ftw-launcher/main.go), the trial of the Core it executes        *)
(* (go/cmd/ftw/native_update.go) and the update and rollback requests of a *)
(* running Core (go/internal/selfupdate/selfupdate.go,                     *)
(* go/internal/api/api_selfupdate.go).                                     *)
(*                                                                         *)
(* slots.json is replaced by one rename under a file lock, so each change  *)
(* of it is one step; the processes around it can be killed between any    *)
(* two steps.  A release tag is a number, a newer release a larger one,    *)
(* and the empty string of the code is NoTag.                              *)
(***************************************************************************)
EXTENDS Naturals, FiniteSets

CONSTANTS
    Tags,        \* releases that exist
    Schema,      \* the state schema each release's receipt names
    CrashLimit,  \* crashLimit
    MaxDamage    \* bound: releases whose files are damaged at one time

NoTag == 0

ASSUME ReleaseSlotsAssumption ==
    /\ Tags \subseteq Nat \ {NoTag}
    /\ Schema \in [Tags -> Nat \ {0}]
    /\ CrashLimit \in Nat \ {0}
    /\ MaxDamage \in Nat

VARIABLES
    \* --- slots.json
    current, previous, next, trial, lastFailed,
    probation,   \* Probation.Tag, or NoTag without a Probation
    crashes,     \* the number of entries of Probation.Crashes, up to CrashLimit
    old,         \* how many of them are older than crashWindow
    expired,     \* Probation.Until has passed
    \* --- the other files
    mark,        \* .clean-exit: the tag in it, or NoTag without the file
    disk,        \* what releases/<tag> holds
    data,        \* the schema of the state database, 0 before a first start
    \* --- the launcher and the Core it becomes
    pc,          \* where the process stands
    run,         \* the release selected or running
    runTrial,    \* it was started as a trial (FTW_NATIVE_TRIAL_TAG)
    second,      \* the launcher is past its first failed trial
    \* --- update and rollback requests of the running Core
    op,          \* progress of the request that holds versionUpdateMu
    target,      \* the release it is about
    \* --- history
    ready,       \* releases of init, or that have finished a control tick
    hurt,        \* releases whose files something outside FTW damaged
    lastStop,    \* how the last Core process ended
    unclean,     \* failed starts and unclean stops since the last commit
    fellBack     \* the launcher fell back from a damaged current release

slots    == <<current, previous, next, trial, lastFailed>>
watch    == <<probation, crashes, old, expired>>
files    == <<mark, disk, data>>
process  == <<pc, run, runTrial, second>>
request  == <<op, target>>
history  == <<ready, hurt, lastStop, unclean, fellBack>>
vars == <<slots, watch, files, process, request, history>>

-----------------------------------------------------------------------------
(* Types and initial state *)

Slot == Tags \cup {NoTag}

\* The process that systemd keeps alive: the launcher up to "again", then Core.
Pcs == {"none", "down", "chosen", "exec", "execFailed", "again",
        "starting", "running", "committed", "up"}

TypeOK ==
    /\ current \in Slot /\ previous \in Slot /\ next \in Slot
    /\ trial \in Slot /\ lastFailed \in Slot /\ probation \in Slot
    /\ crashes \in 0..CrashLimit /\ old \in 0..crashes /\ expired \in BOOLEAN
    /\ mark \in Slot
    /\ disk \in [Tags -> {"absent", "sound", "damaged", "broken"}]
    /\ data \in Nat
    /\ pc \in Pcs /\ run \in Slot /\ runTrial \in BOOLEAN /\ second \in BOOLEAN
    /\ op \in {"idle", "installing", "installed", "checked", "prepared", "restarting"}
    /\ target \in Slot
    /\ ready \subseteq Tags /\ hurt \subseteq Tags
    /\ lastStop \in {"clean", "unclean"} /\ unclean \in 0..CrashLimit /\ fellBack \in BOOLEAN

\* An empty install root, before `ftw-launcher install` and `init`.
Init ==
    /\ current = NoTag /\ previous = NoTag /\ next = NoTag
    /\ trial = NoTag /\ lastFailed = NoTag
    /\ probation = NoTag /\ crashes = 0 /\ old = 0 /\ expired = FALSE
    /\ mark = NoTag /\ disk = [t \in Tags |-> "absent"] /\ data = 0
    /\ pc = "none" /\ run = NoTag /\ runTrial = FALSE /\ second = FALSE
    /\ op = "idle" /\ target = NoTag
    /\ ready = {} /\ hurt = {}
    /\ lastStop = "clean" /\ unclean = 0 /\ fellBack = FALSE

-----------------------------------------------------------------------------
(* Releases on disk *)

\* ReleaseDir succeeds: every file is there and the receipt is valid.
Sound(t) == t \in Tags /\ disk[t] = "sound"

\* readReceipt succeeds; the rest of the release may be damaged.
HasReceipt(t) == t \in Tags /\ disk[t] \in {"sound", "damaged"}

AnySchema(s, t) == HasReceipt(s) /\ HasReceipt(t)   \* faulty variant

SameSchema(s, t) == HasReceipt(s) /\ HasReceipt(t) /\ Schema[s] = Schema[t]

\* Select holds the lock from its first write to its last.
Unlocked == pc # "chosen"

\* InstallArchive on a host without the release: staged, then renamed.
InstallArchive(t) ==
    /\ disk[t] = "absent" /\ Unlocked
    /\ disk' = [disk EXCEPT ![t] = "sound"] /\ hurt' = hurt \ {t}
    /\ UNCHANGED <<slots, watch, mark, data, process, request,
                   ready, lastStop, unclean, fellBack>>

InitSlots(t) ==
    /\ pc = "none" /\ Sound(t)
    /\ current' = t /\ pc' = "down" /\ ready' = {t}
    /\ UNCHANGED <<previous, next, trial, lastFailed, watch, files, run, runTrial, second,
                   request, hurt, lastStop, unclean, fellBack>>

\* The releases Prune removes.
PruneForgetsPrevious == {t \in Tags : disk[t] # "absent"} \ {current, next, lastFailed}  \* faulty

Removable == {t \in Tags : disk[t] # "absent"} \ {current, previous, next, lastFailed}

\* A removal that fails or is killed half way leaves releases behind, the
\* last of them in pieces.
RemoveReleases ==
    \E gone \in SUBSET Removable : \E torn \in {{}} \cup {{t} : t \in Removable \ gone} :
      \E rest \in {"damaged", "broken"} :
        disk' = [t \in Tags |-> IF t \in gone THEN "absent"
                                ELSE IF t \in torn THEN rest ELSE disk[t]]

\* Prune refuses during a trial, and while current or previous are damaged.
MayPrune == trial = NoTag /\ Sound(current) /\ (previous # NoTag => Sound(previous))

Prune ==
    /\ pc # "none" /\ Unlocked /\ MayPrune
    /\ RemoveReleases
    /\ UNCHANGED <<slots, watch, mark, data, process, request, history>>

\* Outside the code: a file of a release is lost or unreadable.
Damage(t) ==
    /\ pc # "none" /\ Sound(t) /\ Cardinality(hurt) < MaxDamage
    /\ \E rest \in {"damaged", "broken"} : disk' = [disk EXCEPT ![t] = rest]
    /\ hurt' = hurt \cup {t}
    /\ UNCHANGED <<slots, watch, mark, data, process, request,
                   ready, lastStop, unclean, fellBack>>

-----------------------------------------------------------------------------
(* The launcher: Select *)

\* rollbackCandidateLocked: there is a previous release that reads the data.
CanRollback ==
    /\ previous # NoTag /\ next = NoTag /\ trial = NoTag
    /\ Sound(previous) /\ Sound(current) /\ SameSchema(current, previous)

\* fallbackCandidateLocked: the previous release, for a damaged current one.
CanFallBackAgain == previous # NoTag /\ Sound(previous) /\ SameSchema(current, previous) \* faulty

CanFallBack ==
    /\ previous # NoTag /\ previous # lastFailed
    /\ Sound(previous) /\ SameSchema(current, previous)

SelectOnly == UNCHANGED <<disk, data, request, ready, hurt, lastStop, unclean, fellBack>>

MarkIsKept == UNCHANGED mark   \* faulty variant: the mark is read, not removed

TakeCleanExit == mark' = NoTag

\* The launcher starts, or starts over after a trial it could not execute.
StartSelect(asTrial) ==
    /\ pc \in {"down", "again"} /\ pc' = "chosen"
    /\ second' = (pc = "again")
    /\ runTrial' = asTrial
    /\ TakeCleanExit
    /\ UNCHANGED run
    /\ SelectOnly

\* An uncommitted trial: its process ended, so it failed.
TrialTakenOver ==   \* faulty variant: a trial that has started is current
    previous' = current /\ current' = trial /\ trial' = NoTag /\ UNCHANGED <<next, lastFailed>>

TrialTriedAgain ==   \* faulty variant: it is only put back in line
    next' = trial /\ trial' = NoTag /\ UNCHANGED <<current, previous, lastFailed>>

TrialFailed ==
    lastFailed' = trial /\ trial' = NoTag /\ next' = NoTag /\ UNCHANGED <<current, previous>>

SelectAfterTrial ==
    /\ trial # NoTag
    /\ StartSelect(FALSE)
    /\ TrialFailed
    /\ UNCHANGED watch

SelectNext ==
    /\ trial = NoTag /\ next # NoTag
    /\ StartSelect(Sound(next))
    /\ IF Sound(next) THEN trial' = next /\ UNCHANGED lastFailed
                      ELSE lastFailed' = next /\ UNCHANGED trial
    /\ next' = NoTag
    /\ UNCHANGED <<current, previous, watch>>

NoProbation == probation' = NoTag /\ crashes' = 0 /\ old' = 0 /\ expired' = FALSE

\* watchProbation counts this start unless the stop before it was clean;
\* the entry that reaches crashLimit returns to the previous release.
Recent == crashes - old + 1

\* Only whether crashLimit is reached matters: the newest crashLimit entries
\* stand for the whole list.
Kept(n) == IF n < CrashLimit THEN n ELSE CrashLimit

RecordCrash == crashes' = Kept(Recent) /\ old' = 0

CountsEveryStart == TRUE   \* faulty variant: a clean stop counts too

CountsAsCrash == mark # current

WatchProbation ==
    \/ /\ probation = NoTag
       /\ UNCHANGED <<current, previous, lastFailed, watch>>
    \/ /\ probation # NoTag /\ (probation # current \/ expired)
       /\ NoProbation /\ UNCHANGED <<current, previous, lastFailed>>
    \/ /\ probation = current /\ probation # NoTag /\ ~expired
       /\ \/ /\ ~CountsAsCrash
             /\ UNCHANGED <<current, previous, lastFailed, watch>>
          \/ /\ CountsAsCrash /\ (Recent < CrashLimit \/ ~CanRollback)
             /\ RecordCrash
             /\ UNCHANGED <<probation, expired, current, previous, lastFailed>>
          \/ /\ CountsAsCrash /\ Recent >= CrashLimit /\ CanRollback
             /\ lastFailed' = current /\ current' = previous /\ previous' = NoTag
             /\ NoProbation

SelectCurrent ==
    /\ trial = NoTag /\ next = NoTag
    /\ StartSelect(FALSE)
    /\ WatchProbation
    /\ UNCHANGED <<next, trial>>

\* One more failed start or unclean stop, counted up to CrashLimit.
More(n) == IF n < CrashLimit THEN n + 1 ELSE n

SelectedAfterFailure ==   \* faulty variant: a failed update goes back past current
    IF runTrial THEN trial ELSE IF lastFailed # NoTag THEN previous ELSE current

Selected == IF runTrial THEN trial ELSE current

\* Select's last part, under the same lock: the release to run, or the
\* previous one as a trial when current is damaged.
ChooseRelease ==
    /\ pc = "chosen"
    /\ \/ /\ Sound(Selected) /\ pc' = "exec" /\ run' = Selected
          /\ UNCHANGED <<runTrial, trial, lastFailed, unclean, fellBack>>
       \/ /\ ~Sound(Selected) /\ ~runTrial /\ CanFallBack
          /\ lastFailed' = IF lastFailed = NoTag THEN current ELSE lastFailed
          /\ trial' = previous /\ run' = previous /\ runTrial' = TRUE
          /\ pc' = "exec" /\ fellBack' = TRUE /\ UNCHANGED unclean
       \/ /\ ~Sound(Selected) /\ (runTrial \/ ~CanFallBack)
          /\ pc' = "down" /\ run' = NoTag /\ runTrial' = FALSE /\ unclean' = More(unclean)
          /\ UNCHANGED <<trial, lastFailed, fellBack>>
    /\ UNCHANGED <<current, previous, next, watch, files, second, request,
                   ready, hurt, lastStop>>

-----------------------------------------------------------------------------
(* The launcher: exec *)

\* The process ends: what it held in memory is gone.
Ends(how) ==
    /\ pc' = "down" /\ run' = NoTag /\ runTrial' = FALSE /\ second' = FALSE
    /\ op' = "idle" /\ target' = NoTag
    /\ lastStop' = how
    /\ unclean' = IF how = "unclean" THEN More(unclean) ELSE unclean

ExecRelease ==
    /\ pc = "exec" /\ pc' = "starting"
    /\ UNCHANGED <<slots, watch, files, run, runTrial, second, request, history>>

\* The exec of a trial failed: it is marked and the launcher selects again.
ExecFails ==
    /\ pc = "exec"
    /\ IF runTrial
       THEN /\ pc' = "execFailed" /\ unclean' = More(unclean)
            /\ UNCHANGED <<run, runTrial, second, request, lastStop>>
       ELSE Ends("unclean")
    /\ UNCHANGED <<slots, watch, files, ready, hurt, fellBack>>

FailTrial ==
    /\ pc = "execFailed"
    /\ IF trial = run
       THEN /\ trial' = NoTag /\ lastFailed' = run
            /\ pc' = IF second THEN "down" ELSE "again"
       ELSE UNCHANGED <<trial, lastFailed>> /\ pc' = "down"
    /\ run' = NoTag /\ runTrial' = FALSE /\ second' = FALSE
    /\ UNCHANGED <<current, previous, next, watch, files, request,
                   ready, hurt, lastStop, unclean, fellBack>>

-----------------------------------------------------------------------------
(* Core: from its start to the first control tick *)

\* beginNativeTrial, then the state database is opened and migrated.
PreflightOK == IF runTrial THEN trial = run /\ current # run ELSE current = run

BeginNativeTrial ==
    /\ pc = "starting"
    /\ IF PreflightOK
       THEN /\ pc' = "running" /\ data' = Schema[run]
            /\ UNCHANGED <<run, runTrial, second, request, lastStop, unclean>>
       ELSE Ends("unclean") /\ UNCHANGED data
    /\ UNCHANGED <<slots, watch, mark, disk, ready, hurt, fellBack>>

CommitKeepsTrial ==   \* faulty variant
    /\ previous' = current /\ current' = run
    /\ lastFailed' = IF lastFailed = run THEN NoTag ELSE lastFailed
    /\ UNCHANGED <<next, trial>>

CommitSlots ==
    /\ previous' = current /\ current' = run /\ trial' = NoTag
    /\ lastFailed' = IF lastFailed = run THEN NoTag ELSE lastFailed
    /\ UNCHANGED next

\* tickDone: the first tick commits a trial.
FirstTick ==
    /\ pc = "running" /\ ~runTrial
    /\ pc' = "up" /\ ready' = ready \cup {run}
    /\ UNCHANGED <<slots, watch, files, run, runTrial, second, request,
                   hurt, lastStop, unclean, fellBack>>

Commit ==
    /\ pc = "running" /\ runTrial
    /\ IF trial = run /\ run # current /\ Sound(run)
       THEN /\ CommitSlots
            /\ probation' = run /\ crashes' = 0 /\ old' = 0 /\ expired' = FALSE
            /\ unclean' = 0 /\ fellBack' = FALSE
            /\ pc' = "committed" /\ runTrial' = FALSE
            /\ UNCHANGED <<run, second, request, lastStop>>
       ELSE Ends("unclean") /\ UNCHANGED <<slots, watch, fellBack>>
    /\ ready' = ready \cup {run}
    /\ UNCHANGED <<files, hurt>>

\* The rest of complete: a prune that fails is only logged.
PruneAfterCommit ==
    /\ pc = "committed" /\ pc' = "up"
    /\ IF MayPrune THEN RemoveReleases ELSE UNCHANGED disk
    /\ UNCHANGED <<slots, watch, mark, data, run, runTrial, second, request, history>>

\* nativeTrialTimeout passed before the first tick.
TrialTimesOut ==
    /\ pc = "running" /\ runTrial
    /\ Ends("unclean")
    /\ UNCHANGED <<slots, watch, files, ready, hurt, fellBack>>

-----------------------------------------------------------------------------
(* The end of a process, and time *)

Alive == {"starting", "running", "committed", "up"}

\* SIGTERM or a restart asked for: markNativeCleanExit, then exit.
CleanStop ==
    /\ pc \in Alive
    /\ mark' = run
    /\ Ends("clean")
    /\ UNCHANGED <<slots, watch, disk, data, ready, hurt, fellBack>>

\* A crash, a kill or a power cut, of Core or of the launcher.
Crash ==
    /\ pc \notin {"none", "down"}
    /\ Ends("unclean")
    /\ UNCHANGED <<slots, watch, files, ready, hurt, fellBack>>

\* Power is cut in Select after the mark is removed, before slots.json is
\* replaced.
CutAfterMark ==
    /\ pc = "down" /\ mark # NoTag /\ mark' = NoTag
    /\ Ends("unclean")
    /\ UNCHANGED <<slots, watch, disk, data, ready, hurt, fellBack>>

CrashesAge ==
    /\ probation # NoTag
    /\ \/ old < crashes /\ old' \in (old + 1)..crashes /\ UNCHANGED expired
       \/ ~expired /\ expired' = TRUE /\ UNCHANGED old
    /\ UNCHANGED <<slots, probation, crashes, files, process, request, history>>

-----------------------------------------------------------------------------
(* Update and rollback requests of the running Core *)

RequestOnly == UNCHANGED <<watch, files, process, ready, hurt, lastStop, unclean>>

\* handleVersionUpdate and the head of TriggerUpdate, for whatever release the
\* channel has as its newest by now.  FullBackupRequired
\* reads the schema from the release notes, which may name any number; the
\* receipt decides in Prepare.  Once a restart is asked for, one more request
\* could at most install a release: Prepare finds the pending one.
HandleVersionUpdate(latest, retry) ==
    /\ pc \in {"running", "committed", "up"} /\ op = "idle"
    /\ latest > run /\ Sound(current)
    /\ lastFailed = latest => retry
    /\ op' = "installing" /\ target' = latest
    /\ UNCHANGED <<slots, fellBack>> /\ RequestOnly

GiveUp == op' = "idle" /\ target' = NoTag

\* Downloader.Install: a release that is on disk is taken as it is, and a
\* damaged one refuses the update.
InstallTarget ==
    /\ op = "installing" /\ Unlocked
    /\ \/ /\ disk[target] \in {"absent", "sound"}
          /\ disk' = [disk EXCEPT ![target] = "sound"]
          /\ hurt' = hurt \ {target} /\ op' = "installed" /\ UNCHANGED target
       \/ GiveUp /\ UNCHANGED <<disk, hurt>>
    /\ UNCHANGED <<slots, watch, mark, data, process, ready, lastStop,
                   unclean, fellBack>>

\* Prepare looks at the candidate before it takes the lock.
CheckTarget ==
    /\ op = "installed"
    /\ IF Sound(target) THEN op' = "checked" /\ UNCHANGED target ELSE GiveUp
    /\ UNCHANGED <<slots, fellBack>> /\ RequestOnly

PrepareAllowed ==
    /\ trial = NoTag /\ next = NoTag /\ target # current
    /\ Sound(current) /\ SameSchema(current, target)

Prepare ==
    /\ op = "checked" /\ Unlocked
    /\ IF PrepareAllowed
       THEN /\ next' = target /\ lastFailed' = NoTag /\ fellBack' = FALSE
            /\ op' = "prepared" /\ UNCHANGED target
       ELSE GiveUp /\ UNCHANGED <<next, lastFailed, fellBack>>
    /\ UNCHANGED <<current, previous, trial>> /\ RequestOnly

\* TriggerNativeRollback up to PrepareRollback, and `ftw-launcher rollback`.
\* The API also refuses while the saved status says an update runs; the
\* command does not, so the slots see the same requests.
PrepareRollback ==
    /\ pc # "none" /\ Unlocked /\ CanRollback
    /\ next' = previous /\ fellBack' = FALSE
    /\ \/ /\ pc \in {"running", "committed", "up"} /\ op = "idle"
          /\ op' = "prepared" /\ target' = previous
       \/ UNCHANGED request
    /\ UNCHANGED <<current, previous, trial, lastFailed>> /\ RequestOnly

\* The saved status could be written: the restart follows.
AskRestart ==
    /\ op = "prepared" /\ op' = "restarting"
    /\ UNCHANGED <<target, slots, fellBack>> /\ RequestOnly

\* The saved status could not be written.
CancelPrepared ==
    /\ op = "prepared" /\ Unlocked
    /\ IF next = target /\ trial = NoTag
       THEN next' = NoTag /\ lastFailed' = target
       ELSE UNCHANGED <<next, lastFailed>>
    /\ GiveUp
    /\ UNCHANGED <<current, previous, trial, fellBack>> /\ RequestOnly

-----------------------------------------------------------------------------
(* The specification *)

LauncherSteps ==
    \/ SelectAfterTrial \/ SelectNext \/ SelectCurrent \/ ChooseRelease
    \/ ExecRelease \/ FailTrial

CoreSteps == BeginNativeTrial \/ FirstTick \/ Commit \/ PruneAfterCommit

Faults == Crash \/ CutAfterMark \/ ExecFails \/ TrialTimesOut \/ \E t \in Tags : Damage(t)

Requests ==
    \/ \E t \in Tags : InstallArchive(t) \/ InitSlots(t)
    \/ \E t \in Tags, retry \in BOOLEAN : HandleVersionUpdate(t, retry)
    \/ InstallTarget \/ CheckTarget \/ Prepare \/ PrepareRollback
    \/ AskRestart \/ CancelPrepared \/ Prune

Next == LauncherSteps \/ CoreSteps \/ Faults \/ CleanStop \/ CrashesAge \/ Requests

Spec == Init /\ [][Next]_vars

\* systemd restarts the launcher whenever its process ends (Restart=always),
\* a Core that starts reaches its first tick or, as a trial, its deadline,
\* and the control loop takes the restart a request asked for.
Fairness ==
    /\ WF_vars(LauncherSteps)
    /\ WF_vars(BeginNativeTrial)
    /\ WF_vars(FirstTick \/ Commit \/ TrialTimesOut)
    /\ WF_vars(PruneAfterCommit)
    /\ WF_vars(op = "restarting" /\ CleanStop)
    /\ WF_vars(AskRestart \/ CancelPrepared)

FairSpec == Spec /\ Fairness

-----------------------------------------------------------------------------
(* Properties *)

\* A release only ever runs on a database of its own state schema, whatever
\* updates, rollbacks, fallbacks and crash loops chose it (Prepare,
\* rollbackCandidateLocked, fallbackCandidateLocked): a binary rollback
\* keeps the data in place and must be able to read it.
DataIsReadable == pc \in Alive => data \in {0, Schema[run]}

\* The release the box starts, and the one it keeps as the way back, have run
\* a control loop on this box or were put there by `init` (tickDone, Commit):
\* no crash or restart makes a release current that never became ready.
OnlyReadyReleasesAreKept == {current, previous} \subseteq ready \cup {NoTag}

\* Nothing FTW does takes away a release it may have to start: the current and
\* the previous release and a running trial are complete on disk unless
\* something else damaged them, even when a prune is cut off half way or
\* runs between the steps of an update.
SlotsAreComplete ==
    \A t \in {current, previous, trial} \ {NoTag} : Sound(t) \/ t \in hurt

\* The process and the slots agree about what runs (Select, beginNativeTrial):
\* a trial is the release the slots call trial, every other process is the
\* current release with no trial pending.  So the preflight of a release the
\* launcher started never refuses it.
ProcessMatchesSlots ==
    pc \in Alive \cup {"exec"} =>
      IF runTrial THEN trial = run /\ current # run ELSE current = run /\ trial = NoTag

\* A clean-exit mark speaks for the last stop and for that one only
\* (MarkCleanExit, takeCleanExit): while a process runs there is no mark that
\* could excuse its crash.
MarkIsOfTheLastStop == mark # NoTag => pc = "down" /\ lastStop = "clean"

\* The launcher gives up the current release for the previous one only after
\* crashLimit starts that failed or ended without a clean stop since it
\* committed (watchProbation); otherwise only a commit changes current.
FallbackNeedsACrashLoop ==
    [][current' # current =>
         \/ current = NoTag
         \/ pc = "running" /\ current' = trial
         \/ unclean = CrashLimit /\ lastFailed' = current]_vars

\* A fallback from a damaged current release gets one attempt: when the
\* previous release dies too, the launcher does not start it again until an
\* update, a rollback or a commit came between (Select).
FallbackRunsOnce ==
    [][pc = "chosen" /\ trial = NoTag /\ trial' # NoTag => ~fellBack]_vars

\* An update or rollback that asked for its restart is decided: it commits or
\* is given up, and no release stays pending.
UpdateIsDecided == op = "restarting" ~> next = NoTag /\ trial = NoTag

\* The current release is damaged and nothing can stand in for it.
Stranded == ~Sound(current) /\ ~CanFallBack

\* Once faults and stops from outside cease, the box runs a control loop
\* again, unless no release is left that it may start.
ComesBack ==
    <>[][~Faults /\ ~(CleanStop /\ op # "restarting")]_vars
      => (pc = "down" ~> pc \in {"committed", "up"} \/ Stranded)

\* What the box may have to start is complete, and current and previous have
\* proved themselves on it.
KeptReleasesAreSound == OnlyReadyReleasesAreKept /\ SlotsAreComplete

\* The records on disk speak of the process that runs: the slots, well formed,
\* name it, and no clean-exit mark of an earlier one is left.
ProcessIsRecorded == TypeOK /\ ProcessMatchesSlots /\ MarkIsOfTheLastStop

\* The launcher gives up a release only for a crash loop, and falls back from a
\* damaged one once (watchProbation, Select).
FallbackIsEarned == FallbackNeedsACrashLoop /\ FallbackRunsOnce
=============================================================================
