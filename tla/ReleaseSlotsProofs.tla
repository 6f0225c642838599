------------------------- MODULE ReleaseSlotsProofs -------------------------
(***************************************************************************)
(* Safety of the release slots for every set of releases, every assignment *)
(* of state schemas and every crash limit: the inductive invariant IInv,   *)
(* and the properties of ReleaseSlots that follow from it.                 *)
(***************************************************************************)
EXTENDS ReleaseSlots, TLAPS

\* The slots name different releases, and only one of them is pending.
ISlots ==
    /\ pc = "none" => /\ current = NoTag /\ previous = NoTag /\ next = NoTag /\ trial = NoTag
                      /\ probation = NoTag
    /\ pc # "none" => current # NoTag
    /\ current # NoTag => previous # current /\ next # current /\ trial # current
    /\ next # NoTag => trial = NoTag

\* What the process does agrees with the slots, step by step.
IProcess ==
    /\ pc \in Alive \cup {"exec", "execFailed"} /\ runTrial => trial = run /\ trial # NoTag
    /\ pc \in Alive \cup {"exec"} /\ ~runTrial => current = run /\ trial = NoTag
    /\ pc = "execFailed" => runTrial
    /\ pc \in {"committed", "up"} => ~runTrial
    /\ pc = "again" => trial = NoTag
    /\ pc = "chosen" => next = NoTag /\ (runTrial <=> trial # NoTag)
    /\ pc \notin Alive => op = "idle"
    /\ op # "idle" => target # NoTag

\* Every release the slots may start reads the same data.
ISchema ==
    /\ pc = "none" => data = 0
    /\ pc # "none" =>
         /\ data \in {0, Schema[current]}
         /\ \A t \in {previous, next, trial} \ {NoTag} : Schema[t] = Schema[current]

\* Each recorded crash has a failed start or an unclean stop behind it, and
\* so has the one that the next start is going to record.
ICrashes ==
    probation # NoTag =>
        /\ crashes <= unclean
        /\ pc \in {"again", "execFailed"} => Kept(crashes + 1) <= unclean
        /\ pc = "down" /\ mark # current /\ trial = NoTag /\ next = NoTag
             => Kept(crashes + 1) <= unclean

\* After a fallback the previous release is on trial, or marked as failed.
IFellBack ==
    fellBack => /\ next = NoTag
                /\ trial # NoTag => trial = previous
                /\ trial = NoTag => previous \in {lastFailed, NoTag}

Safe ==
    /\ ISlots /\ IProcess /\ ISchema /\ ICrashes /\ IFellBack
    /\ OnlyReadyReleasesAreKept /\ SlotsAreComplete /\ MarkIsOfTheLastStop

IInv == TypeOK /\ Safe

USE DEF slots, watch, files, process, request, history

\* The empty install root satisfies the invariant.
LEMMA InitIInv == Init => IInv
  <1> SUFFICES ASSUME Init PROVE IInv
    OBVIOUS
  <1> USE ReleaseSlotsAssumption DEF NoTag
  <1>1. TypeOK
    <2>1. /\ expired \in BOOLEAN /\ runTrial \in BOOLEAN
          /\ second \in BOOLEAN /\ fellBack \in BOOLEAN
      BY Zenon DEF Init
    <2> QED
      BY <2>1 DEF Init, TypeOK, Slot, Pcs
  <1>2. Safe
    BY DEF Init, Safe, ISlots, IProcess, ISchema, ICrashes, IFellBack,
       OnlyReadyReleasesAreKept, SlotsAreComplete, MarkIsOfTheLastStop, Alive
  <1> QED
    BY <1>1, <1>2 DEF IInv

\* Every step keeps the types; the records of what ran need to know that a
\* running process has a release.
LEMMA TypeOKStep == IInv /\ [Next]_vars => TypeOK'
  <1> SUFFICES ASSUME IInv, [Next]_vars PROVE TypeOK'
    OBVIOUS
  <1> USE ReleaseSlotsAssumption
  <1> USE DEF IInv, Safe, NoTag, Slot, Pcs, Alive, Sound, TypeOK, ISlots, IProcess
  <1>1. ASSUME NEW t \in Tags, InstallArchive(t) PROVE TypeOK'
    BY <1>1 DEF InstallArchive, Unlocked
  <1>2. ASSUME NEW t \in Tags, InitSlots(t) PROVE TypeOK'
    BY <1>2 DEF InitSlots
  <1>3. ASSUME NEW t \in Tags, Damage(t) PROVE TypeOK'
    BY <1>3 DEF Damage
  <1>4. ASSUME Prune PROVE TypeOK'
    BY <1>4 DEF Prune, Unlocked, MayPrune, RemoveReleases, Removable
  <1>5. ASSUME SelectAfterTrial PROVE TypeOK'
    BY <1>5 DEF SelectAfterTrial, StartSelect, SelectOnly, TakeCleanExit, TrialFailed
  <1>6. ASSUME SelectNext PROVE TypeOK'
    BY <1>6 DEF SelectNext, StartSelect, SelectOnly, TakeCleanExit
  <1>7. ASSUME SelectCurrent PROVE TypeOK'
    <2>1. /\ expired' \in BOOLEAN /\ runTrial' \in BOOLEAN
          /\ second' \in BOOLEAN /\ fellBack' \in BOOLEAN
      BY <1>7, Zenon DEF SelectCurrent, StartSelect, SelectOnly, TakeCleanExit,
         WatchProbation, NoProbation, RecordCrash, CountsAsCrash, Recent, Kept, CanRollback
    <2>2. crashes' \in 0..CrashLimit /\ old' \in 0..crashes'
      BY <1>7 DEF SelectCurrent, StartSelect, SelectOnly, TakeCleanExit, WatchProbation,
         NoProbation, RecordCrash, CountsAsCrash, Recent, Kept, CanRollback
    <2> QED
      BY <1>7, <2>1, <2>2 DEF SelectCurrent, StartSelect, SelectOnly, TakeCleanExit,
         WatchProbation, NoProbation, RecordCrash, CountsAsCrash, Recent, Kept, CanRollback
  <1>8. ASSUME ChooseRelease PROVE TypeOK'
    <2>1. /\ expired' \in BOOLEAN /\ runTrial' \in BOOLEAN
          /\ second' \in BOOLEAN /\ fellBack' \in BOOLEAN
      BY <1>8, Zenon DEF ChooseRelease, Selected, CanFallBack, SameSchema, HasReceipt, More
    <2> QED
      BY <1>8, <2>1 DEF ChooseRelease, Selected, CanFallBack, SameSchema, HasReceipt, More
  <1>9. ASSUME ExecRelease PROVE TypeOK'
    BY <1>9 DEF ExecRelease
  <1>10. ASSUME ExecFails PROVE TypeOK'
    <2>1. /\ expired' \in BOOLEAN /\ runTrial' \in BOOLEAN
          /\ second' \in BOOLEAN /\ fellBack' \in BOOLEAN
      BY <1>10, Zenon DEF ExecFails, Ends, More
    <2> QED
      BY <1>10, <2>1 DEF ExecFails, Ends, More
  <1>11. ASSUME FailTrial PROVE TypeOK'
    BY <1>11 DEF FailTrial
  <1>12. ASSUME BeginNativeTrial PROVE TypeOK'
    <2>1. /\ expired' \in BOOLEAN /\ runTrial' \in BOOLEAN
          /\ second' \in BOOLEAN /\ fellBack' \in BOOLEAN
      BY <1>12, Zenon DEF BeginNativeTrial, PreflightOK, Ends, More
    <2>2. run \in Tags
      BY <1>12 DEF BeginNativeTrial, PreflightOK, Ends, More
    <2>3. data' \in Nat
      BY <1>12, <2>2 DEF BeginNativeTrial, PreflightOK, Ends, More
    <2> QED
      BY <1>12, <2>1, <2>2, <2>3 DEF BeginNativeTrial, PreflightOK, Ends, More
  <1>13. ASSUME FirstTick PROVE TypeOK'
    <2>1. /\ expired' \in BOOLEAN /\ runTrial' \in BOOLEAN
          /\ second' \in BOOLEAN /\ fellBack' \in BOOLEAN
      BY <1>13, Zenon DEF FirstTick
    <2>2. run \in Tags
      BY <1>13 DEF FirstTick
    <2> QED
      BY <1>13, <2>1, <2>2 DEF FirstTick
  <1>14. ASSUME Commit PROVE TypeOK'
    <2>1. /\ expired' \in BOOLEAN /\ runTrial' \in BOOLEAN
          /\ second' \in BOOLEAN /\ fellBack' \in BOOLEAN
      BY <1>14, Zenon DEF Commit, CommitSlots, Ends, More
    <2>2. run \in Tags
      BY <1>14 DEF Commit, CommitSlots, Ends, More
    <2>3. ready' \subseteq Tags
      BY <1>14, <2>2 DEF Commit, CommitSlots, Ends, More
    <2> QED
      BY <1>14, <2>1, <2>2, <2>3 DEF Commit, CommitSlots, Ends, More
  <1>15. ASSUME PruneAfterCommit PROVE TypeOK'
    BY <1>15 DEF PruneAfterCommit, MayPrune, RemoveReleases, Removable
  <1>16. ASSUME TrialTimesOut PROVE TypeOK'
    <2>1. /\ expired' \in BOOLEAN /\ runTrial' \in BOOLEAN
          /\ second' \in BOOLEAN /\ fellBack' \in BOOLEAN
      BY <1>16, Zenon DEF TrialTimesOut, Ends, More
    <2> QED
      BY <1>16, <2>1 DEF TrialTimesOut, Ends, More
  <1>17. ASSUME CleanStop PROVE TypeOK'
    BY <1>17 DEF CleanStop, Ends
  <1>18. ASSUME Crash PROVE TypeOK'
    <2>1. /\ expired' \in BOOLEAN /\ runTrial' \in BOOLEAN
          /\ second' \in BOOLEAN /\ fellBack' \in BOOLEAN
      BY <1>18, Zenon DEF Crash, Ends, More
    <2> QED
      BY <1>18, <2>1 DEF Crash, Ends, More
  <1>19. ASSUME CutAfterMark PROVE TypeOK'
    <2>1. /\ expired' \in BOOLEAN /\ runTrial' \in BOOLEAN
          /\ second' \in BOOLEAN /\ fellBack' \in BOOLEAN
      BY <1>19, Zenon DEF CutAfterMark, Ends, More
    <2> QED
      BY <1>19, <2>1 DEF CutAfterMark, Ends, More
  <1>20. ASSUME CrashesAge PROVE TypeOK'
    <2>1. /\ expired' \in BOOLEAN /\ runTrial' \in BOOLEAN
          /\ second' \in BOOLEAN /\ fellBack' \in BOOLEAN
      BY <1>20, Zenon DEF CrashesAge
    <2> QED
      BY <1>20, <2>1 DEF CrashesAge
  <1>21. ASSUME NEW t \in Tags, NEW retry \in BOOLEAN, HandleVersionUpdate(t, retry)
        PROVE  TypeOK'
    BY <1>21 DEF HandleVersionUpdate, RequestOnly
  <1>22. ASSUME InstallTarget PROVE TypeOK'
    <2>1. /\ expired' \in BOOLEAN /\ runTrial' \in BOOLEAN
          /\ second' \in BOOLEAN /\ fellBack' \in BOOLEAN
      BY <1>22, Zenon DEF InstallTarget, Unlocked, GiveUp
    <2>2. disk' \in [Tags -> {"absent", "sound", "damaged", "broken"}] /\ hurt' \subseteq Tags
      BY <1>22 DEF InstallTarget, Unlocked, GiveUp
    <2> QED
      BY <1>22, <2>1, <2>2 DEF InstallTarget, Unlocked, GiveUp
  <1>23. ASSUME CheckTarget PROVE TypeOK'
    BY <1>23 DEF CheckTarget, GiveUp, RequestOnly
  <1>24. ASSUME Prepare PROVE TypeOK'
    <2>1. /\ expired' \in BOOLEAN /\ runTrial' \in BOOLEAN
          /\ second' \in BOOLEAN /\ fellBack' \in BOOLEAN
      BY <1>24, Zenon DEF Prepare, Unlocked, PrepareAllowed, GiveUp, RequestOnly,
         SameSchema, HasReceipt
    <2> QED
      BY <1>24, <2>1 DEF Prepare, Unlocked, PrepareAllowed, GiveUp, RequestOnly, SameSchema,
         HasReceipt
  <1>25. ASSUME PrepareRollback PROVE TypeOK'
    <2>1. /\ expired' \in BOOLEAN /\ runTrial' \in BOOLEAN
          /\ second' \in BOOLEAN /\ fellBack' \in BOOLEAN
      BY <1>25, Zenon DEF PrepareRollback, Unlocked, CanRollback, RequestOnly, SameSchema,
         HasReceipt
    <2> QED
      BY <1>25, <2>1 DEF PrepareRollback, Unlocked, CanRollback, RequestOnly, SameSchema,
         HasReceipt
  <1>26. ASSUME AskRestart PROVE TypeOK'
    BY <1>26 DEF AskRestart, RequestOnly
  <1>27. ASSUME CancelPrepared PROVE TypeOK'
    BY <1>27 DEF CancelPrepared, Unlocked, GiveUp, RequestOnly
  <1>28. CASE UNCHANGED vars
    BY <1>28 DEF vars
  <1> QED
    BY <1>1, <1>2, <1>3, <1>4, <1>5, <1>6, <1>7, <1>8, <1>9, <1>10, <1>11, <1>12, <1>13,
       <1>14, <1>15, <1>16, <1>17, <1>18, <1>19, <1>20, <1>21, <1>22, <1>23, <1>24, <1>25,
       <1>26, <1>27, <1>28
       DEF Next, LauncherSteps, CoreSteps, Faults, Requests

\* Every step keeps the other conjuncts, one case per action of Next.
LEMMA SafeStep == IInv /\ [Next]_vars => Safe'
  <1> SUFFICES ASSUME IInv, [Next]_vars PROVE Safe'
    OBVIOUS
  <1> USE ReleaseSlotsAssumption
  <1> USE DEF IInv, Safe, NoTag, Slot, Pcs, Alive, Sound, Kept, TypeOK, ISlots, IProcess,
          ISchema, ICrashes, IFellBack, OnlyReadyReleasesAreKept, SlotsAreComplete,
          MarkIsOfTheLastStop
  <1>1. ASSUME NEW t \in Tags, InstallArchive(t) PROVE Safe'
    BY <1>1 DEF InstallArchive, Unlocked
  <1>2. ASSUME NEW t \in Tags, InitSlots(t) PROVE Safe'
    BY <1>2 DEF InitSlots
  <1>3. ASSUME NEW t \in Tags, Damage(t) PROVE Safe'
    BY <1>3 DEF Damage
  <1>4. ASSUME Prune PROVE Safe'
    BY <1>4 DEF Prune, Unlocked, MayPrune, RemoveReleases, Removable
  <1>5. ASSUME SelectAfterTrial PROVE Safe'
    BY <1>5 DEF SelectAfterTrial, StartSelect, SelectOnly, TakeCleanExit, TrialFailed
  <1>6. ASSUME SelectNext PROVE Safe'
    <2>1. SlotsAreComplete'
      BY <1>6 DEF SelectNext, StartSelect, SelectOnly, TakeCleanExit
    <2>2. ICrashes'
      BY <1>6 DEF SelectNext, StartSelect, SelectOnly, TakeCleanExit
    <2>3. /\ ISlots' /\ IProcess' /\ ISchema'
          /\ IFellBack' /\ OnlyReadyReleasesAreKept' /\ MarkIsOfTheLastStop'
      BY <1>6 DEF SelectNext, StartSelect, SelectOnly, TakeCleanExit
    <2> QED
      BY <2>1, <2>2, <2>3
  <1>7. ASSUME SelectCurrent PROVE Safe'
    BY <1>7 DEF SelectCurrent, StartSelect, SelectOnly, TakeCleanExit, WatchProbation,
       NoProbation, RecordCrash, CountsAsCrash, Recent, CanRollback
  <1>8. ASSUME ChooseRelease PROVE Safe'
    BY <1>8 DEF ChooseRelease, Selected, CanFallBack, SameSchema, HasReceipt, More
  <1>9. ASSUME ExecRelease PROVE Safe'
    BY <1>9 DEF ExecRelease
  <1>10. ASSUME ExecFails PROVE Safe'
    BY <1>10 DEF ExecFails, Ends, More
  <1>11. ASSUME FailTrial PROVE Safe'
    BY <1>11 DEF FailTrial
  <1>12. ASSUME BeginNativeTrial PROVE Safe'
    BY <1>12 DEF BeginNativeTrial, PreflightOK, Ends, More
  <1>13. ASSUME FirstTick PROVE Safe'
    BY <1>13 DEF FirstTick
  <1>14. ASSUME Commit PROVE Safe'
    BY <1>14 DEF Commit, CommitSlots, Ends, More
  <1>15. ASSUME PruneAfterCommit PROVE Safe'
    BY <1>15 DEF PruneAfterCommit, MayPrune, RemoveReleases, Removable
  <1>16. ASSUME TrialTimesOut PROVE Safe'
    BY <1>16 DEF TrialTimesOut, Ends, More
  <1>17. ASSUME CleanStop PROVE Safe'
    BY <1>17 DEF CleanStop, Ends
  <1>18. ASSUME Crash PROVE Safe'
    BY <1>18 DEF Crash, Ends, More
  <1>19. ASSUME CutAfterMark PROVE Safe'
    BY <1>19 DEF CutAfterMark, Ends, More
  <1>20. ASSUME CrashesAge PROVE Safe'
    BY <1>20 DEF CrashesAge
  <1>21. ASSUME NEW t \in Tags, NEW retry \in BOOLEAN, HandleVersionUpdate(t, retry)
        PROVE  Safe'
    BY <1>21 DEF HandleVersionUpdate, RequestOnly
  <1>22. ASSUME InstallTarget PROVE Safe'
    BY <1>22 DEF InstallTarget, Unlocked, GiveUp
  <1>23. ASSUME CheckTarget PROVE Safe'
    BY <1>23 DEF CheckTarget, GiveUp, RequestOnly
  <1>24. ASSUME Prepare PROVE Safe'
    BY <1>24 DEF Prepare, Unlocked, PrepareAllowed, GiveUp, RequestOnly, SameSchema,
       HasReceipt
  <1>25. ASSUME PrepareRollback PROVE Safe'
    BY <1>25 DEF PrepareRollback, Unlocked, CanRollback, RequestOnly, SameSchema, HasReceipt
  <1>26. ASSUME AskRestart PROVE Safe'
    BY <1>26 DEF AskRestart, RequestOnly
  <1>27. ASSUME CancelPrepared PROVE Safe'
    BY <1>27 DEF CancelPrepared, Unlocked, GiveUp, RequestOnly
  <1>28. CASE UNCHANGED vars
    BY <1>28 DEF vars
  <1> QED
    BY <1>1, <1>2, <1>3, <1>4, <1>5, <1>6, <1>7, <1>8, <1>9, <1>10, <1>11, <1>12, <1>13,
       <1>14, <1>15, <1>16, <1>17, <1>18, <1>19, <1>20, <1>21, <1>22, <1>23, <1>24, <1>25,
       <1>26, <1>27, <1>28
       DEF Next, LauncherSteps, CoreSteps, Faults, Requests

-----------------------------------------------------------------------------
(* The inductive invariant, and what follows from it *)

\* Every reachable state satisfies the inductive invariant, wherever the
\* launcher, Core or the host is killed and whatever is asked of the slots.
THEOREM SlotsInductive == Spec => []IInv
  <1>1. IInv /\ [Next]_vars => IInv'
    BY TypeOKStep, SafeStep DEF IInv
  <1> QED
    BY InitIInv, <1>1, PTL DEF Spec

\* The slots, the files and the process keep their types.
THEOREM SlotsTypeCorrect == Spec => []TypeOK
  <1>1. IInv => TypeOK
    BY DEF IInv
  <1> QED
    BY <1>1, SlotsInductive, PTL

\* No release ever runs on data of another state schema: Prepare, Select and
\* watchProbation only choose releases that read what is there.
THEOREM DataStaysReadable == Spec => []DataIsReadable
  <1>1. IInv => DataIsReadable
    BY DEF IInv, Safe, TypeOK, ISlots, IProcess, ISchema, DataIsReadable, Alive, Slot, NoTag
  <1> QED
    BY <1>1, SlotsInductive, PTL

\* A release is current or previous only after it ran a control loop here, or
\* was put there by init.
THEOREM NoUntriedReleaseIsKept == Spec => []OnlyReadyReleasesAreKept
  <1>1. IInv => OnlyReadyReleasesAreKept
    BY DEF IInv, Safe
  <1> QED
    BY <1>1, SlotsInductive, PTL

\* Updates and prunes, also half finished ones, leave every release that may
\* have to start complete.
THEOREM StartableReleasesStayComplete == Spec => []SlotsAreComplete
  <1>1. IInv => SlotsAreComplete
    BY DEF IInv, Safe
  <1> QED
    BY <1>1, SlotsInductive, PTL

\* What runs is what the slots say: the preflight never refuses a start.
THEOREM PreflightNeverRefuses == Spec => []ProcessMatchesSlots
  <1>1. IInv => ProcessMatchesSlots
    BY DEF IInv, Safe, TypeOK, ISlots, IProcess, ProcessMatchesSlots, Alive
  <1> QED
    BY <1>1, SlotsInductive, PTL

\* A clean-exit mark is never there to excuse a later crash.
THEOREM MarksAreTakenOnce == Spec => []MarkIsOfTheLastStop
  <1>1. IInv => MarkIsOfTheLastStop
    BY DEF IInv, Safe
  <1> QED
    BY <1>1, SlotsInductive, PTL

\* Probation gives up a release only after crashLimit failed starts or
\* unclean stops.
THEOREM ProbationNeedsACrashLoop == Spec => FallbackNeedsACrashLoop
  <1>1. IInv /\ [Next]_vars
          => [current' # current =>
                \/ current = NoTag
                \/ pc = "running" /\ current' = trial
                \/ unclean = CrashLimit /\ lastFailed' = current]_vars
    <2> SUFFICES ASSUME IInv, Next, current' # current
                 PROVE  \/ current = NoTag
                        \/ pc = "running" /\ current' = trial
                        \/ unclean = CrashLimit /\ lastFailed' = current
      BY DEF vars
    <2> USE DEF IInv, Safe, TypeOK
    <2>1. CASE \E t \in Tags : InitSlots(t)
      BY <2>1 DEF InitSlots, ISlots
    <2>2. CASE Commit
      BY <2>2 DEF Commit, CommitSlots, IProcess, Alive
    <2>3. CASE SelectCurrent
      BY <2>3, ReleaseSlotsAssumption DEF SelectCurrent, StartSelect, WatchProbation,
         CountsAsCrash, Recent, Kept, ICrashes
    <2> QED
      BY <2>1, <2>2, <2>3 DEF Next, LauncherSteps, CoreSteps, Faults, Requests,
         SelectAfterTrial, TrialFailed, SelectNext, ChooseRelease, ExecRelease, FailTrial,
         BeginNativeTrial, FirstTick, PruneAfterCommit, Crash, CutAfterMark, ExecFails,
         TrialTimesOut, Damage, CleanStop, CrashesAge, InstallArchive, HandleVersionUpdate,
         InstallTarget, CheckTarget, Prepare, PrepareRollback, AskRestart, CancelPrepared,
         Prune
  <1> QED
    BY <1>1, SlotsInductive, PTL DEF Spec, FallbackNeedsACrashLoop

\* The launcher tries a fallback from a damaged current release only once.
THEOREM OneFallbackAttempt == Spec => FallbackRunsOnce
  <1>1. IInv /\ [Next]_vars
          => [pc = "chosen" /\ trial = NoTag /\ trial' # NoTag => ~fellBack]_vars
    <2> SUFFICES ASSUME IInv, Next, pc = "chosen", trial = NoTag, trial' # NoTag
                 PROVE  ~fellBack
      BY DEF vars
    <2> USE DEF IInv, Safe
    <2>1. CASE ChooseRelease
      BY <2>1 DEF ChooseRelease, CanFallBack, IFellBack
    <2> QED
      BY <2>1 DEF Next, LauncherSteps, CoreSteps, Faults, Requests, StartSelect,
         SelectAfterTrial, SelectNext, SelectCurrent, ExecRelease, FailTrial,
         BeginNativeTrial, FirstTick, Commit, PruneAfterCommit, Crash, CutAfterMark,
         ExecFails, TrialTimesOut, Damage, CleanStop, CrashesAge, InstallArchive, InitSlots,
         HandleVersionUpdate, InstallTarget, CheckTarget, Prepare, PrepareRollback,
         AskRestart, CancelPrepared, Prune, Alive, RequestOnly
  <1> QED
    BY <1>1, SlotsInductive, PTL DEF Spec, FallbackRunsOnce

\* What Commit and prune leave in the slots can be started, and current and
\* previous have run a control tick.
THEOREM KeptReleasesStart == Spec => []KeptReleasesAreSound
  BY NoUntriedReleaseIsKept, StartableReleasesStayComplete, PTL DEF KeptReleasesAreSound

\* Slots and clean-exit mark speak of the process that runs, at every step of
\* Select, beginNativeTrial and Commit.
THEOREM RecordsNameTheProcess == Spec => []ProcessIsRecorded
  BY SlotsTypeCorrect, PreflightNeverRefuses, MarksAreTakenOnce, PTL DEF ProcessIsRecorded

\* watchProbation and Select give a release up only for cause.
THEOREM FallbackHasACause == Spec => FallbackIsEarned
  BY ProbationNeedsACrashLoop, OneFallbackAttempt, PTL DEF FallbackIsEarned
=============================================================================
