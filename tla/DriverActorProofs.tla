------------------------- MODULE DriverActorProofs -------------------------
(***************************************************************************)
(* Safety of the driver actor for every number of calls, defaults, cycles, *)
(* generations and refused defaults: the inductive invariant IInv, and the *)
(* properties of DriverActor that follow from it.                          *)
(***************************************************************************)
EXTENDS DriverActor, TLAPS

CommandPcs == {"admitted", "hooked", "running"}
Pending == {"issued", "queued", "taken"}

\* Where the gate holder stands, the registration and the loop agree.
IGate ==
    /\ registered => /\ stop = "none" /\ ~ending /\ pc \notin {"shutdown", "done"}
                     /\ gate \in {"free", "added"}
    /\ gate = "added" => registered /\ inflight
    /\ ~registered /\ gate \in {"free", "adding"} => pc = "done"
    /\ gate = "removing" => ~registered /\ stop = "none" /\ pc \notin {"shutdown", "done"}
    /\ gate = "stopping" => ~registered /\ stop = StopFlag
    /\ pc = "shutdown" => gate = "stopping" /\ ~observeOnly
    /\ inflight => gate \in {"adding", "added"}
    /\ retry => ~registered /\ gate = "free"
    /\ andThen = "add" => gate \in {"removing", "stopping"}

IShutdown ==
    /\ closed <=> shutdown # "no"
    /\ closed => ~retry /\ andThen = "nothing"
    /\ shutdown \in {"closed", "listed", "done"} => ~inflight
    /\ shutdown = "closed" => gate = "free"
    /\ shutdown = "listed" => gate \in {"free", "removing", "stopping"}
    /\ shutdown = "done" => gate = "free" /\ ~registered

Distinct(q) == \A i, j \in 1..Len(q) : q[i] = q[j] => i = j

\* A queued command belongs to this generation and is queued once.
IQueue ==
    /\ \A i \in 1..Len(cmdCh) : at[cmdCh[i]] = "queued" /\ callGen[cmdCh[i]] = gen
    /\ Distinct(cmdCh)

ICur ==
    /\ pc \in CommandPcs => cur \in Calls /\ at[cur] = "taken" /\ callGen[cur] = gen
    /\ pc = "running" => callEpoch[cur] = controlEpoch

ICalls ==
    \A c \in Calls :
        /\ callGen[c] <= gen
        /\ at[c] \in {"found", "issued", "queued", "taken"} /\ callGen[c] = gen => ~observeOnly
        /\ kind[c] \in {"pause", "resume"} => cycle[c] # NoCycle
        /\ at[c] \in Pending /\ callGen[c] = gen => callEpoch[c] <= controlEpoch

IDefaults ==
    \A d \in Defaults :
        /\ dfltGen[d] <= gen
        /\ dfltAt[d] \in {"found", "marked", "canceling", "waiting"} /\ dfltGen[d] = gen
             => ~observeOnly

\* A stale call has an epoch the loop no longer admits.
IStale ==
    /\ \A c \in stale : at[c] \notin {"new", "found"}
    /\ pc # "done" =>
         \A c \in stale : at[c] \in Pending /\ callGen[c] = gen => callEpoch[c] < controlEpoch

\* A generation whose device has not confirmed its default is blocked.
IHanded ==
    pc # "done" => /\ handed \/ controlBlocked \/ observeOnly
                   /\ pc \in CommandPcs => handed /\ ~observeOnly

\* An observe_only loop only ever works off the gate it inherited.
IObserve ==
    observeOnly /\ pc # "done" =>
        /\ cmdCh = <<>> /\ defaultCh = <<>>
        /\ timer \/ controlBlocked \/ pc = "default" \/ device = "forced" => required

IStopped ==
    gate = "stopping" /\ pc = "done" /\ device = "forced" =>
        (observeOnly /\ required) \/ (~observeOnly /\ shutdownErr)

IResume ==
    /\ pausePending # NoCycle => pausePending \in resumable
    /\ pc \in CommandPcs /\ kind[cur] = "resume" => cycle[cur] \in resumable

Safe ==
    /\ IGate /\ IShutdown /\ IQueue /\ ICur /\ ICalls /\ IDefaults /\ IStale /\ IHanded
    /\ IObserve /\ IStopped /\ IResume
    /\ BlockedCommandIsCanceled /\ ConfirmedMeansDefault /\ BlockedHasRecovery
    /\ ForcedDeviceIsGated

IInv == TypeOK /\ Safe

-----------------------------------------------------------------------------

USE DEF registryVars, status, loopVars, callVars, dfltVars, history

\* The empty registry satisfies the invariant.
LEMMA InitIInv == Init => IInv
  <1>1. Init => TypeOK
    <2> SUFFICES ASSUME Init PROVE TypeOK
      OBVIOUS
    <2>1. /\ registered \in BOOLEAN /\ required \in BOOLEAN /\ retry \in BOOLEAN
          /\ inflight \in BOOLEAN /\ closed \in BOOLEAN /\ observeOnly \in BOOLEAN
          /\ controlBlocked \in BOOLEAN /\ defaultConfirmed \in BOOLEAN
          /\ recoveryPending \in BOOLEAN /\ ending \in BOOLEAN /\ canceled \in BOOLEAN
          /\ shutdownErr \in BOOLEAN /\ timer \in BOOLEAN /\ pollFailed \in BOOLEAN
          /\ handed \in BOOLEAN
      BY Zenon DEF Init
    <2> QED
      BY <2>1 DEF Init, TypeOK, CallPcs, DefaultPcs, Kinds
  <1>2. Init => Safe
    BY DEF Init, Safe, IGate, IShutdown, IQueue, ICur, ICalls, IDefaults, IStale, IHanded,
       IObserve, IStopped, IResume, BlockedCommandIsCanceled, ConfirmedMeansDefault,
       BlockedHasRecovery, ForcedDeviceIsGated, CommandPcs, Distinct
  <1> QED
    BY <1>1, <1>2 DEF IInv

\* A call that returns keeps the types of the call table.
LEMMA ReturnType ==
    ASSUME TypeOK, NEW c, NEW result \in {"ok", "failed"}, Return(c, result)
    PROVE  /\ at' \in [Calls -> CallPcs] /\ callGen' \in [Calls -> Nat]
           /\ callEpoch' \in [Calls -> Nat] /\ kind' \in [Calls -> Kinds]
           /\ cycle' \in [Calls -> Cycles \cup {NoCycle}] /\ expired' \subseteq Calls
  <1>1. at' \in [Calls -> CallPcs]
    BY DEF TypeOK, Return, CallPcs
  <1>2. callGen' \in [Calls -> Nat] /\ callEpoch' \in [Calls -> Nat]
    BY DEF TypeOK, Return
  <1> QED
    BY <1>1, <1>2 DEF TypeOK, Return

\* So does a SendDefault call.
LEMMA DefaultReturnType ==
    ASSUME TypeOK, NEW d \in Defaults, NEW result \in DefaultPcs, DefaultReturns(d, result)
    PROVE  dfltAt' \in [Defaults -> DefaultPcs] /\ dfltGen' \in [Defaults -> Nat]
  BY DEF TypeOK, DefaultReturns

\* Every step keeps the types; only a pause that succeeds needs to know which
\* call is in hand.
LEMMA TypeStep == TypeOK /\ ICur /\ ICalls /\ [Next]_vars => TypeOK'
  <1> SUFFICES ASSUME TypeOK, ICur, ICalls, [Next]_vars PROVE TypeOK'
    OBVIOUS
  <1> USE DriverActorAssumption DEF CallPcs, DefaultPcs, Kinds
  <1>1. ASSUME NEW c \in Calls, NEW k \in Sent, NEW y \in Cycles \cup {NoCycle},
               FindDriver(c, k, y)
        PROVE  TypeOK'
    BY <1>1 DEF TypeOK, FindDriver, CommandCallOnly
  <1>2. ASSUME NEW c \in Calls, ReadEpoch(c) PROVE TypeOK'
    BY <1>2 DEF TypeOK, ReadEpoch, CommandCallOnly
  <1>3. ASSUME NEW c \in Calls, Enqueue(c) PROVE TypeOK'
    <2>0. CommandCallOnly
      BY <1>3 DEF Enqueue
    <2>1. CASE callGen[c] = gen
      <3>1. /\ cmdCh' = Append(cmdCh, c) /\ at' = [at EXCEPT ![c] = "queued"]
            /\ UNCHANGED <<callGen, callEpoch, kind, cycle, expired>>
        BY <1>3, <2>1 DEF Enqueue
      <3>2. cmdCh' \in Seq(Calls)
        BY <3>1 DEF TypeOK
      <3> QED
        BY <2>0, <3>1, <3>2 DEF TypeOK, CommandCallOnly
    <2>2. CASE callGen[c] # gen
      <3>1. Return(c, "failed") /\ UNCHANGED cmdCh
        BY <1>3, <2>2 DEF Enqueue
      <3> QED
        BY <2>0, <3>1, ReturnType DEF TypeOK, CommandCallOnly
    <2> QED
      BY <2>1, <2>2
  <1>4. ASSUME NEW c \in Calls, CallerTimesOut(c) PROVE TypeOK'
    <2>0. CommandCallOnly /\ UNCHANGED cmdCh
      BY <1>4 DEF CallerTimesOut
    <2>1. CASE Return(c, "failed")
      BY <2>0, <2>1, ReturnType DEF TypeOK, CommandCallOnly
    <2>2. CASE ~Return(c, "failed")
      BY <1>4, <2>0, <2>2 DEF TypeOK, CallerTimesOut, CommandCallOnly
    <2> QED
      BY <2>1, <2>2
  <1>5. ASSUME NEW d \in Defaults, SendDefault(d) PROVE TypeOK'
    BY <1>5 DEF TypeOK, SendDefault, DefaultCallOnly
  <1>6. ASSUME NEW d \in Defaults, CloseControlWindow(d) PROVE TypeOK'
    <2>1. /\ controlBlocked' \in BOOLEAN
            /\ defaultConfirmed' \in BOOLEAN
            /\ recoveryPending' \in BOOLEAN
      BY <1>6, Zenon DEF TypeOK, CloseControlWindow, DefaultCallOnly,
         MarkDefaultRecoveryPending
    <2>2. CASE dfltGen[d] = gen
      BY <1>6, <2>1, <2>2 DEF TypeOK, CloseControlWindow, DefaultCallOnly,
         MarkDefaultRecoveryPending
    <2>3. CASE dfltGen[d] # gen
      BY <1>6, <2>1, <2>3 DEF TypeOK, CloseControlWindow, DefaultCallOnly,
         MarkDefaultRecoveryPending
    <2> QED
      BY <2>2, <2>3
  <1>7. ASSUME NEW d \in Defaults, CancelActiveCommand(d) PROVE TypeOK'
    BY <1>7 DEF TypeOK, CancelActiveCommand, DefaultCallOnly
  <1>8. ASSUME NEW d \in Defaults, EnqueueDefault(d) PROVE TypeOK'
    <2>1. defaultCh' \in Seq(Defaults)
      <3>1. CASE dfltGen[d] = gen
        <4>1. defaultCh' = <<d>>
          BY <1>8, <3>1 DEF EnqueueDefault
        <4> QED
          BY <4>1
      <3>2. CASE dfltGen[d] # gen
        BY <1>8, <3>2 DEF TypeOK, EnqueueDefault
      <3> QED
        BY <3>1, <3>2
    <2>2. dfltAt' \in [Defaults -> DefaultPcs] /\ dfltGen' \in [Defaults -> Nat]
      BY <1>8, DefaultReturnType DEF EnqueueDefault
    <2> QED
      BY <1>8, <2>1, <2>2 DEF TypeOK, EnqueueDefault, DefaultCallOnly
  <1>9. ASSUME NEW d \in Defaults, WaitForRoom(d) PROVE TypeOK'
    <2>1. dfltAt' \in [Defaults -> DefaultPcs] /\ dfltGen' \in [Defaults -> Nat]
      <3>1. CASE dfltAt' = [dfltAt EXCEPT ![d] = "waiting"] /\ UNCHANGED dfltGen
        BY <3>1 DEF TypeOK
      <3>2. CASE DefaultReturns(d, "gaveUp")
        BY <3>2, DefaultReturnType
      <3> QED
        BY <1>9, <3>1, <3>2 DEF WaitForRoom
    <2> QED
      BY <1>9, <2>1 DEF TypeOK, WaitForRoom, DefaultCallOnly
  <1>10. ASSUME StartLoop PROVE TypeOK'
    BY <1>10 DEF TypeOK, StartLoop, LoopOnly
  <1>11. ASSUME CheckDefaults PROVE TypeOK'
    <2>2. CASE defaultCh # <<>>
      BY <1>11, <2>2 DEF TypeOK, CheckDefaults, LoopOnly, EnterDefault
    <2>3. CASE defaultCh = <<>>
      BY <1>11, <2>3 DEF TypeOK, CheckDefaults, LoopOnly, EnterDefault
    <2> QED
      BY <2>2, <2>3
  <1>12. ASSUME TakeDefault PROVE TypeOK'
    BY <1>12 DEF TypeOK, TakeDefault, LoopOnly, EnterDefault
  <1>13. ASSUME RecoveryFires PROVE TypeOK'
    BY <1>13 DEF TypeOK, RecoveryFires, LoopOnly, EnterDefault
  <1>14. ASSUME NEW ok \in BOOLEAN, Poll(ok) PROVE TypeOK'
    BY <1>14 DEF TypeOK, Poll, LoopOnly, EnterDefault
  <1>15. ASSUME DefaultSucceeds PROVE TypeOK'
    <2>1. /\ controlBlocked' \in BOOLEAN
            /\ defaultConfirmed' \in BOOLEAN
            /\ recoveryPending' \in BOOLEAN
            /\ timer' \in BOOLEAN
            /\ required' \in BOOLEAN
            /\ handed' \in BOOLEAN
      BY <1>15, Zenon DEF TypeOK, DefaultSucceeds, LoopOnly, MarkDefaultConfirmed, Issued
    <2> QED
      BY <1>15, <2>1 DEF TypeOK, DefaultSucceeds, LoopOnly, MarkDefaultConfirmed, Issued
  <1>16. ASSUME DefaultFails PROVE TypeOK'
    <2>1. /\ controlBlocked' \in BOOLEAN
            /\ defaultConfirmed' \in BOOLEAN
            /\ recoveryPending' \in BOOLEAN
            /\ timer' \in BOOLEAN
      BY <1>16, Zenon DEF TypeOK, DefaultFails, LoopOnly, ScheduleRecovery,
         MarkDefaultRecoveryPending
    <2> QED
      BY <1>16, <2>1 DEF TypeOK, DefaultFails, LoopOnly, ScheduleRecovery,
         MarkDefaultRecoveryPending
  <1>17. ASSUME RefuseCommand PROVE TypeOK'
    BY <1>17 DEF TypeOK, RefuseCommand, LoopOnly, Return, CommandRejected, Superseded
  <1>18. ASSUME AdmitCommand PROVE TypeOK'
    BY <1>18 DEF TypeOK, AdmitCommand, LoopOnly, CommandRejected, Superseded
  <1>19. ASSUME BeginCommand PROVE TypeOK'
    BY <1>19 DEF TypeOK, BeginCommand, LoopOnly
  <1>20. ASSUME Recheck PROVE TypeOK'
    <2>1. canceled' \in BOOLEAN
      BY <1>20, Zenon DEF TypeOK, Recheck
    <2>2. CASE RejectedWithHook
      BY <1>20, <2>1, <2>2, ReturnType DEF TypeOK, Recheck, LoopOnly
    <2>3. CASE ~RejectedWithHook
      BY <1>20, <2>1, <2>3 DEF TypeOK, Recheck, LoopOnly
    <2> QED
      BY <2>2, <2>3
  <1>21. ASSUME CommandSucceeds PROVE TypeOK'
    <2>1. defaultConfirmed' \in BOOLEAN
      BY <1>21, Zenon DEF CommandSucceeds, MarkCommandApplied
    <2>2. cur \in Calls /\ (kind[cur] = "pause" => cycle[cur] \in Cycles)
      BY <1>21 DEF TypeOK, ICur, ICalls, CommandPcs, CommandSucceeds
    <2>3. pausePending' \in Cycles \cup {NoCycle} /\ resumable' \subseteq Cycles
      BY <1>21, <2>2 DEF TypeOK, CommandSucceeds
    <2> QED
      BY <1>21, <2>1, <2>2, <2>3, ReturnType
         DEF TypeOK, CommandSucceeds, LoopOnly, MarkCommandApplied
  <1>22. ASSUME CommandFails PROVE TypeOK'
    <2>1. canceled' \in BOOLEAN
      BY <1>22, Zenon DEF CommandFails
    <2> QED
      BY <1>22, <2>1, ReturnType DEF TypeOK, CommandFails, LoopOnly, EnterDefault
  <1>23. ASSUME TakeStop PROVE TypeOK'
    <2>1. timer' \in BOOLEAN
      BY <1>23, Zenon DEF TypeOK, TakeStop, LoopOnly
    <2>2. CASE stop = "skip"
      BY <1>23, <2>1, <2>2 DEF TypeOK, TakeStop, LoopOnly
    <2>3. CASE stop # "skip"
      BY <1>23, <2>1, <2>3 DEF TypeOK, TakeStop, LoopOnly
    <2> QED
      BY <2>2, <2>3
  <1>24. ASSUME NEW ok \in BOOLEAN, ShutdownDefault(ok) PROVE TypeOK'
    <2>1. timer' \in BOOLEAN
      BY <1>24, Zenon DEF TypeOK, ShutdownDefault, LoopOnly, Issued
    <2>2. CASE ok
      BY <1>24, <2>1, <2>2 DEF TypeOK, ShutdownDefault, LoopOnly, Issued
    <2>3. CASE ~ok
      BY <1>24, <2>1, <2>3 DEF TypeOK, ShutdownDefault, LoopOnly, Issued
    <2> QED
      BY <2>2, <2>3
  <1>25. ASSUME NEW next \in {"nothing", "add"}, Remove(next) PROVE TypeOK'
    <2>1. registered' \in BOOLEAN /\ retry' \in BOOLEAN
      BY <1>25, Zenon DEF TypeOK, Remove, KeepLoop, KeepDriver, Unregister
    <2> QED
      BY <1>25, <2>1 DEF TypeOK, Remove, KeepLoop, KeepDriver, Unregister
  <1>26. ASSUME NEW next \in {"nothing", "add"}, RemoveAbsent(next) PROVE TypeOK'
    <2>1. retry' \in BOOLEAN
      BY <1>26, Zenon DEF TypeOK, RemoveAbsent, KeepLoop, KeepDriver
    <2> QED
      BY <1>26, <2>1 DEF TypeOK, RemoveAbsent, KeepLoop, KeepDriver
  <1>27. ASSUME SignalStop PROVE TypeOK'
    <2>1. ending' \in BOOLEAN
      BY <1>27, Zenon DEF TypeOK, SignalStop, KeepLoop, StopFlag
    <2> QED
      BY <1>27, <2>1 DEF TypeOK, SignalStop, KeepLoop, StopFlag
  <1>28. ASSUME FinishRemove PROVE TypeOK'
    BY <1>28 DEF TypeOK, FinishRemove, KeepLoop, KeepDriver, GateAfterStop
  <1>29. ASSUME Add PROVE TypeOK'
    <2>1. retry' \in BOOLEAN
      BY <1>29, Zenon DEF TypeOK, Add, KeepLoop, KeepDriver
    <2> QED
      BY <1>29, <2>1 DEF TypeOK, Add, KeepLoop, KeepDriver
  <1>30. ASSUME RetrySpawn PROVE TypeOK'
    <2>1. inflight' \in BOOLEAN /\ retry' \in BOOLEAN
      BY <1>30, Zenon DEF TypeOK, RetrySpawn, KeepLoop, KeepDriver
    <2> QED
      BY <1>30, <2>1 DEF TypeOK, RetrySpawn, KeepLoop, KeepDriver
  <1>31. ASSUME StartFails PROVE TypeOK'
    <2>1. inflight' \in BOOLEAN
      BY <1>31, Zenon DEF TypeOK, StartFails, KeepLoop, KeepDriver, RetryAfterFailure
    <2> QED
      BY <1>31, <2>1 DEF TypeOK, StartFails, KeepLoop, KeepDriver, RetryAfterFailure
  <1>32. ASSUME NEW observe \in BOOLEAN, NEW defaultOk \in BOOLEAN,
                Register(observe, defaultOk)
        PROVE  TypeOK'
    <2>1. /\ registered' \in BOOLEAN
            /\ timer' \in BOOLEAN
            /\ ending' \in BOOLEAN
            /\ canceled' \in BOOLEAN
            /\ shutdownErr' \in BOOLEAN
            /\ pollFailed' \in BOOLEAN
      BY <1>32, Zenon DEF TypeOK, Register, StartsBlocked, Issued
    <2>2. CASE observe
      BY <1>32, <2>1, <2>2 DEF TypeOK, Register, StartsBlocked, Issued
    <2>3. CASE ~observe
      BY <1>32, <2>1, <2>3 DEF TypeOK, Register, StartsBlocked, Issued
    <2> QED
      BY <2>2, <2>3
  <1>33. ASSUME RetryReturns PROVE TypeOK'
    <2>1. inflight' \in BOOLEAN /\ registered' \in BOOLEAN /\ retry' \in BOOLEAN
      BY <1>33, Zenon DEF TypeOK, RetryReturns, KeepLoop, KeepDriver, Unregister
    <2>2. CASE closed
      BY <1>33, <2>1, <2>2 DEF TypeOK, RetryReturns, KeepLoop, KeepDriver, Unregister
    <2>3. CASE ~closed
      BY <1>33, <2>1, <2>3 DEF TypeOK, RetryReturns, KeepLoop, KeepDriver, Unregister
    <2> QED
      BY <2>2, <2>3
  <1>34. ASSUME CloseSpawnRetries PROVE TypeOK'
    <2>1. closed' \in BOOLEAN /\ retry' \in BOOLEAN
      BY <1>34, Zenon DEF TypeOK, CloseSpawnRetries, KeepLoop, KeepDriver
    <2> QED
      BY <1>34, <2>1 DEF TypeOK, CloseSpawnRetries, KeepLoop, KeepDriver
  <1>35. ASSUME ListDrivers PROVE TypeOK'
    BY <1>35 DEF TypeOK, ListDrivers, KeepLoop, KeepDriver
  <1>36. ASSUME ShutdownRemove PROVE TypeOK'
    <2>1. registered' \in BOOLEAN /\ retry' \in BOOLEAN
      BY <1>36, Zenon DEF TypeOK, ShutdownRemove, KeepLoop, KeepDriver, Unregister
    <2>2. CASE registered
      BY <1>36, <2>1, <2>2 DEF TypeOK, ShutdownRemove, KeepLoop, KeepDriver, Unregister
    <2>3. CASE ~registered
      BY <1>36, <2>1, <2>3 DEF TypeOK, ShutdownRemove, KeepLoop, KeepDriver, Unregister
    <2> QED
      BY <2>2, <2>3
  <1>37. CASE UNCHANGED vars
    BY <1>37 DEF vars, TypeOK
  <1> QED
    BY <1>1, <1>2, <1>3, <1>4, <1>5, <1>6, <1>7, <1>8, <1>9, <1>10, <1>11, <1>12, <1>13,
       <1>14, <1>15, <1>16, <1>17, <1>18, <1>19, <1>20, <1>21, <1>22, <1>23, <1>24, <1>25,
       <1>26, <1>27, <1>28, <1>29, <1>30, <1>31, <1>32, <1>33, <1>34, <1>35, <1>36, <1>37
       DEF Next, CommandCaller, DefaultCaller, RunLoop, Lifecycle

\* Receiving from a queue without repetitions.
LEMMA TailOfDistinct ==
    ASSUME NEW S, NEW q \in Seq(S), q # <<>>, Distinct(q)
    PROVE  /\ Distinct(Tail(q))
           /\ \A i \in 1..Len(Tail(q)) :
                /\ i + 1 \in 1..Len(q) /\ Tail(q)[i] = q[i + 1]
                /\ Tail(q)[i] \in S /\ Tail(q)[i] # Head(q)
  <1>1. \A i \in 1..Len(Tail(q)) : i + 1 \in 1..Len(q) /\ Tail(q)[i] = q[i + 1]
    OBVIOUS
  <1>2. Head(q) = q[1] /\ 1 \in 1..Len(q)
    OBVIOUS
  <1>3. \A i \in 1..Len(Tail(q)) : q[i + 1] \in S /\ q[i + 1] # q[1]
    BY <1>1, <1>2 DEF Distinct
  <1>4. ASSUME NEW i \in 1..Len(Tail(q)), NEW j \in 1..Len(Tail(q)), Tail(q)[i] = Tail(q)[j]
        PROVE  i = j
    <2>1. i + 1 = j + 1
      BY <1>1, <1>4 DEF Distinct
    <2> QED
      BY <2>1
  <1> QED
    BY <1>1, <1>2, <1>3, <1>4 DEF Distinct

\* Sending to a queue without repetitions.
LEMMA AppendToDistinct ==
    ASSUME NEW S, NEW q \in Seq(S), Distinct(q), NEW c \in S,
           \A i \in 1..Len(q) : q[i] # c
    PROVE  Distinct(Append(q, c))
  BY DEF Distinct
\* Every step keeps the other conjuncts, one case per action of Next.
LEMMA SafeStep == IInv /\ [Next]_vars => Safe'
  <1> SUFFICES ASSUME IInv, [Next]_vars PROVE Safe'
    OBVIOUS
  <1> USE DriverActorAssumption
      DEF IInv, Safe, TypeOK, CallPcs, DefaultPcs, Kinds, IGate, IShutdown, IQueue, ICur, ICalls,
          IDefaults, IStale, IHanded, IObserve, IStopped, IResume, BlockedCommandIsCanceled,
          ConfirmedMeansDefault, BlockedHasRecovery, ForcedDeviceIsGated, CommandPcs, Pending,
          StopFlag
  <1>1. ASSUME NEW c \in Calls, NEW k \in Sent, NEW y \in Cycles \cup {NoCycle},
               FindDriver(c, k, y)
        PROVE  Safe'
    BY <1>1 DEF FindDriver, CommandCallOnly
  <1>2. ASSUME NEW c \in Calls, ReadEpoch(c) PROVE Safe'
    BY <1>2 DEF ReadEpoch, CommandCallOnly
  <1>3. ASSUME NEW c \in Calls, Enqueue(c) PROVE Safe'
    <2>1. IGate' /\ IShutdown' /\ IStopped' /\ ForcedDeviceIsGated'
      BY <1>3 DEF Enqueue, CommandCallOnly, Return
    <2>2. IDefaults' /\ IHanded' /\ IObserve' /\ BlockedCommandIsCanceled' /\ ConfirmedMeansDefault'
      BY <1>3 DEF Enqueue, CommandCallOnly, Return
    <2>3. BlockedHasRecovery'
      BY <1>3 DEF Enqueue, CommandCallOnly, Return
    <2>4. IQueue'
      <3>1. CASE callGen[c] = gen
        <4>1. /\ cmdCh' = Append(cmdCh, c) /\ at' = [at EXCEPT ![c] = "queued"]
              /\ UNCHANGED <<gen, callGen>> /\ at[c] = "issued"
          BY <1>3, <3>1 DEF Enqueue, CommandCallOnly
        <4>2. \A i \in 1..Len(cmdCh) : cmdCh[i] # c /\ cmdCh[i] \in Calls
          BY <4>1, SMTT(30)
        <4>3. /\ Len(cmdCh') = Len(cmdCh) + 1 /\ cmdCh'[Len(cmdCh) + 1] = c
              /\ \A i \in 1..Len(cmdCh) : cmdCh'[i] = cmdCh[i]
          BY <4>1
        <4>4. \A i \in 1..Len(cmdCh') : i \in 1..Len(cmdCh) \/ i = Len(cmdCh) + 1
          BY <4>3
        <4>5. \A i \in 1..Len(cmdCh') : at'[cmdCh'[i]] = "queued" /\ callGen'[cmdCh'[i]] = gen'
          BY <3>1, <4>1, <4>2, <4>3, <4>4
        <4>6. cmdCh \in Seq(Calls) /\ Distinct(cmdCh)
          OBVIOUS
        <4>7. Distinct(cmdCh')
          BY <4>1, <4>2, <4>6, AppendToDistinct
        <4> QED
          BY <4>5, <4>7
      <3>2. CASE callGen[c] # gen
        <4>1. /\ UNCHANGED <<cmdCh, gen>> /\ at[c] = "issued"
              /\ at' = [at EXCEPT ![c] = "failed"] /\ callGen' = [callGen EXCEPT ![c] = 0]
          BY <1>3, <3>2 DEF Enqueue, CommandCallOnly, Return
        <4> QED
          BY <4>1, SMTT(30)
      <3> QED
        BY <3>1, <3>2
    <2>5. ICur'
      BY <1>3 DEF Enqueue, CommandCallOnly, Return
    <2>6. ICalls'
      BY <1>3 DEF Enqueue, CommandCallOnly, Return
    <2>7. IResume'
      BY <1>3 DEF Enqueue, CommandCallOnly, Return
    <2>8. IStale'
      <3>1. CASE callGen[c] = gen
        BY <1>3, <3>1, ZenonT(40) DEF Enqueue, CommandCallOnly
      <3>2. CASE callGen[c] # gen
        <4>1. /\ callEpoch' = [callEpoch EXCEPT ![c] = 0]
              /\ at' = [at EXCEPT ![c] = "failed"] /\ callGen' = [callGen EXCEPT ![c] = 0]
              /\ UNCHANGED <<gen, pc, stale, controlEpoch>>
          BY <1>3, <3>2 DEF Enqueue, CommandCallOnly, Return
        <4> QED
          BY <4>1
      <3> QED
        BY <3>1, <3>2
    <2> QED
      BY <2>1, <2>2, <2>3, <2>4, <2>5, <2>6, <2>7, <2>8 DEF Safe
  <1>4. ASSUME NEW c \in Calls, CallerTimesOut(c) PROVE Safe'
    <2>1. IGate' /\ IShutdown' /\ IStopped' /\ ForcedDeviceIsGated'
      BY <1>4 DEF CallerTimesOut, CommandCallOnly, Return
    <2>2. IDefaults' /\ IHanded' /\ IObserve' /\ BlockedCommandIsCanceled' /\ ConfirmedMeansDefault'
      BY <1>4 DEF CallerTimesOut, CommandCallOnly, Return
    <2>3. BlockedHasRecovery'
      BY <1>4 DEF CallerTimesOut, CommandCallOnly, Return
    <2>4. IQueue'
      BY <1>4, SMTT(30) DEF CallerTimesOut, CommandCallOnly, Return
    <2>5. ICur'
      BY <1>4 DEF CallerTimesOut, CommandCallOnly, Return
    <2>6. ICalls'
      BY <1>4 DEF CallerTimesOut, CommandCallOnly, Return
    <2>7. IResume'
      BY <1>4 DEF CallerTimesOut, CommandCallOnly, Return
    <2>8. IStale'
      BY <1>4, ZenonT(40) DEF CallerTimesOut, CommandCallOnly, Return
    <2> QED
      BY <2>1, <2>2, <2>3, <2>4, <2>5, <2>6, <2>7, <2>8 DEF Safe
  <1>5. ASSUME NEW d \in Defaults, SendDefault(d) PROVE Safe'
    BY <1>5 DEF SendDefault, DefaultCallOnly
  <1>6. ASSUME NEW d \in Defaults, CloseControlWindow(d) PROVE Safe'
    BY <1>6 DEF CloseControlWindow, DefaultCallOnly, MarkDefaultRecoveryPending
  <1>7. ASSUME NEW d \in Defaults, CancelActiveCommand(d) PROVE Safe'
    <2>1. IGate' /\ IShutdown' /\ IStopped' /\ ForcedDeviceIsGated'
      BY <1>7 DEF CancelActiveCommand, DefaultCallOnly
    <2>2. IDefaults' /\ IHanded' /\ IObserve' /\ BlockedCommandIsCanceled' /\ ConfirmedMeansDefault'
      BY <1>7 DEF CancelActiveCommand, DefaultCallOnly
    <2>3. BlockedHasRecovery'
      BY <1>7 DEF CancelActiveCommand, DefaultCallOnly
    <2>4. IQueue'
      BY <1>7 DEF CancelActiveCommand, DefaultCallOnly
    <2>5. ICur' /\ ICalls' /\ IResume'
      BY <1>7 DEF CancelActiveCommand, DefaultCallOnly
    <2>6. IStale'
      BY <1>7 DEF CancelActiveCommand, DefaultCallOnly
    <2> QED
      BY <2>1, <2>2, <2>3, <2>4, <2>5, <2>6 DEF Safe
  <1>8. ASSUME NEW d \in Defaults, EnqueueDefault(d) PROVE Safe'
    <2>1. IGate' /\ IShutdown' /\ IStopped' /\ ForcedDeviceIsGated'
      BY <1>8 DEF EnqueueDefault, DefaultCallOnly, DefaultReturns
    <2>2. IDefaults' /\ IHanded' /\ IObserve' /\ BlockedCommandIsCanceled' /\ ConfirmedMeansDefault'
      BY <1>8 DEF EnqueueDefault, DefaultCallOnly, DefaultReturns
    <2>3. BlockedHasRecovery'
      <3>1. CASE dfltGen[d] = gen
        <4>1. defaultCh' = <<d>>
          BY <1>8, <3>1 DEF EnqueueDefault
        <4>2. defaultCh' # <<>>
          BY <4>1
        <4> QED
          BY <4>2
      <3>2. CASE dfltGen[d] # gen
        BY <1>8, <3>2 DEF EnqueueDefault, DefaultCallOnly, DefaultReturns
      <3> QED
        BY <3>1, <3>2
    <2>4. IQueue'
      BY <1>8 DEF EnqueueDefault, DefaultCallOnly, DefaultReturns
    <2>5. ICur' /\ ICalls' /\ IResume'
      BY <1>8 DEF EnqueueDefault, DefaultCallOnly, DefaultReturns
    <2>6. IStale'
      BY <1>8 DEF EnqueueDefault, DefaultCallOnly, DefaultReturns
    <2> QED
      BY <2>1, <2>2, <2>3, <2>4, <2>5, <2>6 DEF Safe
  <1>9. ASSUME NEW d \in Defaults, WaitForRoom(d) PROVE Safe'
    <2>1. IGate' /\ IShutdown' /\ IStopped' /\ ForcedDeviceIsGated'
      BY <1>9 DEF WaitForRoom, DefaultCallOnly, DefaultReturns
    <2>2. IDefaults'
      BY <1>9 DEF WaitForRoom, DefaultCallOnly, DefaultReturns
    <2>3. IHanded' /\ IObserve'
      BY <1>9 DEF WaitForRoom, DefaultCallOnly, DefaultReturns
    <2>4. BlockedCommandIsCanceled' /\ ConfirmedMeansDefault'
      BY <1>9 DEF WaitForRoom, DefaultCallOnly, DefaultReturns
    <2>5. BlockedHasRecovery'
      BY <1>9 DEF WaitForRoom, DefaultCallOnly, DefaultReturns
    <2>6. IQueue'
      BY <1>9 DEF WaitForRoom, DefaultCallOnly, DefaultReturns
    <2>7. ICur' /\ ICalls' /\ IResume'
      BY <1>9 DEF WaitForRoom, DefaultCallOnly, DefaultReturns
    <2>8. IStale'
      BY <1>9 DEF WaitForRoom, DefaultCallOnly, DefaultReturns
    <2> QED
      BY <2>1, <2>2, <2>3, <2>4, <2>5, <2>6, <2>7, <2>8 DEF Safe
  <1>10. ASSUME StartLoop PROVE Safe'
    BY <1>10 DEF StartLoop, LoopOnly
  <1>11. ASSUME CheckDefaults PROVE Safe'
    BY <1>11 DEF CheckDefaults, LoopOnly, EnterDefault
  <1>12. ASSUME TakeDefault PROVE Safe'
    BY <1>12 DEF TakeDefault, LoopOnly, EnterDefault
  <1>13. ASSUME RecoveryFires PROVE Safe'
    BY <1>13 DEF RecoveryFires, LoopOnly, EnterDefault
  <1>14. ASSUME NEW ok \in BOOLEAN, Poll(ok) PROVE Safe'
    BY <1>14 DEF Poll, LoopOnly, EnterDefault
  <1>15. ASSUME DefaultSucceeds PROVE Safe'
    BY <1>15 DEF DefaultSucceeds, LoopOnly, MarkDefaultConfirmed, Issued
  <1>16. ASSUME DefaultFails PROVE Safe'
    BY <1>16 DEF DefaultFails, LoopOnly, ScheduleRecovery, MarkDefaultRecoveryPending
  <1>17. ASSUME RefuseCommand PROVE Safe'
    <2>1. IGate' /\ IShutdown' /\ IStopped' /\ ForcedDeviceIsGated'
      BY <1>17 DEF RefuseCommand, LoopOnly, Return, CommandRejected, Superseded
    <2>2. IDefaults' /\ IHanded' /\ IObserve' /\ BlockedCommandIsCanceled' /\ ConfirmedMeansDefault'
      BY <1>17 DEF RefuseCommand, LoopOnly, Return, CommandRejected, Superseded
    <2>3. BlockedHasRecovery'
      BY <1>17 DEF RefuseCommand, LoopOnly, Return, CommandRejected, Superseded
    <2>4. IQueue'
      <3>1. /\ cmdCh # <<>> /\ cmdCh' = Tail(cmdCh) /\ gen' = gen
            /\ at' = [at EXCEPT ![Head(cmdCh)] = "failed"]
            /\ callGen' = [callGen EXCEPT ![Head(cmdCh)] = 0]
        BY <1>17 DEF RefuseCommand, LoopOnly, Return
      <3>2. cmdCh \in Seq(Calls) /\ Distinct(cmdCh)
        OBVIOUS
      <3>3. /\ Distinct(Tail(cmdCh))
            /\ \A i \in 1..Len(Tail(cmdCh)) :
                 /\ i + 1 \in 1..Len(cmdCh) /\ Tail(cmdCh)[i] = cmdCh[i + 1]
                 /\ Tail(cmdCh)[i] \in Calls /\ Tail(cmdCh)[i] # Head(cmdCh)
        BY <3>1, <3>2, TailOfDistinct
      <3>4. \A i \in 1..Len(cmdCh') : at'[cmdCh'[i]] = "queued" /\ callGen'[cmdCh'[i]] = gen'
        BY <3>1, <3>3, SMTT(30)
      <3> QED
        BY <3>1, <3>3, <3>4
    <2>5. ICur' /\ ICalls' /\ IResume'
      BY <1>17 DEF RefuseCommand, LoopOnly, Return, CommandRejected, Superseded
    <2>6. IStale'
      BY <1>17 DEF RefuseCommand, LoopOnly, Return, CommandRejected, Superseded
    <2> QED
      BY <2>1, <2>2, <2>3, <2>4, <2>5, <2>6 DEF Safe
  <1>18. ASSUME AdmitCommand PROVE Safe'
    BY <1>18, SMTT(30) DEF AdmitCommand, LoopOnly, CommandRejected, Superseded, Distinct
  <1>19. ASSUME BeginCommand PROVE Safe'
    BY <1>19 DEF BeginCommand, LoopOnly
  <1>20. ASSUME Recheck PROVE Safe'
    <2>1. IGate' /\ IShutdown' /\ IStopped' /\ ForcedDeviceIsGated'
      BY <1>20 DEF Recheck, LoopOnly, Return, RejectedWithHook, CommandRejected
    <2>2. IDefaults' /\ IHanded' /\ IObserve' /\ BlockedCommandIsCanceled' /\ ConfirmedMeansDefault'
      BY <1>20 DEF Recheck, LoopOnly, Return, RejectedWithHook, CommandRejected
    <2>3. BlockedHasRecovery'
      BY <1>20 DEF Recheck, LoopOnly, Return, RejectedWithHook, CommandRejected
    <2>4. IQueue'
      BY <1>20 DEF Recheck, LoopOnly, Return, RejectedWithHook, CommandRejected
    <2>5. ICur' /\ ICalls' /\ IResume'
      BY <1>20 DEF Recheck, LoopOnly, Return, RejectedWithHook, CommandRejected
    <2>6. IStale'
      BY <1>20, ZenonT(40) DEF Recheck, LoopOnly, Return, RejectedWithHook, CommandRejected
    <2> QED
      BY <2>1, <2>2, <2>3, <2>4, <2>5, <2>6 DEF Safe
  <1>21. ASSUME CommandSucceeds PROVE Safe'
    BY <1>21 DEF CommandSucceeds, LoopOnly, Return, MarkCommandApplied, IsCycle
  <1>22. ASSUME CommandFails PROVE Safe'
    BY <1>22 DEF CommandFails, LoopOnly, Return, EnterDefault
  <1>23. ASSUME TakeStop PROVE Safe'
    BY <1>23 DEF TakeStop, LoopOnly
  <1>24. ASSUME NEW ok \in BOOLEAN, ShutdownDefault(ok) PROVE Safe'
    BY <1>24, ZenonT(40) DEF ShutdownDefault, LoopOnly, Issued
  <1>25. ASSUME NEW next \in {"nothing", "add"}, Remove(next) PROVE Safe'
    <2>1. IGate' /\ IShutdown' /\ IStopped' /\ ForcedDeviceIsGated'
      BY <1>25 DEF Remove, KeepLoop, KeepDriver, Unregister
    <2>2. IDefaults' /\ IHanded' /\ IObserve' /\ BlockedCommandIsCanceled' /\ ConfirmedMeansDefault'
      BY <1>25 DEF Remove, KeepLoop, KeepDriver, Unregister
    <2>3. BlockedHasRecovery'
      BY <1>25 DEF Remove, KeepLoop, KeepDriver, Unregister
    <2>4. IQueue'
      BY <1>25 DEF Remove, KeepLoop, KeepDriver, Unregister
    <2>5. ICur' /\ ICalls' /\ IResume'
      BY <1>25 DEF Remove, KeepLoop, KeepDriver, Unregister
    <2>6. IStale'
      BY <1>25 DEF Remove, KeepLoop, KeepDriver, Unregister
    <2> QED
      BY <2>1, <2>2, <2>3, <2>4, <2>5, <2>6 DEF Safe
  <1>26. ASSUME NEW next \in {"nothing", "add"}, RemoveAbsent(next) PROVE Safe'
    BY <1>26 DEF RemoveAbsent, KeepLoop, KeepDriver
  <1>27. ASSUME SignalStop PROVE Safe'
    BY <1>27 DEF SignalStop, KeepLoop
  <1>28. ASSUME FinishRemove PROVE Safe'
    BY <1>28 DEF FinishRemove, KeepLoop, KeepDriver, GateAfterStop
  <1>29. ASSUME Add PROVE Safe'
    BY <1>29 DEF Add, KeepLoop, KeepDriver
  <1>30. ASSUME RetrySpawn PROVE Safe'
    <2>1. IGate' /\ IShutdown' /\ IStopped' /\ ForcedDeviceIsGated'
      BY <1>30 DEF RetrySpawn, KeepLoop, KeepDriver
    <2>2. IDefaults' /\ IHanded' /\ IObserve' /\ BlockedCommandIsCanceled' /\ ConfirmedMeansDefault'
      BY <1>30 DEF RetrySpawn, KeepLoop, KeepDriver
    <2>3. BlockedHasRecovery'
      BY <1>30 DEF RetrySpawn, KeepLoop, KeepDriver
    <2>4. IQueue'
      BY <1>30 DEF RetrySpawn, KeepLoop, KeepDriver
    <2>5. ICur' /\ ICalls' /\ IResume'
      BY <1>30 DEF RetrySpawn, KeepLoop, KeepDriver
    <2>6. IStale'
      BY <1>30 DEF RetrySpawn, KeepLoop, KeepDriver
    <2> QED
      BY <2>1, <2>2, <2>3, <2>4, <2>5, <2>6 DEF Safe
  <1>31. ASSUME StartFails PROVE Safe'
    BY <1>31 DEF StartFails, KeepLoop, KeepDriver, RetryAfterFailure
  <1>32. ASSUME NEW observe \in BOOLEAN, NEW defaultOk \in BOOLEAN,
                Register(observe, defaultOk)
        PROVE  Safe'
    <2>1. IGate' /\ IShutdown' /\ IStopped' /\ ForcedDeviceIsGated'
      BY <1>32 DEF Register, StartsBlocked, Issued, Distinct
    <2>2. IDefaults'
      BY <1>32 DEF Register, StartsBlocked, Issued, Distinct
    <2>3. IHanded' /\ IObserve'
      BY <1>32 DEF Register, StartsBlocked, Issued, Distinct
    <2>4. BlockedCommandIsCanceled' /\ ConfirmedMeansDefault'
      BY <1>32 DEF Register, StartsBlocked, Issued, Distinct
    <2>5. BlockedHasRecovery'
      BY <1>32 DEF Register, StartsBlocked, Issued, Distinct
    <2>6. IQueue'
      BY <1>32 DEF Register, StartsBlocked, Issued, Distinct
    <2>7. ICur' /\ ICalls' /\ IResume'
      BY <1>32 DEF Register, StartsBlocked, Issued, Distinct
    <2>8. IStale'
      BY <1>32 DEF Register, StartsBlocked, Issued, Distinct
    <2> QED
      BY <2>1, <2>2, <2>3, <2>4, <2>5, <2>6, <2>7, <2>8 DEF Safe
  <1>33. ASSUME RetryReturns PROVE Safe'
    <2>1. IGate' /\ IShutdown' /\ IStopped' /\ ForcedDeviceIsGated'
      BY <1>33 DEF RetryReturns, KeepLoop, KeepDriver, Unregister
    <2>2. IDefaults' /\ IHanded' /\ IObserve' /\ BlockedCommandIsCanceled' /\ ConfirmedMeansDefault'
      BY <1>33 DEF RetryReturns, KeepLoop, KeepDriver, Unregister
    <2>3. BlockedHasRecovery'
      BY <1>33 DEF RetryReturns, KeepLoop, KeepDriver, Unregister
    <2>4. IQueue'
      BY <1>33 DEF RetryReturns, KeepLoop, KeepDriver, Unregister
    <2>5. ICur' /\ ICalls' /\ IResume'
      BY <1>33 DEF RetryReturns, KeepLoop, KeepDriver, Unregister
    <2>6. IStale'
      BY <1>33 DEF RetryReturns, KeepLoop, KeepDriver, Unregister
    <2> QED
      BY <2>1, <2>2, <2>3, <2>4, <2>5, <2>6 DEF Safe
  <1>34. ASSUME CloseSpawnRetries PROVE Safe'
    BY <1>34 DEF CloseSpawnRetries, KeepLoop, KeepDriver
  <1>35. ASSUME ListDrivers PROVE Safe'
    BY <1>35 DEF ListDrivers, KeepLoop, KeepDriver
  <1>36. ASSUME ShutdownRemove PROVE Safe'
    BY <1>36 DEF ShutdownRemove, KeepLoop, KeepDriver, Unregister
  <1>37. CASE UNCHANGED vars
    BY <1>37 DEF vars
  <1> QED
    BY <1>1, <1>2, <1>3, <1>4, <1>5, <1>6, <1>7, <1>8, <1>9, <1>10, <1>11, <1>12, <1>13,
       <1>14, <1>15, <1>16, <1>17, <1>18, <1>19, <1>20, <1>21, <1>22, <1>23, <1>24, <1>25,
       <1>26, <1>27, <1>28, <1>29, <1>30, <1>31, <1>32, <1>33, <1>34, <1>35, <1>36, <1>37
       DEF Next, CommandCaller, DefaultCaller, RunLoop, Lifecycle

-----------------------------------------------------------------------------
(* The inductive invariant, and what follows from it *)

\* Every reachable state of the actor satisfies the inductive invariant,
\* whatever the callers, the loop and the gate holder interleave.
THEOREM Inductive == Spec => []IInv
  <1>1. Init => IInv
    BY InitIInv
  <1>2. IInv /\ [Next]_vars => IInv'
    BY TypeStep, SafeStep DEF IInv, Safe
  <1> QED
    BY <1>1, <1>2, PTL DEF Spec

\* The fields of the registry, of the runningDriver and of the callers keep
\* their types for any number of calls, generations and refused defaults.
THEOREM TypeCorrect == Spec => []TypeOK
  <1>1. IInv => TypeOK
    BY DEF IInv
  <1> QED
    BY <1>1, Inductive, PTL

\* markDefaultConfirmed ends all earlier control intent: a command issued
\* before a confirmed default never reaches the device after it.
THEOREM StaleCommandsNeverRun == Spec => []NoStaleCommandRuns
  <1>1. IInv => NoStaleCommandRuns
    BY DEF IInv, Safe, TypeOK, ICur, IStale, CommandPcs, Pending, NoStaleCommandRuns
  <1> QED
    BY <1>1, Inductive, PTL

\* A command that runs while the control window is closed is canceled, or the
\* SendDefault that closed the window is about to cancel it.
THEOREM WindowReachesRunningCommand == Spec => []BlockedCommandIsCanceled
  <1>1. IInv => BlockedCommandIsCanceled
    BY DEF IInv, Safe
  <1> QED
    BY <1>1, Inductive, PTL

\* A command only runs in a generation whose device has confirmed its default,
\* and never on an observe_only driver.
THEOREM CommandsFollowAConfirmedDefault == Spec => []CommandNeedsConfirmedDefault
  <1>1. IInv => CommandNeedsConfirmedDefault
    BY DEF IInv, Safe, IHanded, CommandPcs, CommandNeedsConfirmedDefault
  <1> QED
    BY <1>1, Inductive, PTL

\* DefaultConfirmed in the published control status is true of the device.
THEOREM ConfirmedStatusIsTrue == Spec => []ConfirmedMeansDefault
  <1>1. IInv => ConfirmedMeansDefault
    BY DEF IInv, Safe
  <1> QED
    BY <1>1, Inductive, PTL

\* A blocked generation always keeps a way to its next default.
THEOREM BlockedNeverStranded == Spec => []BlockedHasRecovery
  <1>1. IInv => BlockedHasRecovery
    BY DEF IInv, Safe
  <1> QED
    BY <1>1, Inductive, PTL

\* A device that no loop owns and that may still hold a command keeps
\* recoveryRequired set.
THEOREM ForcedNamesStayGated == Spec => []ForcedDeviceIsGated
  <1>1. IInv => ForcedDeviceIsGated
    BY DEF IInv, Safe
  <1> QED
    BY <1>1, Inductive, PTL

\* An automatic wallbox resume runs only while its own pause is the last thing
\* the charger was told.
THEOREM ResumesFollowTheirPause == Spec => []ResumeFollowsItsPause
  <1>1. IInv => ResumeFollowsItsPause
    BY DEF IInv, Safe, IResume, CommandPcs, ResumeFollowsItsPause
  <1> QED
    BY <1>1, Inductive, PTL

\* Once ShutdownAll has returned no loop, claim or retry is left.
THEOREM NothingRunsAfterShutdown == Spec => []ShutdownIsFinal
  <1>1. IInv => ShutdownIsFinal
    BY DEF IInv, Safe, IGate, IShutdown, ShutdownIsFinal
  <1> QED
    BY <1>1, Inductive, PTL

\* The registry's admission of commands: only after a confirmed default, and
\* never past a window that SendDefault has closed.
THEOREM AdmissionIsSafe == Spec => []CommandsAreGated
  BY WindowReachesRunningCommand, CommandsFollowAConfirmedDefault, PTL DEF CommandsAreGated

\* A device that may be forced is released by its own loop or inherited, gated,
\* by the next generation.
THEOREM SomebodyReleases == Spec => []ReleaseIsNeverLost
  BY BlockedNeverStranded, ForcedNamesStayGated, PTL DEF ReleaseIsNeverLost
=============================================================================
