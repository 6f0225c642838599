---------------------------- MODULE DriverActor ----------------------------
(***************************************************************************)
(* One driver name of the driver registry (go/internal/drivers/            *)
(* registry.go, registry_spawn_retry.go): the run loop that owns the       *)
(* device, the callers of Send and SendDefault, the lifecycle operations   *)
(* serialised by the per-name gate (Add, Remove, Restart, Reload, the      *)
(* spawn retry) and ShutdownAll.                                           *)
(*                                                                         *)
(* The registry keeps at most one run loop per name alive: removeLocked    *)
(* waits for the old loop's done channel before the gate is released or    *)
(* add runs.  So one set of variables holds the fields of the current      *)
(* runningDriver, and a caller that still holds an older runningDriver     *)
(* (its gen differs from gen) only touches fields and channels that no     *)
(* loop reads any more.                                                    *)
(***************************************************************************)
EXTENDS Naturals, Sequences, FiniteSets

CONSTANTS
    Calls,      \* command calls, each made at most once
    Defaults,   \* SendDefault calls, each made at most once
    Cycles,     \* wallbox pause/resume cycle ids
    Sent,       \* the kinds of command that are sent
    QueueCap,   \* capacity of cmdCh
    MaxGen,     \* bound: generations added in one process
    MaxFail,    \* bound: driver_default_mode calls the device refuses
    NoCall, NoCycle

ASSUME DriverActorAssumption ==
    /\ QueueCap \in Nat \ {0}
    /\ MaxGen \in Nat
    /\ MaxFail \in Nat
    /\ Sent \subseteq {"set", "operator", "pause", "resume"}
    /\ NoCall \notin Calls
    /\ NoCycle \notin Cycles

VARIABLES
    \* --- Registry fields for this name
    registered,   \* rec[name] exists
    gen,          \* generation of the newest runningDriver (nextGeneration)
    required,     \* recoveryRequired[name]: a replacement starts blocked
    gate,         \* where the holder of the lifecycle gate stands
    andThen,      \* what the gate holder does after removeLocked
    retry,        \* spawnRetries[name] is set: a start failed, a timer runs
    inflight,     \* spawnInflight[name] is set
    closed,       \* spawnRetryClosed
    shutdown,     \* progress of ShutdownAll
    \* --- runningDriver fields of generation gen
    observeOnly,  \* cfg.ObserveOnly
    controlBlocked, controlEpoch, defaultConfirmed, recoveryPending,
    ending,       \* lifecycleCtx is canceled
    canceled,     \* the active command's context is canceled
    stop,         \* the stop channel: the skipDefault flag sent, if any
    shutdownErr,  \* shutdownDefaultErr # nil
    pausePending, \* evPauseCycleID while evPausePending, else NoCycle
    cmdCh,        \* queue of command calls
    defaultCh,    \* one-slot queue of SendDefault calls
    \* --- locals of runLoop
    pc,           \* where the loop stands
    cur,          \* the command call in hand
    timer,        \* recoveryC # nil
    pollFailed,
    \* --- callers
    at,           \* progress of each command call
    callGen,      \* the generation it found
    callEpoch,    \* driverCmd.controlEpoch
    kind, cycle,  \* its action and cycle id
    expired,      \* calls whose context has run out
    dfltAt,       \* progress of each SendDefault call
    dfltGen,      \* the generation it found
    \* --- the device (outside the code) and history
    device,       \* what the device was last told, as far as FTW can know
    fails,        \* default calls refused so far (bound)
    stale,        \* history: calls issued before the last confirmed default
    resumable,    \* history: cycles paused with no default or operator since
    handed        \* history: the device confirmed default in generation gen

registryVars == <<registered, gen, required, gate, andThen, retry, inflight, closed, shutdown>>
status       == <<controlBlocked, controlEpoch, defaultConfirmed, recoveryPending>>
loopVars     == <<pc, cur, timer, pollFailed>>
callVars     == <<at, callGen, callEpoch, kind, cycle, expired>>
dfltVars     == <<dfltAt, dfltGen>>
history      == <<stale, resumable, handed>>
vars == <<registryVars, status, loopVars, callVars, dfltVars, history,
          observeOnly, ending, canceled, stop, shutdownErr, pausePending,
          cmdCh, defaultCh, device, fails>>

-----------------------------------------------------------------------------
(* Types and initial state *)

Kinds == {"set", "operator", "pause", "resume"}

CallPcs == {"new", "found", "issued", "queued", "taken", "ok", "failed"}

DefaultPcs == {"new", "found", "marked", "canceling", "waiting", "sent", "gaveUp"}

TypeOK ==
    /\ registered \in BOOLEAN /\ gen \in Nat /\ required \in BOOLEAN
    /\ gate \in {"free", "removing", "stopping", "adding", "added"}
    /\ andThen \in {"nothing", "add"}
    /\ retry \in BOOLEAN /\ inflight \in BOOLEAN /\ closed \in BOOLEAN
    /\ shutdown \in {"no", "closed", "waiting", "listed", "done"}
    /\ observeOnly \in BOOLEAN
    /\ controlBlocked \in BOOLEAN /\ controlEpoch \in Nat
    /\ defaultConfirmed \in BOOLEAN /\ recoveryPending \in BOOLEAN
    /\ ending \in BOOLEAN /\ canceled \in BOOLEAN
    /\ stop \in {"none", "default", "skip"} /\ shutdownErr \in BOOLEAN
    /\ pausePending \in Cycles \cup {NoCycle}
    /\ cmdCh \in Seq(Calls) /\ defaultCh \in Seq(Defaults)
    /\ pc \in {"start", "top", "select", "admitted", "hooked", "running", "default", "shutdown", "done"}
    /\ cur \in Calls \cup {NoCall}
    /\ timer \in BOOLEAN /\ pollFailed \in BOOLEAN
    /\ at \in [Calls -> CallPcs] /\ callGen \in [Calls -> Nat] /\ callEpoch \in [Calls -> Nat]
    /\ kind \in [Calls -> Kinds] /\ cycle \in [Calls -> Cycles \cup {NoCycle}]
    /\ expired \subseteq Calls
    /\ dfltAt \in [Defaults -> DefaultPcs] /\ dfltGen \in [Defaults -> Nat]
    /\ device \in {"unknown", "default", "forced"} /\ fails \in Nat
    /\ stale \subseteq Calls /\ resumable \subseteq Cycles /\ handed \in BOOLEAN

\* NewRegistry: nothing runs; the device is in whatever mode an earlier
\* process left it in.
Init ==
    /\ registered = FALSE /\ gen = 0 /\ required = FALSE
    /\ gate = "free" /\ andThen = "nothing"
    /\ retry = FALSE /\ inflight = FALSE /\ closed = FALSE /\ shutdown = "no"
    /\ observeOnly = FALSE
    /\ controlBlocked = FALSE /\ controlEpoch = 0
    /\ defaultConfirmed = FALSE /\ recoveryPending = FALSE
    /\ ending = FALSE /\ canceled = FALSE /\ stop = "none" /\ shutdownErr = FALSE
    /\ pausePending = NoCycle /\ cmdCh = <<>> /\ defaultCh = <<>>
    /\ pc = "done" /\ cur = NoCall /\ timer = FALSE /\ pollFailed = FALSE
    /\ at = [c \in Calls |-> "new"] /\ callGen = [c \in Calls |-> 0]
    /\ callEpoch = [c \in Calls |-> 0] /\ kind = [c \in Calls |-> "set"]
    /\ cycle = [c \in Calls |-> NoCycle] /\ expired = {}
    /\ dfltAt = [d \in Defaults |-> "new"] /\ dfltGen = [d \in Defaults |-> 0]
    /\ device = "unknown" /\ fails = 0
    /\ stale = {} /\ resumable = {} /\ handed = FALSE

-----------------------------------------------------------------------------
(* Control status: runningDriver's mark functions and the admission test *)

AppliedUnmarked == UNCHANGED status   \* faulty variant: the status is left alone

MarkCommandApplied ==
    /\ defaultConfirmed' = FALSE
    /\ UNCHANGED <<controlBlocked, controlEpoch, recoveryPending>>

\* faulty variant: the epoch is taken back below the first one
ConfirmedBeforeFirstEpoch ==
    /\ controlEpoch' = controlEpoch - 1
    /\ controlBlocked' = FALSE /\ defaultConfirmed' = TRUE /\ recoveryPending' = FALSE

MarkDefaultConfirmed ==
    /\ controlEpoch' = controlEpoch + 1
    /\ controlBlocked' = FALSE /\ defaultConfirmed' = TRUE /\ recoveryPending' = FALSE

MarkDefaultRecoveryPending ==
    /\ controlBlocked' = TRUE /\ defaultConfirmed' = FALSE /\ recoveryPending' = TRUE
    /\ UNCHANGED controlEpoch

RejectedOnlyIfBlocked(c) == controlBlocked   \* faulty variant: no epoch test

CommandRejected(c) == controlBlocked \/ callEpoch[c] # controlEpoch

\* A call that has returned: only its outcome and its cycle matter from here.
Return(c, result) ==
    /\ at' = [at EXCEPT ![c] = result]
    /\ callGen' = [callGen EXCEPT ![c] = 0] /\ callEpoch' = [callEpoch EXCEPT ![c] = 0]
    /\ UNCHANGED <<kind, cycle, expired>>

\* The calls whose control intent a default confirmed now ends: every call
\* that has read its epoch, whatever channel it waits in.
Issued == {c \in Calls : at[c] \in {"issued", "queued", "taken"}}

-----------------------------------------------------------------------------
(* Callers of Send, SendWithOutcome and SendEVContinuation *)

CommandCallOnly ==
    UNCHANGED <<registryVars, status, loopVars, dfltVars, history, observeOnly, ending, canceled,
                stop, shutdownErr, pausePending, defaultCh, device, fails>>

\* sendWithGeneration up to the lookup.  A cycle id belongs to one
\* pause and, once the pause has succeeded, one resume.
FindDriver(c, k, y) ==
    /\ at[c] = "new" /\ registered /\ ~observeOnly
    /\ (k \in {"pause", "resume"}) <=> (y # NoCycle)
    /\ k = "pause" => \A b \in Calls : cycle[b] # y
    /\ k = "resume" =>
         /\ \E b \in Calls : cycle[b] = y /\ at[b] = "ok" /\ b \notin expired
         /\ \A b \in Calls : cycle[b] = y => kind[b] = "pause"
    /\ at' = [at EXCEPT ![c] = "found"] /\ callGen' = [callGen EXCEPT ![c] = gen]
    /\ kind' = [kind EXCEPT ![c] = k] /\ cycle' = [cycle EXCEPT ![c] = y]
    /\ UNCHANGED <<callEpoch, expired, cmdCh>> /\ CommandCallOnly

\* commandEpoch: the epoch of the runningDriver found, which may be old.
ReadEpoch(c) ==
    /\ at[c] = "found"
    /\ at' = [at EXCEPT ![c] = "issued"]
    /\ callEpoch' = [callEpoch EXCEPT ![c] = IF callGen[c] = gen THEN controlEpoch ELSE 0]
    /\ UNCHANGED <<callGen, kind, cycle, expired, cmdCh>> /\ CommandCallOnly

\* The send on cmdCh; on an old generation's channel nobody receives it and
\* the caller waits for its deadline.
Enqueue(c) ==
    /\ at[c] = "issued"
    /\ IF callGen[c] = gen
       THEN /\ Len(cmdCh) < QueueCap /\ cmdCh' = Append(cmdCh, c)
            /\ at' = [at EXCEPT ![c] = "queued"]
            /\ UNCHANGED <<callGen, callEpoch, kind, cycle, expired>>
       ELSE UNCHANGED cmdCh /\ Return(c, "failed")
    /\ CommandCallOnly

\* The caller's deadline passes.  Before the send the call returns; after
\* it, the command stays in the queue with a dead context.
CallerTimesOut(c) ==
    /\ c \notin expired
    /\ \/ at[c] \in {"found", "issued"} /\ Return(c, "failed")
       \/ /\ at[c] \in {"queued", "taken"} /\ expired' = expired \cup {c}
          /\ UNCHANGED <<at, callGen, callEpoch, kind, cycle>>
    /\ UNCHANGED cmdCh /\ CommandCallOnly

-----------------------------------------------------------------------------
(* Callers of SendDefault *)

DefaultCallOnly ==
    UNCHANGED <<registryVars, loopVars, callVars, history, observeOnly, ending, stop,
                shutdownErr, pausePending, cmdCh, device, fails>>

SendDefault(d) ==
    /\ dfltAt[d] = "new" /\ registered /\ ~observeOnly
    /\ dfltAt' = [dfltAt EXCEPT ![d] = "found"] /\ dfltGen' = [dfltGen EXCEPT ![d] = gen]
    /\ UNCHANGED <<status, canceled, defaultCh>> /\ DefaultCallOnly

CloseControlWindow(d) ==
    /\ dfltAt[d] = "found"
    /\ dfltAt' = [dfltAt EXCEPT ![d] = "marked"]
    /\ IF dfltGen[d] = gen THEN MarkDefaultRecoveryPending ELSE UNCHANGED status
    /\ UNCHANGED <<dfltGen, canceled, defaultCh>> /\ DefaultCallOnly

\* cancelActiveCommand: cancels only a command whose hook is installed.
CancelActiveCommand(d) ==
    /\ dfltAt[d] = "marked"
    /\ dfltAt' = [dfltAt EXCEPT ![d] = "canceling"]
    /\ canceled' = (canceled \/ (dfltGen[d] = gen /\ pc \in {"hooked", "running"}))
    /\ UNCHANGED <<dfltGen, status, defaultCh>> /\ DefaultCallOnly

DefaultReturns(d, result) ==
    dfltAt' = [dfltAt EXCEPT ![d] = result] /\ dfltGen' = [dfltGen EXCEPT ![d] = 0]

\* The send on the one-slot channel, at once or once there is room.
EnqueueDefault(d) ==
    /\ dfltAt[d] \in {"canceling", "waiting"}
    /\ IF dfltGen[d] = gen
       THEN defaultCh = <<>> /\ defaultCh' = <<d>>
       ELSE UNCHANGED defaultCh
    /\ DefaultReturns(d, "sent")
    /\ UNCHANGED <<status, canceled>> /\ DefaultCallOnly

\* The slot is full: wait for room or for the caller's deadline, which may
\* win even when the slot has drained meanwhile.
WaitForRoom(d) ==
    /\ dfltGen[d] = gen
    /\ \/ /\ dfltAt[d] = "canceling" /\ defaultCh # <<>>
          /\ dfltAt' = [dfltAt EXCEPT ![d] = "waiting"] /\ UNCHANGED dfltGen
       \/ dfltAt[d] = "waiting" /\ DefaultReturns(d, "gaveUp")
    /\ UNCHANGED <<status, canceled, defaultCh>> /\ DefaultCallOnly

-----------------------------------------------------------------------------
(* The run loop *)

LoopOnly == UNCHANGED <<registered, gen, gate, andThen, retry, inflight, closed, shutdown,
                        observeOnly, ending, stop, dfltVars>>

\* A default call is about to reach the device: any pause that waits for its
\* resume is no longer the last thing the charger was told.
DefaultKeepsPause ==   \* faulty variant: invalidateCommandSequence is not called
    /\ pc' = "default"
    /\ resumable' = {}
    /\ UNCHANGED pausePending

EnterDefault ==
    /\ pc' = "default"
    /\ pausePending' = NoCycle
    /\ resumable' = {}

\* A loop that starts blocked schedules the default at once.
StartLoop ==
    /\ pc = "start" /\ pc' = "top"
    /\ timer' = controlBlocked
    /\ LoopOnly
    /\ UNCHANGED <<required, status, canceled, shutdownErr, pausePending, cmdCh, defaultCh, cur,
                   pollFailed, callVars, device, fails, history>>

\* The priority check at the head of the loop.
CheckDefaults ==
    /\ pc = "top"
    /\ IF defaultCh # <<>> THEN EnterDefault /\ defaultCh' = <<>>
                           ELSE pc' = "select" /\ UNCHANGED <<pausePending, resumable, defaultCh>>
    /\ LoopOnly
    /\ UNCHANGED <<required, status, canceled, shutdownErr, cmdCh, cur, timer, pollFailed,
                   callVars, device, fails, stale, handed>>

TakeDefault ==
    /\ pc = "select" /\ defaultCh # <<>>
    /\ EnterDefault /\ defaultCh' = <<>>
    /\ LoopOnly
    /\ UNCHANGED <<required, status, canceled, shutdownErr, cmdCh, cur, timer, pollFailed,
                   callVars, device, fails, stale, handed>>

RecoveryFires ==
    /\ pc = "select" /\ timer
    /\ EnterDefault
    /\ LoopOnly
    /\ UNCHANGED <<required, status, canceled, shutdownErr, cmdCh, defaultCh, cur, timer,
                   pollFailed, callVars, device, fails, stale, handed>>

\* The first good poll after a failed one retries a pending default.
Poll(ok) ==
    /\ pc = "select"
    /\ pollFailed' = ~ok
    /\ IF ok /\ pollFailed /\ timer
       THEN EnterDefault
       ELSE pc' = "top" /\ UNCHANGED <<pausePending, resumable>>
    /\ LoopOnly
    /\ UNCHANGED <<required, status, canceled, shutdownErr, cmdCh, defaultCh, cur, timer,
                   callVars, device, fails, stale, handed>>

\* driver_default_mode confirmed, for a SendDefault, the recovery timer, a
\* returning device or a command that failed.  The loop that confirms is
\* always the current generation's, so clearRecoveryRequired clears.
DefaultSucceeds ==
    /\ pc = "default"
    /\ pc' = "top"
    /\ MarkDefaultConfirmed
    /\ timer' = FALSE /\ required' = FALSE
    /\ device' = "default" /\ handed' = TRUE /\ stale' = Issued
    /\ LoopOnly
    /\ UNCHANGED <<canceled, shutdownErr, pausePending, cmdCh, defaultCh, cur, pollFailed,
                   callVars, fails, resumable>>

\* scheduleRecovery: the timer is armed and the window closed.
RecoveryNotArmed == MarkDefaultRecoveryPending /\ UNCHANGED timer   \* faulty variant

ScheduleRecovery == MarkDefaultRecoveryPending /\ timer' = TRUE

\* driver_default_mode failed.  A refused default may have
\* written part of what it writes.
DefaultFails ==
    /\ pc = "default" /\ fails < MaxFail
    /\ pc' = "top"
    /\ ScheduleRecovery
    /\ fails' = fails + 1 /\ device' \in {device, "forced"}
    /\ LoopOnly
    /\ UNCHANGED <<required, canceled, shutdownErr, pausePending, cmdCh, defaultCh,
                   cur, pollFailed, callVars, stale, resumable, handed>>

(* The command branch *)

IsCycle(c) == cycle[c] # NoCycle

Superseded(c) ==
    \/ kind[c] = "resume" /\ pausePending # cycle[c]
    \/ kind[c] = "pause" /\ pausePending # NoCycle

\* A command refused before the runtime sees it.  The lifecycle context, the
\* control status, the caller's context, the driver's health (which may be
\* offline at any time) and the cycle order are tested in this order.
RefuseCommand ==
    /\ pc = "select" /\ cmdCh # <<>>
    /\ LET c == Head(cmdCh) IN
         /\ Return(c, "failed")
         /\ \/ ending /\ pausePending' = NoCycle
            \/ ~ending /\ CommandRejected(c) /\ UNCHANGED pausePending
            \/ /\ ~ending /\ ~CommandRejected(c)
               /\ \/ /\ c \in expired
                     /\ pausePending' = IF kind[c] = "resume" /\ pausePending = cycle[c]
                                        THEN NoCycle ELSE pausePending
                  \/ c \notin expired /\ pausePending' = NoCycle
                  \/ c \notin expired /\ Superseded(c) /\ UNCHANGED pausePending
    /\ cmdCh' = Tail(cmdCh) /\ pc' = "top"
    /\ LoopOnly
    /\ UNCHANGED <<required, status, canceled, shutdownErr, defaultCh, cur, timer, pollFailed,
                   device, fails, stale, resumable, handed>>

\* The command passes: an operator's EV transition, like a cycle step, ends
\* the pending pause.
AdmitCommand ==
    /\ pc = "select" /\ cmdCh # <<>>
    /\ LET c == Head(cmdCh) IN
         /\ ~ending /\ ~CommandRejected(c)
         /\ c \notin expired /\ ~Superseded(c)
         /\ cur' = c
         /\ at' = [at EXCEPT ![c] = "taken"]
         /\ pausePending' = IF kind[c] = "set" THEN pausePending ELSE NoCycle
         /\ resumable' = IF kind[c] = "operator" THEN {} ELSE resumable
    /\ cmdCh' = Tail(cmdCh) /\ pc' = "admitted"
    /\ LoopOnly
    /\ UNCHANGED <<required, status, canceled, shutdownErr, defaultCh, timer, pollFailed,
                   callGen, callEpoch, kind, cycle, expired, device, fails, stale, handed>>

\* beginCommand: from here on SendDefault and Remove can cancel the command.
BeginCommand ==
    /\ pc = "admitted" /\ pc' = "hooked"
    /\ canceled' = ending
    /\ LoopOnly
    /\ UNCHANGED <<required, status, shutdownErr, pausePending, cmdCh, defaultCh, cur, timer,
                   pollFailed, callVars, device, fails, history>>

NoRecheck == FALSE   \* faulty variant: the first check is trusted

RejectedWithHook == CommandRejected(cur)

\* The control status is read once more with the hook in place.
Recheck ==
    /\ pc = "hooked"
    /\ IF RejectedWithHook
       THEN /\ pc' = "top" /\ cur' = NoCall /\ canceled' = FALSE
            /\ Return(cur, "failed")
       ELSE pc' = "running" /\ UNCHANGED <<cur, callVars, canceled>>
    /\ LoopOnly
    /\ UNCHANGED <<required, status, shutdownErr, pausePending, cmdCh, defaultCh,
                   timer, pollFailed, device, fails, history>>

\* The runtime reports success and nothing canceled the command.  A caller's
\* deadline cancels a cycle step only.
CommandSucceeds ==
    /\ pc = "running" /\ ~canceled
    /\ ~(IsCycle(cur) /\ cur \in expired)
    /\ pc' = "top" /\ cur' = NoCall
    /\ Return(cur, "ok")
    /\ MarkCommandApplied
    /\ pausePending' = IF kind[cur] = "pause" THEN cycle[cur] ELSE pausePending
    /\ resumable' = IF kind[cur] = "pause" THEN resumable \cup {cycle[cur]} ELSE resumable
    /\ device' = "forced"
    /\ LoopOnly
    /\ UNCHANGED <<required, canceled, shutdownErr, cmdCh, defaultCh, timer, pollFailed,
                   fails, stale, handed>>

\* The runtime fails, or succeeds under a canceled context: what the device
\* did is unknown, so the default is restored.
CommandFails ==
    /\ pc = "running"
    /\ EnterDefault /\ cur' = NoCall /\ canceled' = FALSE
    /\ Return(cur, "failed")
    /\ device' \in {device, "forced"}
    /\ LoopOnly
    /\ UNCHANGED <<required, status, shutdownErr, cmdCh, defaultCh, timer, pollFailed,
                   fails, stale, handed>>

\* The stop branch: discard an observe_only runtime, else hand the device back.
TakeStop ==
    /\ pc = "select" /\ stop # "none"
    /\ IF stop = "skip"
       THEN pc' = "done" /\ timer' = FALSE /\ UNCHANGED <<pausePending, resumable>>
       ELSE pc' = "shutdown" /\ pausePending' = NoCycle /\ resumable' = {} /\ UNCHANGED timer
    /\ LoopOnly
    /\ UNCHANGED <<required, status, canceled, shutdownErr, cmdCh, defaultCh, cur, pollFailed,
                   callVars, device, fails, stale, handed>>

ShutdownDefault(ok) ==
    /\ pc = "shutdown" /\ pc' = "done" /\ timer' = FALSE
    /\ shutdownErr' = ~ok
    /\ IF ok
       THEN device' = "default" /\ stale' = Issued /\ UNCHANGED fails
       ELSE /\ fails < MaxFail /\ fails' = fails + 1
            /\ device' \in {device, "forced"} /\ UNCHANGED stale
    /\ LoopOnly
    /\ UNCHANGED <<required, status, canceled, pausePending, cmdCh, defaultCh, cur, pollFailed,
                   callVars, resumable, handed>>

-----------------------------------------------------------------------------
(* Lifecycle operations, under the per-name gate *)

KeepDriver == UNCHANGED <<observeOnly, ending, canceled, stop, shutdownErr>>

KeepLoop == UNCHANGED <<loopVars, callVars, dfltVars, pausePending, cmdCh, defaultCh, status,
                        device, fails, history>>

\* removeLocked up to the deletion from rec; next is what follows it: Remove
\* stops there, Restart and Reload add a replacement.
Unregister(next) ==
    /\ registered' = FALSE
    /\ required' = (required \/ ~observeOnly)
    /\ retry' = FALSE /\ gate' = "removing" /\ andThen' = next

Remove(next) ==
    /\ gate = "free" /\ registered /\ shutdown = "no"
    /\ Unregister(next)
    /\ UNCHANGED <<gen, inflight, closed, shutdown>>
    /\ KeepDriver /\ KeepLoop

\* Remove, Restart or Reload of a driver that failed to start: the claim is
\* taken, and Restart and Reload go on to add.
RemoveAbsent(next) ==
    /\ gate = "free" /\ ~registered /\ retry /\ shutdown = "no"
    /\ retry' = FALSE /\ gate' = IF next = "add" THEN "adding" ELSE "free"
    /\ UNCHANGED <<registered, gen, required, andThen, inflight, closed, shutdown>>
    /\ KeepDriver /\ KeepLoop

StopOnlyControllable == IF observeOnly THEN "none" ELSE "default"   \* faulty variant

\* The skipDefault flag: an observe_only device belongs to somebody else.
StopFlag == IF observeOnly THEN "skip" ELSE "default"

\* cancelLifecycle, cancelActiveCommand and the send on stop.
SignalStop ==
    /\ gate = "removing" /\ gate' = "stopping"
    /\ ending' = TRUE
    /\ canceled' = (canceled \/ pc \in {"hooked", "running"})
    /\ stop' = StopFlag
    /\ UNCHANGED <<registered, gen, required, andThen, retry, inflight, closed, shutdown,
                   observeOnly, shutdownErr>>
    /\ KeepLoop

GateNotReasserted == required   \* faulty variant: the shutdown result is ignored

\* The shutdown default is the last word on the name-level gate.
GateAfterStop == (observeOnly /\ required) \/ (~observeOnly /\ shutdownErr)

\* removeLocked after the loop's done channel closes.
FinishRemove ==
    /\ gate = "stopping" /\ pc = "done"
    /\ required' = GateAfterStop
    /\ gate' = IF andThen = "add" THEN "adding" ELSE "free"
    /\ andThen' = "nothing"
    /\ UNCHANGED <<registered, gen, retry, inflight, closed, shutdown>>
    /\ KeepDriver /\ KeepLoop

\* Add, or the adding half of Reload, for a name that is not running.
Add ==
    /\ gate = "free" /\ ~registered /\ shutdown = "no" /\ gen < MaxGen
    /\ gate' = "adding" /\ retry' = FALSE
    /\ UNCHANGED <<registered, gen, required, andThen, inflight, closed, shutdown>>
    /\ KeepDriver /\ KeepLoop

\* retrySpawn: the timer's claim is still the entry in spawnRetries, and add
\* takes it.
RetrySpawn ==
    /\ gate = "free" /\ retry /\ gen < MaxGen
    /\ gate' = "adding" /\ inflight' = TRUE /\ retry' = FALSE
    /\ UNCHANGED <<registered, gen, required, andThen, closed, shutdown>>
    /\ KeepDriver /\ KeepLoop

AlwaysRetry == TRUE   \* faulty variant: a closed registry still retries

RetryAfterFailure == ~closed

\* add fails before registration: a retry is scheduled unless the registry
\* is closed.
StartFails ==
    /\ gate = "adding" /\ gate' = "free"
    /\ retry' = RetryAfterFailure /\ inflight' = FALSE
    /\ UNCHANGED <<registered, gen, required, andThen, closed, shutdown>>
    /\ KeepDriver /\ KeepLoop

\* faulty variant: only an inherited gate blocks the new generation
BlockedIfInherited(observe, defaultOk) == required /\ (observe \/ ~defaultOk)

StartsBlocked(observe, defaultOk) == (observe /\ required) \/ (~observe /\ ~defaultOk)

\* add registers generation gen + 1.  A controllable driver first confirms
\* its default; one that cannot starts blocked, as does an observe_only one
\* whose predecessor left the recovery gate set.
Register(observe, defaultOk) ==
    /\ gate = "adding" /\ gen < MaxGen
    /\ observe => defaultOk
    /\ defaultOk \/ fails < MaxFail
    /\ gen' = gen + 1 /\ registered' = TRUE /\ observeOnly' = observe
    /\ gate' = IF inflight THEN "added" ELSE "free"
    /\ required' = (required /\ (observe \/ ~defaultOk))
    /\ controlBlocked' = StartsBlocked(observe, defaultOk) /\ controlEpoch' = 0
    /\ defaultConfirmed' = (~observe /\ defaultOk) /\ recoveryPending' = controlBlocked'
    /\ device' \in IF observe THEN {device}
                   ELSE IF defaultOk THEN {"default"} ELSE {device, "forced"}
    /\ fails' = IF defaultOk THEN fails ELSE fails + 1
    /\ handed' = (~observe /\ defaultOk)
    /\ stale' = IF handed' THEN Issued ELSE stale
    /\ timer' = FALSE
    /\ ending' = FALSE /\ canceled' = FALSE /\ stop' = "none" /\ shutdownErr' = FALSE
    /\ pausePending' = NoCycle /\ cmdCh' = <<>> /\ defaultCh' = <<>>
    /\ pc' = "start" /\ cur' = NoCall /\ pollFailed' = FALSE
    /\ resumable' = {}
    /\ UNCHANGED <<andThen, retry, inflight, closed, shutdown, callVars, dfltVars>>

\* retrySpawn after add: a registry closed meanwhile may have missed this
\* driver, so the attempt removes what it started.
RetryReturns ==
    /\ gate = "added" /\ inflight' = FALSE
    /\ IF closed
       THEN Unregister("nothing")
       ELSE gate' = "free" /\ UNCHANGED <<registered, required, retry, andThen>>
    /\ UNCHANGED <<gen, closed, shutdown>>
    /\ KeepDriver /\ KeepLoop

(* ShutdownAll.  main drains HTTP before it, so of the lifecycle operations *)
(* only a spawn retry can be in flight. *)

CloseSpawnRetries ==
    /\ shutdown = "no" /\ (gate = "free" \/ inflight)
    /\ closed' = TRUE /\ retry' = FALSE
    /\ shutdown' = IF inflight THEN "waiting" ELSE "closed"
    /\ UNCHANGED <<registered, gen, required, gate, andThen, inflight>>
    /\ KeepDriver /\ KeepLoop

\* Waiting for the gate of an attempt in flight, then listing rec.
ListDrivers ==
    /\ shutdown = "closed" \/ (shutdown = "waiting" /\ gate = "free")
    /\ shutdown' = IF registered THEN "listed" ELSE "done"
    /\ UNCHANGED <<registered, gen, required, gate, andThen, retry, inflight, closed>>
    /\ KeepDriver /\ KeepLoop

ShutdownRemove ==
    /\ shutdown = "listed" /\ gate = "free"
    /\ IF registered
       THEN Unregister("nothing") /\ UNCHANGED shutdown
       ELSE shutdown' = "done" /\ UNCHANGED <<registered, required, retry, gate, andThen>>
    /\ UNCHANGED <<gen, inflight, closed>>
    /\ KeepDriver /\ KeepLoop

-----------------------------------------------------------------------------

CommandCaller(c) ==
    \/ \E k \in Sent, y \in Cycles \cup {NoCycle} : FindDriver(c, k, y)
    \/ ReadEpoch(c) \/ Enqueue(c) \/ CallerTimesOut(c)

DefaultCaller(d) ==
    \/ SendDefault(d) \/ CloseControlWindow(d) \/ CancelActiveCommand(d)
    \/ EnqueueDefault(d) \/ WaitForRoom(d)

RunLoop ==
    \/ StartLoop \/ CheckDefaults \/ TakeDefault \/ RecoveryFires
    \/ \E ok \in BOOLEAN : Poll(ok)
    \/ DefaultSucceeds \/ DefaultFails
    \/ RefuseCommand \/ AdmitCommand \/ BeginCommand \/ Recheck
    \/ CommandSucceeds \/ CommandFails
    \/ TakeStop \/ \E ok \in BOOLEAN : ShutdownDefault(ok)

Lifecycle ==
    \/ \E next \in {"nothing", "add"} : Remove(next) \/ RemoveAbsent(next)
    \/ SignalStop \/ FinishRemove \/ Add \/ RetrySpawn \/ StartFails
    \/ \E observe, defaultOk \in BOOLEAN : Register(observe, defaultOk)
    \/ RetryReturns \/ CloseSpawnRetries \/ ListDrivers \/ ShutdownRemove

Next ==
    \/ \E c \in Calls : CommandCaller(c)
    \/ \E d \in Defaults : DefaultCaller(d)
    \/ RunLoop
    \/ Lifecycle

Spec == Init /\ [][Next]_vars

(***************************************************************************)
(* Fairness.  A goroutine that can run does run: the loop, a SendDefault   *)
(* call once it has started, the holder of the lifecycle gate.  The loop's *)
(* select picks among its ready cases at random, so a fired recovery timer *)
(* and a stop signal that are ready again and again are picked: strong     *)
(* fairness.  Callers of Send, polls and operators owe nothing.            *)
(***************************************************************************)
Fairness ==
    /\ WF_vars(RunLoop)
    /\ SF_vars(RecoveryFires) /\ SF_vars(TakeStop)
    /\ \A d \in Defaults :
         WF_vars(CloseControlWindow(d) \/ CancelActiveCommand(d) \/ EnqueueDefault(d))
    /\ WF_vars(SignalStop \/ FinishRemove \/ StartFails \/ RetryReturns)
    /\ WF_vars(ListDrivers \/ ShutdownRemove)

FairSpec == Spec /\ Fairness

-----------------------------------------------------------------------------
(* Properties *)

\* A command that reaches the device was issued after the last default the
\* device confirmed, in this generation or an earlier one: markDefaultConfirmed
\* "ends all earlier control intent", queued commands included.
NoStaleCommandRuns == pc = "running" => cur \notin stale

\* Closing the control window reaches a command that is already running: once
\* SendDefault has passed cancelActiveCommand the command's context is
\* canceled, or the second check refused it.
BlockedCommandIsCanceled ==
    pc = "running" /\ controlBlocked =>
        canceled \/ \E d \in Defaults : dfltAt[d] = "marked" /\ dfltGen[d] = gen

\* No command runs in a generation that has not seen the device confirm its
\* default: at startup, or by a recovery after a start that was blocked.
CommandNeedsConfirmedDefault ==
    pc = "running" => handed /\ ~observeOnly

\* DefaultConfirmed in the control status is true of the device whenever no
\* command is in hand.
ConfirmedMeansDefault ==
    defaultConfirmed /\ registered /\ pc \notin {"running", "default"} => device = "default"

\* A blocked generation never loses its way out: a default is in hand or
\* queued, the retry timer is armed, or a SendDefault that closed the window
\* is still on its way to the queue.
BlockedHasRecovery ==
    controlBlocked /\ registered /\ pc # "start" =>
        \/ timer \/ defaultCh # <<>> \/ pc = "default"
        \/ \E d \in Defaults :
             dfltGen[d] = gen /\ dfltAt[d] \in {"marked", "canceling"}

\* A device that may still hold a command and has no running loop keeps the
\* name-level gate, so that the next generation starts blocked.
ForcedDeviceIsGated ==
    gate \in {"free", "adding"} /\ ~registered /\ device = "forced" => required

\* An automatic resume only follows its own pause with nothing in between: a
\* default or an operator command during the dwell ends the cycle even when
\* the resume was issued after it.
ResumeFollowsItsPause ==
    pc = "running" /\ kind[cur] = "resume" => cycle[cur] \in resumable

\* ShutdownAll blocks until every poll loop has exited, and no spawn retry
\* brings one back.
ShutdownIsFinal ==
    shutdown = "done" => ~registered /\ pc = "done" /\ ~retry /\ gate = "free"

\* A device that accepts its default in the end gets its control window back
\* unless it is removed.
RecoveryCompletes == (registered /\ controlBlocked) ~> (~registered \/ ~controlBlocked)

\* ShutdownAll returns, whatever commands, defaults and retries are under way.
ShutdownCompletes == (shutdown # "no") ~> (shutdown = "done")

\* A command runs only in a generation whose default the device confirmed, and
\* closing the control window reaches it when it already runs.
CommandsAreGated == BlockedCommandIsCanceled /\ CommandNeedsConfirmedDefault

\* Somebody is always about to release a device that may be forced: the loop of
\* its generation, or through the name-level gate the next one.
ReleaseIsNeverLost == BlockedHasRecovery /\ ForcedDeviceIsGated

\* Recoveries and ShutdownAll come to their end.
ActorMakesProgress == RecoveryCompletes /\ ShutdownCompletes
=============================================================================
