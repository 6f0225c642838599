----------------------------- MODULE ManualHold -----------------------------
(* Charge now and Pause of one loadpoint (internal/loadpoint: the controller,  *)
(* manual_hold_state.go, controller_hold_restore.go, session_state.go).        *)
(*                                                                             *)
(* The owner's choice takes effect in the controller's memory at once and is   *)
(* saved through ControlWrites: as a marker under the loadpoint's name while   *)
(* the charger's hardware is unknown, and as a record under the hardware's     *)
(* identity, with the session, from the first reading that proves it.  Each    *)
(* tick reads the charger, binds the hold to what the reading proves, pauses   *)
(* it when that changed, and, after a restart, restores it when the record's   *)
(* proof is complete.  Cars come and go between two ticks, proofs are lost,    *)
(* the socket reconnects, the configuration moves the loadpoint to another     *)
(* charger, writes fail and the process restarts at any point.                 *)
(* ControlWrites is used by what it promises: intents of a group are written   *)
(* in order, the newest queued one replaces the others, and the keys of an     *)
(* unfinished intent are hidden from LoadConfig.                               *)
EXTENDS Naturals, FiniteSets

CONSTANTS
    Chargers,   \* hardware identities
    Sockets,    \* the driver reports connection generations (OCPP)
    MaxCar,     \* bound on plug-ins; a plug-in's number is its session id
    MaxEvents,  \* bound on requests, reconnects, moves, refused saves and restarts
    None        \* no charger identity

ASSUME HoldAssumption ==
    /\ None \notin Chargers /\ Sockets \in BOOLEAN
    /\ Chargers # {} /\ IsFiniteSet(Chargers)
    /\ {MaxCar, MaxEvents} \subseteq Nat

VARIABLES
    at, car,    \* external: the charger in place and the plug-in on it, 0 if none
    conn,       \* external: the generation of its socket, 0 if not reported
    lp,         \* loadpointRuntime: identity, cable and socket generation
    moved,      \* which generations moved since the hold was bound
    pend,       \* pendingManual
    hold,       \* Controller.holds
    restored,   \* Controller.manualRestored: "unseen", "pending", "done"
    bind,       \* Controller.manualBindings
    unplugged,  \* unpluggedSince: "no", "short", "long" (UnplugGrace is over)
    tick,       \* where the control tick is, and what its reading says of the cable
    api,        \* the owner's request that holds manualPersistMu
    disk,       \* the saved keys
    job,        \* the group's intent that ControlWrites has not written
    kept,       \* observed: the choice in the last intent that was committed
    want,       \* observed: the choice in force, after a restart the kept one
    proven,     \* observed: what readings proved of the Start in force
    stray,      \* observed: a pause was saved beside the timed hold in force
    used        \* bounds

world == <<at, car, conn>>
manager == <<lp, moved, pend>>
controller == <<hold, restored, bind, unplugged>>
store == <<disk, job>>
vars == <<world, manager, controller, tick, api, store, kept, want, proven, stray, used>>

Identities == Chargers \cup {None}
Sessions == 0 .. MaxCar
Choices == {"clear", "pause", "start"}
Timed == {"timed", "timedPause"}    \* with and without power
Holds == {"none", "pause", "start"} \cup Timed
NoRecord == [kind |-> "absent", sess |-> 0]
Records == [kind : {"absent", "clear", "pause", "start"}, sess : Sessions]
NoProof == [dev |-> None, sess |-> 0]
Nothing == [dev |-> None, sess |-> 0, here |-> FALSE]
Unbound == [dev |-> None, sess |-> 0, conn |-> 0, lost |-> FALSE, known |-> FALSE]
Resting == [pc |-> "idle", cable |-> "none", fresh |-> FALSE]
NoRequest == [pc |-> "idle", saves |-> FALSE]
Unused == [plugs |-> 0, events |-> 0]

-----------------------------------------------------------------------------
(* Intents of the group "manual:<id>".  Without a charger an intent is the     *)
(* name-keyed marker alone; with one it is the record, the binding and the     *)
(* retirement of the marker and of the keys of older releases.                 *)

NoIntent == [dev |-> None, kind |-> "none", sess |-> 0]
Intents == [dev : Identities, kind : Choices, sess : Sessions] \cup {NoIntent}

\* The marker names no watts: "unconfirmed" for a start, else the choice.
\* The record of a cleared choice is "{}" whatever the session.
IntentFor(choice, dev, sess) ==
    [dev |-> dev, kind |-> choice,
     sess |-> IF dev = None \/ choice = "clear" THEN 0 ELSE sess]

Applied(intent) ==
    IF intent.dev = None
    THEN [disk EXCEPT !.marker = intent.kind]
    ELSE [records |-> [disk.records EXCEPT ![intent.dev] = [kind |-> intent.kind, sess |-> intent.sess]],
          binding |-> intent.dev, legacy |-> "retired", clearing |-> FALSE, marker |-> "none"]

\* LoadConfig hides the keys of an unfinished intent.
Hides(key) ==
    /\ job # NoIntent
    /\ IF job.dev = None THEN key = "marker" ELSE key \notin Chargers \ {job.dev}

Marker == IF Hides("marker") THEN "none" ELSE disk.marker
Record(dev) == IF Hides(dev) THEN NoRecord ELSE disk.records[dev]
Binding == IF Hides("binding") THEN None ELSE disk.binding
Legacy == ~Hides("legacy") /\ disk.legacy = "hold"
Clearing == ~Hides("clearing") /\ disk.clearing

Event == used.events < MaxEvents /\ used' = [used EXCEPT !.events = @ + 1]

\* SaveConfigGroup: an intent that is already there or already stored changes
\* nothing; a new one replaces what is queued; a full buffer refuses it.
Stored(intent) == job = NoIntent /\ Applied(intent) = disk

Saves(intent) ==
    \/ /\ job = intent \/ Stored(intent)
       /\ UNCHANGED <<job, used>>
    \/ /\ job # intent /\ ~Stored(intent)
       /\ \/ job' = intent /\ UNCHANGED used
          \/ Event /\ UNCHANGED job

\* Faulty variant: any answer of the store ends the pending choice.
BoundAlways(choice, intent) == "none"

\* flushManualHold keeps the pending choice until the bound intent is stored.
Bound(choice, intent) ==
    IF intent.dev # None /\ Stored(intent) THEN "none" ELSE choice

Flush(choice, dev, sess) ==
    /\ Saves(IntentFor(choice, dev, sess))
    /\ pend' = Bound(choice, IntentFor(choice, dev, sess))

\* PersistManualHold, with the identity the manager holds now.
Persist(choice) == Flush(choice, lp.dev, lp.sess)

-----------------------------------------------------------------------------
(* Init: nothing saved, or what an older release left under the name *)

TypeOK ==
    /\ at \in Chargers /\ car \in Sessions /\ conn \in 0 .. MaxEvents + 1
    /\ lp \in [dev : Identities, sess : Sessions, plugged : BOOLEAN, conn : 0 .. MaxEvents + 1]
    /\ moved \subseteq {"session", "config"}
    /\ pend \in Choices \cup {"none"} /\ hold \in Holds
    /\ restored \in {"unseen", "pending", "done"}
    /\ bind \in [dev : Identities, sess : Sessions, conn : 0 .. MaxEvents + 1, lost : BOOLEAN, known : BOOLEAN]
    /\ bind.lost => bind.dev # None
    /\ unplugged \in {"no", "short", "long"}
    /\ tick \in [pc : {"idle", "grace", "rebind", "restore", "drop", "dispatch"},
                 cable : {"none", "in", "out", "unknown"}, fresh : BOOLEAN]
    /\ api \in [pc : {"idle", "placed"}, saves : BOOLEAN]
    /\ disk.records \in [Chargers -> Records] /\ disk.binding \in Identities
    /\ disk.legacy \in {"absent", "hold", "retired"} /\ disk.clearing \in BOOLEAN
    /\ disk.marker \in Choices \cup {"none"}
    /\ job \in Intents
    /\ kept \in Choices /\ want \in Choices
    /\ proven \in [dev : Identities, sess : Sessions, here : BOOLEAN]
    /\ stray \in BOOLEAN

NewRuntime == [dev |-> None, sess |-> 0, plugged |-> FALSE, conn |-> 0]

Init ==
    /\ at = (CHOOSE c \in Chargers : TRUE) /\ car = 0 /\ conn = IF Sockets THEN 1 ELSE 0
    /\ lp = NewRuntime /\ moved = {} /\ pend = "none"
    /\ hold = "none" /\ restored = "unseen" /\ bind = Unbound
    /\ unplugged = "no"
    /\ tick = Resting /\ api = NoRequest /\ job = NoIntent
    /\ disk \in [records : {[c \in Chargers |-> NoRecord]}, binding : {None},
                  legacy : {"absent", "hold"}, clearing : BOOLEAN, marker : {"none"}]
    /\ disk.clearing => disk.legacy = "hold"
    /\ kept = IF disk.legacy = "hold" /\ ~disk.clearing THEN "pause" ELSE "clear"
    /\ want = kept /\ proven = Nothing /\ stray = FALSE
    /\ used = Unused

-----------------------------------------------------------------------------
(* The world.  A tick works with one reading and one time, so the cable, the   *)
(* charger, the socket and the clock move between two ticks.                   *)

Between == tick.pc = "idle"

\* External: a car is plugged in, also in place of another one between two ticks.
PlugIn ==
    /\ Between /\ used.plugs < MaxCar
    /\ used' = [used EXCEPT !.plugs = @ + 1]
    /\ car' = used.plugs + 1
    /\ UNCHANGED <<at, conn, manager, controller, tick, api, store, kept, want, proven, stray>>

\* External: the car leaves.
Unplug ==
    /\ Between /\ car # 0 /\ car' = 0
    /\ UNCHANGED <<at, conn, manager, controller, tick, api, store, kept, want, proven, stray, used>>

\* External: the charger's socket connects anew.
Reconnect ==
    /\ Between /\ Event /\ Sockets /\ conn' = conn + 1
    /\ UNCHANGED <<at, car, manager, controller, tick, api, store, kept, want, proven, stray>>

\* External: another charger answers under the same driver name.
Swap ==
    /\ Between /\ Event /\ \E c \in Chargers \ {at} : at' = c
    /\ car' = 0
    /\ UNCHANGED <<conn, manager, controller, tick, api, store, kept, want, proven, stray>>

\* Manager.Load with another driver name for the loadpoint.
Reload ==
    /\ Event /\ \E c \in Chargers : at' = c /\ car' = IF c = at THEN car ELSE 0
    /\ lp' = NewRuntime /\ moved' = {"session", "config"}
    /\ UNCHANGED <<conn, pend, hold, restored, bind, unplugged, tick, api, store, kept, want, proven, stray>>

\* External: UnplugGrace passes.
GraceEnds ==
    /\ Between /\ unplugged = "short" /\ unplugged' = "long"
    /\ UNCHANGED <<world, manager, hold, restored, bind, tick, api, store, kept, want, proven, stray, used>>

\* GetManualHold drops a timed hold that is over; nothing is saved.
TimedEnds ==
    /\ Between /\ hold \in Timed /\ hold' = "none"
    /\ UNCHANGED <<world, manager, restored, bind, unplugged, tick, api, store, kept, want, proven, stray, used>>

-----------------------------------------------------------------------------
(* The owner's requests, under manualPersistMu *)

Current == [dev |-> lp.dev, sess |-> lp.sess, conn |-> lp.conn, lost |-> FALSE, known |-> TRUE]

\* Faulty variant: a choice leaves the restore open.
MarkBindingOnly == bind' = Current /\ moved' = {} /\ restored' = restored

\* A choice ends the restore and is bound to what the manager knows now.
MarkManualExplicit == bind' = Current /\ moved' = {} /\ restored' = "done"

\* setManualHoldLocked and clearManualHoldLocked.  A tick that read the
\* earlier hold no longer finds it.
Request(choice) ==
    /\ api.pc = "idle" /\ Event
    /\ MarkManualExplicit
    /\ hold' = IF choice = "clear" THEN "none" ELSE choice
    /\ want' = IF choice \in Timed THEN "clear" ELSE choice
    /\ api' = [pc |-> "placed", saves |-> choice # "clear" \/ hold # "none" \/ restored # "done"]
    /\ stray' = (stray /\ ~api'.saves)
    /\ tick' = [tick EXCEPT !.fresh = FALSE]
    /\ proven' = IF choice = "start" THEN [dev |-> lp.dev, sess |-> lp.sess, here |-> TRUE] ELSE Nothing
    /\ UNCHANGED <<world, lp, pend, unplugged, store, kept>>

\* The saver; a timed hold is saved as a cleared one.
Save ==
    /\ api.pc = "placed" /\ api' = NoRequest
    /\ IF api.saves THEN Persist(want) ELSE UNCHANGED <<pend, job, used>>
    /\ UNCHANGED <<world, lp, moved, controller, tick, disk, kept, want, proven, stray>>

\* ClearManualHold by the tick, all of it under manualPersistMu.
TickClears ==
    /\ api.pc = "idle"
    /\ MarkManualExplicit
    /\ hold' = "none" /\ want' = "clear"
    /\ IF hold # "none" \/ restored # "done"
       THEN Persist("clear") /\ stray' = FALSE
       ELSE UNCHANGED <<pend, job, stray, used>>
    /\ proven' = Nothing
    /\ UNCHANGED <<world, lp, unplugged, api, disk, kept>>

-----------------------------------------------------------------------------
(* One control tick *)

\* External: what the driver may say of the charger.  It may miss the
\* identity or the session, say the cable is out when it is not, and report
\* a counter that fell back.  A session comes with the identity.
Readings ==
    [cable : {"out"}, dev : {None, at}, sess : {0}, reset : {FALSE}]
    \cup IF car = 0 THEN {} ELSE {r \in [cable : {"in"}, dev : {None, at}, sess : {0, car}, reset : BOOLEAN] :
                            r.dev = None => r.sess = 0}

\* observeConnectionProof: a lost or a new socket ends the proof, not the hold.
NewSocket == conn # 0 /\ lp.conn # 0 /\ conn # lp.conn
Heard == IF conn # 0 THEN conn ELSE lp.conn

ObserveUnknown ==
    LET ends == NewSocket \/ lp.dev # None \/ lp.sess # 0
    IN /\ Sockets /\ tick.pc = "idle"
       /\ tick' = [pc |-> "restore", cable |-> "unknown", fresh |-> FALSE]
       /\ lp' = [lp EXCEPT !.conn = Heard, !.dev = None, !.sess = 0]
       /\ moved' = IF ends THEN moved \cup {"session"} ELSE moved
       /\ UNCHANGED <<world, pend, controller, api, store, kept, want, proven, stray, used>>

\* The same and ObserveSample: a first session id of the same charger is a
\* proof, any other change and a counter that fell back are a new session.
Observe ==
    /\ tick.pc = "idle"
    /\ \E r \in Readings :
         LET old == IF NewSocket THEN NoProof ELSE [dev |-> lp.dev, sess |-> lp.sess]
             reset == r.reset /\ lp.plugged
             firstProof == /\ r.dev # None /\ old.dev = r.dev /\ old.sess = 0 /\ r.sess # 0
                           /\ lp.plugged /\ r.cable = "in" /\ ~reset
             changed == old.dev # r.dev \/ (old.sess # r.sess /\ ~firstProof)
         IN /\ tick' = [pc |-> "grace", cable |-> r.cable, fresh |-> FALSE]
            /\ lp' = [dev |-> r.dev, sess |-> r.sess, plugged |-> r.cable = "in", conn |-> Heard]
            /\ moved' = IF NewSocket \/ changed \/ reset THEN moved \cup {"session"} ELSE moved
            /\ IF pend = "none" THEN UNCHANGED <<pend, job, used>> ELSE Flush(pend, r.dev, r.sess)
    /\ UNCHANGED <<world, controller, api, disk, kept, want, proven, stray>>

\* Faulty variant: only the charger is compared.
OtherSessionNever == FALSE

OtherSession == bind.sess # 0 /\ lp.sess # 0 /\ bind.sess # lp.sess

\* holdInUnplugGrace while the charger says the cable is out.
CableOut ==
    /\ tick.pc = "grace" /\ tick.cable = "out"
    /\ unplugged' = IF unplugged = "no" THEN "short" ELSE unplugged
    /\ tick' = [tick EXCEPT !.pc = IF hold # "none" /\ unplugged' = "short" THEN "dispatch" ELSE "restore"]
    /\ UNCHANGED <<world, manager, hold, restored, bind, api, store, kept, want, proven, stray, used>>

OtherCharger == bind.dev # None /\ lp.dev # None /\ bind.dev # lp.dev

\* rebindAfterUnplug: the same charger and session keep the hold, others
\* clear it; the clearing waits for manualPersistMu.
CableBack ==
    LET back == unplugged # "no"
        other == bind.known /\ (OtherCharger \/ OtherSession)
        keeps == back /\ hold # "none" /\ bind.known /\ ~other /\ lp.dev # None
    IN /\ tick.pc = "grace" /\ tick.cable = "in"
       /\ unplugged' = "no"
       /\ tick' = [tick EXCEPT !.pc = IF back /\ hold # "none" /\ other THEN "rebind" ELSE "restore"]
       /\ bind' = IF keeps THEN [Current EXCEPT !.sess = IF @ = 0 THEN bind.sess ELSE @] ELSE bind
       /\ moved' = IF keeps THEN {} ELSE moved
       /\ UNCHANGED <<world, lp, pend, hold, restored, api, store, kept, want, proven, stray, used>>

RebindClears ==
    /\ tick.pc = "rebind" /\ tick' = [tick EXCEPT !.pc = "restore"]
    /\ TickClears

-----------------------------------------------------------------------------
(* restoreManualHoldForSession *)

Reconnected == bind.lost \/ (bind.conn # 0 /\ lp.conn # 0 /\ bind.conn # lp.conn)

Changed ==
    /\ bind.known
    /\ \/ "config" \in moved
       \/ /\ bind.dev # None /\ lp.dev # None
          /\ \/ OtherCharger
             \/ OtherSession
             \/ ~Reconnected /\ "session" \in moved

KeepsProof == bind.dev # None /\ lp.dev = None /\ ~Changed

\* The last proof is kept while the charger gives none, and its session while
\* the charger names none.
Rebound ==
    IF KeepsProof THEN [bind EXCEPT !.lost = TRUE]
    ELSE IF bind.dev # None /\ lp.dev # None /\ ~Changed /\ lp.sess = 0
         THEN [Current EXCEPT !.sess = bind.sess]
         ELSE Current

ProvesStart(record) == record.kind = "start" /\ (record.sess = 0 \/ lp.sess = record.sess)

\* Faulty variant: the charger the loadpoint was bound to is not looked up.
SavedByOlderRelease == Legacy

\* Something is saved that this charger's own record does not answer.
SavedElsewhere == (Binding # None /\ Record(Binding).kind # "clear") \/ Legacy

Answer(held, status) == [hold |-> held, status |-> status]

\* RestoreManualHold
Restored ==
    CASE Marker = "clear" \/ (Marker = "none" /\ Clearing) -> Answer("none", "cleared")
      [] Marker = "pause" -> Answer("pause", "restored")
      [] Marker = "start" -> Answer("pause", "unconfirmed")
      [] OTHER ->
           IF lp.dev = None THEN IF SavedElsewhere THEN Answer("pause", "pending") ELSE Answer("none", "waiting")
           ELSE LET record == Record(lp.dev) IN
             CASE record.kind = "absent" ->
                    IF SavedElsewhere THEN Answer("pause", "unconfirmed") ELSE Answer("none", "none")
               [] record.kind = "clear" -> Answer("none", "none")
               [] record.kind = "pause" -> Answer("pause", "restored")
               [] ProvesStart(record) -> Answer("start", "restored")
               [] OTHER -> Answer("pause", IF lp.sess = 0 THEN "pending" ELSE "unconfirmed")

\* The hold was bound to another charger, session or configuration.  A hold
\* with power becomes a pause; one without stays as it is, also when it has an
\* end.  A pause is saved in either case.
PausesChanged ==
    /\ Changed /\ restored # "pending" /\ hold # "none"
    /\ IF hold = "timedPause"
       THEN UNCHANGED <<hold, want>> /\ stray' = TRUE
       ELSE hold' = "pause" /\ want' = "pause" /\ stray' = FALSE
    /\ restored' = "done"
    /\ Persist("pause") /\ proven' = Nothing

RestoresSaved ==
    LET r == Restored IN
    /\ ~(Changed /\ restored # "pending" /\ hold # "none")
    /\ restored # "done" /\ r.status # "waiting"
    /\ restored' = IF r.status = "pending" THEN "pending" ELSE "done"
    /\ hold' = r.hold
    /\ IF r.status = "cleared" THEN Persist("clear") ELSE UNCHANGED <<pend, job, used>>
    /\ UNCHANGED <<want, proven, stray>>

KeepsHold ==
    /\ ~(Changed /\ restored # "pending" /\ hold # "none")
    /\ restored = "done" \/ Restored.status = "waiting"
    /\ UNCHANGED <<hold, want, proven, stray, restored, pend, job, used>>

Restore ==
    /\ tick.pc = "restore" /\ api.pc = "idle"
    /\ bind' = Rebound /\ moved' = IF KeepsProof THEN moved ELSE {}
    /\ PausesChanged \/ RestoresSaved \/ KeepsHold
    /\ tick' = IF tick.cable = "unknown" THEN Resting ELSE [tick EXCEPT !.pc = "dispatch"]
    /\ UNCHANGED <<world, lp, unplugged, api, disk, kept>>

-----------------------------------------------------------------------------
(* The rest of the tick *)

\* releaseCompletedManualHold reads the hold: the car no longer asks for
\* current, or the level the hold ends at is reached.  Any hold may have such a
\* level, a pause too.
Release ==
    /\ tick.pc = "dispatch" /\ tick.cable = "in" /\ hold # "none" /\ restored = "done"
    /\ tick' = [tick EXCEPT !.pc = "drop", !.fresh = TRUE]
    /\ UNCHANGED <<world, manager, controller, api, store, kept, want, proven, stray, used>>

\* releaseManualHoldIfCurrent
Drop ==
    /\ tick.pc = "drop" /\ api.pc = "idle"
    /\ tick' = [tick EXCEPT !.pc = "dispatch", !.fresh = FALSE]
    /\ IF tick.fresh /\ hold # "none" THEN TickClears
       ELSE UNCHANGED <<world, manager, controller, api, store, kept, want, proven, stray, used>>

\* What this dispatch adds to what is known of the start it carries out.
Learned ==
    [proven EXCEPT !.dev = IF lp.dev = None THEN @ ELSE lp.dev,
                   !.sess = IF lp.sess = 0 THEN @ ELSE lp.sess]

\* tickOne with a car on the charger: the hold, or the plan, is sent.
Dispatch ==
    /\ tick.pc = "dispatch" /\ tick.cable = "in"
    /\ tick' = Resting
    /\ proven' = IF hold = "start" THEN Learned ELSE proven
    /\ UNCHANGED <<world, manager, controller, api, store, kept, want, stray, used>>

\* tickOne without one: the hold ends when the cable stayed out.
DispatchUnplugged ==
    /\ tick.pc = "dispatch" /\ tick.cable = "out"
    /\ tick' = Resting
    /\ IF unplugged = "long" THEN TickClears
       ELSE UNCHANGED <<world, manager, controller, api, store, kept, want, proven, stray, used>>

-----------------------------------------------------------------------------
(* ControlWrites' worker, and restarts *)

\* A write that fails is tried again: the intent is still there.
Commit ==
    /\ job # NoIntent
    /\ disk' = Applied(job) /\ kept' = job.kind /\ job' = NoIntent
    /\ UNCHANGED <<world, manager, controller, tick, api, want, proven, stray, used>>

\* External: the process ends anywhere and starts from the disk.
Crash ==
    /\ Event
    /\ lp' = NewRuntime /\ moved' = {} /\ pend' = "none"
    /\ hold' = "none" /\ restored' = "unseen" /\ bind' = Unbound
    /\ unplugged' = "no"
    /\ tick' = Resting /\ api' = NoRequest /\ job' = NoIntent
    /\ want' = kept /\ proven' = [proven EXCEPT !.here = FALSE] /\ stray' = FALSE
    /\ UNCHANGED <<world, disk, kept>>

World == PlugIn \/ Unplug \/ Reconnect \/ Swap \/ Reload \/ GraceEnds \/ TimedEnds \/ Crash

Tick ==
    \/ ObserveUnknown \/ Observe \/ CableOut \/ CableBack \/ RebindClears
    \/ Restore \/ Release \/ Drop \/ Dispatch \/ DispatchUnplugged

Next == World \/ (\E choice \in Choices \cup Timed : Request(choice)) \/ Save \/ Tick \/ Commit

Spec == Init /\ [][Next]_vars

-----------------------------------------------------------------------------
(* Properties *)

Sends == tick.pc = "dispatch" /\ tick.cable = "in"

\* Records of more than one charger: the loadpoint was moved, and the older
\* record is not retired by later choices.
Moved == Cardinality({c \in Chargers : disk.records[c] # NoRecord}) > 1

\* Once a hold is restored or set, the charger follows the owner's last choice
\* across refused saves, lost proofs and restarts: only a choice to start
\* gives manual power, and a choice to hold never turns into the plan.  A timed
\* hold is a choice of the plan from its end on.  After a restart the choice is
\* the saved one, which UnsavedIsPending relates to the owner's.
\* RestoreManualHold, flushManualHold, restoreManualHoldForSession.
HoldIsTheChoice ==
    restored = "done" /\ ~Moved =>
        /\ hold = "start" => want = "start"
        /\ want # "clear" => hold # "none"

\* Manual power goes to the charger and the session its start was proven for,
\* whatever happened to the cable, the socket and the proofs in between.
\* restoreManualHoldForSession, rebindAfterUnplug.
StartStaysWithItsSession ==
    Sends /\ hold = "start" /\ proven.here =>
        /\ {lp.dev, proven.dev} \subseteq Chargers => lp.dev = proven.dev
        /\ 0 \notin {lp.sess, proven.sess} => lp.sess = proven.sess

\* The saved choice is read only while none of its keys has an unfinished
\* write, which LoadConfig would hide.  RestoreManualHold.
RestoreReadsSettledKeys ==
    restored # "done" => job = NoIntent

\* The choice a restart should find: the one in force, except beside a timed
\* hold of 0 W that met another session or charger.
Due == IF stray THEN "pause" ELSE want

\* A choice that a restart would not find yet is still on its way: it waits
\* for the charger's identity or in the store, refused saves included.  For the
\* timed hold of 0 W that choice is a pause nobody asked for: the plan follows
\* the hold's end, a clear then finds no hold and saves nothing, and a restart
\* pauses the charger.
\* flushManualHold, PersistManualHold, clearManualHoldLocked.
UnsavedIsPending ==
    kept # Due /\ ~Moved => pend = Due \/ job.kind = Due \/ api.pc = "placed"

\* A start that was proven for a session is not given to another one, also
\* after a restart.
RestartChecksTheSession ==
    Sends /\ hold = "start" /\ 0 \notin {lp.sess, proven.sess}
        => lp.sess = proven.sess

\* The saved choice is well formed and read only when it is settled, and a choice
\* that is not saved yet is still on its way.
RecordsAreSettled == TypeOK /\ RestoreReadsSettledKeys /\ UnsavedIsPending
=============================================================================
