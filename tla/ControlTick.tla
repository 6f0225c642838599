---------------------------- MODULE ControlTick ----------------------------
(***************************************************************************)
(* The part of the control tick that decides which drivers may be          *)
(* commanded and which go back to their autonomous default (cmd/ftw):      *)
(* driver health and its watchdog, the actuation tracker that puts a       *)
(* driver that refuses commands out of dispatch and tries it again, the    *)
(* freshness gate with its defaults, and the supervisor of the tick.       *)
(*                                                                         *)
(* Polls, restarts and late command outcomes come from other goroutines    *)
(* between the phases of a tick.  Time is what the code compares it with:  *)
(* a reading older than the watchdog timeout (aged), a retry interval that *)
(* passed (due, trial).  The watts of a command are left out; so are the   *)
(* battery hold, curtail release and solar hints, which file no outcome,   *)
(* and the operator's setpoints, which the API sends through its own gate. *)
(***************************************************************************)
EXTENDS Naturals, FiniteSets

CONSTANTS
    Drivers, Actions,
    LateActions,    \* the actions whose outcome the driver's actor files itself
    Chargers,       \* the drivers a loadpoint charges a car through
    ObserveOnly,    \* the drivers that are only watched
    Meters,         \* the drivers the site meter can be
    Limit,          \* driverRefusalLimit
    MaxEvents,      \* bound: restarts, faults the driver flags, and meter changes
    NoAction

ASSUME TickAssumption ==
    /\ Limit \in Nat /\ Limit > 1 /\ MaxEvents \in Nat
    /\ LateActions \subseteq Actions /\ Chargers \cup ObserveOnly \subseteq Drivers
    /\ NoAction \notin Actions

VARIABLES
    registered,     \* reg.Names()
    health,         \* telemetry.Store.health
    aged,           \* the last good read, or the start, is older than the timeout
    rec,            \* driverActuationTracker.refusals
    defaulted,      \* driverActuationTracker.defaulted
    site,           \* staleSiteDefaultTracker
    meter, fresh,   \* the site meter, and whether its readings are fresh
    events,
    pc, todo,       \* the phase of the tick, and the commands it still sends
    stops,          \* the chargers a tick behind a closed gate still stands down
    done,           \* watchdogDefaulted of this tick
    late,           \* commands of LateActions whose outcome is not filed yet
    alarm,          \* tickSupervisor: whether it found the tick stalled
    told,           \* what the tick last sent it: its default, 0 W, or a command
    outage,         \* out of reach at or since its exclusion, before any good read
    steady          \* never flagged a fault of its own and never was restarted

world == <<registered, health, aged, meter, fresh, events>>
tracker == <<rec, defaulted>>
tick == <<pc, todo, stops, done, site>>
observed == <<told, outage, steady>>
vars == <<world, tracker, tick, late, alarm, observed>>

NoHealth == [known |-> FALSE, offline |-> FALSE, failed |-> FALSE,
             fault |-> FALSE, cfault |-> FALSE]
NoRec == [cons |-> [a \in Actions |-> 0], action |-> NoAction, excluded |-> FALSE,
          outage |-> FALSE, read |-> FALSE, due |-> FALSE, trial |-> FALSE]

DeviceFault(h) == h.fault \/ h.cfault
IsOnline(h) == h.known /\ ~ h.offline /\ ~ DeviceFault(h)
Unreachable(h) == h.known /\ (h.offline \/ h.failed)

Event == events < MaxEvents /\ events' = events + 1

Init ==
    /\ registered = Drivers
    /\ health = [d \in Drivers |-> [NoHealth EXCEPT !.known = TRUE]]
    /\ aged = [d \in Drivers |-> FALSE]
    /\ rec = [d \in Drivers |-> NoRec] /\ defaulted = {}
    /\ meter \in Meters /\ fresh = TRUE /\ events = 0
    /\ site = [blocked |-> FALSE, meter |-> meter, defaulted |-> {}]
    /\ pc = "idle" /\ todo = {} /\ stops = {} /\ done = {} /\ late = {}
    /\ alarm = "none"
    /\ told = [d \in Drivers |-> "default"]
    /\ outage = [d \in Drivers |-> FALSE]
    /\ steady = [d \in Drivers |-> TRUE]

(***************************************************************************)
(* Polls and lifecycle, from the drivers' own goroutines.                  *)
(***************************************************************************)
RecordDriverSuccess(d) ==
    /\ d \in registered
    /\ health' = [health EXCEPT ![d].failed = FALSE, ![d].offline = FALSE]
    /\ aged' = [aged EXCEPT ![d] = FALSE]
    /\ rec' = [rec EXCEPT ![d].read = rec[d].excluded]
    /\ UNCHANGED <<registered, meter, fresh, events, defaulted, tick, late, alarm, observed>>

RecordDriverError(d) ==
    /\ d \in registered
    /\ health' = [health EXCEPT ![d].failed = TRUE]
    /\ outage' = [outage EXCEPT ![d] = outage[d] \/ (rec[d].excluded /\ ~ rec[d].read)]
    /\ UNCHANGED <<registered, aged, meter, fresh, events, tracker, tick, late, alarm,
                   told, steady>>

SetDriverDeviceFault(d, faulted) ==
    /\ d \in registered
    /\ Event
    /\ health' = [health EXCEPT ![d].fault = faulted]
    /\ steady' = [steady EXCEPT ![d] = FALSE]
    /\ UNCHANGED <<registered, aged, meter, fresh, tracker, tick, late, alarm,
                   told, outage>>

\* Registry.Remove: the health record goes; its last read goes with it.
Remove(d) ==
    /\ d \in registered
    /\ Event
    /\ registered' = registered \ {d}
    /\ health' = [health EXCEPT ![d] = NoHealth]
    /\ aged' = [aged EXCEPT ![d] = FALSE]
    /\ rec' = [rec EXCEPT ![d].read = FALSE]
    /\ steady' = [steady EXCEPT ![d] = FALSE]
    /\ told' = [told EXCEPT ![d] = "default"]
    /\ UNCHANGED <<meter, fresh, defaulted, tick, late, alarm, outage>>

\* Registry.Add ends with EnsureDriverHealth.
Add(d) ==
    /\ d \notin registered
    /\ registered' = registered \cup {d}
    /\ health' = [health EXCEPT ![d].known = TRUE]
    /\ UNCHANGED <<aged, meter, fresh, events, tracker, tick, late, alarm, observed>>

(***************************************************************************)
(* Time passes, noticed in the phase that reads the clock for it.          *)
(***************************************************************************)
ReadingAges(d) ==
    /\ pc = "idle"
    /\ d \in registered /\ ~ aged[d]
    /\ aged' = [aged EXCEPT ![d] = TRUE]
    /\ UNCHANGED <<registered, health, meter, fresh, events, tracker, tick, late, alarm,
                   observed>>

TrialAges(d) ==
    /\ pc = "update"
    /\ rec[d].trial
    /\ rec' = [rec EXCEPT ![d].trial = FALSE]
    /\ UNCHANGED <<world, defaulted, tick, late, alarm, observed>>

RetryIntervalPasses(d) ==
    /\ pc = "update"
    /\ rec[d].excluded /\ ~ rec[d].due
    /\ rec' = [rec EXCEPT ![d].due = TRUE, ![d].trial = FALSE]
    /\ UNCHANGED <<world, defaulted, tick, late, alarm, observed>>

SiteMeter ==
    /\ pc = "gate"
    /\ \/ Event /\ fresh /\ fresh' = FALSE /\ UNCHANGED meter
       \/ Event /\ meter' \in Meters \ {meter} /\ UNCHANGED fresh
       \/ ~ fresh /\ fresh' = TRUE /\ UNCHANGED <<meter, events>>
    /\ UNCHANGED <<registered, health, aged, tracker, tick, late, alarm, observed>>

(***************************************************************************)
(* driverActuationTracker.recordCommandOutcomeFor.                         *)
(***************************************************************************)
Excluded(d, r, a) ==
    [r EXCEPT !.action = a, !.excluded = TRUE, !.outage = Unreachable(health[d]),
              !.read = FALSE, !.due = FALSE]

\* faulty variant: any accepted command clears the streak of its action.
AcceptedClears(d, a) ==
    LET r == [rec[d] EXCEPT !.cons[a] = 0]
    IN  IF \A b \in Actions : r.cons[b] = 0 THEN NoRec ELSE r

\* An accepted command ends the streak of its own action only, and not while
\* that action keeps the driver out.
Accepted(d, a) ==
    LET r == [rec[d] EXCEPT
                !.cons[a] = IF rec[d].excluded /\ a = rec[d].action THEN @ ELSE 0,
                !.trial = @ /\ (rec[d].excluded \/ a # rec[d].action)]
    IN  IF \A b \in Actions : r.cons[b] = 0 THEN NoRec ELSE r

Blocked(d, a) ==
    LET r == [rec[d] EXCEPT !.cons[a] = Limit, !.action = a]
    IN  IF rec[d].excluded THEN r ELSE Excluded(d, r, a)

Refused(d, a) ==
    LET r == [rec[d] EXCEPT !.cons[a] = IF @ < Limit THEN @ + 1 ELSE @]
    IN  IF r.cons[a] >= Limit /\ ~ rec[d].excluded THEN Excluded(d, r, a) ELSE r

RecordCommandOutcome(d, a, result) ==
    LET r == CASE result = "accepted" -> Accepted(d, a)
               [] result = "blocked" -> Blocked(d, a)
               [] result = "refused" -> Refused(d, a)
               [] OTHER -> rec[d]
        out == r.excluded /\ (~ rec[d].excluded \/ result = "blocked")
        in == result = "accepted" /\ ~ rec[d].excluded /\ r = NoRec /\ rec[d] # NoRec
    IN  /\ rec' = [rec EXCEPT ![d] = r]
        /\ health' = [health EXCEPT ![d].cfault =
                        health[d].known /\ (out \/ (@ /\ ~ in))]
        /\ outage' = [outage EXCEPT ![d] =
                        IF r.excluded /\ ~ rec[d].excluded THEN Unreachable(health[d]) ELSE @]

Results(d) == {"refused", "blocked", "other"} \cup
              (IF d \in registered THEN {"accepted"} ELSE {})

(***************************************************************************)
(* A tick: the watchdog, the actuation tracker, the gate, the commands.    *)
(***************************************************************************)
Default(ds) ==
    told' = [d \in Drivers |-> IF d \in ds \ ObserveOnly THEN "default" ELSE told[d]]

WatchdogScan ==
    /\ pc = "idle"
    /\ LET lost == {d \in Drivers : health[d].known /\ aged[d] /\ ~ health[d].offline}
           back == {d \in Drivers : health[d].known /\ ~ aged[d] /\ health[d].offline}
       IN  /\ health' = [d \in Drivers |->
                CASE d \in lost -> [health[d] EXCEPT !.offline = TRUE]
                  [] d \in back -> [health[d] EXCEPT !.offline = FALSE, !.failed = FALSE]
                  [] OTHER -> health[d]]
           /\ outage' = [d \in Drivers |-> outage[d] \/ (d \in lost /\ rec[d].excluded)]
           /\ Default(lost)
           /\ done' = lost
    /\ pc' = "update"
    /\ UNCHANGED <<registered, aged, meter, fresh, events, tracker, todo, stops, site, late,
                   alarm, steady>>

\* faulty variant: any failed read counts as the outage that explains the refusal.
IsOutageEver(d) ==
    rec[d].outage \/ health[d].offline \/ health[d].failed

IsOutage(d) ==
    \/ rec[d].outage
    \/ health[d].offline
    \/ ~ rec[d].trial /\ health[d].failed /\ ~ rec[d].read

IsBack(d) == IsOutage(d) /\ ~ Unreachable(health[d])

\* faulty variant: only a device that was out of reach is tried again.
ReopensAfterOutage(d) == health[d].known /\ rec[d].excluded /\ IsBack(d)

Reopens(d) == health[d].known /\ rec[d].excluded /\ (IsBack(d) \/ rec[d].due)

\* faulty variant: the latch survives a fault that is gone.
LatchKept(latched, faulted) == latched

\* The latch re-arms when the driver can actuate again.
Latch(latched, faulted) == latched \cap faulted

(***************************************************************************)
(* driverActuationTracker.update: reopen what waited long enough or is     *)
(* back, then default every driver that cannot actuate, once per fault.    *)
(***************************************************************************)
Update ==
    /\ pc = "update"
    /\ LET gone == {d \in Drivers : rec[d] # NoRec /\ ~ health[d].known}
           open == {d \in Drivers : Reopens(d)}
           returned == {d \in open : IsBack(d)}
           faulted == {d \in Drivers : health[d].known /\
                         (health[d].fault \/ (health[d].cfault /\ d \notin open))}
           latched == defaulted \ (gone \cup returned)
           pending == {d \in faulted \ ObserveOnly : ~ health[d].offline /\ d \notin latched}
           sent == pending \cup (returned \ ObserveOnly)
       IN  /\ rec' = [d \in Drivers |->
                IF d \in gone THEN NoRec
                ELSE IF d \in open
                     THEN [rec[d] EXCEPT !.cons[rec[d].action] = Limit - 1,
                             !.excluded = FALSE, !.outage = FALSE,
                             !.read = FALSE, !.due = FALSE, !.trial = TRUE]
                     ELSE [rec[d] EXCEPT !.outage = IF rec[d].excluded THEN IsOutage(d) ELSE @]]
           /\ health' = [d \in Drivers |->
                           [health[d] EXCEPT !.cfault = @ /\ d \notin open]]
           /\ defaulted' = Latch(latched \cup pending, faulted)
           /\ Default(sent)
           /\ done' = done \cup sent
    /\ pc' = "gate"
    /\ UNCHANGED <<registered, aged, meter, fresh, events, todo, stops, site, late, alarm,
                   outage, steady>>

\* faulty variant: the tracker is not told that the gate is open again.
RecoveredUnseen == site

\* staleSiteDefaultTracker.update with the gate open.
Recovered == [blocked |-> FALSE, meter |-> meter, defaulted |-> {}]

\* The freshness gate.  Open, the tick has commands to send; closed, it sends the
\* defaults that are due and has the connected chargers to stand down.
Gate ==
    /\ pc = "gate"
    /\ IF fresh
       THEN /\ site' = Recovered
            /\ todo' \in SUBSET ({d \in registered \ ObserveOnly : IsOnline(health[d])}
                                   \X Actions)
            /\ stops' = {}
            /\ UNCHANGED told
       ELSE LET marked == IF site.blocked /\ site.meter = meter THEN site.defaulted ELSE {}
            IN  /\ site' = [blocked |-> TRUE, meter |-> meter,
                            defaulted |-> marked \cup registered]
                /\ Default((registered \ marked) \ done)
                /\ todo' = {}
                /\ stops' \in SUBSET (Chargers \ ObserveOnly)
    /\ pc' = "send" /\ done' = {}
    /\ UNCHANGED <<world, tracker, late, alarm, outage, steady>>

\* One command of the tick.  The tick waits for the outcome, except of a command
\* whose outcome the driver's actor files later.
SendCommand(d, a) ==
    /\ pc = "send" /\ <<d, a>> \in todo
    /\ todo' = todo \ {<<d, a>>}
    /\ told' = [told EXCEPT ![d] = IF d \in registered THEN "command" ELSE @]
    /\ IF a \in LateActions
       THEN late' = late \cup {<<d, a>>} /\ UNCHANGED <<rec, health, outage>>
       ELSE (\E result \in Results(d) : RecordCommandOutcome(d, a, result)) /\ UNCHANGED late
    /\ UNCHANGED <<registered, aged, meter, fresh, events, defaulted, pc, stops, done, site,
                   alarm, steady>>

(***************************************************************************)
(* standDownBeforeStorage: 0 W to a connected charger that is online when  *)
(* its turn comes (TickWithDispatch), in every tick behind a closed gate   *)
(* and after its default.  The outcome is not filed with the tracker.      *)
(***************************************************************************)
\* faulty variant: the charger is not asked whether it can be commanded.
StandDownAnyway(d) ==
    /\ pc = "send" /\ d \in stops
    /\ stops' = stops \ {d}
    /\ told' = [told EXCEPT ![d] = IF d \in registered THEN "0 W" ELSE @]
    /\ UNCHANGED <<world, tracker, pc, todo, done, site, late, alarm, outage, steady>>

StandDown(d) ==
    /\ pc = "send" /\ d \in stops
    /\ stops' = stops \ {d}
    /\ told' = [told EXCEPT ![d] =
                  IF d \in registered /\ IsOnline(health[d]) THEN "0 W" ELSE @]
    /\ UNCHANGED <<world, tracker, pc, todo, done, site, late, alarm, outage, steady>>

LateOutcome(d, a) ==
    /\ <<d, a>> \in late
    /\ late' = late \ {<<d, a>>}
    /\ \E result \in Results(d) : RecordCommandOutcome(d, a, result)
    /\ UNCHANGED <<registered, aged, meter, fresh, events, defaulted, tick, alarm, told,
                   steady>>

TickDone ==
    /\ pc = "send" /\ todo = {} /\ stops = {}
    /\ pc' = "idle"
    /\ alarm' = "none"
    /\ UNCHANGED <<world, tracker, todo, stops, done, site, late, observed>>

(***************************************************************************)
(* The supervisor.  The last beat is older than tickStallAfter: a default  *)
(* to every driver, once until the next beat; then older than              *)
(* tickExitAfter: the process ends and the service starts it again, every  *)
(* driver from its startup default.                                        *)
(***************************************************************************)
TickStalls ==
    /\ alarm = "none"
    /\ alarm' = "stalled"
    /\ Default(registered)
    /\ UNCHANGED <<world, tracker, tick, late, outage, steady>>

TickExit ==
    /\ alarm = "stalled"
    /\ alarm' = "none"
    /\ registered' = Drivers
    /\ health' = [d \in Drivers |-> [NoHealth EXCEPT !.known = TRUE]]
    /\ aged' = [d \in Drivers |-> FALSE]
    /\ rec' = [d \in Drivers |-> NoRec] /\ defaulted' = {}
    /\ site' = [blocked |-> FALSE, meter |-> meter, defaulted |-> {}]
    /\ pc' = "idle" /\ todo' = {} /\ stops' = {} /\ done' = {} /\ late' = {}
    /\ told' = [d \in Drivers |-> "default"]
    /\ outage' = [d \in Drivers |-> FALSE]
    /\ UNCHANGED <<meter, fresh, events, steady>>

Tick ==
    \/ WatchdogScan \/ Update \/ Gate \/ TickDone
    \/ \E d \in Drivers : StandDown(d) \/ \E a \in Actions : SendCommand(d, a)

Next ==
    \/ Tick
    \/ \E d \in Drivers :
          \/ RecordDriverSuccess(d) \/ RecordDriverError(d)
          \/ \E f \in BOOLEAN : SetDriverDeviceFault(d, f)
          \/ Remove(d) \/ Add(d)
          \/ ReadingAges(d) \/ TrialAges(d) \/ RetryIntervalPasses(d)
          \/ \E a \in Actions : LateOutcome(d, a)
    \/ SiteMeter
    \/ TickStalls \/ TickExit

Spec == Init /\ [][Next]_vars

(***************************************************************************)
(* The clock advances: a tick beats, or the supervisor sees it stall and   *)
(* then ends the process; the retry interval passes.  Nothing is assumed   *)
(* of the tick itself, which may hang in any phase for ever.               *)
(***************************************************************************)
FairSpec ==
    /\ Spec
    /\ WF_vars(TickStalls \/ TickDone) /\ WF_vars(TickExit \/ TickDone)
    /\ \A d \in Drivers : SF_vars(RetryIntervalPasses(d))

-----------------------------------------------------------------------------
TypeOK ==
    /\ registered \subseteq Drivers /\ defaulted \subseteq Drivers
    /\ health \in [Drivers -> [known : BOOLEAN, offline : BOOLEAN, failed : BOOLEAN,
                               fault : BOOLEAN, cfault : BOOLEAN]]
    /\ rec \in [Drivers -> [cons : [Actions -> 0..Limit], action : Actions \cup {NoAction},
                            excluded : BOOLEAN, outage : BOOLEAN, read : BOOLEAN,
                            due : BOOLEAN, trial : BOOLEAN]]
    /\ {aged, outage, steady} \subseteq [Drivers -> BOOLEAN]
    /\ told \in [Drivers -> {"default", "0 W", "command"}]
    /\ meter \in Meters /\ fresh \in BOOLEAN
    /\ site \in [blocked : BOOLEAN, meter : Meters, defaulted : SUBSET Drivers]
    /\ pc \in {"idle", "update", "gate", "send"}
    /\ todo \subseteq Drivers \X Actions /\ late \subseteq Drivers \X LateActions
    /\ stops \subseteq Drivers /\ done \subseteq Drivers
    /\ alarm \in {"none", "stalled"} /\ events \in 0..MaxEvents

(***************************************************************************)
(* A driver that core put out of dispatch has a record that will let it    *)
(* back in: no order of outcomes of several actions, late ones included,   *)
(* leaves the fault behind without its record.                             *)
(***************************************************************************)
FaultHasARecord ==
    \A d \in Drivers : health[d].cfault =>
        rec[d].excluded /\ rec[d].cons[rec[d].action] = Limit

(***************************************************************************)
(* While the gate is closed, no driver works on a command of a tick: since *)
(* it was last commanded it got its default, at the first blocked tick and *)
(* again in each later episode although only once in each, or a charger    *)
(* its 0 W after that default (TickWithDispatch with dispatch not allowed).*)
(***************************************************************************)
BlockedSiteIsReleased ==
    site.blocked /\ ~ fresh => \A d \in registered \ ObserveOnly : told[d] # "command"

(***************************************************************************)
(* A driver that core put out of dispatch has been sent its default by the *)
(* time the tracker is done, and neither a command nor a stand-down after  *)
(* it, whatever its polls, its other actions and the earlier exclusions    *)
(* did.  (A driver that flags faults itself, or was restarted between two  *)
(* ticks, can escape.)                                                     *)
(***************************************************************************)
ExcludedIsReleased ==
    [][pc = "update" /\ pc' = "gate" =>
         \A d \in Drivers \ ObserveOnly :
             health'[d].cfault /\ ~ health'[d].offline /\ steady[d] => told'[d] = "default"]_vars

(***************************************************************************)
(* A driver that read fine when it refused and at its first poll after     *)
(* keeps the whole retry window, whatever its later polls do.              *)
(***************************************************************************)
EarlyReturnNeedsAnOutage ==
    [][pc' = "gate" => \A d \in Drivers :
         rec[d].excluded /\ ~ rec'[d].excluded /\ ~ rec[d].due /\ health[d].known
           => outage[d]]_vars

(***************************************************************************)
(* A driver does not stay out of dispatch for ever: it is tried again, or  *)
(* the tick hangs and the supervisor ends the process.                     *)
(***************************************************************************)
ExclusionEnds ==
    \A d \in Drivers : health[d].cfault ~> ~ health[d].cfault

\* Every exclusion has its well-formed record, with a count that stays at its
\* limit (recordCommandOutcomeFor).
FaultIsTracked == TypeOK /\ FaultHasARecord

\* A driver leaves dispatch with its default sent, and comes back early only
\* after an outage (driverActuationTracker.update).
ExclusionIsSafe == ExcludedIsReleased /\ EarlyReturnNeedsAnOutage
=============================================================================
