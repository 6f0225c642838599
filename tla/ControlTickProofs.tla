------------------------- MODULE ControlTickProofs -------------------------
(***************************************************************************)
(* Safety of the tick's exclusions and defaults for every set of drivers,  *)
(* actions and site meters and every refusal limit: the inductive          *)
(* invariant IInv, and the properties of ControlTick that follow from it.  *)
(***************************************************************************)
EXTENDS ControlTick, TLAPS

\* Only a registered driver has a health record that says anything.
IKnown(d) ==
    /\ health[d].known <=> d \in registered
    /\ ~ health[d].known => health[d] = NoHealth

\* The fault of an exclusion comes with its record, whose action is at its limit.
IRecord(d) ==
    /\ health[d].cfault => rec[d].excluded
    /\ rec[d].excluded => rec[d].action \in Actions /\ rec[d].cons[rec[d].action] = Limit

\* What the tracker takes for an outage was one.
IOutage(d) ==
    rec[d].excluded
        /\ (rec[d].outage \/ health[d].offline \/ (health[d].failed /\ ~ rec[d].read))
      => outage[d]

\* A latched driver is out of dispatch, and was sent nothing since its default.
ILatch(d) ==
    /\ steady[d] => ~ health[d].fault
    /\ steady[d] /\ d \in defaulted /\ d \notin ObserveOnly =>
         health[d].cfault /\ told[d] = "default" /\ \A a \in Actions : <<d, a>> \notin todo

\* What was sent last: nothing to a driver that is gone, its default to one defaulted
\* in this tick, and no command to one behind a closed gate.
ITold(d) ==
    /\ told[d] # "default" => d \in registered
    /\ d \in done \ ObserveOnly => told[d] = "default"
    /\ site.blocked /\ d \notin ObserveOnly => told[d] # "command"

\* What the phases of a tick leave to the next.
IPhase ==
    /\ todo # {} => pc = "send" /\ ~ site.blocked
    /\ stops # {} => pc = "send" /\ site.blocked
    /\ done # {} => pc \in {"update", "gate"}

Local(d) == IKnown(d) /\ IRecord(d) /\ IOutage(d) /\ ILatch(d) /\ ITold(d)

IInv == TypeOK /\ IPhase /\ \A d \in Drivers : Local(d)

USE DEF world, tracker, tick, observed

-----------------------------------------------------------------------------
(* Types *)

Health == [known : BOOLEAN, offline : BOOLEAN, failed : BOOLEAN, fault : BOOLEAN, cfault : BOOLEAN]
Record == [cons : [Actions -> 0..Limit], action : Actions \cup {NoAction}, excluded : BOOLEAN,
           outage : BOOLEAN, read : BOOLEAN, due : BOOLEAN, trial : BOOLEAN]
Message == {"default", "0 W", "command"}
Site == [blocked : BOOLEAN, meter : Meters, defaulted : SUBSET Drivers]

\* The type invariant, one variable at a time.
Types ==
    /\ registered \subseteq Drivers /\ defaulted \subseteq Drivers
    /\ health \in [Drivers -> Health] /\ rec \in [Drivers -> Record]
    /\ aged \in [Drivers -> BOOLEAN] /\ told \in [Drivers -> Message]
    /\ outage \in [Drivers -> BOOLEAN] /\ steady \in [Drivers -> BOOLEAN]
    /\ meter \in Meters /\ site \in Site
    /\ pc \in {"idle", "update", "gate", "send"}
    /\ todo \subseteq Drivers \X Actions /\ late \subseteq Drivers \X LateActions
    /\ stops \subseteq Drivers /\ done \subseteq Drivers
    /\ alarm \in {"none", "stalled"} /\ events \in 0..MaxEvents

\* The flag of the meter is Boolean.
Flag == fresh \in BOOLEAN

\* The type invariant is these two.
LEMMA TypeParts == (TypeOK <=> Types /\ Flag) /\ (TypeOK' <=> Types' /\ Flag')
  BY DEF TypeOK, Types, Flag, Health, Record, Site, Message

\* The records that everything starts from.
LEMMA NoFacts == NoHealth \in Health /\ NoRec \in Record /\ [NoHealth EXCEPT !.known = TRUE] \in Health
  <1>1. NoHealth \in Health /\ [NoHealth EXCEPT !.known = TRUE] \in Health
    BY DEF NoHealth, Health
  <1>2. 0 \in 0..Limit
    BY TickAssumption
  <1>3. [a \in Actions |-> 0] \in [Actions -> 0..Limit]
    BY <1>2
  <1>4. NoRec \in Record
    BY <1>3 DEF NoRec, Record
  <1> QED
    BY <1>1, <1>4

\* The flag stays Boolean.
LEMMA FlagStep == Flag /\ [Next]_vars => Flag'
  <1> SUFFICES ASSUME Flag, [Next]_vars PROVE Flag'
    OBVIOUS
  <1>1. fresh' = fresh \/ fresh' = TRUE \/ fresh' = FALSE
    BY DEF Next, Tick, vars, WatchdogScan, Update, Gate, TickDone, SendCommand, StandDown, RecordDriverSuccess,
       RecordDriverError, SetDriverDeviceFault, Remove, Add, ReadingAges, TrialAges,
       RetryIntervalPasses, LateOutcome, SiteMeter, TickStalls, TickExit
  <1> QED
    BY <1>1, Zenon DEF Flag

-----------------------------------------------------------------------------
(* What one outcome does to the record of its driver *)

Good(d, r) ==
    /\ r \in Record
    /\ r.excluded => r.action \in Actions /\ r.cons[r.action] = Limit
    /\ rec[d].excluded => r.excluded /\ r.outage = rec[d].outage /\ r.read = rec[d].read
    /\ ~ rec[d].excluded /\ r.excluded => r.outage = Unreachable(health[d]) /\ r.read = FALSE

\* An accepted command never lifts an exclusion.
LEMMA AcceptedGood ==
    ASSUME Types, NEW d \in Drivers, IRecord(d), NEW a \in Actions
    PROVE  Good(d, Accepted(d, a)) /\ (Accepted(d, a).excluded => rec[d].excluded)
  <1> DEFINE r == [rec[d] EXCEPT
                !.cons[a] = IF rec[d].excluded /\ a = rec[d].action THEN @ ELSE 0,
                !.trial = @ /\ (rec[d].excluded \/ a # rec[d].action)]
  <1>1. rec[d] \in Record /\ Limit \in Nat /\ Limit > 1 /\ NoAction \notin Actions
    BY TickAssumption DEF Types
  <1>2. rec[d].excluded => rec[d].action \in Actions /\ rec[d].cons[rec[d].action] = Limit
    BY DEF IRecord
  <1>3. r \in Record /\ r.excluded = rec[d].excluded /\ r.action = rec[d].action
        /\ r.outage = rec[d].outage /\ r.read = rec[d].read
    <2>1. 0 \in 0..Limit
      BY <1>1
    <2>2. rec[d].cons[a] \in 0..Limit
      BY <1>1 DEF Record
    <2>3. ASSUME NEW x \in 0..Limit, NEW p \in BOOLEAN
          PROVE  [rec[d] EXCEPT !.cons[a] = x, !.trial = p] \in Record
      BY <1>1 DEF Record
    <2>4. r \in Record
      BY <2>1, <2>2, <2>3, <1>1, ZenonT(40) DEF Record
    <2> QED
      BY <2>4, <1>1 DEF Record
  <1>4. ASSUME rec[d].excluded PROVE r.cons[rec[d].action] = Limit
    BY <1>1, <1>2, <1>4 DEF Record
  <1>5. Accepted(d, a) = IF \A b \in Actions : r.cons[b] = 0 THEN NoRec ELSE r
    BY DEF Accepted
  <1> HIDE DEF r
  <1>6. CASE \A b \in Actions : r.cons[b] = 0
    <2>1. ~ rec[d].excluded
      BY <1>1, <1>2, <1>4, <1>6
    <2>2. NoRec.excluded = FALSE /\ NoRec \in Record
      BY NoFacts DEF NoRec
    <2> QED
      BY <2>1, <2>2, <1>5, <1>6 DEF Good
  <1>7. CASE ~ \A b \in Actions : r.cons[b] = 0
    BY <1>1, <1>2, <1>3, <1>4, <1>5, <1>7 DEF Good
  <1> QED
    BY <1>6, <1>7

\* A blocked command excludes, at once.
LEMMA BlockedGood ==
    ASSUME Types, NEW d \in Drivers, IRecord(d), NEW a \in Actions
    PROVE  Good(d, Blocked(d, a)) /\ Blocked(d, a).excluded
  <1> DEFINE r == [rec[d] EXCEPT !.cons[a] = Limit, !.action = a]
  <1>1. rec[d] \in Record /\ Limit \in Nat /\ health[d] \in Health
    BY TickAssumption DEF Types
  <1>2. /\ r \in Record /\ r.excluded = rec[d].excluded /\ r.action = a /\ r.cons[a] = Limit
        /\ r.outage = rec[d].outage /\ r.read = rec[d].read
    <2>1. Limit \in 0..Limit
      BY <1>1
    <2>2. r \in Record
      BY <2>1, <1>1 DEF Record
    <2> QED
      BY <2>2, <1>1 DEF Record
  <1>3. Blocked(d, a) = IF rec[d].excluded THEN r ELSE Excluded(d, r, a)
    BY DEF Blocked
  <1> HIDE DEF r
  <1>4. CASE rec[d].excluded
    BY <1>1, <1>2, <1>3, <1>4 DEF Good
  <1>5. CASE ~ rec[d].excluded
    <2>1. /\ Excluded(d, r, a) \in Record /\ Excluded(d, r, a).excluded
          /\ Excluded(d, r, a).action = a /\ Excluded(d, r, a).cons[a] = Limit
          /\ Excluded(d, r, a).outage = Unreachable(health[d]) /\ Excluded(d, r, a).read = FALSE
      BY <1>1, <1>2, ZenonT(40) DEF Excluded, Record, Unreachable, Health
    <2> QED
      BY <2>1, <1>3, <1>5 DEF Good
  <1> QED
    BY <1>4, <1>5

\* A refusal counts, and the last one allowed excludes.
LEMMA RefusedGood ==
    ASSUME Types, NEW d \in Drivers, IRecord(d), NEW a \in Actions
    PROVE  Good(d, Refused(d, a))
  <1> DEFINE r == [rec[d] EXCEPT !.cons[a] = IF @ < Limit THEN @ + 1 ELSE @]
  <1>1. rec[d] \in Record /\ Limit \in Nat /\ health[d] \in Health
    BY TickAssumption DEF Types
  <1>2. rec[d].excluded => rec[d].action \in Actions /\ rec[d].cons[rec[d].action] = Limit
    BY DEF IRecord
  <1>3. /\ r \in Record /\ r.excluded = rec[d].excluded /\ r.action = rec[d].action
        /\ r.outage = rec[d].outage /\ r.read = rec[d].read
        /\ rec[d].excluded => r.cons[rec[d].action] = Limit
        /\ r.cons[a] >= Limit => r.cons[a] = Limit
    BY <1>1, <1>2 DEF Record
  <1>4. Refused(d, a) = IF r.cons[a] >= Limit /\ ~ rec[d].excluded THEN Excluded(d, r, a) ELSE r
    BY DEF Refused
  <1> HIDE DEF r
  <1>5. CASE r.cons[a] >= Limit /\ ~ rec[d].excluded
    <2>1. /\ Excluded(d, r, a) \in Record /\ Excluded(d, r, a).excluded
          /\ Excluded(d, r, a).action = a /\ Excluded(d, r, a).cons[a] = Limit
          /\ Excluded(d, r, a).outage = Unreachable(health[d]) /\ Excluded(d, r, a).read = FALSE
      BY <1>1, <1>3, <1>5 DEF Excluded, Record, Unreachable, Health
    <2> QED
      BY <2>1, <1>4, <1>5 DEF Good
  <1>6. CASE ~ (r.cons[a] >= Limit /\ ~ rec[d].excluded)
    BY <1>1, <1>2, <1>3, <1>4, <1>6 DEF Good
  <1> QED
    BY <1>5, <1>6

\* Every outcome: the exclusion of d can begin, never end, and its fault with it.
LEMMA OutcomeFacts ==
    ASSUME Types, NEW d \in Drivers, Local(d), NEW a \in Actions, NEW result \in Results(d),
           RecordCommandOutcome(d, a, result)
    PROVE  /\ rec' \in [Drivers -> Record] /\ health' \in [Drivers -> Health]
           /\ outage' \in [Drivers -> BOOLEAN]
           /\ \A e \in Drivers \ {d} : rec'[e] = rec[e] /\ health'[e] = health[e] /\ outage'[e] = outage[e]
           /\ health'[d].known = health[d].known /\ health'[d].offline = health[d].offline
           /\ health'[d].failed = health[d].failed /\ health'[d].fault = health[d].fault
           /\ health'[d].cfault => health[d].known /\ rec'[d].excluded
           /\ health[d].cfault => health'[d].cfault
           /\ Good(d, rec'[d])
           /\ outage'[d] = IF rec'[d].excluded /\ ~ rec[d].excluded
                           THEN Unreachable(health[d]) ELSE outage[d]
  <1> DEFINE r == CASE result = "accepted" -> Accepted(d, a)
                    [] result = "blocked" -> Blocked(d, a)
                    [] result = "refused" -> Refused(d, a)
                    [] OTHER -> rec[d]
             out == r.excluded /\ (~ rec[d].excluded \/ result = "blocked")
             in == result = "accepted" /\ ~ rec[d].excluded /\ r = NoRec /\ rec[d] # NoRec
  <1>1. /\ rec \in [Drivers -> Record] /\ health \in [Drivers -> Health]
        /\ outage \in [Drivers -> BOOLEAN]
    BY DEF Types
  <1>2. IRecord(d) /\ IKnown(d)
    BY DEF Local
  <1>3. Good(d, r)
    <2>1. Good(d, rec[d])
      BY <1>1, <1>2 DEF Good, IRecord
    <2> QED
      BY <2>1, <1>2, AcceptedGood, BlockedGood, RefusedGood
  <1>4. /\ rec' = [rec EXCEPT ![d] = r]
        /\ health' = [health EXCEPT ![d].cfault = health[d].known /\ (out \/ (@ /\ ~ in))]
        /\ outage' = [outage EXCEPT ![d] =
                        IF r.excluded /\ ~ rec[d].excluded THEN Unreachable(health[d]) ELSE @]
    BY DEF RecordCommandOutcome
  <1>5. (in => ~ rec[d].excluded) /\ (out => r.excluded)
    OBVIOUS
  <1> HIDE DEF r, out, in
  <1>6. rec' \in [Drivers -> Record] /\ rec'[d] = r
    BY <1>1, <1>3, <1>4 DEF Good
  <1>7. /\ health' \in [Drivers -> Health]
        /\ health'[d].known = health[d].known /\ health'[d].offline = health[d].offline
        /\ health'[d].failed = health[d].failed /\ health'[d].fault = health[d].fault
        /\ health'[d].cfault <=> health[d].known /\ (out \/ (health[d].cfault /\ ~ in))
    BY <1>1, <1>4 DEF Health
  <1>8. outage' \in [Drivers -> BOOLEAN]
    BY <1>1, <1>4 DEF Unreachable, Health
  <1>9. \A e \in Drivers \ {d} : rec'[e] = rec[e] /\ health'[e] = health[e] /\ outage'[e] = outage[e]
    BY <1>1, <1>4
  <1>10. outage'[d] = IF r.excluded /\ ~ rec[d].excluded THEN Unreachable(health[d]) ELSE outage[d]
    BY <1>1, <1>4
  <1>11. health'[d].cfault => health[d].known /\ r.excluded
    BY <1>2, <1>3, <1>5, <1>7 DEF Good, IRecord
  <1>12. health[d].cfault => health'[d].cfault
    BY <1>2, <1>5, <1>7 DEF IRecord, IKnown, NoHealth
  <1> QED
    BY <1>3, <1>6, <1>7, <1>8, <1>9, <1>10, <1>11, <1>12

-----------------------------------------------------------------------------
(* The steps *)

Sound == Types /\ IPhase /\ \A d \in Drivers : Local(d)

\* A driver that a step leaves alone, or only defaults, keeps what is said of it.
LEMMA KeepFacts ==
    ASSUME Types, Types', NEW d \in Drivers, Local(d),
           health'[d] = health[d], rec'[d] = rec[d], outage'[d] = outage[d], steady'[d] = steady[d],
           told'[d] \in {told[d], "default"}, d \in registered' <=> d \in registered,
           d \in defaulted' => d \in defaulted, \A a \in Actions : <<d, a>> \in todo' => <<d, a>> \in todo,
           d \in done' => d \in done, site'.blocked => site.blocked
    PROVE  Local(d)'
  <1>1. IKnown(d)' /\ IRecord(d)' /\ IOutage(d)'
    BY DEF Local, IKnown, IRecord, IOutage
  <1>2. ILatch(d)'
    BY DEF Local, ILatch
  <1>3. ITold(d)'
    BY DEF Local, ITold
  <1> QED
    BY <1>1, <1>2, <1>3 DEF Local

\* Polls and lifecycle.
LEMMA PollStep ==
    ASSUME Sound, NEW e \in Drivers,
           \/ RecordDriverSuccess(e) \/ RecordDriverError(e)
           \/ \E f \in BOOLEAN : SetDriverDeviceFault(e, f)
           \/ Remove(e) \/ Add(e)
    PROVE  Sound'
  <1> USE DEF RecordDriverSuccess, RecordDriverError, SetDriverDeviceFault, Remove, Add
  <1>1. Types /\ IPhase /\ \A d \in Drivers : Local(d)
    BY DEF Sound
  <1>2. UNCHANGED <<meter, defaulted, tick, late, alarm>>
    OBVIOUS
  <1>3. health' \in [Drivers -> Health]
    <2>1. health \in [Drivers -> Health]
      BY <1>1 DEF Types
    <2>2. CASE RecordDriverSuccess(e)
      <3>1. health' = [health EXCEPT ![e].failed = FALSE, ![e].offline = FALSE]
        BY <2>2
      <3> HIDE DEF RecordDriverSuccess, RecordDriverError, SetDriverDeviceFault, Remove, Add
      <3> QED
        BY <2>1, <3>1 DEF Health
    <2>3. CASE RecordDriverError(e)
      BY <2>1, <2>3, ZenonT(40) DEF Health
    <2>4. CASE \E f \in BOOLEAN : SetDriverDeviceFault(e, f)
      BY <2>1, <2>4 DEF Health
    <2>5. CASE Remove(e)
      BY <2>1, <2>5, NoFacts
    <2>6. CASE Add(e)
      BY <2>1, <2>6 DEF Health
    <2> QED
      BY <2>2, <2>3, <2>4, <2>5, <2>6
  <1>4. rec' \in [Drivers -> Record]
    <2>1. rec \in [Drivers -> Record]
      BY <1>1 DEF Types
    <2>2. CASE RecordDriverSuccess(e)
      BY <2>1, <2>2, ZenonT(40) DEF Record
    <2>3. CASE Remove(e)
      BY <2>1, <2>3, ZenonT(40) DEF Record
    <2>4. CASE rec' = rec
      BY <2>1, <2>4
    <2> QED
      BY <2>2, <2>3, <2>4
  <1>5. /\ aged' \in [Drivers -> BOOLEAN] /\ told' \in [Drivers -> Message]
        /\ outage' \in [Drivers -> BOOLEAN] /\ steady' \in [Drivers -> BOOLEAN]
        /\ registered' \subseteq Drivers
    BY <1>1 DEF Types, Message
  <1>6. events' \in 0..MaxEvents
    BY <1>1, TickAssumption DEF Types, Event
  <1>7. Types'
    BY <1>1, <1>2, <1>3, <1>4, <1>5, <1>6 DEF Types
  <1>8. IPhase'
    BY <1>1, <1>2 DEF IPhase
  <1>9. ASSUME NEW d \in Drivers, d # e PROVE Local(d)'
    <2>1. /\ health'[d] = health[d] /\ rec'[d] = rec[d] /\ outage'[d] = outage[d]
          /\ steady'[d] = steady[d] /\ told'[d] = told[d]
          /\ d \in registered' <=> d \in registered
      BY <1>1, <1>9 DEF Types
    <2> QED
      BY <1>1, <1>2, <1>7, <2>1, KeepFacts
  <1>10. Local(e)'
    <2>1. Local(e) /\ health \in [Drivers -> Health] /\ rec \in [Drivers -> Record]
          /\ told \in [Drivers -> Message] /\ outage \in [Drivers -> BOOLEAN]
          /\ steady \in [Drivers -> BOOLEAN] /\ aged \in [Drivers -> BOOLEAN]
      BY <1>1 DEF Types
    <2>2. IKnown(e) /\ IRecord(e) /\ IOutage(e) /\ ILatch(e) /\ ITold(e)
      BY <2>1 DEF Local
    <2>3. CASE RecordDriverSuccess(e)
      <3>1. /\ health'[e] = [health[e] EXCEPT !.failed = FALSE, !.offline = FALSE]
            /\ rec'[e] = [rec[e] EXCEPT !.read = rec[e].excluded]
            /\ UNCHANGED <<registered, told, outage, steady>> /\ e \in registered
        BY <2>1, <2>3
      <3>2. IKnown(e)' /\ IRecord(e)'
        BY <2>1, <2>2, <3>1 DEF IKnown, IRecord, Health, Record
      <3>3. IOutage(e)'
        BY <2>1, <2>2, <3>1 DEF IOutage, Health, Record
      <3>4. ILatch(e)' /\ ITold(e)'
        BY <1>2, <2>1, <2>2, <3>1 DEF ILatch, ITold, Health
      <3> QED
        BY <3>2, <3>3, <3>4 DEF Local
    <2>4. CASE RecordDriverError(e)
      <3>1. /\ health'[e] = [health[e] EXCEPT !.failed = TRUE] /\ rec' = rec
            /\ outage'[e] = (outage[e] \/ (rec[e].excluded /\ ~ rec[e].read))
            /\ UNCHANGED <<registered, told, steady>> /\ e \in registered
        BY <2>1, <2>4
      <3>2. IKnown(e)' /\ IRecord(e)'
        BY <2>1, <2>2, <3>1 DEF IKnown, IRecord, Health, Record
      <3>3. IOutage(e)'
        BY <2>1, <2>2, <3>1 DEF IOutage, Health, Record
      <3>4. ILatch(e)' /\ ITold(e)'
        BY <1>2, <2>1, <2>2, <3>1 DEF ILatch, ITold, Health
      <3> QED
        BY <3>2, <3>3, <3>4 DEF Local
    <2>5. ASSUME NEW f \in BOOLEAN, SetDriverDeviceFault(e, f) PROVE Local(e)'
      <3>1. /\ health'[e] = [health[e] EXCEPT !.fault = f] /\ rec' = rec /\ steady'[e] = FALSE
            /\ UNCHANGED <<registered, told, outage>> /\ e \in registered
        BY <2>1, <2>5
      <3>2. IKnown(e)' /\ IRecord(e)'
        BY <2>1, <2>2, <3>1 DEF IKnown, IRecord, Health, Record
      <3>3. IOutage(e)'
        BY <2>1, <2>2, <3>1 DEF IOutage, Health, Record
      <3>4. ILatch(e)' /\ ITold(e)'
        BY <1>2, <2>1, <2>2, <3>1 DEF ILatch, ITold, Health
      <3> QED
        BY <3>2, <3>3, <3>4 DEF Local
    <2>6. CASE Remove(e)
      <3>1. /\ health'[e] = NoHealth /\ rec'[e] = [rec[e] EXCEPT !.read = FALSE]
            /\ steady'[e] = FALSE /\ told'[e] = "default" /\ outage' = outage /\ e \notin registered'
        BY <2>1, <2>6
      <3>2. IKnown(e)' /\ IRecord(e)'
        BY <2>1, <2>2, <3>1 DEF IKnown, IRecord, NoHealth, Record
      <3>3. IOutage(e)'
        BY <2>1, <2>2, <3>1 DEF IOutage, NoHealth, Record
      <3>4. ILatch(e)' /\ ITold(e)'
        BY <1>2, <2>1, <2>2, <3>1 DEF ILatch, ITold, Health
      <3> QED
        BY <3>2, <3>3, <3>4 DEF Local
    <2>7. CASE Add(e)
      <3>1. /\ health'[e] = [health[e] EXCEPT !.known = TRUE] /\ rec' = rec
            /\ UNCHANGED <<steady, told, outage>> /\ e \in registered' /\ e \notin registered
        BY <2>1, <2>7
      <3>2. IKnown(e)' /\ IRecord(e)'
        BY <2>1, <2>2, <3>1 DEF IKnown, IRecord, Health, Record
      <3>3. IOutage(e)'
        BY <2>1, <2>2, <3>1 DEF IOutage, Health, Record
      <3>4. ILatch(e)' /\ ITold(e)'
        BY <1>2, <2>1, <2>2, <3>1 DEF ILatch, ITold, Health
      <3> QED
        BY <3>2, <3>3, <3>4 DEF Local
    <2> QED
      BY <2>3, <2>4, <2>5, <2>6, <2>7
  <1> QED
    BY <1>7, <1>8, <1>9, <1>10 DEF Sound

\* Time passes.
LEMMA ClockStep ==
    ASSUME Sound, NEW e \in Drivers, ReadingAges(e) \/ TrialAges(e) \/ RetryIntervalPasses(e)
    PROVE  Sound'
  <1> USE DEF ReadingAges, TrialAges, RetryIntervalPasses
  <1>1. Types /\ IPhase /\ \A d \in Drivers : Local(d)
    BY DEF Sound
  <1>2. UNCHANGED <<registered, health, meter, events, defaulted, tick, late, alarm, observed>>
    OBVIOUS
  <1>3. aged' \in [Drivers -> BOOLEAN]
    BY <1>1 DEF Types
  <1>4. /\ rec' \in [Drivers -> Record]
        /\ \A d \in Drivers :
             /\ rec'[d].cons = rec[d].cons /\ rec'[d].action = rec[d].action
             /\ rec'[d].excluded = rec[d].excluded /\ rec'[d].outage = rec[d].outage
             /\ rec'[d].read = rec[d].read
    <2>1. rec \in [Drivers -> Record]
      BY <1>1 DEF Types
    <2>2. CASE TrialAges(e)
      BY <2>1, <2>2, ZenonT(40) DEF Record
    <2>3. CASE RetryIntervalPasses(e)
      BY <2>1, <2>3, ZenonT(40) DEF Record
    <2>4. CASE rec' = rec
      BY <2>1, <2>4
    <2> QED
      BY <2>2, <2>3, <2>4
  <1>5. Types'
    BY <1>1, <1>2, <1>3, <1>4 DEF Types
  <1>6. IPhase'
    BY <1>1, <1>2 DEF IPhase
  <1>7. ASSUME NEW d \in Drivers PROVE Local(d)'
    <2>1. Local(d) /\ rec[d] \in Record /\ rec'[d] \in Record
      BY <1>1, <1>4 DEF Types
    <2>2. IRecord(d)' /\ IOutage(d)'
      BY <1>2, <1>4, <2>1 DEF Local, IRecord, IOutage, Record
    <2>3. IKnown(d)' /\ ILatch(d)' /\ ITold(d)'
      BY <1>2, <2>1 DEF Local, IKnown, ILatch, ITold
    <2> QED
      BY <2>2, <2>3 DEF Local
  <1> QED
    BY <1>5, <1>6, <1>7 DEF Sound

\* The meter of the site, and the end of a tick.
LEMMA QuietStep ==
    ASSUME Sound, SiteMeter \/ TickDone \/ UNCHANGED vars
    PROVE  Sound'
  <1>1. Types /\ IPhase /\ \A d \in Drivers : Local(d)
    BY DEF Sound
  <1>2. UNCHANGED <<registered, health, aged, tracker, todo, stops, done, site, late, observed>>
    BY DEF SiteMeter, TickDone, vars
  <1>3. events' \in 0..MaxEvents /\ meter' \in Meters
    BY <1>1, TickAssumption DEF Types, Event, SiteMeter, TickDone, vars
  <1>4. pc' \in {"idle", "update", "gate", "send"} /\ alarm' \in {"none", "stalled"}
    BY <1>1 DEF Types, SiteMeter, TickDone, vars
  <1>5. Types'
    BY <1>1, <1>2, <1>3, <1>4 DEF Types
  <1>6. IPhase'
    <2>1. pc' = pc \/ (pc = "send" /\ todo = {} /\ stops = {})
      BY DEF SiteMeter, TickDone, vars
    <2> QED
      BY <1>1, <1>2, <2>1 DEF IPhase
  <1>7. ASSUME NEW d \in Drivers PROVE Local(d)'
    BY <1>1, <1>2, <1>5, KeepFacts
  <1> QED
    BY <1>5, <1>6, <1>7 DEF Sound

\* The outcome of a command, filed by the tick or late by the driver's actor.
LEMMA OutcomeStep ==
    ASSUME Sound, NEW e \in Drivers, NEW a \in Actions, SendCommand(e, a) \/ LateOutcome(e, a)
    PROVE  Sound'
  <1>1. Types /\ IPhase /\ \A d \in Drivers : Local(d)
    BY DEF Sound
  <1>2. UNCHANGED <<registered, aged, meter, events, defaulted, pc, stops, done, site, alarm, steady>>
    BY DEF SendCommand, LateOutcome
  <1>3. todo' \subseteq todo /\ late' \subseteq Drivers \X LateActions
    BY <1>1 DEF SendCommand, LateOutcome, Types
  <1>4. /\ told' \in [Drivers -> Message]
        /\ \A d \in Drivers \ {e} : told'[d] = told[d]
        /\ told'[e] # told[e] => e \in registered /\ <<e, a>> \in todo
    <2>1. told \in [Drivers -> Message]
      BY <1>1 DEF Types
    <2>2. CASE SendCommand(e, a)
      <3>1. /\ told' = [told EXCEPT ![e] = IF e \in registered THEN "command" ELSE @]
            /\ <<e, a>> \in todo
        BY <2>2 DEF SendCommand
      <3> QED
        BY <2>1, <3>1 DEF Message
    <2>3. CASE LateOutcome(e, a)
      <3>1. told' = told
        BY <2>3 DEF LateOutcome
      <3> QED
        BY <2>1, <3>1
    <2> QED
      BY <2>2, <2>3
  <1>5. /\ rec' \in [Drivers -> Record] /\ health' \in [Drivers -> Health]
        /\ outage' \in [Drivers -> BOOLEAN]
        /\ \A d \in Drivers \ {e} : rec'[d] = rec[d] /\ health'[d] = health[d] /\ outage'[d] = outage[d]
        /\ health'[e].known = health[e].known /\ health'[e].offline = health[e].offline
        /\ health'[e].failed = health[e].failed /\ health'[e].fault = health[e].fault
        /\ health'[e].cfault => health[e].known /\ rec'[e].excluded
        /\ health[e].cfault => health'[e].cfault
        /\ Good(e, rec'[e])
        /\ outage'[e] = IF rec'[e].excluded /\ ~ rec[e].excluded
                        THEN Unreachable(health[e]) ELSE outage[e]
    <2>1. CASE UNCHANGED <<rec, health, outage>>
      <3>1. Types /\ Local(e)
        BY <1>1
      <3>2. Good(e, rec[e])
        BY <3>1 DEF Types, Local, IRecord, Good
      <3>3. health[e].cfault => health[e].known /\ rec[e].excluded
        BY <3>1 DEF Types, Local, IRecord, IKnown, NoHealth
      <3> QED
        BY <2>1, <3>1, <3>2, <3>3 DEF Types
    <2>2. CASE \E result \in Results(e) : RecordCommandOutcome(e, a, result)
      BY <1>1, <2>2, OutcomeFacts
    <2> QED
      BY <2>1, <2>2 DEF SendCommand, LateOutcome
  <1>6. Types'
    BY <1>1, <1>2, <1>3, <1>4, <1>5 DEF Types
  <1>7. IPhase'
    BY <1>1, <1>2, <1>3 DEF IPhase
  <1>8. ASSUME NEW d \in Drivers, d # e PROVE Local(d)'
    BY <1>1, <1>2, <1>3, <1>4, <1>5, <1>6, <1>8, KeepFacts
  <1>9. Local(e)'
    <2>1. /\ health[e] \in Health /\ health'[e] \in Health /\ rec[e] \in Record /\ rec'[e] \in Record
          /\ outage[e] \in BOOLEAN /\ told[e] \in Message /\ told'[e] \in Message
      BY <1>1, <1>4, <1>5 DEF Types
    <2>2. IKnown(e) /\ IRecord(e) /\ IOutage(e) /\ ILatch(e) /\ ITold(e)
      BY <1>1 DEF Local
    <2>3. IKnown(e)'
      <3>1. ASSUME ~ health[e].known PROVE health'[e] = NoHealth
        BY <3>1, <1>5, <2>1, <2>2 DEF IKnown, Health, NoHealth
      <3> QED
        BY <3>1, <1>2, <1>5, <2>1, <2>2 DEF IKnown, Health
    <2>4. IRecord(e)'
      BY <1>5, <2>1 DEF IRecord, Good
    <2>5. IOutage(e)'
      BY <1>5, <2>1, <2>2 DEF IOutage, Good, IKnown, Unreachable, NoHealth
    <2>6. ILatch(e)'
      BY <1>2, <1>3, <1>4, <1>5, <2>1, <2>2 DEF ILatch
    <2>7. ITold(e)'
      BY <1>1, <1>2, <1>4, <2>1, <2>2 DEF ITold, IPhase
    <2> QED
      BY <2>3, <2>4, <2>5, <2>6, <2>7 DEF Local
  <1> QED
    BY <1>6, <1>7, <1>8, <1>9 DEF Sound

\* The 0 W to a charger behind a closed gate: one that is out of dispatch gets none.
LEMMA StandDownStep ==
    ASSUME Sound, NEW e \in Drivers, StandDown(e)
    PROVE  Sound'
  <1>1. Types /\ IPhase /\ \A d \in Drivers : Local(d)
    BY DEF Sound
  <1>2. /\ UNCHANGED <<registered, health, aged, meter, events, tracker, pc, todo, done, site, late,
                      alarm, outage, steady>>
        /\ pc = "send" /\ stops' = stops \ {e} /\ e \in stops
        /\ told' = [told EXCEPT ![e] =
                      IF e \in registered /\ IsOnline(health[e]) THEN "0 W" ELSE @]
    BY DEF StandDown
  <1>3. Types'
    <2>1. told' \in [Drivers -> Message]
      BY <1>1, <1>2 DEF Types, Message
    <2> QED
      BY <1>1, <1>2, <2>1 DEF Types
  <1>4. IPhase'
    BY <1>1, <1>2 DEF IPhase
  <1>5. ASSUME NEW d \in Drivers, d # e PROVE Local(d)'
    <2>1. told'[d] = told[d]
      BY <1>1, <1>2, <1>5 DEF Types
    <2> QED
      BY <1>1, <1>2, <1>3, <2>1, KeepFacts
  <1>6. Local(e)'
    <2>1. IKnown(e) /\ IRecord(e) /\ IOutage(e) /\ ILatch(e) /\ ITold(e) /\ health[e] \in Health
      BY <1>1 DEF Local, Types
    <2>2. told'[e] = IF e \in registered /\ IsOnline(health[e]) THEN "0 W" ELSE told[e]
      BY <1>1, <1>2 DEF Types
    <2>3. IKnown(e)' /\ IRecord(e)' /\ IOutage(e)'
      BY <1>2, <2>1 DEF IKnown, IRecord, IOutage
    <2>4. health[e].cfault => told'[e] = told[e]
      BY <2>1, <2>2 DEF IsOnline, DeviceFault, Health
    <2>5. ILatch(e)'
      BY <1>2, <2>1, <2>4 DEF ILatch
    <2>6. done = {}
      BY <1>1, <1>2 DEF IPhase
    <2>7. told'[e] = told[e] \/ (told'[e] = "0 W" /\ e \in registered)
      BY <2>2
    <2>8. ITold(e)'
      BY <1>2, <2>1, <2>6, <2>7 DEF ITold
    <2> QED
      BY <2>3, <2>5, <2>8 DEF Local
  <1> QED
    BY <1>3, <1>4, <1>5, <1>6 DEF Sound

\* The watchdog.
LEMMA WatchdogStep ==
    ASSUME Sound, WatchdogScan
    PROVE  Sound'
  <1> DEFINE lost == {d \in Drivers : health[d].known /\ aged[d] /\ ~ health[d].offline}
             back == {d \in Drivers : health[d].known /\ ~ aged[d] /\ health[d].offline}
  <1>1. Types /\ IPhase /\ \A d \in Drivers : Local(d)
    BY DEF Sound
  <1>2. /\ health' = [d \in Drivers |->
                CASE d \in lost -> [health[d] EXCEPT !.offline = TRUE]
                  [] d \in back -> [health[d] EXCEPT !.offline = FALSE, !.failed = FALSE]
                  [] OTHER -> health[d]]
        /\ outage' = [d \in Drivers |-> outage[d] \/ (d \in lost /\ rec[d].excluded)]
        /\ told' = [d \in Drivers |-> IF d \in lost \ ObserveOnly THEN "default" ELSE told[d]]
        /\ done' = lost /\ pc = "idle" /\ pc' = "update"
        /\ UNCHANGED <<registered, aged, meter, events, tracker, todo, stops, site, late, alarm, steady>>
    BY DEF WatchdogScan, Default
  <1>3. lost \subseteq Drivers /\ lost \cap back = {}
    OBVIOUS
  <1> HIDE DEF lost, back
  <1>4. ASSUME NEW d \in Drivers
        PROVE  /\ health'[d] \in Health
               /\ health'[d].known = health[d].known /\ health'[d].fault = health[d].fault
               /\ health'[d].cfault = health[d].cfault
               /\ health'[d].failed => health[d].failed
               /\ health'[d].offline => health[d].offline \/ d \in lost
               /\ d \notin lost \cup back => health'[d] = health[d]
    BY <1>1, <1>2, <1>3, ZenonT(40) DEF Types, Health
  <1>5. Types'
    <2>1. health' \in [Drivers -> Health]
      BY <1>2, <1>4
    <2>2. told' \in [Drivers -> Message] /\ outage' \in [Drivers -> BOOLEAN]
      BY <1>1, <1>2 DEF Types, Message
    <2> QED
      BY <1>1, <1>2, <1>3, <2>1, <2>2 DEF Types
  <1>6. IPhase'
    BY <1>1, <1>2 DEF IPhase
  <1>7. ASSUME NEW d \in Drivers PROVE Local(d)'
    <2>1. /\ health[d] \in Health /\ rec[d] \in Record
          /\ outage'[d] = (outage[d] \/ (d \in lost /\ rec[d].excluded))
          /\ told'[d] = IF d \in lost \ ObserveOnly THEN "default" ELSE told[d]
      BY <1>1, <1>2 DEF Types
    <2>2. IKnown(d) /\ IRecord(d) /\ IOutage(d) /\ ILatch(d) /\ ITold(d)
      BY <1>1 DEF Local
    <2>3. IKnown(d)'
      <3>1. d \in lost \cup back => health[d].known
        BY DEF lost, back
      <3> QED
        BY <1>2, <1>4, <2>1, <2>2, <3>1 DEF IKnown, Health
    <2>4. IRecord(d)'
      BY <1>2, <1>4, <2>1, <2>2 DEF IRecord, Health
    <2>5. IOutage(d)'
      BY <1>2, <1>4, <2>1, <2>2 DEF IOutage, Health, Record
    <2>6. ILatch(d)'
      BY <1>2, <1>4, <2>1, <2>2 DEF ILatch, Health
    <2>7. ITold(d)'
      BY <1>2, <2>1, <2>2 DEF ITold
    <2> QED
      BY <2>3, <2>4, <2>5, <2>6, <2>7 DEF Local
  <1> QED
    BY <1>5, <1>6, <1>7 DEF Sound

\* The gate, and the commands it lets through.
LEMMA GateStep ==
    ASSUME Sound, Flag, Gate
    PROVE  Sound'
  <1>1. Types /\ IPhase /\ \A d \in Drivers : Local(d)
    BY DEF Sound
  <1>2. /\ pc = "gate" /\ pc' = "send" /\ done' = {}
        /\ UNCHANGED <<registered, health, aged, meter, events, tracker, late, alarm, outage, steady>>
    BY DEF Gate
  <1>3. CASE fresh
    <2>1. /\ site' = Recovered /\ told' = told /\ stops' = {}
          /\ todo' \in SUBSET ({d \in registered \ ObserveOnly : IsOnline(health[d])} \X Actions)
      BY <1>3 DEF Gate
    <2>2. site' \in Site /\ ~ site'.blocked
      BY <1>1, <2>1 DEF Recovered, Site, Types
    <2>3. Types'
      BY <1>1, <1>2, <2>1, <2>2 DEF Types
    <2>4. IPhase'
      BY <1>2, <2>1, <2>2 DEF IPhase
    <2>5. ASSUME NEW d \in Drivers PROVE Local(d)'
      <3>1. IKnown(d) /\ IRecord(d) /\ IOutage(d) /\ ILatch(d) /\ ITold(d)
        BY <1>1 DEF Local
      <3>2. IKnown(d)' /\ IRecord(d)' /\ IOutage(d)'
        BY <1>2, <3>1 DEF IKnown, IRecord, IOutage
      <3>3. health[d].cfault => \A b \in Actions : <<d, b>> \notin todo'
        BY <1>1, <2>1 DEF IsOnline, DeviceFault, Types, Health
      <3>4. ILatch(d)'
        BY <1>2, <2>1, <3>1, <3>3 DEF ILatch
      <3>5. ITold(d)'
        BY <1>2, <2>1, <2>2, <3>1 DEF ITold
      <3> QED
        BY <3>2, <3>4, <3>5 DEF Local
    <2> QED
      BY <2>3, <2>4, <2>5 DEF Sound
  <1>4. CASE ~ fresh
    <2> DEFINE marked == IF site.blocked /\ site.meter = meter THEN site.defaulted ELSE {}
               ds == (registered \ marked) \ done
    <2>1. /\ site' = [blocked |-> TRUE, meter |-> meter, defaulted |-> marked \cup registered]
          /\ told' = [d \in Drivers |-> IF d \in ds \ ObserveOnly THEN "default" ELSE told[d]]
          /\ todo' = {} /\ stops' \in SUBSET (Chargers \ ObserveOnly)
      BY <1>4 DEF Gate, Default
    <2>2. marked \subseteq Drivers /\ (~ site.blocked => marked = {})
      BY <1>1 DEF Types, Site
    <2>3. ~ site.blocked => ds = registered \ done
      BY <2>2
    <2> HIDE DEF marked, ds
    <2>4. site' \in Site
      BY <1>1, <2>1, <2>2 DEF Site, Types
    <2>5. Types'
      <3>1. stops' \subseteq Drivers
        BY <2>1, TickAssumption
      <3>2. told' \in [Drivers -> Message]
        BY <1>1, <2>1 DEF Types, Message
      <3> QED
        BY <1>1, <1>2, <2>1, <2>4, <3>1, <3>2 DEF Types
    <2>6. IPhase'
      BY <1>2, <2>1 DEF IPhase
    <2>7. ASSUME NEW d \in Drivers PROVE Local(d)'
      <3>1. IKnown(d) /\ IRecord(d) /\ IOutage(d) /\ ILatch(d) /\ ITold(d)
        BY <1>1 DEF Local
      <3>2. told'[d] = IF d \in ds \ ObserveOnly THEN "default" ELSE told[d]
        BY <2>1
      <3>3. IKnown(d)' /\ IRecord(d)' /\ IOutage(d)'
        BY <1>2, <3>1 DEF IKnown, IRecord, IOutage
      <3>4. ILatch(d)'
        BY <1>2, <2>1, <3>1, <3>2 DEF ILatch
      <3>5. d \notin ObserveOnly => told'[d] # "command"
        BY <2>3, <3>1, <3>2 DEF ITold
      <3>6. ITold(d)'
        BY <1>2, <2>1, <3>1, <3>2, <3>5 DEF ITold
      <3> QED
        BY <3>3, <3>4, <3>6 DEF Local
    <2> QED
      BY <2>5, <2>6, <2>7 DEF Sound
  <1> QED
    BY <1>3, <1>4

\* What the tracker's update does with one driver.
UpdateOf(d) ==
    LET faulted == health[d].known /\ (health[d].fault \/ (health[d].cfault /\ ~ Reopens(d)))
        gone == rec[d] # NoRec /\ ~ health[d].known
        returned == Reopens(d) /\ IsBack(d)
        latched == d \in defaulted /\ ~ gone /\ ~ returned
        pending == faulted /\ d \notin ObserveOnly /\ ~ health[d].offline /\ ~ latched
        sent == pending \/ (returned /\ d \notin ObserveOnly)
    IN  /\ rec'[d] = IF gone THEN NoRec
                     ELSE IF Reopens(d)
                     THEN [rec[d] EXCEPT !.cons[rec[d].action] = Limit - 1,
                             !.excluded = FALSE, !.outage = FALSE,
                             !.read = FALSE, !.due = FALSE, !.trial = TRUE]
                     ELSE [rec[d] EXCEPT !.outage = IF rec[d].excluded THEN IsOutage(d) ELSE @]
        /\ health'[d] = [health[d] EXCEPT !.cfault = @ /\ ~ Reopens(d)]
        /\ d \in defaulted' <=> (latched \/ pending) /\ faulted
        /\ told'[d] = IF sent THEN "default" ELSE told[d]
        /\ d \in done' <=> d \in done \/ sent

\* The update, one driver at a time.
LEMMA UpdateFacts ==
    ASSUME Types, Update
    PROVE  /\ \A d \in Drivers : UpdateOf(d)
           /\ rec' = [d \in Drivers |-> rec'[d]] /\ health' = [d \in Drivers |-> health'[d]]
           /\ told' \in [Drivers -> Message]
           /\ defaulted' \subseteq Drivers /\ done' \subseteq Drivers
  <1> DEFINE gone == {d \in Drivers : rec[d] # NoRec /\ ~ health[d].known}
             open == {d \in Drivers : Reopens(d)}
             returned == {d \in open : IsBack(d)}
             faulted == {d \in Drivers : health[d].known /\
                           (health[d].fault \/ (health[d].cfault /\ d \notin open))}
             latched == defaulted \ (gone \cup returned)
             pending == {d \in faulted \ ObserveOnly : ~ health[d].offline /\ d \notin latched}
             sent == pending \cup (returned \ ObserveOnly)
  <1>1. /\ rec' = [d \in Drivers |->
                IF d \in gone THEN NoRec
                ELSE IF d \in open
                     THEN [rec[d] EXCEPT !.cons[rec[d].action] = Limit - 1,
                             !.excluded = FALSE, !.outage = FALSE,
                             !.read = FALSE, !.due = FALSE, !.trial = TRUE]
                     ELSE [rec[d] EXCEPT !.outage = IF rec[d].excluded THEN IsOutage(d) ELSE @]]
        /\ health' = [d \in Drivers |-> [health[d] EXCEPT !.cfault = @ /\ d \notin open]]
        /\ defaulted' = (latched \cup pending) \cap faulted
        /\ told' = [d \in Drivers |-> IF d \in sent \ ObserveOnly THEN "default" ELSE told[d]]
        /\ done' = done \cup sent
    BY DEF Update, Latch, Default
  <1>2. defaulted \subseteq Drivers /\ done \subseteq Drivers /\ told \in [Drivers -> Message]
    BY DEF Types
  <1>3. ASSUME NEW d \in Drivers
        PROVE  /\ d \in open <=> Reopens(d)
               /\ d \in gone <=> rec[d] # NoRec /\ ~ health[d].known
               /\ d \in returned <=> Reopens(d) /\ IsBack(d)
               /\ d \in faulted <=> health[d].known /\
                           (health[d].fault \/ (health[d].cfault /\ ~ Reopens(d)))
    OBVIOUS
  <1>4. faulted \subseteq Drivers
    OBVIOUS
  <1>5. sent \subseteq Drivers \ ObserveOnly
    OBVIOUS
  <1>6. ASSUME NEW d \in Drivers
        PROVE  /\ d \in latched <=> d \in defaulted /\ d \notin gone /\ d \notin returned
               /\ d \in pending <=> d \in faulted /\ d \notin ObserveOnly /\ ~ health[d].offline
                                      /\ d \notin latched
               /\ d \in sent <=> d \in pending \/ (d \in returned /\ d \notin ObserveOnly)
    OBVIOUS
  <1> HIDE DEF gone, open, returned, faulted, latched, pending, sent
  <1>7. ASSUME NEW d \in Drivers PROVE UpdateOf(d)
    <2>1. rec'[d] = IF d \in gone THEN NoRec
                     ELSE IF d \in open
                     THEN [rec[d] EXCEPT !.cons[rec[d].action] = Limit - 1,
                             !.excluded = FALSE, !.outage = FALSE,
                             !.read = FALSE, !.due = FALSE, !.trial = TRUE]
                     ELSE [rec[d] EXCEPT !.outage = IF rec[d].excluded THEN IsOutage(d) ELSE @]
      BY <1>1
    <2>2. health'[d] = [health[d] EXCEPT !.cfault = @ /\ ~ Reopens(d)]
      <3>1. health'[d] = [health[d] EXCEPT !.cfault = @ /\ d \notin open]
        BY <1>1
      <3>2. (health[d].cfault /\ d \notin open) = (health[d].cfault /\ ~ Reopens(d))
        BY <1>3
      <3> QED
        BY <3>1, <3>2
    <2>3. d \in defaulted' <=> (d \in latched \/ d \in pending) /\ d \in faulted
      BY <1>1
    <2>4. told'[d] = IF d \in sent THEN "default" ELSE told[d]
      BY <1>1, <1>2, <1>5
    <2>5. d \in done' <=> d \in done \/ d \in sent
      BY <1>1
    <2> QED
      BY <1>3, <1>6, <2>1, <2>2, <2>3, <2>4, <2>5 DEF UpdateOf
  <1>8. defaulted' \subseteq Drivers /\ done' \subseteq Drivers
    BY <1>1, <1>2, <1>4, <1>5
  <1>9. told' \in [Drivers -> Message]
    BY <1>1, <1>2 DEF Message
  <1>10. rec' = [d \in Drivers |-> rec'[d]] /\ health' = [d \in Drivers |-> health'[d]]
    BY <1>1
  <1> QED
    BY <1>7, <1>8, <1>9, <1>10

\* The tracker's update.
LEMMA UpdateStep ==
    ASSUME Sound, Update
    PROVE  Sound'
  <1>1. Types /\ IPhase /\ \A d \in Drivers : Local(d)
    BY DEF Sound
  <1>2. /\ pc = "update" /\ pc' = "gate"
        /\ UNCHANGED <<registered, aged, meter, events, todo, stops, site, late, alarm, outage, steady>>
    BY DEF Update
  <1>3. /\ \A d \in Drivers : UpdateOf(d)
        /\ rec' = [d \in Drivers |-> rec'[d]] /\ health' = [d \in Drivers |-> health'[d]]
        /\ told' \in [Drivers -> Message]
        /\ defaulted' \subseteq Drivers /\ done' \subseteq Drivers
    BY <1>1, UpdateFacts
  <1>4. ASSUME NEW d \in Drivers
        PROVE  /\ health'[d] \in Health /\ rec'[d] \in Record
               /\ health'[d].known = health[d].known /\ health'[d].fault = health[d].fault
               /\ health'[d].failed = health[d].failed /\ health'[d].offline = health[d].offline
               /\ health'[d].cfault <=> health[d].cfault /\ ~ Reopens(d)
               /\ rec'[d].excluded => /\ rec[d].excluded /\ ~ Reopens(d)
                                      /\ rec'[d].action = rec[d].action /\ rec'[d].cons = rec[d].cons
                                      /\ rec'[d].outage = IsOutage(d) /\ rec'[d].read = rec[d].read
               /\ rec[d].excluded /\ health[d].known /\ ~ Reopens(d) => rec'[d].excluded
    <2>1. health[d] \in Health /\ rec[d] \in Record
      BY <1>1 DEF Types
    <2>2. health'[d] = [health[d] EXCEPT !.cfault = @ /\ ~ Reopens(d)]
      BY <1>3 DEF UpdateOf
    <2>3. /\ health'[d] \in Health
          /\ health'[d].known = health[d].known /\ health'[d].fault = health[d].fault
          /\ health'[d].failed = health[d].failed /\ health'[d].offline = health[d].offline
          /\ health'[d].cfault <=> health[d].cfault /\ ~ Reopens(d)
      BY <2>1, <2>2 DEF Health
    <2>4. IsOutage(d) \in BOOLEAN
      BY <2>1 DEF IsOutage, Health, Record
    <2>5. rec'[d] = IF rec[d] # NoRec /\ ~ health[d].known THEN NoRec
                    ELSE IF Reopens(d)
                    THEN [rec[d] EXCEPT !.cons[rec[d].action] = Limit - 1,
                            !.excluded = FALSE, !.outage = FALSE,
                            !.read = FALSE, !.due = FALSE, !.trial = TRUE]
                    ELSE [rec[d] EXCEPT !.outage = IF rec[d].excluded THEN IsOutage(d) ELSE @]
      BY <1>3 DEF UpdateOf
    <2>6. CASE rec[d] # NoRec /\ ~ health[d].known
      <3>1. rec'[d] = NoRec /\ ~ NoRec.excluded
        BY <2>5, <2>6 DEF NoRec
      <3> QED
        BY <3>1, <2>3, <2>6, NoFacts
    <2>7. CASE ~ (rec[d] # NoRec /\ ~ health[d].known) /\ Reopens(d)
      <3>1. Limit - 1 \in 0..Limit
        BY TickAssumption
      <3>2. rec'[d] = [rec[d] EXCEPT !.cons[rec[d].action] = Limit - 1,
                         !.excluded = FALSE, !.outage = FALSE,
                         !.read = FALSE, !.due = FALSE, !.trial = TRUE]
        BY <2>5, <2>7
      <3>3. [rec[d].cons EXCEPT ![rec[d].action] = Limit - 1] \in [Actions -> 0..Limit]
        <4>1. rec[d].cons \in [Actions -> 0..Limit]
          BY <2>1 DEF Record
        <4> QED
          BY <3>1, <4>1
      <3>4. rec'[d] \in Record
        BY <2>1, <3>2, <3>3 DEF Record
      <3>5. ~ rec'[d].excluded
        BY <2>1, <3>2 DEF Record
      <3> QED
        BY <3>4, <3>5, <2>3, <2>7
    <2>8. CASE ~ (rec[d] # NoRec /\ ~ health[d].known) /\ ~ Reopens(d)
      <3>1. rec'[d] = [rec[d] EXCEPT !.outage = IF rec[d].excluded THEN IsOutage(d) ELSE @]
        BY <2>5, <2>8
      <3>2. rec'[d] \in Record
        BY <2>1, <2>4, <3>1 DEF Record
      <3>3. /\ rec'[d].excluded = rec[d].excluded /\ rec'[d].action = rec[d].action
            /\ rec'[d].cons = rec[d].cons /\ rec'[d].read = rec[d].read
            /\ rec[d].excluded => rec'[d].outage = IsOutage(d)
        BY <2>1, <3>1 DEF Record
      <3> QED
        BY <3>2, <3>3, <2>3, <2>8
    <2> QED
      BY <2>6, <2>7, <2>8
  <1>5. Types'
    <2>1. health' \in [Drivers -> Health] /\ rec' \in [Drivers -> Record]
      BY <1>3, <1>4
    <2> QED
      BY <1>1, <1>2, <1>3, <2>1 DEF Types
  <1>6. IPhase'
    BY <1>1, <1>2 DEF IPhase
  <1>7. ASSUME NEW d \in Drivers PROVE Local(d)'
    <2>1. /\ health[d] \in Health /\ rec[d] \in Record /\ health'[d] \in Health /\ rec'[d] \in Record
          /\ told[d] \in Message /\ outage[d] \in BOOLEAN /\ told'[d] \in Message
      BY <1>1, <1>3, <1>4 DEF Types
    <2>2. IKnown(d) /\ IRecord(d) /\ IOutage(d) /\ ILatch(d) /\ ITold(d)
      BY <1>1 DEF Local
    <2>3. IKnown(d)'
      <3>1. ASSUME ~ health[d].known PROVE health'[d] = NoHealth
        BY <3>1, <1>4, <2>1, <2>2 DEF IKnown, Health, NoHealth
      <3> QED
        BY <3>1, <1>2, <1>4, <2>1, <2>2 DEF IKnown, Health
    <2>4. IRecord(d)'
      <3>1. health[d].cfault => health[d].known
        BY <2>1, <2>2 DEF IKnown, NoHealth
      <3> QED
        BY <3>1, <1>4, <2>1, <2>2 DEF IRecord
    <2>5. IOutage(d)'
      BY <1>2, <1>4, <2>1, <2>2 DEF IOutage, IsOutage
    <2>6. d \in defaulted' /\ d \notin ObserveOnly /\ steady[d] => health'[d].cfault
      BY <1>3, <1>4, <2>1, <2>2 DEF UpdateOf, ILatch
    <2>7. d \in defaulted' /\ d \notin ObserveOnly /\ steady[d] =>
            told'[d] = "default" /\ \A a \in Actions : <<d, a>> \notin todo
      <3>1. \A a \in Actions : <<d, a>> \notin todo
        BY <1>1, <1>2 DEF IPhase
      <3>2. d \in defaulted' /\ d \notin ObserveOnly /\ steady[d] => told'[d] = "default"
        BY <1>3, <2>1, <2>2 DEF UpdateOf, ILatch
      <3> QED
        BY <3>1, <3>2
    <2>8. ILatch(d)'
      BY <1>2, <1>4, <2>1, <2>2, <2>6, <2>7 DEF ILatch
    <2>9. ITold(d)'
      <3>1. told'[d] \in {told[d], "default"} /\ (d \in done' \ ObserveOnly => told'[d] = "default")
        BY <1>3, <2>1, <2>2 DEF UpdateOf, ITold
      <3> QED
        BY <1>2, <2>1, <2>2, <3>1 DEF ITold
    <2> QED
      BY <2>3, <2>4, <2>5, <2>8, <2>9 DEF Local
  <1> QED
    BY <1>5, <1>6, <1>7 DEF Sound

\* The supervisor.
LEMMA SupervisorStep ==
    ASSUME Sound, TickStalls \/ TickExit
    PROVE  Sound'
  <1>1. Types /\ IPhase /\ \A d \in Drivers : Local(d)
    BY DEF Sound
  <1>2. CASE TickStalls
    <2>1. /\ told' = [d \in Drivers |-> IF d \in registered \ ObserveOnly THEN "default" ELSE told[d]]
          /\ alarm' = "stalled"
          /\ UNCHANGED <<world, tracker, tick, late, outage, steady>>
      BY <1>2 DEF TickStalls, Default
    <2>2. told' \in [Drivers -> Message] /\ \A d \in Drivers : told'[d] \in {told[d], "default"}
      BY <1>1, <2>1 DEF Types, Message
    <2>3. Types'
      BY <1>1, <2>1, <2>2 DEF Types
    <2>4. IPhase'
      BY <1>1, <2>1 DEF IPhase
    <2>5. ASSUME NEW d \in Drivers PROVE Local(d)'
      BY <1>1, <2>1, <2>2, <2>3, KeepFacts
    <2> QED
      BY <2>3, <2>4, <2>5 DEF Sound
  <1>3. CASE TickExit
    <2>1. /\ alarm' = "none" /\ registered' = Drivers
          /\ health' = [d \in Drivers |-> [NoHealth EXCEPT !.known = TRUE]]
          /\ aged' = [d \in Drivers |-> FALSE]
          /\ rec' = [d \in Drivers |-> NoRec] /\ defaulted' = {}
          /\ site' = [blocked |-> FALSE, meter |-> meter, defaulted |-> {}]
          /\ pc' = "idle" /\ todo' = {} /\ stops' = {} /\ done' = {} /\ late' = {}
          /\ told' = [d \in Drivers |-> "default"] /\ outage' = [d \in Drivers |-> FALSE]
          /\ UNCHANGED <<meter, events, steady>>
      BY <1>3 DEF TickExit
    <2>2. Types'
      BY <1>1, <2>1, NoFacts DEF Types, Site, Message
    <2>3. IPhase'
      BY <2>1 DEF IPhase
    <2>4. ASSUME NEW d \in Drivers PROVE Local(d)'
      <3>1. /\ health'[d] = [NoHealth EXCEPT !.known = TRUE] /\ rec'[d] = NoRec /\ told'[d] = "default"
            /\ outage'[d] = FALSE /\ d \in registered'
        BY <2>1
      <3>2. IKnown(d)' /\ IRecord(d)' /\ IOutage(d)'
        BY <3>1 DEF IKnown, IRecord, IOutage, NoHealth, NoRec
      <3>3. ILatch(d)' /\ ITold(d)'
        BY <2>1, <3>1 DEF ILatch, ITold, NoHealth
      <3> QED
        BY <3>2, <3>3 DEF Local
    <2> QED
      BY <2>2, <2>3, <2>4 DEF Sound
  <1> QED
    BY <1>2, <1>3

-----------------------------------------------------------------------------
(* The theorems *)

\* The invariant is its types, the flag among them, and the drivers' parts.
LEMMA IInvParts == (IInv <=> Sound /\ Flag) /\ (IInv' <=> Sound' /\ Flag')
  BY TypeParts, Zenon DEF IInv, Sound

\* The tick starts in the invariant.
LEMMA InitIInv == Init => IInv
  <1> SUFFICES ASSUME Init PROVE IInv
    OBVIOUS
  <1>1. Flag
    BY Zenon DEF Init, Flag
  <1>2. Types
    BY NoFacts, TickAssumption DEF Init, Types, Site, Message
  <1>3. IPhase
    BY DEF Init, IPhase
  <1>4. ASSUME NEW d \in Drivers PROVE Local(d)
    <2>1. /\ health[d] = [NoHealth EXCEPT !.known = TRUE] /\ rec[d] = NoRec /\ told[d] = "default"
          /\ outage[d] = FALSE /\ d \in registered /\ defaulted = {} /\ done = {}
      BY DEF Init
    <2>2. IKnown(d) /\ IRecord(d) /\ IOutage(d)
      BY <2>1 DEF IKnown, IRecord, IOutage, NoHealth, NoRec
    <2>3. ILatch(d) /\ ITold(d)
      BY <2>1 DEF ILatch, ITold, NoHealth
    <2> QED
      BY <2>2, <2>3 DEF Local
  <1> QED
    BY <1>1, <1>2, <1>3, <1>4, IInvParts DEF Sound

\* Every step keeps the invariant.
LEMMA StepIInv == IInv /\ [Next]_vars => IInv'
  <1> SUFFICES ASSUME IInv, [Next]_vars PROVE IInv'
    OBVIOUS
  <1>1. Sound /\ Flag
    BY IInvParts
  <1>2. Flag'
    BY <1>1, FlagStep
  <1>3. Sound'
    <2>1. CASE WatchdogScan
      BY <1>1, <2>1, WatchdogStep
    <2>2. CASE Update
      BY <1>1, <2>2, UpdateStep
    <2>3. CASE Gate
      BY <1>1, <2>3, GateStep
    <2>4. CASE \E d \in Drivers, a \in Actions : SendCommand(d, a) \/ LateOutcome(d, a)
      BY <1>1, <2>4, OutcomeStep
    <2>5. CASE \E d \in Drivers :
                  \/ RecordDriverSuccess(d) \/ RecordDriverError(d)
                  \/ \E f \in BOOLEAN : SetDriverDeviceFault(d, f)
                  \/ Remove(d) \/ Add(d)
      BY <1>1, <2>5, PollStep
    <2>6. CASE \E d \in Drivers : ReadingAges(d) \/ TrialAges(d) \/ RetryIntervalPasses(d)
      BY <1>1, <2>6, ClockStep
    <2>7. CASE SiteMeter \/ TickDone \/ UNCHANGED vars
      BY <1>1, <2>7, QuietStep
    <2>8. CASE TickStalls \/ TickExit
      BY <1>1, <2>8, SupervisorStep
    <2>9. CASE \E d \in Drivers : StandDown(d)
      BY <1>1, <2>9, StandDownStep
    <2> QED
      BY <2>1, <2>2, <2>3, <2>4, <2>5, <2>6, <2>7, <2>8, <2>9 DEF Next, Tick
  <1> QED
    BY <1>2, <1>3, IInvParts

(***************************************************************************)
(* The inductive invariant: per driver, what its health, its refusal       *)
(* record, the default latch and the gate's tracker say of one another.    *)
(***************************************************************************)
THEOREM Invariance == Spec => []IInv
  BY InitIInv, StepIInv, PTL DEF Spec

(***************************************************************************)
(* A driver that recordCommandOutcomeFor put out of dispatch keeps the     *)
(* record that lets it back in, with a count at its limit, whatever the    *)
(* outcomes of its other actions and the late ones.                        *)
(***************************************************************************)
THEOREM FaultsAreTracked == Spec => []FaultIsTracked
  <1>1. IInv => FaultIsTracked
    <2> SUFFICES ASSUME IInv PROVE FaultIsTracked
      OBVIOUS
    <2>1. TypeOK /\ \A d \in Drivers : IRecord(d)
      BY DEF IInv, Local
    <2>2. FaultHasARecord
      BY <2>1 DEF FaultHasARecord, IRecord
    <2> QED
      BY <2>1, <2>2 DEF FaultIsTracked
  <1> QED
    BY <1>1, Invariance, PTL

(***************************************************************************)
(* Behind a closed freshness gate no driver works on a command of a tick:  *)
(* the last it was sent is its default, although it is sent only once in   *)
(* an episode, or the 0 W that standDownBeforeStorage sends a charger.     *)
(***************************************************************************)
THEOREM GateReleases == Spec => []BlockedSiteIsReleased
  <1>1. IInv => BlockedSiteIsReleased
    <2> SUFFICES ASSUME IInv, site.blocked, NEW d \in registered \ ObserveOnly
                 PROVE  told[d] # "command"
      BY DEF BlockedSiteIsReleased
    <2>1. d \in Drivers
      BY IInvParts DEF Sound, Types
    <2>2. ITold(d)
      BY <2>1 DEF IInv, Local
    <2> QED
      BY <2>2 DEF ITold
  <1> QED
    BY <1>1, Invariance, PTL

\* A tracker's update leaves no excluded driver on a command.
LEMMA UpdateReleases ==
    IInv /\ [Next]_vars =>
      (pc = "update" /\ pc' = "gate" =>
         \A d \in Drivers \ ObserveOnly :
             health'[d].cfault /\ ~ health'[d].offline /\ steady[d] => told'[d] = "default")
  <1> SUFFICES ASSUME IInv, [Next]_vars, pc = "update", pc' = "gate",
                      NEW d \in Drivers \ ObserveOnly,
                      health'[d].cfault, ~ health'[d].offline, steady[d]
               PROVE  told'[d] = "default"
    OBVIOUS
  <1>1. Update
    BY DEF Next, Tick, vars, WatchdogScan, Gate, TickDone, SendCommand, StandDown, RecordDriverSuccess,
       RecordDriverError, SetDriverDeviceFault, Remove, Add, ReadingAges, TrialAges,
       RetryIntervalPasses, LateOutcome, SiteMeter, TickStalls, TickExit
  <1>2. Types /\ Local(d)
    BY IInvParts DEF Sound
  <1>3. UpdateOf(d)
    BY <1>1, <1>2, UpdateFacts
  <1>4. health[d] \in Health /\ health'[d] = [health[d] EXCEPT !.cfault = @ /\ ~ Reopens(d)]
    BY <1>2, <1>3 DEF UpdateOf, Types
  <1>5. health[d].cfault /\ ~ Reopens(d) /\ ~ health[d].offline
    BY <1>4 DEF Health
  <1>6. health[d].known /\ ~ (Reopens(d) /\ IsBack(d))
    BY <1>2, <1>4, <1>5 DEF Local, IKnown, NoHealth
  <1>7. CASE d \in defaulted
    BY <1>2, <1>3, <1>7 DEF Local, ILatch, UpdateOf
  <1>8. CASE d \notin defaulted
    BY <1>3, <1>5, <1>6, <1>8 DEF UpdateOf
  <1> QED
    BY <1>7, <1>8

\* A driver comes back before its retry interval only after an outage.
LEMMA EarlyReturn ==
    IInv /\ [Next]_vars =>
      (pc' = "gate" => \A d \in Drivers :
         rec[d].excluded /\ ~ rec'[d].excluded /\ ~ rec[d].due /\ health[d].known => outage[d])
  <1> SUFFICES ASSUME IInv, [Next]_vars, pc' = "gate", NEW d \in Drivers,
                      rec[d].excluded, ~ rec'[d].excluded, ~ rec[d].due, health[d].known
               PROVE  outage[d]
    OBVIOUS
  <1>1. Types /\ Local(d) /\ \A e \in Drivers : Local(e)
    BY IInvParts DEF Sound
  <1>2. rec \in [Drivers -> Record] /\ health[d] \in Health
    BY <1>1 DEF Types
  <1>3. ASSUME NEW e \in Drivers, NEW a \in Actions, SendCommand(e, a) \/ LateOutcome(e, a)
        PROVE  rec'[d].excluded
    <2>1. CASE rec' = rec
      BY <2>1
    <2>2. CASE \E result \in Results(e) : RecordCommandOutcome(e, a, result)
      <3>1. Good(e, rec'[e]) /\ \A x \in Drivers \ {e} : rec'[x] = rec[x]
        BY <1>1, <2>2, OutcomeFacts
      <3> QED
        BY <3>1 DEF Good
    <2> QED
      BY <2>1, <2>2, <1>3 DEF SendCommand, LateOutcome
  <1>4. ASSUME Update PROVE outage[d]
    <2>1. UpdateOf(d)
      BY <1>1, <1>4, UpdateFacts
    <2>2. Reopens(d)
      <3> SUFFICES ASSUME ~ Reopens(d) PROVE FALSE
        OBVIOUS
      <3>1. rec'[d] = [rec[d] EXCEPT !.outage = IF rec[d].excluded THEN IsOutage(d) ELSE @]
        BY <2>1 DEF UpdateOf
      <3> QED
        BY <3>1, <1>2 DEF Record
    <2>3. IsOutage(d) /\ ~ Unreachable(health[d])
      BY <2>2 DEF Reopens, IsBack
    <2>4. rec[d].outage
      BY <2>3, <1>2 DEF IsOutage, Unreachable, Health
    <2> QED
      BY <2>4, <1>1 DEF Local, IOutage
  <1>5. CASE Update
    BY <1>4, <1>5
  <1>6. CASE \E e \in Drivers, a \in Actions : SendCommand(e, a) \/ LateOutcome(e, a)
    BY <1>3, <1>6
  <1>7. CASE \E e \in Drivers :
                \/ RecordDriverSuccess(e) \/ Remove(e) \/ TrialAges(e) \/ RetryIntervalPasses(e)
    <2>1. PICK e \in Drivers :
                \/ RecordDriverSuccess(e) \/ Remove(e) \/ TrialAges(e) \/ RetryIntervalPasses(e)
      BY <1>7
    <2>2. \/ rec' = [rec EXCEPT ![e].read = rec[e].excluded]
          \/ rec' = [rec EXCEPT ![e].read = FALSE]
          \/ rec' = [rec EXCEPT ![e].trial = FALSE]
          \/ rec' = [rec EXCEPT ![e].due = TRUE, ![e].trial = FALSE]
      BY <2>1 DEF RecordDriverSuccess, Remove, TrialAges, RetryIntervalPasses
    <2>3. rec'[d].excluded = rec[d].excluded
      BY <1>2, <2>2 DEF Record
    <2> QED
      BY <2>3
  <1>8. CASE \/ WatchdogScan \/ Gate \/ TickDone \/ SiteMeter \/ TickStalls \/ UNCHANGED vars
             \/ \E e \in Drivers : \/ StandDown(e) \/ RecordDriverError(e) \/ Add(e) \/ ReadingAges(e)
                                   \/ \E f \in BOOLEAN : SetDriverDeviceFault(e, f)
    <2>1. rec' = rec
      BY <1>8 DEF WatchdogScan, Gate, TickDone, SiteMeter, TickStalls, vars, StandDown, RecordDriverError, Add,
                  ReadingAges, SetDriverDeviceFault
    <2> QED
      BY <2>1
  <1>9. CASE TickExit
    BY <1>9 DEF TickExit
  <1> QED
    BY <1>5, <1>6, <1>7, <1>8, <1>9 DEF Next, Tick

(***************************************************************************)
(* driverActuationTracker.update sends every driver that is out of         *)
(* dispatch its default, and lets one back before its retry interval only  *)
(* after an outage.                                                        *)
(***************************************************************************)
THEOREM ExclusionsAreSafe == Spec => ExclusionIsSafe
  <1>1. Spec => ExcludedIsReleased
    BY UpdateReleases, Invariance, PTL DEF Spec, ExcludedIsReleased
  <1>2. Spec => EarlyReturnNeedsAnOutage
    BY EarlyReturn, Invariance, PTL DEF Spec, EarlyReturnNeedsAnOutage
  <1> QED
    BY <1>1, <1>2 DEF ExclusionIsSafe

=============================================================================
