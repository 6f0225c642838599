--------------------------- MODULE ManualHoldProofs ---------------------------
(***************************************************************************)
(* Safety of the owner's manual choice at a charger for every set of       *)
(* chargers and every number of cars, requests, reconnects, moves, refused *)
(* saves and restarts: the inductive invariant IInv, and the properties of *)
(* ManualHold that follow from it.                                         *)
(***************************************************************************)
EXTENDS ManualHold, FiniteSetTheorems, TLAPS

\* At most one charger has a record.
Single ==
    \A c, d \in Chargers : disk.records[c] # NoRecord /\ disk.records[d] # NoRecord => c = d

\* What a restart would find is what was committed last.
IKept ==
    /\ kept = IF disk.marker # "none" THEN disk.marker
              ELSE IF disk.binding # None THEN disk.records[disk.binding].kind
              ELSE IF disk.legacy = "hold" /\ ~ disk.clearing THEN "pause" ELSE "clear"
    /\ disk.binding # None => disk.records[disk.binding] # NoRecord /\ disk.legacy = "retired"
    /\ disk.binding = None => \A c \in Chargers : disk.records[c] = NoRecord
    /\ disk.clearing => disk.legacy = "hold"
    /\ \A c \in Chargers : disk.records[c].kind = "absent" => disk.records[c] = NoRecord

\* Until the saved choice is restored nothing else is on its way.
IRead ==
    restored # "done" =>
        /\ job = NoIntent /\ pend = "none" /\ api.pc = "idle"
        /\ want = kept /\ ~ stray /\ ~ proven.here /\ hold \in {"none", "pause"}

\* What is due to be saved is saved or still on its way, unless a request is about to
\* save it.
ISaved ==
    /\ api.pc = "placed" /\ api.saves => ~ stray
    /\ Single /\ ~ (api.pc = "placed" /\ api.saves) =>
         /\ kept # Due => pend = Due \/ job.kind = Due
         /\ job # NoIntent /\ job.kind # Due => pend = Due
         /\ pend \in {"none", Due}

\* The hold is the choice.
IChoice ==
    /\ hold \in Timed => want = "clear"
    /\ restored = "done" /\ Single =>
         /\ hold = "start" => want = "start"
         /\ want # "clear" => hold # "none"

\* A session comes with an identity.
IProof == /\ lp.dev = None => lp.sess = 0
          /\ bind.dev = None => bind.sess = 0

\* The hold is bound to what was proven of the start.
IBound ==
    hold = "start" /\ proven.here =>
        /\ bind.known
        /\ proven.dev # None => bind.dev = proven.dev
        /\ proven.sess # 0 => bind.sess = proven.sess

\* What is sent is sent under the proof the hold is bound to.
ISends ==
    tick.pc \in {"dispatch", "drop"} /\ tick.cable = "in" =>
        /\ lp.dev # None => bind.dev = lp.dev
        /\ lp.sess # 0 => bind.sess = lp.sess

-----------------------------------------------------------------------------
(* Types *)

Conns == 0 .. MaxEvents + 1
Lps == [dev : Identities, sess : Sessions, plugged : BOOLEAN, conn : Conns]
Binds == [dev : Identities, sess : Sessions, conn : Conns, lost : BOOLEAN, known : BOOLEAN]
Ticks == [pc : {"idle", "grace", "rebind", "restore", "drop", "dispatch"},
          cable : {"none", "in", "out", "unknown"}, fresh : BOOLEAN]
Apis == [pc : {"idle", "placed"}, saves : BOOLEAN]
Disks == [records : [Chargers -> Records], binding : Identities,
          legacy : {"absent", "hold", "retired"}, clearing : BOOLEAN,
          marker : Choices \cup {"none"}]
Proofs == [dev : Identities, sess : Sessions, here : BOOLEAN]
Uses == [plugs : 0 .. MaxCar, events : 0 .. MaxEvents]

\* The variables whose values are records.
Shapes ==
    /\ lp \in Lps /\ bind \in Binds /\ tick \in Ticks /\ api \in Apis
    /\ disk \in Disks /\ job \in Intents /\ proven \in Proofs /\ used \in Uses

\* The others.
Values ==
    /\ at \in Chargers /\ car \in Sessions /\ conn \in Conns
    /\ moved \subseteq {"session", "config"}
    /\ pend \in Choices \cup {"none"} /\ hold \in Holds
    /\ restored \in {"unseen", "pending", "done"}
    /\ unplugged \in {"no", "short", "long"}
    /\ kept \in Choices /\ want \in Choices /\ stray \in BOOLEAN
    /\ bind.lost => bind.dev # None

\* The counters bound what they count.
Counts == car <= used.plugs /\ conn <= used.events + 1

\* The inductive invariant.
IInv ==
    /\ Shapes /\ Values /\ Counts
    /\ IKept /\ IRead /\ ISaved /\ IChoice /\ IProof /\ IBound /\ ISends

USE DEF world, manager, controller, store

-----------------------------------------------------------------------------
(* Lemmas about the model's operators *)

\* Without two records, the loadpoint was not moved.
LEMMA NotMoved ==
    ASSUME ~ Moved
    PROVE  Single
  <1> DEFINE S == {c \in Chargers : disk.records[c] # NoRecord}
  <1> SUFFICES ASSUME NEW c \in S, NEW d \in S, c # d
               PROVE  FALSE
    BY DEF Single
  <1>1. IsFiniteSet(S) /\ {c, d} \subseteq S
    BY HoldAssumption, FS_Subset
  <1>2. Cardinality({c, d}) = 2
    <2>1. IsFiniteSet({c}) /\ Cardinality({c}) = 1
      BY FS_Singleton
    <2>2. Cardinality({c} \cup {d}) = Cardinality({c}) + 1
      BY <2>1, FS_AddElement
    <2>3. {c} \cup {d} = {c, d}
      OBVIOUS
    <2> QED
      BY <2>1, <2>2, <2>3
  <1>3. Cardinality({c, d}) <= Cardinality(S) /\ Cardinality(S) \in Nat
    BY <1>1, FS_Subset, FS_CardinalityType
  <1> QED
    BY <1>2, <1>3 DEF Moved

\* What a save of a choice leaves: the choice waits, or it is the one kept.
Flushed(choice) ==
    /\ job' \in Intents /\ (job' = job \/ job'.kind = choice)
    /\ pend' \in {"none", choice}
    /\ pend' = "none" => kept = choice /\ job' = NoIntent
    /\ used' \in Uses /\ used'.plugs = used.plugs /\ used.events <= used'.events

\* flushManualHold drops the pending choice only when it is on the disk.
LEMMA FlushIs ==
    ASSUME Shapes, IKept, NEW choice \in Choices, NEW dev \in Identities, NEW sess \in Sessions,
           Flush(choice, dev, sess)
    PROVE  Flushed(choice)
  <1> DEFINE intent == IntentFor(choice, dev, sess)
  <1>1. intent \in Intents /\ intent.kind = choice /\ intent.dev = dev
    BY HoldAssumption DEF IntentFor, Intents, Sessions
  <1> HIDE DEF intent
  <1>2. used' \in Uses /\ used'.plugs = used.plugs /\ used.events <= used'.events
    <2>1. used' = used \/ (used.events < MaxEvents
                            /\ used' = [plugs |-> used.plugs, events |-> used.events + 1])
      BY DEF Flush, Saves, Event, Shapes, Uses
    <2> QED
      BY <2>1, HoldAssumption DEF Shapes, Uses
  <1>3. job' = intent \/ job' = job
    BY DEF Flush, Saves, intent
  <1>4. Stored(intent) => job' = NoIntent
    BY DEF Flush, Saves, Stored, intent
  <1>5. Stored(intent) /\ dev # None => kept = choice
    BY <1>1 DEF Stored, Applied, IKept, Shapes, Disks, Identities
  <1>6. pend' = Bound(choice, intent)
    BY DEF Flush, intent
  <1>7. pend' = "none" => Stored(intent) /\ dev # None
    BY <1>1, <1>6 DEF Bound, Choices
  <1>8. pend' \in {"none", choice}
    BY <1>6 DEF Bound
  <1> QED
    BY <1>1, <1>2, <1>3, <1>4, <1>5, <1>7, <1>8 DEF Flushed, Shapes

\* The saved choice as the restore reads it.
LEMMA RestoredIs ==
    ASSUME IInv, restored # "done"
    PROVE  /\ Restored.hold \in {"none", "pause", "start"}
           /\ Restored.status = "pending" => Restored.hold = "pause"
           /\ Restored.status = "cleared" => want = "clear"
           /\ Restored.hold = "start" => Restored.status = "restored"
           /\ Single /\ Restored.status \notin {"pending", "waiting"} =>
                /\ Restored.hold = "start" => want = "start"
                /\ want # "clear" => Restored.hold # "none"
  <1>1. job = NoIntent /\ want = kept
    BY DEF IInv, IRead
  <1>2. /\ Marker = disk.marker /\ Binding = disk.binding
        /\ Legacy <=> disk.legacy = "hold"
        /\ Clearing <=> disk.clearing
        /\ \A c : Record(c) = disk.records[c]
    BY <1>1 DEF Marker, Binding, Legacy, Clearing, Record, Hides
  <1>3. SavedElsewhere <=> \/ disk.binding # None /\ disk.records[disk.binding].kind # "clear"
                           \/ disk.legacy = "hold"
    BY <1>2 DEF SavedElsewhere
  <1>4. CASE disk.marker # "none" \/ disk.clearing
    BY <1>1, <1>2, <1>4 DEF IInv, Shapes, Disks, Choices, IKept, Restored, Answer
  <1>5. CASE disk.marker = "none" /\ ~ disk.clearing /\ lp.dev = None
    BY <1>1, <1>2, <1>5 DEF IInv, Restored, Answer
  <1>6. CASE disk.marker = "none" /\ ~ disk.clearing /\ lp.dev # None
    <2> DEFINE r == disk.records[lp.dev]
    <2>1. r \in Records /\ lp.dev \in Chargers
      BY <1>6 DEF IInv, Shapes, Disks, Lps, Identities
    <2>2. r.kind = "absent" /\ ~ SavedElsewhere => want = "clear"
      BY <1>1, <1>3, <1>6 DEF IInv, IKept
    <2>3. r.kind # "absent" /\ Single => want = r.kind
      BY <1>1, <1>6, <2>1 DEF IInv, IKept, Single, NoRecord, Shapes, Disks, Identities
    <2>4. Restored = IF r.kind = "absent"
                     THEN IF SavedElsewhere THEN Answer("pause", "unconfirmed")
                          ELSE Answer("none", "none")
                     ELSE IF r.kind = "clear" THEN Answer("none", "none")
                     ELSE IF r.kind = "pause" THEN Answer("pause", "restored")
                     ELSE IF ProvesStart(r) THEN Answer("start", "restored")
                     ELSE Answer("pause", IF lp.sess = 0 THEN "pending" ELSE "unconfirmed")
      BY <1>2, <1>6, <2>1 DEF Restored, ProvesStart, Records
    <2> QED
      BY <2>1, <2>2, <2>3, <2>4 DEF Answer, ProvesStart, Records
  <1> QED
    BY <1>4, <1>5, <1>6

\* Records stay: with one of them after a write, there was one before.
LEMMA SingleBefore ==
    ASSUME IInv, Commit, Single'
    PROVE  Single
  <1>1. disk' = Applied(job) /\ job \in Intents /\ job # NoIntent
    BY DEF Commit, IInv, Shapes
  <1>2. \A c \in Chargers : disk.records[c] # NoRecord => disk'.records[c] # NoRecord
    BY <1>1 DEF Applied, IInv, Shapes, Disks, NoRecord, Intents, Choices, Identities
  <1> QED
    BY <1>2 DEF Single

\* restoreManualHoldForSession binds the hold to what the reading proves, and loses
\* nothing that was proven before unless the binding changed.
LEMMA RebindIs ==
    ASSUME IInv
    PROVE  /\ Rebound \in Binds /\ (Rebound.lost => Rebound.dev # None)
           /\ Rebound.dev = None => Rebound.sess = 0
           /\ lp.dev # None => Rebound.dev = lp.dev
           /\ lp.sess # 0 => Rebound.sess = lp.sess
           /\ bind.known /\ ~ Changed =>
                /\ Rebound.known
                /\ bind.dev # None => Rebound.dev = bind.dev
                /\ bind.sess # 0 => Rebound.sess = bind.sess
  <1>1. lp \in Lps /\ bind \in Binds /\ IProof /\ (bind.lost => bind.dev # None)
    BY DEF IInv, Shapes, Values
  <1>2. CASE KeepsProof
    <2>1. /\ Rebound \in Binds /\ Rebound.dev = bind.dev /\ Rebound.sess = bind.sess
          /\ Rebound.known = bind.known
      BY <1>1, <1>2 DEF Rebound, Binds
    <2> QED
      BY <1>1, <1>2, <2>1 DEF KeepsProof, IProof
  <1>3. CASE ~ KeepsProof /\ bind.dev # None /\ lp.dev # None /\ ~ Changed /\ lp.sess = 0
    <2>1. Rebound = [dev |-> lp.dev, sess |-> bind.sess, conn |-> lp.conn, lost |-> FALSE,
                     known |-> TRUE]
      BY <1>3 DEF Rebound, Current
    <2> QED
      BY <1>1, <1>3, <2>1 DEF Lps, Binds, Changed, OtherCharger
  <1>4. CASE ~ KeepsProof /\ ~ (bind.dev # None /\ lp.dev # None /\ ~ Changed /\ lp.sess = 0)
    <2>1. Rebound = [dev |-> lp.dev, sess |-> lp.sess, conn |-> lp.conn, lost |-> FALSE,
                     known |-> TRUE]
      BY <1>4, Zenon DEF Rebound, Current
    <2>2. Rebound \in Binds
      BY <1>1, <2>1 DEF Lps, Binds
    <2>3. bind.known /\ ~ Changed => /\ bind.dev # None => lp.dev = bind.dev
                                     /\ bind.sess # 0 => lp.sess = bind.sess
      BY <1>1, <1>4 DEF Changed, KeepsProof, OtherCharger, OtherSession, IProof
    <2> QED
      BY <1>1, <2>1, <2>2, <2>3 DEF IProof
  <1> QED
    BY <1>2, <1>3, <1>4

\* A step that only moves the tick keeps the invariant when it keeps what is sent.
LEMMA Unmoved ==
    ASSUME IInv, tick' \in Ticks, ISends',
           UNCHANGED <<at, car, conn, lp, moved, pend, hold, restored, bind, unplugged, api, disk,
                       job, kept, want, proven, stray, used>>
    PROVE  IInv'
  <1>1. Shapes' /\ Values' /\ Counts'
    BY DEF IInv, Shapes, Values, Counts
  <1>2. IKept' /\ IRead' /\ ISaved' /\ IChoice'
    BY DEF IInv, IKept, IRead, ISaved, Due, IChoice, Single
  <1>3. IProof' /\ IBound'
    BY DEF IInv, IProof, IBound
  <1> QED
    BY <1>1, <1>2, <1>3 DEF IInv


-----------------------------------------------------------------------------
(* One lemma per step.  Each first says what the step changes, then takes    *)
(* the parts of the invariant one by one.                                    *)

\* A car is plugged in.
LEMMA PlugInStep ==
    ASSUME IInv, PlugIn
    PROVE  IInv'
  <1> USE HoldAssumption DEF IInv
  <1>1. /\ used.plugs < MaxCar /\ used' = [plugs |-> used.plugs + 1, events |-> used.events]
        /\ car' = used.plugs + 1
        /\ UNCHANGED <<at, conn, lp, moved, pend, hold, restored, bind, unplugged, tick, api,
                       disk, job, kept, want, proven, stray>>
    BY DEF PlugIn, Shapes, Uses
  <1>2. Single' <=> Single
    BY <1>1 DEF Single
  <1>3. Shapes'
    BY <1>1 DEF Shapes, Uses
  <1>4. Values'
    BY <1>1, <1>3 DEF Values, Shapes, Sessions, Uses
  <1>5. Counts'
    BY <1>1 DEF Counts, Values, Shapes, Uses, Sessions, Conns
  <1>6. IKept'
    BY <1>1 DEF IKept
  <1>7. IRead'
    BY <1>1 DEF IRead
  <1>8. ISaved'
    BY <1>1, <1>2 DEF ISaved, Due
  <1>9. IChoice'
    BY <1>1, <1>2 DEF IChoice, Timed
  <1>10. IProof'
    BY <1>1 DEF IProof
  <1>11. IBound'
    BY <1>1 DEF IBound
  <1>12. ISends'
    BY <1>1 DEF ISends
  <1> QED
    BY <1>3, <1>4, <1>5, <1>6, <1>7, <1>8, <1>9, <1>10, <1>11, <1>12, Zenon

\* The car leaves.
LEMMA UnplugStep ==
    ASSUME IInv, Unplug
    PROVE  IInv'
  <1> USE HoldAssumption DEF IInv
  <1>1. /\ car' = 0
        /\ UNCHANGED <<at, conn, lp, moved, pend, hold, restored, bind, unplugged, tick, api,
                       disk, job, kept, want, proven, stray, used>>
    BY DEF Unplug
  <1>2. Single' <=> Single
    BY <1>1 DEF Single
  <1>3. Shapes'
    BY <1>1 DEF Shapes
  <1>4. Values'
    BY <1>1, <1>3 DEF Values, Shapes, Sessions
  <1>5. Counts'
    BY <1>1 DEF Counts, Values, Shapes, Uses, Sessions, Conns
  <1>6. IKept'
    BY <1>1 DEF IKept
  <1>7. IRead'
    BY <1>1 DEF IRead
  <1>8. ISaved'
    BY <1>1, <1>2 DEF ISaved, Due
  <1>9. IChoice'
    BY <1>1, <1>2 DEF IChoice, Timed
  <1>10. IProof'
    BY <1>1 DEF IProof
  <1>11. IBound'
    BY <1>1 DEF IBound
  <1>12. ISends'
    BY <1>1 DEF ISends
  <1> QED
    BY <1>3, <1>4, <1>5, <1>6, <1>7, <1>8, <1>9, <1>10, <1>11, <1>12, Zenon

\* The charger's socket connects anew.
LEMMA ReconnectStep ==
    ASSUME IInv, Reconnect
    PROVE  IInv'
  <1> USE HoldAssumption DEF IInv
  <1>1. /\ used.events < MaxEvents /\ used' = [plugs |-> used.plugs, events |-> used.events + 1]
        /\ conn' = conn + 1
        /\ UNCHANGED <<at, car, lp, moved, pend, hold, restored, bind, unplugged, tick, api,
                       disk, job, kept, want, proven, stray>>
    BY DEF Reconnect, Event, Shapes, Uses
  <1>2. Single' <=> Single
    BY <1>1 DEF Single
  <1>3. Shapes'
    BY <1>1 DEF Shapes, Uses
  <1>4. Values'
    BY <1>1, <1>3 DEF Values, Shapes, Conns, Counts, Uses
  <1>5. Counts'
    BY <1>1 DEF Counts, Values, Shapes, Uses, Sessions, Conns
  <1>6. IKept'
    BY <1>1 DEF IKept
  <1>7. IRead'
    BY <1>1 DEF IRead
  <1>8. ISaved'
    BY <1>1, <1>2 DEF ISaved, Due
  <1>9. IChoice'
    BY <1>1, <1>2 DEF IChoice, Timed
  <1>10. IProof'
    BY <1>1 DEF IProof
  <1>11. IBound'
    BY <1>1 DEF IBound
  <1>12. ISends'
    BY <1>1 DEF ISends
  <1> QED
    BY <1>3, <1>4, <1>5, <1>6, <1>7, <1>8, <1>9, <1>10, <1>11, <1>12, Zenon

\* Another charger answers.
LEMMA SwapStep ==
    ASSUME IInv, Swap
    PROVE  IInv'
  <1> USE HoldAssumption DEF IInv
  <1>1. /\ used.events < MaxEvents /\ used' = [plugs |-> used.plugs, events |-> used.events + 1]
        /\ at' \in Chargers /\ car' = 0
        /\ UNCHANGED <<conn, lp, moved, pend, hold, restored, bind, unplugged, tick, api,
                       disk, job, kept, want, proven, stray>>
    BY DEF Swap, Event, Shapes, Uses
  <1>2. Single' <=> Single
    BY <1>1 DEF Single
  <1>3. Shapes'
    BY <1>1 DEF Shapes, Uses
  <1>4. Values'
    BY <1>1, <1>3 DEF Values, Shapes, Sessions
  <1>5. Counts'
    BY <1>1 DEF Counts, Values, Shapes, Uses, Sessions, Conns
  <1>6. IKept'
    BY <1>1 DEF IKept
  <1>7. IRead'
    BY <1>1 DEF IRead
  <1>8. ISaved'
    BY <1>1, <1>2 DEF ISaved, Due
  <1>9. IChoice'
    BY <1>1, <1>2 DEF IChoice, Timed
  <1>10. IProof'
    BY <1>1 DEF IProof
  <1>11. IBound'
    BY <1>1 DEF IBound
  <1>12. ISends'
    BY <1>1 DEF ISends
  <1> QED
    BY <1>3, <1>4, <1>5, <1>6, <1>7, <1>8, <1>9, <1>10, <1>11, <1>12, Zenon

\* The loadpoint is loaded with another driver name.
LEMMA ReloadStep ==
    ASSUME IInv, Reload
    PROVE  IInv'
  <1> USE HoldAssumption DEF IInv
  <1>1. /\ used.events < MaxEvents /\ used' = [plugs |-> used.plugs, events |-> used.events + 1]
        /\ at' \in Chargers /\ car' \in {0, car}
        /\ lp' = NewRuntime /\ moved' = {"session", "config"}
        /\ UNCHANGED <<conn, pend, hold, restored, bind, unplugged, tick, api, disk, job,
                       kept, want, proven, stray>>
    BY DEF Reload, Event, Shapes, Uses
  <1>2. Single' <=> Single
    BY <1>1 DEF Single
  <1>3. Shapes'
    BY <1>1 DEF Shapes, Uses, NewRuntime, Lps, Identities, Sessions, Conns
  <1>4. Values'
    BY <1>1, <1>3 DEF Values, Shapes, Sessions
  <1>5. Counts'
    BY <1>1 DEF Counts, Values, Shapes, Uses, Sessions, Conns
  <1>6. IKept'
    BY <1>1 DEF IKept
  <1>7. IRead'
    BY <1>1 DEF IRead
  <1>8. ISaved'
    BY <1>1, <1>2 DEF ISaved, Due
  <1>9. IChoice'
    BY <1>1, <1>2 DEF IChoice, Timed
  <1>10. IProof'
    BY <1>1 DEF IProof, NewRuntime
  <1>11. IBound'
    BY <1>1 DEF IBound
  <1>12. ISends'
    BY <1>1 DEF ISends, NewRuntime
  <1> QED
    BY <1>3, <1>4, <1>5, <1>6, <1>7, <1>8, <1>9, <1>10, <1>11, <1>12, Zenon

\* UnplugGrace passes.
LEMMA GraceEndsStep ==
    ASSUME IInv, GraceEnds
    PROVE  IInv'
  <1> USE HoldAssumption DEF IInv
  <1>1. /\ unplugged' = "long"
        /\ UNCHANGED <<at, car, conn, lp, moved, pend, hold, restored, bind, tick, api, disk,
                       job, kept, want, proven, stray, used>>
    BY DEF GraceEnds
  <1>2. Single' <=> Single
    BY <1>1 DEF Single
  <1>3. Shapes'
    BY <1>1 DEF Shapes
  <1>4. Values'
    BY <1>1, <1>3 DEF Values, Shapes
  <1>5. Counts'
    BY <1>1 DEF Counts, Values, Shapes, Uses, Sessions, Conns
  <1>6. IKept'
    BY <1>1 DEF IKept
  <1>7. IRead'
    BY <1>1 DEF IRead
  <1>8. ISaved'
    BY <1>1, <1>2 DEF ISaved, Due
  <1>9. IChoice'
    BY <1>1, <1>2 DEF IChoice, Timed
  <1>10. IProof'
    BY <1>1 DEF IProof
  <1>11. IBound'
    BY <1>1 DEF IBound
  <1>12. ISends'
    BY <1>1 DEF ISends
  <1> QED
    BY <1>3, <1>4, <1>5, <1>6, <1>7, <1>8, <1>9, <1>10, <1>11, <1>12, Zenon

\* A timed hold is over.
LEMMA TimedEndsStep ==
    ASSUME IInv, TimedEnds
    PROVE  IInv'
  <1> USE HoldAssumption DEF IInv
  <1>1. /\ hold \in Timed /\ hold' = "none"
        /\ UNCHANGED <<at, car, conn, lp, moved, pend, restored, bind, unplugged, tick, api,
                       disk, job, kept, want, proven, stray, used>>
    BY DEF TimedEnds
  <1>2. Single' <=> Single
    BY <1>1 DEF Single
  <1>3. Shapes'
    BY <1>1 DEF Shapes
  <1>4. Values'
    BY <1>1, <1>3 DEF Values, Shapes, Holds, Timed
  <1>5. Counts'
    BY <1>1 DEF Counts, Values, Shapes, Uses, Sessions, Conns
  <1>6. IKept'
    BY <1>1 DEF IKept
  <1>7. IRead'
    BY <1>1 DEF IRead
  <1>8. ISaved'
    BY <1>1, <1>2 DEF ISaved, Due
  <1>9. IChoice'
    BY <1>1, <1>2 DEF IChoice, Timed
  <1>10. IProof'
    BY <1>1 DEF IProof
  <1>11. IBound'
    BY <1>1 DEF IBound
  <1>12. ISends'
    BY <1>1 DEF ISends
  <1> QED
    BY <1>3, <1>4, <1>5, <1>6, <1>7, <1>8, <1>9, <1>10, <1>11, <1>12, Zenon

\* The process ends and starts from the disk.
LEMMA CrashStep ==
    ASSUME IInv, Crash
    PROVE  IInv'
  <1> USE HoldAssumption DEF IInv
  <1>1. /\ used.events < MaxEvents /\ used' = [plugs |-> used.plugs, events |-> used.events + 1]
        /\ lp' = NewRuntime /\ moved' = {} /\ pend' = "none" /\ hold' = "none"
        /\ restored' = "unseen" /\ bind' = Unbound /\ unplugged' = "no"
        /\ tick' = Resting /\ api' = NoRequest /\ job' = NoIntent /\ want' = kept
        /\ stray' = FALSE
        /\ proven' = [dev |-> proven.dev, sess |-> proven.sess, here |-> FALSE]
        /\ UNCHANGED <<at, car, conn, disk, kept>>
    BY DEF Crash, Proofs, Event, Shapes, Uses
  <1>2. Single' <=> Single
    BY <1>1 DEF Single
  <1>3. Shapes'
    BY <1>1 DEF Shapes, Uses, NewRuntime, Unbound, Resting, NoRequest, Lps, Binds, Ticks,
                Apis, Intents, Proofs, Identities, Sessions, Conns
  <1>4. Values'
    BY <1>1, <1>3 DEF Values, Shapes, Unbound, Holds, Timed
  <1>5. Counts'
    BY <1>1 DEF Counts, Values, Shapes, Uses, Sessions, Conns
  <1>6. IKept'
    BY <1>1 DEF IKept
  <1>7. IRead'
    BY <1>1 DEF IRead, NoRequest
  <1>8. ISaved'
    BY <1>1, <1>2 DEF ISaved, Due, NoIntent, NoRequest
  <1>9. IChoice'
    BY <1>1, <1>2 DEF IChoice, Timed
  <1>10. IProof'
    BY <1>1 DEF IProof, NewRuntime, Unbound
  <1>11. IBound'
    BY <1>1 DEF IBound
  <1>12. ISends'
    BY <1>1 DEF ISends, Resting
  <1> QED
    BY <1>3, <1>4, <1>5, <1>6, <1>7, <1>8, <1>9, <1>10, <1>11, <1>12, Zenon

\* The owner asks for something.
LEMMA RequestStep ==
    ASSUME NEW choice \in Choices \cup Timed, IInv, Request(choice)
    PROVE  IInv'
  <1> USE HoldAssumption DEF IInv
  <1>1. /\ api.pc = "idle"
        /\ used.events < MaxEvents /\ used' = [plugs |-> used.plugs, events |-> used.events + 1]
        /\ bind' = Current /\ moved' = {} /\ restored' = "done"
        /\ hold' = IF choice = "clear" THEN "none" ELSE choice
        /\ want' = IF choice \in Timed THEN "clear" ELSE choice
        /\ stray' = (stray /\ ~ api'.saves)
        /\ api' = [pc |-> "placed",
                  saves |-> choice # "clear" \/ hold # "none" \/ restored # "done"]
        /\ tick' = [pc |-> tick.pc, cable |-> tick.cable, fresh |-> FALSE]
        /\ proven' = IF choice = "start" THEN [dev |-> lp.dev, sess |-> lp.sess, here |-> TRUE]
                     ELSE Nothing
        /\ UNCHANGED <<at, car, conn, lp, pend, unplugged, disk, job, kept>>
    BY DEF Request, MarkManualExplicit, Ticks, Event, Shapes, Uses
  <1>2. Single' <=> Single
    BY <1>1 DEF Single
  <1>3. Shapes'
    BY <1>1 DEF Shapes, Current, Nothing, Lps, Binds, Ticks, Apis, Proofs, Uses, Identities,
                Sessions
  <1>4. Values'
    BY <1>1, <1>3 DEF Values, Shapes, Current, Choices, Holds, Timed
  <1>5. Counts'
    BY <1>1 DEF Counts, Values, Shapes, Uses, Sessions, Conns
  <1>6. IKept'
    BY <1>1 DEF IKept
  <1>7. IRead'
    BY <1>1 DEF IRead
  <1>8. ISaved'
    BY <1>1, <1>2 DEF ISaved, Due, IChoice, Choices
  <1>9. IChoice'
    BY <1>1, <1>2 DEF IChoice, Choices, Timed
  <1>10. IProof'
    BY <1>1 DEF IProof, Current
  <1>11. IBound'
    BY <1>1 DEF IBound, Current, Nothing, Choices
  <1>12. ISends'
    BY <1>1 DEF ISends, Current
  <1> QED
    BY <1>3, <1>4, <1>5, <1>6, <1>7, <1>8, <1>9, <1>10, <1>11, <1>12, Zenon

\* The request's choice is saved.
LEMMA SaveStep ==
    ASSUME IInv, Save
    PROVE  IInv'
  <1> USE HoldAssumption DEF IInv
  <1>1. /\ api.pc = "placed" /\ api' = NoRequest
        /\ (api.saves /\ Flushed(want)) \/ (~ api.saves /\ UNCHANGED <<pend, job, used>>)
        /\ UNCHANGED <<at, car, conn, lp, moved, hold, restored, bind, unplugged, tick, disk,
                       kept, want, proven, stray>>
    BY FlushIs DEF Save, Persist, Shapes, Values, Lps
  <1>2. Single' <=> Single
    BY <1>1 DEF Single
  <1>3. Shapes'
    BY <1>1 DEF Shapes, Flushed, NoRequest, Apis
  <1>4. Values'
    BY <1>1, <1>3 DEF Values, Shapes, Flushed, Choices
  <1>5. Counts'
    BY <1>1 DEF Counts, Values, Shapes, Uses, Sessions, Conns, Flushed
  <1>6. IKept'
    BY <1>1 DEF IKept
  <1>7. IRead'
    BY <1>1 DEF IRead, NoRequest, Apis, Shapes
  <1>8. ISaved'
    BY <1>1, <1>2 DEF ISaved, Due, Flushed, NoRequest
  <1>9. IChoice'
    BY <1>1, <1>2 DEF IChoice, Timed
  <1>10. IProof'
    BY <1>1 DEF IProof
  <1>11. IBound'
    BY <1>1 DEF IBound
  <1>12. ISends'
    BY <1>1 DEF ISends
  <1> QED
    BY <1>3, <1>4, <1>5, <1>6, <1>7, <1>8, <1>9, <1>10, <1>11, <1>12, Zenon

\* The tick clears the hold.
LEMMA ClearsStep ==
    ASSUME IInv, TickClears, tick' \in Ticks
    PROVE  IInv'
  <1> USE HoldAssumption DEF IInv
  <1>1. /\ api.pc = "idle"
        /\ bind' = Current /\ moved' = {} /\ restored' = "done"
        /\ hold' = "none" /\ want' = "clear" /\ proven' = Nothing
        /\ \/ Flushed("clear") /\ stray' = FALSE
           \/ (hold = "none" /\ restored = "done" /\ UNCHANGED <<pend, job, stray, used>>)
        /\ tick' \in Ticks
        /\ UNCHANGED <<at, car, conn, lp, unplugged, api, disk, kept>>
    BY FlushIs DEF TickClears, MarkManualExplicit, Persist, Shapes, Lps, Choices
  <1>2. Single' <=> Single
    BY <1>1 DEF Single
  <1>3. Shapes'
    BY <1>1 DEF Shapes, Flushed, Current, Nothing, Lps, Binds, Proofs, Identities, Sessions
  <1>4. Values'
    BY <1>1, <1>3 DEF Values, Shapes, Flushed, Current, Choices, Holds, Timed, Uses
  <1>5. Counts'
    BY <1>1 DEF Counts, Values, Shapes, Uses, Sessions, Conns, Flushed
  <1>6. IKept'
    BY <1>1 DEF IKept
  <1>7. IRead'
    BY <1>1 DEF IRead
  <1>8. ISaved'
    BY <1>1, <1>2 DEF ISaved, Due, Flushed, IChoice
  <1>9. IChoice'
    BY <1>1, <1>2 DEF IChoice, Timed
  <1>10. IProof'
    BY <1>1 DEF IProof, Current
  <1>11. IBound'
    BY <1>1 DEF IBound, Current, Nothing
  <1>12. ISends'
    BY <1>1 DEF ISends, Current
  <1> QED
    BY <1>3, <1>4, <1>5, <1>6, <1>7, <1>8, <1>9, <1>10, <1>11, <1>12, Zenon

\* The charger's state is unknown.
LEMMA ObserveUnknownStep ==
    ASSUME IInv, ObserveUnknown
    PROVE  IInv'
  <1> USE HoldAssumption DEF IInv
  <1>1. /\ tick' = [pc |-> "restore", cable |-> "unknown", fresh |-> FALSE]
        /\ lp' = [dev |-> None, sess |-> 0, plugged |-> lp.plugged, conn |-> Heard]
        /\ moved' \in {moved, moved \cup {"session"}}
        /\ UNCHANGED <<at, car, conn, pend, hold, restored, bind, unplugged, api, disk, job,
                       kept, want, proven, stray, used>>
    BY DEF ObserveUnknown, Shapes, Lps
  <1>2. Single' <=> Single
    BY <1>1 DEF Single
  <1>3. Shapes'
    BY <1>1 DEF Shapes, Ticks, Lps, Heard, Identities, Sessions, Values
  <1>4. Values'
    BY <1>1, <1>3 DEF Values, Shapes
  <1>5. Counts'
    BY <1>1 DEF Counts, Values, Shapes, Uses, Sessions, Conns
  <1>6. IKept'
    BY <1>1 DEF IKept
  <1>7. IRead'
    BY <1>1 DEF IRead
  <1>8. ISaved'
    BY <1>1, <1>2 DEF ISaved, Due
  <1>9. IChoice'
    BY <1>1, <1>2 DEF IChoice, Timed
  <1>10. IProof'
    BY <1>1 DEF IProof
  <1>11. IBound'
    BY <1>1 DEF IBound
  <1>12. ISends'
    BY <1>1 DEF ISends
  <1> QED
    BY <1>3, <1>4, <1>5, <1>6, <1>7, <1>8, <1>9, <1>10, <1>11, <1>12, Zenon

\* The charger is read.
LEMMA ObserveStep ==
    ASSUME IInv, Observe
    PROVE  IInv'
  <1> USE HoldAssumption DEF IInv
  <1>1. PICK r \in Readings :
          /\ tick' = [pc |-> "grace", cable |-> r.cable, fresh |-> FALSE]
          /\ lp' = [dev |-> r.dev, sess |-> r.sess, plugged |-> r.cable = "in", conn |-> Heard]
          /\ moved' \in {moved, moved \cup {"session"}}
          /\ IF pend = "none" THEN UNCHANGED <<pend, job, used>> ELSE Flush(pend, r.dev, r.sess)
    BY DEF Observe
  <1>2. /\ r.cable \in {"in", "out"} /\ r.dev \in {None, at} /\ r.sess \in {0, car}
        /\ r.dev = None => r.sess = 0
    BY DEF Readings
  <1>3. r.dev \in Identities /\ r.sess \in Sessions /\ Heard \in Conns
    BY <1>2 DEF Values, Shapes, Lps, Identities, Sessions, Heard
  <1>4. pend # "none" => Flushed(pend)
    BY <1>1, <1>3, FlushIs DEF Values
  <1>5. tick' \in Ticks /\ lp' \in Lps
    BY <1>1, <1>2, <1>3 DEF Ticks, Lps
  <1>6. /\ tick' \in Ticks /\ tick'.pc = "grace"
        /\ lp' \in Lps /\ (lp'.dev = None => lp'.sess = 0)
        /\ moved' \in {moved, moved \cup {"session"}}
        /\ (pend = "none" /\ UNCHANGED <<pend, job, used>>) \/ (pend # "none" /\ Flushed(pend))
        /\ UNCHANGED <<at, car, conn, hold, restored, bind, unplugged, api, disk, kept, want,
                       proven, stray>>
    BY <1>1, <1>2, <1>4, <1>5 DEF Observe
  <1>7. Single' <=> Single
    BY <1>6 DEF Single
  <1>8. Shapes'
    BY <1>6 DEF Shapes, Flushed
  <1>9. Values'
    BY <1>6, <1>8 DEF Values, Shapes, Flushed
  <1>10. Counts'
    BY <1>6 DEF Counts, Values, Shapes, Uses, Sessions, Conns, Flushed
  <1>11. IKept'
    BY <1>6 DEF IKept
  <1>12. IRead'
    BY <1>6 DEF IRead
  <1>13. ISaved'
    BY <1>6, <1>7 DEF ISaved, Due, Flushed, IRead
  <1>14. IChoice'
    BY <1>6, <1>7 DEF IChoice, Timed
  <1>15. IProof'
    BY <1>6 DEF IProof
  <1>16. IBound'
    BY <1>6 DEF IBound
  <1>17. ISends'
    BY <1>6 DEF ISends
  <1> QED
    BY <1>8, <1>9, <1>10, <1>11, <1>12, <1>13, <1>14, <1>15, <1>16, <1>17, Zenon

\* The charger says the cable is out.
LEMMA CableOutStep ==
    ASSUME IInv, CableOut
    PROVE  IInv'
  <1> USE HoldAssumption DEF IInv
  <1>1. /\ unplugged' \in {"short", unplugged}
        /\ tick' = [pc |-> tick'.pc, cable |-> "out", fresh |-> tick.fresh]
        /\ tick'.pc \in {"dispatch", "restore"}
        /\ UNCHANGED <<at, car, conn, lp, moved, pend, hold, restored, bind, api, disk, job,
                       kept, want, proven, stray, used>>
    BY DEF CableOut, Shapes, Ticks
  <1>2. Single' <=> Single
    BY <1>1 DEF Single
  <1>3. Shapes'
    BY <1>1 DEF Shapes, Ticks
  <1>4. Values'
    BY <1>1, <1>3 DEF Values, Shapes
  <1>5. Counts'
    BY <1>1 DEF Counts, Values, Shapes, Uses, Sessions, Conns
  <1>6. IKept'
    BY <1>1 DEF IKept
  <1>7. IRead'
    BY <1>1 DEF IRead
  <1>8. ISaved'
    BY <1>1, <1>2 DEF ISaved, Due
  <1>9. IChoice'
    BY <1>1, <1>2 DEF IChoice, Timed
  <1>10. IProof'
    BY <1>1 DEF IProof
  <1>11. IBound'
    BY <1>1 DEF IBound
  <1>12. ISends'
    BY <1>1 DEF ISends
  <1> QED
    BY <1>3, <1>4, <1>5, <1>6, <1>7, <1>8, <1>9, <1>10, <1>11, <1>12, Zenon

\* rebindAfterUnplug.
LEMMA CableBackStep ==
    ASSUME IInv, CableBack
    PROVE  IInv'
  <1> USE HoldAssumption DEF IInv
  <1>1. ASSUME NEW sess \in Sessions
        PROVE  [dev |-> lp.dev, sess |-> sess, conn |-> lp.conn, lost |-> FALSE,
                known |-> TRUE] \in Binds
    BY DEF Shapes, Lps, Binds
  <1>2. (IF lp.sess = 0 THEN bind.sess ELSE lp.sess) \in Sessions
    BY DEF Shapes, Lps, Binds
  <1>3. /\ unplugged' = "no"
        /\ tick' = [pc |-> tick'.pc, cable |-> "in", fresh |-> tick.fresh]
        /\ tick'.pc \in {"rebind", "restore"}
        /\ moved' \in {{}, moved}
        /\ \/ bind' = bind
           \/ /\ ~ (OtherCharger \/ OtherSession) /\ lp.dev # None
              /\ bind' = [dev |-> lp.dev, sess |-> IF lp.sess = 0 THEN bind.sess ELSE lp.sess,
                          conn |-> lp.conn, lost |-> FALSE, known |-> TRUE]
        /\ UNCHANGED <<at, car, conn, lp, pend, hold, restored, api, disk, job, kept, want,
                       proven, stray, used>>
    BY DEF CableBack, Current, Shapes, Ticks
  <1>4. Single' <=> Single
    BY <1>3 DEF Single
  <1>5. Shapes'
    BY <1>3, <1>1, <1>2 DEF Shapes, Ticks
  <1>6. Values'
    BY <1>3, <1>5 DEF Values, Shapes
  <1>7. Counts'
    BY <1>3 DEF Counts, Values, Shapes, Uses, Sessions, Conns
  <1>8. IKept'
    BY <1>3 DEF IKept
  <1>9. IRead'
    BY <1>3 DEF IRead
  <1>10. ISaved'
    BY <1>3, <1>4 DEF ISaved, Due
  <1>11. IChoice'
    BY <1>3, <1>4 DEF IChoice, Timed
  <1>12. IProof'
    BY <1>3 DEF IProof
  <1>13. IBound'
    BY <1>3 DEF IBound, OtherCharger, OtherSession, IProof
  <1>14. ISends'
    BY <1>3 DEF ISends
  <1> QED
    BY <1>5, <1>6, <1>7, <1>8, <1>9, <1>10, <1>11, <1>12, <1>13, <1>14, Zenon

\* The hold is looked at again.
LEMMA ReleaseStep ==
    ASSUME IInv, Release
    PROVE  IInv'
  <1> USE HoldAssumption DEF IInv
  <1>1. /\ tick.pc = "dispatch" /\ tick.cable = "in"
        /\ tick' = [pc |-> "drop", cable |-> "in", fresh |-> TRUE]
        /\ UNCHANGED <<at, car, conn, lp, moved, pend, hold, restored, bind, unplugged, api,
                       disk, job, kept, want, proven, stray, used>>
    BY DEF Release, Shapes, Ticks
  <1>2. Single' <=> Single
    BY <1>1 DEF Single
  <1>3. Shapes'
    BY <1>1 DEF Shapes, Ticks
  <1>4. Values'
    BY <1>1, <1>3 DEF Values, Shapes
  <1>5. Counts'
    BY <1>1 DEF Counts, Values, Shapes, Uses, Sessions, Conns
  <1>6. IKept'
    BY <1>1 DEF IKept
  <1>7. IRead'
    BY <1>1 DEF IRead
  <1>8. ISaved'
    BY <1>1, <1>2 DEF ISaved, Due
  <1>9. IChoice'
    BY <1>1, <1>2 DEF IChoice, Timed
  <1>10. IProof'
    BY <1>1 DEF IProof
  <1>11. IBound'
    BY <1>1 DEF IBound
  <1>12. ISends'
    BY <1>1 DEF ISends
  <1> QED
    BY <1>3, <1>4, <1>5, <1>6, <1>7, <1>8, <1>9, <1>10, <1>11, <1>12, Zenon

\* The hold is sent.
LEMMA DispatchStep ==
    ASSUME IInv, Dispatch
    PROVE  IInv'
  <1> USE HoldAssumption DEF IInv
  <1>1. /\ Learned \in Proofs /\ Learned.here = proven.here
        /\ Learned.dev = IF lp.dev = None THEN proven.dev ELSE lp.dev
        /\ Learned.sess = IF lp.sess = 0 THEN proven.sess ELSE lp.sess
    BY DEF Learned, Shapes, Proofs, Lps
  <1>2. /\ tick.pc = "dispatch" /\ tick.cable = "in" /\ tick' = Resting
        /\ proven' = IF hold = "start" THEN Learned ELSE proven
        /\ UNCHANGED <<at, car, conn, lp, moved, pend, hold, restored, bind, unplugged, api,
                       disk, job, kept, want, stray, used>>
    BY DEF Dispatch, Shapes, Ticks
  <1>3. Single' <=> Single
    BY <1>2 DEF Single
  <1>4. Shapes'
    BY <1>1, <1>2 DEF Shapes, Ticks, Resting
  <1>5. Values'
    BY <1>2, <1>4 DEF Values, Shapes
  <1>6. Counts'
    BY <1>2 DEF Counts, Values, Shapes, Uses, Sessions, Conns
  <1>7. IKept'
    BY <1>2 DEF IKept
  <1>8. IRead'
    BY <1>1, <1>2 DEF IRead
  <1>9. ISaved'
    BY <1>2, <1>3 DEF ISaved, Due
  <1>10. IChoice'
    BY <1>2, <1>3 DEF IChoice, Timed
  <1>11. IProof'
    BY <1>2 DEF IProof
  <1>12. IBound'
    BY <1>1, <1>2 DEF IBound, ISends
  <1>13. ISends'
    BY <1>2 DEF ISends, Resting
  <1> QED
    BY <1>4, <1>5, <1>6, <1>7, <1>8, <1>9, <1>10, <1>11, <1>12, <1>13, Zenon

\* ControlWrites writes the intent.
LEMMA CommitStep ==
    ASSUME IInv, Commit
    PROVE  IInv'
  <1> USE HoldAssumption DEF IInv
  <1>1. /\ job # NoIntent /\ job' = NoIntent /\ disk' = Applied(job) /\ kept' = job.kind
        /\ job.kind \in Choices /\ job.dev \in Identities /\ job.sess \in Sessions
        /\ UNCHANGED <<at, car, conn, lp, moved, pend, hold, restored, bind, unplugged, tick,
                       api, want, proven, stray, used>>
    BY DEF Commit, Shapes, Intents
  <1>2. Shapes'
    BY <1>1 DEF Shapes, Intents, NoIntent, Applied, Disks, Identities, Records, Choices
  <1>3. Values'
    BY <1>1, <1>2 DEF Values, Shapes
  <1>4. Counts'
    BY <1>1 DEF Counts, Values, Shapes, Uses, Sessions, Conns
  <1>5. IKept'
    BY <1>1 DEF IKept, Applied, Shapes, Disks, Identities, Choices, NoRecord, Records
  <1>6. IRead'
    BY <1>1 DEF IRead
  <1>7. ISaved'
    BY <1>1, SingleBefore DEF ISaved, Due, NoIntent
  <1>8. IChoice'
    BY <1>1, SingleBefore DEF IChoice, Timed
  <1>9. IProof'
    BY <1>1 DEF IProof
  <1>10. IBound'
    BY <1>1 DEF IBound
  <1>11. ISends'
    BY <1>1 DEF ISends
  <1> QED
    BY <1>2, <1>3, <1>4, <1>5, <1>6, <1>7, <1>8, <1>9, <1>10, <1>11, Zenon

\* The restore pauses a hold whose binding changed.
LEMMA PausesStep ==
    ASSUME IInv, Restore, PausesChanged
    PROVE  IInv'
  <1> USE HoldAssumption DEF IInv
  <1>1. /\ tick' \in Ticks
        /\ bind' = Rebound /\ moved' \in {moved, {}}
        /\ \/ hold' = "pause" /\ want' = "pause" /\ stray' = FALSE
           \/ hold = "timedPause" /\ UNCHANGED <<hold, want>> /\ stray' = TRUE
        /\ restored' = "done" /\ proven' = Nothing
        /\ api.pc = "idle" /\ Flushed("pause")
        /\ UNCHANGED <<at, car, conn, lp, unplugged, api, disk, kept>>
    BY FlushIs DEF Restore, PausesChanged, Persist, Lps, Choices, Shapes, Ticks, Resting
  <1>2. Single' <=> Single
    BY <1>1 DEF Single
  <1>3. Shapes'
    BY <1>1, RebindIs DEF Shapes, Flushed, Nothing, Proofs, Identities, Sessions
  <1>4. Values'
    BY <1>1, RebindIs DEF Values, Shapes, Holds, Timed, Flushed, Choices
  <1>5. Counts'
    BY <1>1 DEF Counts, Values, Shapes, Uses, Sessions, Conns, Flushed
  <1>6. IKept'
    BY <1>1 DEF IKept
  <1>7. IRead'
    BY <1>1 DEF IRead
  <1>8. ISaved'
    BY <1>1, <1>2 DEF ISaved, Due, Flushed
  <1>9. IChoice'
    BY <1>1, <1>2 DEF IChoice, Timed
  <1>10. IProof'
    BY <1>1, RebindIs DEF IProof
  <1>11. IBound'
    BY <1>1 DEF IBound
  <1>12. ISends'
    BY <1>1, RebindIs DEF ISends
  <1> QED
    BY <1>3, <1>4, <1>5, <1>6, <1>7, <1>8, <1>9, <1>10, <1>11, <1>12, Zenon

\* The restore answers from what is saved.
LEMMA RestoresStep ==
    ASSUME IInv, Restore, RestoresSaved
    PROVE  IInv'
  <1> USE HoldAssumption DEF IInv
  <1>1. /\ tick' \in Ticks
        /\ bind' = Rebound /\ moved' \in {moved, {}}
        /\ restored # "done" /\ Restored.status # "waiting"
        /\ restored' = IF Restored.status = "pending" THEN "pending" ELSE "done"
        /\ hold' = Restored.hold /\ api.pc = "idle"
        /\ \/ Restored.status = "cleared" /\ Flushed("clear")
           \/ Restored.status # "cleared" /\ UNCHANGED <<pend, job, used>>
        /\ UNCHANGED <<at, car, conn, lp, unplugged, api, disk, kept, want, proven, stray>>
    BY FlushIs DEF Restore, RestoresSaved, Persist, Lps, Choices, Shapes, Ticks, Resting
  <1>2. Single' <=> Single
    BY <1>1 DEF Single
  <1>3. Shapes'
    BY <1>1, RebindIs DEF Shapes, Flushed, Nothing, Proofs, Identities, Sessions
  <1>4. Values'
    BY <1>1, RebindIs, RestoredIs DEF Values, Shapes, Holds, Timed, Flushed, Choices
  <1>5. Counts'
    BY <1>1 DEF Counts, Values, Shapes, Uses, Sessions, Conns, Flushed
  <1>6. IKept'
    BY <1>1 DEF IKept
  <1>7. IRead'
    BY <1>1, RestoredIs DEF IRead
  <1>8. ISaved'
    BY <1>1, <1>2, RestoredIs DEF ISaved, Due, Flushed, IRead
  <1>9. IChoice'
    BY <1>1, <1>2, RestoredIs DEF IChoice, Timed
  <1>10. IProof'
    BY <1>1, RebindIs DEF IProof
  <1>11. IBound'
    BY <1>1 DEF IBound, IRead
  <1>12. ISends'
    BY <1>1, RebindIs DEF ISends
  <1> QED
    BY <1>3, <1>4, <1>5, <1>6, <1>7, <1>8, <1>9, <1>10, <1>11, <1>12, Zenon

\* The restore keeps the hold.
LEMMA KeepsStep ==
    ASSUME IInv, Restore, KeepsHold
    PROVE  IInv'
  <1> USE HoldAssumption DEF IInv
  <1>1. /\ tick' \in Ticks
        /\ bind' = Rebound /\ moved' \in {moved, {}}
        /\ ~ (Changed /\ restored # "pending" /\ hold # "none")
        /\ UNCHANGED <<at, car, conn, lp, pend, hold, restored, unplugged, api, disk, job,
                       kept, want, proven, stray, used>>
    BY DEF Restore, KeepsHold, Shapes, Ticks, Resting
  <1>2. Single' <=> Single
    BY <1>1 DEF Single
  <1>3. Shapes'
    BY <1>1, RebindIs DEF Shapes, Flushed, Nothing, Proofs, Identities, Sessions
  <1>4. Values'
    BY <1>1, RebindIs DEF Values, Shapes, Holds, Timed, Flushed, Choices
  <1>5. Counts'
    BY <1>1 DEF Counts, Values, Shapes, Uses, Sessions, Conns
  <1>6. IKept'
    BY <1>1 DEF IKept
  <1>7. IRead'
    BY <1>1 DEF IRead
  <1>8. ISaved'
    BY <1>1, <1>2 DEF ISaved, Due
  <1>9. IChoice'
    BY <1>1, <1>2 DEF IChoice, Timed
  <1>10. IProof'
    BY <1>1, RebindIs DEF IProof
  <1>11. IBound'
    BY <1>1, RebindIs DEF IBound, IRead
  <1>12. ISends'
    BY <1>1, RebindIs DEF ISends
  <1> QED
    BY <1>3, <1>4, <1>5, <1>6, <1>7, <1>8, <1>9, <1>10, <1>11, <1>12, Zenon

\* rebindAfterUnplug clears the hold.
LEMMA RebindClearsStep ==
    ASSUME IInv, RebindClears
    PROVE  IInv'
  <1>1. TickClears /\ tick' \in Ticks
    BY DEF RebindClears, IInv, Shapes, Ticks
  <1> QED
    BY <1>1, ClearsStep

\* releaseManualHoldIfCurrent.
LEMMA DropStep ==
    ASSUME IInv, Drop
    PROVE  IInv'
  <1>1. tick' = [pc |-> "dispatch", cable |-> tick.cable, fresh |-> FALSE] /\ tick' \in Ticks
    BY DEF Drop, IInv, Shapes, Ticks
  <1>2. CASE TickClears
    BY <1>1, <1>2, ClearsStep
  <1>3. CASE ~ TickClears
    <2>1. /\ tick.pc = "drop"
          /\ UNCHANGED <<world, manager, controller, api, store, kept, want, proven, stray, used>>
      BY <1>3 DEF Drop
    <2> QED
      BY <1>1, <2>1, Unmoved DEF IInv, ISends
  <1> QED
    BY <1>2, <1>3

\* The hold ends when the cable stayed out.
LEMMA DispatchUnpluggedStep ==
    ASSUME IInv, DispatchUnplugged
    PROVE  IInv'
  <1>1. tick' = Resting /\ tick' \in Ticks
    BY DEF DispatchUnplugged, Resting, Ticks
  <1>2. CASE TickClears
    BY <1>1, <1>2, ClearsStep
  <1>3. CASE ~ TickClears
    <2>1. UNCHANGED <<world, manager, controller, api, store, kept, want, proven, stray, used>>
      BY <1>3 DEF DispatchUnplugged
    <2> QED
      BY <1>1, <2>1, Unmoved DEF ISends, Resting
  <1> QED
    BY <1>2, <1>3

\* The restore.
LEMMA RestoreStep ==
    ASSUME IInv, Restore
    PROVE  IInv'
  BY PausesStep, RestoresStep, KeepsStep DEF Restore

-----------------------------------------------------------------------------
(* The invariant, and what follows from it *)

\* The first start satisfies it.
LEMMA Start == Init => IInv
  <1> SUFFICES ASSUME Init PROVE IInv
    OBVIOUS
  <1> USE HoldAssumption
  <1>1. /\ disk.records = [c \in Chargers |-> NoRecord] /\ disk.binding = None
        /\ disk.legacy \in {"absent", "hold"} /\ disk.clearing \in BOOLEAN /\ disk.marker = "none"
        /\ disk.clearing => disk.legacy = "hold"
    BY DEF Init
  <1>2. Shapes
    <2>1. NoRecord \in Records
      BY DEF NoRecord, Records, Sessions
    <2>2. disk \in Disks
      BY <1>1, <2>1 DEF Init, Disks, Identities
    <2>3. lp \in Lps /\ bind \in Binds /\ tick \in Ticks /\ api \in Apis
      BY DEF Init, NewRuntime, Unbound, Resting, NoRequest, Lps, Binds, Ticks, Apis, Identities,
             Sessions, Conns
    <2> QED
      BY <2>2, <2>3 DEF Init, Shapes, Intents, Nothing, Proofs, Identities, Sessions, Unused,
                        Uses
  <1>3. Values /\ Counts
    <2>1. at \in Chargers /\ stray \in BOOLEAN
      BY DEF Init
    <2>2. kept \in Choices /\ want \in Choices
      BY DEF Init, Choices
    <2>3. car \in Sessions /\ conn \in Conns /\ hold \in Holds /\ ~ bind.lost /\ Counts
      BY DEF Init, Counts, Sessions, Conns, Holds, Unbound, Unused
    <2>4. /\ moved = {} /\ pend = "none" /\ restored = "unseen" /\ unplugged = "no"
      BY DEF Init
    <2> QED
      BY <2>1, <2>2, <2>3, <2>4 DEF Values
  <1>4. IKept
    BY <1>1 DEF Init, IKept, NoRecord
  <1>5. IRead /\ ISaved /\ IChoice
    BY DEF Init, IRead, ISaved, Due, IChoice, Timed, NoRequest, Nothing
  <1>6. IProof /\ IBound /\ ISends
    BY DEF Init, IProof, IBound, ISends, NewRuntime, Unbound, Resting
  <1> QED
    BY <1>2, <1>3, <1>4, <1>5, <1>6 DEF IInv

\* Every step keeps it.
LEMMA Step ==
    ASSUME IInv, [Next]_vars
    PROVE  IInv'
  <1>1. CASE World
    BY <1>1, PlugInStep, UnplugStep, ReconnectStep, SwapStep, ReloadStep, GraceEndsStep,
       TimedEndsStep, CrashStep DEF World
  <1>2. CASE Tick
    BY <1>2, ObserveUnknownStep, ObserveStep, CableOutStep, CableBackStep, RebindClearsStep,
       RestoreStep, ReleaseStep, DropStep, DispatchStep, DispatchUnpluggedStep DEF Tick
  <1>3. ASSUME NEW choice \in Choices \cup Timed, Request(choice) PROVE IInv'
    BY <1>3, RequestStep
  <1>4. CASE UNCHANGED vars
    BY <1>4, Unmoved DEF vars, IInv, Shapes, ISends
  <1> QED
    BY <1>1, <1>2, <1>3, <1>4, SaveStep, CommitStep, Zenon DEF Next

\* IInv holds in every reachable state of the controller, the manager and the store.
THEOREM Invariance == Spec => []IInv
  <1>1. Init => IInv
    BY Start
  <1>2. IInv /\ [Next]_vars => IInv'
    BY Step
  <1> QED
    BY <1>1, <1>2, PTL DEF Spec

\* The saved choice is well formed and read only when none of its keys is hidden, and a
\* choice that is not saved yet is still on its way, the pause that is saved beside a timed
\* hold of 0 W included: RestoreManualHold, flushManualHold, restoreManualHoldForSession.
THEOREM RecordsSettle == Spec => []RecordsAreSettled
  <1>1. ASSUME IInv PROVE TypeOK
    BY <1>1 DEF IInv, Shapes, Values, TypeOK, Conns, Lps, Binds, Ticks, Apis, Disks, Proofs
  <1>2. ASSUME IInv PROVE RestoreReadsSettledKeys
    BY <1>2 DEF IInv, IRead, RestoreReadsSettledKeys
  <1>3. ASSUME IInv PROVE UnsavedIsPending
    BY <1>3, NotMoved DEF IInv, ISaved, UnsavedIsPending
  <1>4. IInv => RecordsAreSettled
    BY <1>1, <1>2, <1>3, Zenon DEF RecordsAreSettled
  <1> QED
    BY <1>4, Invariance, PTL

\* Once a hold is restored or set, the charger follows the owner's last choice across
\* refused saves, lost proofs and restarts; after a restart that choice is the saved one.
THEOREM ChoicesAreFollowed == Spec => []HoldIsTheChoice
  <1>1. IInv => HoldIsTheChoice
    BY NotMoved DEF IInv, IChoice, HoldIsTheChoice
  <1> QED
    BY <1>1, Invariance, PTL

\* Manual power goes to the charger and the session its start was proven for, whatever
\* happened to the cable, the socket and the proofs in between: restoreManualHoldForSession
\* and rebindAfterUnplug.
THEOREM StartsStayWithTheirSession == Spec => []StartStaysWithItsSession
  <1>1. ASSUME IInv PROVE StartStaysWithItsSession
    BY <1>1, HoldAssumption DEF IInv, IBound, ISends, StartStaysWithItsSession, Sends
  <1> QED
    BY <1>1, Invariance, PTL
=============================================================================
