----------------------- MODULE DriverRepositoryProofs -----------------------
(***************************************************************************)
(* Safety of a managed driver's selection for every set of versions,       *)
(* releases and retired packages and every number of faults and stops: the *)
(* inductive invariant IInv, and the properties of DriverRepository that   *)
(* follow from it.                                                         *)
(***************************************************************************)
EXTENDS DriverRepository, TLAPS

\* The operations that change the selected version.
Changes == {"install", "activate", "rollback"}

\* What effective/<path> points at for a selection and a choice.
DerivedOf(a, p) == IF a # 0 /\ Runs(a, p, release.own) THEN a ELSE 0

\* An artifact that may run.
Sound(v) == v = 0 \/ v \in kept \ (bad \cup Retired)

\* No write was skipped since the start.
Calm == torn = FALSE

\* What an operation is, and what its recovery does.
IKind ==
    /\ op.kind = "none" => op = NoOp
    /\ op.kind \in {"install", "activate"} =>
         IF op.again THEN op.mode \in {"restore", "forget"} ELSE op.mode = "record"
    /\ op.kind = "rollback" => op.mode = "restore"
    /\ op.kind = "bundled" => op.mode = IF op.again THEN "record" ELSE "forget"
    /\ op.kind \in {"retire", "migrate"} => op.mode = "forget" /\ ~ op.again
    /\ op.go = 0 <=> op.mode = "forget"

\* Which operation each step belongs to.
IPhase ==
    /\ pc \in {"off", "reconcile", "dropRow", "retire", "apply", "migrate", "idle"} => op = NoOp
    /\ pc = "first" => op.kind \in {"none", "retire"}
    /\ pc = "save" => op.kind = "migrate"
    /\ pc \in {"row", "link", "undo"} => op.go # 0
    /\ pc \in {"unlink", "unrow"} => op.go = 0 /\ op.kind # "none"
    /\ pc \in {"pin1", "pin2", "derive"} => op.kind # "none"
    /\ pc = "restart" => op.kind \in Changes \cup {"bundled"}
    /\ pc \in {"off", "reconcile", "dropRow", "retire", "first", "apply", "migrate", "save"}
         => result = "none"
    /\ op.kind \in {"retire", "migrate"} => result = "none"

\* The row and the link name what the disk keeps; there is no link without a row.
ILink ==
    /\ active # 0 => active \in kept
    /\ link # 0 => link \in kept
    /\ active = 0 => link = 0
    /\ pc = "row" => op.from = active
    /\ pc \in {"link", "undo"} => /\ active = op.go
                                  /\ op.from = 0 => link = 0
                                  /\ op.from # 0 => op.from \in kept
    /\ pc \in {"unrow", "dropRow"} => link = 0

\* Where the row, the link and what runs agree.
IAgree ==
    /\ pc \in {"idle", "row", "restart", "migrate", "save"} \/ (pc = "unlink"
       /\ op.kind # "retire")
         => link = active /\ effective = DerivedOf(active, pin)
    /\ pc \in {"unlink", "pin1", "pin2", "derive", "retire", "first", "apply"} => link = active
    /\ pc \in {"link", "undo"} => link = op.from /\ effective = DerivedOf(op.from, pin)

\* What is selected may run.
ISound ==
    /\ pc = "retire" => active = 0 \/ active \in kept \ bad
    /\ pc \notin {"off", "reconcile", "dropRow", "retire"}
         /\ (pc \in {"unlink", "unrow"} => op.kind # "retire")
         => Sound(active)
    /\ pc = "row" => op.go \notin bad \cup Retired
    /\ pc \in {"link", "undo"} => Sound(op.from)

\* An operation began in agreement.
IBefore ==
    op.kind \in Changes \cup {"bundled"} =>
        before.effective = DerivedOf(before.active, before.pin)

\* What a change keeps of the selection it replaces, for its recovery.
IForward ==
    op.kind \in Changes /\ ~ op.again =>
        /\ pc \in {"row", "link", "undo", "pin1"} => op.from = before.active /\ pin = before.pin
        /\ pc \in {"row", "link", "undo"} => effective = before.effective
        /\ pc \in {"link", "pin1", "pin2", "derive", "restart"} =>
             active = op.go /\ prev[op.go] = before.active
        /\ pc \in {"pin2", "derive", "restart"} => prevPin = before.pin
        /\ op.kind # "rollback" /\ op.go < RanBefore =>
             /\ pc = "pin2" => op.pinTo = op.go
             /\ pc \in {"derive", "restart"} => pin = op.go

\* What its recovery has put back.
IBack ==
    op.kind \in Changes /\ op.again =>
        /\ op.mode = "restore" => op.go = before.active
        /\ pc \in {"pin1", "pin2", "derive", "restart"} => active = op.go
        /\ pc \in {"row", "link", "undo", "pin1"} /\ op.mode = "restore" => prevPin = before.pin
        /\ pc = "pin2" /\ op.mode = "restore" => op.pinTo = before.pin
        /\ pc \in {"derive", "restart"} /\ op.mode = "restore" => pin = before.pin

\* Where a version the owner went back to is recorded.
IWanted ==
    /\ wanted # 0 => wanted \in kept \ (bad \cup Retired)
    /\ pc \in {"off", "reconcile", "retire"} /\ ~ Calm => wanted = 0
    /\ pc = "dropRow" => wanted = 0
    /\ release.replaces /\ pc \in {"reconcile", "retire", "first", "apply", "migrate"}
         => wanted = 0
    /\ op.kind \in {"retire", "migrate"} => wanted = 0
    /\ wanted # 0 /\ Calm =>
         /\ pc \in {"idle", "off", "reconcile", "retire", "first", "apply", "migrate"}
              => link = wanted /\ pin = wanted
         /\ pc \in {"idle", "retire", "first", "apply", "migrate"} => active = wanted
         /\ op.kind = "bundled" /\ ~ op.again /\ pc = "unlink" => active = wanted /\ pin = wanted
         /\ op.kind \in Changes => before.active = wanted /\ before.pin = wanted

-----------------------------------------------------------------------------
(* Types *)

Ops == [kind : {"none", "install", "activate", "rollback", "bundled", "retire", "migrate"},
        go : Choices, from : Choices, mode : {"record", "restore", "forget"},
        pinTo : Choices, again : BOOLEAN]
Befores == [active : Choices, pin : Choices, effective : Choices]

\* A recovery that deactivates instead of rolling back.
Forgotten == [kind |-> op.kind, go |-> 0, from |-> op.from, mode |-> "forget",
              pinTo |-> op.pinTo, again |-> op.again]

\* What GiveUp does: it deactivates, or ends the operation.
GivenUp ==
    \/ /\ op.again /\ op.kind = "install" /\ op.mode = "restore"
       /\ op' = Forgotten /\ pc' = "unlink" /\ UNCHANGED <<wanted, result>>
    \/ /\ op' = NoOp /\ pc' = "idle" /\ result' \in {"failed", "lost"}
       /\ wanted' \in {0, wanted}
       /\ op.again \/ op.kind = "bundled" => wanted' = 0

\* Deactivate during a start-up.
StartUp(kind) == [kind |-> kind, go |-> 0, from |-> active, mode |-> "forget",
                  pinTo |-> 0, again |-> FALSE]

\* The operation of a recovery: back to a retained version, or to none.
Recovered(go, from, mode) ==
    [kind |-> op.kind, go |-> go, from |-> from, mode |-> mode, pinTo |-> op.pinTo, again |-> TRUE]

\* The type invariant, one variable at a time.
Types ==
    /\ kept \subseteq Versions /\ bad \subseteq Versions
    /\ prev \in [Versions -> Choices]
    /\ active \in Choices /\ link \in Choices /\ effective \in Choices
    /\ pin \in Choices /\ prevPin \in Choices /\ wanted \in Choices
    /\ release \in Releases /\ pc \in Steps
    /\ op \in Ops /\ before \in Befores
    /\ result \in {"none", "running", "done", "failed", "lost"}

\* The flags are Boolean.
Flags == saved \in BOOLEAN /\ moved \in BOOLEAN /\ torn \in BOOLEAN

\* What holds whatever was skipped, and what holds while nothing was.
Shape == IKind /\ IPhase /\ ILink
Order == IAgree /\ ISound /\ IBefore /\ IForward /\ IBack

\* The inductive invariant.
IInv == Types /\ Flags /\ Shape /\ IWanted /\ (Calm => Order)

USE DEF records, quiet, bounds

-----------------------------------------------------------------------------
(* The operators of the model *)

\* The operations the steps put in place are operations.
LEMMA OpTypes ==
    ASSUME Types
    PROVE  /\ NoOp \in Ops /\ Forgotten \in Ops
           /\ StartUp("retire") \in Ops /\ StartUp("migrate") \in Ops
           /\ op.go \in Choices /\ op.from \in Choices /\ op.pinTo \in Choices
           /\ 0 \in Choices /\ DerivedOf(active, pin) \in Choices
  BY DEF Types, Ops, NoOp, Forgotten, StartUp, Choices, DerivedOf

\* The rows stay well formed when one of them is made active.
LEMMA RowTypes ==
    ASSUME Types
    PROVE  /\ \A v \in Choices : v # 0 => /\ [prev EXCEPT ![v] = active] \in [Versions -> Choices]
                                         /\ kept \cup {v} \subseteq Versions
           /\ active # 0 => prev[active] \in Choices
  BY DEF Types, Choices

\* What each handler's recovery is.
LEMMA RecoveryIs ==
    ASSUME Types, IKind, IPhase, pc = "restart", ~ op.again
    PROVE  \/ Recovery = NoOp
           \/ /\ op.kind \in Changes /\ active # 0 /\ prev[active] # 0 /\ Usable(prev[active])
              /\ Recovery = Recovered(prev[active], active, "restore")
           \/ /\ op.kind \in {"install", "activate"}
              /\ Recovery = Recovered(0, op.from, "forget")
           \/ /\ op.kind = "bundled" /\ Usable(op.from)
              /\ Recovery = Recovered(op.from, active, "record")
  BY DEF Types, Ops, IKind, IPhase, Changes, Recovery, RollbackTarget, Recovered

-----------------------------------------------------------------------------
(* One lemma per step.  Each first says what the step changes, then takes    *)
(* the parts of the invariant one by one.                                    *)

\* Install starts.
LEMMA InstallStep ==
    ASSUME NEW v \in Versions, IInv, Install(v)
    PROVE  IInv'
  <1> USE RepositoryAssumption DEF IInv, Shape, Order
  <1>1. /\ pc = "idle" /\ pc' = "row" /\ result' = "running"
        /\ op' = [kind |-> "install", go |-> v, from |-> active, mode |-> "record", pinTo |-> 0,
                  again |-> FALSE]
        /\ before' = [active |-> active, pin |-> pin, effective |-> effective]
        /\ bad' = bad \ {v}
        /\ v \notin Retired /\ v # 0 /\ v \in Choices
        /\ UNCHANGED <<kept, prev, active, link, effective, pin, prevPin, saved, moved,
                       release,
                       torn, wanted>>
    BY DEF Install, Fault, NoFault, Begin, NoOp, Choices
  <1>2. Flags'
    BY <1>1, Zenon DEF Flags
  <1>3. op' \in Ops /\ before' \in Befores
    BY <1>1, OpTypes DEF Types, Choices, Ops, Befores
  <1>4. Types'
    BY <1>1, <1>3, OpTypes DEF Types, Choices, Steps
  <1>5. IKind'
    BY <1>1 DEF IKind
  <1>6. IPhase'
    BY <1>1 DEF IPhase
  <1>7. ILink'
    BY <1>1 DEF ILink
  <1>8. IWanted'
    BY <1>1 DEF IWanted, Calm
  <1>9. Calm' => IAgree'
    BY <1>1 DEF IAgree, Calm, DerivedOf
  <1>10. Calm' => ISound'
    BY <1>1 DEF ISound, Calm, Sound
  <1>11. Calm' => IBefore'
    BY <1>1 DEF IBefore, IAgree, Calm, DerivedOf
  <1>12. Calm' => IForward'
    BY <1>1 DEF IForward, Calm, RanBefore
  <1>13. Calm' => IBack'
    BY <1>1 DEF IBack, Calm
  <1> QED
    BY <1>2, <1>3, <1>4, <1>5, <1>6, <1>7, <1>8, <1>9, <1>10, <1>11, <1>12, <1>13, Zenon

\* ActivateInstalled starts.
LEMMA ActivateStep ==
    ASSUME NEW v \in Versions, IInv, ActivateInstalled(v)
    PROVE  IInv'
  <1> USE RepositoryAssumption DEF IInv, Shape, Order
  <1>1. /\ pc = "idle" /\ pc' = "row" /\ result' = "running"
        /\ op' = [kind |-> "activate", go |-> v, from |-> active, mode |-> "record",
                  pinTo |-> 0, again |-> FALSE]
        /\ before' = [active |-> active, pin |-> pin, effective |-> effective]
        /\ v \in kept /\ v \notin bad \cup Retired /\ v # 0 /\ v \in Choices
        /\ UNCHANGED <<kept, prev, active, link, effective, pin, prevPin, bad, saved, moved,
                       release, torn, wanted>>
    BY DEF ActivateInstalled, Fault, NoFault, Begin, NoOp, Usable, Choices
  <1>2. Flags'
    BY <1>1, Zenon DEF Flags
  <1>3. op' \in Ops /\ before' \in Befores
    BY <1>1, OpTypes DEF Types, Choices, Ops, Befores
  <1>4. Types'
    BY <1>1, <1>3, OpTypes DEF Types, Choices, Steps
  <1>5. IKind'
    BY <1>1 DEF IKind
  <1>6. IPhase'
    BY <1>1 DEF IPhase
  <1>7. ILink'
    BY <1>1 DEF ILink
  <1>8. IWanted'
    BY <1>1 DEF IWanted, Calm
  <1>9. Calm' => IAgree'
    BY <1>1 DEF IAgree, Calm, DerivedOf
  <1>10. Calm' => ISound'
    BY <1>1 DEF ISound, Calm, Sound
  <1>11. Calm' => IBefore'
    BY <1>1 DEF IBefore, IAgree, Calm, DerivedOf
  <1>12. Calm' => IForward'
    BY <1>1 DEF IForward, Calm, RanBefore
  <1>13. Calm' => IBack'
    BY <1>1 DEF IBack, Calm
  <1> QED
    BY <1>2, <1>3, <1>4, <1>5, <1>6, <1>7, <1>8, <1>9, <1>10, <1>11, <1>12, <1>13, Zenon

\* Rollback starts.
LEMMA RollbackStep ==
    ASSUME IInv, Rollback
    PROVE  IInv'
  <1> USE RepositoryAssumption DEF IInv, Shape, Order
  <1>1. /\ pc = "idle" /\ pc' = "row" /\ result' = "running"
        /\ op' = [kind |-> "rollback", go |-> RollbackTarget, from |-> active,
                  mode |-> "restore", pinTo |-> 0, again |-> FALSE]
        /\ before' = [active |-> active, pin |-> pin, effective |-> effective]
        /\ RollbackTarget \in kept /\ RollbackTarget \notin bad \cup Retired
           /\ RollbackTarget # 0 /\ RollbackTarget \in Choices
        /\ UNCHANGED <<kept, prev, active, link, effective, pin, prevPin, bad, saved, moved,
                       release, torn, wanted>>
    BY DEF Rollback, Fault, NoFault, Begin, NoOp, Usable, Choices, RollbackTarget, Types
  <1>2. Flags'
    BY <1>1, Zenon DEF Flags
  <1>3. op' \in Ops /\ before' \in Befores
    BY <1>1, OpTypes DEF Types, Choices, Ops, Befores
  <1>4. Types'
    BY <1>1, <1>3, OpTypes DEF Types, Choices, Steps
  <1>5. IKind'
    BY <1>1 DEF IKind
  <1>6. IPhase'
    BY <1>1 DEF IPhase
  <1>7. ILink'
    BY <1>1 DEF ILink
  <1>8. IWanted'
    BY <1>1 DEF IWanted, Calm
  <1>9. Calm' => IAgree'
    BY <1>1 DEF IAgree, Calm, DerivedOf
  <1>10. Calm' => ISound'
    BY <1>1 DEF ISound, Calm, Sound
  <1>11. Calm' => IBefore'
    BY <1>1 DEF IBefore, IAgree, Calm, DerivedOf
  <1>12. Calm' => IForward'
    BY <1>1 DEF IForward, Calm, RanBefore
  <1>13. Calm' => IBack'
    BY <1>1 DEF IBack, Calm
  <1> QED
    BY <1>2, <1>3, <1>4, <1>5, <1>6, <1>7, <1>8, <1>9, <1>10, <1>11, <1>12, <1>13, Zenon

\* UseBundled starts.
LEMMA BundledStep ==
    ASSUME IInv, UseBundled
    PROVE  IInv'
  <1> USE RepositoryAssumption DEF IInv, Shape, Order
  <1>1. /\ pc = "idle" /\ pc' = "unlink" /\ result' = "running"
        /\ op' = [kind |-> "bundled", go |-> 0, from |-> active, mode |-> "forget", pinTo |-> 0,
                  again |-> FALSE]
        /\ before' = [active |-> active, pin |-> pin, effective |-> effective]
        /\ active # 0
        /\ UNCHANGED <<kept, prev, active, link, effective, pin, prevPin, bad, saved, moved,
                       release, torn, wanted>>
    BY DEF UseBundled, Fault, NoFault, Begin, NoOp
  <1>2. Flags'
    BY <1>1, Zenon DEF Flags
  <1>3. op' \in Ops /\ before' \in Befores
    BY <1>1, OpTypes DEF Types, Choices, Ops, Befores
  <1>4. Types'
    BY <1>1, <1>3, OpTypes DEF Types, Choices, Steps
  <1>5. IKind'
    BY <1>1 DEF IKind
  <1>6. IPhase'
    BY <1>1 DEF IPhase
  <1>7. ILink'
    BY <1>1 DEF ILink
  <1>8. IWanted'
    BY <1>1 DEF IWanted, Calm
  <1>9. Calm' => IAgree'
    BY <1>1 DEF IAgree, Calm, DerivedOf
  <1>10. Calm' => ISound'
    BY <1>1 DEF ISound, Calm, Sound
  <1>11. Calm' => IBefore'
    BY <1>1 DEF IBefore, IAgree, Calm, DerivedOf
  <1>12. Calm' => IForward'
    BY <1>1 DEF IForward, Calm, RanBefore
  <1>13. Calm' => IBack'
    BY <1>1 DEF IBack, Calm
  <1> QED
    BY <1>2, <1>3, <1>4, <1>5, <1>6, <1>7, <1>8, <1>9, <1>10, <1>11, <1>12, <1>13, Zenon

\* The transaction that makes a row active.
LEMMA RowStep ==
    ASSUME IInv, StepRow
    PROVE  IInv'
  <1> USE RepositoryAssumption DEF IInv, Shape, Order, GivenUp
  <1>1. /\ pc = "row"
        /\ \/ /\ kept' = kept \cup {op.go} /\ active' = op.go
                 /\ prev' = [prev EXCEPT ![op.go] = active]
              /\ pc' = "link" /\ UNCHANGED <<op, result, wanted>>
           \/ UNCHANGED <<kept, prev, active>> /\ GivenUp
        /\ UNCHANGED <<link, effective, pin, prevPin, bad, saved, moved, release, before,
                       torn>>
    BY DEF StepRow, Fault, NoFault, ActivateRow, GiveUp, End, Forgotten, Types, Ops
  <1>2. Flags'
    BY <1>1, Zenon DEF Flags
  <1>3. op' \in Ops /\ before' \in Befores
    BY <1>1, OpTypes DEF Types, Choices
  <1>4. kept' \subseteq Versions /\ prev' \in [Versions -> Choices] /\ active' \in Choices
    BY <1>1, OpTypes, RowTypes DEF Types, IPhase
  <1>5. Types'
    BY <1>1, <1>4, <1>3, OpTypes DEF Types, Choices, Steps, IPhase
  <1>6. IKind'
    BY <1>1 DEF IKind, NoOp, Forgotten
  <1>7. IPhase'
    BY <1>1 DEF IPhase, NoOp, Changes, Forgotten
  <1>8. ILink'
    BY <1>1 DEF ILink, IPhase, NoOp
  <1>9. IWanted'
    BY <1>1 DEF Types, Ops, IKind, IPhase, IWanted, Calm, IAgree, IBefore, IForward, NoOp,
                Changes, DerivedOf, Runs, Forgotten
  <1>10. Calm' => IAgree'
    BY <1>1 DEF IAgree, Calm, DerivedOf, IPhase, IKind, ILink, NoOp, Types, Ops
  <1>11. Calm' => ISound'
    BY <1>1 DEF ISound, Calm, Sound, IPhase, IKind, ILink, NoOp, Types, Ops, Choices
  <1>12. Calm' => IBefore'
    BY <1>1 DEF IBefore, Calm, DerivedOf, NoOp, Changes
  <1>13. Calm' => IForward'
    BY <1>1 DEF IForward, ILink, Calm, RanBefore, IPhase, IKind, NoOp, Changes, Types, Ops,
                Choices
  <1>14. Calm' => IBack'
    BY <1>1 DEF IBack, Calm, NoOp, Changes, Forgotten
  <1> QED
    BY <1>2, <1>3, <1>5, <1>6, <1>7, <1>8, <1>9, <1>10, <1>11, <1>12, <1>13, <1>14, Zenon

\* The rename over active/<path>.
LEMMA LinkStep ==
    ASSUME IInv, StepLink
    PROVE  IInv'
  <1> USE RepositoryAssumption DEF IInv, Shape, Order
  <1>1. /\ pc = "link"
        /\ (link' = op.go /\ pc' = "pin1") \/ (pc' = "undo" /\ link' = link)
        /\ UNCHANGED <<kept, prev, active, effective, pin, prevPin, bad, saved, moved,
                       release,
                       op, before, result, torn, wanted>>
    BY DEF StepLink, Fault, NoFault
  <1>2. Flags'
    BY <1>1, Zenon DEF Flags
  <1>3. op' \in Ops /\ before' \in Befores
    BY <1>1, OpTypes DEF Types, Choices
  <1>4. Types'
    BY <1>1, <1>3, OpTypes DEF Types, Choices, Steps
  <1>5. IKind'
    BY <1>1 DEF IKind
  <1>6. IPhase'
    BY <1>1 DEF IPhase, IKind, NoOp, Changes
  <1>7. ILink'
    BY <1>1 DEF ILink
  <1>8. IWanted'
    BY <1>1 DEF IWanted, Calm
  <1>9. Calm' => IAgree'
    BY <1>1 DEF IAgree, Calm, DerivedOf, IPhase, IKind, ILink, NoOp, Types, Ops
  <1>10. Calm' => ISound'
    BY <1>1 DEF ISound, Calm, Sound
  <1>11. Calm' => IBefore'
    BY <1>1 DEF IBefore, Calm, DerivedOf
  <1>12. Calm' => IForward'
    BY <1>1 DEF IForward, Calm, RanBefore
  <1>13. Calm' => IBack'
    BY <1>1 DEF ILink, Calm, IBack
  <1> QED
    BY <1>2, <1>3, <1>4, <1>5, <1>6, <1>7, <1>8, <1>9, <1>10, <1>11, <1>12, <1>13, Zenon

\* The row is put back after a failed rename.
LEMMA UndoStep ==
    ASSUME IInv, StepUndo
    PROVE  IInv'
  <1> USE RepositoryAssumption DEF IInv, Shape, Order, GivenUp
  <1>1. /\ pc = "undo"
        /\ \/ op.from # 0 /\ torn' = torn /\ kept' = kept \cup {op.from}
              /\ active' = op.from /\ prev' = [prev EXCEPT ![op.from] = active]
           \/ op.from = 0 /\ torn' = torn /\ active' = 0 /\ UNCHANGED <<kept, prev>>
           \/ torn' = TRUE /\ UNCHANGED <<kept, prev, active>>
        /\ GivenUp
        /\ UNCHANGED <<link, effective, pin, prevPin, bad, saved, moved, release, before>>
    BY DEF StepUndo, Fault, NoFault, UndoRow, ActivateRow, GiveUp, End, Forgotten, Types, Ops
  <1>2. Flags'
    BY <1>1, Zenon DEF Flags
  <1>3. op' \in Ops /\ before' \in Befores
    BY <1>1, OpTypes DEF Types, Choices
  <1>4. kept' \subseteq Versions /\ prev' \in [Versions -> Choices] /\ active' \in Choices
    BY <1>1, OpTypes, RowTypes DEF Types, IPhase
  <1>5. Types'
    BY <1>1, <1>4, <1>3, OpTypes DEF Types, Choices, Steps
  <1>6. IKind'
    BY <1>1 DEF IKind, NoOp, Forgotten
  <1>7. IPhase'
    BY <1>1 DEF IPhase, NoOp, Changes, Forgotten
  <1>8. ILink'
    BY <1>1 DEF ILink
  <1>9. IWanted'
    BY <1>1 DEF Types, Ops, IKind, IPhase, IWanted, Calm, IAgree, IForward, NoOp, Changes,
                Forgotten
  <1>10. Calm' => IAgree'
    BY <1>1 DEF IAgree, Calm, DerivedOf
  <1>11. Calm' => ISound'
    BY <1>1 DEF ISound, Calm, Sound
  <1>12. Calm' => IBefore'
    BY <1>1 DEF IBefore, Calm, DerivedOf, NoOp, Changes
  <1>13. Calm' => IForward'
    BY <1>1 DEF IForward, Calm, RanBefore
  <1>14. Calm' => IBack'
    BY <1>1 DEF IBack, Calm, NoOp, Changes, Forgotten
  <1> QED
    BY <1>2, <1>3, <1>5, <1>6, <1>7, <1>8, <1>9, <1>10, <1>11, <1>12, <1>13, <1>14, Zenon

\* Deactivate takes the link away.
LEMMA UnlinkStep ==
    ASSUME IInv, StepUnlink
    PROVE  IInv'
  <1> USE RepositoryAssumption DEF IInv, Shape, Order, GivenUp
  <1>1. /\ pc = "unlink"
        /\ \/ link' = 0 /\ pc' = "unrow" /\ UNCHANGED <<op, result, wanted, torn>>
           \/ /\ op.kind \in {"retire", "migrate"} /\ torn' = TRUE
                 /\ UNCHANGED <<link, op, result, wanted>>
              /\ pc' = IF op.kind = "retire" THEN "first" ELSE "save"
           \/ op.kind \notin {"retire", "migrate"} /\ UNCHANGED <<link, torn>> /\ GivenUp
        /\ UNCHANGED <<kept, prev, active, effective, pin, prevPin, bad, saved, moved,
                       release,
                       before>>
    BY DEF StepUnlink, Fault, NoFault, AfterDeactivate, GiveUp, End, Forgotten, Types, Ops
  <1>2. Flags'
    BY <1>1, Zenon DEF Flags
  <1>3. op' \in Ops /\ before' \in Befores
    BY <1>1, OpTypes DEF Types, Choices
  <1>4. Types'
    BY <1>1, <1>3, OpTypes DEF Types, Choices, Steps
  <1>5. IKind'
    BY <1>1 DEF IKind, IPhase, NoOp, Types, Ops
  <1>6. IPhase'
    BY <1>1 DEF IPhase, IKind, NoOp, Changes
  <1>7. ILink'
    BY <1>1 DEF ILink
  <1>8. IWanted'
    BY <1>1 DEF IWanted, Calm, IPhase, IKind, ILink, NoOp, Changes, Types, Steps, Ops
  <1>9. Calm' => IAgree'
    BY <1>1 DEF IAgree, Calm, DerivedOf
  <1>10. Calm' => ISound'
    BY <1>1 DEF ISound, Calm, Sound
  <1>11. Calm' => IBefore'
    BY <1>1 DEF IBefore, Calm, DerivedOf, NoOp, Changes
  <1>12. Calm' => IForward'
    BY <1>1 DEF IForward, Calm, RanBefore
  <1>13. Calm' => IBack'
    BY <1>1 DEF IBack, Calm, IPhase, IKind, NoOp, Changes
  <1> QED
    BY <1>2, <1>3, <1>4, <1>5, <1>6, <1>7, <1>8, <1>9, <1>10, <1>11, <1>12, <1>13, Zenon

\* Deactivate clears the row.
LEMMA UnrowStep ==
    ASSUME IInv, StepUnrow
    PROVE  IInv'
  <1> USE RepositoryAssumption DEF IInv, Shape, Order, GivenUp
  <1>1. /\ pc = "unrow"
        /\ \/ active' = 0 /\ pc' = "pin1" /\ UNCHANGED <<op, result, wanted, torn>>
           \/ /\ op.kind \in {"retire", "migrate"} /\ torn' = TRUE
                 /\ UNCHANGED <<active, op, result, wanted>>
              /\ pc' = IF op.kind = "retire" THEN "first" ELSE "save"
           \/ op.kind \notin {"retire", "migrate"} /\ torn' = TRUE /\ active' = active
              /\ GivenUp
        /\ UNCHANGED <<kept, prev, link, effective, pin, prevPin, bad, saved, moved, release,
                       before>>
    BY DEF StepUnrow, Fault, NoFault, AfterDeactivate, GiveUp, End, Forgotten, Types, Ops
  <1>2. Flags'
    BY <1>1, Zenon DEF Flags
  <1>3. op' \in Ops /\ before' \in Befores
    BY <1>1, OpTypes DEF Types, Choices
  <1>4. Types'
    BY <1>1, <1>3, OpTypes DEF Types, Choices, Steps
  <1>5. IKind'
    BY <1>1 DEF IKind, IPhase, NoOp, Types, Ops
  <1>6. IPhase'
    BY <1>1 DEF IPhase, IKind, NoOp, Changes
  <1>7. ILink'
    BY <1>1 DEF ILink
  <1>8. IWanted'
    BY <1>1 DEF IWanted, Calm, IPhase, IKind, NoOp, Changes
  <1>9. Calm' => IAgree'
    BY <1>1 DEF IAgree, Calm, DerivedOf, IPhase, IKind, ILink, NoOp, Types, Ops
  <1>10. Calm' => ISound'
    BY <1>1 DEF ISound, Calm, Sound
  <1>11. Calm' => IBefore'
    BY <1>1 DEF IBefore, Calm, DerivedOf
  <1>12. Calm' => IForward'
    BY <1>1 DEF IForward, Calm, RanBefore, IPhase, IKind, NoOp, Changes
  <1>13. Calm' => IBack'
    BY <1>1 DEF IBack, Calm, IPhase, IKind, NoOp, Changes
  <1> QED
    BY <1>2, <1>3, <1>4, <1>5, <1>6, <1>7, <1>8, <1>9, <1>10, <1>11, <1>12, <1>13, Zenon

\* The first of savePin's saves.
LEMMA PinPreviousStep ==
    ASSUME IInv, StepPinPrevious
    PROVE  IInv'
  <1> USE RepositoryAssumption DEF IInv, Shape, Order
  <1>1. /\ pc = "pin1" /\ pc' = "pin2"
        /\ op' = [kind |-> op.kind, go |-> op.go, from |-> op.from, mode |-> op.mode, pinTo |->
                  PinFor, again |-> op.again]
        /\ (prevPin' = pin /\ torn' = torn) \/ (torn' = TRUE /\ prevPin' = prevPin)
        /\ UNCHANGED <<kept, prev, active, link, effective, pin, bad, saved, moved, release,
                       before, result, wanted>>
    BY DEF StepPinPrevious, Fault, NoFault, Types, Ops
  <1>2. Flags'
    BY <1>1, Zenon DEF Flags
  <1>3. op' \in Ops /\ before' \in Befores
    BY <1>1, OpTypes DEF Types, Choices, Ops, Befores, PinFor, Choice
  <1>4. Types'
    BY <1>1, <1>3, OpTypes DEF Types, Choices, Steps
  <1>5. IKind'
    BY <1>1 DEF IKind, IPhase, NoOp, Types, Ops
  <1>6. IPhase'
    BY <1>1 DEF IPhase
  <1>7. ILink'
    BY <1>1 DEF ILink
  <1>8. IWanted'
    BY <1>1 DEF IWanted, Calm
  <1>9. Calm' => IAgree'
    BY <1>1 DEF IAgree, Calm, DerivedOf
  <1>10. Calm' => ISound'
    BY <1>1 DEF ISound, Calm, Sound
  <1>11. Calm' => IBefore'
    BY <1>1 DEF IBefore, Calm, DerivedOf
  <1>12. Calm' => IForward'
    BY <1>1 DEF Types, Choices, IKind, Calm, IBefore, IForward, DerivedOf, RanBefore, Changes,
                PinFor, Choice
  <1>13. Calm' => IBack'
    BY <1>1 DEF IBack, Calm, NoOp, Changes, PinFor, Choice
  <1> QED
    BY <1>2, <1>3, <1>4, <1>5, <1>6, <1>7, <1>8, <1>9, <1>10, <1>11, <1>12, <1>13, Zenon

\* The second of savePin's saves.
LEMMA PinStep ==
    ASSUME IInv, StepPin
    PROVE  IInv'
  <1> USE RepositoryAssumption DEF IInv, Shape, Order
  <1>1. /\ pc = "pin2" /\ pc' = "derive"
        /\ (pin' = op.pinTo /\ torn' = torn) \/ (torn' = TRUE /\ pin' = pin)
        /\ UNCHANGED <<kept, prev, active, link, effective, prevPin, bad, saved, moved,
                       release,
                       op, before, result, wanted>>
    BY DEF StepPin, Fault, NoFault
  <1>2. Flags'
    BY <1>1, Zenon DEF Flags
  <1>3. op' \in Ops /\ before' \in Befores
    BY <1>1, OpTypes DEF Types, Choices
  <1>4. Types'
    BY <1>1, <1>3, OpTypes DEF Types, Choices, Steps
  <1>5. IKind'
    BY <1>1 DEF IKind
  <1>6. IPhase'
    BY <1>1 DEF IPhase
  <1>7. ILink'
    BY <1>1 DEF ILink
  <1>8. IWanted'
    BY <1>1 DEF IWanted, Calm
  <1>9. Calm' => IAgree'
    BY <1>1 DEF IAgree, Calm, DerivedOf
  <1>10. Calm' => ISound'
    BY <1>1 DEF ISound, Calm, Sound
  <1>11. Calm' => IBefore'
    BY <1>1 DEF IBefore, Calm, DerivedOf
  <1>12. Calm' => IForward'
    BY <1>1 DEF IForward, Calm, RanBefore
  <1>13. Calm' => IBack'
    BY <1>1 DEF IBack, Calm
  <1> QED
    BY <1>2, <1>3, <1>4, <1>5, <1>6, <1>7, <1>8, <1>9, <1>10, <1>11, <1>12, <1>13, Zenon

\* rebuildEffective at the end of an operation.
LEMMA DeriveStep ==
    ASSUME IInv, StepDerive
    PROVE  IInv'
  <1> USE RepositoryAssumption DEF IInv, Shape, Order
  <1>1. /\ pc = "derive"
        /\ (effective' = DerivedOf(active, pin) /\ torn' = torn) \/ (torn' = TRUE
           /\ effective' = effective)
        /\ pc' = IF op.kind = "retire" THEN "first"
                 ELSE IF op.kind = "migrate" THEN "save" ELSE "restart"
        /\ UNCHANGED <<kept, prev, active, link, pin, prevPin, bad, saved, moved, release, op,
                       before, result, wanted>>
    BY DEF StepDerive, Fault, NoFault, Derived, DerivedOf, AfterDeactivate, IKind
  <1>2. Flags'
    BY <1>1, Zenon DEF Flags
  <1>3. op' \in Ops /\ before' \in Befores
    BY <1>1, OpTypes DEF Types, Choices
  <1>4. Types'
    BY <1>1, <1>3, OpTypes DEF Types, Choices, Steps
  <1>5. IKind'
    BY <1>1 DEF IKind
  <1>6. IPhase'
    BY <1>1 DEF Types, Ops, IKind, IPhase, NoOp, Changes
  <1>7. ILink'
    BY <1>1 DEF ILink
  <1>8. IWanted'
    BY <1>1 DEF IWanted, Calm
  <1>9. Calm' => IAgree'
    BY <1>1 DEF IAgree, Calm, DerivedOf
  <1>10. Calm' => ISound'
    BY <1>1 DEF ISound, Calm, Sound
  <1>11. Calm' => IBefore'
    BY <1>1 DEF IBefore, Calm, DerivedOf
  <1>12. Calm' => IForward'
    BY <1>1 DEF IForward, Calm, RanBefore
  <1>13. Calm' => IBack'
    BY <1>1 DEF IBack, Calm
  <1> QED
    BY <1>2, <1>3, <1>4, <1>5, <1>6, <1>7, <1>8, <1>9, <1>10, <1>11, <1>12, <1>13, Zenon

\* The driver restarted with the new selection.
LEMMA StartedStep ==
    ASSUME IInv, StepStarted
    PROVE  IInv'
  <1> USE RepositoryAssumption DEF IInv, Shape, Order
  <1>1. /\ pc = "restart" /\ ~ op.again /\ pc' = "idle" /\ op' = NoOp /\ result' = "done"
        /\ wanted' = IF op.kind \in {"install", "activate"} /\ op.go < RanBefore
           /\ Calm THEN op.go ELSE 0
        /\ UNCHANGED <<kept, prev, active, link, effective, pin, prevPin, bad, saved, moved,
                       release, before, torn>>
    BY DEF StepStarted, Fault, NoFault, Calm, Flags
  <1>2. Flags'
    BY <1>1, Zenon DEF Flags
  <1>3. op' \in Ops /\ before' \in Befores
    BY <1>1, OpTypes DEF Types, Choices
  <1>4. Types'
    BY <1>1, <1>3, OpTypes DEF Types, Choices, Steps
  <1>5. IKind'
    BY <1>1 DEF IKind, NoOp
  <1>6. IPhase'
    BY <1>1 DEF IPhase, NoOp, Changes
  <1>7. ILink'
    BY <1>1 DEF ILink
  <1>8. IWanted'
    BY <1>1 DEF IWanted, IAgree, ISound, IForward, Sound, NoOp, Changes
  <1>9. Calm' => IAgree'
    BY <1>1 DEF IAgree, Calm, DerivedOf
  <1>10. Calm' => ISound'
    BY <1>1 DEF ISound, Calm, Sound
  <1>11. Calm' => IBefore'
    BY <1>1 DEF IBefore, Calm, DerivedOf, NoOp, Changes
  <1>12. Calm' => IForward'
    BY <1>1 DEF IForward, Calm, RanBefore
  <1>13. Calm' => IBack'
    BY <1>1 DEF IBack, Calm, NoOp, Changes
  <1> QED
    BY <1>2, <1>3, <1>4, <1>5, <1>6, <1>7, <1>8, <1>9, <1>10, <1>11, <1>12, <1>13, Zenon

\* The driver did not restart: its recovery begins.
LEMMA NotStartedStep ==
    ASSUME IInv, StepNotStarted
    PROVE  IInv'
  <1> USE RepositoryAssumption DEF IInv, Shape, Order
  <1>1. ASSUME NEW go \in Choices, NEW from \in Choices,
               NEW mode \in {"record", "restore", "forget"}
        PROVE  Recovered(go, from, mode) \in Ops
    BY DEF Types, Ops, Recovered
  <1>2. /\ pc = "restart" /\ ~ op.again
        /\ \/ pc' = "idle" /\ op' = NoOp /\ result' = "lost" /\ wanted' = 0
           \/ /\ op.kind \in Changes /\ active # 0 /\ prev[active] # 0 /\ Usable(prev[active])
              /\ op' = Recovered(prev[active], active, "restore")
              /\ pc' = "row" /\ UNCHANGED <<result, wanted>>
           \/ /\ op.kind \in {"install", "activate"}
              /\ op' = Recovered(0, op.from, "forget")
              /\ pc' = "unlink" /\ UNCHANGED <<result, wanted>>
           \/ /\ op.kind = "bundled" /\ op.from # 0 /\ Usable(op.from)
              /\ op' = Recovered(op.from, active, "record")
              /\ pc' = "row" /\ UNCHANGED <<result, wanted>>
        /\ UNCHANGED <<kept, prev, active, link, effective, pin, prevPin, bad, saved, moved,
                       release, before, torn>>
    BY RecoveryIs DEF StepNotStarted, Fault, NoFault, End, Recovered, Usable, Types
  <1>3. Flags'
    BY <1>2, Zenon DEF Flags
  <1>4. op' \in Ops /\ before' \in Befores
    <2>1. NoOp \in Ops /\ Recovered(0, op.from, "forget") \in Ops
      BY <1>1, OpTypes
    <2>2. Recovered(op.from, active, "record") \in Ops
      BY <1>1, OpTypes DEF Types
    <2>3. active # 0 => Recovered(prev[active], active, "restore") \in Ops
      BY <1>1, RowTypes DEF Types
    <2>4. before' \in Befores
      BY <1>2 DEF Types
    <2> QED
      BY <1>2, <2>1, <2>2, <2>3, <2>4, Zenon
  <1>5. Types'
    BY <1>2, <1>4, OpTypes DEF Types, Choices, Steps
  <1>6. IKind'
    BY <1>2 DEF Types, Ops, IKind, IPhase, NoOp, Changes, Recovered, Usable
  <1>7. IPhase'
    BY <1>2 DEF IPhase, NoOp, Changes, Recovered, Usable
  <1>8. ILink'
    BY <1>2 DEF ILink, IPhase, NoOp, Recovered, Usable
  <1>9. IWanted'
    BY <1>2 DEF IWanted, Calm, NoOp, Changes, Recovered, Usable
  <1>10. Calm' => IAgree'
    BY <1>2 DEF IAgree, Calm, DerivedOf
  <1>11. Calm' => ISound'
    BY <1>2 DEF ISound, Calm, Sound, NoOp, Recovered, Usable
  <1>12. Calm' => IBefore'
    BY <1>2 DEF IBefore, Calm, DerivedOf, NoOp, Changes
  <1>13. Calm' => IForward'
    BY <1>2 DEF IForward, Calm, RanBefore, NoOp, Changes, Recovered, Usable
  <1>14. Calm' => IBack'
    BY <1>2 DEF IBack, IForward, Calm, IPhase, IKind, NoOp, Changes, Types, Ops, Recovered,
                Usable
  <1> QED
    BY <1>3, <1>4, <1>5, <1>6, <1>7, <1>8, <1>9, <1>10, <1>11, <1>12, <1>13, <1>14, Zenon

\* The recovered driver restarted, or not.
LEMMA RecoveredStep ==
    ASSUME IInv, StepRecovered
    PROVE  IInv'
  <1> USE RepositoryAssumption DEF IInv, Shape, Order
  <1>1. /\ pc = "restart" /\ op.again /\ pc' = "idle" /\ op' = NoOp
        /\ result' \in {"lost", "failed"}
        /\ result' = "failed" => (op.mode = "forget" => before.active = 0)
        /\ wanted' = IF result' = "lost" \/ op.kind = "bundled" THEN 0 ELSE wanted
        /\ UNCHANGED <<kept, prev, active, link, effective, pin, prevPin, bad, saved, moved,
                       release, before, torn>>
    BY DEF StepRecovered, Fault, NoFault, End
  <1>2. Flags'
    BY <1>1, Zenon DEF Flags
  <1>3. op' \in Ops /\ before' \in Befores
    BY <1>1, OpTypes DEF Types, Choices
  <1>4. Types'
    BY <1>1, <1>3, OpTypes DEF Types, Choices, Steps
  <1>5. IKind'
    BY <1>1 DEF IKind, NoOp
  <1>6. IPhase'
    BY <1>1 DEF IPhase, NoOp, Changes
  <1>7. ILink'
    BY <1>1 DEF ILink
  <1>8. IWanted'
    BY <1>1 DEF IKind, IPhase, IWanted, Calm, IAgree, IBack, NoOp, Changes
  <1>9. Calm' => IAgree'
    BY <1>1 DEF IAgree, Calm, DerivedOf
  <1>10. Calm' => ISound'
    BY <1>1 DEF ISound, Calm, Sound
  <1>11. Calm' => IBefore'
    BY <1>1 DEF IBefore, Calm, DerivedOf, NoOp, Changes
  <1>12. Calm' => IForward'
    BY <1>1 DEF IForward, Calm, RanBefore
  <1>13. Calm' => IBack'
    BY <1>1 DEF IBack, Calm, NoOp, Changes
  <1> QED
    BY <1>2, <1>3, <1>4, <1>5, <1>6, <1>7, <1>8, <1>9, <1>10, <1>11, <1>12, <1>13, Zenon

\* The process ends.
LEMMA StopStep ==
    ASSUME IInv, Stop
    PROVE  IInv'
  <1> USE RepositoryAssumption DEF IInv, Shape, Order
  <1>1. /\ pc' = "off" /\ op' = NoOp /\ result' = "none"
        /\ wanted' = IF MovedOn \/ PinNotSaved \/ ~ Calm THEN 0 ELSE wanted
        /\ UNCHANGED <<kept, prev, active, link, effective, pin, prevPin, bad, saved, moved,
                       release, before, torn>>
    BY DEF Stop, Fault, NoFault, Calm, Flags
  <1>2. Flags'
    BY <1>1, Zenon DEF Flags
  <1>3. op' \in Ops /\ before' \in Befores
    BY <1>1, OpTypes DEF Types, Choices
  <1>4. Types'
    BY <1>1, <1>3, OpTypes DEF Types, Choices, Steps
  <1>5. IKind'
    BY <1>1 DEF IKind, NoOp
  <1>6. IPhase'
    BY <1>1 DEF IPhase
  <1>7. ILink'
    BY <1>1 DEF ILink
  <1>8. IWanted'
    <2>1. ASSUME Calm, wanted' # 0 PROVE link = wanted /\ pin = wanted
      <3>1. wanted # 0 /\ wanted' = wanted /\ ~ MovedOn /\ ~ PinNotSaved
        BY <1>1, <2>1
      <3>2. CASE op.kind \in {"none", "retire", "migrate"}
        <4>1. op = NoOp
          BY <3>1, <3>2 DEF IWanted, IKind
        <4>2. pc \in {"idle", "off", "reconcile", "retire", "first", "apply", "migrate"}
          BY <3>1, <4>1 DEF IPhase, IWanted, Types, Steps, NoOp, Changes
        <4> QED
          BY <2>1, <3>1, <4>2 DEF IWanted
      <3>3. CASE op.kind = "bundled"
        <4>1. ~ op.again /\ pc = "unlink"
          BY <3>1, <3>3 DEF MovedOn, IKind, IPhase
        <4> QED
          BY <2>1, <3>1, <3>3, <4>1 DEF IWanted, IAgree
      <3>4. CASE op.kind \in Changes /\ ~ op.again
        <4>1. pc \in {"row", "link", "undo"}
          BY <3>1, <3>4 DEF MovedOn, IKind, IPhase, Changes
        <4> QED
          BY <2>1, <3>1, <3>4, <4>1 DEF IWanted, IAgree, ILink, IForward
      <3>5. CASE op.kind \in Changes /\ op.again
        <4>1. pc \in {"derive", "restart"} /\ op.mode = "restore"
          BY <3>1, <3>5 DEF MovedOn, PinNotSaved, IKind, IPhase, Types, Ops, Steps, Changes, NoOp
        <4> QED
          BY <2>1, <3>1, <3>5, <4>1 DEF IWanted, IAgree, IBack
      <3> QED
        BY <3>2, <3>3, <3>4, <3>5 DEF Types, Ops, Changes
    <2>2. wanted' \in {0, wanted} /\ (~ Calm => wanted' = 0)
      BY <1>1
    <2> QED
      BY <1>1, <2>1, <2>2 DEF IWanted, Calm, NoOp, Changes
  <1>9. Calm' => IAgree'
    BY <1>1 DEF IAgree, Calm, DerivedOf
  <1>10. Calm' => ISound'
    BY <1>1 DEF ISound, Calm, Sound
  <1>11. Calm' => IBefore'
    BY <1>1 DEF IBefore, Calm, DerivedOf, NoOp, Changes
  <1>12. Calm' => IForward'
    BY <1>1 DEF IForward, Calm, RanBefore
  <1>13. Calm' => IBack'
    BY <1>1 DEF IBack, Calm, NoOp, Changes
  <1> QED
    BY <1>2, <1>3, <1>4, <1>5, <1>6, <1>7, <1>8, <1>9, <1>10, <1>11, <1>12, <1>13, Zenon

\* A retained file is damaged.
LEMMA DamageStep ==
    ASSUME NEW v \in Versions, IInv, Damage(v)
    PROVE  IInv'
  <1> USE RepositoryAssumption DEF IInv, Shape, Order
  <1>1. /\ pc = "off"
        /\ bad' = bad \cup {v}
        /\ wanted' = IF v = wanted THEN 0 ELSE wanted
        /\ UNCHANGED <<kept, prev, active, link, effective, pin, prevPin, saved, moved,
                       release,
                       pc, op, before, result, torn>>
    BY DEF Damage, Fault, NoFault
  <1>2. Flags'
    BY <1>1, Zenon DEF Flags
  <1>3. op' \in Ops /\ before' \in Befores
    BY <1>1, OpTypes DEF Types, Choices
  <1>4. Types'
    BY <1>1, <1>3, OpTypes DEF Types, Choices, Steps
  <1>5. IKind'
    BY <1>1 DEF IKind
  <1>6. IPhase'
    BY <1>1 DEF IPhase
  <1>7. ILink'
    BY <1>1 DEF ILink
  <1>8. IWanted'
    BY <1>1 DEF IWanted, Calm
  <1>9. Calm' => IAgree'
    BY <1>1 DEF IAgree, Calm, DerivedOf
  <1>10. Calm' => ISound'
    BY <1>1 DEF ISound, Calm, Sound
  <1>11. Calm' => IBefore'
    BY <1>1 DEF IBefore, Calm, DerivedOf
  <1>12. Calm' => IForward'
    BY <1>1 DEF IForward, Calm, RanBefore
  <1>13. Calm' => IBack'
    BY <1>1 DEF IBack, Calm
  <1> QED
    BY <1>2, <1>3, <1>4, <1>5, <1>6, <1>7, <1>8, <1>9, <1>10, <1>11, <1>12, <1>13, Zenon

\* A release starts.
LEMMA BootStep ==
    ASSUME NEW r \in Releases, IInv, Boot(r)
    PROVE  IInv'
  <1> USE RepositoryAssumption DEF IInv, Shape, Order
  <1>1. /\ pc = "off" /\ pc' = "reconcile" /\ release' = r /\ moved' = saved
        /\ wanted' = IF r.replaces THEN 0 ELSE wanted
        /\ UNCHANGED <<kept, prev, active, link, effective, pin, prevPin, bad, saved, op,
                       before, result, torn>>
    BY DEF Boot, Fault, NoFault
  <1>2. Flags'
    BY <1>1, Zenon DEF Flags
  <1>3. op' \in Ops /\ before' \in Befores
    BY <1>1, OpTypes DEF Types, Choices
  <1>4. Types'
    BY <1>1, <1>3, OpTypes DEF Types, Choices, Steps
  <1>5. IKind'
    BY <1>1 DEF IKind
  <1>6. IPhase'
    BY <1>1 DEF IPhase
  <1>7. ILink'
    BY <1>1 DEF ILink
  <1>8. IWanted'
    BY <1>1 DEF IWanted, Calm
  <1>9. Calm' => IAgree'
    BY <1>1 DEF IAgree, Calm, DerivedOf
  <1>10. Calm' => ISound'
    BY <1>1 DEF ISound, Calm, Sound
  <1>11. Calm' => IBefore'
    BY <1>1 DEF IBefore, Calm, DerivedOf, IPhase, IKind, NoOp, Changes
  <1>12. Calm' => IForward'
    BY <1>1 DEF IForward, Calm, RanBefore
  <1>13. Calm' => IBack'
    BY <1>1 DEF IBack, Calm
  <1> QED
    BY <1>2, <1>3, <1>4, <1>5, <1>6, <1>7, <1>8, <1>9, <1>10, <1>11, <1>12, <1>13, Zenon

\* reconcileActive.
LEMMA ReconcileStep ==
    ASSUME IInv, Reconcile
    PROVE  IInv'
  <1> USE RepositoryAssumption DEF IInv, Shape, Order
  <1>1. /\ pc = "reconcile" /\ torn' = FALSE
        /\ \/ /\ active = 0 \/ (LinkIsValid /\ link = active)
              /\ pc' = "retire" /\ UNCHANGED <<kept, prev, active, link, wanted>>
           \/ /\ active # 0 /\ LinkIsValid /\ link # active /\ kept' = kept \cup {link}
                 /\ active' = link /\ prev' = [prev EXCEPT ![link] = active]
              /\ pc' = "retire" /\ UNCHANGED <<link, wanted>>
           \/ link' = 0 /\ pc' = "dropRow" /\ wanted' = 0 /\ UNCHANGED <<kept, prev, active>>
        /\ UNCHANGED <<effective, pin, prevPin, bad, saved, moved, release, op, before,
                       result>>
    BY DEF Reconcile, Fault, NoFault, ActivateRow
  <1>2. Flags'
    BY <1>1, Zenon DEF Flags
  <1>3. op' \in Ops /\ before' \in Befores
    <2>1. LinkIsValid => link \in Choices /\ link # 0
      BY DEF Types, LinkIsValid
    <2>2. LinkIsValid => /\ [prev EXCEPT ![link] = active] \in [Versions -> Choices]
                         /\ kept \cup {link} \subseteq Versions
      BY <2>1, RowTypes
    <2> QED
      BY <1>1, <2>1, <2>2, Zenon DEF Types
  <1>4. kept' \subseteq Versions /\ prev' \in [Versions -> Choices] /\ active' \in Choices
    <2>1. LinkIsValid => link \in Choices /\ link # 0
      BY DEF Types, LinkIsValid
    <2>2. LinkIsValid => /\ [prev EXCEPT ![link] = active] \in [Versions -> Choices]
                         /\ kept \cup {link} \subseteq Versions
      BY <2>1, RowTypes
    <2> QED
      BY <1>1, <2>1, <2>2, Zenon DEF Types
  <1>5. Types'
    BY <1>1, <1>4, <1>3, OpTypes DEF Types, Choices, Steps, LinkIsValid
  <1>6. IKind'
    BY <1>1 DEF IKind
  <1>7. IPhase'
    BY <1>1 DEF IPhase
  <1>8. ILink'
    BY <1>1 DEF ILink
  <1>9. IWanted'
    <2>1. wanted' # 0 => wanted' = wanted /\ Calm /\ pc' = "retire" /\ link' = link
      BY <1>1 DEF IWanted, Calm
    <2>2. wanted' # 0 => link = wanted /\ pin = wanted /\ active' = link
      BY <1>1, <2>1 DEF IWanted, ILink
    <2>3. op' = NoOp /\ op = NoOp
      BY <1>1 DEF IPhase
    <2>4. wanted' # 0 => kept \subseteq kept'
      BY <1>1, <2>1
    <2> QED
      BY <1>1, <2>1, <2>2, <2>3, <2>4 DEF IWanted, Calm, NoOp, Changes
  <1>10. Calm' => IAgree'
    BY <1>1 DEF IAgree, Calm, DerivedOf, IPhase, IKind, ILink, NoOp, Types, Ops
  <1>11. Calm' => ISound'
    BY <1>1 DEF ISound, Calm, Sound, NoOp, LinkIsValid
  <1>12. Calm' => IBefore'
    BY <1>1 DEF IBefore, Calm, DerivedOf, IPhase, IKind, NoOp, Changes
  <1>13. Calm' => IForward'
    BY <1>1 DEF IForward, Calm, RanBefore
  <1>14. Calm' => IBack'
    BY <1>1 DEF IBack, Calm, IPhase, IKind, NoOp, Changes
  <1> QED
    BY <1>2, <1>3, <1>5, <1>6, <1>7, <1>8, <1>9, <1>10, <1>11, <1>12, <1>13, <1>14, Zenon

\* The row without a sound link goes.
LEMMA DropRowStep ==
    ASSUME IInv, DropRow
    PROVE  IInv'
  <1> USE RepositoryAssumption DEF IInv, Shape, Order
  <1>1. /\ pc = "dropRow" /\ pc' = "retire"
        /\ (active' = 0 /\ torn' = torn) \/ (torn' = TRUE /\ active' = active)
        /\ UNCHANGED <<kept, prev, link, effective, pin, prevPin, bad, saved, moved, release,
                       op, before, result, wanted>>
    BY DEF DropRow, Fault, NoFault
  <1>2. Flags'
    BY <1>1, Zenon DEF Flags
  <1>3. op' \in Ops /\ before' \in Befores
    BY <1>1, OpTypes DEF Types, Choices
  <1>4. Types'
    BY <1>1, <1>3, OpTypes DEF Types, Choices, Steps
  <1>5. IKind'
    BY <1>1 DEF IKind
  <1>6. IPhase'
    BY <1>1 DEF IPhase
  <1>7. ILink'
    BY <1>1 DEF ILink
  <1>8. IWanted'
    BY <1>1 DEF IWanted, Calm
  <1>9. Calm' => IAgree'
    BY <1>1 DEF IAgree, Calm, DerivedOf, IPhase, IKind, ILink, NoOp, Types, Ops
  <1>10. Calm' => ISound'
    BY <1>1 DEF ISound, Calm, Sound
  <1>11. Calm' => IBefore'
    BY <1>1 DEF IBefore, Calm, DerivedOf
  <1>12. Calm' => IForward'
    BY <1>1 DEF IForward, Calm, RanBefore
  <1>13. Calm' => IBack'
    BY <1>1 DEF IBack, Calm
  <1> QED
    BY <1>2, <1>3, <1>4, <1>5, <1>6, <1>7, <1>8, <1>9, <1>10, <1>11, <1>12, <1>13, Zenon

\* retirePackages.
LEMMA RetireStep ==
    ASSUME IInv, RetirePackages
    PROVE  IInv'
  <1> USE RepositoryAssumption DEF IInv, Shape, Order
  <1>1. /\ pc = "retire"
        /\ IF active \in Retired THEN pc' = "unlink" /\ op' = StartUp("retire")
           ELSE pc' = "first" /\ op' = NoOp
        /\ UNCHANGED <<kept, prev, active, link, effective, pin, prevPin, bad, saved, moved,
                       release, before, result, torn, wanted>>
    BY DEF RetirePackages, Fault, NoFault, StartUp, NoOp
  <1>2. Flags'
    BY <1>1, Zenon DEF Flags
  <1>3. op' \in Ops /\ before' \in Befores
    BY <1>1, OpTypes DEF Types, Choices
  <1>4. Types'
    BY <1>1, <1>3, OpTypes DEF Types, Choices, Steps
  <1>5. IKind'
    BY <1>1 DEF IKind, NoOp, StartUp
  <1>6. IPhase'
    BY <1>1 DEF IPhase, NoOp, Changes, StartUp
  <1>7. ILink'
    BY <1>1 DEF ILink
  <1>8. IWanted'
    BY <1>1 DEF IWanted, Calm, NoOp, Changes
  <1>9. Calm' => IAgree'
    BY <1>1 DEF IAgree, Calm, DerivedOf, NoOp, StartUp
  <1>10. Calm' => ISound'
    BY <1>1 DEF ISound, Calm, Sound, NoOp, StartUp
  <1>11. Calm' => IBefore'
    BY <1>1 DEF IBefore, Calm, DerivedOf, NoOp, Changes, StartUp
  <1>12. Calm' => IForward'
    BY <1>1 DEF IForward, Calm, RanBefore
  <1>13. Calm' => IBack'
    BY <1>1 DEF IBack, Calm, NoOp, Changes, StartUp
  <1> QED
    BY <1>2, <1>3, <1>4, <1>5, <1>6, <1>7, <1>8, <1>9, <1>10, <1>11, <1>12, <1>13, Zenon

\* The first rebuildEffective.
LEMMA FirstStep ==
    ASSUME IInv, DeriveFirst
    PROVE  IInv'
  <1> USE RepositoryAssumption DEF IInv, Shape, Order
  <1>1. /\ pc = "first" /\ pc' = "apply"
        /\ effective' = (IF active # 0 THEN active ELSE 0)
        /\ op' = NoOp
        /\ UNCHANGED <<kept, prev, active, link, pin, prevPin, bad, saved, moved, release,
                       before, result, torn, wanted>>
    BY DEF DeriveFirst, Fault, NoFault, Derived, Runs
  <1>2. Flags'
    BY <1>1, Zenon DEF Flags
  <1>3. op' \in Ops /\ before' \in Befores
    BY <1>1, OpTypes DEF Types, Choices
  <1>4. Types'
    BY <1>1, <1>3, OpTypes DEF Types, Choices, Steps
  <1>5. IKind'
    BY <1>1 DEF IKind, NoOp
  <1>6. IPhase'
    BY <1>1 DEF IPhase
  <1>7. ILink'
    BY <1>1 DEF ILink
  <1>8. IWanted'
    BY <1>1 DEF IWanted, Calm, NoOp, Changes
  <1>9. Calm' => IAgree'
    BY <1>1 DEF IAgree, Calm, DerivedOf
  <1>10. Calm' => ISound'
    BY <1>1 DEF ISound, Calm, Sound
  <1>11. Calm' => IBefore'
    BY <1>1 DEF IBefore, Calm, DerivedOf, NoOp, Changes
  <1>12. Calm' => IForward'
    BY <1>1 DEF IForward, Calm, RanBefore
  <1>13. Calm' => IBack'
    BY <1>1 DEF IBack, Calm, NoOp, Changes
  <1> QED
    BY <1>2, <1>3, <1>4, <1>5, <1>6, <1>7, <1>8, <1>9, <1>10, <1>11, <1>12, <1>13, Zenon

\* The second rebuildEffective.
LEMMA ApplyStep ==
    ASSUME IInv, ApplyBundled
    PROVE  IInv'
  <1> USE RepositoryAssumption DEF IInv, Shape, Order
  <1>1. /\ pc = "apply" /\ pc' = "migrate"
        /\ effective' = DerivedOf(active, pin)
        /\ UNCHANGED <<kept, prev, active, link, pin, prevPin, bad, saved, moved, release, op,
                       before, result, torn, wanted>>
    BY DEF ApplyBundled, Fault, NoFault, Derived, DerivedOf
  <1>2. Flags'
    BY <1>1, Zenon DEF Flags
  <1>3. op' \in Ops /\ before' \in Befores
    BY <1>1, OpTypes DEF Types, Choices
  <1>4. Types'
    BY <1>1, <1>3, OpTypes DEF Types, Choices, Steps
  <1>5. IKind'
    BY <1>1 DEF IKind
  <1>6. IPhase'
    BY <1>1 DEF IPhase
  <1>7. ILink'
    BY <1>1 DEF ILink
  <1>8. IWanted'
    BY <1>1 DEF IWanted, Calm
  <1>9. Calm' => IAgree'
    BY <1>1 DEF IAgree, Calm, DerivedOf
  <1>10. Calm' => ISound'
    BY <1>1 DEF ISound, Calm, Sound
  <1>11. Calm' => IBefore'
    BY <1>1 DEF IBefore, Calm, DerivedOf
  <1>12. Calm' => IForward'
    BY <1>1 DEF IForward, Calm, RanBefore
  <1>13. Calm' => IBack'
    BY <1>1 DEF IBack, Calm
  <1> QED
    BY <1>2, <1>3, <1>4, <1>5, <1>6, <1>7, <1>8, <1>9, <1>10, <1>11, <1>12, <1>13, Zenon

\* MigrateReplaced.
LEMMA MigrateStep ==
    ASSUME IInv, MigrateReplaced
    PROVE  IInv'
  <1> USE RepositoryAssumption DEF IInv, Shape, Order
  <1>1. /\ pc = "migrate"
        /\ \/ /\ release.replaces /\ active # 0 /\ moved' = TRUE /\ pc' = "unlink"
              /\ op' = StartUp("migrate")
           \/ pc' = "idle" /\ UNCHANGED <<moved, op>>
        /\ UNCHANGED <<kept, prev, active, link, effective, pin, prevPin, bad, saved, release,
                       before, result, torn, wanted>>
    BY DEF MigrateReplaced, Fault, NoFault, StartUp, NoOp
  <1>2. Flags'
    BY <1>1, Zenon DEF Flags
  <1>3. op' \in Ops /\ before' \in Befores
    BY <1>1, OpTypes DEF Types, Choices
  <1>4. Types'
    BY <1>1, <1>3, OpTypes DEF Types, Choices, Steps
  <1>5. IKind'
    BY <1>1 DEF IKind, NoOp, StartUp
  <1>6. IPhase'
    BY <1>1 DEF IPhase, NoOp, Changes, StartUp
  <1>7. ILink'
    BY <1>1 DEF ILink
  <1>8. IWanted'
    BY <1>1 DEF IWanted, Calm
  <1>9. Calm' => IAgree'
    BY <1>1 DEF IAgree, Calm, DerivedOf
  <1>10. Calm' => ISound'
    BY <1>1 DEF ISound, Calm, Sound
  <1>11. Calm' => IBefore'
    BY <1>1 DEF IBefore, Calm, DerivedOf, NoOp, Changes, StartUp
  <1>12. Calm' => IForward'
    BY <1>1 DEF IForward, Calm, RanBefore
  <1>13. Calm' => IBack'
    BY <1>1 DEF IBack, Calm, NoOp, Changes, StartUp
  <1> QED
    BY <1>2, <1>3, <1>4, <1>5, <1>6, <1>7, <1>8, <1>9, <1>10, <1>11, <1>12, <1>13, Zenon

\* The configuration is saved.
LEMMA SaveStep ==
    ASSUME IInv, SaveMoved
    PROVE  IInv'
  <1> USE RepositoryAssumption DEF IInv, Shape, Order
  <1>1. /\ pc = "save" /\ pc' = "idle" /\ op' = NoOp
        /\ saved' = moved \/ saved' = saved
        /\ UNCHANGED <<kept, prev, active, link, effective, pin, prevPin, bad, moved, release,
                       before, result, torn, wanted>>
    BY DEF SaveMoved, Fault, NoFault
  <1>2. Flags'
    BY <1>1, Zenon DEF Flags
  <1>3. op' \in Ops /\ before' \in Befores
    BY <1>1, OpTypes DEF Types, Choices
  <1>4. Types'
    BY <1>1, <1>3, OpTypes DEF Types, Choices, Steps
  <1>5. IKind'
    BY <1>1 DEF IKind, NoOp
  <1>6. IPhase'
    BY <1>1 DEF IPhase
  <1>7. ILink'
    BY <1>1 DEF ILink
  <1>8. IWanted'
    BY <1>1 DEF IWanted, Calm, IPhase, IKind, NoOp, Changes
  <1>9. Calm' => IAgree'
    BY <1>1 DEF IAgree, Calm, DerivedOf
  <1>10. Calm' => ISound'
    BY <1>1 DEF ISound, Calm, Sound
  <1>11. Calm' => IBefore'
    BY <1>1 DEF IBefore, Calm, DerivedOf, NoOp, Changes
  <1>12. Calm' => IForward'
    BY <1>1 DEF IForward, Calm, RanBefore
  <1>13. Calm' => IBack'
    BY <1>1 DEF IBack, Calm, NoOp, Changes
  <1> QED
    BY <1>2, <1>3, <1>4, <1>5, <1>6, <1>7, <1>8, <1>9, <1>10, <1>11, <1>12, <1>13, Zenon

-----------------------------------------------------------------------------
(* The invariant, and what follows from it *)

\* A step that changes nothing keeps the invariant.
LEMMA Stutter ==
    ASSUME IInv, UNCHANGED vars
    PROVE  IInv'
  <1>1. UNCHANGED <<kept, prev, active, link, effective, pin, prevPin, bad, saved,
                    moved, release, pc, op, before, result, torn, wanted>>
    BY DEF vars
  <1>2. Types' /\ Flags'
    BY <1>1 DEF IInv, Types, Flags
  <1>3. Shape' /\ IWanted'
    BY <1>1 DEF IInv, Shape, IKind, IPhase, ILink, IWanted, Calm
  <1>4. Calm' => Order'
    BY <1>1 DEF IInv, Calm, Order, IAgree, ISound, IBefore, IForward, IBack, Sound,
                DerivedOf, RanBefore
  <1> QED
    BY <1>2, <1>3, <1>4 DEF IInv

\* The box off, with what an older release left selected, satisfies it.
LEMMA Start == Init => IInv
  <1> SUFFICES ASSUME Init PROVE IInv
    OBVIOUS
  <1>1. Types /\ op = NoOp
    BY RepositoryAssumption DEF Init, Types, Choices, Steps, NoOp, Ops, Befores, Derived
  <1>2. Flags
    BY Zenon DEF Init, Flags
  <1>3. Shape
    BY <1>1 DEF Init, Shape, IKind, IPhase, ILink, NoOp, Changes, Types, Choices
  <1>4. IWanted
    BY DEF Init, IWanted, NoOp, Changes, Calm
  <1>5. Order
    BY DEF Init, Order, IAgree, ISound, IBefore, IForward, IBack, NoOp, Changes
  <1> QED
    BY <1>1, <1>2, <1>3, <1>4, <1>5 DEF IInv

\* Every step keeps it.
LEMMA Step ==
    ASSUME IInv, [Next]_vars
    PROVE  IInv'
  <1>1. ASSUME NEW v \in Versions, Install(v) \/ ActivateInstalled(v) \/ Damage(v) PROVE IInv'
    BY <1>1, InstallStep, ActivateStep, DamageStep
  <1>2. ASSUME NEW r \in Releases, Boot(r) PROVE IInv'
    BY <1>2, BootStep
  <1> QED
    BY <1>1, <1>2, Stutter, RollbackStep, BundledStep, RowStep, LinkStep, UndoStep, UnlinkStep,
       UnrowStep, PinPreviousStep, PinStep, DeriveStep, StartedStep, NotStartedStep,
       RecoveredStep, StopStep, ReconcileStep, DropRowStep, RetireStep, FirstStep,
       ApplyStep, MigrateStep, SaveStep, Zenon DEF Next

\* IInv holds in every reachable state of the repository's records, whatever the
\* manager's operations, stops, releases and failing writes are.
THEOREM Invariance == Spec => []IInv
  <1>1. Init => IInv
    BY Start
  <1>2. IInv /\ [Next]_vars => IInv'
    BY Step
  <1> QED
    BY <1>1, <1>2, PTL DEF Spec

\* Whenever no operation is in progress, the row, the link and what the resolver runs
\* agree: the manager's undo, recovery and start-up leave no operation half done.
THEOREM RecordsStayInAgreement == Spec => []RecordsAgree
  <1>1. ASSUME IInv PROVE TypeOK
    <2>1. saved \in BOOLEAN /\ moved \in BOOLEAN /\ torn \in BOOLEAN
      BY <1>1 DEF IInv, Flags
    <2> QED
      BY <1>1, <2>1 DEF IInv, Types, Ops, Shape, ILink, TypeOK
  <1>2. ASSUME IInv PROVE ResolverFollowsSelection
    <2>1. ~ torn => Calm
      BY <1>2, Zenon DEF IInv, Flags, Calm
    <2> QED
      BY <1>2, <2>1 DEF IInv, Order, IAgree, DerivedOf, Derived, ResolverFollowsSelection
  <1>3. IInv => RecordsAgree
    BY <1>1, <1>2, Zenon DEF RecordsAgree
  <1> QED
    BY <1>3, Invariance, PTL

\* Nothing damaged and no retired package runs: validateInstalledFile, retiredPackage
\* and the start-up stand between a retained file and effective/<path>.
THEOREM RunningIsSound == Spec => []OnlySoundArtifactsRun
  <1>1. ASSUME IInv PROVE OnlySoundArtifactsRun
    <2>1. ~ torn => Calm
      BY <1>1, Zenon DEF IInv, Flags, Calm
    <2> QED
      BY <1>1, <2>1 DEF IInv, Order, IAgree, ISound, Sound, DerivedOf, OnlySoundArtifactsRun
  <1> QED
    BY <1>1, Invariance, PTL

\* A version the owner went back to keeps running until the owner moves on, asks for the
\* release's own copy or loses its file or row: recordChoice and restoreChoice keep the pin,
\* across failed operations and stops, except a stop before restoreChoice saved it.
THEOREM ChoicesStay == Spec => []GoingBackStays
  <1>1. ASSUME IInv PROVE GoingBackStays
    <2>1. ~ torn => Calm
      BY <1>1, Zenon DEF IInv, Flags, Calm
    <2> QED
      BY <1>1, <2>1 DEF IInv, Order, IAgree, IWanted, DerivedOf, Runs, GoingBackStays
  <1> QED
    BY <1>1, Invariance, PTL

-----------------------------------------------------------------------------
(* A failed change *)

\* What an operation that failed has put back.
Restored ==
    (pc # "idle" /\ pc' = "idle" /\ result' = "failed" /\ op.kind # "bundled" /\ ~ torn') =>
         /\ active' = before.active /\ effective' = before.effective
         /\ (active' # 0 => pin' = before.pin)

\* The steps at which a change may end as failed.
LEMMA WhereItFails ==
    ASSUME IInv, Next, pc # "idle", pc' = "idle", result' = "failed"
    PROVE  StepRow \/ StepUndo \/ StepUnlink \/ StepRecovered
  <1>1. ASSUME NEW v \in Versions PROVE ~ (Install(v) \/ ActivateInstalled(v) \/ Damage(v))
    BY DEF Install, ActivateInstalled, Damage, Begin
  <1>2. ~ (Rollback \/ UseBundled \/ StepLink \/ StepPinPrevious \/ StepPin)
    BY DEF Rollback, UseBundled, Begin, StepLink, StepPinPrevious, StepPin
  <1>3. ~ (StepDerive \/ StepStarted \/ Stop \/ \E r \in Releases : Boot(r))
    BY DEF StepDerive, StepStarted, Stop, Boot, AfterDeactivate
  <1>4. ~ (Reconcile \/ DropRow \/ RetirePackages \/ DeriveFirst \/ ApplyBundled)
    BY DEF Reconcile, DropRow, RetirePackages, DeriveFirst, ApplyBundled
  <1>5. ~ (MigrateReplaced \/ SaveMoved)
    BY DEF MigrateReplaced, SaveMoved, IInv, Shape, IPhase
  <1>6. ~ StepUnrow
    BY DEF StepUnrow, GiveUp, End, AfterDeactivate
  <1>7. ~ StepNotStarted
    BY DEF StepNotStarted, End
  <1> QED
    BY <1>1, <1>2, <1>3, <1>4, <1>5, <1>6, <1>7, Zenon DEF Next

\* Each of them has put the selection back.
LEMMA FailureRestores ==
    ASSUME IInv, [Next]_vars
    PROVE  Restored
  <1> SUFFICES ASSUME pc # "idle", pc' = "idle", result' = "failed", op.kind # "bundled", ~ torn'
               PROVE  /\ active' = before.active /\ effective' = before.effective
                      /\ (active' # 0 => pin' = before.pin)
    BY DEF Restored
  <1>1. ~ torn => Calm
    BY Zenon DEF IInv, Flags, Calm
  <1>2. CASE StepRow
    <2>1. pc = "row" /\ ~ op.again /\ UNCHANGED <<active, effective, pin>> /\ ~ torn
      BY <1>2 DEF StepRow, GiveUp, End
    <2> QED
      BY <1>1, <2>1 DEF IInv, Types, Ops, Choices, Shape, IKind, IPhase, ILink, NoOp, Order,
                        IForward, Changes
  <1>3. CASE StepUndo
    <2>1. pc = "undo" /\ ~ op.again /\ UNCHANGED <<effective, pin>> /\ active' = op.from
    /\ ~ torn
      BY <1>3 DEF StepUndo, UndoRow, ActivateRow, GiveUp, End
    <2> QED
      BY <1>1, <2>1 DEF IInv, Types, Ops, Choices, Shape, IKind, IPhase, ILink, NoOp, Order,
                        IForward, Changes
  <1>4. CASE StepUnlink
    <2>1. pc = "unlink" /\ ~ op.again /\ op.kind \notin {"retire", "migrate"}
      BY <1>4 DEF StepUnlink, AfterDeactivate, GiveUp, End
    <2> QED
      BY <2>1 DEF IInv, Types, Ops, Shape, IKind, IPhase
  <1>5. CASE StepRecovered
    <2>1. /\ pc = "restart" /\ op.again /\ UNCHANGED <<active, effective, pin>> /\ ~ torn
          /\ op.mode = "forget" => before.active = 0
      BY <1>5 DEF StepRecovered, End
    <2>2. op.kind \in Changes /\ effective = DerivedOf(active, pin)
      BY <1>1, <2>1 DEF IInv, Shape, IPhase, Order, IAgree
    <2>3. active = before.active /\ before.effective = DerivedOf(before.active, before.pin)
      BY <1>1, <2>1, <2>2 DEF IInv, Types, Ops, Shape, IKind, Order, IBefore, IBack, Changes
    <2>4. active # 0 => pin = before.pin
      BY <1>1, <2>1, <2>2, <2>3 DEF IInv, Types, Ops, Shape, IKind, Order, IBack, Changes
    <2> QED
      BY <2>1, <2>2, <2>3, <2>4 DEF DerivedOf
  <1>6. ~ UNCHANGED vars
    BY DEF vars
  <1> QED
    BY <1>2, <1>3, <1>4, <1>5, <1>6, WhereItFails, Zenon

\* An install, a switch of version or a rollback that failed and was recovered leaves the
\* selection, what runs and the owner's choice as they were: the handlers' rollback after
\* a restart that failed, and the manager's undo after a failing write.
THEOREM FailuresRestore == Spec => FailedUpdateRestores
  <1>1. IInv /\ [Next]_vars => [Restored]_vars
    BY FailureRestores
  <1>2. []IInv /\ [][Next]_vars => [][Restored]_vars
    BY <1>1, PTL
  <1>3. Spec => [][Restored]_vars
    BY <1>2, Invariance, PTL DEF Spec
  <1> QED
    BY <1>3 DEF FailedUpdateRestores, Restored
=============================================================================
