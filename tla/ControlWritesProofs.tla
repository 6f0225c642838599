------------------------ MODULE ControlWritesProofs ------------------------
(***************************************************************************)
(* Safety of the write-behind store for every set of keys, groups, intents *)
(* and callers and every buffer limit: the inductive invariant IInv, and   *)
(* the properties of ControlWrites that follow from it.                    *)
(***************************************************************************)
EXTENDS ControlWrites, TLAPS

\* The worker's locals belong to a queued job while it has one in hand.
IWorker ==
    /\ group = NoGroup => active = Empty /\ worker \in {"top", "waiting", "done"}
    /\ group # NoGroup => /\ worker \in {"writing", "wrote", "failed"} /\ group \in queued
                          /\ first[group] <= wseq /\ wseq <= seq[group]
                          /\ wseq = seq[group] => active = values[group]

Distinct(q) == \A i, j \in 1..Len(q) : q[i] = q[j] => i = j

\* The groups that wait for the worker are queued, each once, and the one in
\* hand is not among them.
IOrder ==
    /\ \A i \in 1..Len(order) : order[i] \in queued /\ order[i] # group
    /\ Distinct(order)

\* A job's unwritten sequences, between what is on disk and the newest.
ISeqs ==
    /\ \A g \in Groups : durable[g] <= lastSeq /\ latest[g].seq <= lastSeq
    /\ \A k \in Keys : committedSeq[k] <= lastSeq
    /\ \A g \in queued :
         /\ 0 < first[g] /\ first[g] <= seq[g] /\ seq[g] <= lastSeq
         /\ latest[g] = [values |-> values[g], seq |-> seq[g]]
         /\ IF g = group /\ worker = "wrote" THEN durable[g] = wseq ELSE durable[g] < first[g]

\* No key is in two jobs, the intent in flight included.
IDisjoint ==
    \A g, h \in queued : g # h =>
        (DOMAIN values[g] \cup DOMAIN Active(g)) \cap (DOMAIN values[h] \cup DOMAIN Active(h)) = {}

\* An intent that is not committed yet is newer than what is.
INewer ==
    /\ \A g \in queued : \A k \in DOMAIN values[g] : committedSeq[k] < seq[g]
    /\ \A k \in DOMAIN active : committedSeq[k] < wseq

\* The disk is ahead of the cache only by the intent that was just written.
IDisk ==
    /\ \A k \in Keys : cache[k] = disk[k] \/ (worker = "wrote" /\ k \in DOMAIN active)
    /\ worker = "wrote" => \A k \in DOMAIN active : disk[k] = active[k]

\* A group with no job has its last intent on disk, or a newer one of
\* another group has taken the key over; and so it stays.
ILatest ==
    \A g \in Groups \ queued : \A k \in DOMAIN latest[g].values :
        /\ \/ disk[k] = latest[g].values[k]
           \/ latest[g].seq < committedSeq[k]
           \/ worker = "wrote" /\ k \in DOMAIN active
        /\ \A h \in queued : k \in DOMAIN values[h] => latest[g].seq < seq[h]
        /\ k \in DOMAIN active => latest[g].seq < wseq

\* What a Flush waits for is in a job, or on disk.
IWant ==
    \A f \in Callers : \A g \in Groups :
        \/ durable[g] >= want[f][g]
        \/ g \in queued /\ first[g] <= want[f][g] /\ want[f][g] <= seq[g]
             /\ at[f] \notin {"drained", "nil"}

Safe == IWorker /\ IOrder /\ ISeqs /\ IDisjoint /\ INewer /\ IDisk /\ ILatest /\ IWant

IInv == TypeOK /\ Safe

USE DEF cacheVars, jobVars, workerVars, callerVars, history

-----------------------------------------------------------------------------
(* Intents *)

\* An intent maps some keys to values; the empty one maps none.
LEMMA IntentFacts ==
    /\ Empty \in Intents /\ DOMAIN Empty = {}
    /\ \A v \in Intents : DOMAIN v \subseteq Keys /\ \A k \in DOMAIN v : v[k] \in Values
  <1>1. Empty \in [{} -> Values]
    BY DEF Empty
  <1>2. Empty \in Intents
    BY <1>1 DEF Intents
  <1>3. DOMAIN Empty = {}
    BY DEF Empty
  <1>4. ASSUME NEW v \in Intents
        PROVE  DOMAIN v \subseteq Keys /\ \A k \in DOMAIN v : v[k] \in Values
    <2>1. PICK S \in SUBSET Keys : v \in [S -> Values]
      BY DEF Intents
    <2> QED
      BY <2>1
  <1> QED
    BY <1>2, <1>3, <1>4

\* What is saved: a group and an intent.
LEMMA SaveFacts == \A s \in Saves : s[1] \in Groups /\ s[2] \in Intents
  BY ControlWritesAssumption

-----------------------------------------------------------------------------
(* Types *)

\* The empty store satisfies the invariant.
LEMMA InitIInv == Init => IInv
  <1> SUFFICES ASSUME Init PROVE IInv
    OBVIOUS
  <1> USE ControlWritesAssumption, IntentFacts
  <1>1. TypeOK
    <2>1. overflow \in BOOLEAN /\ closed \in BOOLEAN /\ wake \in BOOLEAN
      BY Zenon DEF Init
    <2>2. latest \in [Groups -> [values : Intents, seq : Nat]]
      BY DEF Init, NoIntent
    <2> QED
      BY <2>1, <2>2 DEF Init, TypeOK, WorkerPcs, CallerPcs
  <1>2. Safe
    BY DEF Init, Safe, IWorker, IOrder, Distinct, ISeqs, IDisjoint, INewer, IDisk, ILatest, IWant,
       NoIntent
  <1> QED
    BY <1>1, <1>2 DEF IInv


\* Every step keeps the types; a disk write needs to know that it has a group.
LEMMA TypeOKStep == IInv /\ [Next]_vars => TypeOK'
  <1> SUFFICES ASSUME TypeOK, IWorker, [Next]_vars PROVE TypeOK'
    BY DEF IInv, Safe
  <1> USE ControlWritesAssumption, IntentFacts DEF TypeOK
  <1> USE DEF WorkerPcs, CallerPcs, Callers
  <1>1. ASSUME NEW s \in Saves, SaveRefused(s[1], s[2]) PROVE TypeOK'
    <2>1. overflow' \in BOOLEAN
      BY <1>1, Zenon DEF SaveRefused, Reject
    <2> QED
      BY <1>1, <2>1, SaveFacts, SMTT(30) DEF SaveRefused, Reject, Unchanged
  <1>2. ASSUME NEW s \in Saves, SaveAgain(s[1], s[2]) PROVE TypeOK'
    <2>1. overflow' \in BOOLEAN
      BY <1>2, Zenon DEF SaveAgain, Reject
    <2> QED
      BY <1>2, <2>1, SaveFacts DEF SaveAgain, Reject, Unchanged
  <1>3. ASSUME NEW s \in Saves, SaveCommitted(s[1], s[2]) PROVE TypeOK'
    BY <1>3, SaveFacts DEF SaveCommitted, Unchanged
  <1>4. ASSUME NEW s \in Saves, SaveAccepted(s[1], s[2]) PROVE TypeOK'
    <2>1. wake' \in BOOLEAN
      BY <1>4, Zenon DEF SaveAccepted, Signal
    <2>2. order' \in Seq(Groups) /\ lastSeq' \in Nat
      BY <1>4, SaveFacts DEF SaveAccepted
    <2> QED
      BY <1>4, <2>1, <2>2, SaveFacts DEF SaveAccepted, Signal, Unchanged
  <1>5. CASE Rest
    BY <1>5 DEF Rest, RestOrEnd, WorkerOnly
  <1>6. CASE Wake
    <2>1. wake' \in BOOLEAN
      BY <1>6, Zenon DEF Wake
    <2> QED
      BY <1>6, <2>1 DEF Wake, WorkerOnly
  <1>7. CASE Take
    <2>1. Head(order) \in Groups /\ Tail(order) \in Seq(Groups)
      BY <1>7 DEF Take
    <2> QED
      BY <1>7, <2>1 DEF Take, WorkerOnly
  <1>8. ASSUME NEW ok \in BOOLEAN, DiskWrite(ok) PROVE TypeOK'
    <2>1. group \in Groups
      BY <1>8 DEF DiskWrite, IWorker
    <2>2. disk' \in [Keys -> Values \cup {NoValue}]
      BY <1>8, ZenonT(40) DEF DiskWrite
    <2>3. durable' = [durable EXCEPT ![group] = wseq] \/ durable' = durable
      BY <1>8, Zenon DEF DiskWrite
    <2>4. durable' \in [Groups -> Nat]
      BY <2>1, <2>3
    <2>5. fails' \in Nat /\ worker' \in WorkerPcs
      BY <1>8 DEF DiskWrite
    <2> QED
      BY <1>8, <2>2, <2>4, <2>5 DEF DiskWrite, WorkerOnly
  <1>9. CASE Commit
    <2>1. group \in Groups
      BY <1>9 DEF Commit, IWorker
    <2>2. wake' \in BOOLEAN
      BY <1>9, Zenon DEF Commit, Signal
    <2>3. cache' \in [Keys -> Values \cup {NoValue}] /\ committedSeq' \in [Keys -> Nat]
      BY <1>9 DEF Commit, CommittedAs
    <2>4. /\ queued' \subseteq Groups /\ first' \in [Groups -> Nat] /\ seq' \in [Groups -> Nat]
          /\ values' \in [Groups -> Intents] /\ failed' \subseteq Groups /\ order' \in Seq(Groups)
      <3>1. CASE JobIsWritten
        <4>1. /\ queued' = queued \ {group} /\ failed' = failed \ {group}
              /\ first' = [first EXCEPT ![group] = 0] /\ seq' = [seq EXCEPT ![group] = 0]
              /\ values' = [values EXCEPT ![group] = Empty] /\ UNCHANGED order
          BY <1>9, <3>1, Zenon DEF Commit, CommitJob
        <4> QED
          BY <4>1, <2>1
      <3>2. CASE ~JobIsWritten
        <4>1. Append(order, group) \in Seq(Groups)
          BY <2>1
        <4>2. /\ first' = [first EXCEPT ![group] = wseq + 1] /\ order' = Append(order, group)
              /\ UNCHANGED <<queued, failed, seq, values>>
          BY <1>9, <3>2, Zenon DEF Commit, CommitJob, Requeue
        <4> QED
          BY <2>1, <4>1, <4>2
      <3> QED
        BY <3>1, <3>2
    <2> QED
      BY <1>9, <2>1, <2>2, <2>3, <2>4 DEF Commit, Signal, WorkerOnly
  <1>10. CASE WriteFails
    <2>1. group \in Groups
      BY <1>10 DEF WriteFails, IWorker
    <2>2. wake' \in BOOLEAN
      BY <1>10, Zenon DEF WriteFails, Signal
    <2> QED
      BY <1>10, <2>1, <2>2 DEF WriteFails, Signal, WorkerOnly, Requeue
  <1>11. ASSUME NEW f \in Callers, StartFlush(f) PROVE TypeOK'
    <2>1. at' \in [Callers -> CallerPcs]
      BY <1>11 DEF StartFlush, Look
    <2>2. want' \in [Callers -> [Groups -> Nat]]
      <3> DEFINE w == [h \in Groups |-> IF h \in queued THEN seq[h] ELSE 0]
      <3>1. w \in [Groups -> Nat]
        OBVIOUS
      <3>2. want' = want \/ want' = [want EXCEPT ![f] = w]
        BY <1>11 DEF StartFlush
      <3> QED
        BY <3>1, <3>2, ZenonT(40)
    <2> QED
      BY <1>11, <2>1, <2>2 DEF StartFlush, CallerOnly
  <1>12. ASSUME NEW f \in Callers, LookAgain(f) PROVE TypeOK'
    BY <1>12 DEF LookAgain, Look, CallerOnly
  <1>13. ASSUME NEW f \in Callers, FlushTimesOut(f) PROVE TypeOK'
    BY <1>13 DEF FlushTimesOut, CallerOnly
  <1>14. CASE StartClose
    <2>1. closed' \in BOOLEAN /\ wake' \in BOOLEAN
      BY <1>14, Zenon DEF StartClose, Signal
    <2> QED
      BY <1>14, <2>1 DEF StartClose, Signal, CallerOnly
  <1>15. CASE CloseReturns
    BY <1>15 DEF CloseReturns, CallerOnly
  <1>16. CASE Crash
    <2>1. overflow' \in BOOLEAN /\ closed' \in BOOLEAN /\ wake' \in BOOLEAN
      BY <1>16, Zenon DEF Crash
    <2>2. latest' \in [Groups -> [values : Intents, seq : Nat]]
      BY <1>16 DEF Crash, NoIntent
    <2> QED
      BY <1>16, <2>1, <2>2 DEF Crash
  <1>17. CASE UNCHANGED vars
    BY <1>17 DEF vars
  <1> QED
    BY <1>1, <1>2, <1>3, <1>4, <1>5, <1>6, <1>7, <1>8, <1>9, <1>10, <1>11, <1>12, <1>13,
       <1>14, <1>15, <1>16, <1>17 DEF Next, Save, Worker

-----------------------------------------------------------------------------
(* What the steps need of the types, and of sequences *)

TypeFacts ==
    /\ queued \subseteq Groups /\ lastSeq \in Nat /\ group \in Groups \cup {NoGroup}
    /\ wseq \in Nat /\ order \in Seq(Groups) /\ NoGroup \notin Groups
    /\ \A h \in Groups : first[h] \in Nat /\ seq[h] \in Nat /\ durable[h] \in Nat
    /\ \A h \in Groups : latest[h].seq \in Nat /\ latest[h].values \in Intents
    /\ \A h \in Groups : values[h] \in Intents
    /\ \A k \in Keys : committedSeq[k] \in Nat
    /\ \A f \in Callers, h \in Groups : want[f][h] \in Nat
    /\ active \in Intents

\* The types, one element at a time.
LEMMA TypeOKFacts == ASSUME TypeOK PROVE TypeFacts
  BY ControlWritesAssumption DEF TypeOK, TypeFacts

\* Appending a group that is not in the order keeps each group once.
LEMMA AppendOrder ==
    ASSUME NEW q \in Seq(Groups), NEW g \in Groups, Distinct(q),
           \A i \in 1..Len(q) : q[i] # g
    PROVE  /\ Append(q, g) \in Seq(Groups) /\ Distinct(Append(q, g))
           /\ \A i \in 1..Len(Append(q, g)) :
                Append(q, g)[i] = g \/ \E j \in 1..Len(q) : Append(q, g)[i] = q[j]
  <1> DEFINE r == Append(q, g)
  <1>1. /\ Len(q) \in Nat /\ Len(r) = Len(q) + 1 /\ r[Len(q) + 1] = g
        /\ \A i \in 1..Len(q) : r[i] = q[i]
    OBVIOUS
  <1>2. r \in Seq(Groups)
    OBVIOUS
  <1> HIDE DEF r
  <1>3. \A i \in 1..Len(r) : i = Len(q) + 1 \/ i \in 1..Len(q)
    BY <1>1
  <1>4. ASSUME NEW i \in 1..Len(r), NEW j \in 1..Len(r), r[i] = r[j] PROVE i = j
    BY <1>1, <1>3, <1>4 DEF Distinct
  <1>5. \A i \in 1..Len(r) : r[i] = g \/ \E j \in 1..Len(q) : r[i] = q[j]
    BY <1>1, <1>3
  <1>6. Distinct(r)
    BY <1>4 DEF Distinct
  <1> QED
    BY <1>2, <1>5, <1>6 DEF r

\* Taking the first group leaves the others, each once.
LEMMA TakeOrder ==
    ASSUME NEW q \in Seq(Groups), q # <<>>, Distinct(q)
    PROVE  /\ Head(q) \in Groups /\ 1 \in 1..Len(q) /\ Head(q) = q[1]
           /\ Tail(q) \in Seq(Groups) /\ Distinct(Tail(q))
           /\ \A i \in 1..Len(Tail(q)) :
                Tail(q)[i] # Head(q) /\ \E j \in 1..Len(q) : Tail(q)[i] = q[j]
  <1> DEFINE r == Tail(q)
  <1>1. /\ Len(q) \in Nat /\ Len(q) > 0 /\ Len(r) = Len(q) - 1 /\ Head(q) = q[1]
        /\ \A i \in 1..Len(r) : r[i] = q[i + 1]
    OBVIOUS
  <1>2. r \in Seq(Groups) /\ Head(q) \in Groups
    OBVIOUS
  <1> HIDE DEF r
  <1>3. \A i \in 1..Len(r) : i + 1 \in 1..Len(q) /\ i + 1 # 1
    BY <1>1
  <1>4. 1 \in 1..Len(q)
    BY <1>1
  <1>5. ASSUME NEW i \in 1..Len(r), NEW j \in 1..Len(r), r[i] = r[j] PROVE i = j
    <2>1. i + 1 = j + 1
      BY <1>1, <1>3, <1>5 DEF Distinct
    <2> QED
      BY <2>1
  <1>6. ASSUME NEW i \in 1..Len(r) PROVE r[i] # q[1] /\ \E j \in 1..Len(q) : r[i] = q[j]
    BY <1>1, <1>3, <1>4 DEF Distinct
  <1>7. Distinct(r)
    BY <1>5 DEF Distinct
  <1> QED
    BY <1>1, <1>2, <1>4, <1>6, <1>7 DEF r

-----------------------------------------------------------------------------
(* The steps that matter: one lemma for each *)

Jobs == <<cacheVars, jobVars, workerVars, disk, durable, latest>>

\* The steps that leave the jobs, the worker and the disk alone keep what the
\* invariant says of them.
LEMMA QuietStep ==
    ASSUME IInv, UNCHANGED Jobs
    PROVE  IWorker' /\ IOrder' /\ ISeqs' /\ IDisjoint' /\ INewer' /\ IDisk' /\ ILatest'
  <1> USE DEF IInv, Safe, Jobs
  <1>1. IWorker' /\ IOrder'
    BY DEF IWorker, IOrder
  <1>2. ISeqs' /\ INewer' /\ IDisk'
    BY DEF ISeqs, INewer, IDisk
  <1>3. IDisjoint'
    BY DEF IDisjoint, Active
  <1>4. ILatest'
    BY DEF ILatest
  <1> QED
    BY <1>1, <1>2, <1>3, <1>4

\* A refused or repeated save changes no job.
LEMMA QuietSaveStep ==
    ASSUME IInv, NEW s \in Saves, SaveRefused(s[1], s[2]) \/ SaveAgain(s[1], s[2])
    PROVE  Safe'
  <1>1. UNCHANGED <<Jobs, at, want>>
    BY DEF SaveRefused, SaveAgain, Unchanged, Jobs
  <1>2. IWant'
    BY <1>1 DEF IWant, IInv, Safe, Jobs
  <1> QED
    BY <1>1, <1>2, QuietStep DEF Safe

\* A save of what is committed already: its keys are in no job, so the disk
\* holds them, and whoever takes one over gets a newer sequence.
LEMMA SaveCommittedStep ==
    ASSUME IInv, NEW s \in Saves, SaveCommitted(s[1], s[2])
    PROVE  Safe'
  <1> DEFINE g == s[1]
             v == s[2]
  <1> USE ControlWritesAssumption, IntentFacts DEF IInv, Safe, TypeOK
  <1>1. UNCHANGED <<cacheVars, jobVars, workerVars, disk, durable, at, want>>
    BY DEF SaveCommitted, Unchanged
  <1>2. g \in Groups /\ v \in Intents
    BY SaveFacts
  <1>3. IWorker' /\ IOrder' /\ INewer' /\ IDisk' /\ IWant'
    BY <1>1 DEF IWorker, IOrder, INewer, IDisk, IWant
  <1>4. IDisjoint'
    BY <1>1, SMTT(30) DEF IDisjoint, Active
  <1>5. CASE v = Empty
    <2>1. UNCHANGED latest
      BY <1>5 DEF SaveCommitted
    <2> QED
      BY <1>1, <2>1, <1>3, QuietStep DEF Jobs
  <1>6. CASE v # Empty
    <2>1. /\ g \notin queued /\ ~Overlaps(g, v) /\ Committed(v)
          /\ latest' = [latest EXCEPT ![g] = [values |-> v, seq |-> lastSeq]]
      BY <1>6 DEF SaveCommitted
    <2>2. ISeqs'
      BY <1>1, <1>2, <2>1 DEF ISeqs
    <2>3. ASSUME NEW k \in DOMAIN v
          PROVE  /\ disk[k] = v[k] /\ k \notin DOMAIN active
                 /\ \A h \in queued : k \notin DOMAIN values[h]
      <3>1. \A h \in queued : k \notin DOMAIN values[h] /\ k \notin DOMAIN Active(h)
        BY <2>1 DEF Overlaps
      <3>2. k \notin DOMAIN active
        BY <3>1 DEF Active, IWorker
      <3> QED
        BY <3>1, <3>2, <2>1, <1>2 DEF Committed, IDisk
    <2>4. ILatest'
      BY <1>1, <1>2, <2>1, <2>3 DEF ILatest
    <2> QED
      BY <1>3, <1>4, <2>2, <2>4
  <1> QED
    BY <1>5, <1>6

\* An accepted save: its keys are in no other job, and its sequence is newer
\* than everything the store knows.
LEMMA SaveAcceptedStep ==
    ASSUME IInv, NEW s \in Saves, SaveAccepted(s[1], s[2])
    PROVE  Safe'
  <1> DEFINE g == s[1]
             v == s[2]
  <1> USE IntentFacts DEF IInv, Safe
  <1>1. UNCHANGED <<cacheVars, workerVars, disk, durable, at, want>>
    BY DEF SaveAccepted, Unchanged
  <1>2. g \in Groups /\ v \in Intents
    BY SaveFacts
  <1>3. /\ lastSeq' = lastSeq + 1 /\ queued' = queued \cup {g}
        /\ order' = IF g \in queued THEN order ELSE Append(order, g)
        /\ ~Overlaps(g, v)
    BY DEF SaveAccepted
  <1>4. TypeFacts
    BY TypeOKFacts
  <1> USE DEF TypeFacts
  <1>5. /\ seq'[g] = lastSeq' /\ values'[g] = v /\ latest'[g] = [values |-> v, seq |-> lastSeq']
        /\ first'[g] = IF g \in queued THEN first[g] ELSE lastSeq'
        /\ \A h \in Groups : h # g => /\ seq'[h] = seq[h] /\ values'[h] = values[h]
                                      /\ latest'[h] = latest[h] /\ first'[h] = first[h]
        /\ lastSeq' \in Nat /\ \A h \in Groups : seq'[h] \in Nat /\ first'[h] \in Nat
    BY <1>2 DEF SaveAccepted, TypeOK
  <1>0. ASSUME NEW h \in queued
        PROVE  h \in Groups /\ first'[h] = first[h] /\ seq[h] <= seq'[h] /\ seq[h] < lastSeq'
    <2>1. h \in Groups /\ seq[h] <= lastSeq
      BY <1>4 DEF ISeqs
    <2> QED
      BY <2>1, <1>3, <1>4, <1>5
  <1>6. IWorker'
    <2>1. CASE group = NoGroup
      BY <2>1, <1>1 DEF IWorker
    <2>2. CASE group # NoGroup
      <3>1. group \in queued /\ group \in Groups
        BY <2>2, <1>4 DEF IWorker
      <3>2. first'[group] = first[group] /\ wseq < lastSeq' /\ wseq <= seq'[group]
        BY <3>1, <2>2, <1>0, <1>4, <1>5 DEF IWorker
      <3> QED
        BY <3>1, <3>2, <2>2, <1>1, <1>2, <1>3, <1>4, <1>5 DEF IWorker
    <2> QED
      BY <2>1, <2>2
  <1>7. IOrder'
    <2>1. CASE g \in queued
      BY <2>1, <1>1, <1>3 DEF IOrder
    <2>2. CASE g \notin queued
      <3>1. g # group
        BY <2>2, <1>2, <1>4 DEF IWorker
      <3>2. \A i \in 1..Len(order) : order[i] # g
        BY <2>2 DEF IOrder
      <3> QED
        BY <2>2, <1>1, <1>2, <1>3, <1>4, <3>1, <3>2, AppendOrder, SMTT(30) DEF IOrder
    <2> QED
      BY <2>1, <2>2
  <1>8. ISeqs'
    <2>1. \A h \in Groups : durable'[h] <= lastSeq' /\ latest'[h].seq <= lastSeq'
      BY <1>1, <1>2, <1>3, <1>4, <1>5, SMTT(30) DEF ISeqs
    <2>2. \A k \in Keys : committedSeq'[k] <= lastSeq'
      BY <1>1, <1>3, <1>4 DEF ISeqs
    <2>3. ASSUME NEW h \in queued'
          PROVE  /\ 0 < first'[h] /\ first'[h] <= seq'[h] /\ seq'[h] <= lastSeq'
                 /\ latest'[h] = [values |-> values'[h], seq |-> seq'[h]]
                 /\ IF h = group' /\ worker' = "wrote" THEN durable'[h] = wseq'
                                                      ELSE durable'[h] < first'[h]
      <3>1. CASE h # g
        BY <3>1, <1>1, <1>3, <1>4, <1>5 DEF ISeqs
      <3>2. CASE h = g /\ g \in queued
        <4>1. /\ 0 < first[g] /\ first[g] <= seq[g] /\ seq[g] <= lastSeq
              /\ IF g = group /\ worker = "wrote" THEN durable[g] = wseq ELSE durable[g] < first[g]
          BY <3>2 DEF ISeqs
        <4> QED
          BY <4>1, <3>2, <1>1, <1>2, <1>3, <1>4, <1>5
      <3>3. CASE h = g /\ g \notin queued
        <4>1. g # group
          BY <3>3, <1>2, <1>4 DEF IWorker
        <4> QED
          BY <4>1, <3>3, <1>1, <1>2, <1>3, <1>4, <1>5 DEF ISeqs
      <3> QED
        BY <3>1, <3>2, <3>3
    <2> QED
      BY <2>1, <2>2, <2>3 DEF ISeqs
  <1>9. ASSUME NEW h \in queued, h # g
        PROVE  DOMAIN v \cap (DOMAIN values[h] \cup DOMAIN Active(h)) = {}
    BY <1>3, <1>9 DEF Overlaps
  <1>10. ASSUME NEW h \in Groups \ queued PROVE DOMAIN Active(h) = {}
    BY <1>4, <1>10 DEF Active, IWorker
  <1>11. IDisjoint'
    <2>1. \A h \in Groups : Active(h)' = Active(h)
      BY <1>1 DEF Active
    <2>2. ASSUME NEW h \in queued', NEW i \in queued', h # i, h = g
          PROVE (DOMAIN v \cup DOMAIN Active(g)) \cap (DOMAIN values[i] \cup DOMAIN Active(i)) = {}
      <3>1. i \in queued /\ i # g
        BY <1>3, <2>2
      <3>2. DOMAIN Active(g) \cap (DOMAIN values[i] \cup DOMAIN Active(i)) = {}
        BY <1>2, <1>10, <3>1 DEF IDisjoint
      <3> QED
        BY <3>1, <3>2, <1>9
    <2> QED
      BY <1>2, <1>3, <1>4, <1>5, <2>1, <2>2 DEF IDisjoint
  <1>12. INewer'
    BY <1>1, <1>2, <1>3, <1>4, <1>5 DEF INewer, ISeqs
  <1>13. IDisk'
    BY <1>1 DEF IDisk
  <1>14. ILatest'
    <2> SUFFICES ASSUME NEW h \in Groups \ queued', NEW k \in DOMAIN latest'[h].values
                 PROVE  /\ \/ disk'[k] = latest'[h].values[k]
                           \/ latest'[h].seq < committedSeq'[k]
                           \/ worker' = "wrote" /\ k \in DOMAIN active'
                        /\ \A i \in queued' : k \in DOMAIN values'[i] => latest'[h].seq < seq'[i]
                        /\ k \in DOMAIN active' => latest'[h].seq < wseq'
      BY DEF ILatest
    <2>1. h \notin queued /\ h # g /\ latest'[h] = latest[h]
      BY <1>3, <1>5
    <2>2. ASSUME NEW i \in queued', k \in DOMAIN values'[i] PROVE latest'[h].seq < seq'[i]
      <3>1. CASE i = g
        BY <3>1, <2>1, <1>3, <1>4, <1>5 DEF ISeqs
      <3>2. CASE i # g
        BY <3>2, <2>1, <2>2, <1>3, <1>4, <1>5 DEF ILatest
      <3> QED
        BY <3>1, <3>2
    <2> QED
      BY <2>1, <2>2, <1>1 DEF ILatest
  <1>15. IWant'
    <2> SUFFICES ASSUME NEW f \in Callers, NEW h \in Groups, ~(durable[h] >= want[f][h])
                 PROVE  h \in queued' /\ first'[h] <= want[f][h] /\ want[f][h] <= seq'[h]
                          /\ at[f] \notin {"drained", "nil"}
      BY <1>1 DEF IWant
    <2>1. h \in queued /\ first[h] <= want[f][h] /\ want[f][h] <= seq[h]
            /\ at[f] \notin {"drained", "nil"}
      BY DEF IWant
    <2> QED
      BY <2>1, <1>0, <1>3, <1>4, <1>5
  <1> QED
    BY <1>6, <1>7, <1>8, <1>11, <1>12, <1>13, <1>14, <1>15

\* run() between two jobs: nothing is in hand, so nothing is left half done.
LEMMA IdleStep == ASSUME IInv, Rest \/ Wake PROVE Safe'
  <1> USE DEF IInv, Safe
  <1>1. /\ UNCHANGED <<cacheVars, jobVars, group, wseq, active, disk, durable, latest, at, want>>
        /\ worker \in {"top", "waiting"} /\ worker' \in {"top", "waiting", "done"}
    BY DEF Rest, Wake, WorkerOnly, RestOrEnd
  <1>2. group = NoGroup
    BY <1>1 DEF IWorker
  <1>3. IWorker' /\ IOrder' /\ INewer' /\ IDisk' /\ IWant'
    BY <1>1, <1>2 DEF IWorker, IOrder, INewer, IDisk, IWant
  <1>4. ISeqs'
    BY <1>1 DEF ISeqs
  <1>5. IDisjoint'
    BY <1>1 DEF IDisjoint, Active
  <1>6. ILatest'
    BY <1>1 DEF ILatest
  <1> QED
    BY <1>3, <1>4, <1>5, <1>6

\* The worker takes the first group in the order.
LEMMA TakeStep == ASSUME IInv, Take PROVE Safe'
  <1> DEFINE g == Head(order)
  <1> USE IntentFacts DEF IInv, Safe, TypeFacts
  <1>1. TypeFacts
    BY TypeOKFacts
  <1>2. /\ UNCHANGED <<cacheVars, queued, first, seq, values, lastSeq, disk, durable, latest, at, want>>
        /\ worker = "top" /\ worker' = "writing" /\ group' = g /\ order' = Tail(order)
        /\ wseq' = seq[g] /\ active' = values[g]
    BY DEF Take, WorkerOnly
  <1>3. /\ g = order[1] /\ 1 \in 1..Len(order) /\ Distinct(Tail(order))
        /\ \A i \in 1..Len(Tail(order)) :
             Tail(order)[i] # g /\ \E j \in 1..Len(order) : Tail(order)[i] = order[j]
    BY <1>1, TakeOrder DEF Take, IOrder
  <1>4. g \in queued /\ g \in Groups /\ group = NoGroup
    BY <1>1, <1>2, <1>3 DEF IOrder, IWorker
  <1> HIDE DEF g
  <1>5. IWorker'
    <2>1. first[g] <= seq[g]
      BY <1>4 DEF ISeqs
    <2>2. seq[g] <= seq[g] /\ g # NoGroup
      BY <1>1, <1>4
    <2> QED
      BY <2>1, <2>2, <1>2, <1>4 DEF IWorker
  <1>6. IOrder'
    BY <1>2, <1>3 DEF IOrder
  <1>7. ISeqs'
    BY <1>1, <1>2, <1>4 DEF ISeqs
  <1>8. IDisjoint'
    <2>1. \A h \in queued : DOMAIN Active(h)' \subseteq DOMAIN values[h]
      BY <1>1, <1>2, <1>4 DEF Active
    <2> QED
      BY <2>1, <1>2 DEF IDisjoint
  <1>9. INewer'
    BY <1>2, <1>4 DEF INewer
  <1>10. IDisk'
    BY <1>2 DEF IDisk
  <1>11. ILatest'
    BY <1>2, <1>4 DEF ILatest
  <1>12. IWant'
    BY <1>2 DEF IWant
  <1> QED
    BY <1>5, <1>6, <1>7, <1>8, <1>9, <1>10, <1>11, <1>12

\* The transaction commits, or fails and leaves the disk as it was.
LEMMA DiskWriteStep == ASSUME IInv, NEW ok \in BOOLEAN, DiskWrite(ok) PROVE Safe'
  <1> USE IntentFacts DEF IInv, Safe, TypeFacts
  <1>1. TypeFacts
    BY TypeOKFacts
  <1>2. UNCHANGED <<cacheVars, jobVars, group, wseq, active, latest, at, want>> /\ worker = "writing"
    BY DEF DiskWrite, WorkerOnly
  <1>3. group \in queued /\ group \in Groups
    BY <1>1, <1>2 DEF IWorker
  <1>4. \/ worker' = "failed" /\ UNCHANGED <<disk, durable>>
        \/ /\ worker' = "wrote" /\ durable' = [durable EXCEPT ![group] = wseq]
           /\ disk' = [k \in Keys |-> IF k \in DOMAIN active THEN active[k] ELSE disk[k]]
    BY Zenon DEF DiskWrite
  <1>5. IDisjoint'
    BY <1>2 DEF IDisjoint, Active
  <1>6. IWorker' /\ IOrder' /\ INewer'
    <2>1. worker' \in {"wrote", "failed"}
      BY <1>4
    <2> QED
      BY <2>1, <1>1, <1>2, <1>3 DEF IWorker, IOrder, INewer
  <1>7. CASE worker' = "failed" /\ UNCHANGED <<disk, durable>>
    <2>1. ISeqs' /\ IDisk' /\ IWant'
      BY <1>2, <1>7 DEF ISeqs, IDisk, IWant
    <2>2. ILatest'
      BY <1>2, <1>7 DEF ILatest
    <2> QED
      BY <2>1, <2>2, <1>5, <1>6
  <1>8. CASE /\ worker' = "wrote" /\ durable' = [durable EXCEPT ![group] = wseq]
             /\ disk' = [k \in Keys |-> IF k \in DOMAIN active THEN active[k] ELSE disk[k]]
    <2>1. /\ durable'[group] = wseq /\ durable[group] < wseq /\ wseq <= lastSeq
          /\ \A h \in Groups : h # group => durable'[h] = durable[h]
      <3>1. durable[group] < first[group] /\ first[group] <= wseq /\ wseq <= seq[group]
              /\ seq[group] <= lastSeq
        BY <1>1, <1>2, <1>3 DEF ISeqs, IWorker
      <3> QED
        BY <3>1, <1>1, <1>3, <1>8 DEF TypeOK
    <2>2. /\ \A k \in DOMAIN active : k \in Keys /\ disk'[k] = active[k]
          /\ \A k \in Keys : k \notin DOMAIN active => disk'[k] = disk[k]
      BY <1>1, <1>8
    <2>3. ISeqs'
      <3>1. \A h \in Groups : durable'[h] <= lastSeq' /\ latest'[h].seq <= lastSeq'
        BY <1>1, <1>2, <2>1 DEF ISeqs
      <3>2. \A k \in Keys : committedSeq'[k] <= lastSeq'
        BY <1>2 DEF ISeqs
      <3>3. ASSUME NEW h \in queued'
            PROVE  /\ 0 < first'[h] /\ first'[h] <= seq'[h] /\ seq'[h] <= lastSeq'
                   /\ latest'[h] = [values |-> values'[h], seq |-> seq'[h]]
                   /\ IF h = group' /\ worker' = "wrote" THEN durable'[h] = wseq'
                                                        ELSE durable'[h] < first'[h]
        BY <1>1, <1>2, <1>8, <2>1 DEF ISeqs
      <3> QED
        BY <3>1, <3>2, <3>3 DEF ISeqs
    <2>4. IDisk'
      BY <1>2, <1>8, <2>2 DEF IDisk
    <2>5. ILatest'
      <3> SUFFICES ASSUME NEW h \in Groups \ queued, NEW k \in DOMAIN latest[h].values
                   PROVE  \/ disk'[k] = latest[h].values[k]
                          \/ latest[h].seq < committedSeq[k]
                          \/ k \in DOMAIN active
        BY <1>2, <1>8 DEF ILatest
      <3>1. k \in Keys
        BY <1>1
      <3> QED
        BY <3>1, <2>2, <1>2 DEF ILatest
    <2>6. IWant'
      <3> SUFFICES ASSUME NEW f \in Callers, NEW h \in Groups
                   PROVE  \/ durable'[h] >= want[f][h]
                          \/ h \in queued /\ first[h] <= want[f][h] /\ want[f][h] <= seq[h]
                               /\ at[f] \notin {"drained", "nil"}
        BY <1>2 DEF IWant
      <3>1. durable'[h] >= durable[h] /\ durable'[h] \in Nat
        BY <1>1, <2>1
      <3> QED
        BY <3>1, <1>1 DEF IWant
    <2> QED
      BY <1>5, <1>6, <2>3, <2>4, <2>5, <2>6
  <1> QED
    BY <1>4, <1>7, <1>8

\* The worker records the commit: the job goes, or it stays for a newer intent.
LEMMA CommitStep == ASSUME IInv, Commit PROVE Safe'
  <1> USE IntentFacts DEF IInv, Safe, TypeFacts
  <1>1. TypeFacts
    BY TypeOKFacts
  <1>2. /\ UNCHANGED <<lastSeq, disk, durable, latest, at, want>> /\ worker = "wrote"
        /\ cache' = [k \in Keys |-> IF k \in DOMAIN active THEN active[k] ELSE cache[k]]
        /\ committedSeq' = [k \in Keys |-> IF k \in DOMAIN active THEN wseq ELSE committedSeq[k]]
        /\ worker' = "top" /\ group' = NoGroup /\ wseq' = 0 /\ active' = Empty
    BY DEF Commit, WorkerOnly, CommittedAs
  <1>3. /\ group \in queued /\ group \in Groups
        /\ first[group] <= wseq /\ wseq <= seq[group] /\ seq[group] <= lastSeq
        /\ durable[group] = wseq /\ (wseq = seq[group] => active = values[group])
        /\ latest[group] = [values |-> values[group], seq |-> seq[group]]
    BY <1>1, <1>2 DEF IWorker, ISeqs
  <1>4. \/ /\ seq[group] = wseq /\ queued' = queued \ {group}
           /\ first' = [first EXCEPT ![group] = 0] /\ seq' = [seq EXCEPT ![group] = 0]
           /\ values' = [values EXCEPT ![group] = Empty] /\ UNCHANGED order
        \/ /\ seq[group] # wseq
           /\ first' = [first EXCEPT ![group] = wseq + 1] /\ order' = Append(order, group)
           /\ UNCHANGED <<queued, seq, values>>
    BY DEF Commit, CommitJob, JobIsWritten, Requeue
  <1>5. /\ queued' \subseteq queued /\ queued \subseteq queued' \cup {group}
        /\ group \in queued' => wseq < seq[group] /\ first'[group] = wseq + 1
        /\ group \notin queued' => wseq = seq[group]
        /\ \A h \in queued' : /\ seq'[h] = seq[h] /\ values'[h] = values[h]
                              /\ h # group => first'[h] = first[h]
    <2>1. CASE /\ seq[group] = wseq /\ queued' = queued \ {group}
               /\ first' = [first EXCEPT ![group] = 0] /\ seq' = [seq EXCEPT ![group] = 0]
               /\ values' = [values EXCEPT ![group] = Empty] /\ UNCHANGED order
      BY <2>1, <1>1, <1>3 DEF TypeOK
    <2>2. CASE /\ seq[group] # wseq
               /\ first' = [first EXCEPT ![group] = wseq + 1] /\ order' = Append(order, group)
               /\ UNCHANGED <<queued, seq, values>>
      <3>1. wseq < seq[group]
        BY <2>2, <1>1, <1>3
      <3> QED
        BY <2>2, <3>1, <1>1, <1>3 DEF TypeOK
    <2> QED
      BY <1>4, <2>1, <2>2
  <1>6. ASSUME NEW h \in queued, h # group, NEW k \in DOMAIN values[h]
        PROVE  k \in Keys /\ k \notin DOMAIN active /\ k \notin DOMAIN values[group]
    <2>1. DOMAIN values[h] \cap (DOMAIN values[group] \cup DOMAIN Active(group)) = {}
      BY <1>3, <1>6 DEF IDisjoint
    <2> QED
      BY <2>1, <1>1 DEF Active
  <1>7. /\ \A k \in DOMAIN active : k \in Keys /\ committedSeq'[k] = wseq /\ cache'[k] = active[k]
        /\ \A k \in Keys : k \notin DOMAIN active =>
             committedSeq'[k] = committedSeq[k] /\ cache'[k] = cache[k]
    BY <1>1, <1>2
  <1>8. IWorker'
    BY <1>2 DEF IWorker
  <1>9. IOrder'
    <2>1. \A i \in 1..Len(order) : order[i] # group /\ order[i] \in queued' /\ order[i] # NoGroup
      BY <1>1, <1>5 DEF IOrder
    <2>2. CASE UNCHANGED order
      BY <2>1, <2>2, <1>2 DEF IOrder
    <2>3. CASE order' = Append(order, group) /\ group \in queued'
      <3>1. /\ Distinct(order')
            /\ \A i \in 1..Len(order') : order'[i] = group \/ \E j \in 1..Len(order) : order'[i] = order[j]
        BY <2>1, <2>3, <1>1, <1>3, AppendOrder DEF IOrder
      <3> QED
        BY <3>1, <2>1, <2>3, <1>1, <1>2, <1>3 DEF IOrder
    <2> QED
      BY <2>2, <2>3, <1>3, <1>4
  <1>10. ISeqs'
    <2>1. \A h \in Groups : durable'[h] <= lastSeq' /\ latest'[h].seq <= lastSeq'
      BY <1>2 DEF ISeqs
    <2>2. \A k \in Keys : committedSeq'[k] <= lastSeq'
      BY <1>1, <1>2, <1>3, <1>7 DEF ISeqs
    <2>3. ASSUME NEW h \in queued'
          PROVE  /\ 0 < first'[h] /\ first'[h] <= seq'[h] /\ seq'[h] <= lastSeq'
                 /\ latest'[h] = [values |-> values'[h], seq |-> seq'[h]]
                 /\ IF h = group' /\ worker' = "wrote" THEN durable'[h] = wseq'
                                                      ELSE durable'[h] < first'[h]
      <3>1. CASE h = group
        BY <3>1, <1>1, <1>2, <1>3, <1>5
      <3>2. CASE h # group
        BY <3>2, <1>2, <1>5 DEF ISeqs
      <3> QED
        BY <3>1, <3>2
    <2> QED
      BY <2>1, <2>2, <2>3 DEF ISeqs
  <1>11. IDisjoint'
    <2>1. \A h \in queued' : DOMAIN Active(h)' = {}
      BY <1>1, <1>2, <1>5 DEF Active
    <2>2. \A h \in queued' : h \in queued /\ values'[h] = values[h]
      BY <1>5
    <2> QED
      BY <2>1, <2>2 DEF IDisjoint
  <1>12. INewer'
    <2>1. ASSUME NEW h \in queued', NEW k \in DOMAIN values'[h] PROVE committedSeq'[k] < seq'[h]
      <3>1. h \in queued /\ k \in DOMAIN values[h] /\ seq'[h] = seq[h] /\ k \in Keys
        BY <1>1, <1>5
      <3>2. CASE k \in DOMAIN active
        BY <3>1, <3>2, <1>5, <1>6, <1>7
      <3>3. CASE k \notin DOMAIN active
        BY <3>1, <3>3, <1>7 DEF INewer
      <3> QED
        BY <3>2, <3>3
    <2> QED
      BY <2>1, <1>2 DEF INewer
  <1>13. IDisk'
    BY <1>2, <1>7 DEF IDisk
  <1>14. ILatest'
    <2> SUFFICES ASSUME NEW h \in Groups \ queued', NEW k \in DOMAIN latest[h].values
                 PROVE  /\ disk[k] = latest[h].values[k] \/ latest[h].seq < committedSeq'[k]
                        /\ \A i \in queued' : k \in DOMAIN values'[i] => latest[h].seq < seq'[i]
      BY <1>2 DEF ILatest
    <2>1. k \in Keys
      BY <1>1
    <2>2. CASE h = group
      <3>1. latest[h].values = active /\ active = values[group]
        BY <2>2, <1>3, <1>5
      <3>2. \A i \in queued' : k \notin DOMAIN values'[i]
        BY <3>1, <2>2, <1>5, <1>6
      <3> QED
        BY <3>1, <3>2, <1>2 DEF IDisk
    <2>3. CASE h # group
      <3>1. h \notin queued
        BY <2>3, <1>5
      <3>2. disk[k] = latest[h].values[k] \/ latest[h].seq < committedSeq'[k]
        BY <3>1, <2>1, <1>7 DEF ILatest
      <3>3. \A i \in queued' : k \in DOMAIN values'[i] => latest[h].seq < seq'[i]
        BY <3>1, <1>5 DEF ILatest
      <3> QED
        BY <3>2, <3>3
    <2> QED
      BY <2>2, <2>3
  <1>15. IWant'
    <2> SUFFICES ASSUME NEW f \in Callers, NEW h \in Groups, ~(durable[h] >= want[f][h])
                 PROVE  h \in queued' /\ first'[h] <= want[f][h] /\ want[f][h] <= seq'[h]
                          /\ at[f] \notin {"drained", "nil"}
      BY <1>2 DEF IWant
    <2>1. h \in queued /\ first[h] <= want[f][h] /\ want[f][h] <= seq[h]
            /\ at[f] \notin {"drained", "nil"}
      BY DEF IWant
    <2>2. CASE h = group
      BY <2>1, <2>2, <1>1, <1>3, <1>5
    <2>3. CASE h # group
      BY <2>1, <2>3, <1>5
    <2> QED
      BY <2>2, <2>3
  <1> QED
    BY <1>8, <1>9, <1>10, <1>11, <1>12, <1>13, <1>14, <1>15

\* A failed write: the group goes back to the end of the order.
LEMMA WriteFailsStep == ASSUME IInv, WriteFails PROVE Safe'
  <1> USE IntentFacts DEF IInv, Safe, TypeFacts
  <1>1. TypeFacts
    BY TypeOKFacts
  <1>2. /\ UNCHANGED <<cacheVars, queued, first, seq, values, lastSeq, disk, durable, latest, at, want>>
        /\ worker = "failed" /\ worker' \in {"top", "done"} /\ order' = Append(order, group)
        /\ group' = NoGroup /\ active' = Empty
    BY DEF WriteFails, WorkerOnly, Requeue
  <1>3. group \in queued /\ group \in Groups
    BY <1>1, <1>2 DEF IWorker
  <1>4. IWorker' /\ INewer' /\ IDisk' /\ IWant'
    BY <1>2 DEF IWorker, INewer, IDisk, IWant
  <1>5. IOrder'
    <2>1. \A i \in 1..Len(order) : order[i] # group /\ order[i] \in queued /\ order[i] # NoGroup
      BY <1>1 DEF IOrder
    <2> QED
      BY <2>1, <1>1, <1>2, <1>3, AppendOrder DEF IOrder
  <1>6. ISeqs'
    BY <1>2 DEF ISeqs
  <1>7. IDisjoint'
    <2>1. \A h \in queued : DOMAIN Active(h)' = {}
      BY <1>1, <1>2 DEF Active
    <2> QED
      BY <2>1, <1>2 DEF IDisjoint
  <1>8. ILatest'
    BY <1>2 DEF ILatest
  <1> QED
    BY <1>4, <1>5, <1>6, <1>7, <1>8

\* A Flush or a Close that looks at the jobs leaves only when nothing it
\* waits for is in one.
LEMMA CallerStep ==
    ASSUME IInv,
           \/ \E f \in Callers : StartFlush(f) \/ LookAgain(f) \/ FlushTimesOut(f)
           \/ StartClose \/ CloseReturns
    PROVE  Safe'
  <1> USE DEF IInv, Safe, TypeFacts
  <1>1. TypeFacts
    BY TypeOKFacts
  <1>2. UNCHANGED Jobs
    BY DEF StartFlush, LookAgain, FlushTimesOut, StartClose, CloseReturns, CallerOnly, Jobs
  <1>7. \A h \in queued : first[h] <= seq[h]
    BY DEF ISeqs
  <1> SUFFICES IWant'
    BY <1>2, QuietStep
  <1> SUFFICES ASSUME NEW e \in Callers, NEW g \in Groups
               PROVE  \/ durable[g] >= want'[e][g]
                      \/ g \in queued /\ first[g] <= want'[e][g] /\ want'[e][g] <= seq[g]
                           /\ at'[e] \notin {"drained", "nil"}
    BY <1>2 DEF IWant, Jobs
  <1>3. ASSUME NEW f \in Callers, NEW w \in [Groups -> Nat], Look(f, w),
               \A h \in Groups : \/ durable[h] >= w[h]
                                 \/ h \in queued /\ first[h] <= w[h] /\ w[h] <= seq[h],
               want' = [want EXCEPT ![f] = w]
        PROVE  \/ durable[g] >= want'[e][g]
               \/ g \in queued /\ first[g] <= want'[e][g] /\ want'[e][g] <= seq[g]
                    /\ at'[e] \notin {"drained", "nil"}
    <2>1. CASE e # f
      <3>1. want'[e] = want[e] /\ at'[e] = at[e]
        BY <1>3, <2>1 DEF Look, TypeOK
      <3> QED
        BY <3>1 DEF IWant
    <2>2. CASE e = f
      <3>1. want'[e] = w
        BY <1>3, <2>2 DEF TypeOK
      <3>2. ASSUME at'[e] \in {"drained", "nil"} PROVE Waited(w) = {}
        BY <1>3, <2>2, <3>2 DEF Look, TypeOK
      <3>3. CASE durable[g] >= w[g]
        BY <3>1, <3>3
      <3>4. CASE ~(durable[g] >= w[g])
        <4>1. g \in queued /\ first[g] <= w[g] /\ w[g] <= seq[g] /\ w[g] # 0
          BY <3>4, <1>1, <1>3
        <4>2. g \in Waited(w)
          BY <4>1 DEF Waited
        <4> QED
          BY <4>1, <4>2, <3>1, <3>2
      <3> QED
        BY <3>3, <3>4
    <2> QED
      BY <2>1, <2>2
  <1>4. ASSUME NEW f \in Callers, StartFlush(f)
        PROVE  \/ durable[g] >= want'[e][g]
               \/ g \in queued /\ first[g] <= want'[e][g] /\ want'[e][g] <= seq[g]
                    /\ at'[e] \notin {"drained", "nil"}
    <2> DEFINE w == [h \in Groups |-> IF h \in queued THEN seq[h] ELSE 0]
    <2>1. CASE overflow \/ rejected # {}
      <3>1. want' = want /\ at' = [at EXCEPT ![f] = "error"]
        BY <1>4, <2>1, Zenon DEF StartFlush
      <3> QED
        BY <3>1 DEF IWant, TypeOK
    <2>2. CASE ~(overflow \/ rejected # {})
      <3>1. want' = [want EXCEPT ![f] = w] /\ Look(f, w)
        BY <1>4, <2>2, Zenon DEF StartFlush
      <3>2. w \in [Groups -> Nat]
        BY <1>1
      <3>3. \A h \in Groups : durable[h] >= w[h] \/ (h \in queued /\ first[h] <= w[h] /\ w[h] <= seq[h])
        <4>1. ASSUME NEW h \in queued PROVE first[h] <= w[h] /\ w[h] <= seq[h]
          <5>1. h \in Groups /\ seq[h] \in Nat
            BY <1>1
          <5>2. w[h] = seq[h]
            BY <5>1
          <5> HIDE DEF w
          <5> QED
            BY <5>1, <5>2, <1>7
        <4>2. ASSUME NEW h \in Groups \ queued PROVE durable[h] >= w[h]
          BY <1>1
        <4> QED
          BY <4>1, <4>2
      <3> HIDE DEF w
      <3> QED
        BY <3>1, <3>2, <3>3, <1>3
    <2> QED
      BY <2>1, <2>2
  <1>5. ASSUME NEW f \in Callers, LookAgain(f)
        PROVE  \/ durable[g] >= want'[e][g]
               \/ g \in queued /\ first[g] <= want'[e][g] /\ want'[e][g] <= seq[g]
                    /\ at'[e] \notin {"drained", "nil"}
    <2>1. Look(f, want[f]) /\ want' = [want EXCEPT ![f] = want[f]] /\ want[f] \in [Groups -> Nat]
      BY <1>5 DEF LookAgain, TypeOK
    <2> QED
      BY <2>1, <1>3 DEF IWant
  <1>6. ASSUME \/ \E f \in Callers : FlushTimesOut(f)
               \/ StartClose \/ CloseReturns
        PROVE  \/ durable[g] >= want'[e][g]
               \/ g \in queued /\ first[g] <= want'[e][g] /\ want'[e][g] <= seq[g]
                    /\ at'[e] \notin {"drained", "nil"}
    <2>1. want' = want
      BY <1>6 DEF FlushTimesOut, StartClose, CloseReturns
    <2>2. at'[e] \in {"drained", "nil"} => at[e] \in {"drained", "nil"}
      BY <1>6 DEF FlushTimesOut, StartClose, CloseReturns, TypeOK
    <2> QED
      BY <2>1, <2>2 DEF IWant
  <1> QED
    BY <1>4, <1>5, <1>6

\* After a crash the store is empty, and the cache is the disk.
LEMMA CrashStep == ASSUME IInv, Crash PROVE Safe'
  <1> USE ControlWritesAssumption, IntentFacts
  <1>1. IDisjoint' /\ IWorker' /\ IOrder' /\ INewer' /\ IDisk'
    BY DEF Crash, IDisjoint, IWorker, IOrder, Distinct, INewer, IDisk
  <1>2. ISeqs' /\ ILatest' /\ IWant'
    BY DEF Crash, ISeqs, ILatest, IWant, NoIntent
  <1> QED
    BY <1>1, <1>2 DEF Safe

\* IInv is inductive.
LEMMA NextIInv == IInv /\ [Next]_vars => IInv'
  <1> SUFFICES ASSUME IInv, [Next]_vars PROVE Safe'
    BY TypeOKStep DEF IInv
  <1>1. CASE UNCHANGED vars
    <2>1. UNCHANGED <<Jobs, at, want>>
      BY <1>1 DEF vars, Jobs
    <2>2. IWant'
      BY <2>1 DEF IWant, IInv, Safe, Jobs
    <2> QED
      BY <2>1, <2>2, QuietStep DEF Safe
  <1>2. CASE Save
    BY <1>2, QuietSaveStep, SaveCommittedStep, SaveAcceptedStep DEF Save
  <1>3. CASE Worker
    BY <1>3, IdleStep, TakeStep, DiskWriteStep, CommitStep, WriteFailsStep DEF Worker
  <1> QED
    BY <1>1, <1>2, <1>3, CallerStep, CrashStep DEF Next

-----------------------------------------------------------------------------
(* Theorems *)

\* The write-behind store keeps its inductive invariant.
THEOREM Invariance == Spec => []IInv
  BY InitIInv, NextIInv, PTL DEF Spec

\* A Flush or Close that returns nil has everything accepted before it on
\* disk, whatever was saved, failed and retried meanwhile (Flush).
THEOREM FlushSafe == Spec => []FlushIsDurable
  <1>1. IInv => FlushIsDurable
    BY DEF IInv, Safe, IWant, FlushIsDurable
  <1> QED
    BY <1>1, Invariance, PTL

\* What LoadConfig shows, and what GroupStatus calls committed, is on disk.
THEOREM ReadersSafe == Spec => []ReadersSeeTheDisk
  <1>1. IInv => ReadersSeeTheDisk
    <2> SUFFICES ASSUME IInv PROVE ReadersSeeTheDisk
      OBVIOUS
    <2> USE DEF IInv, Safe
    <2>1. ASSUME NEW k \in Keys, worker = "wrote", k \in DOMAIN active PROVE ~Visible(k)
      BY <2>1 DEF Visible, Active, IWorker
    <2>2. VisibleIsOnDisk
      BY <2>1 DEF VisibleIsOnDisk, IDisk
    <2>3. CommittedIsOnDisk
      <3> SUFFICES ASSUME NEW g \in Groups, GroupStatus(g) = "committed",
                          NEW k \in DOMAIN latest[g].values
                   PROVE  \/ disk[k] = latest[g].values[k]
                          \/ committedSeq[k] > latest[g].seq \/ ~Visible(k)
        BY DEF CommittedIsOnDisk
      <3>1. g \notin queued
        BY DEF GroupStatus
      <3>2. k \in Keys /\ latest[g].seq \in Nat /\ committedSeq[k] \in Nat
        BY IntentFacts, TypeOKFacts DEF TypeFacts
      <3> QED
        BY <3>1, <3>2, <2>1 DEF ILatest
    <2> QED
      BY <2>2, <2>3 DEF ReadersSeeTheDisk
  <1> QED
    BY <1>1, Invariance, PTL

\* Within one process a key's committed value changes only with a growing
\* sequence: run() never commits an older intent over a newer one.
THEOREM CommitsGrow == Spec => CommitSequenceGrows
  <1>1. IInv /\ [Next]_vars =>
          [crashes' = crashes =>
             \A k \in Keys : \/ committedSeq'[k] > committedSeq[k]
                             \/ committedSeq'[k] = committedSeq[k] /\ cache'[k] = cache[k]]_vars
    <2> SUFFICES ASSUME IInv, Next, crashes' = crashes, NEW k \in Keys
                 PROVE  \/ committedSeq'[k] > committedSeq[k]
                        \/ committedSeq'[k] = committedSeq[k] /\ cache'[k] = cache[k]
      BY DEF vars
    <2>1. CASE Commit
      <3>1. committedSeq[k] \in Nat /\ wseq \in Nat
        BY DEF IInv, TypeOK
      <3>2. k \in DOMAIN active => committedSeq[k] < wseq
        BY DEF IInv, Safe, INewer
      <3> QED
        BY <2>1, <3>1, <3>2 DEF Commit, CommittedAs
    <2>2. CASE ~Commit
      <3>1. ~Crash
        BY DEF Crash, IInv, TypeOK
      <3>2. UNCHANGED cacheVars
        BY <2>2, <3>1
           DEF Next, Save, SaveRefused, SaveAgain, SaveCommitted, SaveAccepted, Unchanged,
               Worker, Rest, Wake, Take, DiskWrite, WriteFails,
               StartFlush, LookAgain, FlushTimesOut, StartClose, CloseReturns, CallerOnly
      <3> QED
        BY <3>2
    <2> QED
      BY <2>1, <2>2
  <1> QED
    BY <1>1, Invariance, PTL DEF Spec, CommitSequenceGrows
=============================================================================
