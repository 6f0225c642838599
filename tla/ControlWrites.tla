--------------------------- MODULE ControlWrites ---------------------------
(***************************************************************************)
(* The write-behind store of control state (go/internal/state/             *)
(* control_writes.go): SaveConfigGroup accepts an intent in memory and     *)
(* returns at once, one worker writes the groups to SQLite, Flush waits    *)
(* for what was accepted before it, Close drains.  A crash loses the       *)
(* memory and keeps the disk; the restart reads the cache back from disk.  *)
(*                                                                         *)
(* Every operation holds w.mu for all of its work except the worker's disk *)
(* write and Flush's wait, so those two are where steps interleave.        *)
(***************************************************************************)
EXTENDS Naturals, Sequences, FiniteSets, FiniteSetsExt

CONSTANTS
    Keys, Values,
    Groups,       \* names of atomic intents
    Saves,        \* the <<group, values>> pairs callers save
    Flushers,     \* calls of Flush, each made at most once
    Closer,       \* the call of Close
    Size,         \* Size[v]: what a key with value v counts against the buffer
    BufferLimit,  \* controlWriteBytes, in those units
    JobLimit,     \* controlWriteLimit
    MaxSeq,       \* bound: accepted saves in one process
    MaxFail,      \* bound: failed disk writes
    MaxCrash,     \* bound: crashes
    NoValue, NoGroup

\* The values of one intent: some keys, each with a value.
Intents == UNION {[S -> Values] : S \in SUBSET Keys}

ASSUME ControlWritesAssumption ==
    /\ Saves \subseteq Groups \X Intents
    /\ Size \in [Values -> Nat]
    /\ BufferLimit \in Nat /\ JobLimit \in Nat \ {0}
    /\ MaxSeq \in Nat /\ MaxFail \in Nat /\ MaxCrash \in Nat
    /\ NoValue \notin Values /\ NoGroup \notin Groups /\ Closer \notin Flushers
    /\ IsFiniteSet(Keys) /\ IsFiniteSet(Groups)

Callers == Flushers \cup {Closer}

VARIABLES
    cache,        \* committed values, NoValue where a key has none
    committedSeq, \* sequence of each key's last commit, 0 if none
    queued,       \* groups with a job
    first, seq,   \* the job's oldest unwritten and newest sequence
    values,       \* the job's newest intent
    failed,       \* groups whose job has err set
    rejected,     \* groups with an entry in rejected
    overflow,     \* overflow # nil
    order,        \* groups waiting for the worker
    lastSeq,      \* w.seq
    closed,
    wake,         \* a token is in the wake channel
    worker,       \* where run() stands
    group, wseq, active,   \* its locals; active is also the job's active map
    at,           \* progress of each Flush and of Close
    want,         \* Flush's want map, 0 where a group is not in it
    notified,     \* callers whose changed channel has been closed
    disk,         \* the config table
    fails, crashes,        \* bounds
    latest,       \* history: each group's last accepted intent and sequence
    durable,      \* history: newest sequence of each group on disk
    refused       \* history: groups whose last save was refused

cacheVars  == <<cache, committedSeq>>
jobVars    == <<queued, first, seq, values, failed, order, lastSeq>>
workerVars == <<worker, group, wseq, active>>
callerVars == <<at, want, notified>>
history    == <<latest, durable, refused>>
vars == <<cacheVars, jobVars, rejected, overflow, closed, wake, workerVars, callerVars,
          disk, fails, crashes, history>>

-----------------------------------------------------------------------------

WorkerPcs == {"top", "waiting", "writing", "wrote", "failed", "done"}

CallerPcs == {"new", "closing", "waiting", "drained", "nil", "error"}

Empty == [k \in {} |-> NoValue]

NoIntent == [values |-> Empty, seq |-> 0]

TypeOK ==
    /\ cache \in [Keys -> Values \cup {NoValue}] /\ committedSeq \in [Keys -> Nat]
    /\ queued \subseteq Groups /\ first \in [Groups -> Nat] /\ seq \in [Groups -> Nat]
    /\ values \in [Groups -> Intents] /\ failed \subseteq Groups
    /\ order \in Seq(Groups) /\ lastSeq \in Nat
    /\ rejected \subseteq Groups /\ overflow \in BOOLEAN
    /\ closed \in BOOLEAN /\ wake \in BOOLEAN
    /\ worker \in WorkerPcs /\ group \in Groups \cup {NoGroup} /\ wseq \in Nat
    /\ active \in Intents
    /\ at \in [Callers -> CallerPcs] /\ want \in [Callers -> [Groups -> Nat]]
    /\ notified \subseteq Callers
    /\ disk \in [Keys -> Values \cup {NoValue}] /\ fails \in Nat /\ crashes \in Nat
    /\ latest \in [Groups -> [values : Intents, seq : Nat]]
    /\ durable \in [Groups -> Nat] /\ refused \subseteq Groups

\* newControlWrites on the values NewEVControlWrites read from the disk.
Init ==
    /\ disk = [k \in Keys |-> NoValue] /\ cache = disk
    /\ committedSeq = [k \in Keys |-> 0]
    /\ queued = {} /\ first = [g \in Groups |-> 0] /\ seq = [g \in Groups |-> 0]
    /\ values = [g \in Groups |-> Empty] /\ failed = {}
    /\ order = <<>> /\ lastSeq = 0 /\ rejected = {} /\ overflow = FALSE
    /\ closed = FALSE /\ wake = FALSE
    /\ worker = "top" /\ group = NoGroup /\ wseq = 0 /\ active = Empty
    /\ at = [f \in Callers |-> "new"] /\ want = [f \in Callers |-> [g \in Groups |-> 0]]
    /\ notified = {} /\ fails = 0 /\ crashes = 0
    /\ latest = [g \in Groups |-> NoIntent] /\ durable = [g \in Groups |-> 0]
    /\ refused = {}

\* signalLocked: every waiting Flush looks again, and the worker is woken.
NotifiesNobody == wake' = TRUE /\ UNCHANGED notified   \* faulty variant

WakesNobody ==   \* faulty variant: the worker is left asleep
    /\ notified' = notified \cup {f \in Callers : at[f] = "waiting"} /\ UNCHANGED wake

Signal ==
    /\ wake' = TRUE
    /\ notified' = notified \cup {f \in Callers : at[f] = "waiting"}

-----------------------------------------------------------------------------
(* SaveConfigGroup *)

\* job.active of group h: what the worker is writing for it.
Active(h) == IF group = h THEN active ELSE Empty

Overlaps(g, v) ==
    \E h \in queued \ {g} : DOMAIN v \cap (DOMAIN values[h] \cup DOMAIN Active(h)) # {}

SameAsJob(g, v) == g \in queued /\ values[g] = v

Committed(v) == \A k \in DOMAIN v : cache[k] = v[k]

Bytes(v) == MapThenSumSet(LAMBDA k : IF v[k] = NoValue THEN 0 ELSE Size[v[k]], DOMAIN v)

\* Too many jobs, or the cache, this intent, the other groups' intents and
\* the ones in flight do not fit the buffer.
NoRoom(g, v) ==
    \/ g \notin queued /\ Cardinality(queued) >= JobLimit
    \/ Bytes(cache) + Bytes(v) + Bytes(active)
         + MapThenSumSet(LAMBDA h : Bytes(values[h]), queued \ {g}) > BufferLimit

\* The deferred bookkeeping of SaveConfigGroup for an error that is not
\* ErrWritePending.
Reject(g) ==
    IF g \in rejected \/ Cardinality(rejected) < JobLimit
    THEN rejected' = rejected \cup {g} /\ UNCHANGED overflow
    ELSE overflow' = TRUE /\ UNCHANGED rejected

Unchanged == UNCHANGED <<cacheVars, closed, workerVars, at, want, disk, fails, crashes, durable>>

\* Closed, overlapping another group, or out of room.
SaveRefused(g, v) ==
    /\ \/ closed
       \/ /\ v # Empty /\ ~SameAsJob(g, v)
          /\ \/ Overlaps(g, v)
             \/ (g \in queued \/ ~Committed(v)) /\ NoRoom(g, v)
    /\ Reject(g)
    /\ refused' = refused \cup {g}
    /\ UNCHANGED <<jobVars, wake, notified, latest>> /\ Unchanged

\* The job already holds these values.  If its last write failed, that error
\* is returned and recorded, although the job stays queued.
SaveAgain(g, v) ==
    /\ ~closed /\ v # Empty /\ SameAsJob(g, v)
    /\ IF g \in failed THEN Reject(g) ELSE rejected' = rejected \ {g} /\ UNCHANGED overflow
    /\ refused' = refused \ {g}
    /\ UNCHANGED <<jobVars, wake, notified, latest>> /\ Unchanged

\* Already committed: acknowledged at once.
SaveCommitted(g, v) ==
    /\ ~closed
    /\ v = Empty \/ (~SameAsJob(g, v) /\ ~Overlaps(g, v) /\ g \notin queued /\ Committed(v))
    /\ rejected' = rejected \ {g} /\ UNCHANGED overflow
    /\ refused' = refused \ {g}
    /\ latest' = IF v = Empty THEN latest
                 ELSE [latest EXCEPT ![g] = [values |-> v, seq |-> lastSeq]]
    /\ UNCHANGED <<jobVars, wake, notified>> /\ Unchanged

\* A new job, or a newer intent for the job there is.
SaveAccepted(g, v) ==
    /\ ~closed /\ v # Empty /\ lastSeq < MaxSeq
    /\ ~SameAsJob(g, v) /\ ~Overlaps(g, v) /\ ~NoRoom(g, v)
    /\ g \in queued \/ ~Committed(v)
    /\ lastSeq' = lastSeq + 1
    /\ queued' = queued \cup {g}
    /\ first' = IF g \in queued THEN first ELSE [first EXCEPT ![g] = lastSeq']
    /\ order' = IF g \in queued THEN order ELSE Append(order, g)
    /\ seq' = [seq EXCEPT ![g] = lastSeq'] /\ values' = [values EXCEPT ![g] = v]
    /\ failed' = failed \ {g}
    /\ rejected' = rejected \ {g} /\ UNCHANGED overflow
    /\ latest' = [latest EXCEPT ![g] = [values |-> v, seq |-> lastSeq']]
    /\ refused' = refused \ {g}
    /\ Signal /\ Unchanged

-----------------------------------------------------------------------------
(* What readers see *)

VisibleIfNotQueued(k) == \A g \in queued : k \notin DOMAIN values[g]   \* faulty variant

\* LoadConfig returns the cached value of a key no job touches.
Visible(k) == \A g \in queued : k \notin DOMAIN values[g] \cup DOMAIN Active(g)

GroupStatus(g) ==
    IF g \in rejected THEN "rejected"
    ELSE IF g \notin queued THEN "committed"
    ELSE IF g \in failed THEN "failed" ELSE "pending"

-----------------------------------------------------------------------------
(* The worker *)

WorkerOnly == UNCHANGED <<overflow, closed, at, want, crashes, latest, refused>>

RestAlways == "waiting"   \* faulty variant: closed is not looked at

\* run() with nothing to do: wait for a token, or end.
RestOrEnd == IF closed THEN "done" ELSE "waiting"

Rest ==
    /\ worker = "top" /\ order = <<>>
    /\ worker' = RestOrEnd
    /\ WorkerOnly
    /\ UNCHANGED <<cacheVars, jobVars, rejected, wake, group, wseq, active, notified, disk, fails, durable>>

Wake ==
    /\ worker = "waiting" /\ wake
    /\ wake' = FALSE /\ worker' = "top"
    /\ WorkerOnly
    /\ UNCHANGED <<cacheVars, jobVars, rejected, group, wseq, active, notified, disk, fails, durable>>

Take ==
    /\ worker = "top" /\ order # <<>>
    /\ worker' = "writing" /\ group' = Head(order) /\ order' = Tail(order)
    /\ wseq' = seq[Head(order)] /\ active' = values[Head(order)]
    /\ WorkerOnly
    /\ UNCHANGED <<cacheVars, queued, first, seq, values, failed, lastSeq, rejected, wake, notified,
                   disk, fails, durable>>

\* One transaction: all of the intent's keys or none.
DiskWrite(ok) ==
    /\ worker = "writing"
    /\ IF ok
       THEN /\ worker' = "wrote" /\ UNCHANGED fails
            /\ disk' = [k \in Keys |-> IF k \in DOMAIN active THEN active[k] ELSE disk[k]]
            /\ durable' = [durable EXCEPT ![group] = wseq]
       ELSE /\ fails < MaxFail /\ fails' = fails + 1
            /\ worker' = "failed" /\ UNCHANGED <<disk, durable>>
    /\ WorkerOnly
    /\ UNCHANGED <<cacheVars, jobVars, rejected, wake, group, wseq, active, notified>>

Requeue == Append(order, group)

ReplacedJobIsDropped == TRUE   \* faulty variant: a newer intent is forgotten

\* No newer intent arrived while this one was written.
JobIsWritten == seq[group] = wseq

CommitJob ==
    IF JobIsWritten
    THEN /\ queued' = queued \ {group} /\ failed' = failed \ {group}
         /\ first' = [first EXCEPT ![group] = 0] /\ seq' = [seq EXCEPT ![group] = 0]
         /\ values' = [values EXCEPT ![group] = Empty] /\ UNCHANGED order
    ELSE /\ first' = [first EXCEPT ![group] = wseq + 1] /\ order' = Requeue
         /\ UNCHANGED <<queued, failed, seq, values>>

CommittedAsNewest == seq[group]   \* faulty variant: the job may hold a newer intent

CommittedAs == wseq

Commit ==
    /\ worker = "wrote"
    /\ rejected' = rejected \ {group}
    /\ cache' = [k \in Keys |-> IF k \in DOMAIN active THEN active[k] ELSE cache[k]]
    /\ committedSeq' = [k \in Keys |-> IF k \in DOMAIN active THEN CommittedAs ELSE committedSeq[k]]
    /\ CommitJob
    /\ worker' = "top" /\ group' = NoGroup /\ wseq' = 0 /\ active' = Empty
    /\ Signal /\ WorkerOnly
    /\ UNCHANGED <<lastSeq, disk, fails, durable>>

WriteFails ==
    /\ worker = "failed"
    /\ failed' = failed \cup {group} /\ order' = Requeue
    /\ worker' = IF closed THEN "done" ELSE "top"
    /\ group' = NoGroup /\ wseq' = 0 /\ active' = Empty
    /\ Signal /\ WorkerOnly
    /\ UNCHANGED <<cacheVars, queued, first, seq, values, lastSeq, rejected, disk, fails, durable>>

-----------------------------------------------------------------------------
(* Flush and Close *)

CallerOnly == UNCHANGED <<cacheVars, jobVars, rejected, overflow, workerVars, disk, fails, crashes,
                          history>>

\* faulty variant: a job whose intent was replaced is no longer waited for
WaitedByNewest(w) == {g \in queued : w[g] # 0 /\ seq[g] <= w[g]}

Waited(w) == {g \in queued : w[g] # 0 /\ first[g] <= w[g]}

\* Where a Flush goes when it looks at the jobs: back to waiting on a fresh
\* changed channel, or out.
Look(f, w) ==
    at' = [at EXCEPT ![f] =
             IF Waited(w) \cap failed # {} THEN "error"
             ELSE IF Waited(w) # {} THEN "waiting"
             ELSE IF f = Closer THEN "drained" ELSE "nil"]

\* A Flush starts; Close starts one after it has set closed.
StartFlush(f) ==
    /\ at[f] = IF f = Closer THEN "closing" ELSE "new"
    /\ IF overflow \/ rejected # {}
       THEN at' = [at EXCEPT ![f] = "error"] /\ UNCHANGED want
       ELSE LET w == [g \in Groups |-> IF g \in queued THEN seq[g] ELSE 0] IN
              /\ want' = [want EXCEPT ![f] = w] /\ Look(f, w)
    /\ UNCHANGED <<notified, closed, wake>> /\ CallerOnly

LookAgain(f) ==
    /\ at[f] = "waiting" /\ f \in notified
    /\ Look(f, want[f]) /\ notified' = notified \ {f}
    /\ UNCHANGED <<want, closed, wake>> /\ CallerOnly

\* The caller's context ends while it waits.
FlushTimesOut(f) ==
    /\ at[f] \in {"waiting", "drained"}
    /\ at' = [at EXCEPT ![f] = "error"] /\ notified' = notified \ {f}
    /\ UNCHANGED <<want, closed, wake>> /\ CallerOnly

StartClose ==
    /\ at[Closer] = "new" /\ at' = [at EXCEPT ![Closer] = "closing"]
    /\ closed' = TRUE /\ Signal
    /\ UNCHANGED want /\ CallerOnly

CloseReturns ==
    /\ at[Closer] = "drained" /\ worker = "done"
    /\ at' = [at EXCEPT ![Closer] = "nil"]
    /\ UNCHANGED <<want, notified, closed, wake>> /\ CallerOnly

-----------------------------------------------------------------------------

\* The process dies and starts again: only the disk is left.
Crash ==
    /\ crashes < MaxCrash /\ crashes' = crashes + 1
    /\ cache' = disk /\ committedSeq' = [k \in Keys |-> 0]
    /\ queued' = {} /\ first' = [g \in Groups |-> 0] /\ seq' = [g \in Groups |-> 0]
    /\ values' = [g \in Groups |-> Empty] /\ failed' = {}
    /\ order' = <<>> /\ lastSeq' = 0 /\ rejected' = {} /\ overflow' = FALSE
    /\ closed' = FALSE /\ wake' = FALSE
    /\ worker' = "top" /\ group' = NoGroup /\ wseq' = 0 /\ active' = Empty
    /\ at' = [f \in Callers |-> "new"] /\ want' = [f \in Callers |-> [g \in Groups |-> 0]]
    /\ notified' = {}
    /\ latest' = [g \in Groups |-> NoIntent] /\ durable' = [g \in Groups |-> 0]
    /\ refused' = {}
    /\ UNCHANGED <<disk, fails>>

Save == \E s \in Saves : \/ SaveRefused(s[1], s[2]) \/ SaveAgain(s[1], s[2])
                         \/ SaveCommitted(s[1], s[2]) \/ SaveAccepted(s[1], s[2])

Worker == Rest \/ Wake \/ Take \/ (\E ok \in BOOLEAN : DiskWrite(ok)) \/ Commit \/ WriteFails

Next ==
    \/ Save \/ Worker
    \/ \E f \in Callers : StartFlush(f) \/ LookAgain(f) \/ FlushTimesOut(f)
    \/ StartClose \/ CloseReturns
    \/ Crash

Spec == Init /\ [][Next]_vars

(***************************************************************************)
(* Fairness.  The worker is a goroutine that runs whenever it can and a    *)
(* disk write ends; a Flush whose channel is closed runs on; Close goes on *)
(* to its Flush.  No caller owes a save, and no context needs to end.      *)
(***************************************************************************)
Fairness ==
    /\ WF_vars(Worker)
    /\ \A f \in Callers : WF_vars(LookAgain(f))
    /\ WF_vars(StartFlush(Closer)) /\ WF_vars(CloseReturns)

FairSpec == Spec /\ Fairness

-----------------------------------------------------------------------------
(* Properties *)

\* A Flush that returns nil acknowledges: every intent accepted before it is
\* on disk, or a newer one of its group is.
FlushIsDurable ==
    \A f \in Callers : at[f] \in {"drained", "nil"} => \A g \in Groups : durable[g] >= want[f][g]

\* LoadConfig never restores from a value the disk no longer holds, also
\* while an intent with other keys replaces the one in flight.
VisibleIsOnDisk == \A k \in Keys : Visible(k) => cache[k] = disk[k]

\* GroupStatus nil means that the group's last accepted intent is on disk,
\* unless another group took a key over since.
CommittedIsOnDisk ==
    \A g \in Groups : GroupStatus(g) = "committed" =>
        \A k \in DOMAIN latest[g].values :
            \/ disk[k] = latest[g].values[k]
            \/ committedSeq[k] > latest[g].seq \/ ~Visible(k)

\* CommittedConfig's sequence: within one process a key's committed value
\* only changes together with a growing sequence, so an older intent never
\* replaces a newer one and a reader that waits for growth misses nothing.
CommitSequenceGrows ==
    [][crashes' = crashes =>
         \A k \in Keys : \/ committedSeq'[k] > committedSeq[k]
                         \/ committedSeq'[k] = committedSeq[k] /\ cache'[k] = cache[k]]_vars

\* A request that was refused is not acknowledged: while a group's last save
\* stands refused, Flush reports an error ("rejected request falsely
\* acknowledged" is what the test calls the opposite).
RefusalIsReported == refused # {} => overflow \/ rejected # {}

\* Every accepted intent is written once the disk accepts it, unless the
\* worker ended on an error after Close.
AcceptedIsWritten == \A g \in Groups : g \in queued ~> (g \notin queued \/ worker = "done")

\* A Flush returns once what it waits for is on disk, whatever other groups
\* are saved, fail or are retried meanwhile.
FlushReturns ==
    \A f \in Callers :
        (at[f] = "waiting" /\ \A g \in Groups : durable[g] >= want[f][g]) ~> at[f] # "waiting"

\* Close returns without help from its deadline.
CloseCompletes == at[Closer] = "closing" ~> at[Closer] \in {"nil", "error", "new"}

\* What LoadConfig shows and what GroupStatus calls committed is on disk, in a
\* store that is well formed: a group is queued only under its own name.
ReadersSeeTheDisk == TypeOK /\ VisibleIsOnDisk /\ CommittedIsOnDisk

\* Accepted intents are written, and a Flush and Close return: none of them
\* sleeps through the signal it waits for (signalLocked).
WritesComplete == AcceptedIsWritten /\ FlushReturns /\ CloseCompletes
=============================================================================
