--------------------------- MODULE HistoryWriter ---------------------------
(***************************************************************************)
(* The history writer of the state store (state/history_writer.go): the    *)
(* control loop hands it whole measurement ticks without waiting for the   *)
(* disk, one goroutine commits them in batches with a receipt per tick,    *)
(* FlushHistory waits for what was accepted before it, and the archiver    *)
(* reserves a boundary that no accepted tick may precede.                  *)
(*                                                                         *)
(* A tick is its admission number; Time is the archive interval of its     *)
(* oldest sample and Size its bytes.  A tick that validation refuses       *)
(* changes nothing but the reported counters and is left out, as are the   *)
(* checkpoints that run beside the commits.                                *)
(***************************************************************************)
EXTENDS Naturals, Sequences, FiniteSetsExt, SequencesExt

CONSTANTS
    QueueTicks,     \* historyQueueTicks
    QueueBytes,     \* historyQueueBytes
    CommitTicks,    \* historyCommitMaxTicks
    Size,           \* tick -> bytes
    Time,           \* tick -> archive interval of its oldest sample
    Flushers,       \* the callers of FlushHistory
    MaxTick,        \* bound: the ticks the control loop offers
    MaxFail,        \* bound: the commits that end with an unknown outcome
    MaxCrash        \* bound: the restarts of the process

ASSUME HistoryAssumption ==
    /\ {QueueTicks, QueueBytes, CommitTicks} \subseteq Nat \ {0}
    /\ {MaxTick, MaxFail, MaxCrash} \subseteq Nat
    /\ Size \in [1..MaxTick -> Nat]
    /\ Time \in [1..MaxTick -> Nat]

VARIABLES
    base, accepted, committed, pending, bytes,  \* HistoryWriterStatus
    stopping,       \* status.Stopping; the queue channel is closed with it
    queue,          \* the queue channel
    measuring,      \* the keys of pendingMeasurementMS
    before,         \* aggregateBeforeMS
    held, elapsed,  \* run: held, and whether commitInterval passed since firstHeld
    pc, final,      \* run: where it is, and whether it returns after commitHeld
    maxAttempt, ackSeq,     \* run: maxAttempt and acknowledgedSequence
    result,         \* what the last commitBatches returned
    flushTarget, flushToken,    \* flushTarget and the token in flushCh
    flush,          \* the FlushHistory calls
    closer,         \* close
    ctxDone,        \* w.ctx is cancelled
    log, receipts,  \* disk: the ticks written, and the sequences with a receipt
    cut,            \* the interval up to which the archiver may roll
    promised,       \* the ticks a FlushHistory that returned vouched for
    fails, epoch

status == <<base, accepted, committed, pending, bytes>>
admission == <<stopping, queue, measuring, before>>
runner == <<held, elapsed, pc, final, maxAttempt, ackSeq, result>>
flushing == <<flushTarget, flushToken, flush>>
ending == <<closer, ctxDone>>
disk == <<log, receipts>>
observed == <<cut, promised, fails, epoch>>
vars == <<status, admission, runner, flushing, ending, disk, observed>>

Ticks == 1..MaxTick
NoResult == [err |-> "none", n |-> 0, seq |-> 0]
NoFlush == [pc |-> "none", want |-> 0]

\* The ticks that are accepted and not yet reported as committed.
Open == held \o queue
\* The last tick this process accepted.
Newest == base + accepted

(***************************************************************************)
(* newHistoryWriter.                                                       *)
(***************************************************************************)
Fresh ==
    /\ accepted = 0 /\ committed = 0 /\ pending = 0 /\ bytes = 0
    /\ stopping = FALSE /\ queue = <<>> /\ measuring = {} /\ before = 0
    /\ held = <<>> /\ elapsed = FALSE /\ pc = "idle" /\ final = FALSE
    /\ maxAttempt = CommitTicks /\ ackSeq = 0 /\ result = NoResult
    /\ flushTarget = 0 /\ flushToken = FALSE
    /\ flush = [f \in Flushers |-> NoFlush]
    /\ closer = "open" /\ ctxDone = FALSE /\ cut = 0

Init ==
    /\ Fresh
    /\ base = 0 /\ log = <<>> /\ receipts = {}
    /\ promised = {} /\ fails = 0 /\ epoch = 0

(***************************************************************************)
(* Admission, under w.mu.  The send on the channel must never wait: the    *)
(* lock is held.                                                           *)
(***************************************************************************)
EnqueueTelemetryTick(t) ==
    /\ t = Newest + 1
    /\ ~ stopping
    /\ pending < QueueTicks
    /\ bytes + Size[t] <= QueueBytes
    /\ Time[t] >= before
    /\ accepted' = accepted + 1
    /\ pending' = pending + 1
    /\ bytes' = bytes + Size[t]
    /\ measuring' = measuring \cup {t}
    /\ queue' = Append(queue, t)
    /\ UNCHANGED <<base, committed, stopping, before, runner, flushing, ending,
                   disk, observed>>

(***************************************************************************)
(* The archiver reserves a boundary without overtaking an accepted tick.   *)
(***************************************************************************)
\* faulty variant: the ticks that wait for a commit are not looked at.
ReservePastPending(c) ==
    /\ c > cut /\ ~ stopping
    /\ before' = Max({before, c})
    /\ cut' = c
    /\ UNCHANGED <<status, stopping, queue, measuring, runner, flushing, ending,
                   disk, promised, fails, epoch>>

ReserveAggregateCutoff(c) ==
    /\ c > cut /\ ~ stopping
    /\ LET cutoff == Min({c} \cup {Time[t] : t \in measuring})
       IN  /\ before' = Max({before, cutoff})
           /\ cut' = Max({cut, cutoff})
    /\ UNCHANGED <<status, stopping, queue, measuring, runner, flushing, ending,
                   disk, promised, fails, epoch>>

(***************************************************************************)
(* The run goroutine.  With nothing in hand it waits for a tick.  With     *)
(* ticks in hand it looks once whether to commit ("idle", the top of the   *)
(* loop) and otherwise blocks ("wait"): from there only a tick, the flush  *)
(* token, the timer or the end brings it back to look again.               *)
(***************************************************************************)
FlushDue == flushTarget > 0 /\ committed + Len(held) >= flushTarget

ShouldCommit == held # <<>> /\ (Len(held) >= CommitTicks \/ FlushDue \/ elapsed)

Blocked == (pc = "idle" /\ held = <<>>) \/ pc = "wait"

Take(n) ==
    /\ held' = held \o SubSeq(queue, 1, n)
    /\ queue' = SubSeq(queue, n + 1, Len(queue))

\* drainQueue: up to maxTicks of what is in the queue.
Drain == Take(Min({Len(queue), Max({0, CommitTicks - Len(held)})}))

Receive ==
    /\ Blocked
    /\ queue # <<>>
    /\ Take(1)
    /\ pc' = "idle"
    /\ UNCHANGED <<status, stopping, measuring, before, elapsed, final, maxAttempt,
                   ackSeq, result, flushing, ending, disk, observed>>

\* shouldCommit said no: the timer is set and the select entered.
Wait ==
    /\ pc = "idle" /\ held # <<>> /\ ~ ShouldCommit
    /\ pc' = "wait"
    /\ UNCHANGED <<status, admission, held, elapsed, final, maxAttempt, ackSeq, result,
                   flushing, ending, disk, observed>>

\* commitInterval has passed since firstHeld.  commitHeld does not look at it and
\* leaves nothing in hand.
IntervalElapses ==
    /\ pc \in {"idle", "wait"} /\ held # <<>> /\ ~ elapsed
    /\ elapsed' = TRUE
    /\ UNCHANGED <<status, admission, held, pc, final, maxAttempt, ackSeq, result,
                   flushing, ending, disk, observed>>

EnterCommitHeld ==
    /\ pc' = "try"
    /\ maxAttempt' = CommitTicks
    /\ UNCHANGED <<status, stopping, measuring, before, elapsed, ackSeq, result,
                   flushTarget, flush, ending, disk, observed>>

CommitDue ==
    /\ pc = "idle" /\ ShouldCommit
    /\ Drain
    /\ EnterCommitHeld
    /\ UNCHANGED <<final, flushToken>>

TimerFires ==
    /\ pc = "wait" /\ elapsed
    /\ EnterCommitHeld
    /\ UNCHANGED <<held, queue, final, flushToken>>

FlushToken ==
    /\ pc = "wait"
    /\ flushToken
    /\ flushToken' = FALSE
    /\ Drain
    /\ EnterCommitHeld
    /\ UNCHANGED final

\* The closed channel is empty: what is in hand is committed, then run returns.
QueueClosed ==
    /\ Blocked
    /\ stopping /\ queue = <<>>
    /\ IF held = <<>>
       THEN /\ pc' = "done"
            /\ UNCHANGED <<status, admission, held, elapsed, final, maxAttempt, ackSeq,
                           result, flushing, ending, disk, observed>>
       ELSE /\ EnterCommitHeld
            /\ final' = TRUE
            /\ UNCHANGED <<held, queue, flushToken>>

Return ==
    /\ pc' = "done"
    /\ UNCHANGED <<status, admission, held, elapsed, final, maxAttempt, ackSeq, result,
                   flushing, ending, disk, observed>>

\* A cancelled context ends run wherever it waits or looks at it.
ContextDone ==
    /\ ctxDone
    /\ \/ Blocked
       \/ pc = "try" /\ held # <<>>
       \/ pc = "retry"
    /\ Return

(***************************************************************************)
(* commitHeld: one transaction for a prefix of the ticks in hand.  The     *)
(* sequence of a receipt is the position of its tick in the log.           *)
(***************************************************************************)
Attempt == SubSeq(held, 1, Min({Len(held), maxAttempt}))

\* The ticks that have a receipt.
Received == {log[s] : s \in receipts}

\* The members of a sequence that are not in a set, in their order: the loop
\* over a batch that skips the ticks it finds a receipt for.
Without(ticks, skipped) ==
    LET kept[i \in 0..Len(ticks)] ==
          IF i = 0 THEN <<>>
          ELSE IF ticks[i] \in skipped THEN kept[i - 1] ELSE Append(kept[i - 1], ticks[i])
    IN  kept[Len(ticks)]

SequenceOf(t, rows) == CHOOSE s \in DOMAIN rows : rows[s] = t

Begin ==
    /\ pc = "try" /\ ~ ctxDone
    /\ held # <<>>
    /\ pc' = "flight"
    /\ UNCHANGED <<status, admission, held, elapsed, final, maxAttempt, ackSeq, result,
                   flushing, ending, disk, observed>>

\* faulty variant: the transaction also drops the receipts of its own ticks.
WriteForgetful(new, seq) ==
    /\ log' = log \o new
    /\ receipts' = (receipts \cup (Len(log) + 1)..(Len(log) + Len(new))) \ (1..seq)

\* writeHistoryBatchTx for each tick without a receipt, then ackHistoryReceipts.
Write(new, seq) ==
    /\ log' = log \o new
    /\ receipts' = (receipts \cup (Len(log) + 1)..(Len(log) + Len(new))) \ (1..ackSeq)

(***************************************************************************)
(* recordHistoryBatches.  A deadline can also strike after SQLite made the *)
(* transaction durable: err is then "interrupted" and the rows are there.  *)
(* A disk that is full, failing or locked by another writer fails every    *)
(* transaction, any number of times.                                       *)
(***************************************************************************)
Outcomes == {"ok", "unknown", "interrupted", "failed"}

RecordHistoryBatches(err) ==
    /\ pc = "flight" /\ result.err = "none"
    /\ LET new == Without(Attempt, Received)
           seq == SequenceOf(Attempt[Len(Attempt)], log \o new)
           bad == ackSeq > 0 /\ ackSeq >= seq
       IN  /\ IF err \in {"ok", "unknown"} /\ ~ bad THEN Write(new, seq) ELSE UNCHANGED disk
           /\ result' = [err |-> IF bad THEN "failed"
                                 ELSE IF err = "unknown" THEN "interrupted" ELSE err,
                         n |-> Len(Attempt), seq |-> seq]
    /\ IF err = "unknown" THEN fails < MaxFail /\ fails' = fails + 1 ELSE UNCHANGED fails
    /\ UNCHANGED <<status, admission, held, elapsed, pc, final, maxAttempt, ackSeq,
                   flushing, ending, cut, promised, epoch>>

Done(n) == {held[i] : i \in 1..n}
\* faulty variant: the bytes of all ticks in hand are released.
AttemptBytesHeld(n) == FoldFunctionOnSet(LAMBDA x, y : x + y, 0, Size, Range(held))

AttemptBytes(n) == FoldFunctionOnSet(LAMBDA x, y : x + y, 0, Size, Done(n))

\* faulty variant: the whole batch in hand is taken for committed, not the prefix.
SettledWhole ==
    /\ pc = "flight" /\ result.err = "ok"
    /\ committed' = committed + Len(held)
    /\ pending' = pending - Len(held)
    /\ bytes' = bytes - AttemptBytes(Len(held))
    /\ measuring' = measuring \ Done(Len(held))
    /\ ackSeq' = result.seq
    /\ held' = <<>> /\ elapsed' = FALSE
    /\ maxAttempt' = CommitTicks
    /\ pc' = IF final THEN "done" ELSE "idle"
    /\ result' = NoResult
    /\ UNCHANGED <<base, accepted, stopping, queue, before, final, flushing, ending,
                   disk, observed>>

\* The status of a commit that succeeded, and the next prefix or the end.
Settled ==
    /\ pc = "flight" /\ result.err = "ok"
    /\ committed' = committed + result.n
    /\ pending' = pending - result.n
    /\ bytes' = bytes - AttemptBytes(result.n)
    /\ measuring' = measuring \ Done(result.n)
    /\ ackSeq' = result.seq
    /\ held' = SubSeq(held, result.n + 1, Len(held))
    /\ elapsed' = (elapsed /\ held' # <<>>)
    /\ maxAttempt' = CommitTicks
    /\ pc' = IF held' # <<>> THEN "try" ELSE IF final THEN "done" ELSE "idle"
    /\ result' = NoResult
    /\ UNCHANGED <<base, accepted, stopping, queue, before, final, flushing, ending,
                   disk, observed>>

\* An interrupted batch is halved; a tick alone, or another error, waits.
Unsettled ==
    /\ pc = "flight" /\ result.err \in {"interrupted", "failed"}
    /\ IF result.err = "interrupted" /\ result.n > 1
       THEN maxAttempt' = Max({1, result.n \div 2}) /\ pc' = "try"
       ELSE pc' = "retry" /\ UNCHANGED maxAttempt
    /\ result' = NoResult
    /\ UNCHANGED <<status, admission, held, elapsed, final, ackSeq, flushing, ending,
                   disk, observed>>

\* faulty variant: after an error only the cancelled context is waited for.
RetryNever ==
    /\ pc = "retry" /\ ctxDone
    /\ Return

RetryTimer ==
    /\ pc = "retry"
    /\ pc' = "try"
    /\ UNCHANGED <<status, admission, held, elapsed, final, maxAttempt, ackSeq, result,
                   flushing, ending, disk, observed>>

(***************************************************************************)
(* FlushHistory: read the target, ask for it, wait for it.  requestFlush   *)
(* raises the target and then sends the token, without waiting for the     *)
(* goroutine: the channel keeps one.  The two are one step here, since a   *)
(* token that comes later finds the goroutine as if it was not yet taken.  *)
(***************************************************************************)
\* faulty variant: the channel keeps nothing, and a token sent before the goroutine
\* has reached its select is dropped.
RequestFlushUnbuffered(target) ==
    /\ flushTarget' = Max({flushTarget, target})
    /\ flushToken' \in {flushToken, flushToken \/ pc = "wait"}

RequestFlush(target) ==
    /\ flushTarget' = Max({flushTarget, target})
    /\ flushToken' = TRUE

FlushHistory(f) ==
    /\ flush[f].pc = "none" /\ closer = "open"
    /\ flush' = [flush EXCEPT ![f] = [pc |-> "asks", want |-> accepted]]
    /\ UNCHANGED <<status, admission, runner, flushTarget, flushToken, ending, disk,
                   observed>>

FlushAsks(f) ==
    /\ flush[f].pc = "asks"
    /\ RequestFlush(flush[f].want)
    /\ flush' = [flush EXCEPT ![f].pc = "waits"]
    /\ UNCHANGED <<status, admission, runner, ending, disk, observed>>

FlushReturns(f) ==
    /\ flush[f].pc = "waits" /\ committed >= flush[f].want
    /\ flush' = [flush EXCEPT ![f] = NoFlush]
    /\ promised' = promised \cup (base + 1)..(base + flush[f].want)
    /\ UNCHANGED <<status, admission, runner, flushTarget, flushToken, ending, disk,
                   cut, fails, epoch>>

\* The caller's context ends before the commit: an error, and no promise.
FlushGivesUp(f) ==
    /\ flush[f].pc = "waits" /\ committed < flush[f].want
    /\ flush' = [flush EXCEPT ![f] = NoFlush]
    /\ UNCHANGED <<status, admission, runner, flushTarget, flushToken, ending, disk,
                   observed>>

(***************************************************************************)
(* StopHistory: admission ends, run drains within a budget, then its       *)
(* context is cancelled.                                                   *)
(***************************************************************************)
StopAdmission ==
    /\ closer = "open"
    /\ closer' = "stops" /\ stopping' = TRUE
    /\ UNCHANGED <<status, queue, measuring, before, runner, flushing, ctxDone, disk,
                   observed>>

CloseAsks ==
    /\ closer = "stops"
    /\ closer' = "waits"
    /\ RequestFlush(accepted)
    /\ UNCHANGED <<status, admission, runner, flush, ctxDone, disk, observed>>

\* faulty variant: close waits for the drain alone.
CloseWithoutBudget == FALSE

CloseBudget ==
    /\ closer = "waits" /\ pc # "done" /\ ~ ctxDone
    /\ ctxDone' = TRUE
    /\ UNCHANGED <<status, admission, runner, flushing, closer, disk, observed>>

Closed ==
    /\ closer = "waits" /\ pc = "done"
    /\ closer' = IF pending = 0 THEN "closed" ELSE "failed"
    /\ ctxDone' = TRUE
    /\ UNCHANGED <<status, admission, runner, flushing, disk, observed>>

(***************************************************************************)
(* The process ends, by a power cut or after the close, and starts again:  *)
(* only the log and the receipts are left.  Tick IDs are never used twice. *)
(***************************************************************************)
Restart ==
    /\ epoch < MaxCrash
    /\ epoch' = epoch + 1
    /\ base' = Newest
    /\ accepted' = 0 /\ committed' = 0 /\ pending' = 0 /\ bytes' = 0
    /\ stopping' = FALSE /\ queue' = <<>> /\ measuring' = {} /\ before' = 0
    /\ held' = <<>> /\ elapsed' = FALSE /\ pc' = "idle" /\ final' = FALSE
    /\ maxAttempt' = CommitTicks /\ ackSeq' = 0 /\ result' = NoResult
    /\ flushTarget' = 0 /\ flushToken' = FALSE
    /\ flush' = [f \in Flushers |-> NoFlush]
    /\ closer' = "open" /\ ctxDone' = FALSE /\ cut' = 0
    /\ UNCHANGED <<disk, promised, fails>>

Run ==
    \/ Receive \/ Wait \/ CommitDue \/ TimerFires \/ FlushToken \/ QueueClosed \/ ContextDone
    \/ Begin \/ Settled \/ Unsettled \/ RetryTimer
    \/ \E err \in Outcomes : RecordHistoryBatches(err)

Callers ==
    \/ \E f \in Flushers : FlushAsks(f) \/ FlushReturns(f)
    \/ CloseAsks \/ CloseBudget \/ Closed

Next ==
    \/ \E t \in Ticks : EnqueueTelemetryTick(t)
    \/ \E c \in {Time[t] : t \in Ticks} : ReserveAggregateCutoff(c)
    \/ Run
    \/ Callers
    \/ IntervalElapses
    \/ \E f \in Flushers : FlushHistory(f) \/ FlushGivesUp(f)
    \/ StopAdmission
    \/ Restart

Spec == Init /\ [][Next]_vars

(***************************************************************************)
(* The goroutines run, each commit ends within its timeout, and close's    *)
(* budget timer fires.  Nothing is assumed of the disk, which may fail for *)
(* ever, nor of the commit interval: a flush must not depend on it.        *)
(***************************************************************************)
FairSpec ==
    /\ Spec
    /\ WF_vars(Run)
    /\ \A f \in Flushers : WF_vars(FlushAsks(f)) /\ WF_vars(FlushReturns(f))
    /\ WF_vars(CloseAsks) /\ WF_vars(CloseBudget) /\ WF_vars(Closed)

-----------------------------------------------------------------------------
TypeOK ==
    /\ {base, accepted, committed, pending, bytes, before, ackSeq, flushTarget, cut,
        fails, epoch} \subseteq Nat
    /\ {stopping, elapsed, final, flushToken, ctxDone} \subseteq BOOLEAN
    /\ queue \in Seq(Ticks) /\ held \in Seq(Ticks) /\ log \in Seq(Ticks)
    /\ measuring \subseteq Ticks /\ promised \subseteq Ticks
    /\ receipts \subseteq 1..Len(log)
    /\ pc \in {"idle", "wait", "try", "flight", "retry", "done"}
    /\ maxAttempt \in 1..CommitTicks
    /\ result \in [err : {"none", "ok", "interrupted", "failed"}, n : Nat, seq : Nat]
    /\ flush \in [Flushers -> [pc : {"none", "asks", "waits"}, want : Nat]]
    /\ closer \in {"open", "stops", "waits", "closed", "failed"}

(***************************************************************************)
(* The counters that admission decides by are those of the ticks in the    *)
(* queue and in hand, across failed, halved and repeated commits, so that  *)
(* the send under the lock never waits and no room is lost for good.       *)
(***************************************************************************)
RoomIsAccounted ==
    /\ pending = Len(Open) /\ accepted = committed + pending
    /\ bytes = FoldFunctionOnSet(LAMBDA x, y : x + y, 0, Size, Range(Open))
    /\ Len(queue) <= QueueTicks

(***************************************************************************)
(* When FlushHistory returned without an error, every tick accepted before *)
(* the call is on disk: the backup that called it may copy the file.       *)
(***************************************************************************)
FlushedIsDurable == promised \subseteq Range(log)

(***************************************************************************)
(* The archiver never rolls an interval a tick still waits to be written   *)
(* into: it would replace that interval without the tick.                  *)
(***************************************************************************)
ArchiveWaitsForTicks == \A t \in Range(Open) : Time[t] >= cut

(***************************************************************************)
(* StopHistory reports success only when everything accepted is on disk.   *)
(***************************************************************************)
CleanCloseIsComplete == closer = "closed" => (base + 1)..Newest \subseteq Range(log)

(***************************************************************************)
(* A tick reaches the log exactly once, in order of admission, and only a  *)
(* restart loses one, whatever commits were halved, failed or ended with   *)
(* an unknown outcome.                                                     *)
(***************************************************************************)
Exact == INSTANCE HistoryLog
         WITH waiting <- Without(Open, Range(log))
ExactlyOnce == Exact!Spec

(***************************************************************************)
(* A flush returns although the commit interval never passes: the token it *)
(* sent reaches a goroutine that had looked before the target was raised   *)
(* and then blocked.  Only a caller that gives up, a cancelled writer or a *)
(* disk on which every further commit fails excuses it.                    *)
(***************************************************************************)
FlushCompletes ==
    (([]<>(result.err \in {"interrupted", "failed"})) => []<>(result.err = "ok"))
      => \A f \in Flushers : flush[f].pc = "waits" ~> flush[f].pc = "none" \/ ctxDone

(***************************************************************************)
(* Shutdown ends, also on a disk that fails every commit: run drains the   *)
(* queue or is cancelled after the budget, and close returns.              *)
(***************************************************************************)
CloseCompletes == closer = "stops" ~> closer \in {"closed", "failed", "open"}

\* The writer's records are well formed and its counters are those of the ticks
\* it holds.
QueueIsConsistent == TypeOK /\ RoomIsAccounted

\* FlushHistory and StopHistory report success only for ticks that are on disk.
AcknowledgedIsDurable == FlushedIsDurable /\ CleanCloseIsComplete

\* Nobody waits for the writer for ever: FlushHistory and StopHistory return.
WaitersReturn == FlushCompletes /\ CloseCompletes
=============================================================================
