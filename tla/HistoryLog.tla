----------------------------- MODULE HistoryLog -----------------------------
(***************************************************************************)
(* What the history writer promises the control loop: a tick it accepted   *)
(* reaches the measurement log exactly once and in the order of admission, *)
(* and only the end of the process loses one that was not yet committed.   *)
(***************************************************************************)
EXTENDS Naturals, Sequences

CONSTANT Ticks

VARIABLES
    log,        \* the ticks on disk, oldest first
    waiting,    \* accepted ticks that are not on disk yet, oldest first
    epoch       \* how often the process was started again

logVars == <<log, waiting, epoch>>

Init == log = <<>> /\ waiting = <<>> /\ epoch = 0

Accept(t) ==
    /\ \A i \in 1..Len(log) : log[i] # t
    /\ \A i \in 1..Len(waiting) : waiting[i] # t
    /\ waiting' = Append(waiting, t)
    /\ UNCHANGED <<log, epoch>>

Commit(n) ==
    /\ log' = log \o SubSeq(waiting, 1, n)
    /\ waiting' = SubSeq(waiting, n + 1, Len(waiting))
    /\ UNCHANGED epoch

Restart ==
    /\ epoch' = epoch + 1
    /\ waiting' = <<>>
    /\ UNCHANGED log

Next ==
    \/ \E t \in Ticks : Accept(t)
    \/ \E n \in 1..Len(waiting) : Commit(n)
    \/ Restart

Spec == Init /\ [][Next]_logVars
=============================================================================
