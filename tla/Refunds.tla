------------------------------ MODULE Refunds ------------------------------
(***************************************************************************)
(* Refunds decided by an administrator: create_refund (app/routers/        *)
(* admin.py) inserts a row, queues process_refund and only then commits;   *)
(* process_refund (app/services/tasks.py) credits the recipient.           *)
(*                                                                         *)
(* Celery acknowledges a message after the task (task_acks_late), so a     *)
(* message comes again when its worker dies, or when the broker loses      *)
(* patience with a slow one.  A task that raises is published again, at    *)
(* most MaxRetries times.  A worker reads the balance, adds to it and      *)
(* writes the sum back; no row is locked.                                  *)
(***************************************************************************)
EXTENDS Totals

CONSTANTS
    Users,            \* recipients
    RefundIds,        \* ids of Refund rows
    To,               \* refund_to
    Amount,           \* amount, more than zero
    Workers,          \* worker processes (--concurrency)
    MaxRetries,       \* max_retries of the task
    MaxRedeliveries,  \* bound: messages that come again unasked
    MaxFailures       \* bound: attempts that raise

ASSUME RefundsAssumption ==
    /\ IsFiniteSet(RefundIds) /\ IsFiniteSet(Workers)
    /\ To \in [RefundIds -> Users]
    /\ Amount \in [RefundIds -> Nat \ {0}]
    /\ MaxRetries \in Nat /\ MaxRedeliveries \in Nat /\ MaxFailures \in Nat

VARIABLES
    row,          \* Refund.status, with the time before its commit
    queue,        \* messages waiting, per refund and number of retries
    worker,       \* what every worker process is doing
    available,    \* WalletBalance.amount
    credits,      \* number of WalletTransaction rows that name a refund
    redelivered,  \* messages that came again so far
    failed,       \* attempts that raised so far
    overlapped    \* history: recipients whose balance was read while another
                  \* worker was between reading and writing it

vars == <<row, queue, worker, available, credits, redelivered, failed, overlapped>>

Messages == RefundIds \X (0 .. MaxRetries)

\* "flushed" is inserted and not committed, "lost" was rolled back.
RowState == {"none", "flushed", "lost", "pending", "completed"}

Idle == [step |-> "idle"]
\* A worker holds a message, and the balance it has read for it; "done" is
\* committed and not yet acknowledged.
Busy == [step : {"read", "done"}, msg : Messages, balance : Nat]

TypeOK ==
    /\ row \in [RefundIds -> RowState]
    /\ queue \in [Messages -> Nat]
    /\ worker \in [Workers -> Busy \cup {Idle}]
    /\ available \in [Users -> Nat]
    /\ credits \in [RefundIds -> Nat]
    /\ redelivered \in 0 .. MaxRedeliveries
    /\ failed \in 0 .. MaxFailures
    /\ overlapped \subseteq Users

Init ==
    /\ row = [r \in RefundIds |-> "none"]
    /\ queue = [q \in Messages |-> 0]
    /\ worker = [w \in Workers |-> Idle]
    /\ available = [u \in Users |-> 0]
    /\ credits = [r \in RefundIds |-> 0]
    /\ redelivered = 0
    /\ failed = 0
    /\ overlapped = {}

-----------------------------------------------------------------------------
(* create_refund *)

\* The row is flushed and the task queued; the transaction is still open.
CreateRefund(r) ==
    /\ row[r] = "none"
    /\ row' = [row EXCEPT ![r] = "flushed"]
    /\ queue' = [queue EXCEPT ![<<r, 0>>] = @ + 1]
    /\ UNCHANGED <<worker, available, credits, redelivered, failed, overlapped>>

CommitRefund(r) ==
    /\ row[r] = "flushed"
    /\ row' = [row EXCEPT ![r] = "pending"]
    /\ UNCHANGED <<queue, worker, available, credits, redelivered, failed, overlapped>>

\* The handler dies, or its commit fails; the message is out already.
RollBackRefund(r) ==
    /\ row[r] = "flushed"
    /\ row' = [row EXCEPT ![r] = "lost"]
    /\ UNCHANGED <<queue, worker, available, credits, redelivered, failed, overlapped>>

-----------------------------------------------------------------------------
(* process_refund *)

\* READ COMMITTED: other transactions see committed rows only.
Visible(r) == row[r] \in {"pending", "completed"}

\* "not_found": the message is acknowledged, and nothing is left of it.
MissRefund(w, q) ==
    /\ worker[w] = Idle
    /\ queue[q] > 0
    /\ ~Visible(q[1])
    /\ queue' = [queue EXCEPT ![q] = @ - 1]
    /\ UNCHANGED <<row, worker, available, credits, redelivered, failed, overlapped>>

\* Some worker has read the balance of u, and not yet written it.
InHand(u) == \E v \in Workers : worker[v].step = "read" /\ To[worker[v].msg[1]] = u

\* The refund, whatever its status, and the recipient's balance are read.
ReadRefund(w, q) ==
    LET u == To[q[1]] IN
    /\ worker[w] = Idle
    /\ queue[q] > 0
    /\ Visible(q[1])
    /\ queue' = [queue EXCEPT ![q] = @ - 1]
    /\ worker' = [worker EXCEPT ![w] =
                   [step |-> "read", msg |-> q, balance |-> available[u]]]
    /\ overlapped' = IF InHand(u) THEN overlapped \cup {u} ELSE overlapped
    /\ UNCHANGED <<row, available, credits, redelivered, failed>>

\* Fault: the balance is set to the refund, as for a new wallet.
CreditFresh(w) ==
    LET r == worker[w].msg[1] IN
    /\ available' = [available EXCEPT ![To[r]] = Amount[r]]
    /\ credits' = [credits EXCEPT ![r] = @ + 1]

\* The sum of what was read and the refund is written back.
Credit(w) ==
    LET r == worker[w].msg[1] IN
    /\ available' = [available EXCEPT ![To[r]] = worker[w].balance + Amount[r]]
    /\ credits' = [credits EXCEPT ![r] = @ + 1]

CommitCredit(w) ==
    /\ worker[w].step = "read"
    /\ Credit(w)
    /\ row' = [row EXCEPT ![worker[w].msg[1]] = "completed"]
    /\ worker' = [worker EXCEPT ![w].step = "done"]
    /\ UNCHANGED <<queue, redelivered, failed, overlapped>>

Acknowledge(w) ==
    /\ worker[w].step = "done"
    /\ worker' = [worker EXCEPT ![w] = Idle]
    /\ UNCHANGED <<row, queue, available, credits, redelivered, failed, overlapped>>

\* Fault: the last retry is not taken.
RetryOnceLess(q) == q[2] + 1 < MaxRetries
MayRetry(q) == q[2] < MaxRetries

\* Fault: the task raises after the balance was committed.
FailAfterCredit(w) ==
    LET q == worker[w].msg IN
    /\ worker[w].step = "read"
    /\ failed < MaxFailures
    /\ failed' = failed + 1
    /\ Credit(w)
    /\ queue' = IF MayRetry(q)
                THEN [queue EXCEPT ![<<q[1], q[2] + 1>>] = @ + 1] ELSE queue
    /\ worker' = [worker EXCEPT ![w] = Idle]
    /\ UNCHANGED <<row, redelivered, overlapped>>

\* The task raises: rollback, and self.retry while retries are left.
FailAttempt(w) ==
    LET q == worker[w].msg IN
    /\ worker[w].step = "read"
    /\ failed < MaxFailures
    /\ failed' = failed + 1
    /\ queue' = IF MayRetry(q)
                THEN [queue EXCEPT ![<<q[1], q[2] + 1>>] = @ + 1] ELSE queue
    /\ worker' = [worker EXCEPT ![w] = Idle]
    /\ UNCHANGED <<row, available, credits, redelivered, overlapped>>

\* The worker dies before it acknowledges; its message comes again.
WorkerDies(w) ==
    /\ worker[w] # Idle
    /\ redelivered < MaxRedeliveries
    /\ redelivered' = redelivered + 1
    /\ queue' = [queue EXCEPT ![worker[w].msg] = @ + 1]
    /\ worker' = [worker EXCEPT ![w] = Idle]
    /\ UNCHANGED <<row, available, credits, failed, overlapped>>

\* The broker delivers a message again while a worker is still busy with it.
VisibilityTimeout(w) ==
    /\ worker[w] # Idle
    /\ redelivered < MaxRedeliveries
    /\ redelivered' = redelivered + 1
    /\ queue' = [queue EXCEPT ![worker[w].msg] = @ + 1]
    /\ UNCHANGED <<row, worker, available, credits, failed, overlapped>>

-----------------------------------------------------------------------------
Take(w) == \E q \in Messages : MissRefund(w, q) \/ ReadRefund(w, q)
Work(w) == CommitCredit(w) \/ Acknowledge(w)

Next ==
    \/ \E r \in RefundIds : CreateRefund(r) \/ CommitRefund(r) \/ RollBackRefund(r)
    \/ \E w \in Workers : \/ Take(w)
                          \/ Work(w)
                          \/ FailAttempt(w)
                          \/ WorkerDies(w)
                          \/ VisibilityTimeout(w)

Spec == Init /\ [][Next]_vars

\* Handlers finish or die, and workers take messages and work them off.
Fairness ==
    /\ \A r \in RefundIds : WF_vars(CommitRefund(r) \/ RollBackRefund(r))
    /\ \A w \in Workers : WF_vars(Take(w)) /\ WF_vars(Work(w))

FairSpec == Spec /\ Fairness

-----------------------------------------------------------------------------
(* Safety *)

Credited(r) == credits[r] * Amount[r]

\* What the credits of u add up to.
CreditedTo(u) == Total([r \in RefundIds |-> Credited(r)], {r \in RefundIds : To[r] = u})

\* The balance is what the credits add up to: no retry, redelivery, failed
\* attempt or dying worker adds to it or eats an earlier credit.  Two workers
\* that had the balance in hand at once can: the later write then loses
\* credits, but no number of workers makes money.
BalanceIsCredits ==
    \A u \in Users :
        /\ available[u] <= CreditedTo(u)
        /\ available[u] = CreditedTo(u) \/ u \in overlapped

\* Only a refund that the administrator's transaction committed is ever paid,
\* although its message is out before the commit, and it is marked as
\* completed exactly when it was paid.
PaidMeansCompleted ==
    \A r \in RefundIds : credits[r] > 0 <=> row[r] = "completed"

\* Nothing but a redelivered message pays a refund again: not the retry of a
\* failed attempt.
OnlyRedeliveryRepeats ==
    Total([r \in RefundIds |-> credits[r]], RefundIds)
      <= Cardinality({r \in RefundIds : credits[r] > 0}) + redelivered

(* Liveness *)

Waiting(r) == \E k \in 0 .. MaxRetries : queue[<<r, k>>] > 0

\* A refund whose message is still waiting when it is committed is paid, in
\* spite of as many failures as there are retries.  (A worker may be faster
\* than the commit: MissRefund then loses the message, and the refund stays
\* pending.)
WaitingRefundIsPaid ==
    \A r \in RefundIds : (row[r] = "pending" /\ Waiting(r)) ~> row[r] = "completed"
=============================================================================
