--------------------------- MODULE RefundsProofs ---------------------------
(***************************************************************************)
(* Theorems about Refunds, for any number of refunds, workers, retries and *)
(* redeliveries.                                                           *)
(***************************************************************************)
EXTENDS Refunds, TotalsProofs

-----------------------------------------------------------------------------
(* Types *)

\* A worker that is not idle holds a message and a balance.
LEMMA BusyWorker ==
    ASSUME TypeOK, NEW w \in Workers, worker[w] # Idle
    PROVE  /\ worker[w] \in Busy
           /\ worker[w].step \in {"read", "done"}
           /\ worker[w].msg \in Messages
           /\ worker[w].msg[1] \in RefundIds
           /\ worker[w].msg[2] \in 0 .. MaxRetries
           /\ worker[w].balance \in Nat
<1>1. worker[w] \in Busy
  BY DEF TypeOK
<1> QED
  BY <1>1 DEF Busy, Messages

LEMMA StepIsBusy ==
    ASSUME TypeOK, NEW w \in Workers, worker[w].step \in {"read", "done"}
    PROVE  worker[w] # Idle
BY DEF Idle

LEMMA QueueType ==
    ASSUME TypeOK, NEW q \in Messages
    PROVE  /\ queue[q] \in Nat
           /\ [queue EXCEPT ![q] = @ + 1] \in [Messages -> Nat]
           /\ queue[q] > 0 => [queue EXCEPT ![q] = @ - 1] \in [Messages -> Nat]
BY DEF TypeOK

\* A retry is published with a count that the task allows.
LEMMA RetryMessage ==
    ASSUME NEW q \in Messages, MayRetry(q)
    PROVE  <<q[1], q[2] + 1>> \in Messages
BY RefundsAssumption DEF Messages, MayRetry

LEMMA HandlerType ==
    ASSUME TypeOK, NEW r \in RefundIds,
           CreateRefund(r) \/ CommitRefund(r) \/ RollBackRefund(r)
    PROVE  TypeOK'
<1>1. <<r, 0>> \in Messages
  BY RefundsAssumption DEF Messages
<1>2. [queue EXCEPT ![<<r, 0>>] = @ + 1] \in [Messages -> Nat]
  BY <1>1, QueueType
<1> QED
  BY <1>2 DEF TypeOK, CreateRefund, CommitRefund, RollBackRefund, RowState

LEMMA TakeType ==
    ASSUME TypeOK, NEW w \in Workers, NEW q \in Messages,
           MissRefund(w, q) \/ ReadRefund(w, q)
    PROVE  TypeOK'
<1>1. queue' \in [Messages -> Nat]
  BY QueueType DEF MissRefund, ReadRefund
<1>2. CASE MissRefund(w, q)
  BY <1>1, <1>2 DEF MissRefund, TypeOK
<1>3. CASE ReadRefund(w, q)
  <2>1. q[1] \in RefundIds /\ To[q[1]] \in Users
    BY RefundsAssumption DEF Messages
  <2>2. available[To[q[1]]] \in Nat
    BY <2>1 DEF TypeOK
  <2>3. [step |-> "read", msg |-> q, balance |-> available[To[q[1]]]] \in Busy
    BY <2>2 DEF Busy
  <2>4. worker' \in [Workers -> Busy \cup {Idle}]
    BY <1>3, <2>3 DEF ReadRefund, TypeOK
  <2> QED
    BY <1>1, <1>3, <2>1, <2>4 DEF ReadRefund, TypeOK
<1> QED
  BY <1>2, <1>3

LEMMA WorkType ==
    ASSUME TypeOK, NEW w \in Workers, Work(w)
    PROVE  TypeOK'
<1>1. CASE CommitCredit(w)
  <2> DEFINE r == worker[w].msg[1]
  <2>1. worker[w] # Idle
    BY <1>1, StepIsBusy DEF CommitCredit
  <2>2. /\ worker[w] \in Busy /\ r \in RefundIds /\ worker[w].balance \in Nat
        /\ worker[w].msg \in Messages
    BY <2>1, BusyWorker
  <2>3. Amount[r] \in Nat /\ To[r] \in Users
    BY <2>2, RefundsAssumption
  <2>4. available' \in [Users -> Nat]
    <3>1. available' = [available EXCEPT ![To[r]] = worker[w].balance + Amount[r]]
      BY <1>1 DEF CommitCredit, Credit
    <3> QED
      BY <2>2, <2>3, <3>1 DEF TypeOK
  <2>5. credits' \in [RefundIds -> Nat]
    <3>1. credits' = [credits EXCEPT ![r] = @ + 1]
      BY <1>1 DEF CommitCredit, Credit
    <3> QED
      BY <2>2, <3>1 DEF TypeOK
  <2>6. row' \in [RefundIds -> RowState]
    BY <1>1 DEF CommitCredit, TypeOK, RowState
  <2>7. [worker[w] EXCEPT !.step = "done"] \in Busy
    BY <2>2 DEF Busy
  <2>8. worker' \in [Workers -> Busy \cup {Idle}]
    BY <1>1, <2>7 DEF CommitCredit, TypeOK
  <2> QED
    BY <1>1, <2>4, <2>5, <2>6, <2>8 DEF CommitCredit, TypeOK
<1>2. CASE Acknowledge(w)
  BY <1>2 DEF Acknowledge, TypeOK
<1> QED
  BY <1>1, <1>2 DEF Work

LEMMA FailType ==
    ASSUME TypeOK, NEW w \in Workers, FailAttempt(w)
    PROVE  TypeOK'
<1> DEFINE q == worker[w].msg
<1>1. worker[w] # Idle
  BY StepIsBusy DEF FailAttempt
<1>2. q \in Messages
  BY <1>1, BusyWorker
<1>3. queue' \in [Messages -> Nat]
  <2>1. CASE MayRetry(q)
    <3>1. <<q[1], q[2] + 1>> \in Messages
      BY <1>2, <2>1, RetryMessage
    <3> QED
      BY <2>1, <3>1, QueueType DEF FailAttempt
  <2>2. CASE ~MayRetry(q)
    BY <2>2 DEF FailAttempt, TypeOK
  <2> QED
    BY <2>1, <2>2
<1>4. failed' \in 0 .. MaxFailures
  BY RefundsAssumption DEF FailAttempt, TypeOK
<1> QED
  BY <1>3, <1>4 DEF FailAttempt, TypeOK

LEMMA RedeliveryType ==
    ASSUME TypeOK, NEW w \in Workers, WorkerDies(w) \/ VisibilityTimeout(w)
    PROVE  TypeOK'
<1>1. worker[w].msg \in Messages
  BY BusyWorker DEF WorkerDies, VisibilityTimeout
<1>2. queue' \in [Messages -> Nat]
  BY <1>1, QueueType DEF WorkerDies, VisibilityTimeout
<1>3. redelivered' \in 0 .. MaxRedeliveries
  BY RefundsAssumption DEF WorkerDies, VisibilityTimeout, TypeOK
<1>4. worker' \in [Workers -> Busy \cup {Idle}]
  BY DEF WorkerDies, VisibilityTimeout, TypeOK
<1> QED
  BY <1>2, <1>3, <1>4 DEF WorkerDies, VisibilityTimeout, TypeOK

LEMMA InitType == Init => TypeOK
BY RefundsAssumption DEF Init, TypeOK, RowState

LEMMA StepType == TypeOK /\ [Next]_vars => TypeOK'
<1> SUFFICES ASSUME TypeOK, [Next]_vars
             PROVE  TypeOK'
  OBVIOUS
<1>1. CASE UNCHANGED vars
  BY <1>1 DEF vars, TypeOK
<1> QED
  BY <1>1, HandlerType, TakeType, WorkType, FailType, RedeliveryType
  DEF Next, Take

-----------------------------------------------------------------------------
(* What is paid was committed *)

\* What PaidMeansCompleted needs to be inductive: a worker only holds a refund
\* that it has seen, and one that was seen is never rolled back.
SeenIsCommitted ==
    \A w \in Workers : worker[w] # Idle => Visible(worker[w].msg[1])

RefundInv == TypeOK /\ SeenIsCommitted /\ PaidMeansCompleted

\* What was committed stays so.
LEMMA VisibleStays ==
    ASSUME TypeOK, Next, NEW r \in RefundIds, Visible(r)
    PROVE  Visible(r)'
<1>1. row \in [RefundIds -> RowState]
  BY DEF TypeOK
<1> QED
  BY <1>1
  DEF Next, CreateRefund, CommitRefund, RollBackRefund, Take, MissRefund,
      ReadRefund, Work, CommitCredit, Acknowledge, FailAttempt, WorkerDies,
      VisibilityTimeout, Visible

\* What a worker holds it held before, or it sees it committed.
LEMMA HeldBefore ==
    ASSUME TypeOK, Next, NEW w \in Workers, worker'[w] # Idle
    PROVE  \/ worker[w] # Idle /\ worker'[w].msg = worker[w].msg
           \/ \E q \in Messages : worker'[w].msg = q /\ Visible(q[1])
<1>1. worker \in [Workers -> Busy \cup {Idle}]
  BY DEF TypeOK
<1>2. ASSUME NEW v \in Workers, NEW q \in Messages, ReadRefund(v, q)
      PROVE  \/ worker'[w] = worker[w]
             \/ worker'[w].msg = q /\ Visible(q[1])
  BY <1>1, <1>2 DEF ReadRefund
<1>3. ASSUME NEW v \in Workers, worker' = [worker EXCEPT ![v] = Idle]
      PROVE  worker'[w] = worker[w]
  BY <1>1, <1>3
<1>4. ASSUME NEW v \in Workers, CommitCredit(v)
      PROVE  worker[w] # Idle /\ worker'[w].msg = worker[w].msg
  <2>1. CASE v = w
    <3>1. worker[w] \in Busy /\ worker[w] # Idle
      BY <1>4, <2>1, StepIsBusy, BusyWorker DEF CommitCredit
    <3>2. worker'[w] = [worker[w] EXCEPT !.step = "done"]
      BY <1>1, <1>4, <2>1 DEF CommitCredit
    <3> QED
      BY <3>1, <3>2 DEF Busy
  <2>2. CASE v # w
    BY <1>1, <1>4, <2>2 DEF CommitCredit
  <2> QED
    BY <2>1, <2>2
<1>5. CASE worker' = worker
  BY <1>5
<1>6. CASE \E v \in Workers : worker' = [worker EXCEPT ![v] = Idle]
  BY <1>3, <1>6
<1> QED
  BY <1>2, <1>4, <1>5, <1>6
  DEF Next, CreateRefund, CommitRefund, RollBackRefund, Take, MissRefund, Work,
      Acknowledge, FailAttempt, WorkerDies, VisibilityTimeout

LEMMA SeenStep ==
    ASSUME TypeOK, SeenIsCommitted, Next
    PROVE  SeenIsCommitted'
<1> SUFFICES ASSUME NEW w \in Workers, worker'[w] # Idle
             PROVE  Visible(worker[w].msg[1])'
  BY DEF SeenIsCommitted, Idle
<1>1. CASE worker[w] # Idle /\ worker'[w].msg = worker[w].msg
  <2>1. worker[w].msg[1] \in RefundIds /\ Visible(worker[w].msg[1])
    BY <1>1, BusyWorker DEF SeenIsCommitted
  <2> QED
    BY <1>1, <2>1, VisibleStays DEF Visible
<1>2. ASSUME NEW q \in Messages, worker'[w].msg = q, Visible(q[1])
      PROVE  Visible(worker[w].msg[1])'
  <2>1. q[1] \in RefundIds
    BY DEF Messages
  <2> QED
    BY <1>2, <2>1, VisibleStays DEF Visible
<1> QED
  BY <1>1, <1>2, HeldBefore

LEMMA PaidStep ==
    ASSUME TypeOK, SeenIsCommitted, PaidMeansCompleted, Next
    PROVE  PaidMeansCompleted'
<1>1. row \in [RefundIds -> RowState] /\ credits \in [RefundIds -> Nat]
  BY DEF TypeOK
<1>2. ASSUME NEW w \in Workers, CommitCredit(w)
      PROVE  PaidMeansCompleted'
  <2> DEFINE r == worker[w].msg[1]
  <2>1. r \in RefundIds
    BY <1>2, StepIsBusy, BusyWorker DEF CommitCredit
  <2>2. row' = [row EXCEPT ![r] = "completed"]
    BY <1>2 DEF CommitCredit
  <2>3. credits' = [credits EXCEPT ![r] = @ + 1]
    BY <1>2 DEF CommitCredit, Credit
  <2> HIDE DEF r
  <2> QED
    BY <1>1, <2>1, <2>2, <2>3 DEF PaidMeansCompleted
<1>3. ASSUME NEW q \in RefundIds,
             CreateRefund(q) \/ CommitRefund(q) \/ RollBackRefund(q)
      PROVE  PaidMeansCompleted'
  BY <1>1, <1>3
  DEF CreateRefund, CommitRefund, RollBackRefund, PaidMeansCompleted
<1>4. CASE UNCHANGED <<row, credits>>
  BY <1>4 DEF PaidMeansCompleted
<1> QED
  BY <1>2, <1>3, <1>4
  DEF Next, Take, MissRefund, ReadRefund, Work, Acknowledge, FailAttempt,
      WorkerDies, VisibilityTimeout

LEMMA RefundInvStep == RefundInv /\ [Next]_vars => RefundInv'
<1> SUFFICES ASSUME RefundInv, [Next]_vars
             PROVE  RefundInv'
  OBVIOUS
<1>1. CASE Next
  BY <1>1, StepType, SeenStep, PaidStep DEF RefundInv
<1>2. CASE UNCHANGED vars
  BY <1>2, StepType
  DEF vars, RefundInv, SeenIsCommitted, Visible, PaidMeansCompleted
<1> QED
  BY <1>1, <1>2

LEMMA RefundInvInit == Init => RefundInv
BY InitType DEF Init, RefundInv, SeenIsCommitted, PaidMeansCompleted, Idle

\* A refund is paid exactly when it is marked as completed, and only after the
\* administrator's transaction has committed it: for any number of workers
\* (the run has one), although two of them may lose each other's credit.
THEOREM RefundsPaidWhenCompleted == Spec => []PaidMeansCompleted
<1>1. RefundInv => PaidMeansCompleted
  BY DEF RefundInv
<1> QED
  BY <1>1, RefundInvInit, RefundInvStep, PTL DEF Spec
-----------------------------------------------------------------------------
(* Nothing but a redelivery repeats a refund *)

\* The messages of a refund that wait in the queue.
Queued(r) == Total(queue, {r} \X (0 .. MaxRetries))

Reads(x, r) == x.step = "read" /\ x.msg[1] = r
\* The workers that will credit a refund, unless they fail or die.
Readers(r) == {w \in Workers : Reads(worker[w], r)}

\* How often a refund was credited or may still be.
Load == [r \in RefundIds |-> credits[r] + Queued(r) + Cardinality(Readers(r))]

Over(n) == IF n > 1 THEN n - 1 ELSE 0

\* What is more than one credit per refund came from redeliveries.
ExcessIsRedelivered ==
    Total([r \in RefundIds |-> Over(Load[r])], RefundIds) <= redelivered

\* A refund that was not created is nowhere.
NotYetCreated == \A r \in RefundIds : row[r] = "none" => Load[r] = 0

LoadInv == RefundInv /\ ExcessIsRedelivered /\ NotYetCreated

LEMMA LinesOf ==
    ASSUME NEW r \in RefundIds
    PROVE  /\ IsFiniteSet({r} \X (0 .. MaxRetries))
           /\ \A m \in {r} \X (0 .. MaxRetries) : m \in Messages /\ m[1] = r
           /\ \A m \in Messages : m[1] = r => m \in {r} \X (0 .. MaxRetries)
<1> MaxRetries \in Nat
  BY RefundsAssumption
<1>1. IsFiniteSet(0 .. MaxRetries)
  BY FS_Interval
<1>2. IsFiniteSet({r} \X (0 .. MaxRetries))
  BY <1>1, FS_Singleton, FS_Product
<1> QED
  BY <1>2 DEF Messages

LEMMA LoadType ==
    ASSUME TypeOK, NEW r \in RefundIds
    PROVE  /\ Load[r] = credits[r] + Queued(r) + Cardinality(Readers(r))
           /\ Load[r] \in Nat
           /\ credits[r] \in Nat
           /\ Queued(r) \in Nat
           /\ IsFiniteSet(Readers(r))
           /\ Cardinality(Readers(r)) \in Nat
<1>1. credits[r] \in Nat
  BY DEF TypeOK
<1>2. Queued(r) \in Nat
  <2>1. \A m \in {r} \X (0 .. MaxRetries) : queue[m] \in Nat
    BY LinesOf DEF TypeOK
  <2> QED
    BY <2>1, LinesOf, TotalNat DEF Queued
<1>3. IsFiniteSet(Readers(r))
  BY RefundsAssumption, FS_Subset DEF Readers
<1>4. Cardinality(Readers(r)) \in Nat
  BY <1>3, FS_CardinalityType
<1>5. Load[r] = credits[r] + Queued(r) + Cardinality(Readers(r))
  BY DEF Load
<1> QED
  BY <1>1, <1>2, <1>3, <1>4, <1>5

\* A message that waits counts.
LEMMA QueuedCovers ==
    ASSUME TypeOK, NEW q \in Messages
    PROVE  /\ q[1] \in RefundIds
           /\ queue[q] <= Queued(q[1])
           /\ queue[q] \in Nat
<1>1. q[1] \in RefundIds /\ q \in {q[1]} \X (0 .. MaxRetries)
  BY LinesOf DEF Messages
<1> DEFINE S == {q[1]} \X (0 .. MaxRetries)
<1>2. IsFiniteSet(S) /\ \A m \in S : queue[m] \in Nat
  BY <1>1, LinesOf DEF TypeOK
<1>3. q \in S
  BY <1>1
<1>4. queue[q] <= Total(queue, S)
  <2> HIDE DEF S
  <2> QED
    BY <1>2, <1>3, TotalUpdate
<1> QED
  BY <1>1, <1>2, <1>3, <1>4 DEF Queued

\* The queue after a step that changes what waits of one kind of message.
LEMMA QueueMoves ==
    ASSUME TypeOK, TypeOK', NEW q \in Messages, NEW n \in Int,
           queue'[q] = queue[q] + n,
           \A m \in Messages \ {q} : queue'[m] = queue[m]
    PROVE  \A r \in RefundIds :
               Queued(r)' = IF r = q[1] THEN Queued(r) + n ELSE Queued(r)
<1> TAKE r \in RefundIds
<1> DEFINE S == {r} \X (0 .. MaxRetries)
<1>1. IsFiniteSet(S) /\ \A m \in S : m \in Messages /\ m[1] = r
  BY LinesOf
<1>2. queue \in [Messages -> Nat] /\ queue' \in [Messages -> Nat]
  BY DEF TypeOK
<1>3. \A m \in Messages \ {q} : queue'[m] = queue[m]
  OBVIOUS
<1>4. queue'[q] = queue[q] + n
  OBVIOUS
<1>5. PICK g : g = queue'
  OBVIOUS
<1>6. CASE r = q[1]
  <2>1. q \in S
    BY <1>6, LinesOf
  <2>2. Total(g, S) = Total(queue, S) - queue[q] + g[q] /\ Total(queue, S) \in Nat
    <3>1. /\ \A m \in S : queue[m] \in Nat /\ g[m] \in Nat
          /\ \A m \in S \ {q} : g[m] = queue[m]
      BY <1>1, <1>2, <1>3, <1>5
    <3> HIDE DEF S
    <3> QED
      BY <1>1, <2>1, <3>1, TotalUpdate
  <2>3. queue[q] \in Nat /\ g[q] = queue[q] + n
    BY <1>2, <1>4, <1>5
  <2>4. Total(g, S) = Total(queue, S) + n
    <3> HIDE DEF S
    <3> QED
      BY <2>2, <2>3
  <2> QED
    BY <1>5, <1>6, <2>4 DEF Queued
<1>7. CASE r # q[1]
  <2>1. \A m \in S : queue[m] = g[m]
    BY <1>1, <1>3, <1>5, <1>7
  <2>2. Total(queue, S) = Total(g, S)
    <3> HIDE DEF S
    <3> QED
      BY <2>1, TotalSame
  <2> QED
    BY <1>5, <1>7, <2>2 DEF Queued
<1> QED
  BY <1>6, <1>7

LEMMA QueueStays ==
    ASSUME queue' = queue
    PROVE  \A r \in RefundIds : Queued(r)' = Queued(r)
BY DEF Queued

\* A worker that stops reading is counted no more, for the refund it held.
LEMMA ReaderLeaves ==
    ASSUME TypeOK, NEW w \in Workers, worker[w].step = "read",
           worker'[w].step # "read",
           \A v \in Workers \ {w} : worker'[v] = worker[v]
    PROVE  \A r \in RefundIds :
               Cardinality(Readers(r))' = IF r = worker[w].msg[1]
                                          THEN Cardinality(Readers(r)) - 1
                                          ELSE Cardinality(Readers(r))
<1> TAKE r \in RefundIds
<1>1. IsFiniteSet(Readers(r)) /\ Cardinality(Readers(r)) \in Nat
  BY LoadType
<1>2. CASE r = worker[w].msg[1]
  <2>1. w \in Readers(r)
    BY <1>2 DEF Readers, Reads
  <2>2. Readers(r)' = Readers(r) \ {w}
    BY DEF Readers, Reads
  <2>3. Cardinality(Readers(r) \ {w}) = Cardinality(Readers(r)) - 1
    BY <1>1, <2>1, FS_RemoveElement
  <2> QED
    BY <1>2, <2>2, <2>3
<1>3. CASE r # worker[w].msg[1]
  <2>1. Readers(r)' = Readers(r)
    BY <1>3 DEF Readers, Reads
  <2> QED
    BY <1>3, <2>1
<1> QED
  BY <1>2, <1>3

LEMMA ReaderJoins ==
    ASSUME TypeOK, NEW w \in Workers, worker[w].step # "read",
           worker'[w].step = "read",
           \A v \in Workers \ {w} : worker'[v] = worker[v]
    PROVE  \A r \in RefundIds :
               Cardinality(Readers(r))' = IF r = worker'[w].msg[1]
                                          THEN Cardinality(Readers(r)) + 1
                                          ELSE Cardinality(Readers(r))
<1> TAKE r \in RefundIds
<1>1. IsFiniteSet(Readers(r)) /\ Cardinality(Readers(r)) \in Nat
  BY LoadType
<1>2. w \notin Readers(r)
  BY DEF Readers, Reads
<1>3. CASE r = worker'[w].msg[1]
  <2>1. Readers(r)' = Readers(r) \cup {w}
    BY <1>3 DEF Readers, Reads
  <2>2. Cardinality(Readers(r) \cup {w}) = Cardinality(Readers(r)) + 1
    BY <1>1, <1>2, FS_AddElement
  <2> QED
    BY <1>3, <2>1, <2>2
<1>4. CASE r # worker'[w].msg[1]
  <2>1. Readers(r)' = Readers(r)
    BY <1>4 DEF Readers, Reads
  <2> QED
    BY <1>4, <2>1
<1> QED
  BY <1>3, <1>4

LEMMA ReadersStay ==
    ASSUME \A v \in Workers : (worker'[v].step = "read") = (worker[v].step = "read"),
           \A v \in Workers : worker[v].step = "read" => worker'[v] = worker[v]
    PROVE  \A r \in RefundIds : Cardinality(Readers(r))' = Cardinality(Readers(r))
<1> TAKE r \in RefundIds
<1>1. Readers(r)' = Readers(r)
  BY DEF Readers, Reads
<1> QED
  BY <1>1

\* What a step does that is about refund r: other refunds count as before, and
\* only a redelivery adds to the excess of r, which exists by then.
Moves(r) ==
    /\ \A x \in RefundIds \ {r} : Load'[x] = Load[x]
    /\ Over(Load'[r]) <= Over(Load[r]) + redelivered' - redelivered
    /\ row'[r] # "none"

LoadsAddUp ==
    \A x \in RefundIds :
        /\ Load[x] = credits[x] + Queued(x) + Cardinality(Readers(x))
        /\ Load[x] \in Nat

LEMMA LoadNow == TypeOK => LoadsAddUp
BY LoadType DEF LoadsAddUp

LEMMA LoadNext == TypeOK' => LoadsAddUp'
BY LoadNow, PTL

\* Steps are compared through the three numbers that a load consists of.
LEMMA LoadSum ==
    ASSUME TypeOK, TypeOK'
    PROVE  \A x \in RefundIds :
               /\ Load[x] = credits[x] + Queued(x) + Cardinality(Readers(x))
               /\ Load'[x] = credits'[x] + Queued(x)' + Cardinality(Readers(x))'
               /\ Load[x] \in Nat /\ Load'[x] \in Nat
               /\ credits[x] \in Nat /\ Queued(x) \in Nat
               /\ Cardinality(Readers(x)) \in Nat
<1>1. \A x \in RefundIds :
          /\ Load'[x] = credits'[x] + Queued(x)' + Cardinality(Readers(x))'
          /\ Load'[x] \in Nat
  BY LoadNext DEF LoadsAddUp
<1>2. \A x \in RefundIds :
          /\ Load[x] = credits[x] + Queued(x) + Cardinality(Readers(x))
          /\ Load[x] \in Nat
          /\ credits[x] \in Nat /\ Queued(x) \in Nat
          /\ Cardinality(Readers(x)) \in Nat
  BY LoadType
<1> QED
  BY <1>1, <1>2

LEMMA MovesKeepExcess ==
    ASSUME TypeOK, TypeOK', ExcessIsRedelivered, NEW r \in RefundIds, Moves(r)
    PROVE  ExcessIsRedelivered'
<1> DEFINE over == [x \in RefundIds |-> Over(Load[x])]
           next == [x \in RefundIds |-> Over(Load'[x])]
<1>1. \A x \in RefundIds : Load[x] \in Nat /\ Load'[x] \in Nat
  BY LoadSum
<1>2. \A x \in RefundIds : over[x] \in Nat /\ next[x] \in Nat
  BY <1>1 DEF Over
<1>3. \A x \in RefundIds \ {r} : next[x] = over[x]
  BY DEF Moves
<1>4. next[r] <= over[r] + redelivered' - redelivered
  BY DEF Moves
<1>5. Total(over, RefundIds) <= redelivered
  BY DEF ExcessIsRedelivered
<1>6. redelivered \in Nat /\ redelivered' \in Nat
  BY RefundsAssumption DEF TypeOK
<1>7. IsFiniteSet(RefundIds)
  BY RefundsAssumption
<1>8. Total(next, RefundIds) <= redelivered'
  <2> HIDE DEF over, next
  <2>1. /\ Total(next, RefundIds) = Total(over, RefundIds) - over[r] + next[r]
        /\ Total(over, RefundIds) \in Nat
    BY <1>2, <1>3, <1>7, TotalUpdate
  <2>2. over[r] \in Nat /\ next[r] \in Nat
    BY <1>2
  <2> QED
    BY <1>4, <1>5, <1>6, <2>1, <2>2
<1> QED
  BY <1>8 DEF ExcessIsRedelivered

LEMMA MovesKeepUncreated ==
    ASSUME TypeOK, TypeOK', NotYetCreated, NEW r \in RefundIds, Moves(r),
           \A x \in RefundIds \ {r} : row'[x] = row[x]
    PROVE  NotYetCreated'
BY DEF NotYetCreated, Moves

\* The message of a refund goes out before the row is committed.
LEMMA CreateMoves ==
    ASSUME TypeOK, TypeOK', NotYetCreated, NEW r \in RefundIds, CreateRefund(r)
    PROVE  Moves(r)
<1>1. <<r, 0>> \in Messages /\ <<r, 0>>[1] = r
  BY RefundsAssumption DEF Messages
<1>2. \A x \in RefundIds : Queued(x)' = IF x = r THEN Queued(x) + 1 ELSE Queued(x)
  <2>1. queue'[<<r, 0>>] = queue[<<r, 0>>] + 1
    BY <1>1 DEF CreateRefund, TypeOK
  <2>2. \A m \in Messages \ {<<r, 0>>} : queue'[m] = queue[m]
    BY <1>1 DEF CreateRefund, TypeOK
  <2> QED
    BY <1>1, <2>1, <2>2, QueueMoves
<1>3. \A x \in RefundIds : Cardinality(Readers(x))' = Cardinality(Readers(x))
  BY ReadersStay DEF CreateRefund
<1>4. Load[r] = 0
  BY DEF CreateRefund, NotYetCreated
<1>5. \A x \in RefundIds : credits'[x] = credits[x]
  BY DEF CreateRefund
<1>6. \A x \in RefundIds : /\ x = r => Load'[x] = Load[x] + 1
                           /\ x # r => Load'[x] = Load[x]
  BY <1>2, <1>3, <1>4, <1>5, LoadSum
<1>7. row'[r] # "none"
  BY DEF CreateRefund, TypeOK
<1>8. redelivered' = redelivered /\ redelivered \in Nat
  BY RefundsAssumption DEF CreateRefund, TypeOK
<1> QED
  BY <1>4, <1>6, <1>7, <1>8 DEF Moves, Over

LEMMA EndMoves ==
    ASSUME TypeOK, TypeOK', NEW r \in RefundIds, CommitRefund(r) \/ RollBackRefund(r)
    PROVE  Moves(r)
<1>1. \A x \in RefundIds : Load'[x] = Load[x]
  BY DEF CommitRefund, RollBackRefund, Load, Queued, Readers
<1>2. row'[r] # "none"
  BY DEF CommitRefund, RollBackRefund, TypeOK
<1>3. redelivered' = redelivered /\ redelivered \in Nat
  BY RefundsAssumption DEF CommitRefund, RollBackRefund, TypeOK
<1>4. Load[r] \in Nat
  BY LoadType
<1> QED
  BY <1>1, <1>2, <1>3, <1>4 DEF Moves, Over

\* A worker takes a message that waits: its refund was created.
LEMMA TakeFacts ==
    ASSUME TypeOK, TypeOK', NotYetCreated, NEW w \in Workers, NEW q \in Messages,
           MissRefund(w, q) \/ ReadRefund(w, q)
    PROVE  /\ q[1] \in RefundIds
           /\ \A x \in RefundIds :
                  Queued(x)' = IF x = q[1] THEN Queued(x) - 1 ELSE Queued(x)
           /\ \A x \in RefundIds : credits'[x] = credits[x]
           /\ row'[q[1]] # "none"
           /\ redelivered' = redelivered /\ redelivered \in Nat
<1>1. q[1] \in RefundIds /\ queue[q] <= Queued(q[1]) /\ queue[q] \in Nat
  BY QueuedCovers
<1>2. /\ queue'[q] = queue[q] + (-1)
      /\ \A m \in Messages \ {q} : queue'[m] = queue[m]
  BY <1>1 DEF MissRefund, ReadRefund, TypeOK
<1>3. \A x \in RefundIds :
          Queued(x)' = IF x = q[1] THEN Queued(x) + (-1) ELSE Queued(x)
  BY <1>2, QueueMoves
<1>4. \A x \in RefundIds :
          Queued(x)' = IF x = q[1] THEN Queued(x) - 1 ELSE Queued(x)
  BY <1>3, LoadSum
<1>5. \A x \in RefundIds : credits'[x] = credits[x]
  BY DEF MissRefund, ReadRefund
<1>6. row'[q[1]] # "none"
  <2>1. queue[q] > 0 /\ row' = row
    BY DEF MissRefund, ReadRefund
  <2>2. Load[q[1]] # 0
    BY <1>1, <2>1, LoadSum
  <2> QED
    BY <1>1, <2>1, <2>2 DEF NotYetCreated
<1>7. redelivered' = redelivered /\ redelivered \in Nat
  BY RefundsAssumption DEF MissRefund, ReadRefund, TypeOK
<1> QED
  BY <1>1, <1>4, <1>5, <1>6, <1>7

\* A message that finds no row is dropped.
LEMMA MissMoves ==
    ASSUME TypeOK, TypeOK', NotYetCreated, NEW w \in Workers, NEW q \in Messages,
           MissRefund(w, q)
    PROVE  Moves(q[1]) /\ q[1] \in RefundIds
<1>1. /\ q[1] \in RefundIds
      /\ \A x \in RefundIds :
             Queued(x)' = IF x = q[1] THEN Queued(x) - 1 ELSE Queued(x)
      /\ \A x \in RefundIds : credits'[x] = credits[x]
      /\ row'[q[1]] # "none"
      /\ redelivered' = redelivered /\ redelivered \in Nat
  BY TakeFacts
<1>2. \A x \in RefundIds : Cardinality(Readers(x))' = Cardinality(Readers(x))
  BY ReadersStay DEF MissRefund
<1>3. \A x \in RefundIds : /\ Load[x] \in Nat /\ Load'[x] \in Nat
                           /\ x = q[1] => Load'[x] = Load[x] - 1
                           /\ x # q[1] => Load'[x] = Load[x]
  BY <1>1, <1>2, LoadSum
<1> QED
  BY <1>1, <1>3 DEF Moves, Over

\* A message goes from the queue to a worker.
LEMMA ReadMoves ==
    ASSUME TypeOK, TypeOK', NotYetCreated, NEW w \in Workers, NEW q \in Messages,
           ReadRefund(w, q)
    PROVE  Moves(q[1]) /\ q[1] \in RefundIds
<1>1. /\ q[1] \in RefundIds
      /\ \A x \in RefundIds :
             Queued(x)' = IF x = q[1] THEN Queued(x) - 1 ELSE Queued(x)
      /\ \A x \in RefundIds : credits'[x] = credits[x]
      /\ row'[q[1]] # "none"
      /\ redelivered' = redelivered /\ redelivered \in Nat
  BY TakeFacts
<1>2. \A x \in RefundIds :
          Cardinality(Readers(x))' = IF x = q[1] THEN Cardinality(Readers(x)) + 1
                                     ELSE Cardinality(Readers(x))
  <2>1. worker'[w] = [step |-> "read", msg |-> q, balance |-> available[To[q[1]]]]
    BY DEF ReadRefund, TypeOK
  <2>2. worker'[w].step = "read" /\ worker'[w].msg = q
    BY <2>1
  <2>3. worker[w].step # "read"
    BY DEF ReadRefund, Idle
  <2>4. \A v \in Workers \ {w} : worker'[v] = worker[v]
    BY DEF ReadRefund, TypeOK
  <2> QED
    BY <2>2, <2>3, <2>4, ReaderJoins
<1>3. \A x \in RefundIds : Load[x] \in Nat /\ Load'[x] = Load[x]
  BY <1>1, <1>2, LoadSum
<1> QED
  BY <1>1, <1>3 DEF Moves, Over

\* The worker's share of a step that ends its reading.
LEMMA StopsReading ==
    ASSUME TypeOK, NEW w \in Workers, worker[w].step = "read",
           CommitCredit(w) \/ FailAttempt(w) \/ WorkerDies(w)
    PROVE  \A x \in RefundIds :
               Cardinality(Readers(x))' = IF x = worker[w].msg[1]
                                          THEN Cardinality(Readers(x)) - 1
                                          ELSE Cardinality(Readers(x))
<1>1. worker \in [Workers -> Busy \cup {Idle}] /\ worker[w] \in Busy
  BY StepIsBusy, BusyWorker DEF TypeOK
<1>2. \A v \in Workers \ {w} : worker'[v] = worker[v]
  BY <1>1 DEF CommitCredit, FailAttempt, WorkerDies
<1>3. worker'[w].step # "read"
  <2>1. CASE CommitCredit(w)
    <3>1. worker'[w] = [worker[w] EXCEPT !.step = "done"]
      BY <1>1, <2>1 DEF CommitCredit
    <3> QED
      BY <1>1, <3>1 DEF Busy
  <2>2. CASE FailAttempt(w) \/ WorkerDies(w)
    BY <1>1, <2>2 DEF FailAttempt, WorkerDies, Idle
  <2> QED
    BY <2>1, <2>2
<1> QED
  BY <1>2, <1>3, ReaderLeaves

\* What a worker holds was committed, and stays so.
LEMMA HeldIsCreated ==
    ASSUME TypeOK, SeenIsCommitted, Next, NEW w \in Workers, worker[w] # Idle
    PROVE  worker[w].msg[1] \in RefundIds /\ row'[worker[w].msg[1]] # "none"
<1>1. worker[w].msg[1] \in RefundIds /\ Visible(worker[w].msg[1])
  BY BusyWorker DEF SeenIsCommitted
<1> QED
  BY <1>1, VisibleStays DEF Visible

\* A credit takes the place of the worker that was to make it.
LEMMA CreditMoves ==
    ASSUME TypeOK, TypeOK', SeenIsCommitted, Next, NEW w \in Workers, CommitCredit(w)
    PROVE  Moves(worker[w].msg[1]) /\ worker[w].msg[1] \in RefundIds
<1> DEFINE r == worker[w].msg[1]
<1>1. worker[w].step = "read" /\ worker[w] # Idle
  BY StepIsBusy DEF CommitCredit
<1>2. r \in RefundIds /\ row'[r] # "none"
  BY <1>1, HeldIsCreated
<1>3. \A x \in RefundIds :
          Cardinality(Readers(x))' = IF x = r THEN Cardinality(Readers(x)) - 1
                                     ELSE Cardinality(Readers(x))
  BY <1>1, StopsReading
<1>4. \A x \in RefundIds : Queued(x)' = Queued(x)
  BY QueueStays DEF CommitCredit
<1>5. \A x \in RefundIds :
          credits'[x] = IF x = r THEN credits[x] + 1 ELSE credits[x]
  BY DEF CommitCredit, Credit, TypeOK
<1>6. redelivered' = redelivered /\ redelivered \in Nat
  BY RefundsAssumption DEF CommitCredit, TypeOK
<1> HIDE DEF r
<1>7. \A x \in RefundIds : Load[x] \in Nat /\ Load'[x] = Load[x]
  BY <1>3, <1>4, <1>5, LoadSum
<1>8. Moves(r)
  BY <1>2, <1>6, <1>7 DEF Moves, Over
<1> QED
  BY <1>2, <1>8 DEF r

LEMMA AcknowledgeMoves ==
    ASSUME TypeOK, TypeOK', SeenIsCommitted, Next, NEW w \in Workers, Acknowledge(w)
    PROVE  Moves(worker[w].msg[1]) /\ worker[w].msg[1] \in RefundIds
<1> DEFINE r == worker[w].msg[1]
<1>1. worker[w].step = "done" /\ worker[w] # Idle
  BY StepIsBusy DEF Acknowledge
<1>2. r \in RefundIds /\ row'[r] # "none"
  BY <1>1, HeldIsCreated
<1>3. \A x \in RefundIds : Cardinality(Readers(x))' = Cardinality(Readers(x))
  <2>1. worker \in [Workers -> Busy \cup {Idle}]
    BY DEF TypeOK
  <2>2. worker'[w].step # "read" /\ \A v \in Workers \ {w} : worker'[v] = worker[v]
    BY <2>1 DEF Acknowledge, Idle
  <2> QED
    BY <1>1, <2>2, ReadersStay
<1>4. \A x \in RefundIds : Queued(x)' = Queued(x) /\ credits'[x] = credits[x]
  BY QueueStays DEF Acknowledge
<1>5. redelivered' = redelivered /\ redelivered \in Nat
  BY RefundsAssumption DEF Acknowledge, TypeOK
<1> HIDE DEF r
<1>6. \A x \in RefundIds : Load[x] \in Nat /\ Load'[x] = Load[x]
  BY <1>3, <1>4, LoadSum
<1>7. Moves(r)
  BY <1>2, <1>5, <1>6 DEF Moves, Over
<1> QED
  BY <1>2, <1>7 DEF r

\* A task that raises is published again at most once, by the worker that read
\* the refund.
LEMMA FailMoves ==
    ASSUME TypeOK, TypeOK', SeenIsCommitted, Next, NEW w \in Workers, FailAttempt(w)
    PROVE  Moves(worker[w].msg[1]) /\ worker[w].msg[1] \in RefundIds
<1> DEFINE q == worker[w].msg
           r == q[1]
<1>1. worker[w].step = "read" /\ worker[w] # Idle
  BY StepIsBusy DEF FailAttempt
<1>2. r \in RefundIds /\ row'[r] # "none"
  BY <1>1, HeldIsCreated
<1>3. \A x \in RefundIds :
          Cardinality(Readers(x))' = IF x = r THEN Cardinality(Readers(x)) - 1
                                     ELSE Cardinality(Readers(x))
  BY <1>1, StopsReading
<1>4. \A x \in RefundIds : credits'[x] = credits[x]
  BY DEF FailAttempt
<1>5. redelivered' = redelivered /\ redelivered \in Nat
  BY RefundsAssumption DEF FailAttempt, TypeOK
<1>6. CASE MayRetry(q)
  <2> DEFINE next == <<q[1], q[2] + 1>>
  <2>1. next \in Messages /\ next[1] = r
    BY <1>1, <1>6, BusyWorker, RetryMessage
  <2>2. queue'[next] = queue[next] + 1
    BY <1>6, <2>1 DEF FailAttempt, TypeOK
  <2>3. \A m \in Messages \ {next} : queue'[m] = queue[m]
    BY <1>6, <2>1 DEF FailAttempt, TypeOK
  <2> HIDE DEF next, r
  <2>4. \A x \in RefundIds : Queued(x)' = IF x = r THEN Queued(x) + 1 ELSE Queued(x)
    BY <2>1, <2>2, <2>3, QueueMoves
  <2>5. \A x \in RefundIds : Load[x] \in Nat /\ Load'[x] = Load[x]
    BY <1>3, <1>4, <2>4, LoadSum
  <2>6. Moves(r)
    BY <1>2, <1>5, <2>5 DEF Moves, Over
  <2> QED
    BY <1>2, <2>6 DEF r
<1>7. CASE ~MayRetry(q)
  <2>1. \A x \in RefundIds : Queued(x)' = Queued(x)
    BY <1>7, QueueStays DEF FailAttempt
  <2> HIDE DEF r
  <2>2. \A x \in RefundIds :
            /\ Load[x] \in Nat /\ Load'[x] \in Nat
            /\ x = r => Load'[x] = Load[x] - 1
            /\ x # r => Load'[x] = Load[x]
    BY <1>3, <1>4, <2>1, LoadSum
  <2>3. Moves(r)
    BY <1>2, <1>5, <2>2 DEF Moves, Over
  <2> QED
    BY <1>2, <2>3 DEF r
<1> QED
  BY <1>6, <1>7

\* A message that comes again adds to the load what it adds to the redeliveries.
LEMMA RedeliveryMoves ==
    ASSUME TypeOK, TypeOK', SeenIsCommitted, Next, NEW w \in Workers,
           WorkerDies(w) \/ VisibilityTimeout(w)
    PROVE  Moves(worker[w].msg[1]) /\ worker[w].msg[1] \in RefundIds
<1> DEFINE q == worker[w].msg
           r == q[1]
<1>1. worker[w] # Idle /\ q \in Messages
  BY BusyWorker DEF WorkerDies, VisibilityTimeout
<1>2. r \in RefundIds /\ row'[r] # "none"
  BY <1>1, HeldIsCreated
<1>3. queue'[q] = queue[q] + 1
  BY <1>1 DEF WorkerDies, VisibilityTimeout, TypeOK
<1>4. \A m \in Messages \ {q} : queue'[m] = queue[m]
  BY <1>1 DEF WorkerDies, VisibilityTimeout, TypeOK
<1>5. \A x \in RefundIds : Queued(x)' = IF x = r THEN Queued(x) + 1 ELSE Queued(x)
  <2> HIDE DEF q
  <2> QED
    BY <1>1, <1>3, <1>4, QueueMoves
<1>6. \A x \in RefundIds : credits'[x] = credits[x]
  BY DEF WorkerDies, VisibilityTimeout
<1>7. redelivered' = redelivered + 1 /\ redelivered \in Nat
  BY RefundsAssumption DEF WorkerDies, VisibilityTimeout, TypeOK
<1>8. \A x \in RefundIds :
          \/ Cardinality(Readers(x))' = Cardinality(Readers(x))
          \/ x = r /\ Cardinality(Readers(x))' = Cardinality(Readers(x)) - 1
  <2>1. worker \in [Workers -> Busy \cup {Idle}]
    BY DEF TypeOK
  <2>2. CASE worker[w].step = "read" /\ WorkerDies(w)
    BY <2>2, StopsReading
  <2>3. CASE worker[w].step # "read" /\ WorkerDies(w)
    <3>1. worker'[w].step # "read" /\ \A v \in Workers \ {w} : worker'[v] = worker[v]
      BY <2>1, <2>3 DEF WorkerDies, Idle
    <3> QED
      BY <2>3, <3>1, ReadersStay
  <2>4. CASE VisibilityTimeout(w)
    BY <2>4, ReadersStay DEF VisibilityTimeout
  <2> QED
    BY <2>2, <2>3, <2>4
<1> HIDE DEF r
<1>9. \A x \in RefundIds :
          /\ Load[x] \in Nat /\ Load'[x] \in Nat
          /\ x = r => Load'[x] <= Load[x] + 1
          /\ x # r => Load'[x] = Load[x]
  BY <1>5, <1>6, <1>8, LoadSum
<1>10. Moves(r)
  BY <1>2, <1>7, <1>9 DEF Moves, Over
<1> QED
  BY <1>2, <1>10 DEF r

\* Every step is about one refund.
LEMMA StepMoves ==
    ASSUME TypeOK, TypeOK', SeenIsCommitted, NotYetCreated, Next
    PROVE  \E r \in RefundIds :
               Moves(r) /\ \A x \in RefundIds \ {r} : row'[x] = row[x]
<1>1. ASSUME NEW r \in RefundIds, CreateRefund(r) \/ CommitRefund(r) \/ RollBackRefund(r)
      PROVE  Moves(r) /\ \A x \in RefundIds \ {r} : row'[x] = row[x]
  <2>1. Moves(r)
    BY <1>1, CreateMoves, EndMoves
  <2>2. \A x \in RefundIds \ {r} : row'[x] = row[x]
    BY <1>1 DEF CreateRefund, CommitRefund, RollBackRefund, TypeOK
  <2> QED
    BY <2>1, <2>2
<1>2. ASSUME NEW w \in Workers, NEW q \in Messages,
             MissRefund(w, q) \/ ReadRefund(w, q)
      PROVE  /\ q[1] \in RefundIds /\ Moves(q[1])
             /\ \A x \in RefundIds : row'[x] = row[x]
  <2>1. Moves(q[1]) /\ q[1] \in RefundIds
    BY <1>2, MissMoves, ReadMoves
  <2>2. row' = row
    BY <1>2 DEF MissRefund, ReadRefund
  <2> QED
    BY <2>1, <2>2
<1>3. ASSUME NEW w \in Workers,
             Work(w) \/ FailAttempt(w) \/ WorkerDies(w) \/ VisibilityTimeout(w)
      PROVE  \E r \in RefundIds :
                 Moves(r) /\ \A x \in RefundIds \ {r} : row'[x] = row[x]
  <2> DEFINE r == worker[w].msg[1]
  <2>1. Moves(r) /\ r \in RefundIds
    BY <1>3, CreditMoves, AcknowledgeMoves, FailMoves, RedeliveryMoves DEF Work
  <2>2. \A x \in RefundIds \ {r} : row'[x] = row[x]
    BY <1>3
    DEF Work, CommitCredit, Acknowledge, FailAttempt, WorkerDies, VisibilityTimeout,
        TypeOK
  <2> QED
    BY <2>1, <2>2
<1> QED
  BY <1>1, <1>2, <1>3 DEF Next, Take

LEMMA LoadInvInit == Init => LoadInv
<1> SUFFICES ASSUME Init
             PROVE  LoadInv
  OBVIOUS
<1>1. RefundInv
  BY RefundInvInit
<1>2. \A r \in RefundIds : Load[r] = 0
  <2> TAKE r \in RefundIds
  <2>1. Queued(r) = 0
    <3>1. \A m \in {r} \X (0 .. MaxRetries) : queue[m] = 0
      BY LinesOf DEF Init
    <3> QED
      BY <3>1, TotalZero DEF Queued
  <2>2. Readers(r) = {}
    BY DEF Readers, Reads, Init, Idle
  <2>3. Cardinality(Readers(r)) = 0
    BY <2>2, FS_EmptySet
  <2>4. credits[r] = 0
    BY DEF Init
  <2>5. Load[r] = credits[r] + Queued(r) + Cardinality(Readers(r))
    BY DEF Load
  <2> QED
    BY <2>1, <2>3, <2>4, <2>5
<1>3. ExcessIsRedelivered
  <2> DEFINE over == [r \in RefundIds |-> Over(Load[r])]
  <2>1. \A r \in RefundIds : over[r] = 0
    BY <1>2 DEF Over
  <2>2. Total(over, RefundIds) = 0
    <3> HIDE DEF over
    <3> QED
      BY <2>1, TotalZero
  <2> QED
    BY <2>2 DEF ExcessIsRedelivered, Init
<1>4. NotYetCreated
  BY <1>2 DEF NotYetCreated
<1> QED
  BY <1>1, <1>3, <1>4 DEF LoadInv

LEMMA LoadInvStep == LoadInv /\ [Next]_vars => LoadInv'
<1> SUFFICES ASSUME LoadInv, [Next]_vars
             PROVE  LoadInv'
  OBVIOUS
<1>1. RefundInv'
  BY RefundInvStep DEF LoadInv
<1>2. TypeOK /\ SeenIsCommitted /\ TypeOK'
  BY <1>1 DEF LoadInv, RefundInv
<1>3. CASE Next
  <2>1. PICK r \in RefundIds :
            Moves(r) /\ \A x \in RefundIds \ {r} : row'[x] = row[x]
    BY <1>2, <1>3, StepMoves DEF LoadInv
  <2>2. ExcessIsRedelivered'
    BY <1>2, <2>1, MovesKeepExcess DEF LoadInv
  <2>3. NotYetCreated'
    BY <1>2, <2>1, MovesKeepUncreated DEF LoadInv
  <2> QED
    BY <1>1, <2>2, <2>3 DEF LoadInv
<1>4. CASE UNCHANGED vars
  <2>1. Load' = Load
    BY <1>4 DEF vars, Load, Queued, Readers
  <2>2. ExcessIsRedelivered'
    BY <1>4, <2>1 DEF vars, LoadInv, ExcessIsRedelivered
  <2>3. NotYetCreated'
    BY <1>4, <2>1 DEF vars, LoadInv, NotYetCreated
  <2> QED
    BY <1>1, <2>2, <2>3 DEF LoadInv
<1> QED
  BY <1>3, <1>4

\* Only redelivered messages pay a refund again, for any number of refunds,
\* workers, retries and failing attempts: a message that a task publishes anew
\* takes the place of the attempt that failed.
THEOREM OnlyRedeliveriesRepeat == Spec => []OnlyRedeliveryRepeats
<1>1. LoadInv => OnlyRedeliveryRepeats
  <2> SUFFICES ASSUME LoadInv
               PROVE  OnlyRedeliveryRepeats
    OBVIOUS
  <2> DEFINE paid == {r \in RefundIds : credits[r] > 0}
             given == [r \in RefundIds |-> credits[r]]
             first == [r \in RefundIds |-> IF r \in paid THEN 1 ELSE 0]
             again == [r \in RefundIds |-> Minus(credits[r], 1)]
             over == [r \in RefundIds |-> Over(Load[r])]
  <2>1. IsFiniteSet(RefundIds)
    BY RefundsAssumption
  <2>2. TypeOK
    BY DEF LoadInv, RefundInv
  <2>3. \A r \in RefundIds : /\ first[r] \in Nat /\ again[r] \in Nat
                             /\ given[r] = first[r] + again[r]
    BY <2>2, LoadType DEF Minus
  <2>4. \A r \in RefundIds : over[r] \in Nat /\ again[r] <= over[r]
    BY <2>2, LoadType DEF Minus, Over
  <2>5. Total(first, RefundIds) = Cardinality(paid)
    <3>1. paid \in SUBSET RefundIds
      OBVIOUS
    <3>2. \A r \in RefundIds : first[r] = IF r \in paid THEN 1 ELSE 0
      OBVIOUS
    <3> HIDE DEF paid, first
    <3> QED
      BY <2>1, <3>1, <3>2, TotalCounts
  <2>6. Total(over, RefundIds) <= redelivered
    BY DEF LoadInv, ExcessIsRedelivered
  <2>7. redelivered \in Nat
    BY <2>2, RefundsAssumption DEF TypeOK
  <2>8. Total(given, RefundIds) <= Cardinality(paid) + redelivered
    <3> HIDE DEF paid, given, first, again, over
    <3>1. /\ Total(given, RefundIds) = Total(first, RefundIds) + Total(again, RefundIds)
          /\ Total(first, RefundIds) \in Nat
          /\ Total(again, RefundIds) \in Nat
      BY <2>1, <2>3, TotalAdd
    <3>2. Total(again, RefundIds) <= Total(over, RefundIds)
      BY <2>1, <2>3, <2>4, TotalMonotone
    <3>3. Total(over, RefundIds) \in Nat
      BY <2>1, <2>4, TotalNat
    <3> QED
      BY <2>5, <2>6, <2>7, <3>1, <3>2, <3>3
  <2> QED
    BY <2>8 DEF OnlyRedeliveryRepeats
<1> QED
  BY <1>1, LoadInvInit, LoadInvStep, PTL DEF Spec

-----------------------------------------------------------------------------
(* Balances are what the credits add up to *)

\* What makes BalanceIsCredits inductive: what a worker has read is still true
\* when it writes the sum back, unless another one had the balance in hand, and
\* it is never more than the credits.
ReadIsExplained(w) ==
    LET u == To[worker[w].msg[1]] IN
    worker[w].step = "read" =>
        /\ worker[w].balance <= CreditedTo(u)
        /\ worker[w].balance = available[u] \/ u \in overlapped

\* Two workers have the same balance in hand only where that is written down.
ReadersOverlap(v, w) ==
    /\ worker[v].step = "read" /\ worker[w].step = "read"
    /\ To[worker[v].msg[1]] = To[worker[w].msg[1]]
    => To[worker[w].msg[1]] \in overlapped

BalanceInv ==
    /\ TypeOK
    /\ \A w \in Workers : ReadIsExplained(w)
    /\ \A v, w \in Workers : v # w => ReadersOverlap(v, w)
    /\ BalanceIsCredits

\* A credit adds its amount to what its recipient was credited.
LEMMA CreditAdds ==
    ASSUME TypeOK, TypeOK', NEW w \in Workers, CommitCredit(w), NEW u \in Users
    PROVE  /\ CreditedTo(u) \in Nat
           /\ CreditedTo(u)' = IF u = To[worker[w].msg[1]]
                               THEN CreditedTo(u) + Amount[worker[w].msg[1]]
                               ELSE CreditedTo(u)
<1> DEFINE r == worker[w].msg[1]
           now == [x \in RefundIds |-> credits[x] * Amount[x]]
           next == [x \in RefundIds |-> credits'[x] * Amount[x]]
           Of(y) == {x \in RefundIds : To[x] = y}
<1>1. worker[w].step = "read" /\ worker[w] # Idle
  BY StepIsBusy DEF CommitCredit
<1>2. r \in RefundIds
  BY <1>1, BusyWorker
<1>3. Amount[r] \in Nat /\ To[r] \in Users /\ IsFiniteSet(RefundIds)
  BY <1>2, RefundsAssumption
<1>4. /\ available' = [available EXCEPT ![To[r]] = worker[w].balance + Amount[r]]
      /\ credits' = [credits EXCEPT ![r] = @ + 1]
  BY DEF CommitCredit, Credit
<1>5. CreditedTo(u) = Total(now, Of(u)) /\ CreditedTo(u)' = Total(next, Of(u))
  BY DEF CreditedTo, Credited
<1>6. \A x \in RefundIds : credits[x] \in Nat /\ credits'[x] \in Nat /\ Amount[x] \in Nat
  BY RefundsAssumption DEF TypeOK
<1>7. \A x \in RefundIds : now[x] \in Nat /\ next[x] \in Nat
  BY <1>6
<1>8. next[r] = now[r] + Amount[r]
  <2>1. credits'[r] = credits[r] + 1
    BY <1>2, <1>4 DEF TypeOK
  <2>2. (credits[r] + 1) * Amount[r] = credits[r] * Amount[r] + Amount[r]
    <3> HIDE DEF r
    <3> QED
      BY <1>2, <1>3, <1>6
  <2> QED
    BY <1>2, <2>1, <2>2
<1>9. \A x \in RefundIds \ {r} : next[x] = now[x]
  BY <1>2, <1>4 DEF TypeOK
<1>10. IsFiniteSet(Of(u)) /\ \A x \in Of(u) : x \in RefundIds
  BY <1>3, FS_Subset
<1>11. r \in Of(u) <=> u = To[r]
  BY <1>2
<1>12. Total(now, Of(u)) \in Nat
  <2> HIDE DEF r, now, next, Of
  <2> QED
    BY <1>7, <1>10, TotalNat
<1>13. CASE u = To[r]
  <2>1. r \in Of(u)
    BY <1>11, <1>13
  <2> HIDE DEF r, now, next, Of
  <2>2. Total(next, Of(u)) = Total(now, Of(u)) - now[r] + next[r]
    <3>1. \A x \in Of(u) : now[x] \in Nat /\ next[x] \in Nat
      BY <1>7, <1>10
    <3>2. \A x \in Of(u) \ {r} : next[x] = now[x]
      BY <1>9, <1>10
    <3> QED
      BY <1>10, <2>1, <3>1, <3>2, TotalUpdate
  <2>3. now[r] \in Nat
    BY <1>2, <1>7
  <2>4. Total(next, Of(u)) = Total(now, Of(u)) + Amount[r]
    BY <1>3, <1>8, <1>12, <2>2, <2>3
  <2> QED
    BY <1>5, <1>12, <1>13, <2>4 DEF r
<1>14. CASE u # To[r]
  <2>1. \A x \in Of(u) : now[x] = next[x]
    BY <1>9, <1>10, <1>11, <1>14
  <2> HIDE DEF r, now, next, Of
  <2>2. Total(now, Of(u)) = Total(next, Of(u))
    BY <2>1, TotalSame
  <2> QED
    BY <1>5, <1>12, <1>14, <2>2 DEF r
<1> QED
  BY <1>13, <1>14

\* Any other step leaves them alone.
LEMMA CreditedStays ==
    ASSUME credits' = credits, NEW u
    PROVE  CreditedTo(u)' = CreditedTo(u)
BY DEF CreditedTo, Credited

LEMMA CreditKeepsBalances ==
    ASSUME BalanceInv, TypeOK', NEW w \in Workers, CommitCredit(w)
    PROVE  BalanceInv'
<1> DEFINE r == worker[w].msg[1]
           t == To[r]
<1>1. TypeOK /\ BalanceIsCredits /\ ReadIsExplained(w)
  BY DEF BalanceInv
<1>2. worker[w].step = "read" /\ worker[w] # Idle
  BY <1>1, StepIsBusy DEF CommitCredit
<1>3. /\ r \in RefundIds /\ t \in Users /\ Amount[r] \in Nat
      /\ worker[w].balance \in Nat /\ worker[w] \in Busy
  BY <1>1, <1>2, BusyWorker, RefundsAssumption
<1>4. /\ available' = [available EXCEPT ![t] = worker[w].balance + Amount[r]]
      /\ overlapped' = overlapped
      /\ worker' = [worker EXCEPT ![w].step = "done"]
  BY DEF CommitCredit, Credit
<1>5. /\ available'[t] = worker[w].balance + Amount[r]
      /\ \A u \in Users \ {t} : available'[u] = available[u]
  BY <1>1, <1>3, <1>4 DEF TypeOK
<1>6. /\ worker'[w].step = "done"
      /\ \A v \in Workers \ {w} : worker'[v] = worker[v]
  BY <1>1, <1>3, <1>4 DEF TypeOK, Busy
<1>7. /\ worker[w].balance <= CreditedTo(t)
      /\ worker[w].balance = available[t] \/ t \in overlapped
  BY <1>1, <1>2 DEF ReadIsExplained
<1>8. \A u \in Users :
        /\ available[u] \in Nat /\ available[u] <= CreditedTo(u)
        /\ available[u] = CreditedTo(u) \/ u \in overlapped
  BY <1>1 DEF BalanceIsCredits, TypeOK
<1>9. ASSUME NEW u \in Users
      PROVE  /\ CreditedTo(u) \in Nat /\ CreditedTo(u)' \in Nat
             /\ CreditedTo(u) <= CreditedTo(u)'
             /\ u = t => CreditedTo(u)' = CreditedTo(u) + Amount[r]
             /\ u # t => CreditedTo(u)' = CreditedTo(u)
  <2>1. /\ CreditedTo(u) \in Nat
        /\ CreditedTo(u)' = IF u = t THEN CreditedTo(u) + Amount[r] ELSE CreditedTo(u)
    BY <1>1, CreditAdds
  <2> HIDE DEF r, t
  <2> QED
    BY <1>3, <2>1
<1>10. ASSUME NEW u \in Users
       PROVE  /\ available'[u] <= CreditedTo(u)'
              /\ available'[u] = CreditedTo(u)' \/ u \in overlapped'
  <2> HIDE DEF r, t
  <2>1. CASE u = t
    BY <1>3, <1>4, <1>5, <1>7, <1>8, <1>9, <2>1
  <2>2. CASE u # t
    BY <1>4, <1>5, <1>8, <1>9, <2>2
  <2> QED
    BY <2>1, <2>2
<1>11. BalanceIsCredits'
  BY <1>10 DEF BalanceIsCredits
<1>12. ASSUME NEW v \in Workers
       PROVE  ReadIsExplained(v)'
  <2>1. CASE v = w
    BY <1>6, <2>1 DEF ReadIsExplained
  <2>2. CASE v # w /\ worker[v].step = "read"
    <3>1. PICK s \in Users : s = To[worker[v].msg[1]] /\ worker[v].balance \in Nat
      BY <1>1, <2>2, StepIsBusy, BusyWorker, RefundsAssumption
    <3>2. /\ worker[v].balance <= CreditedTo(s)
          /\ worker[v].balance = available[s] \/ s \in overlapped
      BY <2>2, <3>1 DEF BalanceInv, ReadIsExplained
    <3>3. worker[v].balance <= CreditedTo(s)'
      <4>1. CreditedTo(s) \in Nat /\ CreditedTo(s)' \in Nat /\ CreditedTo(s) <= CreditedTo(s)'
        BY <1>9
      <4> QED
        BY <3>1, <3>2, <4>1
    <3>4. worker[v].balance = available'[s] \/ s \in overlapped'
      <4>1. CASE s = t
        BY <1>2, <1>4, <2>2, <3>1, <4>1 DEF BalanceInv, ReadersOverlap
      <4>2. CASE s # t
        BY <1>4, <1>5, <3>1, <3>2, <4>2
      <4> QED
        BY <4>1, <4>2
    <3>5. worker'[v] = worker[v]
      BY <1>6, <2>2
    <3> QED
      BY <3>1, <3>3, <3>4, <3>5 DEF ReadIsExplained
  <2>3. CASE v # w /\ worker[v].step # "read"
    BY <1>6, <2>3 DEF ReadIsExplained
  <2> QED
    BY <2>1, <2>2, <2>3
<1>13. ASSUME NEW v \in Workers, NEW x \in Workers, v # x
       PROVE  ReadersOverlap(v, x)'
  BY <1>4, <1>6, <1>13 DEF BalanceInv, ReadersOverlap
<1> QED
  BY <1>11, <1>12, <1>13 DEF BalanceInv

\* A worker that takes a balance while another one has it is written down.
LEMMA ReadKeepsBalances ==
    ASSUME BalanceInv, TypeOK', NEW w \in Workers, NEW q \in Messages, ReadRefund(w, q)
    PROVE  BalanceInv'
<1> DEFINE t == To[q[1]]
<1>1. TypeOK /\ BalanceIsCredits /\ t \in Users
  BY RefundsAssumption DEF BalanceInv, Messages
<1>2. /\ available' = available /\ credits' = credits
      /\ overlapped' = IF InHand(t) THEN overlapped \cup {t} ELSE overlapped
  BY DEF ReadRefund
<1>3. /\ worker'[w] = [step |-> "read", msg |-> q, balance |-> available[t]]
      /\ \A v \in Workers \ {w} : worker'[v] = worker[v]
      /\ worker[w] = Idle
  BY <1>1 DEF ReadRefund, TypeOK
<1>4. overlapped \subseteq overlapped'
  BY <1>2
<1>5. \A u \in Users : CreditedTo(u)' = CreditedTo(u)
  BY <1>2, CreditedStays
<1>6. BalanceIsCredits'
  BY <1>1, <1>2, <1>4, <1>5 DEF BalanceIsCredits
<1>7. ASSUME NEW v \in Workers
      PROVE  ReadIsExplained(v)'
  <2>1. CASE v = w
    <3>1. worker'[v].balance = available[t] /\ To[worker'[v].msg[1]] = t
      BY <1>3, <2>1
    <3>2. available[t] <= CreditedTo(t)'
      BY <1>1, <1>5 DEF BalanceIsCredits
    <3> QED
      BY <1>2, <3>1, <3>2 DEF ReadIsExplained
  <2>2. CASE v # w /\ worker[v].step = "read"
    <3>1. PICK s \in Users : s = To[worker[v].msg[1]]
      BY <1>1, <2>2, StepIsBusy, BusyWorker, RefundsAssumption
    <3>2. /\ worker[v].balance <= CreditedTo(s)
          /\ worker[v].balance = available[s] \/ s \in overlapped
      BY <2>2, <3>1 DEF BalanceInv, ReadIsExplained
    <3>3. CreditedTo(s)' = CreditedTo(s)
      BY <1>5, <3>1
    <3>4. worker'[v] = worker[v]
      BY <1>3, <2>2
    <3> QED
      BY <1>2, <1>4, <3>1, <3>2, <3>3, <3>4 DEF ReadIsExplained
  <2>3. CASE v # w /\ worker[v].step # "read"
    BY <1>3, <2>3 DEF ReadIsExplained
  <2> QED
    BY <2>1, <2>2, <2>3
<1>8. ASSUME NEW v \in Workers, NEW x \in Workers, v # x
      PROVE  ReadersOverlap(v, x)'
  <2>1. CASE v # w /\ x # w
    BY <1>3, <1>4, <1>8, <2>1 DEF BalanceInv, ReadersOverlap
  <2>2. CASE v = w \/ x = w
    <3>1. PICK y \in {v, x} : y # w
      BY <1>8
    <3>2. worker'[y] = worker[y] /\ To[worker'[w].msg[1]] = t
      BY <1>3, <3>1
    <3>3. worker[y].step = "read" /\ To[worker[y].msg[1]] = t => t \in overlapped'
      BY <1>2 DEF InHand
    <3> QED
      BY <2>2, <3>1, <3>2, <3>3 DEF ReadersOverlap
  <2> QED
    BY <2>1, <2>2
<1> QED
  BY <1>6, <1>7, <1>8 DEF BalanceInv

\* All other steps leave the money alone; a worker may stop.
LEMMA StopKeepsBalances ==
    ASSUME BalanceInv, TypeOK', UNCHANGED <<available, credits, overlapped>>,
           \A v \in Workers : worker'[v] = worker[v] \/ worker'[v] = Idle
    PROVE  BalanceInv'
<1>1. TypeOK /\ BalanceIsCredits
  BY DEF BalanceInv
<1>2. \A u \in Users : CreditedTo(u)' = CreditedTo(u)
  BY CreditedStays
<1>3. BalanceIsCredits'
  BY <1>1, <1>2 DEF BalanceIsCredits
<1>4. \A v \in Workers : worker'[v].step = "read" => worker'[v] = worker[v]
  BY DEF Idle
<1>5. ASSUME NEW v \in Workers
      PROVE  ReadIsExplained(v)'
  <2>1. CASE worker'[v].step = "read"
    <3>1. worker'[v] = worker[v] /\ worker[v].step = "read"
      BY <1>4, <2>1
    <3>2. PICK s \in Users : s = To[worker[v].msg[1]]
      BY <1>1, <3>1, StepIsBusy, BusyWorker, RefundsAssumption
    <3>3. /\ worker[v].balance <= CreditedTo(s)
          /\ worker[v].balance = available[s] \/ s \in overlapped
      BY <3>1, <3>2 DEF BalanceInv, ReadIsExplained
    <3>4. CreditedTo(s)' = CreditedTo(s)
      BY <1>2, <3>2
    <3> QED
      BY <3>1, <3>2, <3>3, <3>4 DEF ReadIsExplained
  <2>2. CASE worker'[v].step # "read"
    BY <2>2 DEF ReadIsExplained
  <2> QED
    BY <2>1, <2>2
<1>6. \A v, x \in Workers : v # x => ReadersOverlap(v, x)'
  BY <1>4 DEF BalanceInv, ReadersOverlap
<1> QED
  BY <1>3, <1>5, <1>6 DEF BalanceInv

LEMMA BalanceInvStep == BalanceInv /\ [Next]_vars => BalanceInv'
<1> SUFFICES ASSUME BalanceInv, [Next]_vars
             PROVE  BalanceInv'
  OBVIOUS
<1>1. TypeOK /\ TypeOK'
  BY StepType DEF BalanceInv
<1>2. worker \in [Workers -> Busy \cup {Idle}]
  BY <1>1 DEF TypeOK
<1>3. ASSUME UNCHANGED <<available, credits, overlapped>>,
             \/ worker' = worker
             \/ \E w \in Workers : worker' = [worker EXCEPT ![w] = Idle]
      PROVE  BalanceInv'
  <2>1. \A v \in Workers : worker'[v] = worker[v] \/ worker'[v] = Idle
    BY <1>2, <1>3
  <2> QED
    BY <1>1, <1>3, <2>1, StopKeepsBalances
<1>4. CASE UNCHANGED vars
  BY <1>3, <1>4 DEF vars
<1>5. ASSUME NEW r \in RefundIds, CreateRefund(r) \/ CommitRefund(r) \/ RollBackRefund(r)
      PROVE  BalanceInv'
  BY <1>3, <1>5 DEF CreateRefund, CommitRefund, RollBackRefund
<1>6. ASSUME NEW w \in Workers, NEW q \in Messages, MissRefund(w, q)
      PROVE  BalanceInv'
  BY <1>3, <1>6 DEF MissRefund
<1>7. ASSUME NEW w \in Workers,
             Acknowledge(w) \/ FailAttempt(w) \/ WorkerDies(w) \/ VisibilityTimeout(w)
      PROVE  BalanceInv'
  BY <1>3, <1>7 DEF Acknowledge, FailAttempt, WorkerDies, VisibilityTimeout
<1> QED
  BY <1>1, <1>4, <1>5, <1>6, <1>7, CreditKeepsBalances, ReadKeepsBalances
  DEF Next, Take, Work

LEMMA BalanceInvInit == Init => BalanceInv
<1> SUFFICES ASSUME Init
             PROVE  BalanceInv
  OBVIOUS
<1>1. TypeOK
  BY InitType
<1>2. /\ \A w \in Workers : ReadIsExplained(w)
      /\ \A v, w \in Workers : ReadersOverlap(v, w)
  BY DEF Init, ReadIsExplained, ReadersOverlap, Idle
<1>3. BalanceIsCredits
  <2> DEFINE paid == [r \in RefundIds |-> Credited(r)]
  <2>1. \A r \in RefundIds : paid[r] = 0
    <3>1. \A r \in RefundIds : Amount[r] \in Nat /\ credits[r] = 0
      BY RefundsAssumption DEF Init
    <3> QED
      BY <3>1 DEF Credited
  <2>2. ASSUME NEW u \in Users
        PROVE  available[u] = Total(paid, {r \in RefundIds : To[r] = u})
    <3>1. \A r \in {x \in RefundIds : To[x] = u} : paid[r] = 0
      BY <2>1
    <3>2. Total(paid, {r \in RefundIds : To[r] = u}) = 0
      <4> HIDE DEF paid
      <4> QED
        BY <3>1, TotalZero
    <3> QED
      BY <3>2 DEF Init
  <2> QED
    BY <2>2 DEF BalanceIsCredits, CreditedTo, Init
<1> QED
  BY <1>1, <1>2, <1>3 DEF BalanceInv

\* Every balance is what the credits of its user add up to, whatever is retried,
\* redelivered or dies, except where two workers had it in hand at once, and it
\* is never more: for any number of users, refunds, workers and redeliveries.
THEOREM BalancesAreCredits == Spec => []BalanceIsCredits
<1>1. BalanceInv => BalanceIsCredits
  BY DEF BalanceInv
<1> QED
  BY <1>1, BalanceInvInit, BalanceInvStep, PTL DEF Spec
=============================================================================
