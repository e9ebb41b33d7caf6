------------------------- MODULE CampaignOutboxProofs -------------------------
(***************************************************************************)
(* Proofs about CampaignOutbox: the invariants and action properties its   *)
(* runs check on two or three events hold for every number of events,      *)
(* drains, retries and faults.                                             *)
(***************************************************************************)
EXTENDS CampaignOutbox, SequenceTheorems, TLAPS

USE OutboxAssumption DEF OutboxAssumption

\* Sequence facts the steps below use: the head of a non-empty queue is one of
\* its events, and the tail is a queue of its events.
LEMMA HeadAndTail ==
    ASSUME NEW q \in Seq(Events), q # <<>>
    PROVE  /\ Head(q) \in Events
           /\ Tail(q) \in Seq(Events)
           /\ 1 \in DOMAIN q /\ Head(q) = q[1]
           /\ \A i \in DOMAIN Tail(q) : i + 1 \in DOMAIN q /\ Tail(q)[i] = q[i + 1]
<1>1. /\ Head(q) \in Events /\ Tail(q) \in Seq(Events)
      /\ Len(Tail(q)) = Len(q) - 1
      /\ \A i \in 1..Len(Tail(q)) : Tail(q)[i] = q[i + 1]
  BY HeadTailProperties
<1>2. Len(q) \in Nat \ {0} /\ DOMAIN q = 1..Len(q) /\ DOMAIN Tail(q) = 1..Len(Tail(q))
  BY <1>1, EmptySeq, LenProperties
<1>3. Head(q) = q[1]
  OBVIOUS
<1> QED
  BY <1>1, <1>2, <1>3

\* A batch is a queue of due events.
LEMMA BatchIsQueue ==
    ASSUME NEW due \in SUBSET Events, NEW q \in Batches(due)
    PROVE  q \in Seq(Events) /\ \A i \in DOMAIN q : q[i] \in due
<1>1. PICK n \in 1..BatchSize : q \in [1..n -> due]
  BY DEF Batches
<1>2. n \in Nat /\ q \in [1..n -> Events]
  <2>1. BatchSize \in Nat /\ due \subseteq Events
    OBVIOUS
  <2> QED
    BY <1>1, <2>1
<1> QED
  BY <1>1, <1>2, SeqDef

\* The delay after a failure is a number of ticks no larger than the cap.
LEMMA BackoffBounded ==
    ASSUME NEW n \in Nat \ {0}
    PROVE  Backoff(n) \in 0..BackoffCap
<1>1. (IF n < 8 THEN n ELSE 8) \in 1..8
  OBVIOUS
<1>2. \A k \in 1..8 : Delays[k] \in Nat
  BY DEF Delays
<1> QED
  BY <1>1, <1>2 DEF Backoff

LEMMA CountBounded ==
    ASSUME OutboxTypeOK, NEW e \in Events
    PROVE  Count(e) \in 1..MaxAttempts
  BY DEF OutboxTypeOK, Count

\* The head of a drain at work is an event.
LEMMA HeadIsEvent ==
    ASSUME DrainTypeOK, AtWork, NEW d \in Drains,
           pc[d] \in Holding \/ tx[d] # "none"
    PROVE  /\ queue[d] \in Seq(Events)
           /\ Head(queue[d]) \in Events
           /\ Tail(queue[d]) \in Seq(Events)
           /\ 1 \in DOMAIN queue[d] /\ Head(queue[d]) = queue[d][1]
           /\ \A i \in DOMAIN Tail(queue[d]) :
                 i + 1 \in DOMAIN queue[d] /\ Tail(queue[d])[i] = queue[d][i + 1]
<1>1. queue[d] \in Seq(Events) /\ queue[d] # <<>>
  BY DEF DrainTypeOK, AtWork, Holding, Calling
<1> QED
  BY <1>1, HeadAndTail

(***************************************************************************)
(* Type correctness, part by part.                                         *)
(***************************************************************************)
LEMMA InitTyped == Init => TypeOK
<1> SUFFICES ASSUME Init PROVE TypeOK
  OBVIOUS
<1>1. OutboxTypeOK /\ LeaseTypeOK /\ BudgetTypeOK
  BY DEF Init, OutboxTypeOK, LeaseTypeOK, BudgetTypeOK
<1>2. DrainTypeOK
  BY EmptySeq DEF Init, DrainTypeOK, Stages
<1>3. ChainTypeOK
  BY DEF Init, ChainTypeOK
<1>4. AtWork
  BY DEF Init, AtWork, Holding, Calling
<1> QED
  BY <1>1, <1>2, <1>3, <1>4 DEF TypeOK

\* A part whose variables a step leaves alone stays typed.
LEMMA Frame ==
    ASSUME TypeOK
    PROVE  /\ UNCHANGED outboxVars => OutboxTypeOK'
           /\ UNCHANGED leaseVars => LeaseTypeOK'
           /\ UNCHANGED drainVars => DrainTypeOK' /\ AtWork'
           /\ UNCHANGED <<pc, queue, tx>> => AtWork'
           /\ UNCHANGED chainVars => ChainTypeOK'
           /\ UNCHANGED budgets => BudgetTypeOK'
           /\ Fault => BudgetTypeOK'
<1>1. UNCHANGED outboxVars => OutboxTypeOK'
  BY DEF TypeOK, OutboxTypeOK, outboxVars
<1>2. UNCHANGED leaseVars => LeaseTypeOK'
  BY DEF TypeOK, LeaseTypeOK, leaseVars
<1>3. UNCHANGED drainVars => DrainTypeOK'
  BY DEF TypeOK, DrainTypeOK, drainVars
<1>4. UNCHANGED <<pc, queue, tx>> => AtWork'
  BY DEF TypeOK, AtWork
<1>5. UNCHANGED chainVars => ChainTypeOK'
  BY DEF TypeOK, ChainTypeOK, chainVars
<1>6. (UNCHANGED budgets => BudgetTypeOK') /\ (Fault => BudgetTypeOK')
  BY DEF TypeOK, BudgetTypeOK, budgets, Fault
<1> QED
  BY <1>1, <1>2, <1>3, <1>4, <1>5, <1>6 DEF drainVars

\* The two outcomes of an event keep the outbox typed.
LEMMA MarksTyped ==
    ASSUME OutboxTypeOK, NEW e \in Events, MarkConfirmed(e) \/ MarkFailed(e)
    PROVE  OutboxTypeOK'
<1>1. Count(e) \in 0..MaxAttempts /\ Backoff(Count(e)) \in 0..BackoffCap
  BY CountBounded, BackoffBounded
<1>2. CASE MarkConfirmed(e)
  BY <1>1, <1>2 DEF OutboxTypeOK, MarkConfirmed
<1>3. CASE MarkFailed(e) /\ status[e] # "CONFIRMED"
  BY <1>1, <1>3 DEF OutboxTypeOK, MarkFailed
<1>4. CASE MarkFailed(e) /\ status[e] = "CONFIRMED"
  BY <1>4 DEF OutboxTypeOK, MarkFailed, outboxVars
<1> QED
  BY <1>2, <1>3, <1>4

\* Taking the head event off, and ending a run, keep the drains typed.
LEMMA EndsTyped ==
    ASSUME DrainTypeOK, AtWork, NEW d \in Drains,
           \/ pc[d] \in {"settle", "fail"} /\ UNCHANGED <<age, tx>>
              /\ (EndItem(d, "renew") \/ EndItem(d, "release"))
           \/ EndRun(d) /\ tx' = [tx EXCEPT ![d] = "none"]
    PROVE  DrainTypeOK' /\ AtWork'
<1>1. CASE EndRun(d) /\ tx' = [tx EXCEPT ![d] = "none"]
  <2>1. DrainTypeOK'
    BY <1>1, EmptySeq DEF EndRun, DrainTypeOK, Stages
  <2>2. AtWork'
    BY <1>1 DEF EndRun, DrainTypeOK, AtWork, Holding, Calling
  <2> QED
    BY <2>1, <2>2
<1>2. CASE pc[d] \in {"settle", "fail"} /\ UNCHANGED <<age, tx>>
           /\ (EndItem(d, "renew") \/ EndItem(d, "release"))
  <2>1. Tail(queue[d]) \in Seq(Events)
    BY <1>2, HeadIsEvent DEF Holding
  <2>2. DrainTypeOK'
    <3>1. pc' \in [Drains -> Stages]
      BY <1>2 DEF EndItem, DrainTypeOK, Stages
    <3>2. queue' \in [Drains -> Seq(Events)]
      BY <1>2, <2>1 DEF EndItem, DrainTypeOK
    <3> QED
      BY <1>2, <3>1, <3>2 DEF DrainTypeOK
  <2>3. AtWork'
    BY <1>2 DEF EndItem, DrainTypeOK, AtWork, Holding, Calling
  <2> QED
    BY <2>2, <2>3
<1> QED
  BY <1>1, <1>2

LEMMA StepTyped == TypeOK /\ [Next]_vars => TypeOK'
<1> SUFFICES ASSUME TypeOK, [Next]_vars
             PROVE  TypeOK'
  OBVIOUS
<1> USE DEF TypeOK
<1>1. ASSUME NEW e \in Events, Enqueue(e)
      PROVE  TypeOK'
  <2>1. OutboxTypeOK'
    BY <1>1 DEF Enqueue, OutboxTypeOK
  <2> QED
    BY <1>1, <2>1, Frame DEF Enqueue
<1>2. ASSUME NEW e \in Events, MineLate(e) \/ RecordForeign(e)
      PROVE  TypeOK'
  <2>1. ChainTypeOK'
    BY <1>2 DEF MineLate, RecordForeign, Write, ChainTypeOK
  <2> QED
    BY <1>2, <2>1, Frame DEF MineLate, RecordForeign
<1>3. ASSUME NEW e \in Events, Reorg(e)
      PROVE  TypeOK'
  <2>1. ChainTypeOK'
    BY <1>3 DEF Reorg, ChainTypeOK
  <2>2. DrainTypeOK' /\ AtWork'
    BY <1>3 DEF Reorg, DrainTypeOK, AtWork
  <2> QED
    BY <1>3, <2>1, <2>2, Frame DEF Reorg
<1>4. ASSUME NEW d \in Drains, Start(d)
      PROVE  TypeOK'
  <2>1. PICK q \in Batches(Due(d \notin Timers)) : queue' = [queue EXCEPT ![d] = q]
    BY <1>4 DEF Start
  <2>2. q \in Seq(Events)
    BY BatchIsQueue DEF Due
  <2>3. LeaseTypeOK'
    BY <1>4 DEF Start, LeaseTypeOK
  <2>4. DrainTypeOK'
    BY <1>4, <2>1, <2>2 DEF Start, DrainTypeOK, Stages
  <2>5. AtWork'
    BY <1>4, <2>1 DEF Start, DrainTypeOK, AtWork, Holding, Calling
  <2> QED
    BY <1>4, <2>3, <2>4, <2>5, Frame DEF Start
<1>5. ASSUME NEW d \in Drains, Renew(d)
      PROVE  TypeOK'
  <2>1. LeaseTypeOK'
    BY <1>5 DEF Renew, LeaseTypeOK
  <2>2. DrainTypeOK'
    <3>1. pc' \in [Drains -> Stages]
      BY <1>5 DEF Renew, DrainTypeOK, Stages
    <3>2. age' \in [Drains -> 0..(CallTicks + PauseTicks)]
      BY <1>5 DEF Renew, DrainTypeOK
    <3> QED
      BY <1>5, <3>1, <3>2 DEF Renew, DrainTypeOK
  <2>3. AtWork'
    BY <1>5 DEF Renew, DrainTypeOK, AtWork, Holding, Calling
  <2> QED
    BY <1>5, <2>1, <2>2, <2>3, Frame DEF Renew
<1>6. ASSUME NEW d \in Drains, Submit(d) \/ Receipt(d)
      PROVE  TypeOK'
  <2>1. DrainTypeOK'
    BY <1>6 DEF Submit, Receipt, DrainTypeOK, Stages
  <2>2. AtWork'
    BY <1>6 DEF Submit, Receipt, DrainTypeOK, AtWork, Holding, Calling
  <2> QED
    BY <1>6, <2>1, <2>2, Frame DEF Submit, Receipt
<1>7. ASSUME NEW d \in Drains, Verify(d) \/ SubmitLost(d) \/ CallErrs(d)
      PROVE  TypeOK'
  <2>1. Head(queue[d]) \in Events
    BY <1>7, HeadIsEvent DEF Verify, SubmitLost, CallErrs, Holding, Calling
  <2>2. ChainTypeOK'
    BY <1>7, <2>1 DEF Verify, SubmitLost, CallErrs, ChainTypeOK
  <2>3. DrainTypeOK'
    BY <1>7 DEF Verify, SubmitLost, CallErrs, DrainTypeOK, Stages
  <2>4. AtWork'
    BY <1>7 DEF Verify, SubmitLost, CallErrs, DrainTypeOK, AtWork, Holding, Calling
  <2> QED
    BY <1>7, <2>2, <2>3, <2>4, Frame DEF Verify, SubmitLost, CallErrs
<1>8. ASSUME NEW d \in Drains, SettleConfirmed(d) \/ SettleFailed(d) \/ FailErrs(d)
      PROVE  TypeOK'
  <2>1. Head(queue[d]) \in Events
    BY <1>8, HeadIsEvent DEF SettleConfirmed, SettleFailed, FailErrs, Holding
  <2>2. OutboxTypeOK'
    BY <1>8, <2>1, MarksTyped, Frame DEF SettleConfirmed, SettleFailed, FailErrs
  <2>3. DrainTypeOK' /\ AtWork'
    BY <1>8, EndsTyped DEF SettleConfirmed, SettleFailed, FailErrs
  <2> QED
    BY <1>8, <2>2, <2>3, Frame DEF SettleConfirmed, SettleFailed, FailErrs
<1>9. ASSUME NEW d \in Drains, SettleErrs(d)
      PROVE  TypeOK'
  <2>1. Head(queue[d]) \in Events
    BY <1>9, HeadIsEvent DEF SettleErrs, Holding
  <2>2. OutboxTypeOK'
    BY <1>9, <2>1, MarksTyped, Frame DEF SettleErrs
  <2>3. DrainTypeOK'
    BY <1>9 DEF SettleErrs, DrainTypeOK, Stages
  <2>4. AtWork'
    BY <1>9 DEF SettleErrs, DrainTypeOK, AtWork, Holding, Calling
  <2> QED
    BY <1>9, <2>2, <2>3, <2>4, Frame DEF SettleErrs
<1>10. ASSUME NEW d \in Drains, Release(d)
       PROVE  TypeOK'
  <2>1. LeaseTypeOK'
    BY <1>10 DEF Release, LeaseTypeOK
  <2>2. tx[d] = "none"
    BY <1>10 DEF Release, AtWork, DrainTypeOK
  <2>3. tx' = [tx EXCEPT ![d] = "none"]
    BY <1>10, <2>2 DEF Release, DrainTypeOK
  <2>4. DrainTypeOK' /\ AtWork'
    BY <1>10, <2>3, EndsTyped DEF Release
  <2> QED
    BY <1>10, <2>1, <2>4, Frame DEF Release
<1>11. ASSUME NEW d \in Drains, Crash(d)
       PROVE  TypeOK'
  <2>1. LeaseTypeOK'
    BY <1>11 DEF Crash, LeaseTypeOK
  <2>2. ChainTypeOK'
    BY <1>11, HeadIsEvent DEF Crash, ChainTypeOK
  <2>3. DrainTypeOK' /\ AtWork'
    BY <1>11, EndsTyped DEF Crash
  <2> QED
    BY <1>11, <2>1, <2>2, <2>3, Frame DEF Crash
<1>12. ASSUME NEW d \in Drains, Mine(d)
       PROVE  TypeOK'
  <2>1. ChainTypeOK'
    BY <1>12, HeadIsEvent DEF Mine, Write, ChainTypeOK
  <2>2. DrainTypeOK' /\ AtWork'
    BY <1>12 DEF Mine, DrainTypeOK, AtWork
  <2> QED
    BY <1>12, <2>1, <2>2, Frame DEF Mine
<1>13. CASE RotateAway \/ RotateBack
  <2>1. ChainTypeOK' /\ BudgetTypeOK'
    BY <1>13 DEF RotateAway, RotateBack, ChainTypeOK, BudgetTypeOK, budgets
  <2> QED
    BY <1>13, <2>1, Frame DEF RotateAway, RotateBack
<1>14. CASE Tick
  <2>1. OutboxTypeOK' /\ LeaseTypeOK'
    BY <1>14 DEF Tick, OutboxTypeOK, LeaseTypeOK
  <2>2. ASSUME NEW d \in Drains
        PROVE  age'[d] \in 0..(CallTicks + PauseTicks)
    <3>1. pc[d] # "idle" => age[d] < CallTicks + PauseTicks
      BY <1>14 DEF Tick, Patience, DrainTypeOK
    <3> QED
      BY <1>14, <3>1 DEF Tick, DrainTypeOK
  <2>3. DrainTypeOK'
    BY <1>14, <2>2 DEF Tick, DrainTypeOK
  <2> QED
    BY <1>14, <2>1, <2>3, Frame DEF Tick
<1>15. CASE UNCHANGED vars
  BY <1>15, Frame DEF vars
<1> QED
  BY <1>1, <1>2, <1>3, <1>4, <1>5, <1>6, <1>7, <1>8, <1>9, <1>10, <1>11, <1>12, <1>13,
     <1>14, <1>15 DEF Next, DrainStep, DrainFault

\* Whatever the number of events, drains and faults, the state stays well-formed;
\* in particular every drain inside an item has the event it works on.
THEOREM TypeCorrect == Spec => []TypeOK
<1>1. Init => TypeOK
  BY InitTyped
<1>2. TypeOK /\ [Next]_vars => TypeOK'
  BY StepTyped
<1> QED
  BY <1>1, <1>2, PTL DEF Spec

(***************************************************************************)
(* Confirmed events are recorded.  The strengthening: what a drain works   *)
(* on, what is still to be mined and what was recorded had been enqueued;  *)
(* and a drain about to confirm has seen its commitment, which is final    *)
(* from then on.                                                           *)
(***************************************************************************)
Enqueued ==
    /\ \A d \in Drains : \A i \in DOMAIN queue[d] : status[queue[d][i]] # "ABSENT"
    /\ \A e \in late : status[e] # "ABSENT"
    /\ \A e \in Events : registry[e] = "own" => status[e] # "ABSENT"

Witnessed ==
    \A d \in Drains : pc[d] = "settle" => registry[Head(queue[d])] = "own"

EvidenceInv == Enqueued /\ Witnessed /\ ConfirmedIsRecorded

LEMMA InitEvidence == Init => EvidenceInv
<1> SUFFICES ASSUME Init PROVE EvidenceInv
  OBVIOUS
<1>1. Enqueued
  BY DEF Init, Enqueued
<1>2. Witnessed /\ ConfirmedIsRecorded
  BY DEF Init, Witnessed, ConfirmedIsRecorded
<1> QED
  BY <1>1, <1>2 DEF EvidenceInv

\* The head event of a drain at work was enqueued.
LEMMA HeadWasEnqueued ==
    ASSUME TypeOK, Enqueued, NEW d \in Drains, pc[d] \in Holding \/ tx[d] # "none"
    PROVE  Head(queue[d]) \in Events /\ status[Head(queue[d])] # "ABSENT"
  BY HeadIsEvent DEF TypeOK, Enqueued

\* Steps of the outbox that leave the chain alone and confirm at most an event
\* whose commitment is recorded.
LEMMA OutboxStepEvidence ==
    ASSUME TypeOK, EvidenceInv, UNCHANGED chainVars,
           \A e \in Events : status[e] # "ABSENT" => status'[e] # "ABSENT",
           \A e \in Events : status'[e] = "CONFIRMED" =>
                               status[e] = "CONFIRMED" \/ registry[e] = "own",
           \A d \in Drains : \A i \in DOMAIN queue'[d] :
               queue'[d][i] \in Events /\ status[queue'[d][i]] # "ABSENT",
           \A d \in Drains : pc'[d] = "settle" => pc[d] = "settle" /\ queue'[d] = queue[d]
    PROVE  EvidenceInv'
<1>1. Enqueued'
  BY DEF TypeOK, ChainTypeOK, EvidenceInv, Enqueued, chainVars
<1>2. Witnessed'
  BY DEF EvidenceInv, Witnessed, chainVars
<1>3. ConfirmedIsRecorded'
  BY DEF EvidenceInv, ConfirmedIsRecorded, chainVars
<1> QED
  BY <1>1, <1>2, <1>3 DEF EvidenceInv

\* Steps of the chain and of the adapter: they touch no outbox entry and no
\* queue, and an event already witnessed or confirmed stays recorded.
LEMMA ChainStepEvidence ==
    ASSUME TypeOK, EvidenceInv, UNCHANGED <<status, queue>>,
           \A e \in late' : e \in Events /\ status[e] # "ABSENT",
           \A e \in Events : registry'[e] = "own" =>
                               registry[e] = "own" \/ status[e] # "ABSENT",
           \A e \in Events : status[e] = "CONFIRMED" /\ registry[e] = "own" =>
                               registry'[e] = "own",
           \A d \in Drains : pc'[d] = "settle" => registry'[Head(queue[d])] = "own"
    PROVE  EvidenceInv'
<1>1. Enqueued'
  BY DEF EvidenceInv, Enqueued
<1>2. Witnessed'
  BY DEF Witnessed
<1>3. ConfirmedIsRecorded'
  BY DEF EvidenceInv, ConfirmedIsRecorded
<1> QED
  BY <1>1, <1>2, <1>3 DEF EvidenceInv

\* A call of the contract's record keeps what was recorded.
LEMMA WriteKeepsOwn ==
    ASSUME ChainTypeOK, NEW e \in Events, Write(e) \/ UNCHANGED registry
    PROVE  /\ \A f \in Events : registry[f] = "own" => registry'[f] = "own"
           /\ \A f \in Events : registry'[f] = "own" => registry[f] = "own" \/ f = e
  BY DEF ChainTypeOK, Write

\* Taking the head event off leaves events that were enqueued.
LEMMA TailEnqueued ==
    ASSUME TypeOK, Enqueued, NEW d \in Drains, pc[d] \in Holding, NEW stage, EndItem(d, stage)
    PROVE  \A x \in Drains : \A i \in DOMAIN queue'[x] :
               queue'[x][i] \in Events /\ status[queue'[x][i]] # "ABSENT"
<1> TAKE x \in Drains
<1>1. queue[x] \in Seq(Events)
  BY DEF TypeOK, DrainTypeOK
<1>2. \A i \in DOMAIN queue[x] : queue[x][i] \in Events /\ status[queue[x][i]] # "ABSENT"
  BY <1>1, ElementOfSeq, LenProperties DEF Enqueued
<1>3. CASE x = d
  <2>1. queue'[x] = Tail(queue[x])
    BY <1>3 DEF EndItem, TypeOK, DrainTypeOK
  <2>2. \A i \in DOMAIN Tail(queue[x]) :
            i + 1 \in DOMAIN queue[x] /\ Tail(queue[x])[i] = queue[x][i + 1]
    BY <1>3, HeadIsEvent DEF TypeOK
  <2> QED
    BY <1>2, <2>1, <2>2
<1>4. CASE x # d
  BY <1>2, <1>4 DEF EndItem, TypeOK, DrainTypeOK
<1> QED
  BY <1>3, <1>4

LEMMA StepEvidence == TypeOK /\ EvidenceInv /\ [Next]_vars => EvidenceInv'
<1> SUFFICES ASSUME TypeOK, EvidenceInv, [Next]_vars
             PROVE  EvidenceInv'
  OBVIOUS
<1>0. /\ \A d \in Drains : \A i \in DOMAIN queue[d] :
             queue[d][i] \in Events /\ status[queue[d][i]] # "ABSENT"
      /\ \A e \in late : e \in Events /\ status[e] # "ABSENT"
  <2>1. \A d \in Drains : queue[d] \in Seq(Events)
    BY DEF TypeOK, DrainTypeOK
  <2>2. \A d \in Drains : \A i \in DOMAIN queue[d] : queue[d][i] \in Events
    BY <2>1, ElementOfSeq, LenProperties
  <2> QED
    BY <2>2 DEF TypeOK, ChainTypeOK, EvidenceInv, Enqueued
<1>1. ASSUME NEW e \in Events, Enqueue(e)
      PROVE  EvidenceInv'
  <2>1. /\ \A f \in Events : status[f] # "ABSENT" => status'[f] # "ABSENT"
        /\ \A f \in Events : status'[f] = "CONFIRMED" => status[f] = "CONFIRMED"
    BY <1>1 DEF Enqueue, TypeOK, OutboxTypeOK
  <2> QED
    BY <1>0, <1>1, <2>1, OutboxStepEvidence DEF Enqueue, drainVars
<1>2. ASSUME NEW e \in Events, MineLate(e)
      PROVE  EvidenceInv'
  <2>1. Write(e) \/ UNCHANGED registry
    BY <1>2 DEF MineLate
  <2>2. status[e] # "ABSENT"
    BY <1>0, <1>2 DEF MineLate
  <2>3. /\ \A f \in Events : registry[f] = "own" => registry'[f] = "own"
        /\ \A f \in Events : registry'[f] = "own" => registry[f] = "own" \/ f = e
    BY <2>1, WriteKeepsOwn DEF TypeOK
  <2>4. \A d \in Drains : pc'[d] = "settle" => registry'[Head(queue[d])] = "own"
    BY <1>2, <2>3, HeadWasEnqueued
    DEF MineLate, EvidenceInv, Witnessed, drainVars, Holding
  <2> QED
    BY <1>0, <1>2, <2>2, <2>3, <2>4, ChainStepEvidence DEF MineLate, drainVars, outboxVars
<1>3. ASSUME NEW e \in Events, RecordForeign(e)
      PROVE  EvidenceInv'
  <2>1. \A f \in Events : registry'[f] = "own" <=> registry[f] = "own"
    BY <1>3 DEF RecordForeign, TypeOK, ChainTypeOK
  <2> QED
    BY <1>0, <1>3, <2>1, ChainStepEvidence, HeadWasEnqueued
    DEF RecordForeign, EvidenceInv, Witnessed, drainVars, outboxVars, Holding
<1>4. ASSUME NEW e \in Events, Reorg(e)
      PROVE  EvidenceInv'
  <2>1. \A f \in Events : registry'[f] = (IF f = e THEN "none" ELSE registry[f])
    BY <1>4 DEF Reorg, TypeOK, ChainTypeOK
  <2> QED
    BY <1>0, <1>4, <2>1, ChainStepEvidence, HeadWasEnqueued
    DEF Reorg, EvidenceInv, Witnessed, outboxVars, Holding
<1>5. ASSUME NEW d \in Drains, Start(d)
      PROVE  EvidenceInv'
  <2>1. PICK q \in Batches(Due(d \notin Timers)) : queue' = [queue EXCEPT ![d] = q]
    BY <1>5 DEF Start
  <2>2. \A i \in DOMAIN q : q[i] \in Events /\ status[q[i]] # "ABSENT"
    BY BatchIsQueue DEF Due
  <2> QED
    BY <1>0, <1>5, <2>1, <2>2, OutboxStepEvidence
    DEF Start, TypeOK, DrainTypeOK, outboxVars
<1>6. ASSUME NEW d \in Drains, Renew(d) \/ Submit(d) \/ Receipt(d)
      PROVE  EvidenceInv'
  BY <1>0, <1>6, OutboxStepEvidence
  DEF Renew, Submit, Receipt, TypeOK, DrainTypeOK, outboxVars
<1>7. ASSUME NEW d \in Drains, SubmitLost(d) \/ CallErrs(d)
      PROVE  EvidenceInv'
  <2>1. Head(queue[d]) \in Events /\ status[Head(queue[d])] # "ABSENT"
    BY <1>7, HeadWasEnqueued DEF SubmitLost, CallErrs, Holding, Calling, EvidenceInv
  <2>2. \A x \in Drains : pc'[x] = "settle" => pc[x] = "settle"
    BY <1>7 DEF SubmitLost, CallErrs, TypeOK, DrainTypeOK
  <2> QED
    BY <1>0, <1>7, <2>1, <2>2, ChainStepEvidence
    DEF SubmitLost, CallErrs, EvidenceInv, Witnessed, outboxVars
<1>8. ASSUME NEW d \in Drains, Verify(d)
      PROVE  EvidenceInv'
  <2>1. Head(queue[d]) \in Events /\ status[Head(queue[d])] # "ABSENT"
    BY <1>8, HeadWasEnqueued DEF Verify, Holding, Calling, EvidenceInv
  <2>2. \A x \in Drains : pc'[x] = "settle" => registry[Head(queue[x])] = "own"
    BY <1>8 DEF Verify, TypeOK, DrainTypeOK, EvidenceInv, Witnessed
  <2> QED
    BY <1>0, <1>8, <2>1, <2>2, ChainStepEvidence DEF Verify, outboxVars
<1>9. ASSUME NEW d \in Drains, SettleConfirmed(d) \/ SettleErrs(d)
      PROVE  EvidenceInv'
  <2>1. Head(queue[d]) \in Events /\ registry[Head(queue[d])] = "own"
    BY <1>9, HeadWasEnqueued DEF SettleConfirmed, SettleErrs, Holding, EvidenceInv, Witnessed
  <2>2. \A e \in Events : status'[e] = status[e]
            \/ (e = Head(queue[d]) /\ status'[e] = "CONFIRMED")
    BY <1>9 DEF SettleConfirmed, SettleErrs, MarkConfirmed, TypeOK, OutboxTypeOK, outboxVars
  <2>3. \A x \in Drains : \A i \in DOMAIN queue'[x] :
            queue'[x][i] \in Events /\ status[queue'[x][i]] # "ABSENT"
    <3>1. CASE SettleConfirmed(d)
      BY <3>1, TailEnqueued DEF SettleConfirmed, Holding, EvidenceInv
    <3>2. CASE SettleErrs(d)
      BY <1>0, <3>2 DEF SettleErrs
    <3> QED
      BY <1>9, <3>1, <3>2
  <2>4. \A x \in Drains : pc'[x] = "settle" => pc[x] = "settle" /\ queue'[x] = queue[x]
    BY <1>9 DEF SettleConfirmed, SettleErrs, EndItem, TypeOK, DrainTypeOK
  <2> QED
    BY <1>9, <2>1, <2>2, <2>3, <2>4, OutboxStepEvidence
    DEF SettleConfirmed, SettleErrs, chainVars
<1>10. ASSUME NEW d \in Drains, SettleFailed(d) \/ FailErrs(d)
       PROVE  EvidenceInv'
  <2>1. Head(queue[d]) \in Events
    BY <1>10, HeadWasEnqueued DEF SettleFailed, FailErrs, Holding, EvidenceInv
  <2>2. \A e \in Events : status'[e] = status[e] \/ status'[e] = "FAILED"
    BY <1>10, <2>1 DEF SettleFailed, FailErrs, MarkFailed, TypeOK, OutboxTypeOK, outboxVars
  <2>3. \A x \in Drains : \A i \in DOMAIN queue'[x] :
            queue'[x][i] \in Events /\ status[queue'[x][i]] # "ABSENT"
    BY <1>10, TailEnqueued DEF SettleFailed, FailErrs, Holding, EvidenceInv
  <2>4. \A x \in Drains : pc'[x] = "settle" => pc[x] = "settle" /\ queue'[x] = queue[x]
    BY <1>10 DEF SettleFailed, FailErrs, EndItem, TypeOK, DrainTypeOK
  <2> QED
    BY <1>10, <2>2, <2>3, <2>4, OutboxStepEvidence DEF SettleFailed, FailErrs, chainVars
<1>11. ASSUME NEW d \in Drains, Release(d)
       PROVE  EvidenceInv'
  BY <1>0, <1>11, OutboxStepEvidence
  DEF Release, EndRun, TypeOK, DrainTypeOK, outboxVars
<1>12. ASSUME NEW d \in Drains, Crash(d)
       PROVE  EvidenceInv'
  <2>1. \A e \in late' : e \in Events /\ status[e] # "ABSENT"
    BY <1>0, <1>12, HeadWasEnqueued DEF Crash, EvidenceInv
  <2>2. \A x \in Drains : \A i \in DOMAIN queue'[x] : status[queue'[x][i]] # "ABSENT"
    BY <1>0, <1>12 DEF Crash, EndRun, TypeOK, DrainTypeOK
  <2>3. Witnessed'
    BY <1>12 DEF Crash, EndRun, TypeOK, DrainTypeOK, EvidenceInv, Witnessed
  <2> QED
    BY <1>12, <2>1, <2>2, <2>3
    DEF Crash, EvidenceInv, Enqueued, ConfirmedIsRecorded, outboxVars
<1>13. ASSUME NEW d \in Drains, Mine(d)
       PROVE  EvidenceInv'
  <2>1. Head(queue[d]) \in Events /\ status[Head(queue[d])] # "ABSENT"
    BY <1>13, HeadWasEnqueued DEF Mine, EvidenceInv
  <2>2. Write(Head(queue[d])) \/ UNCHANGED registry
    BY <1>13 DEF Mine
  <2> QED
    BY <1>0, <1>13, <2>1, <2>2, WriteKeepsOwn, ChainStepEvidence, HeadWasEnqueued
    DEF Mine, TypeOK, EvidenceInv, Witnessed, outboxVars, Holding
<1>14. CASE RotateAway \/ RotateBack
  BY <1>14 DEF RotateAway, RotateBack, EvidenceInv, Enqueued, Witnessed, ConfirmedIsRecorded,
               outboxVars, drainVars
<1>15. CASE Tick
  BY <1>15 DEF Tick, EvidenceInv, Enqueued, Witnessed, ConfirmedIsRecorded, chainVars
<1>16. CASE UNCHANGED vars
  BY <1>16 DEF vars, EvidenceInv, Enqueued, Witnessed, ConfirmedIsRecorded,
               outboxVars, drainVars, chainVars
<1> QED
  BY <1>1, <1>2, <1>3, <1>4, <1>5, <1>6, <1>7, <1>8, <1>9, <1>10, <1>11, <1>12, <1>13,
     <1>14, <1>15, <1>16 DEF Next, DrainStep, DrainFault

\* Whatever crashes, is lost, is retried by several processes or is mined late: an
\* event the outbox shows as CONFIRMED has its own commitment in the registry.
THEOREM ConfirmedAreRecorded == Spec => []ConfirmedIsRecorded
<1>1. Init => TypeOK /\ EvidenceInv
  BY InitTyped, InitEvidence
<1>2. TypeOK /\ EvidenceInv /\ [Next]_vars => (TypeOK /\ EvidenceInv)'
  BY StepTyped, StepEvidence
<1>3. EvidenceInv => ConfirmedIsRecorded
  BY DEF EvidenceInv
<1> QED
  BY <1>1, <1>2, <1>3, PTL DEF Spec

(***************************************************************************)
(* The lease.  A drain inside a call still owns the lease, which has the   *)
(* rest of its term left; so no other drain can take it over before the    *)
(* call ends, and two drains inside a call would both own it.              *)
(***************************************************************************)
LeaseHeld ==
    \A d \in Drains : pc[d] \in Calling =>
        owner = d /\ age[d] <= CallTicks /\ left + age[d] = LeaseTicks

LEMMA StepLease ==
    ASSUME CallTicks < LeaseTicks, TypeOK, LeaseHeld, [Next]_vars
    PROVE  LeaseHeld'
<1> SUFFICES ASSUME NEW c \in Drains, pc'[c] \in Calling
             PROVE  owner' = c /\ age'[c] <= CallTicks /\ left' + age'[c] = LeaseTicks
  BY DEF LeaseHeld
<1> USE DEF TypeOK, LeaseTypeOK, DrainTypeOK
<1>0. pc[c] \in Calling => owner = c /\ age[c] <= CallTicks /\ left + age[c] = LeaseTicks
  BY DEF LeaseHeld
\* Steps that leave the lease, the ages and the calls in progress alone.
<1>1. ASSUME UNCHANGED <<owner, left, age>>, pc'[c] \in Calling => pc[c] \in Calling
      PROVE  owner' = c /\ age'[c] <= CallTicks /\ left' + age'[c] = LeaseTicks
  BY <1>0, <1>1
<1>2. ASSUME NEW e \in Events, Enqueue(e) \/ MineLate(e) \/ Reorg(e) \/ RecordForeign(e)
      PROVE  owner' = c /\ age'[c] <= CallTicks /\ left' + age'[c] = LeaseTicks
  BY <1>1, <1>2 DEF Enqueue, MineLate, Reorg, RecordForeign, leaseVars, drainVars
<1>3. ASSUME NEW d \in Drains, Start(d)
      PROVE  owner' = c /\ age'[c] <= CallTicks /\ left' + age'[c] = LeaseTicks
  <2>1. pc[c] \in Calling /\ left = 0
    BY <1>3 DEF Start, Calling
  <2> QED
    BY <1>0, <2>1
<1>4. ASSUME NEW d \in Drains, Renew(d)
      PROVE  owner' = c /\ age'[c] <= CallTicks /\ left' + age'[c] = LeaseTicks
  <2>1. CASE c = d
    BY <1>4, <2>1 DEF Renew, Calling
  <2>2. CASE c # d
    <3>1. pc[c] \in Calling /\ age'[c] = age[c] /\ owner # d /\ owner' = owner
      BY <1>0, <1>4, <2>2 DEF Renew
    <3>2. left' = left
      BY <1>4, <3>1 DEF Renew
    <3> QED
      BY <1>0, <3>1, <3>2
  <2> QED
    BY <2>1, <2>2
<1>5. ASSUME NEW d \in Drains, Submit(d) \/ SubmitLost(d) \/ Receipt(d) \/ Verify(d) \/ CallErrs(d)
      PROVE  owner' = c /\ age'[c] <= CallTicks /\ left' + age'[c] = LeaseTicks
  <2>1. UNCHANGED <<owner, left, age>> /\ pc[d] \in Calling
    BY <1>5 DEF Submit, SubmitLost, Receipt, Verify, CallErrs, leaseVars, Calling
  <2>2. \A x \in Drains : x # d => pc'[x] = pc[x]
    BY <1>5 DEF Submit, SubmitLost, Receipt, Verify, CallErrs
  <2> QED
    BY <1>1, <2>1, <2>2
<1>6. ASSUME NEW d \in Drains,
             SettleConfirmed(d) \/ SettleErrs(d) \/ SettleFailed(d) \/ FailErrs(d)
      PROVE  owner' = c /\ age'[c] <= CallTicks /\ left' + age'[c] = LeaseTicks
  <2>1. UNCHANGED <<owner, left, age>>
    BY <1>6 DEF SettleConfirmed, SettleErrs, SettleFailed, FailErrs, leaseVars
  <2>2. pc'[c] \in Calling => pc[c] \in Calling
    BY <1>6 DEF SettleConfirmed, SettleErrs, SettleFailed, FailErrs, EndItem, Calling
  <2> QED
    BY <1>1, <2>1, <2>2
<1>7. ASSUME NEW d \in Drains, Release(d) \/ Crash(d)
      PROVE  owner' = c /\ age'[c] <= CallTicks /\ left' + age'[c] = LeaseTicks
  <2>1. c # d /\ pc[c] \in Calling /\ age'[c] = age[c]
    BY <1>7 DEF Release, Crash, EndRun, Calling
  <2> QED
    BY <1>0, <1>7, <2>1 DEF Release, Crash
<1>8. ASSUME NEW d \in Drains, Mine(d)
      PROVE  owner' = c /\ age'[c] <= CallTicks /\ left' + age'[c] = LeaseTicks
  BY <1>1, <1>8 DEF Mine, leaseVars
<1>9. CASE RotateAway \/ RotateBack \/ UNCHANGED vars
  BY <1>1, <1>9 DEF RotateAway, RotateBack, vars, leaseVars, drainVars
<1>10. CASE Tick
  <2>1. pc[c] \in Calling /\ pc[c] # "idle"
    BY <1>10 DEF Tick, Calling
  <2>2. age[c] < CallTicks /\ age'[c] = age[c] + 1
    BY <1>10, <2>1 DEF Tick, Patience
  <2>3. left > 0 /\ left' = left - 1
    BY <1>0, <1>10, <2>1, <2>2 DEF Tick
  <2> QED
    BY <1>0, <1>10, <2>1, <2>2, <2>3 DEF Tick
<1> QED
  BY <1>2, <1>3, <1>4, <1>5, <1>6, <1>7, <1>8, <1>9, <1>10 DEF Next, DrainStep, DrainFault

\* When a chain.record call ends before the lease renewed for it does, no two runs
\* of drainCampaignOutbox are inside chain.record, however many processes, forced
\* retries, crashes and takeovers of expired leases there are.
THEOREM LeaseSerializes ==
    ASSUME CallTicks < LeaseTicks
    PROVE  Spec => []OneRecorderAtATime
<1>1. Init => TypeOK /\ LeaseHeld
  BY InitTyped DEF Init, LeaseHeld, Calling
<1>2. TypeOK /\ LeaseHeld /\ [Next]_vars => (TypeOK /\ LeaseHeld)'
  BY StepTyped, StepLease
<1>3. LeaseHeld => OneRecorderAtATime
  BY DEF LeaseHeld, OneRecorderAtATime
<1> QED
  BY <1>1, <1>2, <1>3, PTL DEF Spec

(***************************************************************************)
(* What no step does.                                                      *)
(***************************************************************************)
\* A confirmation is never taken back, by no late failure of any run.
THEOREM ConfirmationsStay == Spec => ConfirmedStays
<1>1. TypeOK /\ [Next]_vars =>
         [\A e \in Events : status[e] = "CONFIRMED" => status'[e] = "CONFIRMED"]_vars
  <2> SUFFICES ASSUME TypeOK, Next, NEW e \in Events, status[e] = "CONFIRMED"
               PROVE  status'[e] = "CONFIRMED"
    OBVIOUS
  <2> USE DEF TypeOK, OutboxTypeOK
  <2>1. ASSUME NEW f \in Events, Enqueue(f) \/ MineLate(f) \/ Reorg(f) \/ RecordForeign(f)
        PROVE  status'[e] = "CONFIRMED"
    BY <2>1 DEF Enqueue, MineLate, Reorg, RecordForeign, outboxVars
  <2>2. ASSUME NEW d \in Drains, SettleConfirmed(d) \/ SettleErrs(d)
        PROVE  status'[e] = "CONFIRMED"
    BY <2>2 DEF SettleConfirmed, SettleErrs, MarkConfirmed, outboxVars
  <2>3. ASSUME NEW d \in Drains, SettleFailed(d)
        PROVE  status'[e] = "CONFIRMED"
    BY <2>3 DEF SettleFailed, MarkFailed, outboxVars
  <2>4. ASSUME NEW d \in Drains,
               Start(d) \/ Renew(d) \/ Release(d) \/ Crash(d) \/ FailErrs(d) \/ Mine(d)
        PROVE  status'[e] = "CONFIRMED"
    BY <2>4 DEF Start, Renew, Release, Crash, FailErrs, Mine, outboxVars
  <2>5. ASSUME NEW d \in Drains,
               Submit(d) \/ SubmitLost(d) \/ Receipt(d) \/ Verify(d) \/ CallErrs(d)
        PROVE  status'[e] = "CONFIRMED"
    BY <2>5 DEF Submit, SubmitLost, Receipt, Verify, CallErrs, outboxVars
  <2>6. CASE RotateAway \/ RotateBack \/ Tick
    BY <2>6 DEF RotateAway, RotateBack, Tick, outboxVars
  <2> QED
    BY <2>1, <2>2, <2>3, <2>4, <2>5, <2>6 DEF Next, DrainStep, DrainFault
<1> QED
  BY <1>1, TypeCorrect, PTL DEF Spec, ConfirmedStays

\* The contract never replaces a commitment by a conflicting one.
THEOREM CommitmentsAreKept == Spec => CommitmentsKept
<1>1. TypeOK /\ [Next]_vars =>
         [\A e \in Events : registry[e] = "other" => registry'[e] = "other"]_vars
  <2> SUFFICES ASSUME TypeOK, Next, NEW e \in Events, registry[e] = "other"
               PROVE  registry'[e] = "other"
    OBVIOUS
  <2> USE DEF TypeOK, ChainTypeOK
  <2>1. ASSUME NEW f \in Events, Enqueue(f) \/ MineLate(f) \/ Reorg(f) \/ RecordForeign(f)
        PROVE  registry'[e] = "other"
    BY <2>1 DEF Enqueue, MineLate, Reorg, RecordForeign, Accepts, Write, chainVars
  <2>2. ASSUME NEW d \in Drains, Mine(d)
        PROVE  registry'[e] = "other"
    <3>1. Head(queue[d]) \in Events
      BY <2>2, HeadIsEvent DEF Mine
    <3> QED
      BY <2>2, <3>1 DEF Mine, Accepts, Write
  <2>3. ASSUME NEW d \in Drains, Start(d) \/ DrainStep(d) \/ DrainFault(d)
        PROVE  registry'[e] = "other"
    BY <2>3 DEF Start, DrainStep, DrainFault, Renew, Submit, Receipt, Verify, SettleConfirmed,
                SettleFailed, Release, SubmitLost, CallErrs, SettleErrs, FailErrs, Crash, chainVars
  <2>4. CASE RotateAway \/ RotateBack \/ Tick
    BY <2>4 DEF RotateAway, RotateBack, Tick, chainVars
  <2> QED
    BY <2>1, <2>2, <2>3, <2>4 DEF Next
<1> QED
  BY <1>1, TypeCorrect, PTL DEF Spec, CommitmentsKept

(***************************************************************************)
(* The outbox implements EvidenceLog: its initial state maps to the empty  *)
(* log, and every step maps to one step of the log or to none.             *)
(***************************************************************************)
StageMap    == [e \in Events |-> StageOf(status[e])]
RecordedMap == {e \in Events : registry[e] = "own"}

LEMMA StagesOf ==
    /\ StageOf("ABSENT") = "absent" /\ StageOf("PENDING") = "queued"
    /\ StageOf("FAILED") = "queued" /\ StageOf("CONFIRMED") = "confirmed"
  BY DEF StageOf

LEMMA MapInit == Init => Log!LogInit
  BY StagesOf DEF Init, Log!LogInit, OutboxAssumption

LEMMA MapStep == TypeOK /\ EvidenceInv /\ [Next]_vars => [Log!LogNext]_(Log!logVars)
<1> SUFFICES ASSUME TypeOK, EvidenceInv, [Next]_vars
             PROVE  \/ \E e \in Events : Log!Queue(e) \/ Log!Record(e) \/ Log!Drop(e) \/ Log!Confirm(e)
                    \/ StageMap' = StageMap /\ RecordedMap' = RecordedMap
  BY DEF Log!LogNext, Log!logVars, StageMap, RecordedMap
<1> USE DEF TypeOK, OutboxTypeOK, ChainTypeOK
<1>1. ASSUME NEW e \in Events, Enqueue(e)
      PROVE  Log!Queue(e)
  BY <1>1, StagesOf DEF Enqueue, Log!Queue, chainVars
<1>2. ASSUME NEW e \in Events, status[e] # "ABSENT", UNCHANGED status,
             Write(e) \/ UNCHANGED registry
      PROVE  Log!Record(e) \/ (StageMap' = StageMap /\ RecordedMap' = RecordedMap)
  <2>1. StageOf(status[e]) # "absent"
    BY <1>2, StagesOf
  <2> QED
    BY <1>2, <2>1 DEF Write, Log!Record, StageMap, RecordedMap
<1>3. ASSUME NEW e \in Events, MineLate(e)
      PROVE  Log!Record(e) \/ (StageMap' = StageMap /\ RecordedMap' = RecordedMap)
  BY <1>2, <1>3 DEF MineLate, EvidenceInv, Enqueued, outboxVars
<1>4. ASSUME NEW d \in Drains, Mine(d)
      PROVE  \/ \E e \in Events : Log!Record(e)
             \/ StageMap' = StageMap /\ RecordedMap' = RecordedMap
  <2>1. PICK h \in Events : h = Head(queue[d]) /\ status[h] # "ABSENT"
    BY <1>4, HeadWasEnqueued DEF Mine, EvidenceInv
  <2>2. UNCHANGED status /\ (Write(h) \/ UNCHANGED registry)
    BY <1>4, <2>1 DEF Mine, Write, outboxVars
  <2> QED
    BY <1>2, <2>1, <2>2
<1>5. ASSUME NEW e \in Events, Reorg(e)
      PROVE  Log!Drop(e)
  <2>1. StageOf(status[e]) = "queued"
    BY <1>5, StagesOf DEF Reorg, EvidenceInv, Enqueued
  <2> QED
    BY <1>5, <2>1 DEF Reorg, Log!Drop, outboxVars
<1>6. ASSUME NEW e \in Events, RecordForeign(e)
      PROVE  StageMap' = StageMap /\ RecordedMap' = RecordedMap
  BY <1>6 DEF RecordForeign, StageMap, RecordedMap, outboxVars
<1>7. ASSUME NEW d \in Drains, SettleConfirmed(d) \/ SettleErrs(d)
      PROVE  \/ \E e \in Events : Log!Confirm(e)
             \/ StageMap' = StageMap /\ RecordedMap' = RecordedMap
  <2>1. PICK h \in Events : h = Head(queue[d]) /\ status[h] # "ABSENT" /\ registry[h] = "own"
    BY <1>7, HeadWasEnqueued DEF SettleConfirmed, SettleErrs, Holding, EvidenceInv, Witnessed
  <2>2. UNCHANGED registry
    BY <1>7 DEF SettleConfirmed, SettleErrs, chainVars
  <2>3. CASE status' = [status EXCEPT ![h] = "CONFIRMED"] /\ status[h] # "CONFIRMED"
    <3>1. StageOf(status[h]) = "queued"
      BY <2>1, <2>3, StagesOf
    <3> QED
      BY <2>1, <2>2, <2>3, <3>1, StagesOf DEF Log!Confirm
  <2>4. CASE status' = status
    BY <2>2, <2>4 DEF StageMap, RecordedMap
  <2>5. status' = [status EXCEPT ![h] = "CONFIRMED"] \/ status' = status
    BY <1>7, <2>1 DEF SettleConfirmed, SettleErrs, MarkConfirmed, outboxVars
  <2> QED
    BY <2>1, <2>3, <2>4, <2>5
<1>8. ASSUME NEW d \in Drains, SettleFailed(d)
      PROVE  StageMap' = StageMap /\ RecordedMap' = RecordedMap
  <2>1. Head(queue[d]) \in Events /\ status[Head(queue[d])] # "ABSENT"
    BY <1>8, HeadWasEnqueued DEF SettleFailed, Holding, EvidenceInv
  <2>2. \A e \in Events : StageOf(status'[e]) = StageOf(status[e])
    BY <1>8, <2>1, StagesOf DEF SettleFailed, MarkFailed, outboxVars
  <2> QED
    BY <1>8, <2>2 DEF SettleFailed, StageMap, RecordedMap, chainVars
<1>9. ASSUME UNCHANGED <<status, registry>>
      PROVE  StageMap' = StageMap /\ RecordedMap' = RecordedMap
  BY <1>9 DEF StageMap, RecordedMap
<1>10. ASSUME NEW d \in Drains, Start(d) \/ Renew(d) \/ Release(d) \/ Crash(d) \/ FailErrs(d)
       PROVE  UNCHANGED <<status, registry>>
  BY <1>10 DEF Start, Renew, Release, Crash, FailErrs, outboxVars, chainVars
<1>11. ASSUME NEW d \in Drains,
              Submit(d) \/ SubmitLost(d) \/ Receipt(d) \/ Verify(d) \/ CallErrs(d)
       PROVE  UNCHANGED <<status, registry>>
  BY <1>11 DEF Submit, SubmitLost, Receipt, Verify, CallErrs, outboxVars, chainVars
<1>12. CASE RotateAway \/ RotateBack \/ Tick \/ UNCHANGED vars
  <2>1. UNCHANGED <<status, registry>>
    BY <1>12 DEF RotateAway, RotateBack, Tick, vars, outboxVars, chainVars
  <2> QED
    BY <1>9, <2>1
<1> HIDE DEF TypeOK, OutboxTypeOK, ChainTypeOK
<1>13. CASE \E e \in Events : Enqueue(e) \/ MineLate(e) \/ Reorg(e) \/ RecordForeign(e)
  BY <1>1, <1>3, <1>5, <1>6, <1>13
<1>14. CASE \E d \in Drains : Start(d) \/ DrainStep(d) \/ DrainFault(d) \/ Mine(d)
  <2>1. PICK d \in Drains : Start(d) \/ DrainStep(d) \/ DrainFault(d) \/ Mine(d)
    BY <1>14
  <2>2. CASE SettleConfirmed(d) \/ SettleErrs(d) \/ SettleFailed(d) \/ Mine(d)
    BY <1>4, <1>7, <1>8, <2>2
  <2>3. CASE UNCHANGED <<status, registry>>
    BY <1>9, <2>3
  <2> QED
    BY <1>10, <1>11, <2>1, <2>2, <2>3 DEF DrainStep, DrainFault
<1> QED
  BY <1>12, <1>13, <1>14 DEF Next

\* What a reader is shown behaves as the evidence log: queued once, recorded, and
\* confirmed only after it is recorded, for ever.
THEOREM ImplementsLog == Spec => LogSpec
<1>1. Init => TypeOK /\ EvidenceInv
  BY InitTyped, InitEvidence
<1>2. TypeOK /\ EvidenceInv /\ [Next]_vars => (TypeOK /\ EvidenceInv)'
  BY StepTyped, StepEvidence
<1> QED
  BY <1>1, <1>2, MapInit, MapStep, PTL DEF Spec, LogSpec, Log!LogSpec

===============================================================================
