---------------------------- MODULE CampaignOutbox ----------------------------
(***************************************************************************)
(* The outbox that carries a campaign's evidence events to the             *)
(* CampaignEvidenceRegistry contract: drainCampaignOutbox run by the timer *)
(* of every API process and by the operator's forced retry, over one       *)
(* PostgreSQL aggregate whose transactions are atomic; record() of the     *)
(* chain adapter, whose RPC calls lie outside every transaction; and the   *)
(* contract.                                                               *)
(*                                                                         *)
(* Time is counted in ticks.  A deadline is kept as the ticks left to it,  *)
(* so no clock grows.  A run of drainCampaignOutbox draws a fresh lease    *)
(* owner, so a lease whose run died belongs to NoDrain.                    *)
(***************************************************************************)
EXTENDS Naturals, Sequences, FiniteSets

CONSTANTS
    NumEvents,     \* events 1..NumEvents are enqueued in this order (createdAt)
    Drains,        \* concurrent calls of drainCampaignOutbox
    Timers,        \* those the 30 s timer starts; the others are forced retries
    NoDrain,       \* no live owner
    BatchSize,     \* .slice(0, 30)
    LeaseTicks,    \* the five minutes of a lease
    CallTicks,     \* the longest a chain.record call lasts from its renewal
    PauseTicks,    \* the longest the rest of a run takes between two renewals
    BackoffCap,    \* the one hour cap of nextAttemptAt
    MaxAttempts,   \* bound: attempts stop being counted here
    Foreign,       \* events under whose key the registry holds another commitment
    MaxFaults,     \* bound: crashes, lost answers, RPC and database errors
    MaxRotations   \* bound: rotations of the recorder away from the backend

Events == 1..NumEvents

ASSUME OutboxAssumption ==
    /\ NumEvents \in Nat
    /\ Timers \subseteq Drains
    /\ NoDrain \notin Drains
    /\ BatchSize \in Nat \ {0}
    /\ LeaseTicks \in Nat \ {0} /\ CallTicks \in Nat \ {0} /\ PauseTicks \in Nat \ {0}
    /\ BackoffCap \in Nat \ {0} /\ MaxAttempts \in Nat \ {0}
    /\ Foreign \subseteq Events
    /\ MaxFaults \in Nat /\ MaxRotations \in Nat

VARIABLES
    status, attempts, wait,       \* outbox[e]; wait: ticks to nextAttemptAt
    owner, left,                  \* outboxLease; left: ticks to expiresAt
    pc, queue, age, tx,       \* each drain: events[] and its transaction
    registry, recorder, late,   \* the contract, and calls nobody waits for
    faults, rotations             \* what is left of the two bounds

outboxVars == <<status, attempts, wait>>
leaseVars  == <<owner, left>>
drainVars  == <<pc, queue, age, tx>>
chainVars  == <<registry, recorder, late>>
budgets    == <<faults, rotations>>
vars == <<outboxVars, leaseVars, drainVars, chainVars, budgets>>

Stages  == {"idle", "renew", "call", "receipt", "verify", "settle", "fail", "release"}
Calling == {"call", "receipt", "verify"}          \* inside chain.record
Holding == Calling \cup {"settle", "fail"}        \* working on the head event

OutboxTypeOK == /\ status \in [Events -> {"ABSENT", "PENDING", "FAILED", "CONFIRMED"}]
                /\ attempts \in [Events -> 0..MaxAttempts]
                /\ wait \in [Events -> 0..BackoffCap]

LeaseTypeOK == owner \in Drains \cup {NoDrain} /\ left \in 0..LeaseTicks

DrainTypeOK == /\ pc \in [Drains -> Stages]
               /\ queue \in [Drains -> Seq(Events)]
               /\ age \in [Drains -> 0..(CallTicks + PauseTicks)]
               /\ tx \in [Drains -> {"none", "pending", "mined", "reverted"}]

ChainTypeOK == /\ registry \in [Events -> {"none", "own", "other"}]
               /\ recorder \in {"backend", "other"}
               /\ late \subseteq Events

BudgetTypeOK == faults \in 0..MaxFaults /\ rotations \in 0..MaxRotations

\* A drain at work has an event, and a transaction only inside a call.
AtWork == \A d \in Drains : /\ pc[d] \in Holding => queue[d] # <<>>
                            /\ tx[d] # "none" => pc[d] \in {"receipt", "verify"}

TypeOK == /\ OutboxTypeOK /\ LeaseTypeOK /\ DrainTypeOK
          /\ ChainTypeOK /\ BudgetTypeOK /\ AtWork

Init ==
    /\ status = [e \in Events |-> "ABSENT"]
    /\ attempts = [e \in Events |-> 0]
    /\ wait = [e \in Events |-> 0]
    /\ owner = NoDrain
    /\ left = 0
    /\ pc = [d \in Drains |-> "idle"]
    /\ queue = [d \in Drains |-> <<>>]
    /\ age = [d \in Drains |-> 0]
    /\ tx = [d \in Drains |-> "none"]
    /\ registry = [e \in Events |-> IF e \in Foreign THEN "other" ELSE "none"]
    /\ recorder = "backend"
    /\ late = {}
    /\ faults = MaxFaults
    /\ rotations = MaxRotations

Fault == faults > 0 /\ faults' = faults - 1 /\ UNCHANGED rotations

(***************************************************************************)
(* enqueue, called inside the transaction of the change it bears witness   *)
(* to; campaigns, payments and reviews are modelled in modules of their    *)
(* own.                                                                    *)
(***************************************************************************)
Enqueue(e) ==
    /\ status[e] = "ABSENT"
    /\ \A f \in 1..(e - 1) : status[f] # "ABSENT"
    /\ status' = [status EXCEPT ![e] = "PENDING"]
    /\ UNCHANGED <<attempts, wait, leaseVars, drainVars, chainVars, budgets>>

(***************************************************************************)
(* The transactions of drainCampaignOutbox.                                *)
(***************************************************************************)
Due(force) == {e \in Events : /\ status[e] \in {"PENDING", "FAILED"}
                              /\ force \/ wait[e] = 0}

\* Faulty variant: the oldest event first, however often it failed.
BeforeByAge(e, f) == e < f

\* The sort of the due events: attempts, then createdAt.
Before(e, f) == attempts[e] < attempts[f] \/ (attempts[e] = attempts[f] /\ e < f)

\* The first BatchSize due events in that order, as the only member of a set.
Batches(due) ==
    {q \in UNION {[1..n -> due] : n \in 1..BatchSize} :
        /\ \A i, j \in DOMAIN q : i < j => Before(q[i], q[j])
        /\ \A e \in due : \/ \E i \in DOMAIN q : q[i] = e
                          \/ Len(q) = BatchSize /\ \A i \in DOMAIN q : Before(q[i], e)}

\* Faulty variant: a forced retry does not wait for the lease.
StartForced(d) ==
    /\ pc[d] = "idle"
    /\ d \in Timers => left = 0
    /\ \E q \in Batches(Due(d \notin Timers)) : queue' = [queue EXCEPT ![d] = q]
    /\ owner' = d /\ left' = LeaseTicks
    /\ pc' = [pc EXCEPT ![d] = "renew"]
    /\ UNCHANGED <<outboxVars, age, tx, chainVars, budgets>>

\* With an unexpired lease, or nothing due, the call changes nothing.
Start(d) ==
    /\ pc[d] = "idle"
    /\ left = 0
    /\ \E q \in Batches(Due(d \notin Timers)) : queue' = [queue EXCEPT ![d] = q]
    /\ owner' = d /\ left' = LeaseTicks
    /\ pc' = [pc EXCEPT ![d] = "renew"]
    /\ UNCHANGED <<outboxVars, age, tx, chainVars, budgets>>

\* Only the owner is compared: an expired lease nobody took over is renewed.
Renew(d) ==
    /\ pc[d] = "renew" /\ queue[d] # <<>>
    /\ IF owner = d
       THEN /\ left' = LeaseTicks
            /\ pc' = [pc EXCEPT ![d] = "call"]
       ELSE /\ pc' = [pc EXCEPT ![d] = "release"]
            /\ UNCHANGED left
    /\ age' = [age EXCEPT ![d] = 0]
    /\ UNCHANGED <<outboxVars, owner, queue, tx, chainVars, budgets>>

Count(e) == IF attempts[e] < MaxAttempts THEN attempts[e] + 1 ELSE MaxAttempts

\* 30 s, doubled at each failure up to the seventh, in ticks of 30 s.
Delays == <<1, 2, 4, 8, 16, 32, 64, 128>>

Backoff(n) == LET delay == Delays[IF n < 8 THEN n ELSE 8]
              IN IF delay < BackoffCap THEN delay ELSE BackoffCap

MarkConfirmed(e) ==
    /\ status' = [status EXCEPT ![e] = "CONFIRMED"]
    /\ attempts' = [attempts EXCEPT ![e] = Count(e)]
    /\ wait' = [wait EXCEPT ![e] = 0]

MarkFailed(e) ==
    IF status[e] # "CONFIRMED"
    THEN /\ status' = [status EXCEPT ![e] = "FAILED"]
         /\ attempts' = [attempts EXCEPT ![e] = Count(e)]
         /\ wait' = [wait EXCEPT ![e] = Backoff(Count(e))]
    ELSE UNCHANGED outboxVars

EndItem(d, stage) == /\ pc' = [pc EXCEPT ![d] = stage]
                     /\ queue' = [queue EXCEPT ![d] = Tail(@)]

SettleConfirmed(d) ==
    /\ pc[d] = "settle"
    /\ MarkConfirmed(Head(queue[d]))
    /\ EndItem(d, "renew")
    /\ UNCHANGED <<leaseVars, age, tx, chainVars, budgets>>

\* The confirming transaction fails, or commits and its answer is lost: the
\* catch clause runs in both cases.
SettleErrs(d) ==
    /\ pc[d] = "settle"
    /\ Fault
    /\ MarkConfirmed(Head(queue[d])) \/ UNCHANGED outboxVars
    /\ pc' = [pc EXCEPT ![d] = "fail"]
    /\ UNCHANGED <<leaseVars, queue, age, tx, chainVars>>

SettleFailed(d) ==
    /\ pc[d] = "fail"
    /\ MarkFailed(Head(queue[d]))
    /\ EndItem(d, "renew")
    /\ UNCHANGED <<leaseVars, age, tx, chainVars, budgets>>

\* The failing transaction fails itself: the error leaves the loop.
FailErrs(d) ==
    /\ pc[d] = "fail"
    /\ Fault
    /\ EndItem(d, "release")
    /\ UNCHANGED <<outboxVars, leaseVars, age, tx, chainVars>>

EndRun(d) == /\ pc' = [pc EXCEPT ![d] = "idle"]
             /\ queue' = [queue EXCEPT ![d] = <<>>]
             /\ age' = [age EXCEPT ![d] = 0]

\* finally: the run gives up its lease and no other.
Release(d) ==
    /\ pc[d] = "release" \/ (pc[d] = "renew" /\ queue[d] = <<>>)
    /\ owner' = IF owner = d THEN NoDrain ELSE owner
    /\ left' = IF owner = d THEN 0 ELSE left
    /\ EndRun(d)
    /\ UNCHANGED <<outboxVars, tx, chainVars, budgets>>

\* The process dies, or the database does not answer the lease transactions:
\* the lease stays until it expires, a submitted transaction stays pending.
Crash(d) ==
    /\ pc[d] # "idle"
    /\ Fault
    /\ owner' = IF owner = d THEN NoDrain ELSE owner
    /\ late' = IF tx[d] = "pending" THEN late \cup {Head(queue[d])} ELSE late
    /\ tx' = [tx EXCEPT ![d] = "none"]
    /\ EndRun(d)
    /\ UNCHANGED <<outboxVars, left, registry, recorder>>

(***************************************************************************)
(* record() of the chain adapter, for the head event of the drain.         *)
(***************************************************************************)
\* What a call of the contract's record would do now: exact retries succeed,
\* another commitment under the same key reverts.
Accepts(e) == recorder = "backend" /\ registry[e] # "other"

Write(e) == registry' = [registry EXCEPT ![e] = "own"]

\* Faulty variant: the transaction hash is taken for a confirmation.
SubmitConfirms(d) ==
    /\ pc[d] = "call"
    /\ pc' = [pc EXCEPT ![d] = IF Accepts(Head(queue[d])) THEN "settle" ELSE "fail"]
    /\ UNCHANGED <<outboxVars, leaseVars, queue, age, tx, chainVars, budgets>>

\* submit: the simulation rejects what the contract would revert.
Submit(d) ==
    /\ pc[d] = "call"
    /\ IF Accepts(Head(queue[d]))
       THEN /\ tx' = [tx EXCEPT ![d] = "pending"]
            /\ pc' = [pc EXCEPT ![d] = "receipt"]
       ELSE /\ pc' = [pc EXCEPT ![d] = "fail"]
            /\ UNCHANGED tx
    /\ UNCHANGED <<outboxVars, leaseVars, queue, age, chainVars, budgets>>

\* The broadcast reached the node and its answer did not reach the adapter.
SubmitLost(d) ==
    /\ pc[d] = "call"
    /\ Fault
    /\ Accepts(Head(queue[d]))
    /\ late' = late \cup {Head(queue[d])}
    /\ pc' = [pc EXCEPT ![d] = "fail"]
    /\ UNCHANGED <<outboxVars, leaseVars, queue, age, tx, registry, recorder>>

Receipt(d) ==
    /\ pc[d] = "receipt"
    /\ tx[d] \in {"mined", "reverted"}
    /\ pc' = [pc EXCEPT ![d] = IF tx[d] = "mined" THEN "verify" ELSE "fail"]
    /\ tx' = [tx EXCEPT ![d] = IF tx[d] = "mined" THEN "mined" ELSE "none"]
    /\ UNCHANGED <<outboxVars, leaseVars, queue, age, chainVars, budgets>>

\* Faulty variant: the receipt is trusted without reading the registry back.
VerifyNothing(d) ==
    /\ pc[d] = "verify"
    /\ pc' = [pc EXCEPT ![d] = "settle"]
    /\ tx' = [tx EXCEPT ![d] = "none"]
    /\ UNCHANGED <<outboxVars, leaseVars, queue, age, chainVars, budgets>>

\* readEvidence and getBlockHash at the receipt's block; a transaction that a
\* reorganisation put back is pending again and its block is not canonical.
Verify(d) ==
    /\ pc[d] = "verify"
    /\ LET e == Head(queue[d])
           good == tx[d] = "mined" /\ registry[e] = "own"
       IN /\ pc' = [pc EXCEPT ![d] = IF good THEN "settle" ELSE "fail"]
          /\ late' = IF tx[d] = "pending" THEN late \cup {e} ELSE late
    /\ tx' = [tx EXCEPT ![d] = "none"]
    /\ UNCHANGED <<outboxVars, leaseVars, queue, age, registry, recorder, budgets>>

\* An RPC error, the 120 s receipt timeout, or a replaced transaction.
CallErrs(d) ==
    /\ pc[d] \in Calling
    /\ Fault
    /\ late' = IF tx[d] = "pending" THEN late \cup {Head(queue[d])} ELSE late
    /\ tx' = [tx EXCEPT ![d] = "none"]
    /\ pc' = [pc EXCEPT ![d] = "fail"]
    /\ UNCHANGED <<outboxVars, leaseVars, queue, age, registry, recorder>>

(***************************************************************************)
(* The chain and the contract.                                             *)
(***************************************************************************)
Mine(d) ==
    /\ tx[d] = "pending"
    /\ IF Accepts(Head(queue[d]))
       THEN Write(Head(queue[d])) /\ tx' = [tx EXCEPT ![d] = "mined"]
       ELSE UNCHANGED registry /\ tx' = [tx EXCEPT ![d] = "reverted"]
    /\ UNCHANGED <<outboxVars, leaseVars, pc, queue, age, recorder, late, budgets>>

\* A transaction whose sender gave up, crashed or lost the answer is mined.
MineLate(e) ==
    /\ e \in late
    /\ late' = late \ {e}
    /\ IF Accepts(e) THEN Write(e) ELSE UNCHANGED registry
    /\ UNCHANGED <<outboxVars, leaseVars, drainVars, recorder, budgets>>

\* A reorganisation drops a record and puts its transactions back.  A block that
\* passed Verify is taken to be final.
Reorg(e) ==
    /\ Fault
    /\ registry[e] = "own" /\ status[e] # "CONFIRMED"
    /\ \A d \in Drains : pc[d] = "settle" => Head(queue[d]) # e
    /\ registry' = [registry EXCEPT ![e] = "none"]
    /\ tx' = [d \in Drains |->
                 IF tx[d] = "mined" /\ Head(queue[d]) = e THEN "pending" ELSE tx[d]]
    /\ UNCHANGED <<outboxVars, leaseVars, pc, queue, age, recorder, late>>

\* rotateRecorder to another account, which may record anything, and back.
RotateAway ==
    /\ recorder = "backend" /\ rotations > 0
    /\ recorder' = "other" /\ rotations' = rotations - 1
    /\ UNCHANGED <<outboxVars, leaseVars, drainVars, registry, late, faults>>

RotateBack ==
    /\ recorder = "other"
    /\ recorder' = "backend"
    /\ UNCHANGED <<outboxVars, leaseVars, drainVars, registry, late, budgets>>

RecordForeign(e) ==
    /\ recorder = "other" /\ registry[e] = "none"
    /\ registry' = [registry EXCEPT ![e] = "other"]
    /\ UNCHANGED <<outboxVars, leaseVars, drainVars, recorder, late, budgets>>

Patience(d) == IF pc[d] \in Calling THEN CallTicks ELSE PauseTicks

\* A run at its bound moves on before time does.
Tick ==
    /\ \A d \in Drains : pc[d] # "idle" => age[d] < Patience(d)
    /\ left' = IF left > 0 THEN left - 1 ELSE 0
    /\ wait' = [e \in Events |-> IF wait[e] > 0 THEN wait[e] - 1 ELSE 0]
    /\ age' = [d \in Drains |-> IF pc[d] = "idle" THEN 0 ELSE age[d] + 1]
    /\ UNCHANGED <<status, attempts, owner, pc, queue, tx, chainVars, budgets>>

DrainStep(d) == \/ Renew(d) \/ Submit(d) \/ Receipt(d) \/ Verify(d)
                \/ SettleConfirmed(d) \/ SettleFailed(d) \/ Release(d)

DrainFault(d) == \/ SubmitLost(d) \/ CallErrs(d) \/ SettleErrs(d)
                 \/ FailErrs(d) \/ Crash(d)

Next ==
    \/ \E e \in Events : Enqueue(e) \/ MineLate(e) \/ Reorg(e) \/ RecordForeign(e)
    \/ \E d \in Drains : Start(d) \/ DrainStep(d) \/ DrainFault(d) \/ Mine(d)
    \/ RotateAway \/ RotateBack \/ Tick

Spec == Init /\ [][Next]_vars

(***************************************************************************)
(* What the scheduling justifies: the interval timer of some process fires *)
(* again and again, a started run goes on, the chain mines what it was     *)
(* sent, the administrator restores the recorder, and time passes.         *)
(* Enqueue, forced retries and faults are never obliged to happen.         *)
(***************************************************************************)
Fairness ==
    /\ WF_vars(\E d \in Timers : Start(d))
    /\ \A d \in Drains : WF_vars(DrainStep(d)) /\ WF_vars(Mine(d))
    /\ \A e \in Events : WF_vars(MineLate(e))
    /\ WF_vars(RotateBack)
    /\ WF_vars(Tick)

FairSpec == Spec /\ Fairness

(***************************************************************************)
(* Properties.                                                             *)
(***************************************************************************)
\* Whatever crashes, is lost, is retried twice or arrives late: an event the
\* outbox calls CONFIRMED has its own commitment in the registry.
ConfirmedIsRecorded ==
    \A e \in Events : status[e] = "CONFIRMED" => registry[e] = "own"

\* No second run of drainCampaignOutbox is inside chain.record while one is:
\* the lease serializes timers and forced retries across processes.  It rests on
\* CallTicks < LeaseTicks ("five minutes exceeds the receipt timeout").
OneRecorderAtATime ==
    \A c, d \in Drains : pc[c] \in Calling /\ pc[d] \in Calling => c = d

\* A late failure, of a run that lost its lease or of a confirming transaction
\* whose answer was lost, never takes a confirmation back.
ConfirmedStays ==
    [][\A e \in Events : status[e] = "CONFIRMED" => status'[e] = "CONFIRMED"]_vars

\* The contract never replaces a commitment by a conflicting one, even when the
\* conflict appears between the adapter's simulation and the mining.
CommitmentsKept ==
    [][\A e \in Events : registry[e] = "other" => registry'[e] = "other"]_vars

\* Every event is confirmed in the end, past crashes that leave the lease held,
\* lost answers and an older event that fails for ever in front of a full batch;
\* all but the events whose key holds another commitment.
EventuallyConfirmed ==
    \A e \in Events : (status[e] = "PENDING")
                        ~> (status[e] = "CONFIRMED" \/ registry[e] = "other")

(***************************************************************************)
(* The reader's view of the outbox implements EvidenceLog.                 *)
(***************************************************************************)
StageOf(s) == CASE s = "ABSENT" -> "absent"
                [] s \in {"PENDING", "FAILED"} -> "queued"
                [] s = "CONFIRMED" -> "confirmed"

Log == INSTANCE EvidenceLog WITH
           stage <- [e \in Events |-> StageOf(status[e])],
           recorded <- {e \in Events : registry[e] = "own"}

LogSpec == Log!LogSpec
===============================================================================
