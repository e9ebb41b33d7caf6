--------------------------- MODULE CampaignPayments ---------------------------
(***************************************************************************)
(* The donations of one campaign: the handler that opens a checkout, the   *)
(* donor's retry under a lease, and reconcilePayment, run by webhooks,     *)
(* status polls and retries.  Every handler awaits the payment gateway     *)
(* outside its transactions, so an answer may be applied long after it was *)
(* given.  The gateway is external: what it may do to an order is taken    *)
(* from the answers the code tells apart.                                  *)
(*                                                                         *)
(* A handler is one HTTP request; one that ended stands for the next       *)
(* request, so a lease whose request died belongs to NoHandler.            *)
(***************************************************************************)
EXTENDS Integers, FiniteSets, Functions

CONSTANTS
    Payments,      \* the donation intents of the campaign
    Amount,        \* Amount[p], in rupiah
    Handlers,      \* concurrent requests
    NoHandler,     \* no live request
    NoPayment,
    LeaseTicks,    \* the 60 s of a checkout lease
    RetryTicks,    \* the longest a retry lasts from its lease to its last write
    MaxCheckouts,  \* bound: checkouts the gateway opens for one order
    MaxVersions    \* bound: published versions of the campaign

ASSUME PaymentsAssumption ==
    /\ IsFiniteSet(Payments)
    /\ Amount \in [Payments -> Nat \ {0}]
    /\ NoHandler \notin Handlers
    /\ NoPayment \notin Payments
    /\ LeaseTicks \in Nat \ {0} /\ RetryTicks \in Nat \ {0}
    /\ MaxCheckouts \in Nat \ {0} /\ MaxVersions \in Nat \ {0}

VARIABLES
    campaign, version,             \* "open" or "shut" to new checkouts
    collected, donors,             \* collectedAmount, donationCount
    status, paid, refunded, token, intended,  \* payments[p]; intended: campaignVersion
    leaseOwner, leaseLeft,         \* checkoutLeaseOwner, ticks to checkoutLeaseUntil
    known,                         \* payments whose donor has the access token
    evidence, snapshot,            \* the last event about p, the totals in the last of all
    pc, kind, job, answer, age,    \* each handler
    order, returned, checkouts     \* the gateway: state, refund_amount, checkouts opened

campaignVars == <<campaign, version>>
totals       == <<collected, donors>>
money        == <<paid, refunded>>
leases       == <<leaseOwner, leaseLeft>>
events       == <<evidence, snapshot>>
handlerVars  == <<pc, kind, job, answer, age>>
gatewayVars  == <<order, returned, checkouts>>
vars == <<campaignVars, totals, status, money, token, intended, leases, known,
          events, handlerVars, gatewayVars>>

Statuses == {"ABSENT", "CREATING", "GATEWAY_ERROR", "PENDING", "PAID", "FAILED",
             "REFUNDED", "PARTIALLY_REFUNDED"}
Orders   == {"none", "pending", "held", "failed", "paid", "partial", "refunded"}
Received == {"paid", "partial", "refunded"}   \* orders whose money came in
Stages   == {"idle", "create", "save", "fail", "status", "apply", "decide",
             "recreate", "resave", "release"}

NoAnswer == [order |-> "none", refund |-> 0, checkout |-> 0]
NoEvent  == [kind |-> "none", paid |-> 0, refunded |-> 0]
NoTotals == [collected |-> 0, donors |-> 0]

Answers == [order : Orders, refund : Nat, checkout : 0..MaxCheckouts]
Events  == [kind : {"none", "PAYMENT", "REFUND"}, paid : Nat, refunded : Nat]

PaymentTypeOK == /\ status \in [Payments -> Statuses]
                 /\ paid \in [Payments -> Nat] /\ refunded \in [Payments -> Nat]
                 /\ token \in [Payments -> 0..MaxCheckouts]
                 /\ intended \in [Payments -> 0..MaxVersions]
                 /\ known \subseteq Payments

LeaseTypeOK == /\ leaseOwner \in [Payments -> Handlers \cup {NoHandler}]
               /\ leaseLeft \in [Payments -> 0..LeaseTicks]

CampaignTypeOK == /\ campaign \in {"open", "shut"} /\ version \in 1..MaxVersions
                  /\ collected \in Int /\ donors \in Int
                  /\ evidence \in [Payments -> Events]
                  /\ snapshot \in [collected : Int, donors : Int]

HandlerTypeOK == /\ pc \in [Handlers -> Stages]
                 /\ kind \in [Handlers -> {"none", "donate", "retry", "poll"}]
                 /\ job \in [Handlers -> Payments \cup {NoPayment}]
                 /\ answer \in [Handlers -> Answers]
                 /\ age \in [Handlers -> 0..RetryTicks]

GatewayTypeOK == /\ order \in [Payments -> Orders]
                 /\ returned \in [Payments -> Nat]
                 /\ checkouts \in [Payments -> 0..MaxCheckouts]

\* A request at work has a payment, and the payment it works on exists.
AtWork == \A h \in Handlers : pc[h] # "idle" => /\ job[h] \in Payments
                                                /\ status[job[h]] # "ABSENT"

TypeOK == /\ PaymentTypeOK /\ LeaseTypeOK /\ CampaignTypeOK
          /\ HandlerTypeOK /\ GatewayTypeOK /\ AtWork

Init ==
    /\ campaign = "open" /\ version = 1
    /\ collected = 0 /\ donors = 0
    /\ status = [p \in Payments |-> "ABSENT"]
    /\ paid = [p \in Payments |-> 0] /\ refunded = [p \in Payments |-> 0]
    /\ token = [p \in Payments |-> 0]
    /\ intended = [p \in Payments |-> 0]
    /\ leaseOwner = [p \in Payments |-> NoHandler]
    /\ leaseLeft = [p \in Payments |-> 0]
    /\ known = {}
    /\ evidence = [p \in Payments |-> NoEvent] /\ snapshot = NoTotals
    /\ pc = [h \in Handlers |-> "idle"]
    /\ kind = [h \in Handlers |-> "none"]
    /\ job = [h \in Handlers |-> NoPayment]
    /\ answer = [h \in Handlers |-> NoAnswer]
    /\ age = [h \in Handlers |-> 0]
    /\ order = [p \in Payments |-> "none"]
    /\ returned = [p \in Payments |-> 0]
    /\ checkouts = [p \in Payments |-> 0]

(***************************************************************************)
(* The campaign, as the payments see it: the publication, reopening,       *)
(* closing and ending of campaigns are modelled in CampaignReview, which   *)
(* implements CampaignWindow: what was shut is published again only as a   *)
(* newer version.                                                          *)
(***************************************************************************)
Shut ==
    /\ campaign = "open"
    /\ campaign' = "shut"
    /\ UNCHANGED <<version, totals, status, money, token, intended, leases, known,
                   events, handlerVars, gatewayVars>>

Republish ==
    /\ campaign = "shut"
    /\ campaign' = "open" /\ version' \in (version + 1)..MaxVersions
    /\ UNCHANGED <<totals, status, money, token, intended, leases, known,
                   events, handlerVars, gatewayVars>>

(***************************************************************************)
(* A request: it begins, moves on, and ends.                               *)
(***************************************************************************)
Begin(h, k, p, stage) ==
    /\ pc[h] = "idle"
    /\ pc' = [pc EXCEPT ![h] = stage]
    /\ kind' = [kind EXCEPT ![h] = k]
    /\ job' = [job EXCEPT ![h] = p]
    /\ UNCHANGED <<answer, age>>

Move(h, stage) == /\ pc' = [pc EXCEPT ![h] = stage]
                  /\ UNCHANGED <<kind, job, answer, age>>

MoveWith(h, stage, a) == /\ pc' = [pc EXCEPT ![h] = stage]
                         /\ answer' = [answer EXCEPT ![h] = a]
                         /\ UNCHANGED <<kind, job, age>>

End(h) == /\ pc' = [pc EXCEPT ![h] = "idle"]
          /\ kind' = [kind EXCEPT ![h] = "none"]
          /\ job' = [job EXCEPT ![h] = NoPayment]
          /\ answer' = [answer EXCEPT ![h] = NoAnswer]
          /\ age' = [age EXCEPT ![h] = 0]

\* finally of a retry; nothing for the others.
Leave(h) == IF kind[h] = "retry" THEN Move(h, "release") ELSE End(h)

(***************************************************************************)
(* POST /campaigns/:id/donations                                           *)
(***************************************************************************)
Donate(h, p) ==
    /\ status[p] = "ABSENT" /\ campaign = "open"
    /\ Begin(h, "donate", p, "create")
    /\ status' = [status EXCEPT ![p] = "CREATING"]
    /\ intended' = [intended EXCEPT ![p] = version]
    /\ leaseLeft' = [leaseLeft EXCEPT ![p] = LeaseTicks]
    /\ UNCHANGED <<campaignVars, totals, money, token, leaseOwner, known, events,
                   gatewayVars>>

\* gateway.create, for a donation or a retry.  The gateway opens no second
\* checkout under an order id that is begun; nothing else is assumed of it, not
\* even that a donor waits for a checkout to be saved.
Opens(p) == order[p] = "none" /\ checkouts[p] < MaxCheckouts

CreateCheckout(h) ==
    /\ pc[h] \in {"create", "recreate"}
    /\ Opens(job[h])
    /\ checkouts' = [checkouts EXCEPT ![job[h]] = @ + 1]
    /\ MoveWith(h, IF pc[h] = "create" THEN "save" ELSE "resave",
                   [NoAnswer EXCEPT !.checkout = checkouts[job[h]] + 1])
    /\ UNCHANGED <<campaignVars, totals, status, money, token, intended, leases,
                   known, events, order, returned>>

\* The 10 s timeout: the gateway may have opened the checkout all the same.
CreateFails(h) ==
    /\ pc[h] \in {"create", "recreate"}
    /\ \/ /\ Opens(job[h])
          /\ checkouts' = [checkouts EXCEPT ![job[h]] = @ + 1]
       \/ UNCHANGED checkouts
    /\ Move(h, IF pc[h] = "create" THEN "fail" ELSE "release")
    /\ UNCHANGED <<campaignVars, totals, status, money, token, intended, leases,
                   known, events, order, returned>>

StoreCheckout(h, stale) ==
    LET p == job[h]
    IN /\ token' = [token EXCEPT ![p] = answer[h].checkout]
       /\ status' = [status EXCEPT ![p] = IF @ \in stale THEN "PENDING" ELSE @]

\* Faulty variant: whatever the webhook made of the payment, it is PENDING now.
SaveCheckoutAnyway(h) ==
    /\ pc[h] = "save"
    /\ StoreCheckout(h, Statuses)
    /\ leaseLeft' = [leaseLeft EXCEPT ![job[h]] = 0]
    /\ known' = known \cup {job[h]}
    /\ End(h)
    /\ UNCHANGED <<campaignVars, totals, money, intended, leaseOwner, events,
                   gatewayVars>>

SaveCheckout(h) ==
    /\ pc[h] = "save"
    /\ StoreCheckout(h, {"CREATING"})
    /\ leaseLeft' = [leaseLeft EXCEPT ![job[h]] = 0]
    /\ known' = known \cup {job[h]}
    /\ End(h)
    /\ UNCHANGED <<campaignVars, totals, money, intended, leaseOwner, events,
                   gatewayVars>>

\* The saving transaction fails, or commits and its answer is lost.
SaveErrs(h) ==
    /\ pc[h] = "save"
    /\ \/ /\ StoreCheckout(h, {"CREATING"})
          /\ leaseLeft' = [leaseLeft EXCEPT ![job[h]] = 0]
       \/ UNCHANGED <<token, status, leaseLeft>>
    /\ Move(h, "fail")
    /\ UNCHANGED <<campaignVars, totals, money, intended, leaseOwner, known, events,
                   gatewayVars>>

\* catch: the intent is kept, for the gateway may have an order for it.
KeepIntent(h) ==
    /\ pc[h] = "fail"
    /\ status' = [status EXCEPT ![job[h]] = IF @ = "CREATING" THEN "GATEWAY_ERROR" ELSE @]
    /\ leaseLeft' = [leaseLeft EXCEPT ![job[h]] = 0]
    /\ known' = known \cup {job[h]}
    /\ End(h)
    /\ UNCHANGED <<campaignVars, totals, money, token, intended, leaseOwner, events,
                   gatewayVars>>

(***************************************************************************)
(* reconcilePayment                                                        *)
(***************************************************************************)
\* A notification or GET /payments/:id.
Poll(h, p) ==
    /\ status[p] # "ABSENT"
    /\ Begin(h, "poll", p, "status")
    /\ UNCHANGED <<campaignVars, totals, status, money, token, intended, leases,
                   known, events, gatewayVars>>

\* gateway.status: only a retry has a use for NOT_FOUND.
GatewayAnswers(h) ==
    /\ pc[h] = "status"
    /\ IF order[job[h]] # "none"
       THEN MoveWith(h, "apply", [order |-> order[job[h]],
                                  refund |-> returned[job[h]], checkout |-> 0])
       ELSE IF kind[h] = "retry" THEN Move(h, "decide") ELSE End(h)
    /\ UNCHANGED <<campaignVars, totals, status, money, token, intended, leases,
                   known, events, gatewayVars>>

Verified(a) == a.order # "held"     \* fraud_status other than accept is refused

Bigger(m, n) == IF m > n THEN m ELSE n

\* Faulty variant: an order that is only begun counts as paid.
PaidWhenBegun(a, p) == IF a.order \in Received \cup {"pending"} THEN Amount[p] ELSE paid[p]

PaidBy(a, p) == IF a.order \in Received THEN Amount[p] ELSE paid[p]

\* Faulty variant: the answer in hand is taken for the newest.
RefundInHand(a, p) == IF a.order \in {"partial", "refunded"} THEN a.refund ELSE refunded[p]

RefundedBy(a, p) == IF a.order \in {"partial", "refunded"}
                    THEN Bigger(refunded[p], a.refund) ELSE refunded[p]

StatusBy(a, p) ==
    IF RefundedBy(a, p) > 0
    THEN IF RefundedBy(a, p) = PaidBy(a, p) THEN "REFUNDED" ELSE "PARTIALLY_REFUNDED"
    ELSE IF PaidBy(a, p) > 0 THEN "PAID"
    ELSE IF a.order = "failed" \/ status[p] = "FAILED" THEN "FAILED" ELSE "PENDING"

Net(p) == paid[p] - refunded[p]

\* Faulty variant: the totals follow the answer in hand, be it older than the money.
CreditInHand(a, p) ==
    LET net     == (IF a.order \in Received THEN Amount[p] ELSE 0) - a.refund
        sum     == (collected + net) - Net(p)
        count   == (donors + (IF net > 0 THEN 1 ELSE 0)) - (IF Net(p) > 0 THEN 1 ELSE 0)
        event   == [kind |-> IF RefundedBy(a, p) > refunded[p] THEN "REFUND" ELSE "PAYMENT",
                    paid |-> PaidBy(a, p), refunded |-> RefundedBy(a, p)]
    IN IF net # Net(p)
       THEN /\ collected' = sum /\ donors' = count
            /\ evidence' = [evidence EXCEPT ![p] = event]
            /\ snapshot' = [collected |-> sum, donors |-> count]
       ELSE UNCHANGED <<totals, events>>

\* Faulty variant: the event is enqueued before the totals move.
CreditWitnessed(a, p) ==
    LET net     == PaidBy(a, p) - RefundedBy(a, p)
        sum     == (collected + net) - Net(p)
        changed == PaidBy(a, p) # paid[p] \/ RefundedBy(a, p) # refunded[p]
        count   == (donors + (IF net > 0 THEN 1 ELSE 0)) - (IF Net(p) > 0 THEN 1 ELSE 0)
        event   == [kind |-> IF RefundedBy(a, p) > refunded[p] THEN "REFUND" ELSE "PAYMENT",
                    paid |-> PaidBy(a, p), refunded |-> RefundedBy(a, p)]
    IN IF changed
       THEN /\ collected' = sum /\ donors' = count
            /\ evidence' = [evidence EXCEPT ![p] = event]
            /\ snapshot' = [collected |-> collected, donors |-> donors]
       ELSE UNCHANGED <<totals, events>>

\* The new totals, and the event that carries them.  Its snapshot is taken
\* after the totals moved, in the same transaction.
Credit(a, p) ==
    LET net     == PaidBy(a, p) - RefundedBy(a, p)
        sum     == (collected + net) - Net(p)
        changed == PaidBy(a, p) # paid[p] \/ RefundedBy(a, p) # refunded[p]
        count   == (donors + (IF net > 0 THEN 1 ELSE 0)) - (IF Net(p) > 0 THEN 1 ELSE 0)
        event   == [kind |-> IF RefundedBy(a, p) > refunded[p] THEN "REFUND" ELSE "PAYMENT",
                    paid |-> PaidBy(a, p), refunded |-> RefundedBy(a, p)]
    IN IF changed
       THEN /\ collected' = sum /\ donors' = count
            /\ evidence' = [evidence EXCEPT ![p] = event]
            /\ snapshot' = [collected |-> sum, donors |-> count]
       ELSE UNCHANGED <<totals, events>>

\* Faulty variant: only a campaign open to new checkouts is credited.
ApplyWhileOpen(h) ==
    /\ pc[h] = "apply" /\ campaign = "open"
    /\ LET p == job[h]
           a == answer[h]
       IN IF Verified(a)
          THEN /\ Credit(a, p)
               /\ paid' = [paid EXCEPT ![p] = PaidBy(a, p)]
               /\ refunded' = [refunded EXCEPT ![p] = RefundedBy(a, p)]
               /\ status' = [status EXCEPT ![p] = StatusBy(a, p)]
          ELSE UNCHANGED <<totals, events, money, status>>
    /\ Leave(h)
    /\ UNCHANGED <<campaignVars, token, intended, leases, known, gatewayVars>>

Apply(h) ==
    /\ pc[h] = "apply"
    /\ LET p == job[h]
           a == answer[h]
       IN IF Verified(a)
          THEN /\ Credit(a, p)
               /\ paid' = [paid EXCEPT ![p] = PaidBy(a, p)]
               /\ refunded' = [refunded EXCEPT ![p] = RefundedBy(a, p)]
               /\ status' = [status EXCEPT ![p] = StatusBy(a, p)]
          ELSE UNCHANGED <<totals, events, money, status>>
    /\ Leave(h)
    /\ UNCHANGED <<campaignVars, token, intended, leases, known, gatewayVars>>

\* The gateway is unavailable, or a transaction fails.
Abort(h) ==
    /\ pc[h] \in {"status", "apply", "decide", "resave"}
    /\ Leave(h)
    /\ UNCHANGED <<campaignVars, totals, status, money, token, intended, leases,
                   known, events, gatewayVars>>

(***************************************************************************)
(* POST /payments/:id/retry                                                *)
(***************************************************************************)
Accepting(p) == campaign = "open" /\ intended[p] = version

\* Faulty variant: a recovery in progress does not keep a second one out.
BeginRetryAnyway(h, p) ==
    /\ p \in known /\ status[p] \in {"CREATING", "GATEWAY_ERROR", "PENDING"}
    /\ Accepting(p)
    /\ Begin(h, "retry", p, "status")
    /\ leaseOwner' = [leaseOwner EXCEPT ![p] = h]
    /\ leaseLeft' = [leaseLeft EXCEPT ![p] = LeaseTicks]
    /\ UNCHANGED <<campaignVars, totals, status, money, token, intended, known,
                   events, gatewayVars>>

\* A terminal payment, a refusal or a lease in force changes nothing.
BeginRetry(h, p) ==
    /\ p \in known /\ status[p] \in {"CREATING", "GATEWAY_ERROR", "PENDING"}
    /\ Accepting(p)
    /\ leaseLeft[p] = 0
    /\ Begin(h, "retry", p, "status")
    /\ leaseOwner' = [leaseOwner EXCEPT ![p] = h]
    /\ leaseLeft' = [leaseLeft EXCEPT ![p] = LeaseTicks]
    /\ UNCHANGED <<campaignVars, totals, status, money, token, intended, known,
                   events, gatewayVars>>

\* Only the owner is compared: a lease that expired and was not taken holds.
Decide(h) ==
    /\ pc[h] = "decide"
    /\ LET p == job[h]
       IN Move(h, IF /\ Accepting(p) /\ leaseOwner[p] = h
                     /\ token[p] = 0 /\ paid[p] = 0 /\ refunded[p] = 0
                     /\ status[p] # "FAILED"
                  THEN "recreate" ELSE "release")
    /\ UNCHANGED <<campaignVars, totals, status, money, token, intended, leases,
                   known, events, gatewayVars>>

SaveRetry(h) ==
    /\ pc[h] = "resave"
    /\ StoreCheckout(h, {"CREATING", "GATEWAY_ERROR"})
    /\ Move(h, "release")
    /\ UNCHANGED <<campaignVars, totals, money, intended, leases, known, events,
                   gatewayVars>>

\* finally
Release(h) ==
    /\ pc[h] = "release"
    /\ LET p == job[h]
       IN IF leaseOwner[p] = h
          THEN /\ leaseOwner' = [leaseOwner EXCEPT ![p] = NoHandler]
               /\ leaseLeft' = [leaseLeft EXCEPT ![p] = 0]
          ELSE UNCHANGED leases
    /\ End(h)
    /\ UNCHANGED <<campaignVars, totals, status, money, token, intended, known,
                   events, gatewayVars>>

\* The process dies; a lease it held runs out by itself.
Crash(h) ==
    /\ pc[h] # "idle"
    /\ leaseOwner' = [p \in Payments |-> IF leaseOwner[p] = h THEN NoHandler
                                                              ELSE leaseOwner[p]]
    /\ End(h)
    /\ UNCHANGED <<campaignVars, totals, status, money, token, intended, leaseLeft,
                   known, events, gatewayVars>>

Retrying(h) == kind[h] = "retry" /\ pc[h] \notin {"idle", "release"}

Tick ==
    /\ \A h \in Handlers : Retrying(h) => age[h] < RetryTicks
    /\ leaseLeft' = [p \in Payments |-> IF leaseLeft[p] > 0 THEN leaseLeft[p] - 1 ELSE 0]
    /\ age' = [h \in Handlers |-> IF Retrying(h) THEN age[h] + 1 ELSE age[h]]
    /\ UNCHANGED <<campaignVars, totals, status, money, token, intended, leaseOwner,
                   known, events, pc, kind, job, answer, gatewayVars>>

(***************************************************************************)
(* The gateway.                                                            *)
(***************************************************************************)
GatewayMoves(p, from, to) ==
    /\ order[p] \in from
    /\ order' = [order EXCEPT ![p] = to]
    /\ UNCHANGED <<campaignVars, totals, status, money, token, intended, leases,
                   known, events, handlerVars, checkouts>>

\* The donor begins to pay, with a checkout, or tries again after a denial.
DonorPays(p) == checkouts[p] > 0 /\ GatewayMoves(p, {"none", "failed"}, "pending")
                /\ UNCHANGED returned
Challenge(p) == GatewayMoves(p, {"pending"}, "held") /\ UNCHANGED returned
Deny(p)      == GatewayMoves(p, {"pending", "held"}, "failed") /\ UNCHANGED returned
Settle(p)    == GatewayMoves(p, {"pending", "held"}, "paid") /\ UNCHANGED returned
Return(p)    == \E sum \in (returned[p] + 1)..Amount[p] :
                    /\ GatewayMoves(p, {"paid", "partial"},
                                    IF sum = Amount[p] THEN "refunded" ELSE "partial")
                    /\ returned' = [returned EXCEPT ![p] = sum]

HandlerStep(h) == \/ CreateCheckout(h) \/ SaveCheckout(h) \/ KeepIntent(h)
                  \/ GatewayAnswers(h) \/ Apply(h) \/ Decide(h) \/ SaveRetry(h)
                  \/ Release(h)

Next ==
    \/ Shut \/ Republish \/ Tick
    \/ \E h \in Handlers, p \in Payments : Donate(h, p) \/ Poll(h, p) \/ BeginRetry(h, p)
    \/ \E h \in Handlers : HandlerStep(h) \/ CreateFails(h) \/ SaveErrs(h)
                           \/ Abort(h) \/ Crash(h)
    \/ \E p \in Payments : \/ DonorPays(p) \/ Challenge(p) \/ Deny(p)
                           \/ Settle(p) \/ Return(p)

Spec == Init /\ [][Next]_vars

(***************************************************************************)
(* A request runs to its end.  The gateway repeats a notification until    *)
(* the payment is credited and answers some of the status calls it causes; *)
(* that much is assumed of the gateway.                                    *)
(***************************************************************************)
Behind(p) == order[p] \in Received /\ paid[p] = 0

Fairness ==
    /\ \A h \in Handlers : WF_vars(HandlerStep(h) \/ CreateFails(h))
    /\ \A p \in Payments :
          /\ SF_vars(\E h \in Handlers : Poll(h, p) /\ Behind(p))
          /\ SF_vars(\E h \in Handlers : job[h] = p /\ kind[h] = "poll"
                                         /\ order[p] \in Received /\ GatewayAnswers(h))
          /\ SF_vars(\E h \in Handlers : job[h] = p /\ answer[h].order \in Received
                                         /\ Apply(h))

FairSpec == Spec /\ Fairness

(***************************************************************************)
(* Properties.                                                             *)
(***************************************************************************)
\* collectedAmount and donationCount, kept up by differences in handlers that
\* overlap on a payment and apply their answers in any order, are the sum and
\* the number of what donors gave net of refunds.
TotalsAreNet ==
    /\ collected = SumFunction([p \in Payments |-> Net(p)])
    /\ donors = Cardinality({p \in Payments : Net(p) > 0})

\* A payment is credited only with money the gateway took for that order, and
\* shows no refund the gateway did not make, however old the applied answer.
CreditedIsReal ==
    \A p \in Payments : /\ paid[p] > 0 => order[p] \in Received /\ paid[p] = Amount[p]
                        /\ refunded[p] <= returned[p]

\* The status a donor sees agrees with the money, whichever of the checkout
\* handler, the retry and the reconciliations wrote last.
StatusTellsMoney ==
    \A p \in Payments :
        /\ status[p] = "PAID" <=> paid[p] > 0 /\ refunded[p] = 0
        /\ status[p] = "PARTIALLY_REFUNDED" <=> refunded[p] > 0 /\ refunded[p] < paid[p]
        /\ status[p] = "REFUNDED" <=> refunded[p] > 0 /\ refunded[p] = paid[p]

\* The evidence adds up by itself: the last event about each payment states its
\* money, and the totals in the newest event of all are the sum and the number of
\* what those events state, as are the totals of the campaign.
MoneyIsWitnessed ==
    /\ \A p \in Payments : /\ evidence[p].paid = paid[p]
                           /\ evidence[p].refunded = refunded[p]
    /\ snapshot =
          [collected |-> SumFunction([p \in Payments |-> evidence[p].paid - evidence[p].refunded]),
           donors    |-> Cardinality({p \in Payments : evidence[p].paid > evidence[p].refunded})]
    /\ snapshot = [collected |-> collected, donors |-> donors]

\* A stale settlement, denial or partial refund never takes back what a newer
\* answer established.
MoneyNeverRegresses ==
    [][\A p \in Payments :
         /\ paid'[p] >= paid[p] /\ refunded'[p] >= refunded[p]
         /\ status[p] = "FAILED" => status'[p] \notin {"CREATING", "GATEWAY_ERROR", "PENDING"}
      ]_vars

\* Recoveries of a payment do not overlap at the gateway and never replace a
\* checkout that was saved.  It rests on RetryTicks < LeaseTicks (two calls of
\* at most 10 s within the 60 s of the lease).
OneCheckout ==
    [][\A p \in Payments : token[p] # 0 => token'[p] = token[p]]_vars

\* What the gateway received is credited, even when the campaign was shut or
\* republished since: a checkout opened before can still be paid.
ReceiptsAreCredited == \A p \in Payments : order[p] = "paid" ~> paid[p] = Amount[p]
=============================================================================
