------------------------ MODULE CampaignPaymentsProofs ------------------------
(***************************************************************************)
(* Proofs about CampaignPayments, for any donations, requests and bounds.  *)
(* Liveness is left to TLC.                                                *)
(***************************************************************************)
EXTENDS CampaignPayments, FiniteSetTheorems, TLAPS

(***************************************************************************)
(* Sums.  SumFunctionOnSet iterates over the subsets of S; that it adds up *)
(* natural numbers is shown by counting: as many units as f[x] for each x  *)
(* satisfy its equation (CountIsFold), which has one solution on a finite  *)
(* set (FoldsAgree, by a least subset on which two of them differ).        *)
(***************************************************************************)
Units(f, S) == UNION {{x} \X (1..f[x]) : x \in S}

One(s) == CHOOSE x \in s : TRUE

\* g is what SumFunctionOnSet iterates.
IsFold(g, f, S) == g = [s \in SUBSET S |-> IF s = {} THEN 0 ELSE f[One(s)] + g[s \ {One(s)}]]

LEMMA OwnUnits ==
    ASSUME NEW f, NEW x, f[x] \in Nat
    PROVE  IsFiniteSet({x} \X (1..f[x])) /\ Cardinality({x} \X (1..f[x])) = f[x]
<1>1. IsFiniteSet({x}) /\ Cardinality({x}) = 1
  BY FS_Singleton
<1>2. IsFiniteSet(1..f[x]) /\ Cardinality(1..f[x]) = f[x]
  BY FS_Interval
<1>3. IsFiniteSet({x} \X (1..f[x])) /\ Cardinality({x} \X (1..f[x])) = 1 * f[x]
  BY <1>1, <1>2, FS_Product
<1> QED BY <1>3

LEMMA UnitsFinite ==
    ASSUME NEW f, NEW S, IsFiniteSet(S), \A x \in S : f[x] \in Nat
    PROVE  IsFiniteSet(Units(f, S)) /\ Cardinality(Units(f, S)) \in Nat
<1> DEFINE own(x) == {x} \X (1..f[x])
<1>1. IsFiniteSet({own(x) : x \in S})
  <2>1. [x \in S |-> own(x)] \in Surjection(S, {own(x) : x \in S})
    BY DEF Surjection
  <2> QED BY <2>1, FS_Surjection
<1>2. \A U \in {own(x) : x \in S} : IsFiniteSet(U)
  BY OwnUnits
<1>3. IsFiniteSet(Units(f, S))
  BY <1>1, <1>2, FS_UNION DEF Units
<1> QED BY <1>3, FS_CardinalityType

LEMMA UnitsSplit ==
    ASSUME NEW f, NEW S, IsFiniteSet(S), \A y \in S : f[y] \in Nat, NEW x \in S
    PROVE  Cardinality(Units(f, S)) = f[x] + Cardinality(Units(f, S \ {x}))
<1> DEFINE own == {x} \X (1..f[x])
           rest == Units(f, S \ {x})
<1>1. IsFiniteSet(own) /\ Cardinality(own) = f[x]
  BY OwnUnits
<1>2. IsFiniteSet(rest) /\ Cardinality(rest) \in Nat
  BY FS_RemoveElement, UnitsFinite
<1>3. Units(f, S) = own \cup rest /\ own \cap rest = {}
  BY DEF Units
<1>4. Cardinality(own \cap rest) = 0
  BY <1>3, FS_EmptySet
<1> HIDE DEF own, rest
<1>5. Cardinality(own \cup rest) = Cardinality(own) + Cardinality(rest) - Cardinality(own \cap rest)
  BY <1>1, <1>2, FS_Union
<1>6. Cardinality(own \cup rest) = f[x] + Cardinality(rest)
  BY <1>1, <1>2, <1>4, <1>5
<1> QED BY <1>3, <1>6 DEF rest

LEMMA CountIsFold ==
    ASSUME NEW f, NEW S, IsFiniteSet(S), \A x \in S : f[x] \in Nat
    PROVE  IsFold([s \in SUBSET S |-> Cardinality(Units(f, s))], f, S)
<1> DEFINE c == [s \in SUBSET S |-> Cardinality(Units(f, s))]
<1>1. c[{}] = 0
  BY FS_EmptySet DEF Units
<1>2. ASSUME NEW s \in SUBSET S, s # {}
      PROVE  c[s] = f[One(s)] + c[s \ {One(s)}]
  <2>1. One(s) \in s /\ IsFiniteSet(s)
    BY <1>2, FS_Subset DEF One
  <2> QED BY <2>1, UnitsSplit
<1>3. \A s \in SUBSET S : c[s] = IF s = {} THEN 0 ELSE f[One(s)] + c[s \ {One(s)}]
  BY <1>1, <1>2
<1> QED BY <1>3 DEF IsFold

LEMMA FoldsAgree ==
    ASSUME NEW f, NEW S, IsFiniteSet(S), NEW g, NEW h, IsFold(g, f, S), IsFold(h, f, S)
    PROVE  g = h
<1> DEFINE T == {s \in SUBSET S : g[s] # h[s]}
           R == StrictSubsetOrdering(S)
<1>1. IsWellFoundedOn(R, SUBSET S)
  BY FS_StrictSubsetOrderingWellFounded, FS_FiniteSubsetsOfFinite
<1>2. T = {}
  <2> SUFFICES ASSUME T # {} PROVE FALSE
    OBVIOUS
  <2> HIDE DEF R, T
  <2>1. PICK s \in T : \A u \in T : ~ (<<u, s>> \in R)
    <3>1. T \subseteq SUBSET S
      BY DEF T
    <3> QED BY <1>1, <3>1, WFMin
  <2>2. s \in SUBSET S /\ g[s] # h[s]
    BY <2>1 DEF T
  <2>3. s # {} /\ One(s) \in s
    BY <2>2 DEF IsFold, One
  <2> DEFINE u == s \ {One(s)}
  <2>4. <<u, s>> \in R
    BY <2>2, <2>3 DEF R, StrictSubsetOrdering
  <2>5. g[u] = h[u]
    BY <2>1, <2>2, <2>4 DEF T
  <2>6. g[s] = f[One(s)] + g[u] /\ h[s] = f[One(s)] + h[u]
    BY <2>2, <2>3 DEF IsFold
  <2> QED BY <2>2, <2>5, <2>6
<1>3. \A s \in SUBSET S : g[s] = h[s]
  BY <1>2
<1> QED BY <1>3 DEF IsFold

LEMMA SumCounts ==
    ASSUME NEW f, NEW S, IsFiniteSet(S), \A x \in S : f[x] \in Nat
    PROVE  SumFunctionOnSet(f, S) = Cardinality(Units(f, S))
<1> DEFINE c == [s \in SUBSET S |-> Cardinality(Units(f, s))]
<1>1. IsFold(c, f, S)
  BY CountIsFold
<1>2. (CHOOSE g : IsFold(g, f, S)) = c
  BY <1>1, FoldsAgree
<1>3. SumFunctionOnSet(f, S) = (CHOOSE g : IsFold(g, f, S))[S]
  BY DEF SumFunctionOnSet, FoldFunctionOnSet, MapThenFoldSet, IsFold, One
<1> QED BY <1>2, <1>3

LEMMA SumWithout ==
    ASSUME NEW f, NEW S, IsFiniteSet(S), \A y \in S : f[y] \in Nat, NEW x \in S
    PROVE  /\ SumFunctionOnSet(f, S) = f[x] + SumFunctionOnSet(f, S \ {x})
           /\ SumFunctionOnSet(f, S \ {x}) \in Nat
<1>1. IsFiniteSet(S \ {x})
  BY FS_RemoveElement
<1> QED BY <1>1, SumCounts, UnitsSplit, UnitsFinite

LEMMA SumSame ==
    ASSUME NEW f, NEW g, NEW S, IsFiniteSet(S), \A x \in S : f[x] \in Nat /\ f[x] = g[x]
    PROVE  SumFunctionOnSet(f, S) = SumFunctionOnSet(g, S)
<1>1. Units(f, S) = Units(g, S)
  BY DEF Units
<1> QED BY <1>1, SumCounts

USE PaymentsAssumption DEF PaymentsAssumption

(***************************************************************************)
(* Types, of everything but the totals.                                    *)
(***************************************************************************)
Types == /\ PaymentTypeOK /\ LeaseTypeOK /\ HandlerTypeOK /\ GatewayTypeOK /\ AtWork
         /\ evidence \in [Payments -> Events] /\ version \in 1..MaxVersions

Kinds == {"none", "donate", "retry", "poll"}

\* A step of h, at most, among the requests.
Alone(h) == \A g \in Handlers \ {h} : /\ pc'[g] = pc[g] /\ kind'[g] = kind[g]
                                      /\ job'[g] = job[g] /\ answer'[g] = answer[g]
                                      /\ age'[g] = age[g]

LEMMA BeginEffect ==
    ASSUME HandlerTypeOK, NEW h \in Handlers, NEW k \in Kinds, NEW p \in Payments,
           NEW stage \in Stages, Begin(h, k, p, stage)
    PROVE  /\ HandlerTypeOK' /\ Alone(h) /\ pc[h] = "idle"
           /\ pc'[h] = stage /\ kind'[h] = k /\ job'[h] = p
           /\ answer'[h] = answer[h] /\ age'[h] = age[h]
  BY DEF HandlerTypeOK, Begin, Alone, Kinds

LEMMA MoveEffect ==
    ASSUME HandlerTypeOK, NEW h \in Handlers, NEW stage \in Stages, Move(h, stage)
    PROVE  /\ HandlerTypeOK' /\ Alone(h)
           /\ pc'[h] = stage /\ kind'[h] = kind[h] /\ job'[h] = job[h]
           /\ answer'[h] = answer[h] /\ age'[h] = age[h]
  BY DEF HandlerTypeOK, Move, Alone

LEMMA MoveWithEffect ==
    ASSUME HandlerTypeOK, NEW h \in Handlers, NEW stage \in Stages, NEW a \in Answers,
           MoveWith(h, stage, a)
    PROVE  /\ HandlerTypeOK' /\ Alone(h)
           /\ pc'[h] = stage /\ kind'[h] = kind[h] /\ job'[h] = job[h]
           /\ answer'[h] = a /\ age'[h] = age[h]
  BY DEF HandlerTypeOK, MoveWith, Alone

LEMMA EndEffect ==
    ASSUME HandlerTypeOK, NEW h \in Handlers, End(h)
    PROVE  /\ HandlerTypeOK' /\ Alone(h)
           /\ pc'[h] = "idle" /\ kind'[h] = "none" /\ age'[h] = 0
<1>1. NoAnswer \in Answers
  BY DEF NoAnswer, Answers, Orders
<1> QED BY <1>1 DEF HandlerTypeOK, End, Alone, Stages

LEMMA LeaveEffect ==
    ASSUME HandlerTypeOK, NEW h \in Handlers, Leave(h)
    PROVE  /\ HandlerTypeOK' /\ Alone(h)
           /\ \/ pc'[h] = "idle" /\ kind'[h] = "none" /\ age'[h] = 0
              \/ /\ pc'[h] = "release" /\ kind[h] = "retry" /\ kind'[h] = kind[h]
                 /\ job'[h] = job[h] /\ age'[h] = age[h]
  BY EndEffect, MoveEffect DEF Leave, Stages

\* Once a payment exists it does not vanish, and requests at work stay at theirs.
LEMMA AtWorkStays ==
    ASSUME Types, HandlerTypeOK',
           \A p \in Payments : status[p] # "ABSENT" => status'[p] # "ABSENT",
           \A g \in Handlers : pc'[g] # "idle" =>
               \/ pc[g] # "idle" /\ job'[g] = job[g]
               \/ job'[g] \in Payments /\ status'[job'[g]] # "ABSENT"
    PROVE  AtWork'
  BY DEF Types, AtWork

LEMMA InitTypes == Init => Types
<1> SUFFICES ASSUME Init PROVE Types
  OBVIOUS
<1>1. NoAnswer \in Answers /\ NoEvent \in Events
  BY DEF NoAnswer, Answers, Orders, NoEvent, Events
<1> QED BY <1>1 DEF Init, Types, PaymentTypeOK, LeaseTypeOK, HandlerTypeOK, GatewayTypeOK, AtWork,
                    Statuses, Stages, Orders

\* What is common to the steps of requests, of the campaign and of the gateway.
LEMMA CampaignTypes ==
    ASSUME Types, Shut \/ Republish
    PROVE  Types'
  BY DEF Types, PaymentTypeOK, LeaseTypeOK, HandlerTypeOK, GatewayTypeOK, AtWork, Shut, Republish,
         totals, money, leases, events, handlerVars, gatewayVars

LEMMA TickTypes ==
    ASSUME Types, Tick
    PROVE  Types'
<1>1. LeaseTypeOK'
  BY DEF Types, LeaseTypeOK, Tick
<1>2. HandlerTypeOK'
  BY DEF Types, HandlerTypeOK, Tick, Retrying
<1>3. PaymentTypeOK' /\ GatewayTypeOK' /\ AtWork' /\ UNCHANGED <<evidence, version>>
  BY DEF Types, PaymentTypeOK, GatewayTypeOK, AtWork, Tick, campaignVars, money, events, gatewayVars
<1> QED BY <1>1, <1>2, <1>3 DEF Types

LEMMA GatewayTypes ==
    ASSUME Types, NEW p \in Payments,
           DonorPays(p) \/ Challenge(p) \/ Deny(p) \/ Settle(p) \/ Return(p)
    PROVE  Types'
<1>1. PICK from, to : to \in Orders /\ GatewayMoves(p, from, to)
  BY DEF DonorPays, Challenge, Deny, Settle, Return, Orders
<1>2. returned' \in [Payments -> Nat]
  BY DEF Types, GatewayTypeOK, DonorPays, Challenge, Deny, Settle, Return
<1> QED BY <1>1, <1>2 DEF Types, PaymentTypeOK, LeaseTypeOK, HandlerTypeOK, GatewayTypeOK, AtWork,
                           GatewayMoves, campaignVars, money, leases, events, handlerVars

\* Requests that begin.
LEMMA BeginTypes ==
    ASSUME Types, NEW h \in Handlers, NEW p \in Payments,
           Donate(h, p) \/ Poll(h, p) \/ BeginRetry(h, p)
    PROVE  Types'
<1> USE DEF Types
<1>1. PICK k \in Kinds, stage \in Stages : Begin(h, k, p, stage)
  BY DEF Donate, Poll, BeginRetry, Kinds, Stages
<1>2. /\ HandlerTypeOK' /\ Alone(h) /\ job'[h] = p
  BY <1>1, BeginEffect
<1>3. /\ status'[p] # "ABSENT"
      /\ \A q \in Payments : status[q] # "ABSENT" => status'[q] # "ABSENT"
  BY DEF Donate, Poll, BeginRetry, PaymentTypeOK
<1>4. AtWork'
  BY <1>2, <1>3, AtWorkStays DEF Alone
<1>5. PaymentTypeOK'
  BY DEF Donate, Poll, BeginRetry, PaymentTypeOK, Statuses, money
<1>6. LeaseTypeOK'
  BY DEF Donate, Poll, BeginRetry, LeaseTypeOK, leases
<1>7. GatewayTypeOK' /\ UNCHANGED <<evidence, version>>
  BY DEF Donate, Poll, BeginRetry, GatewayTypeOK, campaignVars, gatewayVars, events
<1> QED BY <1>2, <1>4, <1>5, <1>6, <1>7

\* The steps of a request that leave the payments and their evidence alone.
LEMMA QuietTypes ==
    ASSUME Types, NEW h \in Handlers, pc[h] # "idle",
           \/ CreateCheckout(h) \/ CreateFails(h) \/ GatewayAnswers(h) \/ Decide(h)
           \/ Release(h) \/ Abort(h) \/ Crash(h)
    PROVE  Types'
<1> USE DEF Types
<1>1. UNCHANGED <<status, paid, refunded, token, intended, known, evidence, version>>
  BY DEF CreateCheckout, CreateFails, GatewayAnswers, Decide, Release, Abort, Crash, campaignVars,
         money, events
<1>2. job[h] \in Payments
  BY DEF AtWork
<1>3. HandlerTypeOK' /\ Alone(h) /\ (pc'[h] # "idle" => job'[h] = job[h])
  <2>1. CASE CreateCheckout(h)
    <3>1. [NoAnswer EXCEPT !.checkout = checkouts[job[h]] + 1] \in Answers
      BY <2>1, <1>2 DEF CreateCheckout, Opens, NoAnswer, Answers, Orders, GatewayTypeOK
    <3> QED BY <2>1, <3>1, MoveWithEffect DEF CreateCheckout, Stages
  <2>2. CASE GatewayAnswers(h)
    <3>1. [order |-> order[job[h]], refund |-> returned[job[h]], checkout |-> 0] \in Answers
      BY <1>2 DEF Answers, GatewayTypeOK
    <3>2. CASE order[job[h]] # "none"
      BY <2>2, <3>1, <3>2, MoveWithEffect DEF GatewayAnswers, Stages
    <3>3. CASE order[job[h]] = "none"
      BY <2>2, <3>3, MoveEffect, EndEffect DEF GatewayAnswers, Stages
    <3> QED BY <3>2, <3>3
  <2>3. CASE CreateFails(h) \/ Decide(h)
    BY <2>3, MoveEffect DEF CreateFails, Decide, Stages
  <2>4. CASE Abort(h)
    BY <2>4, LeaveEffect DEF Abort
  <2>5. CASE Release(h) \/ Crash(h)
    BY <2>5, EndEffect DEF Release, Crash
  <2> QED BY <2>1, <2>2, <2>3, <2>4, <2>5
<1>4. AtWork'
  BY <1>1, <1>3, AtWorkStays DEF Alone
<1>5. LeaseTypeOK'
  BY <1>2 DEF LeaseTypeOK, CreateCheckout, CreateFails, GatewayAnswers, Decide, Release, Abort, Crash,
              leases
<1>6. GatewayTypeOK'
  <2>1. CASE CreateCheckout(h) \/ CreateFails(h)
    BY <2>1, <1>2 DEF GatewayTypeOK, CreateCheckout, CreateFails, Opens
  <2>2. CASE GatewayAnswers(h) \/ Decide(h) \/ Release(h) \/ Abort(h) \/ Crash(h)
    BY <2>2 DEF GatewayTypeOK, GatewayAnswers, Decide, Release, Abort, Crash, gatewayVars
  <2> QED BY <2>1, <2>2
<1> QED BY <1>1, <1>3, <1>4, <1>5, <1>6 DEF PaymentTypeOK

\* The steps that save a checkout, or that there is none.
LEMMA SavingTypes ==
    ASSUME Types, NEW h \in Handlers, pc[h] # "idle",
           SaveCheckout(h) \/ SaveErrs(h) \/ SaveRetry(h) \/ KeepIntent(h)
    PROVE  Types'
<1> USE DEF Types
<1>1. job[h] \in Payments /\ answer[h].checkout \in 0..MaxCheckouts
  BY DEF AtWork, HandlerTypeOK, Answers
<1>2. HandlerTypeOK' /\ Alone(h) /\ (pc'[h] # "idle" => job'[h] = job[h])
  BY MoveEffect, EndEffect DEF SaveCheckout, SaveErrs, SaveRetry, KeepIntent, Stages
<1>3. PaymentTypeOK' /\ \A p \in Payments : status[p] # "ABSENT" => status'[p] # "ABSENT"
  BY <1>1 DEF SaveCheckout, SaveErrs, SaveRetry, KeepIntent, StoreCheckout, PaymentTypeOK, Statuses,
              money
<1>4. AtWork'
  BY <1>2, <1>3, AtWorkStays DEF Alone
<1>5. LeaseTypeOK'
  BY <1>1 DEF LeaseTypeOK, SaveCheckout, SaveErrs, SaveRetry, KeepIntent, leases
<1>6. GatewayTypeOK' /\ UNCHANGED <<evidence, version>>
  BY DEF GatewayTypeOK, SaveCheckout, SaveErrs, SaveRetry, KeepIntent, campaignVars, events, gatewayVars
<1> QED BY <1>2, <1>3, <1>4, <1>5, <1>6

LEMMA CreditTypes ==
    ASSUME NEW p \in Payments, NEW a \in Answers, PaymentTypeOK
    PROVE  /\ PaidBy(a, p) \in Nat /\ RefundedBy(a, p) \in Nat
           /\ StatusBy(a, p) \in Statuses \ {"ABSENT"}
<1>1. PaidBy(a, p) \in Nat /\ RefundedBy(a, p) \in Nat
  BY DEF PaidBy, RefundedBy, Bigger, PaymentTypeOK, Answers
<1> QED BY <1>1 DEF StatusBy, Statuses

LEMMA ApplyTypes ==
    ASSUME Types, NEW h \in Handlers, Apply(h)
    PROVE  Types'
<1> USE DEF Types
<1> DEFINE p == job[h]
           a == answer[h]
           event == [kind |-> IF RefundedBy(a, p) > refunded[p] THEN "REFUND" ELSE "PAYMENT",
                     paid |-> PaidBy(a, p), refunded |-> RefundedBy(a, p)]
<1>1. p \in Payments /\ a \in Answers /\ status[p] # "ABSENT"
  BY DEF AtWork, HandlerTypeOK, Apply
<1>2. /\ PaidBy(a, p) \in Nat /\ RefundedBy(a, p) \in Nat
      /\ StatusBy(a, p) \in Statuses \ {"ABSENT"}
  BY <1>1, CreditTypes
<1>3. HandlerTypeOK' /\ Alone(h) /\ (pc'[h] # "idle" => job'[h] = job[h])
  BY LeaveEffect DEF Apply
<1>4. \/ /\ paid' = [paid EXCEPT ![p] = PaidBy(a, p)]
         /\ refunded' = [refunded EXCEPT ![p] = RefundedBy(a, p)]
         /\ status' = [status EXCEPT ![p] = StatusBy(a, p)]
         /\ evidence' = [evidence EXCEPT ![p] = event] \/ UNCHANGED evidence
      \/ UNCHANGED <<paid, refunded, status, evidence>>
  BY DEF Apply, Credit, events, money
<1>5. event \in Events
  BY <1>2 DEF Events
<1> HIDE DEF event, p, a
<1>6. /\ PaymentTypeOK' /\ evidence' \in [Payments -> Events]
      /\ \A q \in Payments : status[q] # "ABSENT" => status'[q] # "ABSENT"
  BY <1>1, <1>2, <1>4, <1>5 DEF PaymentTypeOK, Apply
<1>7. AtWork'
  BY <1>3, <1>6, AtWorkStays DEF Alone, Apply
<1>8. LeaseTypeOK' /\ GatewayTypeOK' /\ version' = version
  BY DEF LeaseTypeOK, GatewayTypeOK, Apply, leases, gatewayVars, campaignVars
<1> QED BY <1>3, <1>6, <1>7, <1>8

LEMMA TypesStep == Types /\ [Next]_vars => Types'
<1> SUFFICES ASSUME Types, [Next]_vars PROVE Types'
  OBVIOUS
<1>1. CASE \E h \in Handlers : HandlerStep(h) \/ CreateFails(h) \/ SaveErrs(h) \/ Abort(h) \/ Crash(h)
  <2>1. PICK h \in Handlers : HandlerStep(h) \/ CreateFails(h) \/ SaveErrs(h) \/ Abort(h) \/ Crash(h)
    BY <1>1
  <2>2. pc[h] # "idle"
    BY <2>1 DEF HandlerStep, CreateCheckout, SaveCheckout, KeepIntent, GatewayAnswers, Apply, Decide,
                SaveRetry, Release, CreateFails, SaveErrs, Abort, Crash
  <2> QED BY <2>1, <2>2, QuietTypes, SavingTypes, ApplyTypes DEF HandlerStep
<1>2. CASE UNCHANGED vars
  BY <1>2 DEF vars, campaignVars, money, leases, events, handlerVars, gatewayVars, Types, PaymentTypeOK,
              LeaseTypeOK, HandlerTypeOK, GatewayTypeOK, AtWork
<1> QED BY <1>1, <1>2, CampaignTypes, TickTypes, BeginTypes, GatewayTypes DEF Next

Totals == /\ campaign \in {"open", "shut"}
          /\ collected \in Int /\ donors \in Int
          /\ snapshot \in [collected : Int, donors : Int]

LEMMA TotalsStep == Types /\ Totals /\ [Next]_vars => Totals'
<1> SUFFICES ASSUME Types, Totals, [Next]_vars PROVE Totals'
  OBVIOUS
<1>1. campaign' \in {"open", "shut"}
  BY DEF Totals, Next, Shut, Republish, Tick, Donate, Poll, BeginRetry, HandlerStep, CreateCheckout,
         SaveCheckout, KeepIntent, GatewayAnswers, Apply, Decide, SaveRetry, Release, CreateFails, SaveErrs,
         Abort, Crash, DonorPays, Challenge, Deny, Settle, Return, GatewayMoves, vars, campaignVars
<1>2. UNCHANGED <<totals, events>> \/ \E h \in Handlers : Apply(h)
  BY DEF Next, Shut, Republish, Tick, Donate, Poll, BeginRetry, HandlerStep, CreateCheckout,
         SaveCheckout, KeepIntent, GatewayAnswers, Decide, SaveRetry, Release, CreateFails, SaveErrs,
         Abort, Crash, DonorPays, Challenge, Deny, Settle, Return, GatewayMoves, vars
<1>3. CASE UNCHANGED <<totals, events>>
  BY <1>1, <1>3 DEF Totals, totals, events
<1>4. ASSUME NEW h \in Handlers, Apply(h)
      PROVE  /\ collected' \in Int /\ donors' \in Int
             /\ snapshot' \in [collected : Int, donors : Int]
  <2> DEFINE p == job[h]
             a == answer[h]
             net == PaidBy(a, p) - RefundedBy(a, p)
             sum == (collected + net) - Net(p)
             count == (donors + (IF net > 0 THEN 1 ELSE 0)) - (IF Net(p) > 0 THEN 1 ELSE 0)
  <2>1. p \in Payments /\ a \in Answers /\ PaymentTypeOK
    BY <1>4 DEF Types, AtWork, HandlerTypeOK, Apply
  <2>2. PaidBy(a, p) \in Nat /\ RefundedBy(a, p) \in Nat /\ Net(p) \in Int
    BY <2>1, CreditTypes DEF PaymentTypeOK, Net
  <2>3. sum \in Int /\ count \in Int
    BY <2>2 DEF Totals
  <2>4. \/ UNCHANGED <<totals, events>>
        \/ /\ collected' = sum /\ donors' = count
           /\ snapshot' = [collected |-> sum, donors |-> count]
    BY <1>4 DEF Apply, Credit
  <2> HIDE DEF sum, count
  <2> QED BY <2>3, <2>4 DEF Totals, totals, events
<1> QED BY <1>1, <1>2, <1>3, <1>4 DEF Totals

(***************************************************************************)
(* What is true of the gateway stays true: an answer is never ahead of the *)
(* order, and an order whose money came in stays one.                      *)
(***************************************************************************)
OrdersReal ==
    \A p \in Payments : /\ returned[p] <= Amount[p]
                        /\ returned[p] > 0 <=> order[p] \in {"partial", "refunded"}

AnswersReal ==
    \A h \in Handlers : pc[h] = "apply" =>
        /\ answer[h].order \in Received => order[job[h]] \in Received
        /\ answer[h].order \in {"partial", "refunded"} => answer[h].refund > 0
        /\ answer[h].refund <= returned[job[h]]

\* Credited money is the gateway's, and a refund is of money that was credited.
Credited == CreditedIsReal /\ \A p \in Payments : refunded[p] <= paid[p]

\* The last events state the payments' money and the campaign's totals.
EventsTell ==
    /\ \A p \in Payments : /\ evidence[p].paid = paid[p]
                           /\ evidence[p].refunded = refunded[p]
    /\ snapshot = [collected |-> collected, donors |-> donors]

MoneyInv == /\ Types /\ OrdersReal /\ AnswersReal /\ Credited /\ StatusTellsMoney
            /\ EventsTell

OrdersAdvance ==
    \A p \in Payments : /\ order[p] \in Received => order'[p] \in Received
                        /\ returned[p] <= returned'[p]

\* No request reads an answer.
Unread == \A h \in Handlers : pc'[h] = "apply" =>
              pc[h] = "apply" /\ job'[h] = job[h] /\ answer'[h] = answer[h]

LEMMA AnswersStay ==
    ASSUME Types, Types', AnswersReal, OrdersAdvance, Unread
    PROVE  AnswersReal'
<1> SUFFICES ASSUME NEW h \in Handlers, pc'[h] = "apply"
             PROVE  /\ answer'[h].order \in Received => order'[job'[h]] \in Received
                    /\ answer'[h].order \in {"partial", "refunded"} => answer'[h].refund > 0
                    /\ answer'[h].refund <= returned'[job'[h]]
  BY DEF AnswersReal
<1>1. /\ pc[h] = "apply" /\ job'[h] = job[h] /\ answer'[h] = answer[h] /\ job[h] \in Payments
      /\ answer[h].refund \in Nat
  BY DEF Unread, Types, AtWork, HandlerTypeOK, Answers
<1>2. /\ returned[job[h]] \in Nat /\ returned'[job[h]] \in Nat
  BY <1>1 DEF Types, GatewayTypeOK
<1> QED BY <1>1, <1>2 DEF AnswersReal, OrdersAdvance

\* Steps that touch neither money nor status, nor orders.
LEMMA MoneyRests ==
    ASSUME MoneyInv, Types', AnswersReal',
           UNCHANGED <<status, paid, refunded, order, returned, totals, events>>
    PROVE  MoneyInv'
  BY DEF MoneyInv, OrdersReal, Credited, CreditedIsReal, StatusTellsMoney, EventsTell, totals,
         events

LEMMA OrdersRest == ASSUME Types, UNCHANGED <<order, returned>> PROVE OrdersAdvance
  BY DEF OrdersAdvance, Types, GatewayTypeOK

LEMMA CampaignMoney ==
    ASSUME MoneyInv, Types', Shut \/ Republish \/ Tick
    PROVE  MoneyInv'
<1>1. UNCHANGED <<status, paid, refunded, order, returned, totals, events>> /\ Unread
  BY DEF Shut, Republish, Tick, money, handlerVars, gatewayVars, Unread
<1>2. AnswersReal'
  BY <1>1, AnswersStay, OrdersRest DEF MoneyInv
<1> QED BY <1>1, <1>2, MoneyRests

LEMMA QuietMoney ==
    ASSUME MoneyInv, Types', NEW h \in Handlers,
           \/ \E p \in Payments : Poll(h, p) \/ BeginRetry(h, p)
           \/ CreateCheckout(h) \/ CreateFails(h) \/ Decide(h) \/ Release(h) \/ Abort(h) \/ Crash(h)
    PROVE  MoneyInv'
<1>1. HandlerTypeOK
  BY DEF MoneyInv, Types
<1>2. Alone(h) /\ pc'[h] # "apply"
  <2>1. ASSUME NEW p \in Payments, Poll(h, p) \/ BeginRetry(h, p)
        PROVE  Alone(h) /\ pc'[h] # "apply"
    BY <1>1, <2>1, BeginEffect DEF Poll, BeginRetry, Kinds, Stages
  <2>2. CASE CreateCheckout(h)
    BY <1>1, <2>2 DEF HandlerTypeOK, CreateCheckout, MoveWith, Alone
  <2>3. CASE CreateFails(h) \/ Decide(h)
    BY <1>1, <2>3, MoveEffect DEF CreateFails, Decide, Stages
  <2>4. CASE Abort(h)
    BY <1>1, <2>4, LeaveEffect DEF Abort
  <2>5. CASE Release(h) \/ Crash(h)
    BY <1>1, <2>5, EndEffect DEF Release, Crash
  <2> QED BY <2>1, <2>2, <2>3, <2>4, <2>5
<1>3. Unread
  BY <1>2 DEF Unread, Alone
<1>4. UNCHANGED <<status, paid, refunded, order, returned, totals, events>>
  BY DEF Poll, BeginRetry, CreateCheckout, CreateFails, Decide, Release, Abort, Crash, money, gatewayVars
<1>5. AnswersReal'
  BY <1>3, <1>4, AnswersStay, OrdersRest DEF MoneyInv
<1> QED BY <1>4, <1>5, MoneyRests

LEMMA AnswerMoney ==
    ASSUME MoneyInv, Types', NEW h \in Handlers, GatewayAnswers(h)
    PROVE  MoneyInv'
<1> DEFINE p == job[h]
<1>1. HandlerTypeOK /\ p \in Payments /\ pc[h] = "status"
  BY DEF MoneyInv, Types, AtWork, GatewayAnswers
<1>2. UNCHANGED <<status, paid, refunded, order, returned, totals, events>>
  BY DEF GatewayAnswers, money, gatewayVars
<1>3. CASE order[p] # "none"
  <2> DEFINE a == [order |-> order[p], refund |-> returned[p], checkout |-> 0]
  <2>1. a \in Answers
    BY <1>1 DEF MoneyInv, Types, GatewayTypeOK, Answers
  <2>2. MoveWith(h, "apply", a)
    BY <1>3 DEF GatewayAnswers
  <2>3. Alone(h) /\ answer'[h] = a /\ job'[h] = p
    BY <1>1, <2>1, <2>2, MoveWithEffect DEF Stages
  <2>4. /\ a.order \in Received => order[p] \in Received
        /\ a.order \in {"partial", "refunded"} => a.refund > 0
        /\ a.refund <= returned[p]
    BY <1>1 DEF MoneyInv, OrdersReal, Types, GatewayTypeOK
  <2> HIDE DEF a
  <2>5. ASSUME NEW g \in Handlers, pc'[g] = "apply"
        PROVE  /\ answer'[g].order \in Received => order'[job'[g]] \in Received
               /\ answer'[g].order \in {"partial", "refunded"} => answer'[g].refund > 0
               /\ answer'[g].refund <= returned'[job'[g]]
    <3>1. CASE g = h
      BY <1>2, <2>3, <2>4, <3>1
    <3>2. CASE g # h
      BY <1>2, <2>3, <2>5, <3>2 DEF Alone, MoneyInv, AnswersReal
    <3> QED BY <3>1, <3>2
  <2>6. AnswersReal'
    BY <2>5 DEF AnswersReal
  <2> QED BY <1>2, <2>6, MoneyRests
<1>4. CASE order[p] = "none"
  <2>1. Alone(h) /\ pc'[h] # "apply"
    BY <1>1, <1>4, MoveEffect, EndEffect DEF GatewayAnswers, Stages
  <2>2. AnswersReal'
    BY <1>2, <2>1, AnswersStay, OrdersRest DEF MoneyInv, Unread, Alone
  <2> QED BY <1>2, <2>2, MoneyRests
<1> QED BY <1>3, <1>4

\* A checkout that is opened or saved touches a status that tells of no money, or none.
Unpaid == {"ABSENT", "CREATING", "GATEWAY_ERROR", "PENDING"}

StatusWaits ==
    /\ UNCHANGED <<paid, refunded, order, returned, totals, events>>
    /\ \A p \in Payments : \/ status'[p] = status[p]
                           \/ status[p] \in {"ABSENT", "CREATING", "GATEWAY_ERROR"}
                              /\ status'[p] \in Unpaid

LEMMA WaitingMoney ==
    ASSUME MoneyInv, Types', AnswersReal', StatusWaits
    PROVE  MoneyInv'
<1>1. StatusTellsMoney'
  <2> SUFFICES ASSUME NEW p \in Payments
               PROVE  /\ status'[p] = "PAID" <=> paid[p] > 0 /\ refunded[p] = 0
                      /\ status'[p] = "PARTIALLY_REFUNDED" <=> refunded[p] > 0 /\ refunded[p] < paid[p]
                      /\ status'[p] = "REFUNDED" <=> refunded[p] > 0 /\ refunded[p] = paid[p]
    BY DEF StatusTellsMoney, StatusWaits
  <2>1. paid[p] \in Nat /\ refunded[p] \in Nat /\ refunded[p] <= paid[p]
    BY DEF MoneyInv, Types, PaymentTypeOK, Credited
  <2> QED BY <2>1 DEF MoneyInv, StatusTellsMoney, StatusWaits, Unpaid
<1> QED BY <1>1 DEF MoneyInv, OrdersReal, Credited, CreditedIsReal, StatusWaits, EventsTell, totals,
                   events

LEMMA SavingMoney ==
    ASSUME MoneyInv, Types', NEW h \in Handlers,
           \/ \E p \in Payments : Donate(h, p)
           \/ SaveCheckout(h) \/ SaveErrs(h) \/ SaveRetry(h) \/ KeepIntent(h)
    PROVE  MoneyInv'
<1>1. HandlerTypeOK /\ status \in [Payments -> Statuses]
  BY DEF MoneyInv, Types, PaymentTypeOK
<1>2. Alone(h) /\ pc'[h] # "apply"
  <2>1. ASSUME NEW p \in Payments, Donate(h, p) PROVE Alone(h) /\ pc'[h] # "apply"
    BY <1>1, <2>1, BeginEffect DEF Donate, Kinds, Stages
  <2>2. CASE SaveCheckout(h) \/ SaveErrs(h) \/ SaveRetry(h) \/ KeepIntent(h)
    BY <1>1, <2>2, MoveEffect, EndEffect DEF SaveCheckout, SaveErrs, SaveRetry, KeepIntent, Stages
  <2> QED BY <2>1, <2>2
<1>3. StatusWaits
  <2>1. UNCHANGED <<paid, refunded, order, returned, totals, events>>
    BY DEF Donate, SaveCheckout, SaveErrs, SaveRetry, KeepIntent, money, gatewayVars
  <2>2. \/ UNCHANGED status
        \/ \E p \in Payments, s \in Unpaid :
               /\ status[p] \in {"ABSENT", "CREATING", "GATEWAY_ERROR"}
               /\ status' = [status EXCEPT ![p] = s]
    <3>1. ASSUME NEW p \in Payments, Donate(h, p)
          PROVE  status[p] = "ABSENT" /\ status' = [status EXCEPT ![p] = "CREATING"]
      BY <3>1 DEF Donate
    <3>2. CASE SaveCheckout(h) \/ SaveErrs(h) \/ SaveRetry(h) \/ KeepIntent(h)
      <4>1. job[h] \in Payments
        BY <3>2 DEF MoneyInv, Types, AtWork, SaveCheckout, SaveErrs, SaveRetry, KeepIntent
      <4>2. \/ UNCHANGED status
            \/ /\ status[job[h]] \in {"CREATING", "GATEWAY_ERROR"}
               /\ \/ status' = [status EXCEPT ![job[h]] = "PENDING"]
                  \/ status' = [status EXCEPT ![job[h]] = "GATEWAY_ERROR"]
        BY <1>1, <3>2, <4>1 DEF SaveCheckout, SaveErrs, SaveRetry, KeepIntent, StoreCheckout
      <4> QED BY <4>1, <4>2 DEF Unpaid
    <3> QED BY <3>1, <3>2 DEF Unpaid
  <2> QED BY <1>1, <2>1, <2>2 DEF StatusWaits
<1>4. AnswersReal'
  BY <1>2, <1>3, AnswersStay, OrdersRest DEF MoneyInv, StatusWaits, Unread, Alone
<1> QED BY <1>3, <1>4, WaitingMoney

LEMMA GatewayMoney ==
    ASSUME MoneyInv, Types', NEW p \in Payments,
           DonorPays(p) \/ Challenge(p) \/ Deny(p) \/ Settle(p) \/ Return(p)
    PROVE  MoneyInv'
<1>1. /\ order \in [Payments -> Orders] /\ returned \in [Payments -> Nat]
      /\ Amount[p] \in Nat /\ returned[p] \in Nat
  BY DEF MoneyInv, Types, GatewayTypeOK
<1>2. UNCHANGED <<status, paid, refunded, totals, events>> /\ Unread
  BY DEF DonorPays, Challenge, Deny, Settle, Return, GatewayMoves, money, handlerVars, Unread
<1>3. OrdersAdvance /\ OrdersReal'
  <2>1. CASE Return(p)
    <3>1. PICK sum \in (returned[p] + 1)..Amount[p] :
             /\ GatewayMoves(p, {"paid", "partial"}, IF sum = Amount[p] THEN "refunded" ELSE "partial")
             /\ returned' = [returned EXCEPT ![p] = sum]
      BY <2>1 DEF Return
    <3> QED BY <1>1, <3>1 DEF GatewayMoves, OrdersAdvance, OrdersReal, MoneyInv, Received
  <2>2. CASE DonorPays(p) \/ Challenge(p) \/ Deny(p) \/ Settle(p)
    BY <1>1, <2>2 DEF DonorPays, Challenge, Deny, Settle, GatewayMoves, OrdersAdvance, OrdersReal, MoneyInv,
                      Received
  <2> QED BY <2>1, <2>2
<1>4. AnswersReal'
  BY <1>2, <1>3, AnswersStay DEF MoneyInv
<1>5. Credited'
  <2> SUFFICES ASSUME NEW q \in Payments
               PROVE  /\ paid[q] > 0 => order'[q] \in Received /\ paid[q] = Amount[q]
                      /\ refunded[q] <= returned'[q] /\ refunded[q] <= paid[q]
    BY <1>2 DEF Credited, CreditedIsReal
  <2>1. refunded[q] \in Nat /\ returned[q] \in Nat /\ returned'[q] \in Nat
    BY DEF MoneyInv, Types, PaymentTypeOK, GatewayTypeOK
  <2> QED BY <1>3, <2>1 DEF MoneyInv, Credited, CreditedIsReal, OrdersAdvance
<1> QED BY <1>2, <1>3, <1>4, <1>5 DEF MoneyInv, StatusTellsMoney, EventsTell, totals, events

(***************************************************************************)
(* An answer is applied.                                                   *)
(***************************************************************************)
\* What an answer makes of a payment is the gateway's, and takes nothing back.
LEMMA AppliedIsReal ==
    ASSUME MoneyInv, NEW h \in Handlers, pc[h] = "apply"
    PROVE  LET p == job[h]
               a == answer[h]
           IN  /\ PaidBy(a, p) \in {0, Amount[p]} /\ paid[p] <= PaidBy(a, p)
               /\ PaidBy(a, p) > 0 => order[p] \in Received
               /\ RefundedBy(a, p) \in Nat /\ refunded[p] <= RefundedBy(a, p)
               /\ RefundedBy(a, p) <= returned[p] /\ RefundedBy(a, p) <= PaidBy(a, p)
<1> DEFINE p == job[h]
           a == answer[h]
<1>1. /\ p \in Payments /\ a \in Answers /\ Amount[p] \in Nat /\ paid[p] \in Nat /\ refunded[p] \in Nat
      /\ returned[p] \in Nat
  BY DEF MoneyInv, Types, AtWork, HandlerTypeOK, PaymentTypeOK, GatewayTypeOK
<1>2. /\ returned[p] <= Amount[p]
      /\ paid[p] > 0 => order[p] \in Received /\ paid[p] = Amount[p]
      /\ refunded[p] <= returned[p] /\ refunded[p] <= paid[p]
  BY <1>1 DEF MoneyInv, OrdersReal, Credited, CreditedIsReal
<1>3. /\ a.order \in Received => order[p] \in Received
      /\ a.refund <= returned[p] /\ a.refund \in Nat
  BY <1>1 DEF MoneyInv, AnswersReal, Answers
<1> HIDE DEF p, a
<1>4. PaidBy(a, p) \in {0, Amount[p]} /\ paid[p] <= PaidBy(a, p) /\ (PaidBy(a, p) > 0 => order[p] \in Received)
  BY <1>1, <1>2, <1>3 DEF PaidBy
<1>5. /\ RefundedBy(a, p) \in Nat /\ refunded[p] <= RefundedBy(a, p) /\ RefundedBy(a, p) <= returned[p]
      /\ RefundedBy(a, p) <= PaidBy(a, p)
  BY <1>1, <1>2, <1>3 DEF RefundedBy, PaidBy, Bigger, Received
<1> QED BY <1>4, <1>5 DEF p, a

LEMMA ApplyMoney ==
    ASSUME MoneyInv, Types', NEW h \in Handlers, Apply(h)
    PROVE  MoneyInv'
<1> DEFINE p == job[h]
           a == answer[h]
<1>1. /\ p \in Payments /\ a \in Answers /\ Amount[p] \in Nat \ {0} /\ HandlerTypeOK /\ pc[h] = "apply"
      /\ paid[p] \in Nat /\ refunded[p] \in Nat
  BY DEF MoneyInv, Types, AtWork, HandlerTypeOK, Apply, PaymentTypeOK
<1>2. UNCHANGED <<order, returned>> /\ Unread
  <2>1. Alone(h) /\ pc'[h] # "apply"
    BY <1>1, LeaveEffect DEF Apply
  <2> QED BY <2>1 DEF Apply, gatewayVars, Unread, Alone
<1>3. AnswersReal'
  BY <1>2, AnswersStay, OrdersRest DEF MoneyInv
<1>4. CASE ~Verified(a)
  BY <1>2, <1>3, <1>4, MoneyRests DEF Apply, money
<1>5. CASE Verified(a)
  <2>1. /\ PaidBy(a, p) \in {0, Amount[p]} /\ (PaidBy(a, p) > 0 => order[p] \in Received)
        /\ RefundedBy(a, p) \in Nat /\ RefundedBy(a, p) <= returned[p] /\ RefundedBy(a, p) <= PaidBy(a, p)
    BY <1>1, AppliedIsReal
  <2>2. /\ paid' = [paid EXCEPT ![p] = PaidBy(a, p)]
        /\ refunded' = [refunded EXCEPT ![p] = RefundedBy(a, p)]
        /\ status' = [status EXCEPT ![p] = StatusBy(a, p)]
        /\ Credit(a, p)
    BY <1>5 DEF Apply
  <2>3. EventsTell'
    <3>1. evidence \in [Payments -> Events] /\ paid \in [Payments -> Nat] /\ refunded \in [Payments -> Nat]
      BY DEF MoneyInv, Types, PaymentTypeOK
    <3>2. snapshot' = [collected |-> collected', donors |-> donors']
      BY <2>2 DEF Credit, MoneyInv, EventsTell, totals, events
    <3>3. ASSUME NEW q \in Payments
          PROVE  evidence'[q].paid = paid'[q] /\ evidence'[q].refunded = refunded'[q]
      <4>1. CASE PaidBy(a, p) = paid[p] /\ RefundedBy(a, p) = refunded[p]
        <5>1. UNCHANGED evidence
          BY <2>2, <4>1 DEF Credit, events
        <5> QED BY <1>1, <2>2, <3>1, <4>1, <5>1 DEF MoneyInv, EventsTell
      <4>2. CASE ~(PaidBy(a, p) = paid[p] /\ RefundedBy(a, p) = refunded[p])
        <5> DEFINE e == [kind |-> IF RefundedBy(a, p) > refunded[p] THEN "REFUND" ELSE "PAYMENT",
                         paid |-> PaidBy(a, p), refunded |-> RefundedBy(a, p)]
        <5>1. evidence' = [evidence EXCEPT ![p] = e]
          BY <2>2, <4>2 DEF Credit
        <5> QED BY <1>1, <2>2, <3>1, <5>1 DEF MoneyInv, EventsTell
      <4> QED BY <4>1, <4>2
    <3> QED BY <3>2, <3>3 DEF EventsTell
  <2> HIDE DEF p, a
  <2>4. Credited'
    BY <1>1, <1>2, <2>1, <2>2 DEF MoneyInv, Types, PaymentTypeOK, Credited, CreditedIsReal
  <2>5. StatusTellsMoney'
    <3>1. /\ StatusBy(a, p) = "PAID" <=> PaidBy(a, p) > 0 /\ RefundedBy(a, p) = 0
          /\ StatusBy(a, p) = "PARTIALLY_REFUNDED" <=> RefundedBy(a, p) > 0 /\ RefundedBy(a, p) < PaidBy(a, p)
          /\ StatusBy(a, p) = "REFUNDED" <=> RefundedBy(a, p) > 0 /\ RefundedBy(a, p) = PaidBy(a, p)
      BY <1>1, <2>1 DEF StatusBy
    <3> QED BY <1>1, <2>2, <3>1 DEF MoneyInv, Types, PaymentTypeOK, StatusTellsMoney
  <2>6. OrdersReal'
    BY <1>2 DEF MoneyInv, OrdersReal
  <2> QED BY <1>3, <2>3, <2>4, <2>5, <2>6 DEF MoneyInv
<1> QED BY <1>4, <1>5

LEMMA MoneyInit == Init => MoneyInv
<1> SUFFICES ASSUME Init PROVE MoneyInv
  OBVIOUS
<1>1. Types
  BY InitTypes
<1>2. EventsTell
  BY DEF Init, EventsTell, NoEvent, NoTotals
<1>3. OrdersReal /\ AnswersReal /\ Credited /\ StatusTellsMoney
  BY DEF Init, OrdersReal, AnswersReal, Credited, CreditedIsReal, StatusTellsMoney
<1> QED BY <1>1, <1>2, <1>3 DEF MoneyInv

LEMMA MoneyStep == MoneyInv /\ [Next]_vars => MoneyInv'
<1> SUFFICES ASSUME MoneyInv, [Next]_vars PROVE MoneyInv'
  OBVIOUS
<1>1. Types'
  BY TypesStep DEF MoneyInv
<1>2. CASE UNCHANGED vars
  <2>1. UNCHANGED <<status, paid, refunded, order, returned, totals, events>> /\ Unread
    BY <1>2 DEF vars, money, handlerVars, gatewayVars, Unread
  <2>2. AnswersReal'
    BY <1>1, <2>1, AnswersStay, OrdersRest DEF MoneyInv
  <2> QED BY <1>1, <2>1, <2>2, MoneyRests
<1>3. ASSUME NEW h \in Handlers,
             HandlerStep(h) \/ CreateFails(h) \/ SaveErrs(h) \/ Abort(h) \/ Crash(h)
      PROVE  MoneyInv'
  BY <1>1, <1>3, QuietMoney, AnswerMoney, SavingMoney, ApplyMoney DEF HandlerStep
<1>4. ASSUME NEW h \in Handlers, NEW p \in Payments, Donate(h, p) \/ Poll(h, p) \/ BeginRetry(h, p)
      PROVE  MoneyInv'
  BY <1>1, <1>4, QuietMoney, SavingMoney
<1> QED BY <1>1, <1>2, <1>3, <1>4, CampaignMoney, GatewayMoney DEF Next

LEMMA MoneyAlways == Spec => []MoneyInv
  BY MoneyInit, MoneyStep, PTL DEF Spec

(***************************************************************************)
(* The totals.  An answer moves the net amount of its payment alone, and   *)
(* Credit moves the totals by as much: the rest of the sum is the same.    *)
(***************************************************************************)
Nets == [p \in Payments |-> Net(p)]

LEMMA NetsAreNatural ==
    ASSUME MoneyInv
    PROVE  \A p \in Payments : Net(p) \in Nat
  BY DEF MoneyInv, Types, PaymentTypeOK, Credited, Net

LEMMA TotalsInit == Init => TotalsAreNet
<1> SUFFICES ASSUME Init PROVE TotalsAreNet
  OBVIOUS
<1>1. \A p \in Payments : Net(p) = 0 /\ Nets[p] = 0
  BY DEF Init, Net, Nets
<1>2. Units(Nets, Payments) = {} /\ {p \in Payments : Net(p) > 0} = {}
  BY <1>1 DEF Units
<1>3. SumFunctionOnSet(Nets, Payments) = Cardinality(Units(Nets, Payments))
  BY <1>1, SumCounts
<1>4. SumFunctionOnSet(Nets, Payments) = 0 /\ Cardinality({p \in Payments : Net(p) > 0}) = 0
  BY <1>2, <1>3, FS_EmptySet
<1> QED BY <1>4 DEF TotalsAreNet, SumFunction, Nets, Init

\* The number of members of a set and that of the rest of it.
LEMMA CountWithout ==
    ASSUME NEW S, IsFiniteSet(S), NEW x
    PROVE  /\ Cardinality(S) = Cardinality(S \ {x}) + (IF x \in S THEN 1 ELSE 0)
           /\ Cardinality(S \ {x}) \in Nat
<1>1. Cardinality(S) \in Nat /\ IsFiniteSet(S \ {x}) /\ Cardinality(S \ {x}) \in Nat
  BY FS_CardinalityType, FS_RemoveElement, FS_Subset
<1>2. CASE x \in S
  BY <1>1, <1>2, FS_RemoveElement
<1>3. CASE x \notin S
  <2>1. S \ {x} = S
    BY <1>3
  <2> QED BY <1>1, <1>3, <2>1
<1> QED BY <1>2, <1>3

\* How the totals of any net amounts depend on that of p, and on the others.
LEMMA TotalsApart ==
    ASSUME NEW f \in [Payments -> Nat], NEW p \in Payments
    PROVE  /\ SumFunction(f) = f[p] + SumFunctionOnSet(f, Payments \ {p})
           /\ Cardinality({q \in Payments : f[q] > 0})
                = Cardinality({q \in Payments \ {p} : f[q] > 0}) + (IF f[p] > 0 THEN 1 ELSE 0)
           /\ SumFunctionOnSet(f, Payments \ {p}) \in Nat
           /\ Cardinality({q \in Payments \ {p} : f[q] > 0}) \in Nat
<1> DEFINE some == {q \in Payments : f[q] > 0}
<1>1. SumFunction(f) = SumFunctionOnSet(f, Payments)
  BY DEF SumFunction
<1>2. /\ SumFunctionOnSet(f, Payments) = f[p] + SumFunctionOnSet(f, Payments \ {p})
      /\ SumFunctionOnSet(f, Payments \ {p}) \in Nat
  BY SumWithout
<1>3. IsFiniteSet(some)
  BY FS_Subset
<1>4. some \ {p} = {q \in Payments \ {p} : f[q] > 0} /\ (p \in some <=> f[p] > 0)
  OBVIOUS
<1>5. /\ Cardinality(some) = Cardinality(some \ {p}) + (IF p \in some THEN 1 ELSE 0)
      /\ Cardinality(some \ {p}) \in Nat
  BY <1>3, CountWithout
<1> QED BY <1>1, <1>2, <1>4, <1>5

\* Applying an answer moves the totals by what it moves the net amount of p.
LEMMA CreditMoves ==
    ASSUME Types, NEW h \in Handlers, NEW p \in Payments, p = job[h], Apply(h),
           collected \in Int, donors \in Int
    PROVE  /\ \A q \in Payments \ {p} : Net(q)' = Net(q)
           /\ collected' = (collected + Net(p)') - Net(p)
           /\ donors' = (donors + (IF Net(p)' > 0 THEN 1 ELSE 0)) - (IF Net(p) > 0 THEN 1 ELSE 0)
<1> DEFINE a == answer[h]
<1>1. PaymentTypeOK /\ Net(p) \in Int
  BY DEF Types, PaymentTypeOK, Net
<1>2. CASE ~Verified(a)
  <2>1. UNCHANGED <<paid, refunded, collected, donors>>
    BY <1>2 DEF Apply, totals, money
  <2> QED BY <1>1, <2>1 DEF Net
<1>3. CASE Verified(a)
  <2>1. /\ paid' = [paid EXCEPT ![p] = PaidBy(a, p)]
        /\ refunded' = [refunded EXCEPT ![p] = RefundedBy(a, p)]
    BY <1>3 DEF Apply
  <2>2. \A q \in Payments \ {p} : Net(q)' = Net(q)
    BY <1>1, <2>1 DEF PaymentTypeOK, Net
  <2>3. paid'[p] = PaidBy(a, p) /\ refunded'[p] = RefundedBy(a, p)
    BY <1>1, <2>1 DEF PaymentTypeOK
  <2>4. CASE paid'[p] = paid[p] /\ refunded'[p] = refunded[p]
    <3>1. Net(p)' = Net(p)
      BY <2>4 DEF Net
    <3>2. collected' = collected /\ donors' = donors
      BY <1>3, <2>3, <2>4 DEF Apply, Credit, totals
    <3> QED BY <1>1, <2>2, <3>1, <3>2
  <2>5. CASE paid'[p] # paid[p] \/ refunded'[p] # refunded[p]
    <3>1. Net(p)' = PaidBy(a, p) - RefundedBy(a, p)
      BY <2>3 DEF Net
    <3>2. /\ collected' = (collected + (PaidBy(a, p) - RefundedBy(a, p))) - Net(p)
          /\ donors' = (donors + (IF PaidBy(a, p) - RefundedBy(a, p) > 0 THEN 1 ELSE 0))
                         - (IF Net(p) > 0 THEN 1 ELSE 0)
      BY <1>3, <2>3, <2>5 DEF Apply, Credit
    <3> QED BY <2>2, <3>1, <3>2
  <2> QED BY <2>4, <2>5
<1> QED BY <1>2, <1>3

LEMMA TotalsOfNets ==
    TotalsAreNet <=> /\ collected = SumFunction(Nets)
                     /\ donors = Cardinality({q \in Payments : Nets[q] > 0})
<1>1. {q \in Payments : Nets[q] > 0} = {q \in Payments : Net(q) > 0}
  BY DEF Nets
<1> QED BY <1>1 DEF TotalsAreNet, Nets

LEMMA TotalsApply ==
    ASSUME MoneyInv, MoneyInv', TotalsAreNet, NEW h \in Handlers, Apply(h)
    PROVE  TotalsAreNet'
<1> DEFINE rest(f, p) == SumFunctionOnSet(f, Payments \ {p})
           others(f, p) == Cardinality({q \in Payments \ {p} : f[q] > 0})
           some(f) == Cardinality({q \in Payments : f[q] > 0})
<1>1. PICK p \in Payments : p = job[h]
  BY DEF MoneyInv, Types, AtWork, Apply
<1>2. Nets \in [Payments -> Nat] /\ Nets[p] = Net(p)
  BY NetsAreNatural DEF Nets
<1>3. Nets' \in [Payments -> Nat] /\ Nets'[p] = Net(p)'
  BY DEF MoneyInv, Types, PaymentTypeOK, Credited, Nets, Net
<1>4. /\ SumFunction(Nets) = Nets[p] + rest(Nets, p)
      /\ some(Nets) = others(Nets, p) + (IF Nets[p] > 0 THEN 1 ELSE 0)
      /\ rest(Nets, p) \in Nat /\ others(Nets, p) \in Nat
  BY <1>2, TotalsApart
<1>5. /\ SumFunction(Nets') = Nets'[p] + rest(Nets', p)
      /\ some(Nets') = others(Nets', p) + (IF Nets'[p] > 0 THEN 1 ELSE 0)
  BY <1>3, TotalsApart
<1>6. collected = SumFunction(Nets) /\ donors = some(Nets)
  BY TotalsOfNets
<1>7. collected \in Int /\ donors \in Int
  <2> HIDE DEF rest, others, some
  <2> QED BY <1>2, <1>4, <1>6
<1>8. /\ \A q \in Payments \ {p} : Net(q)' = Net(q)
      /\ collected' = (collected + Net(p)') - Net(p)
      /\ donors' = (donors + (IF Net(p)' > 0 THEN 1 ELSE 0)) - (IF Net(p) > 0 THEN 1 ELSE 0)
  BY <1>1, <1>7, CreditMoves DEF MoneyInv
<1>9. rest(Nets', p) = rest(Nets, p) /\ others(Nets', p) = others(Nets, p)
  <2>1. \A q \in Payments \ {p} : Nets[q] \in Nat /\ Nets[q] = Nets'[q]
    BY <1>2, <1>8 DEF Nets
  <2>2. IsFiniteSet(Payments \ {p})
    BY FS_RemoveElement
  <2>3. SumFunctionOnSet(Nets, Payments \ {p}) = SumFunctionOnSet(Nets', Payments \ {p})
    BY <2>1, <2>2, SumSame
  <2>4. {q \in Payments \ {p} : Nets'[q] > 0} = {q \in Payments \ {p} : Nets[q] > 0}
    BY <2>1
  <2> QED BY <2>3, <2>4
<1>10. collected' = SumFunction(Nets') /\ donors' = some(Nets')
  <2> HIDE DEF rest, others, some
  <2> QED BY <1>2, <1>3, <1>4, <1>5, <1>6, <1>8, <1>9
<1>11. {q \in Payments : Nets'[q] > 0} = {q \in Payments : Net(q)' > 0}
  BY DEF Nets
<1> QED BY <1>10, <1>11 DEF TotalsAreNet, Nets

LEMMA TotalsNetStep == MoneyInv /\ TotalsAreNet /\ [Next]_vars => TotalsAreNet'
<1> SUFFICES ASSUME MoneyInv, TotalsAreNet, [Next]_vars PROVE TotalsAreNet'
  OBVIOUS
<1>1. MoneyInv'
  BY MoneyStep
<1>2. UNCHANGED <<totals, money>> \/ \E h \in Handlers : Apply(h)
  BY DEF Next, Shut, Republish, Tick, Donate, Poll, BeginRetry, HandlerStep, CreateCheckout,
         SaveCheckout, KeepIntent, GatewayAnswers, Decide, SaveRetry, Release, CreateFails, SaveErrs,
         Abort, Crash, DonorPays, Challenge, Deny, Settle, Return, GatewayMoves, vars
<1>3. CASE UNCHANGED <<totals, money>>
  BY <1>3 DEF TotalsAreNet, Net, totals, money
<1> QED BY <1>1, <1>2, <1>3, TotalsApply

\* Smaller terms have a smaller sum.
LEMMA SumAtMost ==
    ASSUME NEW f, NEW g, NEW S, IsFiniteSet(S),
           \A x \in S : f[x] \in Nat /\ g[x] \in Nat /\ f[x] <= g[x]
    PROVE  0 <= SumFunctionOnSet(f, S) /\ SumFunctionOnSet(f, S) <= SumFunctionOnSet(g, S)
<1>1. Units(f, S) \subseteq Units(g, S)
  BY DEF Units
<1>2. IsFiniteSet(Units(g, S)) /\ Cardinality(Units(f, S)) \in Nat
  BY UnitsFinite
<1>3. Cardinality(Units(f, S)) <= Cardinality(Units(g, S))
  BY <1>1, <1>2, FS_Subset
<1>4. /\ SumFunctionOnSet(f, S) = Cardinality(Units(f, S))
      /\ SumFunctionOnSet(g, S) = Cardinality(Units(g, S))
  BY SumCounts
<1> QED BY <1>2, <1>3, <1>4

\* What the gateway took for the orders of the campaign.
Taken == SumFunction([p \in Payments |-> IF order[p] \in Received THEN Amount[p] ELSE 0])

LEMMA TotalsAreTaken ==
    ASSUME MoneyInv, TotalsAreNet
    PROVE  0 <= collected /\ collected <= Taken
<1> DEFINE took == [p \in Payments |-> IF order[p] \in Received THEN Amount[p] ELSE 0]
<1>1. ASSUME NEW p \in Payments
      PROVE  Nets[p] \in Nat /\ took[p] \in Nat /\ Nets[p] <= took[p]
  <2>1. /\ paid[p] \in Nat /\ refunded[p] \in Nat /\ refunded[p] <= paid[p]
        /\ paid[p] > 0 => order[p] \in Received /\ paid[p] = Amount[p]
    BY DEF MoneyInv, Types, PaymentTypeOK, Credited, CreditedIsReal
  <2>2. Nets[p] = paid[p] - refunded[p]
    BY DEF Nets, Net
  <2> QED BY <2>1, <2>2
<1>2. /\ 0 <= SumFunctionOnSet(Nets, Payments)
      /\ SumFunctionOnSet(Nets, Payments) <= SumFunctionOnSet(took, Payments)
  BY <1>1, SumAtMost
<1>3. collected = SumFunctionOnSet(Nets, Payments)
  BY TotalsOfNets DEF SumFunction, Nets
<1>4. Taken = SumFunctionOnSet(took, Payments)
  BY DEF Taken, SumFunction
<1> QED BY <1>2, <1>3, <1>4

\* No step takes money back, or returns a failed payment to waiting.
Advances ==
    \A p \in Payments :
        /\ paid'[p] >= paid[p] /\ refunded'[p] >= refunded[p]
        /\ status[p] = "FAILED" => status'[p] \notin {"CREATING", "GATEWAY_ERROR", "PENDING"}

LEMMA AdvanceStep == MoneyInv /\ [Next]_vars => Advances
<1> SUFFICES ASSUME MoneyInv, [Next]_vars PROVE Advances
  OBVIOUS
<1>1. paid \in [Payments -> Nat] /\ refunded \in [Payments -> Nat] /\ status \in [Payments -> Statuses]
  BY DEF MoneyInv, Types, PaymentTypeOK
<1>2. CASE UNCHANGED <<status, paid, refunded>>
  BY <1>1, <1>2 DEF Advances
<1>3. ASSUME NEW h \in Handlers, NEW p \in Payments, Donate(h, p) \/ Poll(h, p) \/ BeginRetry(h, p)
      PROVE  Advances
  BY <1>1, <1>3 DEF Donate, Poll, BeginRetry, money, Advances
<1>4. ASSUME NEW h \in Handlers, SaveCheckout(h) \/ SaveErrs(h) \/ SaveRetry(h) \/ KeepIntent(h)
      PROVE  Advances
  BY <1>1, <1>4 DEF SaveCheckout, SaveErrs, SaveRetry, KeepIntent, StoreCheckout, money, Advances
<1>5. ASSUME NEW h \in Handlers, Apply(h)
      PROVE  Advances
  <2> DEFINE p == job[h]
             a == answer[h]
  <2>1. /\ p \in Payments /\ PaidBy(a, p) \in {0, Amount[p]} /\ Amount[p] \in Nat
        /\ paid[p] <= PaidBy(a, p) /\ RefundedBy(a, p) \in Nat /\ refunded[p] <= RefundedBy(a, p)
    BY <1>5, AppliedIsReal DEF MoneyInv, Types, AtWork, Apply
  <2>2. \/ /\ paid' = [paid EXCEPT ![p] = PaidBy(a, p)]
           /\ refunded' = [refunded EXCEPT ![p] = RefundedBy(a, p)]
           /\ status' = [status EXCEPT ![p] = StatusBy(a, p)]
        \/ UNCHANGED <<status, paid, refunded>>
    BY <1>5 DEF Apply, money
  <2> HIDE DEF p, a
  <2>3. status[p] = "FAILED" => StatusBy(a, p) \notin {"CREATING", "GATEWAY_ERROR", "PENDING"}
    BY DEF StatusBy
  <2> QED BY <1>1, <2>1, <2>2, <2>3 DEF Advances
<1>6. ASSUME NEW h \in Handlers, \/ CreateCheckout(h) \/ CreateFails(h) \/ GatewayAnswers(h) \/ Decide(h)
                                \/ Release(h) \/ Abort(h) \/ Crash(h)
      PROVE  Advances
  BY <1>2, <1>6 DEF CreateCheckout, CreateFails, GatewayAnswers, Decide, Release, Abort, Crash, money
<1>7. ASSUME NEW p \in Payments, DonorPays(p) \/ Challenge(p) \/ Deny(p) \/ Settle(p) \/ Return(p)
      PROVE  Advances
  BY <1>2, <1>7 DEF DonorPays, Challenge, Deny, Settle, Return, GatewayMoves, money
<1>8. CASE Shut \/ Republish \/ Tick \/ UNCHANGED vars
  BY <1>2, <1>8 DEF Shut, Republish, Tick, vars, money
<1> QED BY <1>3, <1>4, <1>5, <1>6, <1>7, <1>8 DEF Next, HandlerStep

(***************************************************************************)
(* Checkouts.  A donation is opened by one request alone; a recovery holds *)
(* the lease, which cannot run out on it, from its first step to its last. *)
(***************************************************************************)
\* The stages at which a checkout is asked for or about to be saved.
Opening == {"create", "save", "recreate", "resave"}

InStage(h) ==
    /\ kind[h] = "none" <=> pc[h] = "idle"
    /\ kind[h] = "donate" <=> pc[h] \in {"create", "save", "fail"}
    /\ pc[h] \in {"decide", "recreate", "resave", "release"} => kind[h] = "retry"
    /\ pc[h] = "idle" => age[h] = 0

Leased(h) == Retrying(h) => /\ leaseOwner[job[h]] = h
                            /\ leaseLeft[job[h]] + age[h] = LeaseTicks

\* Only a donation whose response was sent can be retried.
Introduced(h) == /\ kind[h] = "retry" => job[h] \in known
                 /\ kind[h] = "donate" => job[h] \notin known

Unsaved(h) == pc[h] \in Opening => token[job[h]] = 0

Sound(h) == InStage(h) /\ Leased(h) /\ Introduced(h) /\ Unsaved(h)

OneDonor == \A g, h \in Handlers : kind[g] = "donate" /\ kind[h] = "donate" /\ job[g] = job[h] => g = h

Fresh == \A p \in Payments : status[p] = "ABSENT" => token[p] = 0 /\ p \notin known

CheckoutInv == Types /\ OneDonor /\ Fresh /\ \A h \in Handlers : Sound(h)

\* What a step of h must leave to the others.
Spares(h) ==
    /\ known \subseteq known'
    /\ \A g \in Handlers \ {h} :
           /\ Retrying(g) => /\ leaseOwner'[job[g]] = leaseOwner[job[g]]
                             /\ leaseLeft'[job[g]] = leaseLeft[job[g]]
           /\ pc[g] \in Opening => token'[job[g]] = token[job[g]]
           /\ kind[g] = "donate" => (job[g] \in known' => job[g] \in known)

LEMMA OthersStay ==
    ASSUME CheckoutInv, Types', NEW h \in Handlers, Alone(h), Spares(h),
           Sound(h)', Fresh',
           kind'[h] = "donate" => /\ kind[h] = "donate" /\ job'[h] = job[h]
                                  \/ \A g \in Handlers \ {h} : kind[g] # "donate" \/ job[g] # job'[h]
    PROVE  CheckoutInv'
<1>1. ASSUME NEW g \in Handlers, g # h PROVE Sound(g)'
  <2> USE DEF CheckoutInv, Sound
  <2>1. InStage(g)' /\ Unsaved(g)' /\ Introduced(g)'
    BY <1>1 DEF Alone, InStage, Unsaved, Introduced, Spares
  <2>2. Leased(g)'
    BY <1>1 DEF Alone, Leased, Retrying, Spares
  <2> QED BY <2>1, <2>2
<1>2. OneDonor'
  BY DEF CheckoutInv, OneDonor, Alone
<1> QED BY <1>1, <1>2 DEF CheckoutInv

\* What two requests at one payment are to each other.
LEMMA Apart ==
    ASSUME CheckoutInv, NEW g \in Handlers, NEW h \in Handlers, g # h, job[g] = job[h]
    PROVE  /\ kind[h] = "donate" => kind[g] \notin {"donate", "retry"}
           /\ Retrying(h) => ~Retrying(g) /\ kind[g] # "donate"
  BY DEF CheckoutInv, OneDonor, Sound, Introduced, Leased, Retrying

LEMMA FreshStays ==
    ASSUME CheckoutInv, Types',
           \A p \in Payments : status'[p] = "ABSENT" =>
               status[p] = "ABSENT" /\ token'[p] = token[p] /\ (p \in known' => p \in known)
    PROVE  Fresh'
  BY DEF CheckoutInv, Fresh

\* The steps of a request that leave leases, checkouts and acquaintances alone.
LEMMA QuietCheckout ==
    ASSUME CheckoutInv, Types', NEW h \in Handlers,
           \/ \E p \in Payments : Poll(h, p)
           \/ CreateCheckout(h) \/ CreateFails(h) \/ GatewayAnswers(h) \/ Decide(h) \/ Apply(h) \/ Abort(h)
    PROVE  CheckoutInv'
<1>1. HandlerTypeOK /\ Sound(h) /\ status \in [Payments -> Statuses]
  BY DEF CheckoutInv, Types, PaymentTypeOK
<1>2. UNCHANGED <<token, leases, known>>
  BY DEF Poll, CreateCheckout, CreateFails, GatewayAnswers, Decide, Apply, Abort
<1>3. Alone(h) /\ Sound(h)' /\ (kind'[h] = "donate" => kind[h] = "donate" /\ job'[h] = job[h])
  <2> USE DEF Sound, InStage, Leased, Introduced, Unsaved, Retrying, Opening
  <2>1. ASSUME NEW p \in Payments, Poll(h, p)
        PROVE  Alone(h) /\ Sound(h)' /\ (kind'[h] = "donate" => kind[h] = "donate" /\ job'[h] = job[h])
    <3>1. Alone(h) /\ pc[h] = "idle" /\ pc'[h] = "status" /\ kind'[h] = "poll"
      BY <1>1, <2>1, BeginEffect DEF Poll, Kinds, Stages
    <3> QED BY <1>1, <3>1
  <2>2. CASE CreateCheckout(h)
    <3>1. /\ Alone(h) /\ pc[h] \in {"create", "recreate"}
          /\ pc'[h] = IF pc[h] = "create" THEN "save" ELSE "resave"
          /\ kind'[h] = kind[h] /\ job'[h] = job[h] /\ age'[h] = age[h]
      BY <1>1, <2>2 DEF HandlerTypeOK, CreateCheckout, MoveWith, Alone
    <3> QED BY <1>1, <1>2, <3>1 DEF leases
  <2>3. CASE CreateFails(h) \/ Decide(h)
    <3>1. /\ Alone(h) /\ kind'[h] = kind[h] /\ job'[h] = job[h] /\ age'[h] = age[h]
          /\ \/ pc[h] = "create" /\ pc'[h] = "fail"
             \/ pc[h] \in {"recreate", "decide"} /\ pc'[h] = "release"
             \/ pc[h] = "decide" /\ pc'[h] = "recreate" /\ token[job[h]] = 0
      BY <1>1, <2>3, MoveEffect DEF CreateFails, Decide, Stages
    <3> QED BY <1>1, <1>2, <3>1 DEF leases
  <2>4. CASE Apply(h) \/ Abort(h)
    <3>1. Alone(h) /\ \/ pc'[h] = "idle" /\ kind'[h] = "none" /\ age'[h] = 0
                      \/ /\ pc'[h] = "release" /\ kind[h] = "retry" /\ kind'[h] = kind[h]
                         /\ job'[h] = job[h] /\ age'[h] = age[h]
      BY <1>1, <2>4, LeaveEffect DEF Apply, Abort
    <3> QED BY <1>1, <1>2, <3>1
  <2>5. CASE GatewayAnswers(h)
    <3>1. /\ Alone(h) /\ pc[h] = "status"
          /\ \/ pc'[h] = "apply" /\ kind'[h] = kind[h] /\ job'[h] = job[h] /\ age'[h] = age[h]
             \/ /\ pc'[h] = "decide" /\ kind[h] = "retry" /\ kind'[h] = kind[h] /\ job'[h] = job[h]
                /\ age'[h] = age[h]
             \/ pc'[h] = "idle" /\ kind'[h] = "none" /\ age'[h] = 0
      BY <1>1, <2>5 DEF HandlerTypeOK, GatewayAnswers, MoveWith, Move, End, Alone
    <3> QED BY <1>1, <1>2, <3>1 DEF leases
  <2> QED BY <2>1, <2>2, <2>3, <2>4, <2>5
<1>4. Spares(h)
  BY <1>2 DEF Spares, leases
<1>5. \A p \in Payments : status'[p] = "ABSENT" => status[p] = "ABSENT"
  <2>1. CASE Apply(h)
    <3>1. job[h] \in Payments /\ answer[h] \in Answers
      BY <2>1 DEF CheckoutInv, Types, AtWork, HandlerTypeOK, Apply
    <3>2. StatusBy(answer[h], job[h]) # "ABSENT"
      BY DEF StatusBy
    <3> QED BY <1>1, <2>1, <3>1, <3>2 DEF Apply
  <2>2. CASE ~Apply(h)
    BY <2>2 DEF Poll, CreateCheckout, CreateFails, GatewayAnswers, Decide, Abort
  <2> QED BY <2>1, <2>2
<1>6. Fresh'
  BY <1>2, <1>5, FreshStays
<1> QED BY <1>3, <1>4, <1>6, OthersStay

\* A donation begins at a payment nobody knows of.
LEMMA DonateCheckout ==
    ASSUME CheckoutInv, Types', NEW h \in Handlers, NEW p \in Payments, Donate(h, p)
    PROVE  CheckoutInv'
<1>1. HandlerTypeOK /\ Sound(h) /\ status[p] = "ABSENT" /\ leaseLeft \in [Payments -> 0..LeaseTicks]
  BY DEF CheckoutInv, Types, LeaseTypeOK, Donate
<1>2. Alone(h) /\ pc[h] = "idle" /\ pc'[h] = "create" /\ kind'[h] = "donate" /\ job'[h] = p /\ age'[h] = age[h]
  BY <1>1, BeginEffect DEF Donate, Kinds, Stages
<1>3. UNCHANGED <<token, known, leaseOwner>> /\ \A q \in Payments \ {p} : leaseLeft'[q] = leaseLeft[q]
  BY <1>1 DEF Donate
<1>4. ASSUME NEW g \in Handlers, g # h, kind[g] # "none" PROVE job[g] # p /\ job[g] \in Payments
  BY <1>1, <1>4 DEF CheckoutInv, Types, AtWork, Sound, InStage
<1>5. Spares(h)
  BY <1>3, <1>4 DEF Spares, Retrying
<1>6. Sound(h)'
  BY <1>1, <1>2, <1>3 DEF CheckoutInv, Fresh, Sound, InStage, Leased, Introduced, Unsaved, Retrying, Opening
<1>7. Fresh'
  <2>1. \A q \in Payments : status'[q] = "ABSENT" => status[q] = "ABSENT"
    BY DEF CheckoutInv, Types, PaymentTypeOK, Donate
  <2> QED BY <1>3, <2>1, FreshStays
<1>8. \A g \in Handlers \ {h} : kind[g] # "donate" \/ job[g] # job'[h]
  BY <1>2, <1>4
<1> QED BY <1>2, <1>5, <1>6, <1>7, <1>8, OthersStay

\* A recovery begins where no lease is in force, so where no other is under way.
LEMMA RetryCheckout ==
    ASSUME RetryTicks < LeaseTicks, CheckoutInv, Types', NEW h \in Handlers, NEW p \in Payments,
           BeginRetry(h, p)
    PROVE  CheckoutInv'
<1>1. /\ HandlerTypeOK /\ Sound(h) /\ p \in known /\ leaseLeft[p] = 0
      /\ leaseLeft \in [Payments -> 0..LeaseTicks] /\ leaseOwner \in [Payments -> Handlers \cup {NoHandler}]
  BY DEF CheckoutInv, Types, LeaseTypeOK, BeginRetry
<1>2. Alone(h) /\ pc[h] = "idle" /\ pc'[h] = "status" /\ kind'[h] = "retry" /\ job'[h] = p /\ age'[h] = age[h]
  BY <1>1, BeginEffect DEF BeginRetry, Kinds, Stages
<1>3. /\ UNCHANGED <<token, known, status>>
      /\ leaseOwner'[p] = h /\ leaseLeft'[p] = LeaseTicks
      /\ \A q \in Payments \ {p} : leaseLeft'[q] = leaseLeft[q] /\ leaseOwner'[q] = leaseOwner[q]
  BY <1>1 DEF BeginRetry
<1>4. ASSUME NEW g \in Handlers, g # h, Retrying(g) PROVE job[g] # p /\ job[g] \in Payments
  <2>1. leaseLeft[job[g]] + age[g] = LeaseTicks /\ age[g] \in 0..RetryTicks
    BY <1>1, <1>4 DEF CheckoutInv, Sound, Leased, HandlerTypeOK
  <2>2. job[g] \in Payments
    BY <1>4 DEF CheckoutInv, Types, AtWork, Retrying
  <2> QED BY <1>1, <2>1, <2>2
<1>5. Spares(h)
  BY <1>3, <1>4 DEF Spares
<1>6. Sound(h)'
  BY <1>1, <1>2, <1>3 DEF Sound, InStage, Leased, Introduced, Unsaved, Retrying, Opening
<1>7. Fresh'
  BY <1>3, FreshStays
<1> QED BY <1>2, <1>5, <1>6, <1>7, OthersStay

\* The request of a donation saves its checkout, or keeps its intent.
LEMMA DonorCheckout ==
    ASSUME CheckoutInv, Types', NEW h \in Handlers, SaveCheckout(h) \/ SaveErrs(h) \/ KeepIntent(h)
    PROVE  CheckoutInv'
<1> DEFINE p == job[h]
<1>1. /\ HandlerTypeOK /\ Sound(h) /\ kind[h] = "donate" /\ p \in Payments /\ status[p] # "ABSENT"
      /\ leaseLeft \in [Payments -> 0..LeaseTicks] /\ token \in [Payments -> 0..MaxCheckouts]
      /\ status \in [Payments -> Statuses]
  BY DEF CheckoutInv, Types, AtWork, LeaseTypeOK, PaymentTypeOK, Sound, InStage, SaveCheckout, SaveErrs,
         KeepIntent
<1>2. /\ Alone(h)
      /\ \/ pc'[h] = "idle" /\ kind'[h] = "none" /\ age'[h] = 0
         \/ /\ pc'[h] = "fail" /\ kind'[h] = kind[h] /\ job'[h] = p /\ age'[h] = age[h] /\ known' = known
  BY <1>1, MoveEffect, EndEffect DEF SaveCheckout, SaveErrs, KeepIntent, Stages
<1>3. /\ UNCHANGED leaseOwner /\ known \subseteq known' /\ known' \subseteq known \cup {p}
      /\ \A q \in Payments \ {p} : leaseLeft'[q] = leaseLeft[q] /\ token'[q] = token[q]
      /\ \A q \in Payments : status'[q] = "ABSENT" => status[q] = "ABSENT"
  BY <1>1 DEF SaveCheckout, SaveErrs, KeepIntent, StoreCheckout
<1>4. ASSUME NEW g \in Handlers, g # h, kind[g] \in {"donate", "retry"} PROVE job[g] # p
  BY <1>1, <1>4, Apart
<1>5. ASSUME NEW g \in Handlers PROVE pc[g] # "idle" => job[g] \in Payments
  BY DEF CheckoutInv, Types, AtWork
<1>6. ASSUME NEW g \in Handlers PROVE
          /\ pc[g] \in Opening => kind[g] \in {"donate", "retry"} /\ pc[g] # "idle"
          /\ kind[g] = "donate" => pc[g] # "idle"
  BY DEF CheckoutInv, Sound, InStage, Opening
<1> HIDE DEF p
<1>7. Spares(h)
  BY <1>3, <1>4, <1>5, <1>6 DEF Spares, Retrying
<1>8. Sound(h)'
  BY <1>1, <1>2, <1>3 DEF Sound, InStage, Leased, Introduced, Unsaved, Retrying, Opening, p
<1>9. Fresh'
  BY <1>1, <1>3, FreshStays
<1> QED BY <1>2, <1>7, <1>8, <1>9, OthersStay DEF p

\* A recovery saves its checkout, and nobody else has one to save.
LEMMA SaveRetryCheckout ==
    ASSUME CheckoutInv, Types', NEW h \in Handlers, SaveRetry(h)
    PROVE  CheckoutInv'
<1> DEFINE p == job[h]
<1>1. /\ HandlerTypeOK /\ Sound(h) /\ kind[h] = "retry" /\ Retrying(h) /\ p \in Payments /\ status[p] # "ABSENT"
      /\ token \in [Payments -> 0..MaxCheckouts] /\ status \in [Payments -> Statuses]
  BY DEF CheckoutInv, Types, AtWork, PaymentTypeOK, Sound, InStage, SaveRetry, Retrying
<1>2. Alone(h) /\ pc'[h] = "release" /\ kind'[h] = kind[h] /\ job'[h] = p /\ age'[h] = age[h]
  BY <1>1, MoveEffect DEF SaveRetry, Stages
<1>3. /\ UNCHANGED <<leaseOwner, leaseLeft, known>>
      /\ \A q \in Payments \ {p} : token'[q] = token[q]
      /\ \A q \in Payments : status'[q] = "ABSENT" => status[q] = "ABSENT"
  BY <1>1 DEF SaveRetry, StoreCheckout, leases
<1>4. ASSUME NEW g \in Handlers, g # h, pc[g] \in Opening PROVE job[g] \in Payments \ {p}
  <2>1. job[g] \in Payments
    BY <1>4 DEF CheckoutInv, Types, AtWork, Opening
  <2>2. kind[g] = "donate" \/ Retrying(g)
    BY <1>4 DEF CheckoutInv, Sound, InStage, Opening, Retrying
  <2> QED BY <1>1, <1>4, <2>1, <2>2, Apart
<1> HIDE DEF p
<1>5. Spares(h)
  BY <1>3, <1>4 DEF Spares
<1>6. Sound(h)'
  BY <1>1, <1>2, <1>3 DEF Sound, InStage, Leased, Introduced, Unsaved, Retrying, Opening, p
<1>7. Fresh'
  BY <1>1, <1>3, FreshStays
<1>8. kind'[h] # "donate"
  BY <1>1, <1>2
<1> QED BY <1>2, <1>5, <1>6, <1>7, <1>8, OthersStay

\* A request ends, or dies; only its own lease goes with it.
LEMMA EndCheckout ==
    ASSUME CheckoutInv, Types', NEW h \in Handlers, Release(h) \/ Crash(h)
    PROVE  CheckoutInv'
<1>1. /\ HandlerTypeOK /\ LeaseTypeOK
  BY DEF CheckoutInv, Types
<1>2. Alone(h) /\ pc'[h] = "idle" /\ kind'[h] = "none" /\ age'[h] = 0
  BY <1>1, EndEffect DEF Release, Crash
<1>3. UNCHANGED <<token, known, status>>
  BY DEF Release, Crash
<1>4. ASSUME NEW g \in Handlers, g # h, Retrying(g)
      PROVE  leaseOwner'[job[g]] = leaseOwner[job[g]] /\ leaseLeft'[job[g]] = leaseLeft[job[g]]
  <2>1. leaseOwner[job[g]] = g /\ job[g] \in Payments
    BY <1>4 DEF CheckoutInv, Types, AtWork, Sound, Leased, Retrying
  <2> QED BY <1>1, <1>4, <2>1 DEF Release, Crash, LeaseTypeOK, leases
<1>5. Spares(h)
  BY <1>3, <1>4 DEF Spares
<1>6. Sound(h)'
  BY <1>2 DEF Sound, InStage, Leased, Introduced, Unsaved, Retrying, Opening
<1>7. Fresh'
  BY <1>3, FreshStays
<1> QED BY <1>2, <1>5, <1>6, <1>7, OthersStay

\* Time passes for a recovery and its lease alike.
LEMMA TickCheckout ==
    ASSUME RetryTicks < LeaseTicks, CheckoutInv, Types', Tick
    PROVE  CheckoutInv'
<1>1. HandlerTypeOK /\ LeaseTypeOK
  BY DEF CheckoutInv, Types
<1>2. UNCHANGED <<pc, kind, job, token, known, status, leaseOwner>>
  BY DEF Tick
<1>3. ASSUME NEW h \in Handlers PROVE Sound(h)'
  <2>1. Sound(h)
    BY DEF CheckoutInv
  <2>2. InStage(h)' /\ Introduced(h)' /\ Unsaved(h)'
    BY <1>2, <2>1 DEF Sound, InStage, Introduced, Unsaved, Tick, Retrying
  <2>3. Leased(h)'
    <3>1. CASE Retrying(h)
      <4>1. /\ job[h] \in Payments /\ leaseOwner[job[h]] = h /\ leaseLeft[job[h]] + age[h] = LeaseTicks
            /\ age[h] < RetryTicks /\ age[h] \in 0..RetryTicks /\ leaseLeft[job[h]] \in 0..LeaseTicks
        BY <1>1, <2>1, <3>1 DEF CheckoutInv, Types, AtWork, Sound, Leased, Retrying, Tick, HandlerTypeOK,
                               LeaseTypeOK
      <4>2. leaseLeft'[job[h]] = leaseLeft[job[h]] - 1 /\ age'[h] = age[h] + 1
        BY <3>1, <4>1 DEF Tick
      <4> QED BY <1>2, <4>1, <4>2 DEF Leased
    <3>2. CASE ~Retrying(h)
      BY <1>2, <3>2 DEF Leased, Retrying
    <3> QED BY <3>1, <3>2
  <2> QED BY <2>2, <2>3 DEF Sound
<1>4. OneDonor' /\ Fresh'
  BY <1>2 DEF CheckoutInv, OneDonor, Fresh
<1> QED BY <1>3, <1>4 DEF CheckoutInv

\* The gateway, the campaign and whoever only watches.
LEMMA RestCheckout ==
    ASSUME CheckoutInv, Types', UNCHANGED <<handlerVars, token, known, status, leases>>
    PROVE  CheckoutInv'
  BY DEF handlerVars, leases, CheckoutInv, OneDonor, Fresh, Sound, InStage, Leased, Introduced, Unsaved,
         Retrying

LEMMA CheckoutInit == Init => CheckoutInv
<1> SUFFICES ASSUME Init PROVE CheckoutInv
  OBVIOUS
<1>1. Types
  BY InitTypes
<1> QED BY <1>1 DEF Init, CheckoutInv, OneDonor, Fresh, Sound, InStage, Leased, Introduced, Unsaved,
                    Retrying, Opening

LEMMA CheckoutStep ==
    ASSUME RetryTicks < LeaseTicks
    PROVE  CheckoutInv /\ [Next]_vars => CheckoutInv'
<1> SUFFICES ASSUME CheckoutInv, [Next]_vars PROVE CheckoutInv'
  OBVIOUS
<1>1. Types'
  BY TypesStep DEF CheckoutInv
<1>2. ASSUME NEW h \in Handlers,
             HandlerStep(h) \/ CreateFails(h) \/ SaveErrs(h) \/ Abort(h) \/ Crash(h)
      PROVE  CheckoutInv'
  BY <1>1, <1>2, QuietCheckout, DonorCheckout, SaveRetryCheckout, EndCheckout DEF HandlerStep
<1>3. ASSUME NEW h \in Handlers, NEW p \in Payments, Donate(h, p) \/ Poll(h, p) \/ BeginRetry(h, p)
      PROVE  CheckoutInv'
  BY <1>1, <1>3, QuietCheckout, DonateCheckout, RetryCheckout
<1>4. CASE Shut \/ Republish \/ UNCHANGED vars
  BY <1>1, <1>4, RestCheckout DEF Shut, Republish, vars
<1>5. ASSUME NEW p \in Payments, DonorPays(p) \/ Challenge(p) \/ Deny(p) \/ Settle(p) \/ Return(p)
      PROVE  CheckoutInv'
  BY <1>1, <1>5, RestCheckout DEF DonorPays, Challenge, Deny, Settle, Return, GatewayMoves
<1> QED BY <1>1, <1>2, <1>3, <1>4, <1>5, TickCheckout DEF Next

LEMMA TokenStep ==
    CheckoutInv /\ [Next]_vars => \A p \in Payments : token[p] # 0 => token'[p] = token[p]
<1> SUFFICES ASSUME CheckoutInv, [Next]_vars, NEW p \in Payments, token[p] # 0
             PROVE  token'[p] = token[p]
  OBVIOUS
<1>1. ASSUME NEW h \in Handlers, SaveCheckout(h) \/ SaveErrs(h) \/ SaveRetry(h) PROVE token'[p] = token[p]
  <2>1. job[h] # p \/ UNCHANGED token
    BY <1>1 DEF CheckoutInv, Sound, Unsaved, Opening, SaveCheckout, SaveErrs, SaveRetry
  <2> QED BY <1>1, <2>1 DEF CheckoutInv, Types, PaymentTypeOK, SaveCheckout, SaveErrs, SaveRetry,
                            StoreCheckout
<1>2. CASE UNCHANGED token
  BY <1>2
<1>3. ASSUME NEW h \in Handlers, NEW q \in Payments, Donate(h, q) \/ Poll(h, q) \/ BeginRetry(h, q)
      PROVE  UNCHANGED token
  BY <1>3 DEF Donate, Poll, BeginRetry
<1>4. ASSUME NEW h \in Handlers,
             \/ CreateCheckout(h) \/ CreateFails(h) \/ GatewayAnswers(h) \/ Decide(h) \/ Release(h)
             \/ Abort(h) \/ Crash(h) \/ KeepIntent(h) \/ Apply(h)
      PROVE  UNCHANGED token
  BY <1>4 DEF CreateCheckout, CreateFails, GatewayAnswers, Decide, Release, Abort, Crash, KeepIntent, Apply
<1>5. ASSUME NEW q \in Payments, DonorPays(q) \/ Challenge(q) \/ Deny(q) \/ Settle(q) \/ Return(q)
      PROVE  UNCHANGED token
  BY <1>5 DEF DonorPays, Challenge, Deny, Settle, Return, GatewayMoves
<1>6. CASE Shut \/ Republish \/ Tick \/ UNCHANGED vars
  BY <1>6 DEF Shut, Republish, Tick, vars
<1> QED BY <1>1, <1>2, <1>3, <1>4, <1>5, <1>6 DEF Next, HandlerStep

(***************************************************************************)
(* The theorems.                                                           *)
(***************************************************************************)
\* Payments, requests, totals and the gateway keep their types (crowdfunding.ts).
THEOREM TypeCorrect == Spec => []TypeOK
<1>1. Init => Types /\ Totals
  BY InitTypes DEF Init, Totals, NoTotals
<1>2. Types /\ Totals /\ [Next]_vars => (Types /\ Totals)'
  BY TypesStep, TotalsStep
<1>3. Types /\ Totals => TypeOK
  BY DEF Types, Totals, TypeOK, CampaignTypeOK
<1> QED BY <1>1, <1>2, <1>3, PTL DEF Spec

\* reconcilePayment credits only what the gateway took for that order, and shows
\* no refund it did not make, however old the answer it applies.
THEOREM CreditsAreReal == Spec => []CreditedIsReal
<1>1. MoneyInv => CreditedIsReal
  BY DEF MoneyInv, Credited
<1> QED BY <1>1, MoneyAlways, PTL

\* Whichever of the checkout handler, the retry and the reconciliations writes
\* last, the status agrees with the money.
THEOREM StatusAgrees == Spec => []StatusTellsMoney
<1>1. MoneyInv => StatusTellsMoney
  BY DEF MoneyInv
<1> QED BY <1>1, MoneyAlways, PTL

\* Kept up by differences in answers applied at any time and in any order,
\* collectedAmount and donationCount are the sum and the number of what donors
\* gave net of refunds, for any number of them (reconcilePayment).
THEOREM TotalsStayNet == Spec => []TotalsAreNet
<1>1. Init => MoneyInv /\ TotalsAreNet
  BY MoneyInit, TotalsInit
<1>2. MoneyInv /\ TotalsAreNet /\ [Next]_vars => (MoneyInv /\ TotalsAreNet)'
  BY MoneyStep, TotalsNetStep
<1> QED BY <1>1, <1>2, PTL DEF Spec

\* Every change of money enqueues its event, with the totals it makes: at any
\* time the last events state the payments' money, and add up to the totals of
\* the newest (reconcilePayment, enqueue).
THEOREM ChangesAreWitnessed == Spec => []MoneyIsWitnessed
<1>1. MoneyInv /\ TotalsAreNet => MoneyIsWitnessed
  <2> SUFFICES ASSUME MoneyInv, TotalsAreNet PROVE MoneyIsWitnessed
    OBVIOUS
  <2>1. EventsTell
    BY DEF MoneyInv
  <2>2. [p \in Payments |-> evidence[p].paid - evidence[p].refunded] = [p \in Payments |-> Net(p)]
    BY <2>1 DEF EventsTell, Net
  <2>3. {p \in Payments : evidence[p].paid > evidence[p].refunded} = {p \in Payments : Net(p) > 0}
    <3>1. \A p \in Payments : /\ paid[p] \in Nat /\ refunded[p] \in Nat
                             /\ evidence[p].paid = paid[p] /\ evidence[p].refunded = refunded[p]
      BY <2>1 DEF EventsTell, MoneyInv, Types, PaymentTypeOK
    <3>2. \A p \in Payments : evidence[p].paid > evidence[p].refunded <=> Net(p) > 0
      BY <3>1 DEF Net
    <3> QED BY <3>2
  <2>4. /\ snapshot.collected = SumFunction([p \in Payments |-> Net(p)])
        /\ snapshot.donors = Cardinality({p \in Payments : Net(p) > 0})
    BY <2>1 DEF EventsTell, TotalsAreNet
  <2> QED BY <2>1, <2>2, <2>3, <2>4 DEF EventsTell, MoneyIsWitnessed
<1> QED BY <1>1, MoneyAlways, TotalsStayNet, PTL

\* The total shown for a campaign is never negative and never above what the
\* gateway took for its orders, with answers lost, late, repeated or reordered
\* (collectedAmount, reconcilePayment).
THEOREM TotalsAreCovered == Spec => [](0 <= collected /\ collected <= Taken)
<1>1. MoneyInv /\ TotalsAreNet => 0 <= collected /\ collected <= Taken
  BY TotalsAreTaken
<1> QED BY <1>1, MoneyAlways, TotalsStayNet, PTL

\* A stale answer takes nothing back (reconcilePayment).
THEOREM MoneyOnlyAdvances == Spec => MoneyNeverRegresses
<1>1. MoneyInv /\ [Next]_vars =>
          [ \A p \in Payments :
                /\ paid'[p] >= paid[p] /\ refunded'[p] >= refunded[p]
                /\ status[p] = "FAILED" => status'[p] \notin {"CREATING", "GATEWAY_ERROR", "PENDING"} ]_vars
  BY AdvanceStep DEF Advances
<1> QED BY <1>1, MoneyAlways, PTL DEF Spec, MoneyNeverRegresses

\* A saved checkout is never replaced, as long as a recovery ends before its lease
\* does (retryCampaignPayment: two calls of 10 s, a lease of 60 s).
THEOREM CheckoutsStay ==
    ASSUME RetryTicks < LeaseTicks
    PROVE  Spec => OneCheckout
<1>1. CheckoutInv /\ [Next]_vars => CheckoutInv'
  BY CheckoutStep
<1>2. CheckoutInv /\ [Next]_vars => [\A p \in Payments : token[p] # 0 => token'[p] = token[p]]_vars
  BY TokenStep
<1> QED BY <1>1, <1>2, CheckoutInit, PTL DEF Spec, OneCheckout
(***************************************************************************)
(* The campaign of the payments is the window that CampaignReview keeps:   *)
(* WindowSpec is proved of it in CampaignReviewProofs.                     *)
(***************************************************************************)
CampaignIs == INSTANCE CampaignWindow WITH window <- campaign, published <- version

\* What the life cycle may do to a published campaign is exactly what Shut and
\* Republish allow for, up to the bound on versions: nothing it does is left out
\* of the payments, and nothing is added (the routes that change the status of a
\* campaign, reopen and publish it).
THEOREM CampaignIsWindow ==
    ASSUME version \in 1..MaxVersions, version' \in 1..MaxVersions,
           UNCHANGED <<totals, status, money, token, intended, leases, known, events,
                       handlerVars, gatewayVars>>
    PROVE  CampaignIs!WindowNext <=> Shut \/ Republish
<1>1. CampaignIs!Close <=> Shut
  BY DEF CampaignIs!Close, Shut
<1>2. CampaignIs!Open <=> Republish
  BY DEF CampaignIs!Open, Republish
<1> QED BY <1>1, <1>2 DEF CampaignIs!WindowNext
=============================================================================
