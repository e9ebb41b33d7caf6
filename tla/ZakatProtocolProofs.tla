------------------------- MODULE ZakatProtocolProofs -------------------------
(***************************************************************************)
(* Proofs about ZakatProtocol, for any accounts, amounts and numbers of    *)
(* proposals.                                                              *)
(***************************************************************************)
EXTENDS ZakatProtocol, FiniteSetTheorems, TLAPS

(***************************************************************************)
(* Sums.  SumFunctionOnSet iterates over the subsets of S; that it adds up *)
(* natural numbers is shown by counting: as many units as f[x] for each x  *)
(* satisfy its equation (CountIsFold), which has one solution on a finite  *)
(* set (FoldsAgree, by a least subset on which two of them differ).        *)
(***************************************************************************)
Units(f, S) == UNION {{x} \X (1..f[x]) : x \in S}

One(s) == CHOOSE x \in s : TRUE

\* g is what SumFunctionOnSet iterates.
IsFold(g, f, S) == g = [s \in SUBSET S |-> IF s = {} THEN 0 ELSE f[One(s)] + g[s \ {One(s)}]]

LEMMA OwnUnits ==
    ASSUME NEW f, NEW x, f[x] \in Nat
    PROVE  IsFiniteSet({x} \X (1..f[x])) /\ Cardinality({x} \X (1..f[x])) = f[x]
<1>1. IsFiniteSet({x}) /\ Cardinality({x}) = 1
  BY FS_Singleton
<1>2. IsFiniteSet(1..f[x]) /\ Cardinality(1..f[x]) = f[x]
  BY FS_Interval
<1>3. IsFiniteSet({x} \X (1..f[x])) /\ Cardinality({x} \X (1..f[x])) = 1 * f[x]
  BY <1>1, <1>2, FS_Product
<1> QED BY <1>3

LEMMA UnitsFinite ==
    ASSUME NEW f, NEW S, IsFiniteSet(S), \A x \in S : f[x] \in Nat
    PROVE  IsFiniteSet(Units(f, S)) /\ Cardinality(Units(f, S)) \in Nat
<1> DEFINE own(x) == {x} \X (1..f[x])
<1>1. IsFiniteSet({own(x) : x \in S})
  <2>1. [x \in S |-> own(x)] \in Surjection(S, {own(x) : x \in S})
    BY DEF Surjection
  <2> QED BY <2>1, FS_Surjection
<1>2. \A U \in {own(x) : x \in S} : IsFiniteSet(U)
  BY OwnUnits
<1>3. IsFiniteSet(Units(f, S))
  BY <1>1, <1>2, FS_UNION DEF Units
<1> QED BY <1>3, FS_CardinalityType

LEMMA UnitsSplit ==
    ASSUME NEW f, NEW S, IsFiniteSet(S), \A y \in S : f[y] \in Nat, NEW x \in S
    PROVE  Cardinality(Units(f, S)) = f[x] + Cardinality(Units(f, S \ {x}))
<1> DEFINE own == {x} \X (1..f[x])
           rest == Units(f, S \ {x})
<1>1. IsFiniteSet(own) /\ Cardinality(own) = f[x]
  BY OwnUnits
<1>2. IsFiniteSet(rest) /\ Cardinality(rest) \in Nat
  BY FS_RemoveElement, UnitsFinite
<1>3. Units(f, S) = own \cup rest /\ own \cap rest = {}
  BY DEF Units
<1>4. Cardinality(own \cap rest) = 0
  BY <1>3, FS_EmptySet
<1> HIDE DEF own, rest
<1>5. Cardinality(own \cup rest) = Cardinality(own) + Cardinality(rest) - Cardinality(own \cap rest)
  BY <1>1, <1>2, FS_Union
<1>6. Cardinality(own \cup rest) = f[x] + Cardinality(rest)
  BY <1>1, <1>2, <1>4, <1>5
<1> QED BY <1>3, <1>6 DEF rest

LEMMA CountIsFold ==
    ASSUME NEW f, NEW S, IsFiniteSet(S), \A x \in S : f[x] \in Nat
    PROVE  IsFold([s \in SUBSET S |-> Cardinality(Units(f, s))], f, S)
<1> DEFINE c == [s \in SUBSET S |-> Cardinality(Units(f, s))]
<1>1. c[{}] = 0
  BY FS_EmptySet DEF Units
<1>2. ASSUME NEW s \in SUBSET S, s # {}
      PROVE  c[s] = f[One(s)] + c[s \ {One(s)}]
  <2>1. One(s) \in s /\ IsFiniteSet(s)
    BY <1>2, FS_Subset DEF One
  <2> QED BY <2>1, UnitsSplit
<1>3. \A s \in SUBSET S : c[s] = IF s = {} THEN 0 ELSE f[One(s)] + c[s \ {One(s)}]
  BY <1>1, <1>2
<1> QED BY <1>3 DEF IsFold

LEMMA FoldsAgree ==
    ASSUME NEW f, NEW S, IsFiniteSet(S), NEW g, NEW h, IsFold(g, f, S), IsFold(h, f, S)
    PROVE  g = h
<1> DEFINE T == {s \in SUBSET S : g[s] # h[s]}
           R == StrictSubsetOrdering(S)
<1>1. IsWellFoundedOn(R, SUBSET S)
  BY FS_StrictSubsetOrderingWellFounded, FS_FiniteSubsetsOfFinite
<1>2. T = {}
  <2> SUFFICES ASSUME T # {} PROVE FALSE
    OBVIOUS
  <2> HIDE DEF R, T
  <2>1. PICK s \in T : \A u \in T : ~ (<<u, s>> \in R)
    <3>1. T \subseteq SUBSET S
      BY DEF T
    <3> QED BY <1>1, <3>1, WFMin
  <2>2. s \in SUBSET S /\ g[s] # h[s]
    BY <2>1 DEF T
  <2>3. s # {} /\ One(s) \in s
    BY <2>2 DEF IsFold, One
  <2> DEFINE u == s \ {One(s)}
  <2>4. <<u, s>> \in R
    BY <2>2, <2>3 DEF R, StrictSubsetOrdering
  <2>5. g[u] = h[u]
    BY <2>1, <2>2, <2>4 DEF T
  <2>6. g[s] = f[One(s)] + g[u] /\ h[s] = f[One(s)] + h[u]
    BY <2>2, <2>3 DEF IsFold
  <2> QED BY <2>2, <2>5, <2>6
<1>3. \A s \in SUBSET S : g[s] = h[s]
  BY <1>2
<1> QED BY <1>3 DEF IsFold

LEMMA SumCounts ==
    ASSUME NEW f, NEW S, IsFiniteSet(S), \A x \in S : f[x] \in Nat
    PROVE  SumFunctionOnSet(f, S) = Cardinality(Units(f, S))
<1> DEFINE c == [s \in SUBSET S |-> Cardinality(Units(f, s))]
<1>1. IsFold(c, f, S)
  BY CountIsFold
<1>2. (CHOOSE g : IsFold(g, f, S)) = c
  BY <1>1, FoldsAgree
<1>3. SumFunctionOnSet(f, S) = (CHOOSE g : IsFold(g, f, S))[S]
  BY DEF SumFunctionOnSet, FoldFunctionOnSet, MapThenFoldSet, IsFold, One
<1> QED BY <1>2, <1>3

LEMMA SumWithout ==
    ASSUME NEW f, NEW S, IsFiniteSet(S), \A y \in S : f[y] \in Nat, NEW x \in S
    PROVE  /\ SumFunctionOnSet(f, S) = f[x] + SumFunctionOnSet(f, S \ {x})
           /\ SumFunctionOnSet(f, S \ {x}) \in Nat
<1>1. IsFiniteSet(S \ {x})
  BY FS_RemoveElement
<1> QED BY <1>1, SumCounts, UnitsSplit, UnitsFinite

LEMMA SumSame ==
    ASSUME NEW f, NEW g, NEW S, IsFiniteSet(S), \A x \in S : f[x] \in Nat /\ f[x] = g[x]
    PROVE  SumFunctionOnSet(f, S) = SumFunctionOnSet(g, S)
<1>1. Units(f, S) = Units(g, S)
  BY DEF Units
<1> QED BY <1>1, SumCounts

USE ProtocolAssumption DEF ProtocolAssumption

(***************************************************************************)
(* The inductive invariant, in named parts.                                *)
(***************************************************************************)
\* Before the quorum a proposal has its proposer's approval and no other.
OneBeforeQuorum ==
    \A p \in Proposals : status[p] \in {"Pending", "Cancelled"} =>
        count[p] = 1 /\ \E one \in People : approvers[p] = {one}

\* The token is called back only for what is approved and not yet concluded.
PayingIsApproved == paying # NoProposal => status[paying] = "Approved"

ProtocolInv == OneBeforeQuorum /\ PayingIsApproved /\ QuorumStands /\ PaidOnce

(***************************************************************************)
(* The shares.                                                             *)
(***************************************************************************)
LEMMA ShareIsCapped ==
    ASSUME NEW amount \in Nat
    PROVE  /\ AmilShare(amount) \in Nat /\ amount - AmilShare(amount) \in Nat
           /\ 10000 * AmilShare(amount) <= MAX_AMIL_BPS * amount
  BY DEF AmilShare, MAX_AMIL_BPS

\* Crediting an amount keeps the types and the sum, and adds no more than the
\* capped share to the amil's treasury.
LEMMA CreditKeeps ==
    ASSUME TypeOK, NEW currency \in Currencies, NEW amount \in Deposits,
           Credit(currency, amount)
    PROVE  /\ collected' \in [Currencies -> Nat] /\ vault' \in [Currencies -> Nat]
           /\ amil' \in [Currencies -> Nat]
           /\ \A c \in Currencies : c # currency =>
                 collected'[c] = collected[c] /\ vault'[c] = vault[c] /\ amil'[c] = amil[c]
           /\ collected'[currency] = collected[currency] + amount
           /\ amil'[currency] = amil[currency] + AmilShare(amount)
           /\ vault'[currency] = vault[currency] + (amount - AmilShare(amount))
<1> DEFINE share == AmilShare(amount)
<1>1. share \in Nat /\ amount - share \in Nat /\ amount \in Nat
  BY ShareIsCapped
<1>2. /\ collected' = [collected EXCEPT ![currency] = @ + amount]
      /\ amil' = [amil EXCEPT ![currency] = @ + share]
      /\ vault' = [vault EXCEPT ![currency] = @ + (amount - share)]
  BY DEF Credit
<1>3. /\ collected \in [Currencies -> Nat] /\ vault \in [Currencies -> Nat]
      /\ amil \in [Currencies -> Nat]
  BY DEF TypeOK
<1> HIDE DEF share
<1>4. \A n, m \in Nat : n + m \in Nat
  OBVIOUS
<1>5. /\ collected[currency] + amount \in Nat /\ amil[currency] + share \in Nat
      /\ vault[currency] + (amount - share) \in Nat
  BY <1>1, <1>3, <1>4
<1> QED
  BY <1>2, <1>3, <1>5 DEF share

(***************************************************************************)
(* Type correctness.                                                       *)
(***************************************************************************)
LEMMA InitTyped == Init => TypeOK
<1> SUFFICES ASSUME Init PROVE TypeOK
  OBVIOUS
<1>1. roles \in [Roles -> SUBSET People] /\ status \in [Proposals -> Statuses]
  BY DEF Init, Statuses
<1>2. /\ collected \in [Currencies -> Nat] /\ vault \in [Currencies -> Nat]
      /\ amil \in [Currencies -> Nat] /\ disbursed \in [Currencies -> Nat]
      /\ held \in Nat /\ withdrawn \in Nat /\ roleChanges \in 0..MaxRoleChanges
  BY DEF Init
<1>3. /\ counter \in 0..MaxProposals
      /\ \A p \in Proposals : status[p] = "Absent" <=> p > counter
      /\ count \in [Proposals -> Nat]
  BY DEF Init, Proposals
<1>4. /\ terms \in [1..counter -> Terms] /\ approvers \in [Proposals -> SUBSET People]
      /\ settled \subseteq Batches /\ claimed \subseteq Claims
      /\ paying \in Proposals \cup {NoProposal}
  BY DEF Init
<1> QED
  BY <1>1, <1>2, <1>3, <1>4 DEF TypeOK

\* What passes the checks of executeDisbursement was approved: neither a pending
\* nor a cancelled proposal has the approvals.
LEMMA ExecutableIsApproved ==
    ASSUME TypeOK, ProtocolInv, NEW p \in Proposals, Executable(p)
    PROVE  status[p] = "Approved"
<1>1. status[p] \in Statuses
  BY DEF TypeOK
<1>2. status[p] \notin {"Absent", "Executed", "Pending", "Cancelled"}
  BY DEF Executable, ProtocolInv, OneBeforeQuorum, REQUIRED_APPROVALS
<1> QED
  BY <1>1, <1>2 DEF Statuses

\* A proposal that exists has its terms.
LEMMA TermsExist ==
    ASSUME TypeOK, NEW p \in Proposals, status[p] # "Absent"
    PROVE  /\ p \in 1..counter /\ terms[p] \in Terms
           /\ terms[p].currency \in Currencies /\ terms[p].amount \in Nat
           /\ terms[p].claim \in Claims
<1>1. p \in 1..counter
  BY DEF TypeOK, Proposals
<1>2. terms[p] \in Terms
  BY <1>1 DEF TypeOK
<1> QED
  BY <1>1, <1>2 DEF Terms

\* An amount leaves a vault that holds it.
LEMMA DebitKeeps ==
    ASSUME TypeOK, NEW currency \in Currencies, NEW amount \in Nat,
           amount <= vault[currency], Debit(currency, amount)
    PROVE  /\ vault' \in [Currencies -> Nat] /\ disbursed' \in [Currencies -> Nat]
           /\ \A c \in Currencies : c # currency =>
                 vault'[c] = vault[c] /\ disbursed'[c] = disbursed[c]
           /\ vault'[currency] = vault[currency] - amount
           /\ disbursed'[currency] = disbursed[currency] + amount
<1>1. vault \in [Currencies -> Nat] /\ disbursed \in [Currencies -> Nat]
  BY DEF TypeOK
<1>2. vault[currency] - amount \in Nat /\ disbursed[currency] + amount \in Nat
  BY <1>1
<1> QED
  BY <1>1, <1>2 DEF Debit

(***************************************************************************)
(* The books, action by action.                                            *)
(***************************************************************************)
LEMMA InitBooks == Init => BooksBalance
  BY DEF Init, BooksBalance, Currencies, MAX_AMIL_BPS

LEMMA BooksStep ==
    ASSUME TypeOK, ProtocolInv, BooksBalance, [Next]_vars
    PROVE  BooksBalance' /\ held' \in Nat /\ withdrawn' \in Nat
           /\ collected' \in [Currencies -> Nat] /\ vault' \in [Currencies -> Nat]
           /\ amil' \in [Currencies -> Nat] /\ disbursed' \in [Currencies -> Nat]
<1> DEFINE Goal == BooksBalance' /\ held' \in Nat /\ withdrawn' \in Nat
           /\ collected' \in [Currencies -> Nat] /\ vault' \in [Currencies -> Nat]
           /\ amil' \in [Currencies -> Nat] /\ disbursed' \in [Currencies -> Nat]
<1>1. /\ collected["IDR"] \in Nat /\ vault["IDR"] \in Nat /\ amil["IDR"] \in Nat
      /\ disbursed["IDR"] \in Nat
      /\ collected["USDC"] \in Nat /\ vault["USDC"] \in Nat /\ amil["USDC"] \in Nat
      /\ disbursed["USDC"] \in Nat /\ held \in Nat /\ withdrawn \in Nat
      /\ "IDR" \in Currencies /\ "USDC" \in Currencies
  BY DEF TypeOK, Currencies
<1>0. /\ collected \in [Currencies -> Nat] /\ vault \in [Currencies -> Nat]
      /\ amil \in [Currencies -> Nat] /\ disbursed \in [Currencies -> Nat]
  BY DEF TypeOK
<1>2. CASE UNCHANGED ledgerVars
  BY <1>0, <1>1, <1>2 DEF ledgerVars, BooksBalance, MAX_AMIL_BPS
<1>3. ASSUME NEW batch \in Batches, RecordFiatBatchSettlement(batch)
      PROVE  Goal
  <2>1. PICK amount \in Deposits : Credit("IDR", amount)
    BY <1>3 DEF RecordFiatBatchSettlement
  <2>2. UNCHANGED <<disbursed, held, withdrawn>>
    BY <1>3 DEF RecordFiatBatchSettlement
  <2>3. /\ AmilShare(amount) \in Nat /\ amount - AmilShare(amount) \in Nat /\ amount \in Nat
        /\ 10000 * AmilShare(amount) <= 1250 * amount
    BY ShareIsCapped DEF MAX_AMIL_BPS
  <2>4. /\ collected' \in [Currencies -> Nat] /\ vault' \in [Currencies -> Nat]
        /\ amil' \in [Currencies -> Nat]
        /\ collected'["USDC"] = collected["USDC"] /\ vault'["USDC"] = vault["USDC"]
        /\ amil'["USDC"] = amil["USDC"]
        /\ collected'["IDR"] = collected["IDR"] + amount
        /\ amil'["IDR"] = amil["IDR"] + AmilShare(amount)
        /\ vault'["IDR"] = vault["IDR"] + (amount - AmilShare(amount))
    BY <1>1, <2>1, CreditKeeps
  <2> QED
    BY <1>0, <1>1, <2>2, <2>3, <2>4 DEF BooksBalance, MAX_AMIL_BPS
<1>4. ASSUME NEW amount \in Deposits, DepositUSDC(amount)
      PROVE  Goal
  <2>1. Credit("USDC", amount) /\ held' = held + amount /\ UNCHANGED <<disbursed, withdrawn>>
    BY <1>4 DEF DepositUSDC
  <2>2. /\ AmilShare(amount) \in Nat /\ amount - AmilShare(amount) \in Nat /\ amount \in Nat
        /\ 10000 * AmilShare(amount) <= 1250 * amount
    BY ShareIsCapped DEF MAX_AMIL_BPS
  <2>3. /\ collected' \in [Currencies -> Nat] /\ vault' \in [Currencies -> Nat]
        /\ amil' \in [Currencies -> Nat]
        /\ collected'["IDR"] = collected["IDR"] /\ vault'["IDR"] = vault["IDR"]
        /\ amil'["IDR"] = amil["IDR"]
        /\ collected'["USDC"] = collected["USDC"] + amount
        /\ amil'["USDC"] = amil["USDC"] + AmilShare(amount)
        /\ vault'["USDC"] = vault["USDC"] + (amount - AmilShare(amount))
    BY <1>1, <2>1, CreditKeeps
  <2> QED
    BY <1>0, <1>1, <2>1, <2>2, <2>3 DEF BooksBalance, MAX_AMIL_BPS
<1>5. ASSUME NEW p \in Proposals, ExecuteFiat(p)
      PROVE  Goal
  <2>1. /\ terms[p].amount \in Nat /\ terms[p].amount <= vault["IDR"]
        /\ Debit("IDR", terms[p].amount) /\ UNCHANGED <<collected, amil, held, withdrawn>>
    BY <1>5, TermsExist DEF ExecuteFiat, Executable
  <2>2. /\ vault' \in [Currencies -> Nat] /\ disbursed' \in [Currencies -> Nat]
        /\ vault'["USDC"] = vault["USDC"] /\ disbursed'["USDC"] = disbursed["USDC"]
        /\ vault'["IDR"] = vault["IDR"] - terms[p].amount
        /\ disbursed'["IDR"] = disbursed["IDR"] + terms[p].amount
    BY <1>1, <2>1, DebitKeeps
  <2> QED
    BY <1>0, <1>1, <2>1, <2>2 DEF BooksBalance, MAX_AMIL_BPS
<1>6. ASSUME NEW p \in Proposals, TransferUSDC(p)
      PROVE  Goal
  <2>1. /\ terms[p].amount \in Nat /\ terms[p].amount <= vault["USDC"]
        /\ Debit("USDC", terms[p].amount) /\ UNCHANGED <<collected, amil, withdrawn>>
        /\ held' = held - terms[p].amount \/ held' = held
    BY <1>6, TermsExist DEF TransferUSDC, Executable
  <2>2. /\ vault' \in [Currencies -> Nat] /\ disbursed' \in [Currencies -> Nat]
        /\ vault'["IDR"] = vault["IDR"] /\ disbursed'["IDR"] = disbursed["IDR"]
        /\ vault'["USDC"] = vault["USDC"] - terms[p].amount
        /\ disbursed'["USDC"] = disbursed["USDC"] + terms[p].amount
    BY <1>1, <2>1, DebitKeeps
  <2> QED
    BY <1>0, <1>1, <2>1, <2>2 DEF BooksBalance, MAX_AMIL_BPS
<1>7. ASSUME NEW amount \in Requests, WithdrawAmilShareUSDC(amount)
      PROVE  Goal
  <2>1. /\ amount \in Nat /\ amount <= amil["USDC"]
        /\ amil' = [amil EXCEPT !["USDC"] = @ - amount] /\ withdrawn' = withdrawn + amount
        /\ held' = held - amount \/ held' = held
        /\ UNCHANGED <<collected, vault, disbursed>>
    BY <1>7 DEF WithdrawAmilShareUSDC
  <2>2. /\ amil' \in [Currencies -> Nat] /\ amil'["IDR"] = amil["IDR"]
        /\ amil'["USDC"] = amil["USDC"] - amount
    BY <1>1, <2>1 DEF TypeOK
  <2> QED
    BY <1>0, <1>1, <2>1, <2>2 DEF BooksBalance, MAX_AMIL_BPS
<1>8. ASSUME NEW sender \in People, NEW p \in Proposals,
             ApproveDisbursement(sender, p) \/ CancelProposal(sender, p)
      PROVE  UNCHANGED ledgerVars
  BY <1>8 DEF ApproveDisbursement, CancelProposal
<1>9. ASSUME NEW sender \in People, NEW currency \in Currencies, NEW amount \in Requests,
             NEW claim \in Claims, ProposeDisbursement(sender, currency, amount, claim)
      PROVE  UNCHANGED ledgerVars
  BY <1>9 DEF ProposeDisbursement
<1>10. ASSUME \/ \E role \in Roles, person \in People : ChangeRole(role, person)
              \/ ConcludeTransfer \/ UNCHANGED vars
       PROVE  UNCHANGED ledgerVars
  BY <1>10 DEF ChangeRole, ConcludeTransfer, vars
<1> QED
  BY <1>2, <1>3, <1>4, <1>5, <1>6, <1>7, <1>8, <1>9, <1>10 DEF Next

(***************************************************************************)
(* The types of the rest.                                                  *)
(***************************************************************************)
ProposalsTyped ==
    /\ counter \in 0..MaxProposals
    /\ status \in [Proposals -> Statuses]
    /\ \A p \in Proposals : status[p] = "Absent" <=> p > counter
    /\ terms \in [1..counter -> Terms]
    /\ count \in [Proposals -> Nat]
    /\ approvers \in [Proposals -> SUBSET People]

OthersTyped ==
    /\ roles \in [Roles -> SUBSET People] /\ roleChanges \in 0..MaxRoleChanges
    /\ settled \subseteq Batches
    /\ claimed \subseteq Claims
    /\ paying \in Proposals \cup {NoProposal}

LEMMA OthersStep ==
    ASSUME TypeOK, ProtocolInv, [Next]_vars
    PROVE  OthersTyped'
<1>1. OthersTyped
  BY DEF TypeOK, OthersTyped
<1>2. CASE \E role \in Roles, person \in People : ChangeRole(role, person)
  BY <1>1, <1>2 DEF ChangeRole, OthersTyped
<1>3. CASE \E batch \in Batches : RecordFiatBatchSettlement(batch)
  BY <1>1, <1>3 DEF RecordFiatBatchSettlement, OthersTyped, roleVars
<1>4. CASE \/ \E amount \in Deposits : DepositUSDC(amount)
           \/ \E amount \in Requests : WithdrawAmilShareUSDC(amount)
  BY <1>1, <1>4 DEF DepositUSDC, WithdrawAmilShareUSDC, OthersTyped, roleVars
<1>5. CASE \E sender \in People, currency \in Currencies, amount \in Requests, claim \in Claims :
              ProposeDisbursement(sender, currency, amount, claim)
  BY <1>1, <1>5 DEF ProposeDisbursement, OthersTyped, roleVars
<1>6. CASE \E sender \in People, p \in Proposals :
              ApproveDisbursement(sender, p) \/ CancelProposal(sender, p)
  BY <1>1, <1>6 DEF ApproveDisbursement, CancelProposal, OthersTyped, roleVars
<1>7. ASSUME NEW p \in Proposals, ExecuteFiat(p)
      PROVE  OthersTyped'
  <2>1. claimed' = claimed \cup {terms[p].claim} /\ UNCHANGED <<roleVars, settled, paying>>
    BY <1>7 DEF ExecuteFiat, Conclude
  <2>2. terms[p].claim \in Claims
    BY <1>7, TermsExist DEF ExecuteFiat, Executable
  <2> QED
    BY <1>1, <2>1, <2>2 DEF OthersTyped, roleVars
<1>8. CASE \E p \in Proposals : TransferUSDC(p)
  BY <1>1, <1>8 DEF TransferUSDC, OthersTyped, roleVars
<1>9. CASE ConcludeTransfer
  <2>1. /\ claimed' = claimed \cup {terms[paying].claim} /\ paying' = NoProposal
        /\ UNCHANGED <<roleVars, settled>>
    BY <1>9 DEF ConcludeTransfer, Conclude
  <2>2. paying \in Proposals /\ status[paying] = "Approved"
    BY <1>1, <1>9 DEF ConcludeTransfer, ProtocolInv, PayingIsApproved, OthersTyped
  <2>3. terms[paying].claim \in Claims
    BY <2>2, TermsExist
  <2> QED
    BY <1>1, <2>1, <2>3 DEF OthersTyped, roleVars
<1>10. CASE UNCHANGED vars
  BY <1>1, <1>10 DEF vars, OthersTyped, roleVars
<1> QED
  BY <1>2, <1>3, <1>4, <1>5, <1>6, <1>7, <1>8, <1>9, <1>10 DEF Next

LEMMA ProposalsStep ==
    ASSUME TypeOK, ProtocolInv, [Next]_vars
    PROVE  ProposalsTyped'
<1>1. ProposalsTyped
  BY DEF TypeOK, ProposalsTyped
<1>2. CASE UNCHANGED proposalVars
  BY <1>1, <1>2 DEF proposalVars, ProposalsTyped
<1>3. ASSUME NEW sender \in People, NEW currency \in Currencies, NEW amount \in Requests,
             NEW claim \in Claims, ProposeDisbursement(sender, currency, amount, claim)
      PROVE  ProposalsTyped'
  <2>1. counter + 1 \in Proposals /\ counter' = counter + 1 /\ counter \in Nat
    BY <1>1, <1>3 DEF ProposeDisbursement, ProposalsTyped, Proposals
  <2>2. [currency |-> currency, amount |-> amount, claim |-> claim] \in Terms
    BY DEF Terms
  <2>3. terms' \in [1..counter' -> Terms]
    <3>1. terms' = [p \in 1..(counter + 1) |->
                      IF p = counter + 1
                        THEN [currency |-> currency, amount |-> amount, claim |-> claim]
                        ELSE terms[p]]
      BY <1>3 DEF ProposeDisbursement
    <3>2. \A p \in 1..(counter + 1) : p # counter + 1 => p \in 1..counter
      BY <2>1
    <3>3. \A p \in 1..counter : terms[p] \in Terms
      BY <1>1 DEF ProposalsTyped
    <3> QED
      BY <2>1, <2>2, <3>1, <3>2, <3>3
  <2>4. status' = [status EXCEPT ![counter + 1] = "Pending"]
    BY <1>3 DEF ProposeDisbursement
  <2>5. /\ status' \in [Proposals -> Statuses]
        /\ \A p \in Proposals : status'[p] = "Absent" <=> p > counter'
    BY <1>1, <2>1, <2>4 DEF ProposalsTyped, Statuses, Proposals
  <2>6. count' \in [Proposals -> Nat] /\ approvers' \in [Proposals -> SUBSET People]
    BY <1>1, <1>3 DEF ProposeDisbursement, ProposalsTyped
  <2>7. counter' \in 0..MaxProposals
    BY <2>1 DEF Proposals
  <2> QED
    BY <2>3, <2>5, <2>6, <2>7 DEF ProposalsTyped
<1>4. ASSUME NEW sender \in People, NEW p \in Proposals,
             ApproveDisbursement(sender, p) \/ CancelProposal(sender, p)
      PROVE  ProposalsTyped'
  <2>1. /\ status[p] = "Pending" /\ UNCHANGED <<counter, terms>>
        /\ \/ status' = status \/ status' = [status EXCEPT ![p] = "Approved"]
           \/ status' = [status EXCEPT ![p] = "Cancelled"]
    BY <1>4 DEF ApproveDisbursement, CancelProposal
  <2>2. /\ status' \in [Proposals -> Statuses]
        /\ \A q \in Proposals : status'[q] = "Absent" <=> q > counter
    BY <1>1, <2>1 DEF ProposalsTyped, Statuses
  <2>3. count' \in [Proposals -> Nat] /\ approvers' \in [Proposals -> SUBSET People]
    BY <1>1, <1>4 DEF ApproveDisbursement, CancelProposal, ProposalsTyped
  <2> QED
    BY <1>1, <2>1, <2>2, <2>3 DEF ProposalsTyped
<1>5. ASSUME NEW p \in Proposals, status[p] = "Approved",
             UNCHANGED <<counter, terms, count, approvers>>, Conclude(p)
      PROVE  ProposalsTyped'
  <2>1. /\ status' \in [Proposals -> Statuses]
        /\ \A q \in Proposals : status'[q] = "Absent" <=> q > counter
    BY <1>1, <1>5 DEF Conclude, ProposalsTyped, Statuses
  <2> QED
    BY <1>1, <1>5, <2>1 DEF ProposalsTyped
<1>6. ASSUME NEW p \in Proposals, ExecuteFiat(p)
      PROVE  ProposalsTyped'
  <2>1. Conclude(p) /\ UNCHANGED <<counter, terms, count, approvers>> /\ Executable(p)
    BY <1>6 DEF ExecuteFiat
  <2> QED
    BY <1>5, <2>1, ExecutableIsApproved
<1>7. CASE ConcludeTransfer
  <2>1. Conclude(paying) /\ UNCHANGED <<counter, terms, count, approvers>>
    BY <1>7 DEF ConcludeTransfer
  <2>2. paying \in Proposals /\ status[paying] = "Approved"
    BY <1>7 DEF ConcludeTransfer, ProtocolInv, PayingIsApproved, TypeOK
  <2> QED
    BY <1>5, <2>1, <2>2
<1>8. ASSUME \/ \E role \in Roles, person \in People : ChangeRole(role, person)
             \/ \E batch \in Batches : RecordFiatBatchSettlement(batch)
             \/ \E amount \in Deposits : DepositUSDC(amount)
             \/ \E amount \in Requests : WithdrawAmilShareUSDC(amount)
             \/ \E p \in Proposals : TransferUSDC(p)
             \/ UNCHANGED vars
      PROVE  UNCHANGED proposalVars
  BY <1>8 DEF ChangeRole, RecordFiatBatchSettlement, DepositUSDC, WithdrawAmilShareUSDC,
              TransferUSDC, vars
<1> QED
  BY <1>2, <1>3, <1>4, <1>6, <1>7, <1>8 DEF Next

LEMMA StepTyped ==
    ASSUME TypeOK, ProtocolInv, BooksBalance, [Next]_vars
    PROVE  TypeOK'
  BY BooksStep, OthersStep, ProposalsStep DEF TypeOK, OthersTyped, ProposalsTyped

(***************************************************************************)
(* The invariant, action by action.                                        *)
(***************************************************************************)
LEMMA InitProtocol == Init => ProtocolInv
  BY DEF Init, ProtocolInv, OneBeforeQuorum, PayingIsApproved, QuorumStands, PaidOnce

\* Proposals are added, and their terms never change.
LEMMA TermsStay ==
    ASSUME TypeOK, [Next]_vars, NEW p \in Proposals, status[p] # "Absent"
    PROVE  terms'[p] = terms[p]
<1>1. p \in 1..counter /\ counter \in Nat
  BY TermsExist DEF TypeOK
<1>2. ASSUME NEW sender \in People, NEW currency \in Currencies, NEW amount \in Requests,
             NEW claim \in Claims, ProposeDisbursement(sender, currency, amount, claim)
      PROVE  terms'[p] = terms[p]
  <2>1. p \in 1..(counter + 1) /\ p # counter + 1
    BY <1>1
  <2> QED
    BY <1>2, <2>1 DEF ProposeDisbursement
<1>3. ASSUME \/ \E role \in Roles, person \in People : ChangeRole(role, person)
             \/ \E batch \in Batches : RecordFiatBatchSettlement(batch)
             \/ \E amount \in Deposits : DepositUSDC(amount)
             \/ \E amount \in Requests : WithdrawAmilShareUSDC(amount)
             \/ \E sender \in People, q \in Proposals :
                   ApproveDisbursement(sender, q) \/ CancelProposal(sender, q)
             \/ \E q \in Proposals : ExecuteFiat(q) \/ TransferUSDC(q)
             \/ ConcludeTransfer \/ UNCHANGED vars
      PROVE  UNCHANGED terms
  BY <1>3 DEF ChangeRole, RecordFiatBatchSettlement, DepositUSDC, WithdrawAmilShareUSDC,
              ApproveDisbursement, CancelProposal, ExecuteFiat, TransferUSDC,
              ConcludeTransfer, vars, proposalVars
<1> QED
  BY <1>2, <1>3 DEF Next

LEMMA ProposeKeeps ==
    ASSUME TypeOK, ProtocolInv, NEW sender \in People, NEW currency \in Currencies,
           NEW amount \in Requests, NEW claim \in Claims,
           ProposeDisbursement(sender, currency, amount, claim)
    PROVE  ProtocolInv'
<1> DEFINE new == counter + 1
<1>1. new \in Proposals /\ status[new] = "Absent"
  BY DEF ProposeDisbursement, TypeOK, Proposals
<1>2. /\ status' = [status EXCEPT ![new] = "Pending"] /\ count' = [count EXCEPT ![new] = 1]
      /\ approvers' = [approvers EXCEPT ![new] = {sender}] /\ UNCHANGED <<claimed, paying>>
  BY DEF ProposeDisbursement
<1>3. \A p \in Proposals : status[p] # "Absent" => terms'[p] = terms[p]
  BY TermsStay DEF Next
<1> HIDE DEF new
<1>4. /\ status'[new] = "Pending" /\ count'[new] = 1 /\ approvers'[new] = {sender}
      /\ \A p \in Proposals : p # new =>
            status'[p] = status[p] /\ count'[p] = count[p] /\ approvers'[p] = approvers[p]
  BY <1>1, <1>2 DEF TypeOK
<1>5. OneBeforeQuorum' /\ QuorumStands'
  BY <1>4 DEF ProtocolInv, OneBeforeQuorum, QuorumStands
<1>6. PayingIsApproved'
  BY <1>1, <1>2, <1>4 DEF ProtocolInv, PayingIsApproved, TypeOK
<1>7. PaidOnce'
  <2>1. \A p \in Proposals : status'[p] = "Executed" =>
            status[p] = "Executed" /\ terms'[p] = terms[p]
    BY <1>3, <1>4
  <2>2. paying # NoProposal => terms'[paying] = terms[paying]
    BY <1>3 DEF ProtocolInv, PayingIsApproved, TypeOK
  <2> QED
    BY <1>2, <2>1, <2>2 DEF ProtocolInv, PaidOnce
<1> QED
  BY <1>5, <1>6, <1>7 DEF ProtocolInv

\* The second approval is that of another account.
LEMMA ApproveKeeps ==
    ASSUME TypeOK, ProtocolInv, NEW sender \in People, NEW p \in Proposals,
           ApproveDisbursement(sender, p)
    PROVE  ProtocolInv'
<1>1. PICK one \in People : approvers[p] = {one} /\ count[p] = 1 /\ sender # one
  BY DEF ApproveDisbursement, ProtocolInv, OneBeforeQuorum
<1>2. /\ status[p] = "Pending" /\ UNCHANGED <<terms, claimed, paying>>
      /\ approvers' = [approvers EXCEPT ![p] = approvers[p] \cup {sender}]
      /\ count' = [count EXCEPT ![p] = count[p] + 1]
      /\ status' = IF count[p] + 1 >= 2 THEN [status EXCEPT ![p] = "Approved"] ELSE status
  BY DEF ApproveDisbursement, REQUIRED_APPROVALS
<1>3. /\ status'[p] = "Approved" /\ approvers'[p] = {one, sender}
      /\ \A q \in Proposals : q # p =>
            status'[q] = status[q] /\ count'[q] = count[q] /\ approvers'[q] = approvers[q]
  BY <1>1, <1>2 DEF TypeOK
<1>4. OneBeforeQuorum' /\ QuorumStands'
  BY <1>1, <1>3 DEF ProtocolInv, OneBeforeQuorum, QuorumStands
<1>5. PayingIsApproved' /\ PaidOnce'
  BY <1>2, <1>3 DEF ProtocolInv, PayingIsApproved, PaidOnce, TypeOK
<1> QED
  BY <1>4, <1>5 DEF ProtocolInv

LEMMA CancelKeeps ==
    ASSUME TypeOK, ProtocolInv, NEW sender \in People, NEW p \in Proposals,
           CancelProposal(sender, p)
    PROVE  ProtocolInv'
<1>1. /\ status[p] = "Pending" /\ status' = [status EXCEPT ![p] = "Cancelled"]
      /\ UNCHANGED <<terms, count, approvers, claimed, paying>>
  BY DEF CancelProposal
<1>2. status'[p] = "Cancelled" /\ \A q \in Proposals : q # p => status'[q] = status[q]
  BY <1>1 DEF TypeOK
<1>3. OneBeforeQuorum' /\ QuorumStands'
  BY <1>1, <1>2 DEF ProtocolInv, OneBeforeQuorum, QuorumStands, REQUIRED_APPROVALS
<1>4. PayingIsApproved' /\ PaidOnce'
  BY <1>1, <1>2 DEF ProtocolInv, PayingIsApproved, PaidOnce, TypeOK
<1> QED
  BY <1>3, <1>4 DEF ProtocolInv

\* A payment is concluded for a claim that nobody was paid for.
LEMMA ConcludeKeeps ==
    ASSUME TypeOK, ProtocolInv, NEW p \in Proposals, status[p] = "Approved",
           terms[p].claim \notin claimed, Conclude(p), paying' = NoProposal,
           UNCHANGED <<terms, count, approvers>>
    PROVE  ProtocolInv'
<1>1. /\ status'[p] = "Executed" /\ (\A q \in Proposals : q # p => status'[q] = status[q])
      /\ claimed' = claimed \cup {terms[p].claim}
  BY DEF Conclude, TypeOK
<1>2. OneBeforeQuorum' /\ QuorumStands'
  BY <1>1 DEF ProtocolInv, OneBeforeQuorum, QuorumStands
<1>3. PayingIsApproved'
  BY DEF PayingIsApproved
<1>4. PaidOnce'
  BY <1>1 DEF ProtocolInv, PaidOnce
<1> QED
  BY <1>2, <1>3, <1>4 DEF ProtocolInv

LEMMA StepKeeps ==
    ASSUME TypeOK, ProtocolInv, [Next]_vars
    PROVE  ProtocolInv'
<1>1. ASSUME NEW p \in Proposals, ExecuteFiat(p)
      PROVE  ProtocolInv'
  <2>1. /\ Conclude(p) /\ Executable(p) /\ paying' = NoProposal
        /\ UNCHANGED <<terms, count, approvers>> /\ terms[p].claim \notin claimed
    BY <1>1 DEF ExecuteFiat, Executable
  <2> QED
    BY <2>1, ConcludeKeeps, ExecutableIsApproved
<1>2. CASE ConcludeTransfer
  <2>1. /\ Conclude(paying) /\ paying # NoProposal /\ paying' = NoProposal
        /\ UNCHANGED <<terms, count, approvers>>
    BY <1>2 DEF ConcludeTransfer
  <2>2. /\ paying \in Proposals /\ status[paying] = "Approved"
        /\ terms[paying].claim \notin claimed
    BY <2>1 DEF ProtocolInv, PayingIsApproved, PaidOnce, TypeOK
  <2> QED
    BY <2>1, <2>2, ConcludeKeeps
<1>3. ASSUME NEW p \in Proposals, TransferUSDC(p)
      PROVE  ProtocolInv'
  <2>1. /\ Executable(p) /\ paying' = p /\ terms[p].claim \notin claimed
        /\ UNCHANGED <<status, terms, count, approvers, claimed>>
    BY <1>3 DEF TransferUSDC, Executable, proposalVars
  <2>2. status[p] = "Approved"
    BY <2>1, ExecutableIsApproved
  <2> QED
    BY <2>1, <2>2 DEF ProtocolInv, OneBeforeQuorum, PayingIsApproved, QuorumStands, PaidOnce
<1>4. ASSUME \/ \E role \in Roles, person \in People : ChangeRole(role, person)
             \/ \E batch \in Batches : RecordFiatBatchSettlement(batch)
             \/ \E amount \in Deposits : DepositUSDC(amount)
             \/ \E amount \in Requests : WithdrawAmilShareUSDC(amount)
             \/ UNCHANGED vars
      PROVE  UNCHANGED <<status, terms, count, approvers, claimed, paying>>
  BY <1>4 DEF ChangeRole, RecordFiatBatchSettlement, DepositUSDC, WithdrawAmilShareUSDC,
              vars, proposalVars
<1>5. CASE UNCHANGED <<status, terms, count, approvers, claimed, paying>>
  BY <1>5 DEF ProtocolInv, OneBeforeQuorum, PayingIsApproved, QuorumStands, PaidOnce
<1> QED
  BY <1>1, <1>2, <1>3, <1>4, <1>5, ProposeKeeps, ApproveKeeps, CancelKeeps DEF Next

(***************************************************************************)
(* The ledger of what was paid out.  A proposal is added to the executed   *)
(* ones, with its amount to the sum, where the code debits the vault; the  *)
(* end of its transfer adds it no second time.                             *)
(***************************************************************************)
Amounts == [p \in 1..counter |-> terms[p].amount]

PaidOut(currency) == {p \in 1..counter : /\ status[p] = "Executed" \/ paying = p
                                         /\ terms[p].currency = currency}

LEMMA PaidOutFinite ==
    ASSUME TypeOK, NEW currency \in Currencies
    PROVE  /\ IsFiniteSet(PaidOut(currency)) /\ PaidOut(currency) \subseteq Proposals
           /\ \A p \in PaidOut(currency) : status[p] # "Absent" /\ Amounts[p] \in Nat
<1>1. counter \in Int /\ 1..counter \subseteq Proposals
  BY DEF TypeOK, Proposals
<1>2. IsFiniteSet(1..counter)
  BY <1>1, FS_Interval
<1>3. \A p \in 1..counter : status[p] # "Absent"
  BY <1>1 DEF TypeOK
<1> QED
  BY <1>1, <1>2, <1>3, TermsExist, FS_Subset DEF PaidOut, Amounts

\* A step that pays nobody in a currency leaves its sum alone.
LEMMA NothingPaid ==
    ASSUME TypeOK, [Next]_vars, NEW currency \in Currencies,
           disbursed[currency] = SumFunctionOnSet(Amounts, PaidOut(currency)),
           disbursed'[currency] = disbursed[currency], PaidOut(currency)' = PaidOut(currency)
    PROVE  disbursed'[currency] = SumFunctionOnSet(Amounts', PaidOut(currency)')
<1>1. /\ IsFiniteSet(PaidOut(currency)) /\ PaidOut(currency) \subseteq Proposals
      /\ \A p \in PaidOut(currency) : status[p] # "Absent" /\ Amounts[p] \in Nat
  BY PaidOutFinite
<1>2. \A p \in PaidOut(currency) : terms'[p] = terms[p] /\ p \in 1..counter /\ p \in 1..counter'
  BY <1>1, TermsStay DEF PaidOut
<1>3. \A p \in PaidOut(currency) : Amounts[p] \in Nat /\ Amounts[p] = Amounts'[p]
  BY <1>1, <1>2 DEF Amounts
<1>4. SumFunctionOnSet(Amounts, PaidOut(currency)) = SumFunctionOnSet(Amounts', PaidOut(currency))
  BY <1>1, <1>3, SumSame
<1> QED
  BY <1>4

\* Paying p debits the vault of its currency, and there adds p to the sum.
LEMMA PaysOne ==
    ASSUME TypeOK, TypeOK', ProtocolInv, [Next]_vars, DisbursedIsExecuted,
           NEW p \in Proposals, Executable(p), Debit(terms[p].currency, terms[p].amount),
           UNCHANGED <<counter, terms>>, paying = NoProposal,
           \A q \in Proposals : (status'[q] = "Executed" \/ paying' = q)
                                  <=> (status[q] = "Executed" \/ q = p)
    PROVE  DisbursedIsExecuted'
<1> SUFFICES ASSUME NEW currency \in Currencies
             PROVE  disbursed'[currency] = SumFunctionOnSet(Amounts', PaidOut(currency)')
  BY DEF DisbursedIsExecuted, Amounts, PaidOut
<1>1. /\ status[p] = "Approved" /\ p \in 1..counter /\ terms[p].amount \in Nat
      /\ terms[p].currency \in Currencies
  BY ExecutableIsApproved, TermsExist
<1>2. /\ \A c \in Currencies : c # terms[p].currency => disbursed'[c] = disbursed[c]
      /\ disbursed'[terms[p].currency] = disbursed[terms[p].currency] + terms[p].amount
  BY <1>1, DebitKeeps DEF Executable
<1>3. disbursed[currency] = SumFunctionOnSet(Amounts, PaidOut(currency))
  BY DEF DisbursedIsExecuted, Amounts, PaidOut
<1>4. \A q \in 1..counter : q \in Proposals /\ paying # q
  BY DEF TypeOK, Proposals, NoProposal
<1>5. CASE currency # terms[p].currency
  <2>1. PaidOut(currency)' = PaidOut(currency)
    BY <1>4, <1>5 DEF PaidOut
  <2> QED
    BY <1>2, <1>3, <1>5, <2>1, NothingPaid
<1>6. CASE currency = terms[p].currency
  <2>1. PaidOut(currency)' \ {p} = PaidOut(currency) /\ p \in PaidOut(currency)'
    BY <1>1, <1>4, <1>6 DEF PaidOut
  <2>2. Amounts' = Amounts /\ Amounts[p] = terms[p].amount
    BY <1>1 DEF Amounts
  <2>3. /\ IsFiniteSet(PaidOut(currency)')
        /\ \A q \in PaidOut(currency)' : Amounts[q] \in Nat
    <3>1. IsFiniteSet(PaidOut(currency)) /\ \A q \in PaidOut(currency) : Amounts[q] \in Nat
      BY PaidOutFinite
    <3>2. PaidOut(currency)' = PaidOut(currency) \cup {p}
      BY <2>1
    <3> QED
      BY <1>1, <2>2, <3>1, <3>2, FS_AddElement
  <2>4. SumFunctionOnSet(Amounts, PaidOut(currency)')
           = Amounts[p] + SumFunctionOnSet(Amounts, PaidOut(currency)' \ {p})
    BY <2>1, <2>3, SumWithout
  <2>5. disbursed[currency] \in Nat
    BY DEF TypeOK
  <2> QED
    BY <1>1, <1>2, <1>3, <1>6, <2>1, <2>2, <2>4, <2>5
<1> QED
  BY <1>5, <1>6

LEMMA InitDisbursed == Init => DisbursedIsExecuted
<1> SUFFICES ASSUME Init, NEW currency \in Currencies
             PROVE  disbursed[currency] = SumFunctionOnSet(Amounts, PaidOut(currency))
  BY DEF DisbursedIsExecuted, Amounts, PaidOut
<1>1. PaidOut(currency) = {}
  BY DEF PaidOut, Init
<1>2. Units(Amounts, {}) = {}
  BY DEF Units
<1>3. SumFunctionOnSet(Amounts, {}) = 0
  BY <1>2, SumCounts, FS_EmptySet
<1> QED
  BY <1>1, <1>3 DEF Init

LEMMA DisbursedStep ==
    ASSUME TypeOK, TypeOK', ProtocolInv, DisbursedIsExecuted, [Next]_vars
    PROVE  DisbursedIsExecuted'
<1>1. ASSUME UNCHANGED disbursed, \A currency \in Currencies : PaidOut(currency)' = PaidOut(currency)
      PROVE  DisbursedIsExecuted'
  <2>1. \A currency \in Currencies :
           disbursed'[currency] = SumFunctionOnSet(Amounts', PaidOut(currency)')
    BY <1>1, NothingPaid DEF DisbursedIsExecuted, Amounts, PaidOut
  <2> QED
    BY <2>1 DEF DisbursedIsExecuted, Amounts, PaidOut
<1>2. ASSUME NEW p \in Proposals, ExecuteFiat(p)
      PROVE  DisbursedIsExecuted'
  <2>1. /\ Executable(p) /\ Debit(terms[p].currency, terms[p].amount) /\ paying = NoProposal
        /\ UNCHANGED <<counter, terms, paying>> /\ status' = [status EXCEPT ![p] = "Executed"]
    BY <1>2 DEF ExecuteFiat, Conclude
  <2>2. \A q \in Proposals : (status'[q] = "Executed" \/ paying' = q)
                               <=> (status[q] = "Executed" \/ q = p)
    BY <2>1 DEF TypeOK, Proposals, NoProposal
  <2> QED
    BY <2>1, <2>2, PaysOne
<1>3. ASSUME NEW p \in Proposals, TransferUSDC(p)
      PROVE  DisbursedIsExecuted'
  <2>1. /\ Executable(p) /\ Debit(terms[p].currency, terms[p].amount) /\ paying = NoProposal
        /\ UNCHANGED <<counter, terms, status>> /\ paying' = p
    BY <1>3 DEF TransferUSDC, proposalVars
  <2> QED
    BY <2>1, PaysOne
<1>4. CASE ConcludeTransfer
  <2>1. /\ paying \in Proposals /\ status' = [status EXCEPT ![paying] = "Executed"]
        /\ paying' = NoProposal /\ UNCHANGED <<disbursed, counter, terms>>
    BY <1>4 DEF ConcludeTransfer, Conclude, TypeOK, ledgerVars
  <2>2. \A q \in 1..counter : (status'[q] = "Executed" \/ paying' = q)
                                <=> (status[q] = "Executed" \/ paying = q)
    BY <2>1 DEF TypeOK, Proposals, NoProposal
  <2> QED
    BY <1>1, <2>1, <2>2 DEF PaidOut
<1>5. ASSUME NEW sender \in People, NEW currency \in Currencies, NEW amount \in Requests,
             NEW claim \in Claims, ProposeDisbursement(sender, currency, amount, claim)
      PROVE  DisbursedIsExecuted'
  <2>1. /\ UNCHANGED <<disbursed, paying>> /\ counter' = counter + 1 /\ counter \in Nat
        /\ status' = [status EXCEPT ![counter + 1] = "Pending"]
        /\ counter + 1 \in Proposals /\ status \in [Proposals -> Statuses]
    BY <1>5 DEF ProposeDisbursement, ledgerVars, TypeOK, Proposals
  <2>2. \A q \in 1..counter : q \in Proposals /\ status'[q] = status[q] /\ terms'[q] = terms[q]
    <3>1. \A q \in 1..counter : q \in Proposals /\ status[q] # "Absent" /\ q # counter + 1
      BY <2>1 DEF TypeOK, Proposals
    <3> QED
      BY <2>1, <3>1, TermsStay
  <2>3. status'[counter + 1] # "Executed" /\ paying # counter + 1
    <3>1. status[counter + 1] = "Absent"
      BY <2>1 DEF TypeOK
    <3> QED
      BY <2>1, <3>1 DEF ProtocolInv, PayingIsApproved, Proposals, NoProposal
  <2>4. 1..counter' = 1..counter \cup {counter + 1}
    BY <2>1
  <2>5. \A c \in Currencies : PaidOut(c)' = PaidOut(c)
    BY <2>1, <2>2, <2>3, <2>4 DEF PaidOut
  <2> QED
    BY <1>1, <2>1, <2>5
<1>6. ASSUME NEW sender \in People, NEW p \in Proposals,
             ApproveDisbursement(sender, p) \/ CancelProposal(sender, p)
      PROVE  DisbursedIsExecuted'
  <2>1. /\ UNCHANGED <<disbursed, counter, terms, paying>>
        /\ \A q \in Proposals : status'[q] = "Executed" <=> status[q] = "Executed"
    BY <1>6 DEF ApproveDisbursement, CancelProposal, ledgerVars, TypeOK
  <2>2. 1..counter \subseteq Proposals
    BY DEF TypeOK, Proposals
  <2> QED
    BY <1>1, <2>1, <2>2 DEF PaidOut
<1>7. ASSUME \/ \E role \in Roles, person \in People : ChangeRole(role, person)
             \/ \E batch \in Batches : RecordFiatBatchSettlement(batch)
             \/ \E amount \in Deposits : DepositUSDC(amount)
             \/ \E amount \in Requests : WithdrawAmilShareUSDC(amount)
             \/ UNCHANGED vars
      PROVE  UNCHANGED <<disbursed, counter, status, terms, paying>>
  BY <1>7 DEF ChangeRole, RecordFiatBatchSettlement, DepositUSDC, WithdrawAmilShareUSDC,
              vars, ledgerVars, proposalVars
<1>8. CASE UNCHANGED <<disbursed, counter, status, terms, paying>>
  BY <1>1, <1>8 DEF PaidOut
<1> QED
  BY <1>2, <1>3, <1>4, <1>5, <1>6, <1>7, <1>8 DEF Next

LEMMA Invariance == Spec => [](TypeOK /\ ProtocolInv /\ BooksBalance /\ DisbursedIsExecuted)
<1>1. Init => TypeOK /\ ProtocolInv /\ BooksBalance /\ DisbursedIsExecuted
  BY InitTyped, InitProtocol, InitBooks, InitDisbursed
<1>2. (TypeOK /\ ProtocolInv /\ BooksBalance /\ DisbursedIsExecuted) /\ [Next]_vars
         => (TypeOK /\ ProtocolInv /\ BooksBalance /\ DisbursedIsExecuted)'
  BY StepTyped, StepKeeps, BooksStep, DisbursedStep
<1> QED
  BY <1>1, <1>2, PTL DEF Spec

(***************************************************************************)
(* The theorems.                                                           *)
(***************************************************************************)
\* Every variable keeps its type; in particular no vault is overdrawn.
THEOREM TypeCorrect == Spec => []TypeOK
  BY Invariance, PTL

\* The books balance, the contract can pay what it owes, and the amil's share
\* stays within its cap.
THEOREM BooksAlwaysBalance == Spec => []BooksBalance
  BY Invariance, PTL

\* No beneficiary is paid twice for a period.
THEOREM NobodyIsPaidTwice == Spec => []PaidOnce
  BY Invariance, PTL DEF ProtocolInv

\* What was approved or executed had two approvers, what was cancelled had not.
THEOREM QuorumAlwaysStands == Spec => []QuorumStands
  BY Invariance, PTL DEF ProtocolInv

\* What left each vault is the sum of what the executed proposals ask for, the one
\* whose transfer is under way included (executeDisbursement).
THEOREM DisbursedIsAccounted == Spec => []DisbursedIsExecuted
  BY Invariance, PTL

\* Executed and cancelled are final.
LEMMA FinalStays ==
    ASSUME TypeOK, ProtocolInv, [Next]_vars, NEW p \in Proposals,
           status[p] \in {"Executed", "Cancelled"}
    PROVE  status'[p] = status[p]
<1>1. ASSUME NEW sender \in People, NEW currency \in Currencies, NEW amount \in Requests,
             NEW claim \in Claims, ProposeDisbursement(sender, currency, amount, claim)
      PROVE  status'[p] = status[p]
  <2>1. p # counter + 1
    BY DEF TypeOK, Proposals
  <2> QED
    BY <1>1, <2>1 DEF ProposeDisbursement, TypeOK
<1>2. ASSUME NEW sender \in People, NEW q \in Proposals,
             ApproveDisbursement(sender, q) \/ CancelProposal(sender, q)
      PROVE  status'[p] = status[p]
  <2>1. p # q
    BY <1>2 DEF ApproveDisbursement, CancelProposal
  <2> QED
    BY <1>2, <2>1 DEF ApproveDisbursement, CancelProposal, TypeOK
<1>3. ASSUME NEW q \in Proposals, status[q] = "Approved", Conclude(q)
      PROVE  status'[p] = status[p]
  BY <1>3 DEF Conclude, TypeOK
<1>4. ASSUME NEW q \in Proposals, ExecuteFiat(q)
      PROVE  status'[p] = status[p]
  BY <1>3, <1>4, ExecutableIsApproved DEF ExecuteFiat
<1>5. CASE ConcludeTransfer
  <2>1. paying \in Proposals /\ status[paying] = "Approved" /\ Conclude(paying)
    BY <1>5 DEF ConcludeTransfer, ProtocolInv, PayingIsApproved, TypeOK
  <2> QED
    BY <1>3, <2>1
<1>6. ASSUME \/ \E role \in Roles, person \in People : ChangeRole(role, person)
             \/ \E batch \in Batches : RecordFiatBatchSettlement(batch)
             \/ \E amount \in Deposits : DepositUSDC(amount)
             \/ \E amount \in Requests : WithdrawAmilShareUSDC(amount)
             \/ \E q \in Proposals : TransferUSDC(q)
             \/ UNCHANGED vars
      PROVE  UNCHANGED status
  BY <1>6 DEF ChangeRole, RecordFiatBatchSettlement, DepositUSDC, WithdrawAmilShareUSDC,
              TransferUSDC, vars, proposalVars
<1> QED
  BY <1>1, <1>2, <1>4, <1>5, <1>6 DEF Next

\* A proposal keeps its terms, and its outcome once it has one.
THEOREM OutcomesStand == Spec => OutcomeStands
<1>1. TypeOK /\ ProtocolInv /\ [Next]_vars =>
          [\A p \in 1..counter :
              /\ terms'[p] = terms[p]
              /\ status[p] \in {"Executed", "Cancelled"} => status'[p] = status[p]]_vars
  <2> SUFFICES ASSUME TypeOK, ProtocolInv, [Next]_vars, NEW p \in 1..counter
               PROVE  /\ terms'[p] = terms[p]
                      /\ status[p] \in {"Executed", "Cancelled"} => status'[p] = status[p]
    OBVIOUS
  <2>1. p \in Proposals /\ status[p] # "Absent"
    BY DEF TypeOK, Proposals
  <2> QED
    BY <2>1, TermsStay, FinalStays
<1> QED
  BY <1>1, Invariance, PTL DEF Spec, OutcomeStands

==============================================================================
