---------------------------- MODULE ZakatProtocol ----------------------------
(***************************************************************************)
(* ZakatProtocolL1.sol: the rupiah ledger and the USDC vault, and the      *)
(* disbursements that two approvers release.  A call that reverts changes  *)
(* nothing, so each action is a call that succeeds, run to its end; only   *)
(* the USDC transfer of a disbursement, after which the contract goes on   *)
(* writing, is a step in which the token may call the contract back.       *)
(* Amounts stay far below 2^256, where the arithmetic would revert.        *)
(***************************************************************************)
EXTENDS Integers, FiniteSets, Functions

CONSTANTS
    People,         \* accounts that may hold a role, contracts among them
    Batches,        \* fiat batches
    Beneficiaries, Periods,
    Deposits,       \* amounts that come in
    Requests,       \* amounts proposed for disbursement
    MaxCollected,   \* bound: USDC deposited
    MaxProposals,   \* bound: proposals
    MaxRoleChanges  \* bound: roles granted or revoked after deployment

ASSUME ProtocolAssumption ==
    /\ Deposits \subseteq Nat \ {0} /\ Requests \subseteq Nat \ {0}
    /\ MaxCollected \in Nat /\ MaxProposals \in Nat /\ MaxRoleChanges \in Nat

VARIABLES
    roles, roleChanges,  \* AccessControl: the holders of each role
    settled,             \* the batches with a root
    collected, vault, amil, disbursed,  \* the two ledgers, by currency
    held,                \* usdcToken.balanceOf(this)
    withdrawn,           \* history: the AmilShareWithdrawn events
    counter, status, terms, count, approvers,  \* the proposals
    claimed,             \* hasReceivedZakat
    paying               \* the proposal inside the token's transfer, or NoProposal

roleVars     == <<roles, roleChanges>>
ledgerVars   == <<collected, vault, amil, disbursed, held, withdrawn>>
proposalVars == <<counter, status, terms, count, approvers>>
vars == <<roleVars, settled, ledgerVars, proposalVars, claimed, paying>>

Roles      == {"ADMIN", "RELAYER", "AUDITOR", "SUPERVISOR"}
Currencies == {"IDR", "USDC"}
Statuses   == {"Absent", "Pending", "Approved", "Executed", "Cancelled"}
Proposals  == 1..MaxProposals
NoProposal == 0
Claims     == Beneficiaries \X Periods
Terms      == [currency : Currencies, amount : Requests, claim : Claims]

MAX_AMIL_BPS       == 1250
REQUIRED_APPROVALS == 2

TypeOK ==
    /\ roles \in [Roles -> SUBSET People] /\ roleChanges \in 0..MaxRoleChanges
    /\ settled \subseteq Batches
    /\ collected \in [Currencies -> Nat] /\ vault \in [Currencies -> Nat]
    /\ amil \in [Currencies -> Nat] /\ disbursed \in [Currencies -> Nat]
    /\ held \in Nat /\ withdrawn \in Nat
    /\ counter \in 0..MaxProposals
    /\ status \in [Proposals -> Statuses]
    /\ \A p \in Proposals : status[p] = "Absent" <=> p > counter
    /\ terms \in [1..counter -> Terms]
    /\ count \in [Proposals -> Nat]
    /\ approvers \in [Proposals -> SUBSET People]
    /\ claimed \subseteq Claims
    /\ paying \in Proposals \cup {NoProposal}

\* One account may be deployed with several roles, as the deploy script does.
Init ==
    /\ roles \in [Roles -> {{person} : person \in People}] /\ roleChanges = 0
    /\ settled = {}
    /\ collected = [c \in Currencies |-> 0] /\ vault = [c \in Currencies |-> 0]
    /\ amil = [c \in Currencies |-> 0] /\ disbursed = [c \in Currencies |-> 0]
    /\ held = 0 /\ withdrawn = 0
    /\ counter = 0
    /\ status = [p \in Proposals |-> "Absent"]
    /\ terms \in [1..counter -> Terms]  \* none
    /\ count = [p \in Proposals |-> 0]
    /\ approvers = [p \in Proposals |-> {}]
    /\ claimed = {} /\ paying = NoProposal

HasRole(person, some) == \E role \in some : person \in roles[role]

\* grantRole, revokeRole and renounceRole: the admin role administers all.
ChangeRole(role, person) ==
    /\ roleChanges < MaxRoleChanges
    /\ roleChanges' = roleChanges + 1
    /\ \/ /\ roles["ADMIN"] # {} /\ person \notin roles[role]
          /\ roles' = [roles EXCEPT ![role] = @ \cup {person}]
       \/ /\ person \in roles[role]
          /\ roles' = [roles EXCEPT ![role] = @ \ {person}]
    /\ UNCHANGED <<settled, ledgerVars, proposalVars, claimed, paying>>

(***************************************************************************)
(* Money in.                                                               *)
(***************************************************************************)
AmilShare(amount) == (amount * MAX_AMIL_BPS) \div 10000

\* Faulty variant: both shares are computed by rounding down.
CreditRounded(currency, amount) ==
    /\ collected' = [collected EXCEPT ![currency] = @ + amount]
    /\ amil' = [amil EXCEPT ![currency] = @ + AmilShare(amount)]
    /\ vault' = [vault EXCEPT ![currency] =
                     @ + (amount * (10000 - MAX_AMIL_BPS)) \div 10000]

Credit(currency, amount) ==
    /\ collected' = [collected EXCEPT ![currency] = @ + amount]
    /\ amil' = [amil EXCEPT ![currency] = @ + AmilShare(amount)]
    /\ vault' = [vault EXCEPT ![currency] = @ + (amount - AmilShare(amount))]

RecordFiatBatchSettlement(batch) ==
    /\ \E relayer \in People : HasRole(relayer, {"RELAYER"})
    /\ batch \notin settled
    /\ settled' = settled \cup {batch}
    /\ \E amount \in Deposits : Credit("IDR", amount)
    /\ UNCHANGED <<roleVars, disbursed, held, withdrawn, proposalVars, claimed, paying>>

\* Nothing is read before the token is called, so a callback during the
\* transfer is the same as a call before this one.
DepositUSDC(amount) ==
    /\ collected["USDC"] + amount <= MaxCollected
    /\ held' = held + amount
    /\ Credit("USDC", amount)
    /\ UNCHANGED <<roleVars, settled, disbursed, withdrawn, proposalVars, claimed, paying>>

(***************************************************************************)
(* Proposals.                                                              *)
(***************************************************************************)
ProposeDisbursement(sender, currency, amount, claim) ==
    /\ HasRole(sender, {"ADMIN", "RELAYER"})
    /\ claim \notin claimed /\ amount <= vault[currency]
    /\ counter < MaxProposals
    /\ counter' = counter + 1
    /\ status' = [status EXCEPT ![counter + 1] = "Pending"]
    /\ terms' = [p \in 1..(counter + 1) |->
                   IF p = counter + 1
                     THEN [currency |-> currency, amount |-> amount, claim |-> claim]
                     ELSE terms[p]]
    /\ count' = [count EXCEPT ![counter + 1] = 1]
    /\ approvers' = [approvers EXCEPT ![counter + 1] = {sender}]
    /\ UNCHANGED <<roleVars, settled, ledgerVars, claimed, paying>>

\* Faulty variant: an approver may approve again.
ApproveAgain(sender, p) ==
    /\ HasRole(sender, {"ADMIN", "SUPERVISOR", "AUDITOR"})
    /\ status[p] = "Pending"
    /\ approvers' = [approvers EXCEPT ![p] = @ \cup {sender}]
    /\ count' = [count EXCEPT ![p] = @ + 1]
    /\ status' = IF count[p] + 1 >= REQUIRED_APPROVALS
                 THEN [status EXCEPT ![p] = "Approved"] ELSE status
    /\ UNCHANGED <<roleVars, settled, ledgerVars, counter, terms, claimed, paying>>

ApproveDisbursement(sender, p) ==
    /\ HasRole(sender, {"ADMIN", "SUPERVISOR", "AUDITOR"})
    /\ status[p] = "Pending" /\ sender \notin approvers[p]
    /\ approvers' = [approvers EXCEPT ![p] = @ \cup {sender}]
    /\ count' = [count EXCEPT ![p] = @ + 1]
    /\ status' = IF count[p] + 1 >= REQUIRED_APPROVALS
                 THEN [status EXCEPT ![p] = "Approved"] ELSE status
    /\ UNCHANGED <<roleVars, settled, ledgerVars, counter, terms, claimed, paying>>

\* Faulty variant: what is approved but not executed can be cancelled as well.
CancelLater(sender, p) ==
    /\ HasRole(sender, {"ADMIN", "SUPERVISOR"})
    /\ status[p] \in {"Pending", "Approved"}
    /\ status' = [status EXCEPT ![p] = "Cancelled"]
    /\ UNCHANGED <<roleVars, settled, ledgerVars, counter, terms, count, approvers,
                   claimed, paying>>

CancelProposal(sender, p) ==
    /\ HasRole(sender, {"ADMIN", "SUPERVISOR"})
    /\ status[p] = "Pending"
    /\ status' = [status EXCEPT ![p] = "Cancelled"]
    /\ UNCHANGED <<roleVars, settled, ledgerVars, counter, terms, count, approvers,
                   claimed, paying>>

(***************************************************************************)
(* Money out.                                                              *)
(***************************************************************************)
\* Faulty variant: the claim was compared when the proposal was made.
ExecutableClaimed(p) ==
    /\ status[p] # "Absent"
    /\ status[p] = "Approved" \/ count[p] >= REQUIRED_APPROVALS
    /\ status[p] # "Executed"
    /\ terms[p].amount <= vault[terms[p].currency]

\* The checks of executeDisbursement, which anybody may call.  A cancelled
\* proposal is refused only for want of approvals.
Executable(p) ==
    /\ status[p] # "Absent"
    /\ status[p] = "Approved" \/ count[p] >= REQUIRED_APPROVALS
    /\ status[p] # "Executed"
    /\ terms[p].claim \notin claimed
    /\ terms[p].amount <= vault[terms[p].currency]

Debit(currency, amount) ==
    /\ vault' = [vault EXCEPT ![currency] = @ - amount]
    /\ disbursed' = [disbursed EXCEPT ![currency] = @ + amount]

Conclude(p) ==
    /\ claimed' = claimed \cup {terms[p].claim}
    /\ status' = [status EXCEPT ![p] = "Executed"]

ExecuteFiat(p) ==
    /\ paying = NoProposal
    /\ Executable(p) /\ terms[p].currency = "IDR"
    /\ Debit("IDR", terms[p].amount)
    /\ Conclude(p)
    /\ UNCHANGED <<roleVars, settled, collected, amil, held, withdrawn, counter, terms,
                   count, approvers, paying>>

\* Faulty variant: nonReentrant is missing.
TransferReentrant(p) ==
    /\ Executable(p) /\ terms[p].currency = "USDC"
    /\ Debit("USDC", terms[p].amount)
    /\ held' \in {held - terms[p].amount, held}
    /\ paying' = p
    /\ UNCHANGED <<roleVars, settled, collected, amil, withdrawn, proposalVars, claimed>>

\* executeDisbursement up to the transfer; the recipient may be the contract
\* itself.  Until ConcludeTransfer, what runs is called back by the token.
TransferUSDC(p) ==
    /\ paying = NoProposal
    /\ Executable(p) /\ terms[p].currency = "USDC"
    /\ Debit("USDC", terms[p].amount)
    /\ held' \in {held - terms[p].amount, held}
    /\ paying' = p
    /\ UNCHANGED <<roleVars, settled, collected, amil, withdrawn, proposalVars, claimed>>

ConcludeTransfer ==
    /\ paying # NoProposal
    /\ Conclude(paying)
    /\ paying' = NoProposal
    /\ UNCHANGED <<roleVars, settled, ledgerVars, counter, terms, count, approvers>>

\* Nothing is written after the transfer of a withdrawal.
WithdrawAmilShareUSDC(amount) ==
    /\ paying = NoProposal
    /\ roles["ADMIN"] # {} /\ amount <= amil["USDC"]
    /\ amil' = [amil EXCEPT !["USDC"] = @ - amount]
    /\ held' \in {held - amount, held}
    /\ withdrawn' = withdrawn + amount
    /\ UNCHANGED <<roleVars, settled, collected, vault, disbursed, proposalVars, claimed,
                   paying>>

Next ==
    \/ \E role \in Roles, person \in People : ChangeRole(role, person)
    \/ \E batch \in Batches : RecordFiatBatchSettlement(batch)
    \/ \E amount \in Deposits : DepositUSDC(amount)
    \/ \E sender \in People, currency \in Currencies, amount \in Requests, claim \in Claims :
          ProposeDisbursement(sender, currency, amount, claim)
    \/ \E sender \in People, p \in Proposals :
          ApproveDisbursement(sender, p) \/ CancelProposal(sender, p)
    \/ \E p \in Proposals : ExecuteFiat(p) \/ TransferUSDC(p)
    \/ ConcludeTransfer
    \/ \E amount \in Requests : WithdrawAmilShareUSDC(amount)

Spec == Init /\ [][Next]_vars

(***************************************************************************)
(* Properties.                                                             *)
(***************************************************************************)
\* Every unit that came in is in a vault, with the amil, or was paid out; the
\* contract can pay both vaults; the amil's share, what was withdrawn of it
\* included, never exceeds MAX_AMIL_BPS of what came in, whatever the rounding.
BooksBalance ==
    /\ collected["IDR"] = vault["IDR"] + amil["IDR"] + disbursed["IDR"]
    /\ collected["USDC"] = vault["USDC"] + amil["USDC"] + disbursed["USDC"] + withdrawn
    /\ \A c \in Currencies : vault[c] >= 0 /\ amil[c] >= 0
    /\ held >= vault["USDC"] + amil["USDC"]
    /\ 10000 * amil["IDR"] <= MAX_AMIL_BPS * collected["IDR"]
    /\ 10000 * (amil["USDC"] + withdrawn) <= MAX_AMIL_BPS * collected["USDC"]

\* A beneficiary is paid once in a period, in whichever currency, although
\* several proposals for him may be approved and executed from a callback.
PaidOnce ==
    /\ \A p \in Proposals : status[p] = "Executed" =>
          /\ terms[p].claim \in claimed
          /\ \A q \in Proposals :
                status[q] = "Executed" /\ terms[q].claim = terms[p].claim => q = p
    /\ paying # NoProposal => terms[paying].claim \notin claimed

\* What left the vaults is what the executed proposals say, and no more.
DisbursedIsExecuted ==
    \A currency \in Currencies :
        disbursed[currency] =
            SumFunctionOnSet([p \in 1..counter |-> terms[p].amount],
                {p \in 1..counter : /\ status[p] = "Executed" \/ paying = p
                                    /\ terms[p].currency = currency})

\* Money moves on the word of two accounts that approved separately, whatever
\* roles they held or lost since, and a veto stands: what was cancelled never
\* had a quorum, which is all that keeps it from being executed.
QuorumStands ==
    /\ \A p \in Proposals : status[p] \in {"Approved", "Executed"} =>
          \E one, other \in approvers[p] : one # other
    /\ \A p \in Proposals : status[p] = "Cancelled" => count[p] < REQUIRED_APPROVALS

\* A proposal never changes what it asks for, and an executed or a cancelled
\* one stays so.
OutcomeStands ==
    [][\A p \in 1..counter :
          /\ terms'[p] = terms[p]
          /\ status[p] \in {"Executed", "Cancelled"} => status'[p] = status[p]]_vars
=============================================================================
