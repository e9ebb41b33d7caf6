# Verification of tawf-zakat

TLA+ models, TLC runs and TLAPS proofs of tawf-zakat. Of its campaign (crowdfunding)
side: donations taken through a payment gateway, proposals and reports examined by
operators, and the evidence of all of it carried to a contract. Of its institutional
side: proposals to disburse zakat, decided by signed challenges, handed over and revised;
the costs of carrying them
out; and the relay that publishes period reports on a chain. And the contract that keeps zakat
in custody. All paths below are relative to the repository.

## 1. Inventory

The backend is a Bun/Hono API. Its institutional side keeps tables in PostgreSQL, and
every request of it is one transaction that locks the rows it needs, behind an idempotency
key (`mutateOnce`); a decision takes several requests, and a publication several
transactions with calls of the chain between them. Its crowdfunding side keeps everything in **one locked
PostgreSQL row** (`backend/src/crowdfunding-store.ts`): a transaction reads the
aggregate `FOR UPDATE`, runs a function and writes it back, so a transaction is atomic
across processes. Whatever is awaited *between* transactions - the gateway, the chain,
a password check - is not, and that is where the difficult behaviours are.

| Component | State | Operations | What makes it correct |
|---|---|---|---|
| Evidence outbox: `crowdfunding.ts` 35-45, 171-206, `crowdfunding-runtime.ts` | `outbox[e]`, `outboxLease` | `enqueue`, `drainCampaignOutbox` (timer, forced) | confirmed means recorded, for ever; nothing starves; one run at a time |
| Chain adapter: `campaign-chain.ts` | none | `record` | returns only for canonical evidence that was read back |
| `CampaignEvidenceRegistry.sol` | `evidence`, `recorder` | `record`, `rotateRecorder` | retries succeed, conflicts revert |
| Payments: `crowdfunding.ts` 90-169, `routes/crowdfunding.ts` 284-336 | `payments[p]`, checkout lease, `collectedAmount`, `donationCount` | donation, notification, poll, retry | totals are what donors gave; stale answers harm nothing; one checkout |
| Updates: `crowdfunding-updates.ts` | `updates[u]` | create, edit, attach, delete, submit, review, withdraw | the public record is corrected, never edited; reports are examined and stay within the donations |
| Life cycle: `routes/crowdfunding.ts` 83-154 | `status`, `version`, `versions`, `reviewNotes`, `publicSnapshot` | draft, submit, review, publish, reopen, stop | what is public was approved as it is |
| Accounts and throttles: `routes/crowdfunding.ts` 33-71 | `users`, `sessions`, `attempts` | register, login, logout | the throttle survives failures |
| Files: `crowdfunding-documents.ts` | encrypted files | upload, read | no dangling record |
| `ZakatProtocolL1.sol` | the rupiah and USDC ledgers, `proposals`, `hasApprovedProposal`, `hasReceivedZakat` | fiat batch, deposit, propose, approve, cancel, execute, withdraw | books balance, the amil's cap, one payment per claim, two approvers |
| Disbursements: `disbursement-store.ts`, `routes/disbursement.ts`, `proposal-revision.ts` | `proposal_drafts`, `_versions`, `_draft_contributors`, `_revisions`, `_decisions`, `disbursement_realizations`, decision challenges | draft, examine, decide, hand over, revise, cancel, close | nothing is handed over beyond what was approved; what is signed is what is decided, by somebody independent; nothing approved is rewritten |
| Operational costs: `disbursement-store.ts` 553-688, 3768-4103, `operational-cost.ts` | `operational_cost_items`, `_item_versions`, `_panjar`, `_panjar_returns`, `_reimbursements`, `_receipts`, `_receipt_files` | record a batch, correct, void; issue and return a panjar; repay talangan; receipts and files | no panjar is overdrawn; what was repaid, reported or cited stays as it was |
| Report registry relay: `registry-relay.ts`, `registry-store.ts`, `registry-budget.ts`, `period-lock.ts` | nonces, allocations, attempts, budget reservations, stored observations, period locks | submit, retry, status | one transaction of a publication, stored before it is sent; no hole in the nonces; the lock follows the publication |
| Report registry recovery: `registry-recovery.ts` | a checkpoint | one pass, repeated by a timer | what the database says of the chain becomes true again |
| `ReportEvidenceRegistry.sol` | publications, authorities | publishReport and others | a package is published once |
| The other institutional parts (workspace, contributions, period reports, certificates, donors, USDC deposits) and the contracts they use | their own tables and contracts | see `components` in PROJECT.json | not modelled yet |

How they interact. Payments and the life cycle call `enqueue` inside the transaction of
the change; the outbox carries the events to the contract through the adapter. Payments
read the campaign's status and version and write its totals; updates read those totals.
The gateway notifies payments and is asked by them; the timer of every process and the
operator's "retry" both drain the same outbox. The relay and its recovery pass write the
same observations and locks; the two share the nonces of one account. A period report
that is published locks the operational costs it counts against plain corrections.

Hard behaviours: leases in place of locks around remote calls (outbox 5 minutes, checkout
60 s), which may expire while their holder works; answers read before the transaction
that applies them; calls whose effect survives their timeout; a crash between two
transactions; operators who decide on a page that has gone stale, and signatures that are
older than what they decide; running totals kept up by differences; blocks that are
replaced after the database has drawn its conclusions from them. `hazards` in PROJECT.json lists each at its line.

## 2. Modules

| Module | Models |
|---|---|
| `EvidenceLog` | what readers may rely on: queued, recorded, then confirmed for ever |
| `CampaignOutbox` | the outbox, the adapter's `record`, the contract, the chain |
| `CampaignOutboxProofs`, `CampaignReviewProofs`, `CampaignUpdatesProofs`, `ZakatProtocolProofs`, `DisbursementProofs`, `RegistryRelayProofs`, `CampaignPaymentsProofs`, `OperationalCostsProofs` | the theorems of section 5 |
| `CampaignPayments`, `MCPayments` | donations, reconciliation, checkout recovery, the gateway |
| `CampaignUpdates`, `MCUpdates` | news and realization reports |
| `CampaignWindow` | when a campaign accepts donations, for which version |
| `CampaignReview` | the life of a proposal, its frozen versions, its public snapshot, its evidence |
| `ZakatProtocol`, `MCProtocol` | the custody contract and its disbursements |
| `Disbursement`, `MCDisbursement` | one institutional proposal: its draft, decisions, handovers, revisions and end |
| `OperationalCosts`, `MCOperationalCosts` | the costs of one proposal, their evidence, the reports that count and lock them |
| `RegistryRelay`, `MCRegistryRelay` | the relay, its nonces and budget, the recovery pass, the period lock and the chain |

Composition. `CampaignOutbox` implements `EvidenceLog` (`LogSpec`) and `CampaignReview`
implements `CampaignWindow` (`WindowSpec`). `CampaignPayments` keeps of the campaign what
`CampaignWindow` allows - `Shut`, and `Republish` with a newer version - so its results
hold for every history of the life cycle. `Enqueue` of the outbox stands for the events
that `Credit` (payments) and `Witness` (life cycle) enqueue in the same transaction as
the change. `Collect`, `Refund` and `Cancel` of the updates stand for the other two.
`Publish` and `Unpublish` of the costs are what the relay does to `locked`: they come at any
moment and in any order, so the results of `OperationalCosts` hold for every history of
the relay and of the chain.

### State and actions against the code

*CampaignOutbox.* `status`, `attempts`, `wait` are the fields of an outbox event, `wait`
being `nextAttemptAt - now`; `owner` and `left` are `outboxLease`, `left` being
`expiresAt - now`. A drain is one call of `drainCampaignOutbox`; `pc` says at which await
it stands: `renew` (the renewal transaction), `call`, `receipt` and `verify` (inside
`record`), `settle` and `fail` (the confirming and failing transactions), `release`
(`finally`). A run draws a fresh UUID as lease owner; the model reuses drain names and
sets the owner to `NoDrain` when a run dies, which is the same to every comparison the
code makes. `late` holds the transactions nobody waits for; `Mine` and `MineLate` let the
contract execute. `Reorg` undoes a record that no run has verified yet: after `Verify`
a block is taken to be final, as the code does with one confirmation.

*CampaignPayments.* A handler is one request; `kind` is donate, retry or poll, `pc` the
await it stands at. The answer of the gateway is stored in the handler (`answer`) by
`GatewayAnswers` and applied by `Apply` any time later. `token` is the number of the
checkout that is saved, so that a replaced checkout can be seen. `known` are the payments
whose response, and with it the access token, reached the donor; only those can be
retried. `evidence[p]` is the last event enqueued about `p`, `snapshot` the totals
carried by the newest event.
The gateway is external. Assumed of it: an order id that is begun gets no second
checkout, money only comes in, refunds only grow. It is *not* assumed that a donor waits
for the checkout to be saved.

*CampaignUpdates.* Each request is one transaction and one action. `seen[o]` is the page
an operator loaded; a decision compares only `expectedRevision`, as the code does. `used`
is 0 for news. One attachment stands for up to five, titles, texts and dates are left out.
The fundraiser is not among the operators (the routes refuse him).

*CampaignReview.* A *material* stands for the fields, documents and cover of a proposal;
of `endsAt` only whether it has passed is kept. `frozen[v]` is `versions`, `verdict` and
`examiner` are the decision among `reviewNotes`, `shown` and `shownVersion` are
`publicSnapshot`. Publication snapshots the live `draft`, as the code does: that it equals
the frozen version is a result, not an assumption. The compatibility branch of `reopen`
for records older than snapshots is left out: no state of this code reaches it.

*ZakatProtocol.* One action per external function that succeeds; a call that reverts
changes nothing. `executeDisbursement` of USDC is two actions, because the contract
writes the claim and the status after the transfer: `paying` is the proposal in the
token's hands and stands for the `nonReentrant` lock, and whatever happens before
`ConcludeTransfer` is called back by the token. The other transfers come first or last in
their functions, so a callback there equals a call before or after. Roles
(`AccessControl`) and the token are external; one account may hold several roles, as the
deploy script does. `held` is the contract's token balance, `withdrawn` the sum of the
`AmilShareWithdrawn` events. Two proposals approved for one claim are both possible; the
one that comes second stays Approved for ever, since it can be neither executed nor
cancelled, and it moves no money.

*Disbursement.* One action per request, except that a decision takes three: a challenge
is issued (`AskDecision`), the route verifies what came back signed (`VerifyDecision`, which
puts a request in `pending`), and a transaction spends the challenge (`Decide`,
`Terminate`, `DecideRevision`). Everything may happen between them, another decision
included. A request that is repeated is answered by `mutateOnce` from its first answer, so
it is no step. Of the aid only the amount of each line is kept: `lines` with `basis`
"requested" until every line has an approved value. `Cap` is what `recordRealizations`
compares with. Documents, beneficiaries, policies, costs and one-time codes are left out,
and `Credited` allows for the changes to them that a save makes. A person is an
officer with his accounts; who holds which mandate is not modelled, so everybody may try
everything, which only adds behaviours. `frozen` is `proposal_versions`; `revisions[n]`
has `to`, the version it would make, fixed when it is proposed although a save may move
the proposal past it.

*OperationalCosts.* Every request on costs holds the proposal's row from its first statement
to its commit (`lockProposalForCosts`, `Free`), so it is one action; a request that is
refused changes nothing. The exception is a correction or a voiding: it reads the period
locks (`BeginChange`), which the registry's transactions write without that row, and writes
its new version later (`Correct`, `VoidItem`, or `Abandon` for a refusal or a failure). Since
the proposal is held, there is one change at a time. `Record` takes its time before it
waits for the proposal, hence the clock or the tick before. Of a row only amount, source
of funds and receipt are kept; its version is the length of its history, which makes
`expectedVersion` the current one. `fund` is an officer for a talangan. A receipt's files
are a set of ids; the ciphertext is not modelled. `Freeze` reads the rows with one statement
(`loadOperationalCosts`), so a report counts them as they are at one moment. `mark` is
history only: the versions there were when a lock was written. The proposal is taken to be
in force throughout, as `COST_RECORDING_STATUSES` demands of every request.

*RegistryRelay.* A submission is a handler whose `pc` names the await it stands at; every
transaction of `registry-store.ts` and every reading of the chain is a step, and `Fail` is a
refusal, a lost answer or a death at any of them. A retry is a submission that finds the
stored attempt (`pc` "store"); a status poll is one that ends after `Store`. The states
PREPARED, SUBMITTED and NONCANONICAL are one, "SUBMITTED": nothing branches on the
difference that the lock or the nonces could see. The budget's `reserve` and `signed` are
one step, because a death between them leaves a charged payload that the next build takes
up. `Scan` is one step because a pass asks for the head again at its end and gives up when
it moved: what it commits was the chain at one moment, and `Commit` comes any time later.
`stale` holds passes whose checkpoint another pass has moved. `mined` is the account's
canonical history with depths capped at `Required`; `Reorganise` drops any suffix of it,
with or without returning the transactions to the pool. `Void` is a passed deadline or an
authority that ended, the two reasons for which `validate` refuses what it accepted before.
`PackageOf` may give two intents one package: the reviewers' second try at the same
publication, of which the contract takes one.

## 3. Runs

| Run | Question | Bounds |
|---|---|---|
| `outbox_safety` | Is a confirmed event recorded, for ever, through everything that can fail? Does the outbox implement the log? | 2 events, a timer and a forced retry, 2 faults, 1 rotation; calls (2 ticks) outlive the lease (1) |
| `outbox_progress` | Does the lease keep two runs out of `record`, and is every recordable event confirmed in the end? | batch of 1, 3 events of which the oldest can never be recorded, 2 timers and a forced retry, 2 faults, call 1 < lease 2, pause 1 |
| `payment_totals` | Does the evidence of all payments add up to the totals, and is the credited money the gateway's? | donations of 1 and 2, one handler, 2 versions |
| `payment_races` | Do two requests on one donation corrupt it or the totals, and is what the gateway received credited in the end, whatever happens to the campaign? | one donation of 2 (so that it can be refunded in part), 2 handlers, 2 checkouts, retry 1 < lease 2 |
| `updates` | Do corrections, withdrawals and stale reviews keep the record, and what alone may break the limit? | 3 updates, amounts 1 and 2, 1 donation and a refund, 2 revisions |
| `updates_total` (violated) | Does the reported total stay within the donations? **It does not.** | 3 updates, no refund |
| `review` | Is what is public approved as it is, through reopenings and stale pages? | 3 versions, 3 materials, an owner who is an operator and one other |
| `protocol` | Do the books, the single claim and the quorum hold, through callbacks and changing roles? | 2 accounts, 2 proposals, 1 beneficiary in 2 periods, deposits of 9 up to 18, requests of 1 and 5, 1 role change |
| `disbursement` | Do handovers, revisions, terminations and signed decisions agree, two decisions being in flight? | 1 line of goods, rights of 1 and 2, 3 versions, 1 revision, 2 challenges, 2 people |
| `disbursement_rights` (violated) | Are the rights of a proposal in force those of some approval? **They are not.** | money and goods, 2 versions, 1 challenge |
| `costs` | Do money, repayments, receipts and published figures stay accounted for, while changes race with locks? | 2 rows with 4 versions together, a panjar of 3, amounts 1 and 2, returns of 1, 1 officer, 1 receipt with 1 file, 1 report, 2 moments |
| `relay` | Do nonces, budget, stored bytes and locks survive races, deaths and reorganisations, and is a lasting publication locked in the end? | 2 intents of one package, 2 handlers and the timer, 1 signature, 2 confirmations, budget for 2, 3 requests, 1 upset |

Why these bounds are enough to be interesting. Two runs and two events suffice for every
takeover: one holds, one takes over, and the second event shows that a batch goes on.
Every fault is a lost step, and two of them allow a loss during the recovery from a loss.
A handler that ended stands for the next request, so one handler already gives unbounded
sequences of requests; the second is needed for overlaps. Only there is an answer applied
that is older than the money it meets, which is why `TotalsAreNet` is checked in `payment_races`:
totals that follow the answer in hand (`CreditInHand`) pass with one handler and fail with
two. The other half, sums over several donations, is in `MoneyIsWitnessed` of `payment_totals`;
`TotalsStayNet` proves both for any number of donations and handlers. Amounts 1 and 2 tell a
full from a partial refund and one donation from another. Deposits of 9 leave a remainder in the
amil's share (1 of 1.125) and a vault of 8, for which two requests of 5 compete. Two
accounts are the fewest that can make a quorum. Three updates are a record,
its correction and a correction of the correction, or a rival. The lines of a proposal are
compared one by one and only joined by conjunctions, so one line shows what several would;
it is of goods, which keep a cap when the approval is dropped. Three versions are the one
approved, one a save makes and the one the revision makes; two challenges are a decision
and the rival that overtakes it. Two intents of one package have competing nonces,
competing transactions and competing locks; two confirmations let a lock be taken, lost
and taken by the other. `stale` cannot happen with one pass: the run leaves it to the
proofs, which hold for any number of them. Two rows draw on one panjar that covers either
with something left, but not both. Four versions let one row have three: the one a lock
marks, the undeclared one that was let through before, and a declared one; two moments put a
row before or after a cut-off. That a change is declared for another report than the one that
refuses it needs two reports, too many for a run; the proofs cover it. `MaxAttempts`,
`BackoffCap`, `MaxFaults`, `MaxRotations`, `MaxCheckouts`, `MaxVersions`, `MaxTime`,
`MaxCollected`, `MaxRefunds`, `MaxRevisions`, `MaxProposals`, `MaxRoleChanges`, `MaxVersion`,
`MaxRight`, `MaxChallenges`, `MaxRequests`, `MaxUpsets` bound counters; `MaxSpend` is the
budget's ceiling itself. Runs disable the deadlock
check because each system may come to rest with everything confirmed, refunded, withdrawn
or cancelled and the bounds used up. Symmetry (`MCUpdates`, `MCProtocol`, `MCDisbursement`, `MCOperationalCosts`) is over values
that the specification only compares for equality, and is off under fairness.

### Time assumptions

`OneRecorderAtATime` needs `CallTicks < LeaseTicks`: the code's comment "Five minutes
exceeds the adapter's 120-second receipt timeout" (`crowdfunding.ts:175`). Only the
receipt is bounded by 120 s; the other RPC calls use the client's defaults, so this is an
assumption on them. Without it two runs may record the same event; `outbox_safety` shows
that this is harmless to everything else. `OneCheckout` needs `RetryTicks < LeaseTicks`:
two gateway calls of at most 10 s (`crowdfunding-midtrans.ts:26`) and the transactions
between them within 60 s. With equal bounds TLC shows one recovery replacing the checkout
of another.

### Fairness

`outbox_progress`: some timer starts a run again and again (`setInterval`,
`crowdfunding-runtime.ts:32`), a started run takes its next step (the API process goes
on), the chain mines what it was sent, the recorder is restored and time passes. Only weak
fairness, none on forced retries, on `Enqueue` or on faults.
`payment_races`: a request runs to its end, and the gateway repeats its notification
until the payment is credited, answering some of the status calls it causes (strong
fairness on the polls of one payment). That is an assumption on the gateway - the code
has no poll of its own.
`relay`: weak fairness of the timer's pass and of nothing else (`setTimeout` is set again
in a `finally`, `registry-recovery.ts:51-65`): a user need never ask again, the node may
answer nobody and the chain may stand still, in which case `PublicationLocks` asks for
nothing.

## 4. Findings

`README.md:55` says of the reported amount "total tidak boleh melebihi donasi
terkonfirmasi". The limit is compared when a report is submitted and when it is
published (the guard `WithinCollected` of both actions), but `withdrawUpdate` makes a
corrected report count again without a comparison (`crowdfunding-updates.ts:91`), and a
refund lowers the donations under what is published. `updates_total` shows the first case.

`docs/adr/0029-proposal-revisions-and-recorded-institutional-decisions.md:6` says that a
change of the rights after the approval makes a revision and takes another approval.
`saveProposalDraft` refuses only what is under examination
(`disbursement-store.ts:1999`), so a proposal in force may be saved over like a draft: it
stays APPROVED with lines nobody approved, and goods are handed over up to them.
`disbursement_rights` shows it. The other properties of `Disbursement` are stated for
this code: `RealizedWithinRights` and the last part of `RevisionIsHeld` ask that nobody did so
(`basis = "approved"`), and `DecidedAsSigned` is about approvals only, because a revision
decided over such a save takes the version back to one a termination was signed for.

Observed while modelling, without a run of its own: `period-lock.ts:4` says that a row under
a lock "may no longer change silently". The locks are read under READ COMMITTED before the
row is written (`disbursement-store.ts:3948`), so a change that was let through may still be
written, undeclared, after the lock: once for each lock and row, which is what `LockHolds`
allows and TLC reaches. And a row recorded with a time before the cut-off, but committed
after the report was frozen, is under the lock although the report does not count it
(`covers`, `period-lock.ts:67`); `ReportedIsOnRecord` states the converse only. Whoever amends a returned revision is
recorded nowhere, so he may decide on it (`disbursement-store.ts:4504`, against the comment
at `routes/disbursement.ts:3465`). A period is locked while its publication is INCLUDED
again after a reorganisation, and a rival that is confirmed then waits for the next pass, so
that the "exactly when" of `period-lock.ts:77-82` holds only in between
(`LockFollows` and `PublicationLocks` state what holds). An allocated nonce whose
authorization expired before it was mined is never used and holds back every later
one until an operator acts (`registry-store.ts:86`); `SentIsStored` and `NoHoleBelow` stay
true, nothing is lost but time.

## 5. Proofs

Checked by `tlapm` to the last leaf. Nothing is assumed but the named assumptions on the
constants (`OutboxAssumption`, `ReviewAssumption`, `UpdatesAssumption`, `ProtocolAssumption`,
`DisbursementAssumption`, `RelayAssumption`, `PaymentsAssumption`, `CostsAssumption`: what is a number, what is a subset or a
function of what, that the "no ..." values are none of the real ones, and, where a sum is
taken over payments, updates, proposals or rows, that there are finitely many).

| Module | Theorem | Property |
|---|---|---|
| `CampaignOutboxProofs` | `TypeCorrect` | `TypeOK` |
| | `ConfirmedAreRecorded` | `ConfirmedIsRecorded` |
| | `LeaseSerializes` | `OneRecorderAtATime`, assuming `CallTicks < LeaseTicks` |
| | `ConfirmationsStay` | `ConfirmedStays` |
| | `CommitmentsAreKept` | `CommitmentsKept` |
| | `ImplementsLog` | `LogSpec`: initial states map to initial states, steps to steps or stutters |
| `CampaignReviewProofs` | `TypeCorrect` | `TypeOK` |
| | `PublicWasApproved` | `PublicIsApproved` |
| | `DonorsSeeTheirVersion` | `DonorsSeeWhatTheyFund` |
| | `EvidenceIsComplete` | `EvidenceCommits` |
| | `ApprovalsAreExamined` | `ApprovedAsExamined` |
| | `ImplementsWindow` | `WindowSpec`, as above |
| `CampaignUpdatesProofs` | `TypeCorrect` | `TypeOK` |
| | `LinksAgree` | `SupersessionAgrees` |
| | `OnlyProposedIsReleased` | `OnlyProposedIsPublic` |
| | `RecordIsPermanent` | `PublicRecordStays` |
| | `ReportsAreExamined` | `PublishedAsExamined` |
| | `OverrunsAreCaused` | `OverrunsHaveACause` |
| `ZakatProtocolProofs` | `TypeCorrect` | `TypeOK` |
| | `BooksAlwaysBalance` | `BooksBalance` |
| | `NobodyIsPaidTwice` | `PaidOnce` |
| | `DisbursedIsAccounted` | `DisbursedIsExecuted` |
| | `QuorumAlwaysStands` | `QuorumStands` |
| | `OutcomesStand` | `OutcomeStands` |
| `DisbursementProofs` | `TypeCorrect` | `TypeOK` |
| | `HandoversWithinRights` | `RealizedWithinRights` |
| | `RevisionsAreHeld` | `RevisionIsHeld` |
| | `ApprovedAsSigned` | `DecidedAsSigned` |
| | `RightsInForceAreDecided` | `RightsAreDecided` while `basis = "approved"`: what is left of the violated claim |
| | `DutiesAreSeparate` | `ApproverIsIndependent` |
| | `RecordIsKept` | `RecordStays` |
| | `TerminationsStand` | `TerminationStands` |
| `RegistryRelayProofs` | `TypeCorrect` | `TypeOK` |
| | `SendsWhatItKept` | `SentIsStored` |
| | `UsesNoncesInOrder` | `NoHoleBelow` |
| | `LocksFollowPublications` | `LockFollows` |
| `CampaignPaymentsProofs` | `TypeCorrect` | `TypeOK` |
| | `CreditsAreReal` | `CreditedIsReal` |
| | `StatusAgrees` | `StatusTellsMoney` |
| | `ChangesAreWitnessed` | `MoneyIsWitnessed` |
| | `TotalsStayNet` | `TotalsAreNet` |
| | `TotalsAreCovered` | `0 <= collected`, and at most what the gateway took (`Taken`) |
| | `MoneyOnlyAdvances` | `MoneyNeverRegresses` |
| | `CheckoutsStay` | `OneCheckout`, assuming `RetryTicks < LeaseTicks` |
| | `CampaignIsWindow` | `Shut` and `Republish` are the steps of `CampaignWindow` |
| `OperationalCostsProofs` | `TypeCorrect` | `TypeOK` |
| | `PanjarsCover` | `PanjarCovers` |
| | `PaymentsStand` | `ReimbursedAsPaid` |
| | `RepaidRowsAlwaysStand` | `RepaidRowsStand`, a part of `ReimbursedAsPaid` |
| | `ReportsStayOnRecord` | `ReportedIsOnRecord` |
| | `LocksAlwaysHold` | `LockHolds` |
| | `CitedFilesAreKept` | `CitedKeepsFiles` |

`TypeOK` is proved in every module and no run repeats it; that no vault is overdrawn is
part of `BooksBalance`. `ConfirmedStays` and `CommitmentsKept` (also part of what `LogSpec` says) and
`EvidenceCommits` are proved and no longer checked by a run.

*Sums.* Four modules add up amounts with the `SumFunctionOnSet` of the community modules, a
function defined by recursion on subsets; induction over it is beyond these provers, whose
induction theorems take an operator as a parameter. The proofs count instead. `Units(f, S)`
is a set with `f[x]` elements for each `x` in `S`, and its cardinality satisfies the equation
by which the sum is defined (`CountIsFold`). On a finite set that equation has one solution:
two of them would differ on some least subset, which exists because strict inclusion is well
founded there (`FoldsAgree`, from `FS_StrictSubsetOrderingWellFounded` and `WFMin`). So the
sum is the cardinality (`SumCounts`), and what a proof needs of sums follows from what the
library proves of cardinalities: an element may be taken out (`SumWithout`), equal terms have
equal sums (`SumSame`), two disjoint parts add up (`SumJoin`), fewer or smaller terms have no
larger sum (`SumOfFewer`, `SumAtMost`). This section is the same in `CampaignPaymentsProofs`,
`CampaignUpdatesProofs`, `ZakatProtocolProofs` and `OperationalCostsProofs`, so that each can be
checked on its own.

*The outbox.* `ConfirmedIsRecorded` is not inductive: a confirmation is written by
`SettleConfirmed`, one transaction after `Verify` read the registry. The strengthening
says that a run in `settle` works on an event whose own commitment is in the registry;
`Reorg` excludes exactly those, and nothing else removes a commitment. `SettleErrs` keeps
it because it may only confirm the same event. `OneRecorderAtATime` rests on an invariant
that relates a run's age to its lease: a run inside `record` owns the lease and its
`age + left` is `LeaseTicks`; its age is at most `CallTicks`, so its lease has not
expired, and a lease is taken over only when it has.

*The life cycle.* Publication snapshots the live draft, while approval concerns the frozen
version, so `PublicIsApproved` needs `LiveIsFrozen`: outside DRAFT, REVISION_REQUESTED and
CANCELLED the draft is the frozen version. To this come `Independent` (an approved status
has a decision of somebody else and the event that witnesses it), `DecidedOnce` (no
verdict on a version before its submission, so a verdict is never overwritten),
`ShownIsPast` (the public version is older than one under examination, which is why a
reopening cannot put a wrong version before donors) and `PageIsFaithful` (a page that
names the submitted version shows it: versions are never reused).

*The updates.* `SupersessionAgrees` is inductive once a publication looks its target up
again (`Correctable` inside `Publish`). `OnlyProposedIsPublic` needs two more facts: what
is released is in the record, hence not editable (`ReleasedIsRecorded`), and news carries
no private attachment (`NewsIsPublic`), for which a deleted update must leave nothing
behind (`AbsentIsEmpty`). `PublishedAsExamined` needs `PageIsFaithful`, which holds because
every submission raises the revision. All actions that keep an update outside the record
are treated at once (`Drafting`).
`OverrunsHaveACause` tells how far the limit of the README (section 4) holds. A publication adds its
report to the counted ones and takes out the one it replaces, which by the links of
`SupersessionAgrees` was counted and is now superseded: exactly the difference
`WithinCollected` compares (`PublishReports`). Withdrawing what corrects nothing only takes it
out (`WithdrawReports`), since nothing names it as its superseder, and drafting moves no
counted report. What remains are the two causes.

*The contract.* Execution accepts what has the approvals, whatever its status but
Executed, so everything rests on `OneBeforeQuorum`: a pending or cancelled proposal has
one approval, its proposer's. Hence what is executed was Approved
(`ExecutableIsApproved`), with a second account's approval. `PayingIsApproved` says that
the token is only ever called for such a proposal; since it can then be neither cancelled
nor executed again, its claim is still free when the payment is concluded. `TypeOK` and
`BooksBalance` are proved together: the contract's balance stays a natural number
because it covers both vaults. The cap needs one fact of arithmetic, `ShareIsCapped`.
`DisbursedIsExecuted` is inductive with the types and `PayingIsApproved`: the
proposals paid in a currency are the executed ones and the one in the token's hands, and each
execution adds one that was not among them (`PaysOne`), so the sum grows by its amount.

*Disbursements.* Types and `RevisionIsHeld` are inductive together: `held` and `active`
are changed in four places, each with the revision's status. `RealizedWithinRights` needs
`BeforeApproval` (nothing is handed over before the first approval, so that approval meets
zeros) and `Floor`, compared again in the deciding transaction. `DecidedAsSigned` needs
`PendingFits`: once the route has accepted a signature for a revision, the revision is up
for decision or settled, and neither can be amended. `ApproverIsIndependent` is the hard
one. Contributors are added to new versions all the time; what keeps them out of a version
that is decided is that it is *past* (`DecidedIsPast`): the proposal is at or beyond it and
no revision under way can bring it back, so that no save, submission or approval can insert
contributors for it. This needs that an active revision's target lies beyond what is past,
and, for deletion, which erases contributors, that whatever left the draft was frozen
(`StartedIsFrozen`), since a proposal with a frozen version is not deleted.

`InForceIsDecided` goes with the rest: each step that makes the
rights approved records, in the same transaction, an approval of the version it makes current, on
the lines it makes current, and by `PendingFits` they are the signed ones. A save is the only
step that moves version or lines otherwise, and it drops the approval.

*The relay.* `Held` says which of the facts a handler has read stay true while it waits: an
allocation and a stored attempt are never taken back, and a charge is never refunded.
`Ordered` says that at most one allocation waits for its bytes and that it is the highest;
this is what `Clear` is for, and it makes the next nonce fresh although the chain's pending
nonce was read before the transaction. `Charged` is the chain of inclusions: sent, stored,
charged. Since a nonce is charged for one payload, it has one transaction, whatever the node
does with what it was given. `LockFollows` needs only that `Persist` writes the observation
and its consequence together (`PersistKeeps`), for any set of observations; hence it
holds for passes that overlap as well.

*Payments.* An answer is applied long after it was given, so everything rests on what an
old answer can still say: an answer is never ahead of its order (`AnswersReal`), and what
an order has received and returned only grows (`OrdersAdvance`). With that, `Credited`
survives an answer of any age, since `RefundedBy` takes the larger of two refunds. The
steps that save a checkout keep `StatusTellsMoney` because they change only a status that
tells of no money, into another such (`StatusWaits`): this is what the comparison with
CREATING in the saving transaction is for.
`OneCheckout` is `CheckoutInv`: one handler of a donation (`OneDonor`), a recovery whose
`age` and remaining lease add up to `LeaseTicks` (`Leased`), a donation recovered only after
its donor was answered (`Introduced`), and no saved checkout while a handler is opening
one (`Unsaved`, and `Fresh` before the donation). `TotalsAreNet` is inductive
with the invariant on money. `Credit` adds the new net amount of a payment and takes away the old one,
as the transaction that applies the answer finds it, and no other net amount moves
(`CreditMoves`). Both sums are split at that payment (`TotalsApart`): the rest of them is
the same before and after, and the difference is what `Credit` writes. This would fail if the
old amount were that of an earlier reading, or the new one that of the answer in hand.
`MoneyIsWitnessed` follows: the last events tell the money and the totals of the
transaction that enqueued them (`EventsTell`), hence they add up as those do. `TypeOK` types the totals as
integers; that they are natural numbers, and within what the gateway took, is
`TotalsAreCovered`. `CampaignIsWindow` shows that `Shut` and `Republish` are neither more nor less than the
steps of `CampaignWindow`, which `ImplementsWindow` proves of the life cycle: the results on
payments hold for every history of it.

*Costs.* `LiveIsLast` ties a row to the last entry of its history; with it what a report
counts is on record when it is frozen, and an `Append` keeps it there. `CitedIsEvidenced`
carries a citation over every version, which is why deletion may look at `evidenced` alone.
`LockHolds` needs `ChangeStands`: while a change that declares nothing is under way, every
lock on its row came after it was let through and marks exactly the version it is about to
replace, so that what it writes is the one version after the mark. `DeclaredCovers` says
that a declared report covers the row for good, because neither a row's time nor a frozen
cut-off ever changes. `PanjarCovers` is compared in one transaction with the rows of one
panjar at a time, while a batch brings rows for several, and a correction may move a row
from one panjar to another. `RowsOf(p)` are the active rows drawn from panjar p. A batch adds
to them a set apart from them, whose own sum the batch had compared (`RecordCovers`, with
`SumJoin`). A change takes its row out of whatever panjar it drew on and, if the row stays
active, puts it into one whose other rows leave room for it (`RowsBeside`, `ReviseCovers`);
the rows not changed keep their price (`SumOfKept`). `ReimbursedAsPaid` has two halves, both
inductive: what a repayment paid is the sum of its rows (`PaymentsAdd`), and a row that is
repaid is neither changed (`RepaidRowsStand`, `RepaidStay`) nor repaid once more
(`ReimburseAdds`), so no row leaves the sum of an earlier repayment.

Beyond the prover: liveness (`EventuallyConfirmed`, `ReceiptsAreCredited`,
`PublicationLocks`) stays with TLC, since `tlapm` proves nothing of fairness that needs `ENABLED`.
Every other property of a passing run is also a theorem. The two violated claims
(`ReportedWithinCollected`, `RightsAreDecided`) are accompanied by theorems that say when they
hold: `OverrunsAreCaused` and `RightsInForceAreDecided`.

## 6. Plan

Order of the remaining work:

1. The successions of report versions in the relay and the contract, which period reports
   are examined and endorsed by, and the findings of auditors on them.
2. `ShariaReview`, `CampaignAccounts` (throttle), donor access codes, then contributions,
   certificates (built like the relay) and USDC deposits.
3. Documents of handovers and their confirmation by one-time codes, in `Disbursement`.

Not modelled and not planned: spreadsheet parsing and templates, cryptography (circuits,
provers, verifiers, file encryption), the frontend, deployment scripts. Of the modelled
components, `components` in PROJECT.json names what is left out of each.
