---------------------------- MODULE RegistryRelay ----------------------------
(***************************************************************************)
(* The report registry's relay: how a reviewed publication becomes a       *)
(* signed transaction under a nonce and a budget, how it is broadcast and  *)
(* observed, how the recovery pass repeats the observation, and the period *)
(* lock that follows it.                                                   *)
(*                                                                         *)
(* A submission is a chain of awaits (settled, validate, send, reserve,    *)
(* build, broadcast, observe) of which every database transaction and      *)
(* every reading of the chain is a step here; between two steps anything   *)
(* may happen, the death of the handler included.                          *)
(*                                                                         *)
(* Nonces are counted from one: nonce n is the account's n-th transaction. *)
(* The intents are publications, ordered by their id; two of them may name *)
(* the same package, which is one whose report locks its period.           *)
(***************************************************************************)
EXTENDS Naturals, Sequences, FiniteSets

CONSTANTS
    NumIntents,     \* the intents of the deployment are 1..NumIntents
    Packages,       \* the report packages
    PackageOf,      \* the package an intent publishes
    Signatures,     \* signatures that validate for any intent
    NoSignature,
    Workers,        \* request handlers
    Recoverers,     \* recovery passes: the timer's and the route's
    Timer,          \* the recovery pass the process repeats by itself
    Required,       \* required confirmations
    MaxSpend,       \* how many transactions the budget's ceiling pays for
    MaxRequests,    \* bound: submissions, retries and status polls
    MaxUpsets       \* bound: reorganisations, passed deadlines and lost authorities

Intents == 1..NumIntents
NoIntent == 0
Nonces == 1..NumIntents
NoNonce == 0

ASSUME RelayAssumption ==
    /\ NumIntents \in Nat /\ Required \in Nat \ {0}
    /\ MaxSpend \in Nat /\ MaxRequests \in Nat /\ MaxUpsets \in Nat
    /\ PackageOf \in [Intents -> Packages]
    /\ NoSignature \notin Signatures
    /\ Timer \in Recoverers

VARIABLES
    nextNonce,   \* registry_relayer_nonces; 0 while the row is absent
    allocated,   \* registry_nonce_allocations
    attempt,     \* registry_attempts: the signature whose bytes are stored
    budget,      \* registry_budget_reservations: the payloads charged and signed
    state,       \* the state of the intent's stored observation
    lock,        \* report_period_locks: the intent that locks a package
    task,        \* what each request handler has read and does next
    scan,        \* the same for each recovery pass
    stale,       \* passes that read a checkpoint which has moved since
    pool,        \* transactions the node holds
    mined,       \* the account's mined transactions, the n-th with nonce n
    void,        \* intents past their deadline, or whose authority ended
    requests,    \* what is left of MaxRequests
    upsets       \* what is left of MaxUpsets

store == <<nextNonce, allocated, attempt, budget>>
view == <<state, lock>>
recovery == <<scan, stale>>
chain == <<pool, mined, void, upsets>>
handlers == <<task, requests>>
vars == <<store, view, handlers, recovery, chain>>

\* PREPARED, SUBMITTED and NONCANONICAL are treated alike: not on the chain, as far
\* as is known.
States == {"SUBMITTED", "INCLUDED", "CONFIRMED", "REVERTED"}
Payloads == [nonce : Nonces, intent : Intents, sig : Signatures]
Tasks == [pc : {"idle", "store", "validate", "reserve", "build", "keep",
                "broadcast", "report"},
          intent : Intents \cup {NoIntent}, sig : Signatures \cup {NoSignature},
          nonce : Nonces \cup {NoNonce, NumIntents + 1}, seen : States]
Idle == [pc |-> "idle", intent |-> NoIntent, sig |-> NoSignature, nonce |-> NoNonce,
         seen |-> "SUBMITTED"]
Resting == [pc |-> "idle", seen |-> [i \in {} |-> "SUBMITTED"]]

StoreTypeOK ==
    /\ nextNonce \in 0..(NumIntents + 1)
    /\ allocated \in [Intents -> Nonces \cup {NoNonce}]
    /\ \A i \in Intents : allocated[i] # NoNonce => allocated[i] < nextNonce
    /\ attempt \in [Intents -> Signatures \cup {NoSignature}]
    /\ budget \subseteq Payloads
    /\ state \in [Intents -> States]
    /\ lock \in [Packages -> Intents \cup {NoIntent}]

ChainTypeOK ==
    /\ pool \subseteq Payloads
    /\ mined \in Seq([tx : Payloads, ok : {"yes", "no"}, depth : 1..Required])
    /\ void \subseteq Intents
    /\ upsets \in 0..MaxUpsets /\ requests \in 0..MaxRequests

TypeOK == /\ StoreTypeOK /\ ChainTypeOK
          /\ task \in [Workers -> Tasks]
          /\ \A r \in Recoverers : \E S \in SUBSET Intents :
                 scan[r] \in [pc : {"idle", "read"}, seen : [S -> States]]
          /\ stale \subseteq Recoverers

Init ==
    /\ nextNonce = 0
    /\ allocated = [i \in Intents |-> NoNonce]
    /\ attempt = [i \in Intents |-> NoSignature]
    /\ budget = {}
    /\ state = [i \in Intents |-> "SUBMITTED"]
    /\ lock = [p \in Packages |-> NoIntent]
    /\ task = [w \in Workers |-> Idle]
    /\ scan = [r \in Recoverers |-> Resting]
    /\ stale = {}
    /\ pool = {} /\ mined = <<>> /\ void = {}
    /\ requests = MaxRequests /\ upsets = MaxUpsets

(***************************************************************************)
(* What the chain answers.                                                 *)
(***************************************************************************)
\* validate and estimateGas: the contract would accept the publication now.
Accepted(i) ==
    /\ i \notin void
    /\ \A n \in DOMAIN mined :
           mined[n].ok = "yes" => PackageOf[mined[n].tx.intent] # PackageOf[i]

Payload(i, s) == [nonce |-> allocated[i], intent |-> i, sig |-> s]

\* The nonce after the mined transactions and those in the pool that follow on, as
\* the only member of a set.
PendingNonce ==
    {n \in 1..(NumIntents + 1) :
        /\ n > Len(mined)
        /\ \A k \in (Len(mined) + 1)..(n - 1) : \E t \in pool : t.nonce = k
        /\ \A t \in pool : t.nonce # n}

MinedAs(i) == {n \in DOMAIN mined : mined[n].tx = Payload(i, attempt[i])}

\* observe: the receipt of the stored transaction, and its depth.
Observed(i) ==
    IF MinedAs(i) = {} THEN "SUBMITTED"
    ELSE LET r == mined[allocated[i]]
         IN  IF r.ok = "no" THEN "REVERTED"
             ELSE IF r.depth >= Required THEN "CONFIRMED" ELSE "INCLUDED"

\* Faulty variant: a reverted publication keeps its lock.
LocksReverted(v, p, l) ==
    LET Kept == lock[p] # NoIntent /\ (lock[p] \in DOMAIN v => v[lock[p]] # "SUBMITTED")
        Confirmed == {i \in DOMAIN v : PackageOf[i] = p /\ v[i] = "CONFIRMED"}
    IN  \/ Kept /\ l = lock[p]
        \/ ~Kept /\ l \in Confirmed /\ \A i \in Confirmed : l <= i
        \/ ~Kept /\ Confirmed = {} /\ l = NoIntent

(***************************************************************************)
(* persistObservation and followPublication, for the observations v of one *)
(* transaction.  The rows are written by ascending intent: a publication   *)
(* that is no longer on the chain gives its own lock up, and the first     *)
(* confirmed one after it takes the package if it is free.                 *)
(***************************************************************************)
Locks(v, p, l) ==
    LET Kept == lock[p] # NoIntent /\ (lock[p] \in DOMAIN v => v[lock[p]] \in {"INCLUDED", "CONFIRMED"})
        Confirmed == {i \in DOMAIN v : /\ PackageOf[i] = p /\ v[i] = "CONFIRMED"
                                       /\ i > lock[p]}
    IN  \/ Kept /\ l = lock[p]
        \/ ~Kept /\ l \in Confirmed /\ \A i \in Confirmed : l <= i
        \/ ~Kept /\ Confirmed = {} /\ l = NoIntent

Persist(v) ==
    /\ state' = [i \in Intents |-> IF i \in DOMAIN v THEN v[i] ELSE state[i]]
    /\ lock' \in [Packages -> Intents \cup {NoIntent}]
    /\ \A p \in Packages : Locks(v, p, lock'[p])

(***************************************************************************)
(* A request handler.                                                      *)
(***************************************************************************)
\* What was read is used at once and forgotten.
To(w, pc) == /\ task' = [task EXCEPT ![w] = [Idle EXCEPT !.pc = pc, !.intent = task[w].intent,
                                                           !.sig = task[w].sig]]
             /\ UNCHANGED requests
Done(w) == task' = [task EXCEPT ![w] = Idle] /\ UNCHANGED requests
At(w, pc) == task[w].pc = pc

\* submit and retry, up to the reading of the stored transaction: another
\* signature is refused.
Submit(w, i, s) ==
    /\ At(w, "idle") /\ requests > 0 /\ requests' = requests - 1
    /\ attempt[i] \in {NoSignature, s}
    /\ task' = [task EXCEPT ![w] =
           IF attempt[i] = s
           THEN [Idle EXCEPT !.pc = "store", !.intent = i, !.sig = s, !.seen = Observed(i)]
           ELSE [Idle EXCEPT !.pc = "validate", !.intent = i, !.sig = s]]
    /\ UNCHANGED <<store, view, recovery, chain>>

\* settled: only what is not on the chain is sent again.  status, asked by a page,
\* is a submission that ends here.
Store(w) ==
    /\ At(w, "store")
    /\ Persist([i \in {task[w].intent} |-> task[w].seen])
    /\ IF task[w].seen = "SUBMITTED" THEN To(w, "validate") ELSE Done(w)
    /\ UNCHANGED <<store, recovery, chain>>

\* The contract's validate, then send: preflight and the pending nonce, or the
\* stored transaction.
Send(w) ==
    LET i == task[w].intent
    IN  /\ At(w, "validate") /\ Accepted(i)
        /\ \/ /\ attempt[i] = NoSignature
              /\ \E n \in PendingNonce :
                     task' = [task EXCEPT ![w].pc = "reserve", ![w].nonce = n]
              /\ UNCHANGED requests
           \/ attempt[i] = task[w].sig /\ To(w, "broadcast")
        /\ UNCHANGED <<store, view, recovery, chain>>

Unfinished == {j \in Intents : allocated[j] # NoNonce /\ attempt[j] = NoSignature}

\* Faulty variant: only the intent's own allocation counts.
ClearOfOwn(i) == i \notin Unfinished \/ allocated[i] # NoNonce

\* Nobody allocates past a nonce whose transaction is not stored yet.
Clear(i) == \A j \in Unfinished : allocated[i] # NoNonce /\ allocated[i] <= allocated[j]

Following(n) == n + 1

\* reserve, its first transaction: the stored transaction, the nonce the intent has,
\* or a new one.
Reserve(w) ==
    LET i == task[w].intent
    IN  /\ At(w, "reserve")
        /\ \/ attempt[i] = task[w].sig /\ To(w, "broadcast") /\ UNCHANGED <<nextNonce, allocated>>
           \/ /\ attempt[i] = NoSignature /\ Clear(i)
              /\ allocated[i] # NoNonce
              /\ To(w, "build") /\ UNCHANGED <<nextNonce, allocated>>
           \/ /\ attempt[i] = NoSignature /\ Clear(i)
              /\ allocated[i] = NoNonce
              /\ LET n == IF nextNonce > task[w].nonce THEN nextNonce ELSE task[w].nonce
                 IN  /\ n \in Nonces
                     /\ allocated' = [allocated EXCEPT ![i] = n]
                     /\ nextNonce' = Following(n)
              /\ To(w, "build")
        /\ UNCHANGED <<attempt, budget, view, recovery, chain>>

\* Faulty variant: the bytes are sent before the attempt is stored.
ChargeThenSend(w) ==
    LET p == Payload(task[w].intent, task[w].sig)
    IN  /\ At(w, "build") /\ Accepted(task[w].intent)
        /\ \/ p \in budget
           \/ Cardinality(budget) < MaxSpend /\ \A q \in budget : q.nonce # p.nonce
        /\ budget' = budget \cup {p}
        /\ To(w, "broadcast")
        /\ UNCHANGED <<nextNonce, allocated, attempt, view, recovery, chain>>

\* build: the estimate, then the budget's reserve, which is never refunded, and
\* signed, which keeps the bytes with it: a death between the two leaves a payload
\* charged and the next build takes it up.  What was charged before is not charged
\* again; a nonce is charged for one payload only.
Charge(w) ==
    LET p == Payload(task[w].intent, task[w].sig)
    IN  /\ At(w, "build") /\ Accepted(task[w].intent)
        /\ \/ p \in budget
           \/ Cardinality(budget) < MaxSpend /\ \A q \in budget : q.nonce # p.nonce
        /\ budget' = budget \cup {p}
        /\ To(w, "keep")
        /\ UNCHANGED <<nextNonce, allocated, attempt, view, recovery, chain>>

\* reserve, the insertion of the attempt: the first one stays.
Keep(w) ==
    LET i == task[w].intent
    IN  /\ At(w, "keep")
        /\ attempt[i] \in {NoSignature, task[w].sig}
        /\ attempt' = [attempt EXCEPT ![i] = task[w].sig]
        /\ To(w, "broadcast")
        /\ UNCHANGED <<nextNonce, allocated, budget, view, recovery, chain>>

\* broadcast: the budget's authorize, then the node, which refuses a used nonce.
Broadcast(w) ==
    LET p == Payload(task[w].intent, task[w].sig)
    IN  /\ At(w, "broadcast")
        /\ p \in budget /\ p.nonce > Len(mined)
        /\ pool' = pool \cup {p}
        /\ To(w, "report")
        /\ UNCHANGED <<store, view, recovery, mined, void, upsets>>

\* send, after the node's answer: SUBMITTED, whatever was observed meanwhile.
Report(w) ==
    /\ At(w, "report")
    /\ Persist([i \in {task[w].intent} |-> "SUBMITTED"])
    /\ Done(w)
    /\ UNCHANGED <<store, recovery, chain>>

\* A refused step, an unanswered call, or the death of the process.
Fail(w) ==
    /\ ~At(w, "idle") /\ Done(w)
    /\ UNCHANGED <<store, view, recovery, chain>>

Handle(w) == \/ \E i \in Intents, s \in Signatures : Submit(w, i, s)
             \/ Store(w) \/ Send(w) \/ Reserve(w) \/ Charge(w)
             \/ Keep(w) \/ Broadcast(w) \/ Report(w) \/ Fail(w)

(***************************************************************************)
(* recoverRegistry.                                                        *)
(***************************************************************************)
\* Faulty variant: a pass leaves alone what is confirmed already.
Unconfirmed == {j \in Intents : attempt[j] # NoSignature /\ state[j] # "CONFIRMED"}

Stored == {j \in Intents : attempt[j] # NoSignature}

\* Reads the checkpoint, the head, and every stored transaction at that head, and
\* asks for the head again: what it has then read is the chain at one moment.  A pass
\* whose head is replaced meanwhile, or that dies, ends as if it had not begun.
Scan(r) ==
    /\ scan[r].pc = "idle"
    /\ scan' = [scan EXCEPT ![r] =
               [pc |-> "read", seen |-> [i \in Stored |-> Observed(i)]]]
    /\ stale' = stale \ {r}
    /\ UNCHANGED <<store, view, handlers, chain>>

\* commit: one transaction, if the checkpoint is still the one it read.
Commit(r) ==
    /\ scan[r].pc = "read"
    /\ IF r \in stale
       THEN UNCHANGED <<view, stale>>
       ELSE Persist(scan[r].seen) /\ stale' = {q \in Recoverers \ {r} : scan[q].pc = "read"}
    /\ scan' = [scan EXCEPT ![r] = Resting]
    /\ UNCHANGED <<store, handlers, chain>>

Recover(r) == Scan(r) \/ Commit(r)

(***************************************************************************)
(* The chain: ReportEvidenceRegistry behind an account.                    *)
(***************************************************************************)
Deeper(m) == [n \in DOMAIN m |->
    [m[n] EXCEPT !.depth = IF m[n].depth < Required THEN m[n].depth + 1 ELSE Required]]

\* A block, with the account's next transaction if the node has it.
Block ==
    /\ \/ mined' = Deeper(mined) /\ mined' # mined /\ UNCHANGED pool
       \/ \E t \in pool :
              /\ t.nonce = Len(mined) + 1
              /\ mined' = Append(Deeper(mined),
                     [tx |-> t, ok |-> IF Accepted(t.intent) THEN "yes" ELSE "no", depth |-> 1])
              /\ pool' = pool \ {t}
    /\ UNCHANGED <<store, view, handlers, recovery, void, upsets>>

\* The last blocks are replaced; the node may or may not keep their transactions, and
\* their deadlines may pass before they are mined again.
Reorganise ==
    /\ upsets > 0 /\ upsets' = upsets - 1
    /\ \E n \in {k \in 0..Len(mined) : k < Len(mined)} :
           LET dropped == {mined[k].tx : k \in (n + 1)..Len(mined)}
           IN  /\ mined' = SubSeq(mined, 1, n)
               /\ \E S \in SUBSET dropped : pool' = pool \cup S
               /\ \E S \in SUBSET dropped : void' = void \cup {t.intent : t \in S}
    /\ UNCHANGED <<store, view, handlers, recovery>>

\* The deadline passes, or the signer's authority changes.
Void(i) ==
    /\ upsets > 0 /\ upsets' = upsets - 1
    /\ i \notin void /\ void' = void \cup {i}
    /\ UNCHANGED <<store, view, handlers, recovery, pool, mined>>

Environment == Block \/ Reorganise \/ \E i \in Intents : Void(i)

Next == \/ \E w \in Workers : Handle(w)
        \/ \E r \in Recoverers : Recover(r)
        \/ Environment

Spec == Init /\ [][Next]_vars

(***************************************************************************)
(* startRegistryRecovery sets its timer again after every pass, failed or  *)
(* not.  No fairness is assumed of users, of the node or of the chain.     *)
(***************************************************************************)
FairSpec == Spec /\ WF_vars(Recover(Timer))

(***************************************************************************)
(* Properties.                                                             *)
(***************************************************************************)
(* The node is given only bytes that are stored and charged: whoever       *)
(* crashes, no transaction exists that a retry would not find again, no    *)
(* nonce and no intent has two of them, and the ceiling pays for all.      *)
SentIsStored ==
    /\ Cardinality(budget) <= MaxSpend
    /\ \A t \in pool \cup {mined[n].tx : n \in DOMAIN mined} :
           /\ t \in budget
           /\ allocated[t.intent] = t.nonce /\ attempt[t.intent] = t.sig
    /\ \A t, u \in budget : t.nonce = u.nonce => t = u

(* Nonces are used in order: a stored transaction never waits behind a     *)
(* nonce that is allocated and has no transaction.                         *)
NoHoleBelow ==
    \A i, j \in Intents :
        /\ attempt[i] # NoSignature => allocated[i] # NoNonce
        /\ i # j /\ allocated[i] # NoNonce => allocated[i] # allocated[j]
        /\ attempt[i] # NoSignature /\ j \in Unfinished => allocated[i] < allocated[j]

(* A locked period is one whose publication was confirmed and has not been *)
(* seen to leave the chain since; the lock is the publication's own.       *)
LockFollows ==
    \A p \in Packages :
        lock[p] # NoIntent => /\ PackageOf[lock[p]] = p
                              /\ state[lock[p]] \in {"INCLUDED", "CONFIRMED"}

Buried(i) == \E n \in MinedAs(i) : mined[n].ok = "yes" /\ mined[n].depth >= Required

Settled(p) == \E i \in Intents : PackageOf[i] = p /\ Buried(i)
Recorded(p) == \E i \in Intents : lock[p] = i /\ Buried(i) /\ state[i] = "CONFIRMED"

(* A publication that stays on the chain with the confirmations asked for  *)
(* ends up locking its period for good, whatever late SUBMITTED, lost pass *)
(* or publication it replaced comes in between.                            *)
PublicationLocks == \A p \in Packages : <>[]Settled(p) => <>[]Recorded(p)
=============================================================================
