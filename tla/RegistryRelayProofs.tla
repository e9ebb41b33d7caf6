------------------------- MODULE RegistryRelayProofs -------------------------
(***************************************************************************)
(* Proofs about RegistryRelay, for any number of intents, packages,        *)
(* signatures, request handlers and recovery passes.                       *)
(*                                                                         *)
(* The inductive invariant says which of the facts a handler has read stay *)
(* true while it waits (Held), that at most one allocation waits for its   *)
(* transaction (Ordered), and that what is charged, stored and sent is one *)
(* chain of inclusions (Charged).                                          *)
(***************************************************************************)
EXTENDS RegistryRelay, FiniteSetTheorems, TLAPS

USE RelayAssumption DEF RelayAssumption

Working == {"store", "validate", "reserve", "build", "keep", "broadcast", "report"}

Held == \A w \in Workers :
    /\ task[w].pc \in Working => /\ task[w].intent \in Intents
                                 /\ task[w].sig \in Signatures
    /\ task[w].pc = "reserve" => task[w].nonce \in 1..(NumIntents + 1)
    /\ task[w].pc \in {"build", "keep"} => allocated[task[w].intent] # NoNonce
    /\ task[w].pc = "keep" => Payload(task[w].intent, task[w].sig) \in budget
    /\ task[w].pc \in {"broadcast", "report"} => attempt[task[w].intent] = task[w].sig

Ordered ==
    /\ \A i, j \in Intents : i # j /\ allocated[i] # NoNonce => allocated[i] # allocated[j]
    /\ \A i, j \in Unfinished : i = j
    /\ \A i, j \in Intents :
           attempt[i] # NoSignature /\ j \in Unfinished => allocated[i] < allocated[j]

Sent == pool \cup {mined[n].tx : n \in DOMAIN mined}

Charged ==
    /\ IsFiniteSet(budget) /\ Cardinality(budget) <= MaxSpend
    /\ \A t, u \in budget : t.nonce = u.nonce => t = u
    /\ \A i \in Intents : attempt[i] # NoSignature => allocated[i] # NoNonce
    /\ \A t \in Sent : /\ t \in budget
                       /\ allocated[t.intent] = t.nonce /\ attempt[t.intent] = t.sig

IInv == TypeOK /\ Held /\ Ordered /\ Charged /\ LockFollows

(***************************************************************************)
(* What the groups of steps leave alone.                                   *)
(***************************************************************************)
\* A stored set of observations keeps the types and the locks right.
LEMMA PersistKeeps ==
    ASSUME TypeOK, LockFollows, NEW v, NEW S \in SUBSET Intents, v \in [S -> States], Persist(v)
    PROVE  /\ state' \in [Intents -> States]
           /\ lock' \in [Packages -> Intents \cup {NoIntent}]
           /\ LockFollows'
<1>1. state' \in [Intents -> States] /\ lock' \in [Packages -> Intents \cup {NoIntent}]
    BY DEF TypeOK, StoreTypeOK, Persist
<1>2. LockFollows'
    <2> SUFFICES ASSUME NEW p \in Packages, lock'[p] # NoIntent
                 PROVE  PackageOf[lock'[p]] = p /\ state'[lock'[p]] \in {"INCLUDED", "CONFIRMED"}
        BY DEF LockFollows
    <2>1. Locks(v, p, lock'[p])
        BY DEF Persist
    <2>2. CASE lock[p] # NoIntent /\ lock'[p] = lock[p]
                   /\ (lock[p] \in DOMAIN v => v[lock[p]] \in {"INCLUDED", "CONFIRMED"})
        BY <2>2, <1>1 DEF LockFollows, Persist, TypeOK, StoreTypeOK, NoIntent
    <2>3. CASE lock'[p] \in DOMAIN v /\ PackageOf[lock'[p]] = p /\ v[lock'[p]] = "CONFIRMED"
        BY <2>3 DEF Persist
    <2> QED
        BY <2>1, <2>2, <2>3 DEF Locks
<1> QED
    BY <1>1, <1>2

\* A view stored for one intent is such a set.
LEMMA Single ==
    ASSUME NEW i \in Intents, NEW s \in States
    PROVE  [j \in {i} |-> s] \in [{i} -> States] /\ {i} \in SUBSET Intents
OBVIOUS

LEMMA ObservedState == ASSUME NEW i PROVE Observed(i) \in States
BY DEF Observed, States

LEMMA Initially == Init => IInv
<1> SUFFICES ASSUME Init PROVE IInv
    OBVIOUS
<1>1. TypeOK
    <2>1. StoreTypeOK
        BY DEF Init, StoreTypeOK, States, NoNonce, NoIntent
    <2>2. ChainTypeOK
        BY DEF Init, ChainTypeOK
    <2>3. task \in [Workers -> Tasks]
        BY DEF Init, Idle, Tasks, States
    <2>4. ASSUME NEW r \in Recoverers
          PROVE  scan[r] \in [pc : {"idle", "read"}, seen : [{} -> States]]
        BY DEF Init, Resting
    <2> QED
        BY <2>1, <2>2, <2>3, <2>4 DEF TypeOK, Init
<1>2. Held
    BY DEF Init, Held, Working, Idle
<1>3. Ordered
    BY DEF Init, Ordered, Unfinished
<1>4. Charged
    BY FS_EmptySet DEF Init, Charged, Sent
<1>5. LockFollows
    BY DEF Init, LockFollows
<1> QED
    BY <1>1, <1>2, <1>3, <1>4, <1>5 DEF IInv

LEMMA Frames ==
    ASSUME IInv
    PROVE  /\ UNCHANGED <<store, view>> => StoreTypeOK'
           /\ UNCHANGED chain => Sent' = Sent
           /\ UNCHANGED <<chain, requests>> => ChainTypeOK'
           /\ UNCHANGED recovery => /\ stale' \subseteq Recoverers
                                    /\ \A r \in Recoverers : \E S \in SUBSET Intents :
                                           scan'[r] \in [pc : {"idle", "read"}, seen : [S -> States]]
           /\ UNCHANGED store => Ordered'
           /\ UNCHANGED <<store, chain>> => Charged'
           /\ UNCHANGED view => LockFollows'
<1>1. UNCHANGED <<store, view>> => StoreTypeOK'
    BY DEF IInv, TypeOK, StoreTypeOK, store, view
<1>2. UNCHANGED chain => Sent' = Sent
    BY DEF chain, Sent
<1>3. UNCHANGED <<chain, requests>> => ChainTypeOK'
    BY DEF IInv, TypeOK, ChainTypeOK, chain
<1>4. UNCHANGED recovery => /\ stale' \subseteq Recoverers
                           /\ \A r \in Recoverers : \E S \in SUBSET Intents :
                                  scan'[r] \in [pc : {"idle", "read"}, seen : [S -> States]]
    BY DEF IInv, TypeOK, recovery
<1>5. UNCHANGED store => Ordered'
    BY DEF IInv, Ordered, store, Unfinished
<1>6. UNCHANGED <<store, chain>> => Charged'
    BY <1>2 DEF IInv, Charged, store
<1>7. UNCHANGED view => LockFollows'
    BY DEF IInv, LockFollows, view
<1> QED
    BY <1>1, <1>2, <1>3, <1>4, <1>5, <1>6, <1>7

(***************************************************************************)
(* The handlers.                                                           *)
(***************************************************************************)
LEMMA ToKeeps ==
    ASSUME TypeOK, NEW w \in Workers, NEW pc \in {"idle"} \cup Working, To(w, pc)
    PROVE  /\ task' \in [Workers -> Tasks] /\ UNCHANGED requests
           /\ task'[w].pc = pc /\ task'[w].intent = task[w].intent /\ task'[w].sig = task[w].sig
           /\ \A x \in Workers \ {w} : task'[x] = task[x]
<1>1. task \in [Workers -> Tasks] /\ task[w] \in Tasks
    BY DEF TypeOK
<1> DEFINE t == [Idle EXCEPT !.pc = pc, !.intent = task[w].intent, !.sig = task[w].sig]
<1>2. t \in Tasks /\ t.pc = pc /\ t.intent = task[w].intent /\ t.sig = task[w].sig
    BY <1>1 DEF Idle, Tasks, Working, States
<1>3. task' = [task EXCEPT ![w] = t] /\ UNCHANGED requests
    BY DEF To
<1> HIDE DEF t
<1> QED
    BY <1>1, <1>2, <1>3

LEMMA DoneKeeps ==
    ASSUME TypeOK, NEW w \in Workers, Done(w)
    PROVE  /\ task' \in [Workers -> Tasks] /\ UNCHANGED requests
           /\ task'[w].pc = "idle"
           /\ \A x \in Workers \ {w} : task'[x] = task[x]
<1>1. Idle \in Tasks /\ Idle.pc = "idle"
    BY DEF Idle, Tasks, States
<1> QED
    BY <1>1 DEF TypeOK, Done

\* What is held stays held when nothing that was stored is taken back.
LEMMA HeldKeeps ==
    ASSUME IInv,
           \A i \in Intents : allocated[i] # NoNonce => allocated'[i] = allocated[i],
           \A i \in Intents : attempt[i] # NoSignature => attempt'[i] = attempt[i],
           budget \subseteq budget',
           NEW x \in Workers, task'[x] = task[x]
    PROVE  /\ task'[x].pc \in Working => /\ task'[x].intent \in Intents
                                          /\ task'[x].sig \in Signatures
           /\ task'[x].pc = "reserve" => task'[x].nonce \in 1..(NumIntents + 1)
           /\ task'[x].pc \in {"build", "keep"} => allocated'[task'[x].intent] # NoNonce
           /\ task'[x].pc = "keep" =>
                  [nonce |-> allocated'[task'[x].intent], intent |-> task'[x].intent,
                   sig |-> task'[x].sig] \in budget'
           /\ task'[x].pc \in {"broadcast", "report"} => attempt'[task'[x].intent] = task'[x].sig
<1>1. task[x].pc \in Working => task[x].intent \in Intents /\ task[x].sig \in Signatures
    BY DEF IInv, Held
<1>2. task[x].pc \in {"build", "keep", "broadcast", "report"} => task[x].pc \in Working
    BY DEF Working
<1>3. task[x].pc \in {"build", "keep"} =>
          /\ allocated[task[x].intent] # NoNonce
          /\ allocated'[task[x].intent] = allocated[task[x].intent]
    BY <1>1, <1>2 DEF IInv, Held
<1>4. task[x].pc \in {"broadcast", "report"} => attempt'[task[x].intent] = task[x].sig
    BY <1>1, <1>2 DEF IInv, Held
<1> QED
    BY <1>1, <1>3, <1>4 DEF IInv, Held, Payload

LEMMA SubmitKeeps ==
    ASSUME IInv, NEW w \in Workers, NEW i \in Intents, NEW s \in Signatures, Submit(w, i, s)
    PROVE  IInv'
<1> DEFINE t == IF attempt[i] = s
                THEN [Idle EXCEPT !.pc = "store", !.intent = i, !.sig = s, !.seen = Observed(i)]
                ELSE [Idle EXCEPT !.pc = "validate", !.intent = i, !.sig = s]
<1>1. t \in Tasks /\ t.pc \in {"store", "validate"} /\ t.intent = i /\ t.sig = s
    BY ObservedState DEF Idle, Tasks, States
<1>2. task' = [task EXCEPT ![w] = t]
    BY DEF Submit
<1> HIDE DEF t
<1>3. task' \in [Workers -> Tasks] /\ task'[w] = t /\ \A x \in Workers \ {w} : task'[x] = task[x]
    BY <1>1, <1>2 DEF IInv, TypeOK
<1>4. UNCHANGED <<store, view, recovery, chain>> /\ UNCHANGED <<allocated, attempt, budget>>
    BY DEF Submit, store
<1>5. ChainTypeOK'
    BY <1>4 DEF IInv, TypeOK, ChainTypeOK, Submit, chain
<1>6. Held'
    <2> SUFFICES ASSUME NEW x \in Workers PROVE Held!(x)'
        BY DEF Held
    <2>1. CASE x = w
        BY <2>1, <1>1, <1>3 DEF Working
    <2>2. CASE x # w
        BY <2>2, <1>3, <1>4, HeldKeeps DEF Payload
    <2> QED
        BY <2>1, <2>2
<1> QED
    BY <1>3, <1>4, <1>5, <1>6, Frames DEF IInv, TypeOK

\* A handler that goes on to pc, when what it needs there is true.
LEMMA Moved ==
    ASSUME IInv, NEW w \in Workers, NEW pc \in Working, To(w, pc),
           task[w].pc \in Working, pc # "reserve",
           \A i \in Intents : allocated[i] # NoNonce => allocated'[i] = allocated[i],
           \A i \in Intents : attempt[i] # NoSignature => attempt'[i] = attempt[i],
           budget \subseteq budget',
           pc \in {"build", "keep"} => allocated'[task[w].intent] # NoNonce,
           pc = "keep" => [nonce |-> allocated'[task[w].intent], intent |-> task[w].intent,
                           sig |-> task[w].sig] \in budget',
           pc \in {"broadcast", "report"} => attempt'[task[w].intent] = task[w].sig
    PROVE  Held' /\ task' \in [Workers -> Tasks] /\ UNCHANGED requests
<1>1. /\ task' \in [Workers -> Tasks] /\ UNCHANGED requests
      /\ task'[w].pc = pc /\ task'[w].intent = task[w].intent /\ task'[w].sig = task[w].sig
      /\ \A x \in Workers \ {w} : task'[x] = task[x]
    BY ToKeeps DEF IInv
<1>2. task[w].intent \in Intents /\ task[w].sig \in Signatures
    BY DEF IInv, Held
<1>3. Held'
    <2> SUFFICES ASSUME NEW x \in Workers PROVE Held!(x)'
        BY DEF Held
    <2>1. CASE x = w
        BY <2>1, <1>1, <1>2 DEF Payload
    <2>2. CASE x # w
        BY <2>2, <1>1, HeldKeeps DEF Payload
    <2> QED
        BY <2>1, <2>2
<1> QED
    BY <1>1, <1>3

LEMMA Ended ==
    ASSUME IInv, NEW w \in Workers, Done(w), UNCHANGED store
    PROVE  Held' /\ task' \in [Workers -> Tasks] /\ UNCHANGED requests
<1>1. /\ task' \in [Workers -> Tasks] /\ UNCHANGED requests /\ task'[w].pc = "idle"
      /\ \A x \in Workers \ {w} : task'[x] = task[x]
    BY DoneKeeps DEF IInv
<1>2. UNCHANGED <<allocated, attempt, budget>>
    BY DEF store
<1>3. Held'
    <2> SUFFICES ASSUME NEW x \in Workers PROVE Held!(x)'
        BY DEF Held
    <2>1. CASE x = w
        BY <2>1, <1>1 DEF Working
    <2>2. CASE x # w
        BY <2>2, <1>1, <1>2, HeldKeeps DEF Payload
    <2> QED
        BY <2>1, <2>2
<1> QED
    BY <1>1, <1>3

\* A step that stores an observation of the handler's intent.
LEMMA Reported ==
    ASSUME IInv, NEW w \in Workers, task[w].pc \in Working, NEW s \in States,
           Persist([i \in {task[w].intent} |-> s]), UNCHANGED <<store, recovery, chain>>,
           Held', task' \in [Workers -> Tasks], UNCHANGED requests
    PROVE  IInv'
<1>1. task[w].intent \in Intents
    BY DEF IInv, Held
<1> DEFINE v == [i \in {task[w].intent} |-> s]
<1>2. v \in [{task[w].intent} -> States] /\ {task[w].intent} \in SUBSET Intents
    BY <1>1
<1>3. Persist(v)
    OBVIOUS
<1> HIDE DEF v
<1>4. state' \in [Intents -> States] /\ lock' \in [Packages -> Intents \cup {NoIntent}] /\ LockFollows'
    BY <1>2, <1>3, PersistKeeps DEF IInv
<1>5. StoreTypeOK'
    BY <1>4 DEF IInv, TypeOK, StoreTypeOK, store
<1> QED
    BY <1>4, <1>5, Frames DEF IInv, TypeOK

LEMMA StoreKeeps == ASSUME IInv, NEW w \in Workers, Store(w) PROVE IInv'
<1>1. task[w].pc \in Working /\ task[w].seen \in States
    BY DEF Store, At, Working, IInv, TypeOK, Tasks
<1>2. /\ Persist([i \in {task[w].intent} |-> task[w].seen])
      /\ UNCHANGED <<store, recovery, chain>> /\ UNCHANGED <<allocated, attempt, budget>>
    BY DEF Store, store
<1>3. CASE To(w, "validate")
    <2>1. Held' /\ task' \in [Workers -> Tasks] /\ UNCHANGED requests
        BY <1>1, <1>2, <1>3, Moved DEF Working
    <2> QED
        BY <2>1, <1>1, <1>2, Reported
<1>4. CASE Done(w)
    <2>1. Held' /\ task' \in [Workers -> Tasks] /\ UNCHANGED requests
        BY <1>2, <1>4, Ended
    <2> QED
        BY <2>1, <1>1, <1>2, Reported
<1> QED
    BY <1>3, <1>4 DEF Store

LEMMA ReportKeeps == ASSUME IInv, NEW w \in Workers, Report(w) PROVE IInv'
<1>1. task[w].pc \in Working /\ "SUBMITTED" \in States
    BY DEF Report, At, Working, States
<1>2. /\ Persist([i \in {task[w].intent} |-> "SUBMITTED"]) /\ Done(w)
      /\ UNCHANGED <<store, recovery, chain>>
    BY DEF Report
<1>3. Held' /\ task' \in [Workers -> Tasks] /\ UNCHANGED requests
    BY <1>2, Ended
<1> QED
    BY <1>1, <1>2, <1>3, Reported

\* A step of a handler that stores nothing.
LEMMA Silent ==
    ASSUME IInv, UNCHANGED <<store, view, recovery, chain, requests>>,
           Held', task' \in [Workers -> Tasks]
    PROVE  IInv'
BY Frames DEF IInv, TypeOK

LEMMA FailKeeps == ASSUME IInv, NEW w \in Workers, Fail(w) PROVE IInv'
<1>1. Done(w) /\ UNCHANGED <<store, view, recovery, chain>>
    BY DEF Fail
<1>2. Held' /\ task' \in [Workers -> Tasks] /\ UNCHANGED requests
    BY <1>1, Ended
<1> QED
    BY <1>1, <1>2, Silent

LEMMA SendKeeps == ASSUME IInv, NEW w \in Workers, Send(w) PROVE IInv'
<1>1. task[w].pc = "validate" /\ task[w].pc \in Working
    BY DEF Send, At, Working
<1>2. UNCHANGED <<store, view, recovery, chain>> /\ UNCHANGED <<allocated, attempt, budget>>
    BY DEF Send, store
<1>3. ASSUME NEW n \in 1..(NumIntents + 1),
             task' = [task EXCEPT ![w].pc = "reserve", ![w].nonce = n], UNCHANGED requests
      PROVE  Held' /\ task' \in [Workers -> Tasks] /\ UNCHANGED requests
    <2>1. task \in [Workers -> Tasks] /\ task[w] \in Tasks
        BY DEF IInv, TypeOK
    <2>2. n \in Nonces \cup {NoNonce, NumIntents + 1}
        BY DEF Nonces
    <2>3. /\ task' \in [Workers -> Tasks]
          /\ task'[w] = [task[w] EXCEPT !.pc = "reserve", !.nonce = n]
          /\ \A x \in Workers \ {w} : task'[x] = task[x]
        BY <2>1, <2>2, <1>3 DEF Tasks
    <2>4. task[w].intent \in Intents /\ task[w].sig \in Signatures
        BY <1>1 DEF IInv, Held
    <2>5. Held'
        <3> SUFFICES ASSUME NEW x \in Workers PROVE Held!(x)'
            BY DEF Held
        <3>1. CASE x = w
            BY <3>1, <2>1, <2>3, <2>4 DEF Tasks
        <3>2. CASE x # w
            BY <3>2, <2>3, <1>2, HeldKeeps DEF Payload
        <3> QED
            BY <3>1, <3>2
    <2> QED
        BY <2>3, <2>5, <1>3
<1>4. ASSUME attempt[task[w].intent] = task[w].sig, To(w, "broadcast")
      PROVE  Held' /\ task' \in [Workers -> Tasks] /\ UNCHANGED requests
    BY <1>1, <1>2, <1>4, Moved DEF Working
<1>5. Held' /\ task' \in [Workers -> Tasks] /\ UNCHANGED requests
    BY <1>3, <1>4 DEF Send, PendingNonce
<1> QED
    BY <1>2, <1>5, Silent

LEMMA ReserveKeeps == ASSUME IInv, NEW w \in Workers, Reserve(w) PROVE IInv'
<1> DEFINE i == task[w].intent
<1>1. task[w].pc = "reserve" /\ task[w].pc \in Working
    BY DEF Reserve, At, Working
<1>2. i \in Intents /\ task[w].sig \in Signatures /\ task[w].nonce \in 1..(NumIntents + 1)
    BY <1>1 DEF IInv, Held
<1>3. UNCHANGED <<attempt, budget, view, recovery, chain>>
    BY DEF Reserve
<1>4. CASE UNCHANGED <<nextNonce, allocated>>
    <2>1. UNCHANGED store
        BY <1>3, <1>4 DEF store
    <2>2. Held' /\ task' \in [Workers -> Tasks] /\ UNCHANGED requests
        <3>1. CASE attempt[i] = task[w].sig /\ To(w, "broadcast")
            BY <3>1, <1>1, <1>3, <1>4, Moved DEF Working
        <3>2. CASE allocated[i] # NoNonce /\ To(w, "build")
            BY <3>2, <1>1, <1>3, <1>4, Moved DEF Working
        <3>3. ASSUME NEW n \in Nonces, allocated[i] = NoNonce, allocated' = [allocated EXCEPT ![i] = n]
              PROVE  FALSE
            BY <3>3, <1>2, <1>4 DEF IInv, TypeOK, StoreTypeOK, Nonces, NoNonce
        <3> QED
            BY <3>1, <3>2, <3>3 DEF Reserve
    <2> QED
        BY <2>1, <2>2, <1>3, Silent
<1>5. ASSUME NEW n \in Nonces, n >= nextNonce, allocated[i] = NoNonce, attempt[i] = NoSignature,
             Clear(i), allocated' = [allocated EXCEPT ![i] = n], nextNonce' = n + 1,
             To(w, "build")
      PROVE  IInv'
    <2>1. /\ allocated \in [Intents -> Nonces \cup {NoNonce}] /\ nextNonce \in Nat
          /\ \A j \in Intents : allocated[j] # NoNonce => allocated[j] < nextNonce
        BY DEF IInv, TypeOK, StoreTypeOK
    <2>2. /\ allocated'[i] = n /\ n \in Nat /\ n # NoNonce
          /\ \A j \in Intents \ {i} : allocated'[j] = allocated[j]
          /\ \A j \in Intents : allocated[j] \in Nat
        BY <2>1, <1>2, <1>5 DEF Nonces, NoNonce
    <2>3. StoreTypeOK'
        BY <2>1, <2>2, <1>2, <1>3, <1>5 DEF IInv, TypeOK, StoreTypeOK, Nonces, view
    <2>4. Held' /\ task' \in [Workers -> Tasks] /\ UNCHANGED requests
        BY <2>2, <1>1, <1>2, <1>3, <1>5, Moved DEF Working
    <2>5. Unfinished = {}
        BY <1>2, <1>5 DEF Clear, Unfinished
    <2>6. Unfinished' = {i}
        BY <2>2, <2>5, <1>2, <1>3, <1>5 DEF Unfinished
    <2>7. \A j \in Intents \ {i} : allocated[j] # NoNonce => allocated[j] < n
        BY <2>1, <2>2, <1>5
    <2>8. Ordered'
        <3>1. \A j, k \in Intents :
                  j # k /\ allocated'[j] # NoNonce => allocated'[j] # allocated'[k]
            BY <2>2, <2>7, <1>2 DEF IInv, Ordered, NoNonce
        <3>2. \A j, k \in Unfinished' : j = k
            BY <2>6
        <3>3. \A j, k \in Intents :
                  attempt'[j] # NoSignature /\ k \in Unfinished' => allocated'[j] < allocated'[k]
            BY <2>2, <2>6, <2>7, <1>3, <1>5 DEF IInv, Charged
        <3> QED
            BY <3>1, <3>2, <3>3 DEF Ordered
    <2>9. Charged'
        <3>1. Sent' = Sent
            BY <1>3, Frames
        <3>2. \A t \in Sent : t.intent # i
            BY <1>2, <1>5 DEF IInv, Charged, TypeOK, StoreTypeOK, Payloads, NoNonce, Nonces
        <3>3. \A t \in Sent : t.intent \in Intents
            BY DEF IInv, Charged, TypeOK, StoreTypeOK, Payloads
        <3>4. \A j \in Intents : attempt[j] # NoSignature => allocated'[j] # NoNonce
            BY <2>2 DEF IInv, Charged
        <3> QED
            BY <3>1, <3>2, <3>3, <3>4, <2>2, <1>3 DEF IInv, Charged
    <2> QED
        BY <2>3, <2>4, <2>8, <2>9, <1>3, Frames DEF IInv, TypeOK
<1>6. CASE ~UNCHANGED <<nextNonce, allocated>>
    <2>1. nextNonce \in Nat /\ task[w].nonce \in Nat
        BY <1>2 DEF IInv, TypeOK, StoreTypeOK
    <2> QED
        BY <2>1, <1>5, <1>6 DEF Reserve, Following
<1> QED
    BY <1>4, <1>6

LEMMA ChargeKeeps == ASSUME IInv, NEW w \in Workers, Charge(w) PROVE IInv'
<1> DEFINE i == task[w].intent
           p == Payload(i, task[w].sig)
<1>1. task[w].pc = "build" /\ task[w].pc \in Working
    BY DEF Charge, At, Working
<1>2. i \in Intents /\ task[w].sig \in Signatures /\ allocated[i] \in Nonces
    BY <1>1 DEF IInv, Held, TypeOK, StoreTypeOK
<1>3. /\ UNCHANGED <<nextNonce, allocated, attempt>> /\ UNCHANGED <<view, recovery, chain>>
      /\ budget' = budget \cup {p} /\ To(w, "keep")
    BY DEF Charge
<1>4. p \in Payloads /\ p.nonce = allocated[i]
    BY <1>2 DEF Payload, Payloads
<1>5. Held' /\ task' \in [Workers -> Tasks] /\ UNCHANGED requests
    BY <1>1, <1>2, <1>3, Moved DEF Working, Payload, NoNonce, Nonces
<1>6. StoreTypeOK'
    BY <1>3, <1>4 DEF IInv, TypeOK, StoreTypeOK, view
<1>7. Ordered'
    BY <1>3 DEF IInv, Ordered, Unfinished
<1>8. Charged'
    <2>1. IsFiniteSet(budget) /\ Cardinality(budget) \in Nat
        BY FS_CardinalityType DEF IInv, Charged
    <2>2. CASE p \in budget
        <3>1. budget' = budget /\ Sent' = Sent
            BY <2>2, <1>3, Frames
        <3> QED
            BY <3>1, <1>3 DEF IInv, Charged
    <2>3. CASE Cardinality(budget) < MaxSpend /\ \A q \in budget : q.nonce # p.nonce
        <3> HIDE DEF p
        <3>0. p \notin budget
            BY <2>3
        <3>1. IsFiniteSet(budget') /\ Cardinality(budget') = Cardinality(budget) + 1
            BY <2>1, <3>0, <1>3, FS_AddElement
        <3>2. \A t, u \in budget' : t.nonce = u.nonce => t = u
            BY <2>3, <1>3 DEF IInv, Charged
        <3>3. Sent' = Sent
            BY <1>3, Frames
        <3> QED
            BY <3>1, <3>2, <3>3, <2>1, <2>3, <1>3 DEF IInv, Charged
    <2> QED
        BY <2>2, <2>3 DEF Charge
<1> QED
    BY <1>3, <1>5, <1>6, <1>7, <1>8, Frames DEF IInv, TypeOK

LEMMA KeepKeeps == ASSUME IInv, NEW w \in Workers, Keep(w) PROVE IInv'
<1> DEFINE i == task[w].intent
<1>1. task[w].pc = "keep" /\ task[w].pc \in Working
    BY DEF Keep, At, Working
<1>2. i \in Intents /\ task[w].sig \in Signatures /\ allocated[i] # NoNonce
    BY <1>1 DEF IInv, Held
<1>3. /\ UNCHANGED <<nextNonce, allocated, budget>> /\ UNCHANGED <<view, recovery, chain>>
      /\ attempt[i] \in {NoSignature, task[w].sig}
      /\ attempt' = [attempt EXCEPT ![i] = task[w].sig] /\ To(w, "broadcast")
    BY DEF Keep
<1>4. /\ attempt \in [Intents -> Signatures \cup {NoSignature}]
      /\ attempt'[i] = task[w].sig /\ \A j \in Intents \ {i} : attempt'[j] = attempt[j]
      /\ \A j \in Intents : attempt[j] # NoSignature => attempt'[j] = attempt[j]
    BY <1>2, <1>3 DEF IInv, TypeOK, StoreTypeOK
<1>5. Held' /\ task' \in [Workers -> Tasks] /\ UNCHANGED requests
    BY <1>1, <1>3, <1>4, Moved DEF Working
<1>6. StoreTypeOK'
    BY <1>2, <1>3, <1>4 DEF IInv, TypeOK, StoreTypeOK, view
<1>7. Unfinished' = Unfinished \ {i}
    BY <1>2, <1>3, <1>4 DEF Unfinished
<1>8. Ordered'
    <2>1. \A k \in Unfinished' : k \in Unfinished /\ k # i /\ i \notin Unfinished
        BY <1>7 DEF IInv, Ordered
    <2>2. \A k \in Unfinished' : attempt[i] # NoSignature
        BY <2>1, <1>2 DEF Unfinished
    <2>3. \A j, k \in Intents :
              attempt'[j] # NoSignature /\ k \in Unfinished' => allocated[j] < allocated[k]
        BY <2>1, <2>2, <1>4 DEF IInv, Ordered
    <2> QED
        BY <2>1, <2>3, <1>3 DEF IInv, Ordered
<1>9. Charged'
    <2>1. Sent' = Sent
        BY <1>3, Frames
    <2>2. \A t \in Sent : t.intent \in Intents /\ t.sig # NoSignature
        BY DEF IInv, Charged, TypeOK, StoreTypeOK, Payloads
    <2>3. \A t \in Sent : attempt'[t.intent] = t.sig
        BY <2>2, <1>4 DEF IInv, Charged
    <2>4. \A j \in Intents : attempt'[j] # NoSignature => allocated[j] # NoNonce
        BY <1>2, <1>4 DEF IInv, Charged
    <2> QED
        BY <2>1, <2>3, <2>4, <1>3 DEF IInv, Charged
<1> QED
    BY <1>3, <1>5, <1>6, <1>8, <1>9, Frames DEF IInv, TypeOK

LEMMA BroadcastKeeps == ASSUME IInv, NEW w \in Workers, Broadcast(w) PROVE IInv'
<1> DEFINE i == task[w].intent
           p == Payload(i, task[w].sig)
<1>1. task[w].pc = "broadcast" /\ task[w].pc \in Working
    BY DEF Broadcast, At, Working
<1>2. i \in Intents /\ attempt[i] = task[w].sig
    BY <1>1 DEF IInv, Held
<1>3. /\ UNCHANGED <<store, view, recovery>> /\ UNCHANGED <<allocated, attempt, budget, mined, void, upsets>>
      /\ p \in budget /\ pool' = pool \cup {p} /\ To(w, "report")
    BY DEF Broadcast, store
<1>4. Held' /\ task' \in [Workers -> Tasks] /\ UNCHANGED requests
    BY <1>1, <1>2, <1>3, Moved DEF Working
<1>5. ChainTypeOK'
    BY <1>3, <1>4 DEF IInv, TypeOK, ChainTypeOK, StoreTypeOK
<1>6. Charged'
    <2>1. Sent' = Sent \cup {p}
        BY <1>3 DEF Sent
    <2>2. p.intent = i /\ p.sig = task[w].sig /\ p.nonce = allocated[i]
        BY DEF Payload
    <2> QED
        BY <2>1, <2>2, <1>2, <1>3 DEF IInv, Charged
<1> QED
    BY <1>3, <1>4, <1>5, <1>6, Frames DEF IInv, TypeOK

(***************************************************************************)
(* The recovery pass and the chain.                                        *)
(***************************************************************************)
\* Nothing a handler holds depends on the recovery or on the chain.
LEMMA HandlersRest ==
    ASSUME IInv, UNCHANGED <<store, handlers>>
    PROVE  Held' /\ task' \in [Workers -> Tasks] /\ UNCHANGED requests
BY DEF IInv, TypeOK, Held, Payload, store, handlers

LEMMA ScanKeeps == ASSUME IInv, NEW r \in Recoverers, Scan(r) PROVE IInv'
<1> DEFINE v == [i \in Stored |-> Observed(i)]
<1>1. UNCHANGED <<store, view, handlers, chain>> /\ scan' = [scan EXCEPT ![r] = [pc |-> "read", seen |-> v]]
    BY DEF Scan
<1>2. v \in [Stored -> States] /\ Stored \in SUBSET Intents
    BY ObservedState DEF Stored
<1>3. \A q \in Recoverers : \E S \in SUBSET Intents :
          scan'[q] \in [pc : {"idle", "read"}, seen : [S -> States]]
    <2> HIDE DEF v
    <2> SUFFICES ASSUME NEW q \in Recoverers
                 PROVE  \E S \in SUBSET Intents :
                            scan'[q] \in [pc : {"idle", "read"}, seen : [S -> States]]
        OBVIOUS
    <2>1. CASE q = r /\ r \in DOMAIN scan
        BY <2>1, <1>1, <1>2
    <2>2. CASE q # r \/ r \notin DOMAIN scan
        <3>1. scan'[q] = scan[q]
            BY <2>2, <1>1 DEF Scan, IInv, TypeOK
        <3> QED
            BY <3>1 DEF IInv, TypeOK
    <2> QED
        BY <2>1, <2>2
<1>4. stale' \subseteq Recoverers
    BY DEF Scan, IInv, TypeOK
<1>5. Held' /\ task' \in [Workers -> Tasks] /\ UNCHANGED requests
    BY <1>1, HandlersRest
<1> QED
    BY <1>1, <1>3, <1>4, <1>5, Frames DEF IInv, TypeOK

LEMMA CommitKeeps == ASSUME IInv, NEW r \in Recoverers, Commit(r) PROVE IInv'
<1>1. UNCHANGED <<store, handlers, chain>> /\ scan' = [scan EXCEPT ![r] = Resting]
    BY DEF Commit
<1>2. \A q \in Recoverers : \E S \in SUBSET Intents :
          scan'[q] \in [pc : {"idle", "read"}, seen : [S -> States]]
    <2>1. Resting \in [pc : {"idle", "read"}, seen : [{} -> States]]
        BY DEF Resting
    <2>2. \A q \in Recoverers : scan'[q] = scan[q] \/ scan'[q] = Resting
        BY <1>1 DEF IInv, TypeOK
    <2> QED
        BY <2>1, <2>2 DEF IInv, TypeOK
<1>3. state' \in [Intents -> States] /\ lock' \in [Packages -> Intents \cup {NoIntent}] /\ LockFollows'
    <2>1. CASE Persist(scan[r].seen)
        <3>1. PICK S \in SUBSET Intents : scan[r] \in [pc : {"idle", "read"}, seen : [S -> States]]
            BY DEF IInv, TypeOK
        <3>2. scan[r].seen \in [S -> States]
            BY <3>1
        <3> QED
            BY <2>1, <3>2, PersistKeeps DEF IInv
    <2>2. CASE UNCHANGED view
        BY <2>2, Frames DEF IInv, TypeOK, StoreTypeOK, view
    <2> QED
        BY <2>1, <2>2 DEF Commit
<1>4. StoreTypeOK'
    BY <1>1, <1>3 DEF IInv, TypeOK, StoreTypeOK, store
<1>5. stale' \subseteq Recoverers
    BY DEF Commit, IInv, TypeOK
<1>6. Held' /\ task' \in [Workers -> Tasks] /\ UNCHANGED requests
    BY <1>1, HandlersRest
<1> QED
    BY <1>1, <1>2, <1>3, <1>4, <1>5, <1>6, Frames DEF IInv, TypeOK

Entries == [tx : Payloads, ok : {"yes", "no"}, depth : 1..Required]

LEMMA DeeperKeeps ==
    ASSUME NEW m \in Seq(Entries)
    PROVE  /\ Deeper(m) \in Seq(Entries) /\ DOMAIN Deeper(m) = DOMAIN m
           /\ \A n \in DOMAIN m : Deeper(m)[n].tx = m[n].tx
<1> DEFINE d(n) == IF m[n].depth < Required THEN m[n].depth + 1 ELSE Required
           e(n) == [m[n] EXCEPT !.depth = d(n)]
<1>1. DOMAIN m = 1..Len(m) /\ Len(m) \in Nat /\ \A n \in DOMAIN m : m[n] \in Entries
    OBVIOUS
<1>2. ASSUME NEW n \in DOMAIN m
      PROVE  e(n) \in Entries /\ e(n).tx = m[n].tx
    <2>1. m[n] \in [tx : Payloads, ok : {"yes", "no"}, depth : 1..Required]
        BY <1>1 DEF Entries
    <2>2. d(n) \in 1..Required
        BY <2>1
    <2> HIDE DEF d
    <2> QED
        BY <2>1, <2>2 DEF Entries
<1>3. Deeper(m) = [n \in 1..Len(m) |-> e(n)]
    BY <1>1 DEF Deeper
<1> HIDE DEF e
<1>4. Deeper(m) \in [1..Len(m) -> Entries]
    BY <1>1, <1>2, <1>3
<1>5. Deeper(m) \in Seq(Entries)
    BY <1>1, <1>4
<1>6. DOMAIN Deeper(m) = DOMAIN m /\ \A n \in DOMAIN m : Deeper(m)[n].tx = m[n].tx
    BY <1>1, <1>2, <1>3
<1> QED
    BY <1>5, <1>6

\* A step of the chain that neither invents a transaction nor leaves the types.
LEMMA ChainStep ==
    ASSUME IInv, UNCHANGED <<store, view, handlers, recovery>>, ChainTypeOK', Sent' \subseteq Sent
    PROVE  IInv'
<1>1. Held' /\ task' \in [Workers -> Tasks] /\ UNCHANGED requests
    BY HandlersRest
<1>2. Charged'
    BY DEF IInv, Charged, store
<1> QED
    BY <1>1, <1>2, Frames DEF IInv, TypeOK

LEMMA BlockKeeps == ASSUME IInv, Block PROVE IInv'
<1>1. UNCHANGED <<store, view, handlers, recovery>> /\ UNCHANGED <<void, upsets, requests>>
    BY DEF Block, handlers
<1>2. mined \in Seq(Entries) /\ pool \subseteq Payloads
    BY DEF IInv, TypeOK, ChainTypeOK, Entries
<1>3. /\ Deeper(mined) \in Seq(Entries) /\ DOMAIN Deeper(mined) = DOMAIN mined
      /\ \A n \in DOMAIN mined : Deeper(mined)[n].tx = mined[n].tx
    BY <1>2, DeeperKeeps
<1>4. CASE mined' = Deeper(mined) /\ UNCHANGED pool
    <2>1. ChainTypeOK'
        BY <1>1, <1>3, <1>4 DEF IInv, TypeOK, ChainTypeOK, Entries
    <2>2. Sent' \subseteq Sent
        BY <1>3, <1>4 DEF Sent
    <2> QED
        BY <1>1, <2>1, <2>2, ChainStep
<1>5. ASSUME NEW t \in pool, NEW e \in Entries, e.tx = t,
             mined' = Append(Deeper(mined), e), pool' = pool \ {t}
      PROVE  IInv'
    <2>1. mined' \in Seq(Entries)
        BY <1>3, <1>5
    <2>2. ChainTypeOK'
        BY <1>1, <1>2, <1>5, <2>1 DEF IInv, TypeOK, ChainTypeOK, Entries
    <2>3. ASSUME NEW n \in DOMAIN mined' PROVE mined'[n].tx \in Sent
        <3>1. Len(Deeper(mined)) \in Nat /\ DOMAIN Deeper(mined) = 1..Len(Deeper(mined))
            BY <1>3
        <3>2. CASE n = Len(Deeper(mined)) + 1
            BY <3>1, <3>2, <1>3, <1>5 DEF Sent
        <3>3. CASE n \in DOMAIN Deeper(mined)
            BY <3>1, <3>3, <1>3, <1>5 DEF Sent
        <3> QED
            BY <3>1, <3>2, <3>3, <1>3, <1>5
    <2>4. Sent' \subseteq Sent
        BY <2>3, <1>5 DEF Sent
    <2> QED
        BY <1>1, <2>2, <2>4, ChainStep
<1>6. ASSUME NEW t \in pool
      PROVE  [tx |-> t, ok |-> IF Accepted(t.intent) THEN "yes" ELSE "no", depth |-> 1] \in Entries
    BY <1>2 DEF Entries
<1> QED
    BY <1>4, <1>5, <1>6 DEF Block

LEMMA ReorganiseKeeps == ASSUME IInv, Reorganise PROVE IInv'
<1>1. UNCHANGED <<store, view, handlers, recovery>> /\ UNCHANGED requests /\ upsets' = upsets - 1
    BY DEF Reorganise, handlers
<1>2. mined \in Seq(Entries) /\ pool \subseteq Payloads /\ upsets > 0
    BY DEF IInv, TypeOK, ChainTypeOK, Entries, Reorganise
<1>3. PICK n \in 0..Len(mined) :
          LET dropped == {mined[k].tx : k \in (n + 1)..Len(mined)}
          IN  /\ mined' = SubSeq(mined, 1, n)
              /\ \E S \in SUBSET dropped : pool' = pool \cup S
              /\ \E S \in SUBSET dropped : void' = void \cup {t.intent : t \in S}
    BY DEF Reorganise
<1>4. /\ Len(mined) \in Nat /\ DOMAIN mined = 1..Len(mined) /\ n \in Nat /\ n <= Len(mined)
      /\ (n + 1)..Len(mined) \subseteq DOMAIN mined
    BY <1>2
<1>5. mined' \in Seq(Entries) /\ DOMAIN mined' = 1..n /\ \A k \in 1..n : mined'[k] = mined[k]
    BY <1>2, <1>3, <1>4
<1>6. \A k \in (n + 1)..Len(mined) : mined[k].tx \in Payloads /\ mined[k].tx.intent \in Intents
    <2>1. \A k \in DOMAIN mined : mined[k] \in Entries
        BY <1>2
    <2>2. \A k \in DOMAIN mined : mined[k].tx \in Payloads
        BY <2>1 DEF Entries
    <2> QED
        BY <2>2, <1>4 DEF Payloads
<1>7. pool' \subseteq Payloads /\ void' \subseteq Intents
    <2> DEFINE dropped == {mined[k].tx : k \in (n + 1)..Len(mined)}
    <2>1. \A t \in dropped : t \in Payloads /\ t.intent \in Intents
        BY <1>6
    <2>2. (\E S \in SUBSET dropped : pool' = pool \cup S)
          /\ \E S \in SUBSET dropped : void' = void \cup {t.intent : t \in S}
        BY <1>3
    <2> HIDE DEF dropped
    <2>3. void \subseteq Intents
        BY DEF IInv, TypeOK, ChainTypeOK
    <2> QED
        BY <2>1, <2>2, <2>3, <1>2
<1>8. ChainTypeOK'
    BY <1>1, <1>2, <1>5, <1>7 DEF IInv, TypeOK, ChainTypeOK, Entries
<1>9. Sent' \subseteq Sent
    BY <1>3, <1>4, <1>5 DEF Sent
<1> QED
    BY <1>1, <1>8, <1>9, ChainStep

LEMMA VoidKeeps == ASSUME IInv, NEW i \in Intents, Void(i) PROVE IInv'
<1>1. UNCHANGED <<store, view, handlers, recovery>> /\ UNCHANGED <<requests, pool, mined>>
    BY DEF Void, handlers
<1>2. ChainTypeOK'
    BY <1>1 DEF IInv, TypeOK, ChainTypeOK, Void
<1>3. Sent' \subseteq Sent
    BY <1>1 DEF Sent
<1> QED
    BY <1>1, <1>2, <1>3, ChainStep

LEMMA Stuttering == ASSUME IInv, UNCHANGED vars PROVE IInv'
<1>1. UNCHANGED <<store, view, recovery, chain, requests>> /\ Held' /\ task' \in [Workers -> Tasks]
    BY HandlersRest DEF vars, handlers
<1> QED
    BY <1>1, Silent

LEMMA Inductive == IInv /\ [Next]_vars => IInv'
<1> SUFFICES ASSUME IInv, [Next]_vars PROVE IInv'
    OBVIOUS
<1>1. ASSUME NEW w \in Workers, Handle(w) PROVE IInv'
    BY <1>1, SubmitKeeps, StoreKeeps, SendKeeps, ReserveKeeps, ChargeKeeps, KeepKeeps,
       BroadcastKeeps, ReportKeeps, FailKeeps DEF Handle
<1>2. ASSUME NEW r \in Recoverers, Recover(r) PROVE IInv'
    BY <1>2, ScanKeeps, CommitKeeps DEF Recover
<1>3. CASE Environment
    BY <1>3, BlockKeeps, ReorganiseKeeps, VoidKeeps DEF Environment
<1>4. CASE UNCHANGED vars
    BY <1>4, Stuttering
<1> QED
    BY <1>1, <1>2, <1>3, <1>4 DEF Next

LEMMA Always == Spec => []IInv
<1>1. Init => IInv
    BY Initially
<1>2. IInv /\ [Next]_vars => IInv'
    BY Inductive
<1> QED
    BY <1>1, <1>2, PTL DEF Spec

(***************************************************************************)
(* The theorems.                                                           *)
(***************************************************************************)
(* The values that a reader of RegistryRelay may expect, and every nonce   *)
(* given away below the next one.                                          *)
THEOREM TypeCorrect == Spec => []TypeOK
<1>1. IInv => TypeOK
    BY DEF IInv
<1> QED
    BY <1>1, Always, PTL

(* registry-store.ts, registry-budget.ts: whichever handlers race or die,  *)
(* the node is given only bytes that are charged and stored, one           *)
(* transaction for a nonce and one for an intent.                          *)
THEOREM SendsWhatItKept == Spec => []SentIsStored
<1>1. IInv => SentIsStored
    BY DEF IInv, Charged, SentIsStored, Sent
<1> QED
    BY <1>1, Always, PTL

(* registry-store.ts, reserve: a stored transaction never waits behind a   *)
(* nonce that has none.                                                    *)
THEOREM UsesNoncesInOrder == Spec => []NoHoleBelow
<1>1. IInv => NoHoleBelow
    BY DEF IInv, Charged, Ordered, NoHoleBelow
<1> QED
    BY <1>1, Always, PTL

(* period-lock.ts, followPublication: a lock is held by a publication of   *)
(* its own package that was last seen on the chain.                        *)
THEOREM LocksFollowPublications == Spec => []LockFollows
<1>1. IInv => LockFollows
    BY DEF IInv
<1> QED
    BY <1>1, Always, PTL
=============================================================================
