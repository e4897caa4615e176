--------------------------- MODULE DeliveriesProofs ---------------------------
(***************************************************************************)
(* Proofs about the delivery queue and its workers, for every finite set   *)
(* of deliveries, every set of hosts and workers, every partitioning and   *)
(* every lease, timeout and retry setting with the timeout below the lease:*)
(* first what the steps do to the records, the leases and the workers,     *)
(* then the invariants and the theorems.                                   *)
(***************************************************************************)
EXTENDS Deliveries, FiniteSetTheorems, TLAPS

-------------------------------------------------------------------------------
(***************************************************************************)
(* Types.                                                                  *)
(***************************************************************************)

\* The retry delay is a time.
LEMMA RetryDelayType ==
    ASSUME NEW n \in Nat
    PROVE  RetryDelay(n) \in Nat
<1> DEFINE shift == IF n < 1 THEN 0 ELSE IF n > 11 THEN 10 ELSE n - 1
<1>1. shift + 1 \in 1..11
  OBVIOUS
<1>2. \A i \in 1..11 : PowersOfTwo[i] \in Nat
  BY DEF PowersOfTwo
<1>3. Poll \in Nat /\ MaxRetryDelay \in Nat /\ PowersOfTwo[shift + 1] \in Nat
  BY <1>1, <1>2, DeliveriesAssumption DEF DeliveriesAssumption
<1> HIDE DEF shift
<1>4. Poll * PowersOfTwo[shift + 1] \in Nat
  BY <1>3
<1> QED BY <1>3, <1>4 DEF RetryDelay, shift

\* Every record transition yields a record.
LEMMA RecordTypes ==
    ASSUME NEW r \in Record
    PROVE  /\ \A t \in Nat : Leased(r, t) \in Record
           /\ \A st \in States, n \in Nat : FinishLease(r, st, n) \in Record
           /\ Noted(r) \in Record /\ Aged(r) \in Record
<1>0. /\ r.attempt + 1 \in Nat /\ LeaseTime \in Nat /\ Less(r.timer) \in Nat
      /\ "leased" \in States
  BY DeliveriesAssumption DEF DeliveriesAssumption, Record, Less, States
<1>1. \A t \in Nat : Leased(r, t) \in Record
  BY Zenon, <1>0 DEF Leased, Record
<1>2. \A st \in States, n \in Nat : FinishLease(r, st, n) \in Record
  BY Zenon DEF FinishLease, Record
<1>3. Noted(r) \in Record
  BY Zenon DEF Noted, Record
<1>4. Aged(r) \in Record
  BY <1>0 DEF Aged, Record
<1> QED BY <1>1, <1>2, <1>3, <1>4

\* So is a new one.
LEMMA BlankTypes ==
    ASSUME NEW n \in Nat
    PROVE  Blank("absent", n) \in Record /\ Blank("pending", n) \in Record
BY DEF Blank, Record, States

\* A settled record is a record.
LEMMA SettlingType ==
    ASSUME NEW h \in Hosts, NEW w \in BusyWorker, store[w.id] \in Record
    PROVE  Settling(h, w) \in Record
<1>1. w.attempt \in Nat /\ Verdict(h, w) \in States
  BY DEF BusyWorker, Verdict, States, Settled
<1>2. Delay(h, w) \in Nat
  BY <1>1, RetryDelayType DEF Delay
<1>3. FinishLease(store[w.id], Verdict(h, w), Delay(h, w)) \in Record
  BY Zenon, <1>1, <1>2, RecordTypes
<1> QED BY <1>3 DEF Settling

\* Every worker the actions build has its type.
LEMMA WorkerTypes ==
    /\ Idle \in Worker /\ Idle.pc = "idle"
    /\ \A w \in Worker : AgedWorker(w) \in Worker
    /\ \A w \in Worker : w.pc # "idle" => w \in BusyWorker
    /\ \A w \in BusyWorker : w \in Worker /\ w.pc # "idle" /\ w # Idle
    /\ \A w \in BusyWorker :
          /\ Receiving(w) \in BusyWorker
          /\ \A res \in Results : Returned(w, res) \in BusyWorker
<1>1. Idle \in Worker /\ Idle.pc = "idle"
  BY DEF Worker, Idle
<1>2. ASSUME NEW w \in Worker, w.pc # "idle"
      PROVE  w \in BusyWorker
  BY <1>2 DEF Worker, Idle
<1>3. ASSUME NEW w \in BusyWorker
      PROVE  /\ w \in Worker /\ w.pc # "idle"
             /\ Receiving(w) \in BusyWorker
             /\ \A res \in Results : Returned(w, res) \in BusyWorker
             /\ [w EXCEPT !.timer = Less(@)] \in BusyWorker
  <2>1. w \in Worker /\ w.pc # "idle"
    BY DEF BusyWorker, Worker
  <2>2. Timeout \in Nat /\ Less(w.timer) \in Nat
    BY DeliveriesAssumption DEF DeliveriesAssumption, BusyWorker, Less
  <2>3. Receiving(w) \in BusyWorker
    BY Zenon, <2>2 DEF BusyWorker, Receiving
  <2>4. \A res \in Results : Returned(w, res) \in BusyWorker
    BY Zenon DEF BusyWorker, Returned
  <2>5. [w EXCEPT !.timer = Less(@)] \in BusyWorker
    BY <2>2 DEF BusyWorker
  <2> QED BY <2>1, <2>3, <2>4, <2>5
<1>4. ASSUME NEW w \in Worker
      PROVE  AgedWorker(w) \in Worker
  BY <1>3 DEF AgedWorker, Worker
<1> QED BY Zenon, <1>1, <1>2, <1>3, <1>4

\* The initial state is well typed.
LEMMA InitType == Init => TypeOK
BY BlankTypes, WorkerTypes DEF Init, TypeOK, HostStates

\* Every step of a worker and of the queue keeps the types.
LEMMA QueueStepType ==
    ASSUME TypeOK, NEW S \in SUBSET Ids, Enqueue(S) \/ PurgeTerminal(S) \/ Advance
    PROVE  TypeOK'
<1>h. UNCHANGED hostVars => /\ up' \in [Hosts -> HostStates]
                           /\ mounted' \in [Hosts -> Revisions \cup {Unmounted}]
                           /\ drain' \in [Hosts -> Revisions \cup {Unmounted}]
                           /\ faults' \in Nat
  BY DEF TypeOK, hostVars
<1>t. /\ store \in [Ids -> Record] /\ issued \in [Ids -> Nat]
      /\ nextSequence \in Nat /\ work \in [Hosts -> [Slots -> Worker]]
  BY DEF TypeOK
<1>s. SUFFICES /\ store' \in [Ids -> Record] /\ issued' \in [Ids -> Nat]
               /\ nextSequence' \in Nat /\ work' \in [Hosts -> [Slots -> Worker]]
               /\ UNCHANGED hostVars
  BY <1>h, <1>s DEF TypeOK
<1>1. CASE Enqueue(S)
  <2> DEFINE New == {d \in S : ~Exists(d)}
             last == nextSequence + Cardinality(New)
  <2>1. Cardinality(New) \in Nat
    <3>1. New \subseteq Ids /\ IsFiniteSet(Ids)
      BY DeliveriesAssumption DEF DeliveriesAssumption
    <3> QED BY <3>1, FS_Subset, FS_CardinalityType
  <2>2. PICK f \in Bijection(New, (nextSequence + 1)..last) :
          store' = [d \in Ids |-> IF d \in New THEN Blank("pending", f[d]) ELSE store[d]]
    BY Zenon, <1>1 DEF Enqueue
  <2>3. nextSequence' = last /\ UNCHANGED <<issued, work, hostVars>>
    BY <1>1 DEF Enqueue
  <2> HIDE DEF New
  <2>4. last \in Nat
    BY <2>1, <1>t
  <2>5. \A d \in New : f[d] \in (nextSequence + 1)..last
    BY <2>2 DEF Bijection, Injection, Surjection
  <2>6. \A d \in New : f[d] \in Nat
    BY <2>4, <2>5, <1>t
  <2>7. store' \in [Ids -> Record]
    BY <2>2, <2>6, <1>t, BlankTypes
  <2> QED BY <2>3, <2>4, <2>7, <1>t
<1>2. CASE PurgeTerminal(S)
  <2>1. Blank("absent", 0) \in Record
    BY BlankTypes
  <2> QED BY <1>2, <1>t, <2>1 DEF PurgeTerminal
<1>3. CASE Advance
  <2>1. \A d \in Ids : Aged(store[d]) \in Record
    BY <1>t, RecordTypes
  <2>2. \A g \in Hosts, l \in Slots : AgedWorker(work[g][l]) \in Worker
    BY <1>t, WorkerTypes
  <2> QED BY <1>3, <2>1, <2>2, <1>t DEF Advance
<1> QED BY <1>1, <1>2, <1>3

\* Every step of a worker keeps the types.
LEMMA WorkerStepType ==
    ASSUME TypeOK, NEW h \in Hosts, NEW k \in Slots, WorkerNext(h, k)
    PROVE  TypeOK'
<1>h. UNCHANGED hostVars => /\ up' \in [Hosts -> HostStates]
                           /\ mounted' \in [Hosts -> Revisions \cup {Unmounted}]
                           /\ drain' \in [Hosts -> Revisions \cup {Unmounted}]
                           /\ faults' \in Nat
  BY DEF TypeOK, hostVars
<1>t. /\ store \in [Ids -> Record] /\ issued \in [Ids -> Nat]
      /\ nextSequence \in Nat /\ work \in [Hosts -> [Slots -> Worker]]
  BY DEF TypeOK
<1>s. SUFFICES /\ store' \in [Ids -> Record] /\ issued' \in [Ids -> Nat]
               /\ nextSequence' \in Nat /\ work' \in [Hosts -> [Slots -> Worker]]
               /\ UNCHANGED hostVars \/ SettleFault(h, k)
  <2>1. CASE SettleFault(h, k)
    <3>1. /\ up' \in [Hosts -> HostStates]
          /\ mounted' \in [Hosts -> Revisions \cup {Unmounted}]
          /\ drain' \in [Hosts -> Revisions \cup {Unmounted}]
          /\ faults' \in Nat
      BY <2>1 DEF SettleFault, TypeOK
    <3> QED BY <3>1, <1>s DEF TypeOK
  <2>2. CASE UNCHANGED hostVars
    BY <2>2, <1>h, <1>s DEF TypeOK
  <2> QED BY <1>s, <2>1, <2>2
<1>w. work[h][k].pc # "idle" => work[h][k] \in BusyWorker /\ work[h][k].id \in Ids
  BY <1>t, WorkerTypes DEF BusyWorker
<1>1. CASE Lease(h, k)
  <2>1. PICK d \in Ids :
          /\ store' = [store EXCEPT ![d] = Leased(@, issued[d] + 1)]
          /\ issued' = [issued EXCEPT ![d] = @ + 1]
          /\ work' = [work EXCEPT ![h][k] = Job(d)]
    BY Zenon, <1>1 DEF Lease
  <2>2. issued[d] + 1 \in Nat /\ store[d] \in Record /\ store[d].attempt + 1 \in Nat
    BY <1>t DEF Record
  <2>3. Job(d) \in Worker
    BY <2>2 DEF Job, Worker, BusyWorker, Results
  <2>4. Leased(store[d], issued[d] + 1) \in Record
    BY <2>2, RecordTypes
  <2>5. store' \in [Ids -> Record] /\ issued' \in [Ids -> Nat]
    BY <2>1, <2>2, <2>4, <1>t
  <2>6. work' \in [Hosts -> [Slots -> Worker]]
    BY <2>1, <2>3, <1>t
  <2> QED BY <1>1, <2>5, <2>6, <1>t DEF Lease
<1>2. CASE Resolve(h, k)
  <2>1. work[h][k] \in BusyWorker
    BY <1>2, <1>w DEF Resolve
  <2>2. /\ Receiving(work[h][k]) \in Worker
        /\ \A r \in Results : Returned(work[h][k], r) \in Worker
    BY <2>1, WorkerTypes
  <2>3. PICK w \in Worker : work' = [work EXCEPT ![h][k] = w]
    BY Zenon, <1>2, <2>2 DEF Resolve, Results
  <2> QED BY <1>2, <2>3, <1>t DEF Resolve
<1>3. ASSUME NEW res \in {"ok", "error"}, Receive(h, k, res)
      PROVE  /\ store' \in [Ids -> Record] /\ issued' \in [Ids -> Nat]
             /\ nextSequence' \in Nat /\ work' \in [Hosts -> [Slots -> Worker]]
             /\ UNCHANGED hostVars
  <2>1. work[h][k] \in BusyWorker /\ work[h][k].id \in Ids
    BY <1>3, <1>w DEF Receive
  <2>2. Returned(work[h][k], res) \in Worker
    BY <2>1, WorkerTypes DEF Results
  <2>3. work' \in [Hosts -> [Slots -> Worker]]
    BY <1>3, <2>2, <1>t DEF Receive
  <2>4. Noted(store[work[h][k].id]) \in Record
    BY <2>1, <1>t, RecordTypes
  <2>5. store' \in [Ids -> Record]
    BY <1>3, <2>1, <2>4, <1>t DEF Receive
  <2> QED BY <1>3, <2>3, <2>5, <1>t DEF Receive
<1>4. CASE Settle(h, k)
  <2>1. work[h][k] \in BusyWorker /\ work[h][k].id \in Ids
    BY <1>4, <1>w DEF Settle
  <2>2. Settling(h, work[h][k]) \in Record
    BY <2>1, <1>t, SettlingType
  <2>3. store' \in [Ids -> Record]
    BY <1>4, <2>1, <2>2, <1>t DEF Settle
  <2>4. work' \in [Hosts -> [Slots -> Worker]]
    BY <1>4, WorkerTypes, <1>t DEF Settle
  <2> QED BY <1>4, <2>3, <2>4, <1>t DEF Settle
<1>5. CASE SettleFault(h, k)
  BY <1>5, WorkerTypes, <1>t DEF SettleFault
<1> QED BY <1>1, <1>2, <1>3, <1>4, <1>5 DEF WorkerNext

\* Every step of a host keeps the types, and of the queue and the workers it
\* changes at most that the host's own workers are gone.
LEMMA HostSteps ==
    ASSUME TypeOK, NEW h \in Hosts, HostNext(h)
    PROVE  /\ TypeOK'
           /\ UNCHANGED <<store, nextSequence, issued>>
           /\ \/ UNCHANGED work
              \/ work' = [work EXCEPT ![h] = [k \in Slots |-> Idle]]
<1>g. Gone(h) /\ faults' \in Nat => TypeOK'
  <2>1. [k \in Slots |-> Idle] \in [Slots -> Worker]
    BY WorkerTypes
  <2> QED BY <2>1 DEF Gone, TypeOK, HostStates
<1>f. faults + 1 \in Nat
  BY DEF TypeOK
<1>1. CASE DrainStart(h) \/ DrainDone(h)
  BY Zenon, <1>1 DEF DrainStart, DrainDone, TypeOK
<1>2. CASE CloseRuntime(h)
  BY <1>2, <1>f DEF CloseRuntime, Fault, TypeOK, HostStates
<1>3. CASE CancelWorkers(h)
  <2>1. faults' \in Nat
    BY <1>3, <1>f DEF CancelWorkers, Fault, TypeOK
  <2> QED BY <1>3, <2>1 DEF CancelWorkers, TypeOK, HostStates
<1>4. CASE Stopped(h)
  <2>1. faults' \in Nat
    BY <1>4 DEF Stopped, TypeOK
  <2> QED BY <1>4, <1>g, <2>1 DEF Stopped, Gone
<1>5. CASE Crash(h)
  BY <1>5, <1>g, <1>f DEF Crash, Fault, Gone
<1>6. ASSUME NEW r \in Revisions \cup {Unmounted},
             Mount(h, r) \/ Remount(h, r) \/ Restart(h, r)
      PROVE  TypeOK' /\ UNCHANGED <<store, nextSequence, issued, work>>
  <2>1. CASE Remount(h, r)
    BY <2>1, <1>f DEF Remount, Fault, TypeOK
  <2>2. CASE Restart(h, r)
    BY <2>2 DEF Restart, TypeOK, HostStates
  <2>3. CASE Mount(h, r)
    BY <2>3 DEF Mount, TypeOK, HostStates
  <2> QED BY <1>6, <2>1, <2>2, <2>3
<1> QED BY <1>1, <1>2, <1>3, <1>4, <1>5, <1>6 DEF HostNext

-------------------------------------------------------------------------------
(***************************************************************************)
(* What the steps do to the queue and to the workers.                      *)
(***************************************************************************)

\* No delivery is added, a settled one stays settled, and only the head of a
\* partition is attempted for the first time.
QueueKept ==
    /\ nextSequence' = nextSequence
    /\ \A d \in Ids : store'[d].state # "absent" =>
          /\ Exists(d) /\ store'[d].sequence = store[d].sequence
          /\ Terminal(d) => store'[d].state \in Settled
          /\ store'[d].attempt > 0 => store[d].attempt > 0 \/ IsHead(d)

\* No lease is given out, and one that ends was not another worker's.
LeasesKept ==
    /\ issued' = issued
    /\ \A d \in Ids : store'[d].state = "leased" =>
          /\ store[d].state = "leased" /\ store'[d].token = store[d].token
          /\ store'[d].attempt = store[d].attempt

\* Workers keep their delivery and token until they are idle.
WorkKept ==
    \A h \in Hosts, k \in Slots : work'[h][k].pc # "idle" =>
        /\ Busy(h, k) /\ work'[h][k].id = work[h][k].id
        /\ work'[h][k].token = work[h][k].token

\* What each record transition keeps.
LEMMA RecordSteps ==
    ASSUME NEW r \in Record
    PROVE  /\ \A t \in Nat : LET q == Leased(r, t) IN
                /\ q.state = "leased" /\ q.token = t /\ q.timer = LeaseTime
                /\ q.attempt = r.attempt + 1
                /\ q.sequence = r.sequence /\ q.received = r.received
           /\ LET q == Noted(r) IN
                /\ q.state = r.state /\ q.token = r.token /\ q.timer = r.timer
                /\ q.attempt = r.attempt /\ q.sequence = r.sequence
                /\ q.received
           /\ LET q == Aged(r) IN
                /\ q.state = r.state /\ q.token = r.token /\ q.timer = Less(r.timer)
                /\ q.attempt = r.attempt /\ q.sequence = r.sequence
                /\ q.received = r.received
BY DEF Record, Leased, Noted, Aged

\* What settling keeps.
LEMMA SettlingStep ==
    ASSUME NEW h \in Hosts, NEW w \in BusyWorker, store[w.id] \in Record
    PROVE  LET r == store[w.id]
               q == Settling(h, w)
           IN  /\ q.state \in {"delivered", "dead", "pending"}
               /\ q.state = "delivered" => w.result = "ok"
               /\ q.attempt = r.attempt /\ q.sequence = r.sequence
               /\ q.received = r.received
<1>1. /\ Verdict(h, w) \in {"delivered", "dead", "pending"}
      /\ Verdict(h, w) = "delivered" => w.result = "ok"
  BY DEF Verdict
<1> QED BY <1>1 DEF Settling, FinishLease, Record

\* What aging keeps of a worker.
LEMMA AgedWorkerStep ==
    ASSUME NEW w \in Worker
    PROVE  LET v == AgedWorker(w) IN
           /\ v.pc = w.pc
           /\ w.pc # "idle" => /\ v.id = w.id /\ v.token = w.token
                              /\ v.result = w.result /\ v.timer = Less(w.timer)
<1>1. CASE w = Idle
  BY <1>1 DEF AgedWorker, Idle
<1>2. CASE w # Idle
  BY <1>2 DEF AgedWorker, Worker, BusyWorker
<1> QED BY <1>1, <1>2

\* What the actions do to the worker they step.
LEMMA WorkerChange ==
    ASSUME NEW w \in BusyWorker
    PROVE  /\ LET v == Receiving(w) IN
                v.pc = "receive" /\ v.id = w.id /\ v.token = w.token /\ v.timer = Timeout
           /\ \A res \in Results : LET v == Returned(w, res) IN
                v.pc = "settle" /\ v.id = w.id /\ v.token = w.token /\ v.result = res
BY DEF BusyWorker, Receiving, Returned

\* The worker a step is of, and the others.
LEMMA OneWorker ==
    ASSUME TypeOK, NEW h \in Hosts, NEW k \in Slots, NEW w \in Worker,
           work' = [work EXCEPT ![h][k] = w]
    PROVE  /\ work'[h][k] = w
           /\ \A g \in Hosts, l \in Slots :
                 g # h \/ l # k => work'[g][l] = work[g][l]
BY DEF TypeOK

\* One record changes.
LEMMA OneRecord ==
    ASSUME TypeOK, NEW d \in Ids, NEW r, store' = [store EXCEPT ![d] = r]
    PROVE  store'[d] = r /\ \A e \in Ids : e # d => store'[e] = store[e]
BY Zenon DEF TypeOK

\* The effect of every action of a worker, one worker and one record at a time.
LEMMA LeaseEffect ==
    ASSUME TypeOK, NEW h \in Hosts, NEW k \in Slots, Lease(h, k)
    PROVE  \E d \in Ids :
             /\ IsHead(d) /\ store[d].timer = 0 /\ nextSequence' = nextSequence
             /\ store'[d].state = "leased" /\ store'[d].token = issued[d] + 1
             /\ store'[d].timer = LeaseTime /\ store'[d].attempt > 0
             /\ store'[d].sequence = store[d].sequence
             /\ \A e \in Ids : e # d => store'[e] = store[e] /\ issued'[e] = issued[e]
             /\ issued'[d] = issued[d] + 1 /\ work[h][k] = Idle
             /\ work'[h][k].pc = "resolve" /\ work'[h][k].id = d
             /\ work'[h][k].token = issued[d] + 1
             /\ \A g \in Hosts, l \in Slots :
                   g # h \/ l # k => work'[g][l] = work[g][l]
<1>1. PICK d \in Ids :
        /\ Candidate(d)
        /\ store' = [store EXCEPT ![d] = Leased(@, issued[d] + 1)]
        /\ issued' = [issued EXCEPT ![d] = @ + 1]
        /\ work' = [work EXCEPT ![h][k] = Job(d)]
        /\ work[h][k] = Idle /\ nextSequence' = nextSequence
  BY Zenon DEF Lease
<1>2. store[d] \in Record /\ issued[d] + 1 \in Nat /\ store[d].attempt + 1 > 0
      /\ store[d].attempt + 1 \in Nat
  BY DEF TypeOK, Record
<1>3. /\ store'[d] = Leased(store[d], issued[d] + 1)
      /\ \A e \in Ids : e # d => store'[e] = store[e]
  BY Zenon, <1>1, OneRecord
<1>4. /\ store'[d].state = "leased" /\ store'[d].token = issued[d] + 1
      /\ store'[d].timer = LeaseTime /\ store'[d].attempt > 0
      /\ store'[d].sequence = store[d].sequence
  BY SMT, SMTT(30), <1>2, <1>3, RecordSteps
<1>5. /\ Job(d) \in Worker /\ Job(d).pc = "resolve" /\ Job(d).id = d
      /\ Job(d).token = issued[d] + 1
  BY Zenon, <1>2 DEF Job, Worker, BusyWorker, Results
<1>6. /\ work'[h][k] = Job(d)
      /\ \A g \in Hosts, l \in Slots : g # h \/ l # k => work'[g][l] = work[g][l]
  BY Zenon, <1>1, <1>5, OneWorker
<1>7. issued'[d] = issued[d] + 1 /\ \A e \in Ids : e # d => issued'[e] = issued[e]
  BY <1>1 DEF TypeOK
<1>8. IsHead(d) /\ store[d].timer = 0
  BY <1>1 DEF Candidate, LeaseAvailable
<1> QED BY <1>1, <1>3, <1>4, <1>5, <1>6, <1>7, <1>8

\* Resolve moves the worker on, with the delivery and token it has.
LEMMA ResolveEffect ==
    ASSUME TypeOK, NEW h \in Hosts, NEW k \in Slots, Resolve(h, k)
    PROVE  /\ UNCHANGED <<store, nextSequence, issued>>
           /\ work[h][k].pc = "resolve"
           /\ work'[h][k].id = work[h][k].id /\ work'[h][k].token = work[h][k].token
           /\ \/ work'[h][k].pc = "receive" /\ work'[h][k].timer = Timeout
              \/ work'[h][k].pc = "settle" /\ work'[h][k].result # "ok"
           /\ \A g \in Hosts, l \in Slots :
                 g # h \/ l # k => work'[g][l] = work[g][l]
<1> DEFINE w == work[h][k]
<1>1. w \in Worker /\ w.pc = "resolve"
  BY DEF Resolve, TypeOK
<1>2. w \in BusyWorker
  BY <1>1, WorkerTypes
<1>3. PICK v \in {Receiving(w), Returned(w, "closed"), Returned(w, "error"),
                  Returned(w, "permanent")} : work' = [work EXCEPT ![h][k] = v]
  BY Zenon DEF Resolve
<1>4. v \in Worker
  BY <1>2, <1>3, WorkerTypes DEF Results
<1>5. /\ v.id = w.id /\ v.token = w.token
      /\ \/ v.pc = "receive" /\ v.timer = Timeout
         \/ v.pc = "settle" /\ v.result # "ok"
  <2>1. {"closed", "error", "permanent"} \subseteq Results
    BY DEF Results
  <2> QED BY <1>2, <1>3, <2>1, WorkerChange
<1>6. /\ work'[h][k] = v
      /\ \A g \in Hosts, l \in Slots : g # h \/ l # k => work'[g][l] = work[g][l]
  <2>1. work \in [Hosts -> [Slots -> Worker]]
    BY Zenon DEF TypeOK
  <2> HIDE DEF w
  <2> QED BY <1>3, <2>1
<1> QED BY Zenon, <1>1, <1>5, <1>6 DEF Resolve

\* Receive moves the worker on, and notes that the delivery was received.
LEMMA ReceiveEffect ==
    ASSUME TypeOK, NEW h \in Hosts, NEW k \in Slots, NEW res \in {"ok", "error"},
           Receive(h, k, res)
    PROVE  LET d == work[h][k].id IN
           /\ UNCHANGED <<nextSequence, issued>>
           /\ work[h][k].pc = "receive" /\ d \in Ids
           /\ work'[h][k].id = d /\ work'[h][k].token = work[h][k].token
           /\ work'[h][k].pc = "settle" /\ work'[h][k].result = res
           /\ \A g \in Hosts, l \in Slots :
                 g # h \/ l # k => work'[g][l] = work[g][l]
           /\ \A e \in Ids :
                 /\ store'[e].state = store[e].state /\ store'[e].token = store[e].token
                 /\ store'[e].timer = store[e].timer
                 /\ store'[e].attempt = store[e].attempt
                 /\ store'[e].sequence = store[e].sequence
                 /\ store[e].received => store'[e].received
           /\ res = "ok" /\ Exists(d) => store'[d].received
<1> DEFINE w == work[h][k]
<1>1. w \in Worker /\ w.pc = "receive"
  BY DEF Receive, TypeOK
<1>2. w \in BusyWorker /\ w.id \in Ids
  BY Zenon, <1>1, WorkerTypes DEF BusyWorker
<1>3. /\ Returned(w, res) \in Worker /\ Returned(w, res).pc = "settle"
      /\ Returned(w, res).id = w.id /\ Returned(w, res).token = w.token
      /\ Returned(w, res).result = res
  <2>1. res \in Results
    BY DEF Results
  <2> QED BY Zenon, <1>2, <2>1, WorkerTypes, WorkerChange
<1>4. /\ work'[h][k] = Returned(w, res)
      /\ \A g \in Hosts, l \in Slots : g # h \/ l # k => work'[g][l] = work[g][l]
  <2>1. work' = [work EXCEPT ![h][k] = Returned(w, res)]
    BY DEF Receive
  <2> QED BY ZenonT(30), <1>3, <2>1, OneWorker
<1>5. store[w.id] \in Record
  BY <1>2 DEF TypeOK
<1>6. CASE res = "ok" /\ Exists(w.id)
  <2>1. store' = [store EXCEPT ![w.id] = Noted(store[w.id])]
    BY <1>6 DEF Receive
  <2>2. store'[w.id] = Noted(store[w.id]) /\ \A e \in Ids : e # w.id => store'[e] = store[e]
    BY Zenon, <1>2, <2>1, OneRecord
  <2>3. LET q == Noted(store[w.id]) r == store[w.id] IN
          /\ q.state = r.state /\ q.token = r.token /\ q.timer = r.timer
          /\ q.attempt = r.attempt /\ q.sequence = r.sequence /\ q.received
    BY ZenonT(30), <1>5, RecordSteps
  <2>4. /\ \A e \in Ids :
             /\ store'[e].state = store[e].state /\ store'[e].token = store[e].token
             /\ store'[e].timer = store[e].timer
             /\ store'[e].attempt = store[e].attempt
             /\ store'[e].sequence = store[e].sequence
             /\ store[e].received => store'[e].received
        /\ store'[w.id].received
    BY Zenon, <2>2, <2>3
  <2> QED BY Zenon, <1>1, <1>2, <1>3, <1>4, <2>4 DEF Receive
<1>7. CASE ~(res = "ok" /\ Exists(w.id))
  <2>1. store' = store
    BY <1>7 DEF Receive
  <2> QED BY Zenon, <1>1, <1>2, <1>3, <1>4, <1>7, <2>1 DEF Receive
<1> QED BY Zenon, <1>6, <1>7

\* Settle changes at most the delivery its worker holds.
LEMMA SettleEffect ==
    ASSUME TypeOK, NEW h \in Hosts, NEW k \in Slots, Settle(h, k)
    PROVE  LET w == work[h][k] IN
           /\ UNCHANGED <<nextSequence, issued>>
           /\ w.pc = "settle" /\ w.id \in Ids /\ work'[h][k] = Idle
           /\ \A g \in Hosts, l \in Slots :
                 g # h \/ l # k => work'[g][l] = work[g][l]
           /\ \/ store' = store
              \/ /\ Holds(w.id, w.token)
                 /\ store'[w.id].state \in {"delivered", "dead", "pending"}
                 /\ store'[w.id].state = "delivered" => w.result = "ok"
                 /\ store'[w.id].attempt = store[w.id].attempt
                 /\ store'[w.id].sequence = store[w.id].sequence
                 /\ store'[w.id].received = store[w.id].received
                 /\ \A e \in Ids : e # w.id => store'[e] = store[e]
<1> DEFINE w == work[h][k]
<1>1. w \in Worker /\ w.pc = "settle"
  BY DEF Settle, TypeOK
<1>2. w \in BusyWorker /\ w.id \in Ids
  BY <1>1, WorkerTypes DEF BusyWorker
<1>3. /\ work'[h][k] = Idle
      /\ \A g \in Hosts, l \in Slots : g # h \/ l # k => work'[g][l] = work[g][l]
  <2>1. work' = [work EXCEPT ![h][k] = Idle]
    BY DEF Settle
  <2> HIDE DEF w
  <2> QED BY <2>1 DEF TypeOK
<1>4. CASE Holds(w.id, w.token)
  <2>1. store[w.id] \in Record
    BY <1>2 DEF TypeOK
  <2>2. store' = [store EXCEPT ![w.id] = Settling(h, w)]
    BY <1>4 DEF Settle
  <2>3. store'[w.id] = Settling(h, w) /\ \A e \in Ids : e # w.id => store'[e] = store[e]
    BY Zenon, <1>2, <2>2, OneRecord
  <2>4. LET q == Settling(h, w) r == store[w.id] IN
          /\ q.state \in {"delivered", "dead", "pending"}
          /\ q.state = "delivered" => w.result = "ok"
          /\ q.attempt = r.attempt /\ q.sequence = r.sequence
          /\ q.received = r.received
    BY Zenon, <1>2, <2>1, SettlingStep
  <2> QED BY Zenon, <1>1, <1>2, <1>3, <1>4, <2>3, <2>4 DEF Settle
<1>5. CASE ~Holds(w.id, w.token)
  BY <1>1, <1>2, <1>3, <1>5 DEF Settle
<1> QED BY Zenon, <1>4, <1>5

\* A failed store call leaves the queue as it is.
LEMMA SettleFaultEffect ==
    ASSUME TypeOK, NEW h \in Hosts, NEW k \in Slots, SettleFault(h, k)
    PROVE  /\ UNCHANGED <<store, nextSequence, issued>>
           /\ \A g \in Hosts, l \in Slots :
                 work'[g][l] = work[g][l] \/ work'[g][l] = Idle
<1>1. work' = [work EXCEPT ![h][k] = Idle] /\ work \in [Hosts -> [Slots -> Worker]]
  BY DEF SettleFault, TypeOK
<1> QED BY <1>1 DEF SettleFault

\* A host leaves the queue as it is; its workers may be gone.
LEMMA HostEffect ==
    ASSUME TypeOK, NEW h \in Hosts, HostNext(h)
    PROVE  /\ UNCHANGED <<store, nextSequence, issued>>
           /\ \A g \in Hosts, l \in Slots :
                 work'[g][l] = work[g][l] \/ work'[g][l] = Idle
<1>1. work \in [Hosts -> [Slots -> Worker]]
  BY DEF TypeOK
<1>2. CASE UNCHANGED work
  BY <1>2, HostSteps
<1>3. CASE work' = [work EXCEPT ![h] = [k \in Slots |-> Idle]]
  BY <1>1, <1>3, HostSteps
<1> QED BY <1>2, <1>3, HostSteps

\* Enqueue adds pending deliveries with new and different sequence numbers.
LEMMA EnqueueEffect ==
    ASSUME TypeOK, NEW S \in SUBSET Ids, Enqueue(S)
    PROVE  /\ UNCHANGED <<issued, work>> /\ nextSequence' \in Nat
           /\ nextSequence <= nextSequence'
           /\ \A d \in Ids :
                 \/ store'[d] = store[d]
                 \/ /\ ~Exists(d) /\ store'[d].state = "pending"
                    /\ store'[d].attempt = 0
                    /\ store'[d].sequence \in (nextSequence + 1)..nextSequence'
           /\ \A d, e \in Ids :
                 /\ store'[d] # store[d] /\ store'[e] # store[e]
                 /\ store'[d].sequence = store'[e].sequence
                 => d = e
<1> DEFINE New == {d \in S : ~Exists(d)}
           last == nextSequence + Cardinality(New)
<1>1. Cardinality(New) \in Nat
  <2>1. New \subseteq Ids /\ IsFiniteSet(Ids)
    BY DeliveriesAssumption DEF DeliveriesAssumption
  <2> QED BY <2>1, FS_Subset, FS_CardinalityType
<1>2. PICK f \in Bijection(New, (nextSequence + 1)..last) :
        store' = [d \in Ids |-> IF d \in New THEN Blank("pending", f[d]) ELSE store[d]]
  BY Zenon DEF Enqueue
<1>3. nextSequence' = last /\ UNCHANGED <<issued, work>>
  BY DEF Enqueue
<1>4. \A d \in New : f[d] \in (nextSequence + 1)..last
  BY <1>2 DEF Bijection, Injection, Surjection
<1>5. \A d, e \in New : f[d] = f[e] => d = e
  BY <1>2 DEF Bijection, Injection, IsInjective
<1>6. \A d \in New : d \in Ids /\ ~Exists(d)
  OBVIOUS
<1> HIDE DEF New
<1>7. /\ \A d \in Ids : d \notin New => store'[d] = store[d]
      /\ \A d \in New : store'[d] = Blank("pending", f[d])
  BY <1>2, <1>6
<1>8. \A n : /\ Blank("pending", n).state = "pending" /\ Blank("pending", n).attempt = 0
              /\ Blank("pending", n).sequence = n
  BY DEF Blank
<1>9. last \in Nat /\ nextSequence <= last
  BY <1>1 DEF TypeOK
<1> HIDE DEF last
<1>10. \A d, e \in Ids :
         /\ store'[d] # store[d] /\ store'[e] # store[e]
         /\ store'[d].sequence = store'[e].sequence
         => d = e
  BY <1>5, <1>7, <1>8
<1>11. \A d \in Ids :
         \/ store'[d] = store[d]
         \/ /\ ~Exists(d) /\ store'[d].state = "pending" /\ store'[d].attempt = 0
            /\ store'[d].sequence \in (nextSequence + 1)..last
  BY Zenon, <1>4, <1>6, <1>7, <1>8
<1> QED BY <1>3, <1>9, <1>10, <1>11

\* PurgeTerminal removes settled deliveries.
LEMMA PurgeEffect ==
    ASSUME TypeOK, NEW S \in SUBSET Ids, PurgeTerminal(S)
    PROVE  /\ UNCHANGED <<nextSequence, issued, work>>
           /\ \A d \in Ids :
                 \/ store'[d] = store[d]
                 \/ Terminal(d) /\ store'[d].state = "absent"
BY Zenon DEF PurgeTerminal, Blank

\* Time changes timers only.
LEMMA AdvanceEffect ==
    ASSUME TypeOK, Advance
    PROVE  /\ UNCHANGED <<nextSequence, issued>>
           /\ \A d \in Ids :
                 /\ store'[d].state = store[d].state /\ store'[d].token = store[d].token
                 /\ store'[d].timer = Less(store[d].timer)
                 /\ store'[d].attempt = store[d].attempt
                 /\ store'[d].sequence = store[d].sequence
                 /\ store'[d].received = store[d].received
           /\ \A h \in Hosts, k \in Slots :
                 /\ work'[h][k].pc = work[h][k].pc
                 /\ Timely => OnTime(work[h][k])
                 /\ Busy(h, k) =>
                       /\ work'[h][k].id = work[h][k].id
                       /\ work'[h][k].token = work[h][k].token
                       /\ work'[h][k].result = work[h][k].result
                       /\ work'[h][k].timer = Less(work[h][k].timer)
<1>1. \A d \in Ids : store[d] \in Record /\ store'[d] = Aged(store[d])
  BY DEF Advance, TypeOK
<1>2. \A d \in Ids :
        /\ store'[d].state = store[d].state /\ store'[d].token = store[d].token
        /\ store'[d].timer = Less(store[d].timer)
        /\ store'[d].attempt = store[d].attempt
        /\ store'[d].sequence = store[d].sequence
        /\ store'[d].received = store[d].received
  BY SMT, SMTT(30), <1>1, RecordSteps
<1>3. \A h \in Hosts, k \in Slots :
        work[h][k] \in Worker /\ work'[h][k] = AgedWorker(work[h][k])
  BY DEF Advance, TypeOK
<1>4. \A h \in Hosts, k \in Slots :
        /\ work'[h][k].pc = work[h][k].pc
        /\ Busy(h, k) =>
              /\ work'[h][k].id = work[h][k].id
              /\ work'[h][k].token = work[h][k].token
              /\ work'[h][k].result = work[h][k].result
              /\ work'[h][k].timer = Less(work[h][k].timer)
  BY <1>3, AgedWorkerStep DEF Busy
<1> QED BY Zenon, <1>2, <1>4 DEF Advance

-------------------------------------------------------------------------------
(***************************************************************************)
(* The invariant.  Kept collects what every step but Lease does.           *)
(***************************************************************************)

\* A worker that holds its delivery and stays busy goes on holding it.
HoldersKept ==
    \A h \in Hosts, k \in Slots :
        LET d == work[h][k].id IN
        work'[h][k].pc # "idle" /\ Busy(h, k) /\ Holds(d, work[h][k].token) =>
            store'[d].state = "leased" /\ store'[d].token = store[d].token

\* A worker is about to acknowledge because it was, or because the delivery has
\* just been received.
ReceiptsKept ==
    \A h \in Hosts, k \in Slots :
        LET w == work[h][k] IN
        /\ work'[h][k].pc = "settle" /\ work'[h][k].result = "ok"
        /\ store'[w.id].state = "leased"
        => \/ store'[w.id].received
           \/ w.pc = "settle" /\ w.result = "ok" /\ (store[w.id].received => store'[w.id].received)

\* A delivery is delivered because it was, or because it has been received.
DeliveredKept ==
    \A d \in Ids : store'[d].state = "delivered" =>
        \/ store'[d].received
        \/ store[d].state = "delivered" /\ (store[d].received => store'[d].received)

\* The timers of a worker in the subscriber and of its lease go down together.
TimesKept ==
    Timely => \A h \in Hosts, k \in Slots :
        LET w == work[h][k]
            v == work'[h][k]
            d == w.id
        IN  /\ v.pc = "resolve" => w.pc = "resolve" /\ store'[d].timer = store[d].timer
            /\ v.pc = "receive" =>
                  \/ /\ w.pc = "resolve" /\ v.timer = Timeout
                     /\ store'[d].timer = store[d].timer
                  \/ /\ w.pc = "receive" /\ v.timer = w.timer
                     /\ store'[d].timer = store[d].timer
                  \/ /\ w.pc = "receive" /\ w.timer > 0 /\ v.timer = Less(w.timer)
                     /\ store'[d].timer = Less(store[d].timer)

Kept ==
    /\ LeasesKept /\ WorkKept /\ HoldersKept
    /\ ReceiptsKept /\ DeliveredKept /\ TimesKept

\* A busy worker has a delivery and a token.
LEMMA BusyTypes ==
    ASSUME TypeOK, NEW h \in Hosts, NEW k \in Slots, Busy(h, k)
    PROVE  /\ work[h][k].id \in Ids /\ work[h][k].token \in Nat
           /\ work[h][k].timer \in Nat /\ store[work[h][k].id] \in Record
<1>1. work[h][k] \in BusyWorker
  BY DEF TypeOK, Busy, Worker, Idle
<1> QED BY <1>1 DEF BusyWorker, TypeOK

\* The order of a partition survives a step that adds no delivery ...
LEMMA QueueKeptStep ==
    ASSUME Sequenced, PartitionOrder, QueueKept
    PROVE  Sequenced' /\ PartitionOrder'
<1>1. Sequenced'
  BY Zenon DEF Sequenced, QueueKept, Exists
<1>2. PartitionOrder'
  <2> SUFFICES ASSUME NEW d \in Ids, NEW e \in Ids, Before(d, e)', (store[e].attempt > 0)'
               PROVE  Terminal(d)'
    BY DEF PartitionOrder
  <2>1. /\ Exists(d) /\ Exists(e) /\ store'[d].sequence = store[d].sequence
        /\ store'[e].sequence = store[e].sequence
        /\ Terminal(d) => store'[d].state \in Settled
        /\ store[e].attempt > 0 \/ IsHead(e)
    BY DEF QueueKept, Before, Exists
  <2>2. Before(d, e)
    BY <2>1 DEF Before
  <2> QED BY <2>1, <2>2 DEF PartitionOrder, IsHead, Terminal
<1> QED BY <1>1, <1>2

\* ... and one that does: the new deliveries are after all the others.
LEMMA EnqueueOrder ==
    ASSUME TypeOK, Sequenced, PartitionOrder, NEW S \in SUBSET Ids, Enqueue(S)
    PROVE  Sequenced' /\ PartitionOrder'
<1>1. /\ nextSequence \in Nat /\ nextSequence' \in Nat /\ nextSequence <= nextSequence'
      /\ \A d \in Ids : store[d].sequence \in Nat
  BY Zenon, EnqueueEffect DEF TypeOK, Record
<1>2. \A d \in Ids :
        \/ store'[d] = store[d]
        \/ /\ store'[d].attempt = 0
           /\ store'[d].sequence \in (nextSequence + 1)..nextSequence'
  BY EnqueueEffect
<1>3. \A d \in Ids : /\ store'[d] # store[d] => /\ store'[d].sequence \in Nat
                                               /\ store'[d].sequence > nextSequence
                                               /\ store'[d].sequence <= nextSequence'
                     /\ store'[d] = store[d] /\ Exists(d) =>
                           store'[d].sequence <= nextSequence
  BY <1>1, <1>2 DEF Sequenced
<1>4. \A d, e \in Ids :
        /\ store'[d] # store[d] /\ store'[e] # store[e]
        /\ store'[d].sequence = store'[e].sequence
        => d = e
  BY EnqueueEffect
<1>5. Sequenced'
  <2>1. ASSUME NEW d \in Ids, Exists(d)'
        PROVE  (store[d].sequence <= nextSequence)'
    <3>1. CASE store'[d] = store[d]
      BY <1>1, <1>3, <2>1, <3>1 DEF Exists
    <3> QED BY <1>3, <3>1
  <2>2. ASSUME NEW d \in Ids, NEW e \in Ids, Exists(d)', Exists(e)',
               store'[d].sequence = store'[e].sequence
        PROVE  d = e
    <3>1. CASE store'[d] = store[d] /\ store'[e] = store[e]
      BY <2>2, <3>1 DEF Sequenced, Exists
    <3>2. CASE store'[d] = store[d] /\ store'[e] # store[e]
      BY <1>1, <1>3, <2>2, <3>2 DEF Exists
    <3>3. CASE store'[d] # store[d] /\ store'[e] = store[e]
      BY <1>1, <1>3, <2>2, <3>3 DEF Exists
    <3>4. CASE store'[d] # store[d] /\ store'[e] # store[e]
      BY <1>4, <2>2, <3>4
    <3> QED BY <3>1, <3>2, <3>3, <3>4
  <2> QED BY <2>1, <2>2 DEF Sequenced
<1>6. PartitionOrder'
  <2> SUFFICES ASSUME NEW d \in Ids, NEW e \in Ids, Before(d, e)', (store[e].attempt > 0)'
               PROVE  Terminal(d)'
    BY DEF PartitionOrder
  <2>1. store'[e] = store[e]
    BY <1>2
  <2>2. Exists(e) /\ Exists(d)' /\ store'[d].sequence < store[e].sequence
    BY <2>1 DEF Before, Exists
  <2>3. store'[d] = store[d]
    BY <1>1, <1>3, <2>1, <2>2
  <2> QED BY <2>1, <2>2, <2>3 DEF PartitionOrder, Before, Terminal, Exists
<1> QED BY Zenon, <1>5, <1>6


\* A tick takes as much from a lease as from the call that it outlasts.
LEMMA BothLess ==
    ASSUME NEW a \in Nat, NEW b \in Nat, LeaseTime \in Nat, Timeout \in Nat,
           Timeout < LeaseTime, a > 0, a + LeaseTime <= b + Timeout
    PROVE  Less(a) + LeaseTime <= Less(b) + Timeout
BY DEF Less

\* Every step that does what Kept says preserves the rest of the invariant.
LEMMA KeptStep ==
    ASSUME TypeOK, LeaseInvariant, Kept
    PROVE  TokensIssued' /\ LeaseFence' /\ OnLease' /\ Receipts' /\ DeliveredWasReceived'
<1>k. LeasesKept /\ WorkKept /\ HoldersKept /\ ReceiptsKept /\ DeliveredKept /\ TimesKept
  BY DEF Kept
<1>i. TokensIssued /\ LeaseFence /\ OnLease /\ Receipts /\ DeliveredWasReceived
  BY DEF LeaseInvariant
<1>w. \A h \in Hosts, k \in Slots : work'[h][k].pc # "idle" =>
        /\ Busy(h, k) /\ work'[h][k].id = work[h][k].id
        /\ work'[h][k].token = work[h][k].token
        /\ work[h][k].id \in Ids /\ work[h][k].token \in Nat
        /\ work[h][k].timer \in Nat /\ store[work[h][k].id] \in Record
  BY Zenon, <1>k, BusyTypes DEF WorkKept
<1>1. TokensIssued'
  <2>1. \A d \in Ids : store'[d].state = "leased" =>
          store'[d].token = issued'[d] /\ store'[d].attempt > 0
    BY <1>k, <1>i DEF LeasesKept, TokensIssued
  <2>2. \A h \in Hosts, k \in Slots : work'[h][k].pc # "idle" =>
          work'[h][k].token <= issued'[work'[h][k].id]
    BY Zenon, <1>k, <1>i, <1>w DEF LeasesKept, TokensIssued
  <2>3. \A h, g \in Hosts, k, l \in Slots :
          /\ work'[h][k].pc # "idle" /\ work'[g][l].pc # "idle"
          /\ work'[h][k].id = work'[g][l].id
          /\ work'[h][k].token = work'[g][l].token
          => h = g /\ k = l
    BY SMT, SMTT(30), <1>i, <1>w DEF TokensIssued
  <2> QED BY <2>1, <2>2, <2>3 DEF TokensIssued, Busy
<1>2. LeaseFence'
  <2> SUFFICES ASSUME NEW h \in Hosts, NEW k \in Slots, work'[h][k].pc # "idle",
                      work'[h][k].token = issued'[work'[h][k].id]
               PROVE  Holds(work[h][k].id, work[h][k].token)'
    BY DEF LeaseFence, Busy
  <2>1. Busy(h, k) /\ work[h][k].token = issued[work[h][k].id]
    BY Zenon, <1>k, <1>w DEF LeasesKept
  <2>2. Holds(work[h][k].id, work[h][k].token)
    BY Zenon, <2>1, <1>i DEF LeaseFence
  <2>3. work'[h][k].id = work[h][k].id /\ work'[h][k].token = work[h][k].token
    BY Zenon, <1>w
  <2> QED BY ZenonT(30), <2>1, <2>2, <2>3, <1>k DEF HoldersKept, Holds
<1>3. OnLease'
  <2> SUFFICES ASSUME Timely, NEW h \in Hosts, NEW k \in Slots
               PROVE  /\ work'[h][k].pc = "resolve" =>
                            /\ Holds(work[h][k].id, work[h][k].token)'
                            /\ store'[work'[h][k].id].timer = LeaseTime
                      /\ work'[h][k].pc = "receive" =>
                            /\ Holds(work[h][k].id, work[h][k].token)'
                            /\ work'[h][k].timer + LeaseTime
                                 <= store'[work'[h][k].id].timer + Timeout
    BY Zenon DEF OnLease
  <2> DEFINE w == work[h][k]
             v == work'[h][k]
             d == w.id
  <2>1. /\ v.pc = "resolve" => w.pc = "resolve" /\ store'[d].timer = store[d].timer
        /\ v.pc = "receive" =>
              \/ /\ w.pc = "resolve" /\ v.timer = Timeout
                 /\ store'[d].timer = store[d].timer
              \/ /\ w.pc = "receive" /\ v.timer = w.timer
                 /\ store'[d].timer = store[d].timer
              \/ /\ w.pc = "receive" /\ w.timer > 0 /\ v.timer = Less(w.timer)
                 /\ store'[d].timer = Less(store[d].timer)
    BY Zenon, <1>k DEF TimesKept
  <2>2. v.pc # "idle" =>
          /\ Busy(h, k) /\ v.id = d /\ v.token = w.token
          /\ d \in Ids /\ w.timer \in Nat /\ store[d].timer \in Nat
    BY Zenon, <1>w DEF Record
  <2>3. /\ w.pc = "resolve" => Holds(d, w.token) /\ store[d].timer = LeaseTime
        /\ w.pc = "receive" =>
              Holds(d, w.token) /\ w.timer + LeaseTime <= store[d].timer + Timeout
    BY Zenon, <1>i DEF OnLease
  <2>4. v.pc \in {"resolve", "receive"} => Holds(work[h][k].id, work[h][k].token)'
    BY Zenon, <2>1, <2>2, <2>3, <1>k DEF HoldersKept, Holds
  <2>5. v.pc = "resolve" => store'[d].timer = LeaseTime
    BY ZenonT(30), <2>1, <2>3
  <2>6. v.pc = "receive" => v.timer + LeaseTime <= store'[d].timer + Timeout
    <3>1. LeaseTime \in Nat /\ Timeout \in Nat /\ Timeout < LeaseTime
      BY DeliveriesAssumption DEF DeliveriesAssumption
    <3> SUFFICES ASSUME v.pc = "receive"
                 PROVE  v.timer + LeaseTime <= store'[d].timer + Timeout
      OBVIOUS
    <3>2. w.timer \in Nat /\ store[d].timer \in Nat
      BY Zenon, <2>2
    <3>3. CASE /\ w.pc = "resolve" /\ v.timer = Timeout
               /\ store'[d].timer = store[d].timer
      <4>1. store'[d].timer = LeaseTime
        BY Zenon, <2>3, <3>3
      <4> QED BY SMT, SMTT(30), <3>1, <3>3, <4>1
    <3>4. CASE /\ w.pc = "receive" /\ v.timer = w.timer
               /\ store'[d].timer = store[d].timer
      BY Zenon, <2>3, <3>4
    <3>5. CASE /\ w.pc = "receive" /\ w.timer > 0 /\ v.timer = Less(w.timer)
               /\ store'[d].timer = Less(store[d].timer)
      <4>1. w.timer + LeaseTime <= store[d].timer + Timeout
        BY Zenon, <2>3, <3>5
      <4>2. Less(w.timer) + LeaseTime <= Less(store[d].timer) + Timeout
        BY Zenon, <3>1, <3>2, <3>5, <4>1, BothLess
      <4> QED BY Zenon, <3>5, <4>2
    <3> QED BY Zenon, <2>1, <3>3, <3>4, <3>5
  <2> QED BY Zenon, <2>2, <2>4, <2>5, <2>6
<1>4. Receipts'
  <2> SUFFICES ASSUME NEW h \in Hosts, NEW k \in Slots,
                      work'[h][k].pc = "settle", work'[h][k].result = "ok",
                      Holds(work[h][k].id, work[h][k].token)'
               PROVE  store'[work'[h][k].id].received
    BY Zenon DEF Receipts
  <2> DEFINE w == work[h][k]
  <2>1. /\ Busy(h, k) /\ work'[h][k].id = w.id /\ work'[h][k].token = w.token /\ w.id \in Ids
        /\ store'[w.id].state = "leased" /\ store'[w.id].token = w.token
    BY Zenon, <1>w DEF Holds
  <2>2. Holds(w.id, w.token)
    BY Zenon, <2>1, <1>k DEF LeasesKept, Holds
  <2>3. \/ store'[w.id].received
        \/ w.pc = "settle" /\ w.result = "ok" /\ (store[w.id].received => store'[w.id].received)
    BY Zenon, <2>1, <1>k DEF ReceiptsKept
  <2> QED BY Zenon, <2>1, <2>2, <2>3, <1>i DEF Receipts
<1>5. DeliveredWasReceived'
  BY <1>k, <1>i DEF DeliveredWasReceived, DeliveredKept
<1> QED BY <1>1, <1>2, <1>3, <1>4, <1>5

\* A step that leaves the queue alone, and of the workers makes some idle.
LEMMA IdleStep ==
    ASSUME TypeOK, UNCHANGED <<store, nextSequence, issued>>,
           \A g \in Hosts, l \in Slots : work'[g][l] = work[g][l] \/ work'[g][l].pc = "idle"
    PROVE  QueueKept /\ Kept
<1>1. QueueKept /\ LeasesKept /\ DeliveredKept
  BY DEF QueueKept, LeasesKept, DeliveredKept, Exists, Terminal
<1>2. WorkKept /\ HoldersKept
  BY Zenon DEF WorkKept, HoldersKept, Busy, Holds
<1>3. ReceiptsKept
  BY Zenon DEF ReceiptsKept
<1>4. TimesKept
  BY Zenon DEF TimesKept
<1> QED BY <1>1, <1>2, <1>3, <1>4 DEF Kept

\* What each action other than Lease keeps.
LEMMA EnqueueKept ==
    ASSUME TypeOK, LeaseInvariant, NEW S \in SUBSET Ids, Enqueue(S)
    PROVE  Kept
<1>1. /\ issued' = issued /\ work' = work
      /\ \A d \in Ids : \/ store'[d] = store[d]
                        \/ store[d].state = "absent" /\ store'[d].state = "pending"
  BY EnqueueEffect DEF Exists
<1>2. \A h \in Hosts, k \in Slots : Busy(h, k) => work[h][k].id \in Ids
  BY BusyTypes
<1>3. LeasesKept /\ DeliveredKept
  BY Zenon, <1>1 DEF LeasesKept, DeliveredKept
<1>4. WorkKept /\ HoldersKept
  BY Zenon, <1>1, <1>2 DEF WorkKept, HoldersKept, Busy, Holds
<1>5. ReceiptsKept
  BY Zenon, <1>1, <1>2 DEF ReceiptsKept, Busy
<1>6. TimesKept
  BY ZenonT(30), <1>1, <1>2 DEF TimesKept, LeaseInvariant, OnLease, Holds, Busy
<1> QED BY Zenon, <1>3, <1>4, <1>5, <1>6 DEF Kept

\* Only settled deliveries go, and nobody holds those.
LEMMA PurgeKept ==
    ASSUME TypeOK, LeaseInvariant, NEW S \in SUBSET Ids, PurgeTerminal(S)
    PROVE  QueueKept /\ Kept
<1>1. /\ nextSequence' = nextSequence /\ issued' = issued /\ work' = work
      /\ \A d \in Ids :
            \/ store'[d] = store[d]
            \/ store[d].state \in Settled /\ store'[d].state = "absent"
  BY PurgeEffect DEF Terminal
<1>2. \A h \in Hosts, k \in Slots : Busy(h, k) => work[h][k].id \in Ids
  BY BusyTypes
<1>3. QueueKept /\ LeasesKept /\ DeliveredKept
  BY Zenon, <1>1 DEF QueueKept, LeasesKept, DeliveredKept, Exists, Terminal
<1>4. WorkKept /\ HoldersKept
  BY Zenon, <1>1, <1>2 DEF WorkKept, HoldersKept, Busy, Holds, Settled
<1>5. ReceiptsKept
  BY Zenon, <1>1, <1>2 DEF ReceiptsKept, Busy
<1>6. TimesKept
  BY ZenonT(30), <1>1, <1>2 DEF TimesKept, LeaseInvariant, OnLease, Holds, Busy, Settled
<1> QED BY <1>3, <1>4, <1>5, <1>6 DEF Kept


\* The queue is unchanged and the worker keeps its lease.
LEMMA ResolveKept ==
    ASSUME TypeOK, LeaseInvariant, NEW h \in Hosts, NEW k \in Slots, Resolve(h, k)
    PROVE  QueueKept /\ Kept
<1>1. /\ store' = store /\ nextSequence' = nextSequence /\ issued' = issued
      /\ work[h][k].pc = "resolve"
      /\ work'[h][k].id = work[h][k].id /\ work'[h][k].token = work[h][k].token
      /\ \/ work'[h][k].pc = "receive" /\ work'[h][k].timer = Timeout
         \/ work'[h][k].pc = "settle" /\ work'[h][k].result # "ok"
      /\ \A g \in Hosts, l \in Slots : g # h \/ l # k => work'[g][l] = work[g][l]
  BY SMT, SMTT(30), ResolveEffect
<1>2. QueueKept /\ LeasesKept /\ DeliveredKept
  BY Zenon, <1>1 DEF QueueKept, LeasesKept, DeliveredKept, Exists, Terminal
<1>3. WorkKept
  BY Zenon, <1>1 DEF WorkKept, Busy
<1>4. HoldersKept
  BY Zenon, <1>1 DEF HoldersKept, Busy, Holds
<1>5. ReceiptsKept
  BY Zenon, <1>1 DEF ReceiptsKept
<1>6. TimesKept
  BY Zenon, <1>1 DEF TimesKept
<1> QED BY <1>2, <1>3, <1>4, <1>5, <1>6 DEF Kept

\* The delivery has been received when the worker is to acknowledge it.
LEMMA ReceiveKept ==
    ASSUME TypeOK, LeaseInvariant, NEW h \in Hosts, NEW k \in Slots,
           NEW res \in {"ok", "error"}, Receive(h, k, res)
    PROVE  QueueKept /\ Kept
<1> DEFINE d == work[h][k].id
<1>1. /\ nextSequence' = nextSequence /\ issued' = issued
      /\ work[h][k].pc = "receive" /\ d \in Ids
      /\ work'[h][k].id = d /\ work'[h][k].token = work[h][k].token
      /\ work'[h][k].pc = "settle" /\ work'[h][k].result = res
      /\ \A g \in Hosts, l \in Slots : g # h \/ l # k => work'[g][l] = work[g][l]
  BY SMT, SMTT(30), ReceiveEffect
<1>2. \A e \in Ids :
        /\ store'[e].state = store[e].state /\ store'[e].token = store[e].token
        /\ store'[e].timer = store[e].timer
        /\ store'[e].attempt = store[e].attempt
        /\ store'[e].sequence = store[e].sequence
        /\ store[e].received => store'[e].received
  BY Zenon, ReceiveEffect
<1>3. res = "ok" /\ Exists(d) => store'[d].received
  BY SMT, SMTT(30), ReceiveEffect
<1>4. \A g \in Hosts, l \in Slots : Busy(g, l) => work[g][l].id \in Ids
  BY Zenon, BusyTypes
<1>5. QueueKept /\ LeasesKept /\ DeliveredKept
  BY Zenon, <1>1, <1>2 DEF QueueKept, LeasesKept, DeliveredKept, Exists, Terminal
<1>6. WorkKept
  BY Zenon, <1>1 DEF WorkKept, Busy
<1>7. HoldersKept
  BY ZenonT(30), <1>2, <1>4 DEF HoldersKept, Holds
<1>8. ReceiptsKept
  <2> SUFFICES ASSUME NEW g \in Hosts, NEW l \in Slots,
                      work'[g][l].pc = "settle", work'[g][l].result = "ok",
                      store'[work[g][l].id].state = "leased"
               PROVE  \/ store'[work[g][l].id].received
                      \/ /\ work[g][l].pc = "settle" /\ work[g][l].result = "ok"
                         /\ store[work[g][l].id].received => store'[work[g][l].id].received
    BY Zenon DEF ReceiptsKept
  <2>1. CASE g = h /\ l = k
    <3>1. store[d].state = "leased" /\ res = "ok"
      BY Zenon, <1>1, <1>2, <2>1
    <3> QED BY Zenon, <1>3, <2>1, <3>1 DEF Exists
  <2>2. CASE g # h \/ l # k
    BY Zenon, <1>1, <1>2, <1>4, <2>2 DEF Busy
  <2> QED BY Zenon, <2>1, <2>2
<1>9. TimesKept
  <2>1. \A g \in Hosts, l \in Slots : work'[g][l].pc \in {"resolve", "receive"} =>
          work'[g][l] = work[g][l] /\ work[g][l].id \in Ids
    BY Zenon, <1>1, <1>4 DEF Busy
  <2> QED BY Zenon, <2>1, <1>2 DEF TimesKept
<1> QED BY Zenon, <1>5, <1>6, <1>7, <1>8, <1>9 DEF Kept

\* The delivery is settled for the only worker with its token.
LEMMA SettleKept ==
    ASSUME TypeOK, LeaseInvariant, NEW h \in Hosts, NEW k \in Slots, Settle(h, k)
    PROVE  QueueKept /\ Kept
<1> DEFINE w == work[h][k]
<1>i. TokensIssued /\ OnLease /\ Receipts
  BY Zenon DEF LeaseInvariant
<1>1. /\ nextSequence' = nextSequence /\ issued' = issued
      /\ w.pc = "settle" /\ w.id \in Ids /\ work'[h][k].pc = "idle"
      /\ \A g \in Hosts, l \in Slots : g # h \/ l # k => work'[g][l] = work[g][l]
  <2>1. Idle.pc = "idle"
    BY DEF Idle
  <2> QED BY ZenonT(60), <2>1, SettleEffect
<1>2. CASE store' = store
  <2>1. \A g \in Hosts, l \in Slots : work'[g][l] = work[g][l] \/ work'[g][l].pc = "idle"
    BY <1>1
  <2> QED BY Zenon, <1>1, <1>2, <2>1, IdleStep
<1>3. CASE store' # store
  <2>1. /\ Holds(w.id, w.token)
        /\ store'[w.id].state \in {"delivered", "dead", "pending"}
        /\ store'[w.id].state = "delivered" => w.result = "ok"
        /\ store'[w.id].attempt = store[w.id].attempt
        /\ store'[w.id].sequence = store[w.id].sequence
        /\ store'[w.id].received = store[w.id].received
        /\ \A e \in Ids : e # w.id => store'[e] = store[e]
    BY Zenon, <1>3, SettleEffect
  <2>2. store[w.id].state = "leased" /\ store[w.id].token = w.token
    BY Zenon, <2>1 DEF Holds
  <2>3. \A g \in Hosts, l \in Slots : Busy(g, l) => work[g][l].id \in Ids
    BY Zenon, BusyTypes
  <2>4. \A g \in Hosts, l \in Slots :
          work'[g][l].pc # "idle" =>
             /\ g # h \/ l # k
             /\ work'[g][l] = work[g][l] /\ Busy(g, l)
    BY Zenon, <1>1 DEF Busy
  <2>5. \A g \in Hosts, l \in Slots :
          work'[g][l].pc # "idle" /\ Holds(work[g][l].id, work[g][l].token) =>
             work[g][l].id # w.id
    <3>1. Busy(h, k)
      BY Zenon, <1>1 DEF Busy
    <3> SUFFICES ASSUME NEW g \in Hosts, NEW l \in Slots, work'[g][l].pc # "idle",
                        Holds(work[g][l].id, work[g][l].token), work[g][l].id = w.id
                 PROVE  FALSE
      BY Zenon
    <3>2. work[g][l].token = w.token /\ Busy(g, l) /\ (g # h \/ l # k)
      BY Zenon, <2>2, <2>4 DEF Holds
    <3> QED BY Zenon, <3>1, <3>2, <1>i DEF TokensIssued
  <2>6. QueueKept
    BY Zenon, <1>1, <2>1, <2>2 DEF QueueKept, Exists, Terminal, Settled
  <2>7. LeasesKept
    BY ZenonT(30), <1>1, <2>1 DEF LeasesKept
  <2>8. DeliveredKept
    <3>1. store'[w.id].state = "delivered" => store'[w.id].received
      BY Zenon, <1>1, <1>i, <2>1 DEF Receipts
    <3> QED BY Zenon, <2>1, <3>1 DEF DeliveredKept
  <2>9. WorkKept
    BY Zenon, <2>4 DEF WorkKept
  <2>10. HoldersKept
    <3>1. \A g \in Hosts, l \in Slots :
            /\ work'[g][l].pc # "idle" /\ Busy(g, l)
            /\ Holds(work[g][l].id, work[g][l].token)
            => store'[work[g][l].id] = store[work[g][l].id]
      BY Zenon, <2>1, <2>3, <2>5
    <3> QED BY Zenon, <3>1 DEF HoldersKept, Holds
  <2>11. ReceiptsKept
    <3>1. \A g \in Hosts, l \in Slots :
            work'[g][l].pc = "settle" /\ store'[work[g][l].id].state = "leased" =>
              /\ work'[g][l] = work[g][l]
              /\ store'[work[g][l].id] = store[work[g][l].id]
      BY Zenon, <2>1, <2>3, <2>4
    <3> QED BY Zenon, <3>1 DEF ReceiptsKept
  <2>12. TimesKept
    <3>1. Timely => \A g \in Hosts, l \in Slots :
            work'[g][l].pc \in {"resolve", "receive"} =>
              /\ work'[g][l] = work[g][l]
              /\ store'[work[g][l].id] = store[work[g][l].id]
      <4>1. Timely => \A g \in Hosts, l \in Slots :
              work[g][l].pc \in {"resolve", "receive"} =>
                Holds(work[g][l].id, work[g][l].token)
        BY Zenon, <1>i DEF OnLease
      <4> QED BY Zenon, <4>1, <2>1, <2>3, <2>4, <2>5
    <3> QED BY ZenonT(30), <3>1 DEF TimesKept
  <2> QED BY <2>6, <2>7, <2>8, <2>9, <2>10, <2>11, <2>12 DEF Kept
<1> QED BY <1>2, <1>3

\* A lease and the call under it run down together.
LEMMA AdvanceKept ==
    ASSUME TypeOK, LeaseInvariant, Advance
    PROVE  QueueKept /\ Kept
<1>1. /\ nextSequence' = nextSequence /\ issued' = issued
      /\ \A d \in Ids :
            /\ store'[d].state = store[d].state /\ store'[d].token = store[d].token
            /\ store'[d].timer = Less(store[d].timer)
            /\ store'[d].attempt = store[d].attempt
            /\ store'[d].sequence = store[d].sequence
            /\ store'[d].received = store[d].received
  BY Zenon, AdvanceEffect
<1>2. \A h \in Hosts, k \in Slots :
        /\ work'[h][k].pc = work[h][k].pc
        /\ Timely => OnTime(work[h][k])
        /\ Busy(h, k) =>
              /\ work'[h][k].id = work[h][k].id
              /\ work'[h][k].token = work[h][k].token
              /\ work'[h][k].result = work[h][k].result
              /\ work'[h][k].timer = Less(work[h][k].timer)
  BY Zenon, AdvanceEffect
<1>3. \A h \in Hosts, k \in Slots : Busy(h, k) => work[h][k].id \in Ids
  BY Zenon, BusyTypes
<1>4. QueueKept /\ LeasesKept /\ DeliveredKept
  BY Zenon, <1>1 DEF QueueKept, LeasesKept, DeliveredKept, Exists, Terminal
<1>5. WorkKept
  BY Zenon, <1>2 DEF WorkKept, Busy
<1>6. HoldersKept
  BY Zenon, <1>1, <1>3 DEF HoldersKept, Holds
<1>7. ReceiptsKept
  BY Zenon, <1>1, <1>2, <1>3 DEF ReceiptsKept, Busy
<1>8. TimesKept
  <2>1. Timely => \A h \in Hosts, k \in Slots :
          /\ work'[h][k].pc # "resolve"
          /\ work'[h][k].pc = "receive" => work[h][k].timer > 0
    BY SMT, SMTT(30), <1>2 DEF OnTime, Idle
  <2> QED BY ZenonT(30), <2>1, <1>1, <1>2, <1>3 DEF TimesKept, Busy
<1> QED BY Zenon, <1>4, <1>5, <1>6, <1>7, <1>8 DEF Kept


\* Lease: the delivery is the head of its partition, so the order is kept; its
\* token is new, so it is nobody else's; its timer was out, so no timely worker
\* was in the subscriber with it.
LEMMA LeaseStep ==
    ASSUME TypeOK, LeaseInvariant, NEW h \in Hosts, NEW k \in Slots, Lease(h, k)
    PROVE  LeaseInvariant'
<1>i. /\ Sequenced /\ PartitionOrder /\ TokensIssued /\ LeaseFence /\ OnLease
      /\ Receipts /\ DeliveredWasReceived
  BY DEF LeaseInvariant
<1>1. PICK d \in Ids :
        /\ IsHead(d) /\ store[d].timer = 0 /\ nextSequence' = nextSequence
        /\ store'[d].state = "leased" /\ store'[d].token = issued[d] + 1
        /\ store'[d].timer = LeaseTime /\ store'[d].attempt > 0
        /\ store'[d].sequence = store[d].sequence
        /\ \A e \in Ids : e # d => store'[e] = store[e] /\ issued'[e] = issued[e]
        /\ issued'[d] = issued[d] + 1 /\ work[h][k] = Idle
        /\ work'[h][k].pc = "resolve" /\ work'[h][k].id = d
        /\ work'[h][k].token = issued[d] + 1
        /\ \A g \in Hosts, l \in Slots :
              g # h \/ l # k => work'[g][l] = work[g][l]
  BY Zenon, LeaseEffect
<1>a. /\ issued'[d] = issued[d] + 1
      /\ \A e \in Ids : e # d => issued'[e] = issued[e]
  BY Zenon, <1>1
<1>b. work'[h][k].id = d /\ work'[h][k].token = issued[d] + 1
  BY Zenon, <1>1
<1>c. \A e \in Ids : e # d => store'[e] = store[e]
  BY Zenon, <1>1
<1>n. issued[d] \in Nat /\ LeaseTime \in Nat /\ Timeout \in Nat /\ Timeout < LeaseTime
  BY Zenon, DeliveriesAssumption DEF DeliveriesAssumption, TypeOK
\* The other workers: their token is not the new one of d.
<1>o. \A g \in Hosts, l \in Slots :
        (g # h \/ l # k) /\ work'[g][l].pc # "idle" =>
          /\ Busy(g, l) /\ work'[g][l] = work[g][l]
          /\ work[g][l].id \in Ids /\ work[g][l].token \in Nat
          /\ work[g][l].timer \in Nat
          /\ work[g][l].token <= issued[work[g][l].id]
          /\ work[g][l].id = d => work[g][l].token # issued[d] + 1
  <2>1. \A g \in Hosts, l \in Slots :
          (g # h \/ l # k) /\ work'[g][l].pc # "idle" =>
            Busy(g, l) /\ work'[g][l] = work[g][l]
    BY Zenon, <1>1 DEF Busy
  <2>2. \A g \in Hosts, l \in Slots : Busy(g, l) =>
          /\ work[g][l].id \in Ids /\ work[g][l].token \in Nat
          /\ work[g][l].timer \in Nat /\ work[g][l].token <= issued[work[g][l].id]
    BY Zenon, <1>i, BusyTypes DEF TokensIssued
  <2>3. \A t, n \in Nat : t <= n => t # n + 1
    OBVIOUS
  <2> QED BY ZenonT(60), <2>1, <2>2, <2>3, <1>n
<1>2. Sequenced' /\ PartitionOrder'
  <2>1. QueueKept
    BY Zenon, <1>1 DEF QueueKept, IsHead, Exists, Terminal
  <2> QED BY Zenon, <1>i, <2>1, QueueKeptStep
<1>3. TokensIssued'
  <2>1. \A e \in Ids : store'[e].state = "leased" =>
          store'[e].token = issued'[e] /\ store'[e].attempt > 0
    BY Zenon, <1>1, <1>i DEF TokensIssued
  <2>2. \A g \in Hosts, l \in Slots : work'[g][l].pc # "idle" =>
          work'[g][l].token <= issued'[work'[g][l].id]
    <3> SUFFICES ASSUME NEW g \in Hosts, NEW l \in Slots, work'[g][l].pc # "idle"
                 PROVE  work'[g][l].token <= issued'[work'[g][l].id]
      BY Zenon
    <3>1. CASE g = h /\ l = k
      <4>1. /\ work'[g][l].token = issued[d] + 1
            /\ issued'[work'[g][l].id] = issued[d] + 1
        BY Zenon, <1>a, <1>b, <3>1
      <4> QED BY SMT, SMTT(30), <4>1, <1>n
    <3>2. CASE (g # h \/ l # k) /\ work[g][l].id = d
      <4>1. /\ work'[g][l] = work[g][l] /\ issued'[d] = issued[d] + 1
            /\ work[g][l].token \in Nat /\ work[g][l].token <= issued[d]
        BY Zenon, <1>a, <1>o, <3>2
      <4> QED BY <4>1, <1>n, <3>2
    <3>3. CASE (g # h \/ l # k) /\ work[g][l].id # d
      BY ZenonT(30), <1>a, <1>o, <3>3
    <3> QED BY Zenon, <3>1, <3>2, <3>3
  <2>3. \A f, g \in Hosts, j, l \in Slots :
          /\ work'[f][j].pc # "idle" /\ work'[g][l].pc # "idle"
          /\ work'[f][j].id = work'[g][l].id
          /\ work'[f][j].token = work'[g][l].token
          => f = g /\ j = l
    <3> SUFFICES ASSUME NEW f \in Hosts, NEW g \in Hosts, NEW j \in Slots, NEW l \in Slots,
                        work'[f][j].pc # "idle", work'[g][l].pc # "idle",
                        work'[f][j].id = work'[g][l].id,
                        work'[f][j].token = work'[g][l].token
                 PROVE  f = g /\ j = l
      BY SMT, SMTT(30)
    <3>1. CASE f = h /\ j = k
      <4>1. CASE g = h /\ l = k
        BY Zenon, <3>1, <4>1
      <4>2. CASE g # h \/ l # k
        <5>1. work[g][l].id = d /\ work[g][l].token = issued[d] + 1
          BY Zenon, <1>b, <1>o, <3>1, <4>2
        <5> QED BY Zenon, <5>1, <1>o, <4>2
      <4> QED BY Zenon, <4>1, <4>2
    <3>2. CASE g = h /\ l = k
      <4>1. CASE f = h /\ j = k
        BY Zenon, <3>2, <4>1
      <4>2. CASE f # h \/ j # k
        <5>1. work[f][j].id = d /\ work[f][j].token = issued[d] + 1
          BY Zenon, <1>b, <1>o, <3>2, <4>2
        <5> QED BY Zenon, <5>1, <1>o, <4>2
      <4> QED BY Zenon, <4>1, <4>2
    <3>3. CASE (f # h \/ j # k) /\ (g # h \/ l # k)
      <4>1. /\ work'[f][j] = work[f][j] /\ Busy(f, j)
            /\ work'[g][l] = work[g][l] /\ Busy(g, l)
        BY Zenon, <1>o, <3>3
      <4>2. TokensIssued
        BY Zenon, <1>i
      <4> QED BY SMT, SMTT(30), <4>1, <4>2 DEF TokensIssued
    <3> QED BY Zenon, <3>1, <3>2, <3>3
  <2> QED BY SMTT(90), <2>1, <2>2, <2>3 DEF TokensIssued, Busy
<1>4. LeaseFence'
  <2> SUFFICES ASSUME NEW g \in Hosts, NEW l \in Slots, work'[g][l].pc # "idle",
                      work'[g][l].token = issued'[work'[g][l].id]
               PROVE  Holds(work[g][l].id, work[g][l].token)'
    BY Zenon DEF LeaseFence, Busy
  <2>1. CASE g = h /\ l = k
    BY Zenon, <1>1, <2>1 DEF Holds
  <2>2. CASE g # h \/ l # k
    <3>1. work'[g][l] = work[g][l] /\ work[g][l].id \in Ids
      BY Zenon, <1>o, <2>2
    <3>2. work[g][l].id # d /\ work[g][l].token = issued[work[g][l].id]
      <4>1. work[g][l].token = issued'[work[g][l].id]
        BY Zenon, <3>1
      <4>2. work[g][l].id # d
        <5>1. CASE work[g][l].id = d
          <6>1. work[g][l].token = issued[d] + 1
            BY Zenon, <4>1, <5>1, <1>a
          <6> QED BY Zenon, <6>1, <5>1, <1>o, <2>2
        <5> QED BY Zenon, <5>1
      <4> QED BY Zenon, <4>1, <4>2, <1>a, <3>1
    <3>3. Holds(work[g][l].id, work[g][l].token)
      BY Zenon, <3>2, <2>2, <1>o, <1>i DEF LeaseFence
    <3>4. store'[work[g][l].id] = store[work[g][l].id]
      BY Zenon, <1>c, <3>1, <3>2
    <3> QED BY Zenon, <3>1, <3>3, <3>4 DEF Holds
  <2> QED BY Zenon, <2>1, <2>2
<1>5. OnLease'
  <2> SUFFICES ASSUME Timely, NEW g \in Hosts, NEW l \in Slots,
                      work'[g][l].pc \in {"resolve", "receive"}
               PROVE  /\ work'[g][l].pc = "resolve" =>
                            /\ Holds(work[g][l].id, work[g][l].token)'
                            /\ store'[work'[g][l].id].timer = LeaseTime
                      /\ work'[g][l].pc = "receive" =>
                            /\ Holds(work[g][l].id, work[g][l].token)'
                            /\ work'[g][l].timer + LeaseTime
                                 <= store'[work'[g][l].id].timer + Timeout
    BY Zenon DEF OnLease
  <2>1. CASE g = h /\ l = k
    BY Zenon, <1>1, <2>1 DEF Holds
  <2>2. CASE g # h \/ l # k
    <3>1. /\ work'[g][l] = work[g][l] /\ work[g][l].id \in Ids /\ work[g][l].timer \in Nat
      BY Zenon, <2>2, <1>o
    <3>2. /\ work[g][l].pc = "resolve" =>
               Holds(work[g][l].id, work[g][l].token) /\ store[work[g][l].id].timer = LeaseTime
          /\ work[g][l].pc = "receive" =>
               /\ Holds(work[g][l].id, work[g][l].token)
               /\ work[g][l].timer + LeaseTime <= store[work[g][l].id].timer + Timeout
      BY Zenon, <1>i DEF OnLease
    <3>3. work[g][l].id # d
      BY SMT, SMTT(30), <1>1, <1>n, <3>1, <3>2
    <3>4. store'[work[g][l].id] = store[work[g][l].id]
      BY Zenon, <1>c, <3>1, <3>3
    <3> QED BY Zenon, <3>1, <3>2, <3>4 DEF Holds
  <2> QED BY Zenon, <2>1, <2>2
<1>6. Receipts'
  <2> SUFFICES ASSUME NEW g \in Hosts, NEW l \in Slots,
                      work'[g][l].pc = "settle", work'[g][l].result = "ok",
                      Holds(work[g][l].id, work[g][l].token)'
               PROVE  store'[work'[g][l].id].received
    BY Zenon DEF Receipts
  <2>1. g # h \/ l # k
    BY Zenon, <1>1
  <2>2. work'[g][l] = work[g][l] /\ work[g][l].id \in Ids /\ work[g][l].id # d
    <3>1. work'[g][l].pc # "idle"
      OBVIOUS
    <3>2. /\ work'[g][l] = work[g][l] /\ work[g][l].id \in Ids
          /\ work[g][l].id = d => work[g][l].token # issued[d] + 1
      BY Zenon, <2>1, <3>1, <1>o
    <3>3. work[g][l].id = d => work[g][l].token = issued[d] + 1
      <4>1. store'[work'[g][l].id].token = work'[g][l].token
        BY Zenon DEF Holds
      <4>2. store'[d].token = issued[d] + 1
        BY Zenon, <1>1
      <4> QED BY Zenon, <4>1, <4>2, <3>2
    <3> QED BY Zenon, <3>2, <3>3
  <2>3. store'[work[g][l].id] = store[work[g][l].id]
    BY Zenon, <2>2, <1>1
  <2> QED BY Zenon, <2>2, <2>3, <1>i DEF Receipts, Holds
<1>7. DeliveredWasReceived'
  BY Zenon, <1>1, <1>i DEF DeliveredWasReceived
<1> QED BY <1>2, <1>3, <1>4, <1>5, <1>6, <1>7 DEF LeaseInvariant

\* The initial state satisfies the invariant ...
LEMMA InitInvariant ==
    Init => LeaseInvariant
<1> SUFFICES ASSUME Init PROVE LeaseInvariant
  OBVIOUS
<1>1. /\ \A d \in Ids : store[d].state = "absent"
      /\ \A h \in Hosts, k \in Slots : work[h][k].pc = "idle"
  BY Zenon DEF Init, Blank, Idle
<1> QED
  BY Zenon, <1>1 DEF LeaseInvariant, Sequenced, PartitionOrder, Before, Exists, TokensIssued,
              LeaseFence, OnLease, Receipts, DeliveredWasReceived, Busy

\* ... every step keeps the types ...
LEMMA NextType ==
    TypeOK /\ [Next]_vars => TypeOK'
<1> SUFFICES ASSUME TypeOK, [Next]_vars PROVE TypeOK'
  OBVIOUS
<1>1. CASE \E S \in SUBSET Ids : Enqueue(S) \/ PurgeTerminal(S)
  BY <1>1, QueueStepType
<1>2. ASSUME NEW h \in Hosts, NEW k \in Slots, WorkerNext(h, k)
      PROVE  TypeOK'
  BY <1>2, WorkerStepType
<1>3. ASSUME NEW h \in Hosts, HostNext(h)
      PROVE  TypeOK'
  BY <1>3, HostSteps
<1>4. CASE Tick
  BY <1>4, QueueStepType DEF Tick
<1>5. CASE UNCHANGED vars
  BY Zenon, <1>5 DEF TypeOK, vars
<1> QED BY <1>1, <1>2, <1>3, <1>4, <1>5 DEF Next

\* ... and the invariant.
LEMMA NextInvariant ==
    TypeOK /\ LeaseInvariant /\ [Next]_vars => LeaseInvariant'
<1> SUFFICES ASSUME TypeOK, LeaseInvariant, [Next]_vars PROVE LeaseInvariant'
  OBVIOUS
<1>k. QueueKept /\ Kept => LeaseInvariant'
  BY QueueKeptStep, KeptStep DEF LeaseInvariant
<1>1. ASSUME NEW S \in SUBSET Ids, Enqueue(S)
      PROVE  LeaseInvariant'
  BY <1>1, EnqueueOrder, EnqueueKept, KeptStep DEF LeaseInvariant
<1>2. ASSUME NEW S \in SUBSET Ids, PurgeTerminal(S)
      PROVE  LeaseInvariant'
  BY <1>2, <1>k, PurgeKept
<1>3. ASSUME NEW h \in Hosts, NEW k \in Slots, WorkerNext(h, k)
      PROVE  LeaseInvariant'
  <2>1. CASE Lease(h, k)
    BY <2>1, LeaseStep
  <2>2. CASE Resolve(h, k)
    BY <2>2, <1>k, ResolveKept
  <2>3. CASE Settle(h, k)
    BY Zenon, <2>3, <1>k, SettleKept
  <2>4. CASE SettleFault(h, k)
    <3>1. /\ UNCHANGED <<store, nextSequence, issued>>
          /\ \A g \in Hosts, l \in Slots :
                work'[g][l] = work[g][l] \/ work'[g][l].pc = "idle"
      BY SMTT(90), <2>4, SettleFaultEffect DEF Idle
    <3> QED BY Zenon, <3>1, <1>k, IdleStep
  <2>5. ASSUME NEW res \in {"ok", "error"}, Receive(h, k, res)
        PROVE  LeaseInvariant'
    BY <2>5, <1>k, ReceiveKept
  <2> QED BY <1>3, <2>1, <2>2, <2>3, <2>4, <2>5 DEF WorkerNext
<1>4. ASSUME NEW h \in Hosts, HostNext(h)
      PROVE  LeaseInvariant'
  <2>1. /\ UNCHANGED <<store, nextSequence, issued>>
        /\ \A g \in Hosts, l \in Slots :
              work'[g][l] = work[g][l] \/ work'[g][l].pc = "idle"
    BY <1>4, HostEffect DEF Idle
  <2> QED BY <2>1, <1>k, IdleStep
<1>5. CASE Tick
  BY <1>5, <1>k, AdvanceKept DEF Tick
<1>6. CASE UNCHANGED vars
  <2>1. /\ UNCHANGED <<store, nextSequence, issued>>
        /\ \A g \in Hosts, l \in Slots :
              work'[g][l] = work[g][l] \/ work'[g][l].pc = "idle"
    BY <1>6 DEF vars
  <2> QED BY <2>1, <1>k, IdleStep
<1> QED BY <1>1, <1>2, <1>3, <1>4, <1>5, <1>6 DEF Next

\* What a queue does between two purges, as a part of a larger system whose time
\* may run when no timer of this queue does.
Going ==
    \/ \E S \in SUBSET Ids : Enqueue(S)
    \/ \E h \in Hosts, k \in Slots : WorkerNext(h, k)
    \/ \E h \in Hosts : HostNext(h)
    \/ Advance
    \/ UNCHANGED vars

\* A delivery stays in the queue, at its place, and once settled remains so; one
\* that is added comes behind all the others.
Grown ==
    \A d \in Ids :
        /\ Exists(d) => /\ store'[d].state # "absent"
                        /\ store'[d].sequence = store[d].sequence
                        /\ Terminal(d) => store'[d].state = store[d].state
        /\ ~Exists(d) /\ store'[d].state # "absent" =>
              store'[d].state = "pending" /\ store'[d].sequence > nextSequence

\* Such a step keeps the types and the invariant ...
LEMMA GoingInvariant ==
    ASSUME TypeOK, LeaseInvariant, Going
    PROVE  TypeOK' /\ LeaseInvariant' /\ \A d \in Ids : store'[d].sequence \in Nat
<1>1. ASSUME [Next]_vars PROVE TypeOK' /\ LeaseInvariant'
  BY Zenon, <1>1, NextType, NextInvariant
<1>2. ASSUME Advance PROVE TypeOK' /\ LeaseInvariant'
  <2>1. TypeOK' /\ QueueKept /\ Kept
    BY Zenon, <1>2, QueueStepType, AdvanceKept
  <2> QED BY Zenon, <2>1, QueueKeptStep, KeptStep DEF LeaseInvariant
<1>3. TypeOK' /\ LeaseInvariant'
  BY Zenon, <1>1, <1>2 DEF Going, Next
<1>4. \A d \in Ids : store'[d].sequence \in Nat
  BY <1>3 DEF TypeOK, Record
<1> QED BY Zenon, <1>3, <1>4

\* ... and takes no delivery away.
LEMMA GoingGrown ==
    ASSUME TypeOK, Going
    PROVE  Grown
<1>1. ASSUME NEW S \in SUBSET Ids, Enqueue(S)
      PROVE  Grown
  <2>1. nextSequence \in Nat
    BY Zenon DEF TypeOK
  <2>2. \A d \in Ids :
          \/ store'[d] = store[d]
          \/ /\ ~Exists(d) /\ store'[d].state = "pending"
             /\ store'[d].sequence \in (nextSequence + 1)..nextSequence'
    BY Zenon, <1>1, EnqueueEffect
  <2>3. nextSequence' \in Nat
    BY Zenon, <1>1, EnqueueEffect
  <2>4. \A n \in (nextSequence + 1)..nextSequence' : n > nextSequence
    BY <2>1, <2>3
  <2> QED BY Zenon, <2>2, <2>4 DEF Grown, Exists
<1>2. ASSUME \A d \in Ids :
               /\ store'[d].state = store[d].state
               /\ store'[d].sequence = store[d].sequence
      PROVE  Grown
  BY Zenon, <1>2 DEF Grown, Exists
<1>3. ASSUME NEW h \in Hosts, NEW k \in Slots, WorkerNext(h, k)
      PROVE  Grown
  <2>1. CASE Lease(h, k)
    <3>1. PICK d \in Ids :
            /\ IsHead(d) /\ store'[d].state = "leased"
            /\ store'[d].sequence = store[d].sequence
            /\ \A e \in Ids : e # d => store'[e] = store[e]
      BY ZenonT(60), <2>1, LeaseEffect
    <3>2. "leased" # "absent"
      OBVIOUS
    <3> QED BY Zenon, <3>1, <3>2 DEF Grown, IsHead, Exists
  <2>2. CASE Resolve(h, k)
    BY Zenon, <1>2, <2>2 DEF Resolve
  <2>3. CASE Settle(h, k)
    <3> DEFINE w == work[h][k]
    <3>1. \/ store' = store
          \/ /\ store[w.id].state = "leased" /\ w.id \in Ids
             /\ store'[w.id].state \in {"delivered", "dead", "pending"}
             /\ store'[w.id].sequence = store[w.id].sequence
             /\ \A e \in Ids : e # w.id => store'[e] = store[e]
      BY Zenon, <2>3, SettleEffect DEF Holds
    <3> HIDE DEF w
    <3>2. CASE store' = store
      BY Zenon, <1>2, <3>2
    <3>3. CASE store' # store
      <4>1. "leased" \notin Settled /\ "leased" # "absent"
            /\ "absent" \notin {"delivered", "dead", "pending"}
        BY DEF Settled
      <4> QED BY Zenon, <3>1, <3>3, <4>1 DEF Grown, Exists, Terminal
    <3> QED BY Zenon, <3>2, <3>3
  <2>4. CASE SettleFault(h, k)
    BY Zenon, <1>2, <2>4 DEF SettleFault
  <2>5. ASSUME NEW res \in {"ok", "error"}, Receive(h, k, res)
        PROVE  Grown
    <3>1. \A e \in Ids : /\ store'[e].state = store[e].state
                         /\ store'[e].sequence = store[e].sequence
      BY Zenon, <2>5, ReceiveEffect
    <3> QED BY ZenonT(60), <1>2, <3>1
  <2> QED BY Zenon, <1>3, <2>1, <2>2, <2>3, <2>4, <2>5 DEF WorkerNext
<1>4. ASSUME NEW h \in Hosts, HostNext(h)
      PROVE  Grown
  <2>1. store' = store
    BY Zenon, <1>4, HostEffect
  <2> QED BY Zenon, <2>1, <1>2
<1>5. CASE Advance
  BY Zenon, <1>5, <1>2, AdvanceEffect
<1>6. CASE UNCHANGED vars
  BY Zenon, <1>6, <1>2 DEF vars
<1> QED BY Zenon, <1>1, <1>3, <1>4, <1>5, <1>6 DEF Going

\* A busy worker goes idle only by settling its delivery or by a fault.
LEMMA GoesIdle ==
    ASSUME TypeOK, Next, faults' = faults,
           NEW h \in Hosts, NEW k \in Slots, Busy(h, k), work'[h][k] = Idle
    PROVE  Settle(h, k)
<1>t. work \in [Hosts -> [Slots -> Worker]] /\ faults \in Nat
  BY Zenon DEF TypeOK
<1>i. Idle.pc = "idle"
  BY DEF Idle
<1>b. work[h][k] # Idle /\ Idle.pc = "idle" /\ work'[h][k] # work[h][k]
  BY Zenon, <1>i DEF Busy
<1>1. ASSUME NEW S \in SUBSET Ids, Enqueue(S) \/ PurgeTerminal(S)
      PROVE  FALSE
  BY Zenon, <1>b, <1>1 DEF Enqueue, PurgeTerminal
<1>2. ASSUME NEW g \in Hosts, NEW l \in Slots, WorkerNext(g, l)
      PROVE  Settle(h, k)
  <2>1. PICK r : work' = [work EXCEPT ![g][l] = r]
    BY <1>2, Zenon DEF WorkerNext, Lease, Resolve, Receive, Settle, SettleFault
  <2>2. g = h /\ l = k /\ r = Idle
    BY Zenon, <1>t, <1>b, <2>1
  <2>3. ~ Lease(h, k) /\ ~ SettleFault(h, k)
    <3>1. ~ Lease(h, k)
      BY Zenon, <1>b DEF Lease
    <3>2. faults + 1 # faults
      BY <1>t
    <3>3. ~ SettleFault(h, k)
      BY Zenon, <3>2 DEF SettleFault
    <3> QED BY Zenon, <3>1, <3>3
  <2>4. ASSUME Resolve(h, k)
        PROVE  FALSE
    <3>1. work'[h][k].pc = "receive" \/ work'[h][k].pc = "settle"
      BY <2>4, ResolveEffect, Zenon
    <3> QED BY <1>b, <3>1
  <2>5. ASSUME NEW res \in {"ok", "error"}, Receive(h, k, res)
        PROVE  FALSE
    <3>1. work' = [work EXCEPT ![h][k] = Returned(work[h][k], res)]
      BY Zenon, <2>5 DEF Receive
    <3>2. work'[h][k] = Returned(work[h][k], res)
      BY Zenon, <1>t, <3>1
    <3>3. work'[h][k].pc = "settle"
      BY Zenon, <1>t, <3>2 DEF Returned, Worker, BusyWorker, Idle
    <3> QED BY Zenon, <1>b, <3>3
  <2> QED BY <1>2, <2>2, <2>3, <2>4, <2>5 DEF WorkerNext
<1>3. ASSUME NEW g \in Hosts, HostNext(g)
      PROVE  FALSE
  <2>1. CASE Stopped(g)
    <3>1. /\ work' = [work EXCEPT ![g] = [l \in Slots |-> Idle]]
          /\ \A l \in Slots : work[g][l] = Idle
      BY <2>1 DEF Stopped, Gone
    <3>2. g # h
      BY Zenon, <1>b, <3>1
    <3> QED BY <1>t, <1>b, <3>1, <3>2
  <2>2. ~ Crash(g)
    BY SMT, SMTT(30), <1>t DEF Crash, Fault
  <2> QED BY Zenon, <1>3, <1>b, <2>1, <2>2
          DEF HostNext, DrainStart, DrainDone, CloseRuntime, CancelWorkers, Mount, Remount,
              Restart
<1>4. CASE Tick
  <2>1. work'[h][k] = AgedWorker(work[h][k])
    BY <1>4 DEF Tick, Advance
  <2>2. work[h][k] \in BusyWorker
    BY <1>t, <1>b DEF Worker
  <2>3. AgedWorker(work[h][k]).pc = work[h][k].pc
    BY <1>b, <2>2, Zenon DEF AgedWorker, BusyWorker
  <2> QED BY Zenon, <1>b, <2>1, <2>3 DEF Busy
<1> QED BY <1>1, <1>2, <1>3, <1>4 DEF Next

-------------------------------------------------------------------------------
(***************************************************************************)
(* The theorems.                                                           *)
(***************************************************************************)

\* Every variable keeps its type, for any number of deliveries, hosts and
\* workers and any durations.
THEOREM Typing ==
    Spec => []TypeOK
<1>1. Init => TypeOK
  BY InitType
<1> QED BY <1>1, NextType, PTL DEF Spec

\* The order of the queue, the uniqueness of its lease tokens and the timers of
\* timely workers are an inductive invariant.
THEOREM LeaseInvariance ==
    Spec => []LeaseInvariant
<1>1. Init => TypeOK /\ LeaseInvariant
  BY InitType, InitInvariant
<1>2. TypeOK /\ LeaseInvariant /\ [Next]_vars => TypeOK' /\ LeaseInvariant'
  BY NextType, NextInvariant
<1> QED BY <1>1, <1>2, PTL DEF Spec

\* Ordering is preserved per partition, whatever crashes, expires, is retried,
\* is enqueued twice or is purged.
THEOREM Ordering ==
    Spec => []PartitionOrder
<1>1. LeaseInvariant => PartitionOrder
  BY DEF LeaseInvariant
<1> QED BY <1>1, LeaseInvariance, PTL

\* A late worker never settles a delivery that was leased again: until the
\* newest lease of a delivery is settled, only its worker changes the delivery.
THEOREM Fencing ==
    Spec => []LeaseFence
<1>1. LeaseInvariant => LeaseFence
  BY DEF LeaseInvariant
<1> QED BY <1>1, LeaseInvariance, PTL

\* Delivery is at least once: what is acknowledged has been received.
THEOREM AtLeastOnce ==
    Spec => []DeliveredWasReceived
<1>1. LeaseInvariant => DeliveredWasReceived
  BY DEF LeaseInvariant
<1> QED BY <1>1, LeaseInvariance, PTL

\* The timeout-below-lease fence: subscribers that respect their timeout never
\* run concurrently on one partition, for any timeout below any lease duration.
THEOREM Serialization ==
    Spec => []SerialPartition
<1>1. TypeOK /\ LeaseInvariant => SerialPartition
  <2> SUFFICES ASSUME TypeOK, LeaseInvariant, Timely,
                      NEW h \in Hosts, NEW g \in Hosts, NEW k \in Slots, NEW l \in Slots,
                      work[h][k].pc = "receive", work[g][l].pc = "receive",
                      PartitionOf[work[h][k].id] = PartitionOf[work[g][l].id]
               PROVE  h = g /\ k = l
    BY SMTT(90) DEF SerialPartition
  <2> DEFINE d == work[h][k].id
             e == work[g][l].id
  <2>1. Busy(h, k) /\ Busy(g, l) /\ d \in Ids /\ e \in Ids
    BY Zenon, BusyTypes DEF Busy
  <2>2. Holds(d, work[h][k].token) /\ Holds(e, work[g][l].token)
    BY Zenon DEF LeaseInvariant, OnLease
  <2>3. /\ store[d].state = "leased" /\ store[e].state = "leased"
        /\ store[d].token = work[h][k].token /\ store[e].token = work[g][l].token
    BY Zenon, <2>2 DEF Holds
  <2>4. /\ store[d].attempt > 0 /\ store[e].attempt > 0
        /\ store[d].sequence \in Nat /\ store[e].sequence \in Nat
    BY Zenon, <2>1, <2>3 DEF LeaseInvariant, TokensIssued, TypeOK, Record
  <2>5. ~Before(d, e) /\ ~Before(e, d)
    BY Zenon, <2>1, <2>3, <2>4 DEF LeaseInvariant, PartitionOrder, Terminal, Settled
  <2>6. store[d].sequence = store[e].sequence
    <3>1. /\ ~(store[d].sequence < store[e].sequence)
          /\ ~(store[e].sequence < store[d].sequence)
      BY Zenon, <2>3, <2>5 DEF Before, Exists
    <3> HIDE DEF d, e
    <3> QED BY <2>4, <3>1
  <2>7. d = e
    BY Zenon, <2>1, <2>3, <2>6 DEF LeaseInvariant, Sequenced, Exists
  <2>8. d = e /\ work[h][k].token = work[g][l].token
    BY Zenon, <2>3, <2>7
  <2> QED BY Zenon, <2>1, <2>8 DEF LeaseInvariant, TokensIssued
<1> QED BY <1>1, Typing, LeaseInvariance, PTL

\* Unless its host crashes or its store call fails, a worker never leaves a lease
\* it holds behind: settling takes the delivery off its lease, and a shutdown
\* waits for the workers (waitDurableStopped, releaseCancelled).
THEOREM LeasesSettled == Spec => NoLeaseAbandoned
<1> DEFINE Left == faults' = faults => \A h \in Hosts, k \in Slots :
              LET w == work[h][k] IN
              Busy(h, k) /\ Holds(w.id, w.token) /\ work'[h][k] = Idle
                  => store'[w.id].state # "leased" \/ store'[w.id].token # w.token
<1>1. TypeOK /\ Next => Left
  <2> SUFFICES ASSUME TypeOK, Next, faults' = faults, NEW h \in Hosts, NEW k \in Slots,
                      Busy(h, k), Holds(work[h][k].id, work[h][k].token), work'[h][k] = Idle
               PROVE  store'[work[h][k].id].state # "leased"
    BY Zenon
  <2>1. PICK w : w = work[h][k]
    OBVIOUS
  <2>2. Settle(h, k)
    BY GoesIdle, Zenon
  <2>3. store' = [store EXCEPT ![w.id] = Settling(h, w)] /\ w.id \in Ids /\ w.pc = "settle"
    BY <2>1, <2>2, SettleEffect, Zenon DEF Settle
  <2>4. w \in BusyWorker /\ store[w.id] \in Record /\ store \in [Ids -> Record]
    <3>1. work[h][k] \in Worker /\ work[h][k] # Idle
      BY DEF TypeOK, Busy, Idle
    <3>2. store \in [Ids -> Record]
      BY DEF TypeOK
    <3> QED BY <2>1, <2>3, <3>1, <3>2, Zenon DEF Worker
  <2>5. Settling(h, w).state \in {"delivered", "dead", "pending"}
    BY <2>4, SettlingStep, Zenon
  <2> QED BY Zenon, <2>1, <2>3, <2>4, <2>5
<1>2. TypeOK /\ [Next]_vars => [Left]_vars
  BY <1>1, Zenon
<1> QED BY <1>2, Typing, PTL DEF Spec, NoLeaseAbandoned

=============================================================================
