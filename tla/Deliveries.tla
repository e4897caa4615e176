------------------------------ MODULE Deliveries ------------------------------
(***************************************************************************)
(* Durable deliveries: the partitioned queue with its leases (sdk/storage) *)
(* and the workers that lease a delivery, hand it to its subscriber and    *)
(* settle it (internal/deliveryworker).  The same queue and workers are    *)
(* the subscriber outbox of a runtime (sdk/runtime) and the inbox of a     *)
(* standalone plugin server (pluginrpc).                                   *)
(*                                                                         *)
(* Time appears as timers that Tick counts down: what is left of a lease,  *)
(* the time until a pending delivery is available, the time a handler call *)
(* may still take.                                                         *)
(***************************************************************************)
EXTENDS Integers, FiniteSets, Functions

CONSTANTS
    Ids,            \* delivery identities (event, subscription, revision)
    PartitionOf,    \* the partition of a delivery (subscription, session)
    RevisionOf,     \* the subscriber revision a delivery is addressed to
    Revisions,      \* subscriber revisions
    Unmounted,      \* no revision of the subscriber is mounted
    Hosts,          \* processes whose workers lease from the queue
    Servers,        \* the hosts that are plugin servers: one revision for life
    Slots,          \* the workers of one host
    LeaseTime,      \* lease duration
    Timeout,        \* limit of one subscriber call
    Poll,           \* poll interval, the unit of the retry delay
    MaxRetryDelay,  \* cap of the retry delay
    MaxAttempts,    \* attempts before a failing delivery is dead-lettered
    Timely,         \* TRUE: subscribers respect their timeout
    StoreFaults,    \* TRUE: store calls that settle a delivery may fail
    Crashes,        \* TRUE: hosts may crash
    MaxSequence,    \* bound: deliveries ever enqueued
    MaxLeases,      \* bound: leases of one delivery
    MaxFaults       \* bound: crashes, shutdowns, remounts, failed store calls

ASSUME DeliveriesAssumption ==
    /\ IsFiniteSet(Ids) /\ Servers \subseteq Hosts
    /\ PartitionOf \in [Ids -> Range(PartitionOf)]
    /\ RevisionOf \in [Ids -> Revisions] /\ Unmounted \notin Revisions
    /\ LeaseTime \in Nat /\ Timeout \in Nat /\ Timeout < LeaseTime
    /\ Poll \in Nat /\ MaxRetryDelay \in Nat /\ MaxAttempts \in Nat \ {0}
    /\ MaxSequence \in Nat /\ MaxLeases \in Nat /\ MaxFaults \in Nat
    /\ {Timely, StoreFaults, Crashes} \subseteq BOOLEAN

VARIABLES
    store,          \* [Ids -> Record], the queue
    nextSequence,   \* the sequence number given last
    issued,         \* [Ids -> Nat], the lease tokens of each delivery so far
    up,             \* [Hosts -> HostStates]
    mounted,        \* [Hosts -> Revisions \cup {Unmounted}]
    work,           \* [Hosts -> [Slots -> Worker]]
    drain,          \* [Hosts -> Revisions \cup {Unmounted}], DrainDeliveries
    faults          \* faults so far

vars == <<store, nextSequence, issued, up, mounted, work, drain, faults>>
hostVars == <<up, mounted, drain, faults>>

Settled == {"delivered", "dead"}
States == {"absent", "pending", "leased"} \cup Settled

\* The runtime has not started its workers; the host admits work; its runtime is
\* closed; its worker context is cancelled; it is gone.
HostStates == {"starting", "up", "closed", "closing", "down"}

\* timer is the rest of the lease of a leased delivery and the time until a
\* pending one is available.  received is history: a subscriber call returned nil.
Record == [state : States, sequence : Nat, attempt : Nat, token : Nat,
           timer : Nat, received : BOOLEAN]

Results == {"none", "ok", "error", "closed", "permanent"}

Idle == [pc |-> "idle"]

BusyWorker == [pc : {"resolve", "receive", "settle"}, id : Ids, token : Nat,
               attempt : Nat, timer : Nat, result : Results]

Worker == BusyWorker \cup {Idle}

Busy(h, k) == work[h][k].pc # "idle"

Less(n) == IF n = 0 THEN 0 ELSE n - 1

-------------------------------------------------------------------------------
(***************************************************************************)
(* The queue.                                                              *)
(***************************************************************************)
Blank(st, n) ==
    [state |-> st, sequence |-> n, attempt |-> 0, token |-> 0, timer |-> 0,
     received |-> FALSE]

Exists(d) == store[d].state # "absent"

Terminal(d) == store[d].state \in Settled

\* The delivery precedes the other in their common partition.
Before(d, e) ==
    /\ Exists(d) /\ Exists(e) /\ PartitionOf[d] = PartitionOf[e]
    /\ store[d].sequence < store[e].sequence

\* The first unsettled delivery of its partition.
IsHead(d) ==
    /\ Exists(d) /\ ~Terminal(d)
    /\ \A e \in Ids : Before(e, d) => Terminal(e)

LeaseAvailable(r) == r.state \in {"pending", "leased"} /\ r.timer = 0

\* Variant: any available delivery may be leased, not only a head.
CandidateAnywhere(d) == Exists(d) /\ LeaseAvailable(store[d])

Candidate(d) == IsHead(d) /\ LeaseAvailable(store[d])

Leased(r, token) ==
    [r EXCEPT !.state = "leased", !.attempt = @ + 1, !.token = token,
              !.timer = LeaseTime]

\* Variant: the token is not compared.
HoldsAny(d, token) == store[d].state = "leased"

\* FinishLease refuses a delivery that is not leased, or not under the token.
Holds(d, token) == store[d].state = "leased" /\ store[d].token = token

FinishLease(r, st, delay) ==
    [r EXCEPT !.state = st, !.token = 0, !.timer = delay]

PowersOfTwo == <<1, 2, 4, 8, 16, 32, 64, 128, 256, 512, 1024>>

RetryDelay(attempt) ==
    LET shift == IF attempt < 1 THEN 0 ELSE IF attempt > 11 THEN 10 ELSE attempt - 1
        delay == Poll * PowersOfTwo[shift + 1]
    IN  IF delay < MaxRetryDelay THEN delay ELSE MaxRetryDelay

\* A batch is stored in one transaction.  A delivery the queue already has is
\* skipped; the others get the next sequence numbers.
Enqueue(S) ==
    LET New  == {d \in S : ~Exists(d)}
        last == nextSequence + Cardinality(New)
    IN  /\ New # {} /\ last <= MaxSequence
        /\ \E f \in Bijection(New, (nextSequence + 1)..last) :
              store' = [d \in Ids |-> IF d \in New THEN Blank("pending", f[d])
                                     ELSE store[d]]
        /\ nextSequence' = last
        /\ UNCHANGED <<issued, work, hostVars>>

PurgeTerminal(S) ==
    /\ S # {} /\ \A d \in S : Terminal(d)
    /\ store' = [d \in Ids |-> IF d \in S THEN Blank("absent", 0) ELSE store[d]]
    /\ UNCHANGED <<nextSequence, issued, work, hostVars>>

-------------------------------------------------------------------------------
(***************************************************************************)
(* A worker: lease, resolve the subscriber, call it, settle the delivery.  *)
(***************************************************************************)
Job(d) ==
    [pc |-> "resolve", id |-> d, token |-> issued[d] + 1,
     attempt |-> store[d].attempt + 1, timer |-> 0, result |-> "none"]

\* The workers of a host run until its worker context is cancelled.
Lease(h, k) ==
    /\ up[h] \in {"up", "closed"} /\ work[h][k] = Idle
    /\ \E d \in Ids :
          /\ Candidate(d) /\ issued[d] < MaxLeases
          /\ \A e \in Ids : Candidate(e) => store[d].sequence <= store[e].sequence
          /\ store' = [store EXCEPT ![d] = Leased(@, issued[d] + 1)]
          /\ issued' = [issued EXCEPT ![d] = @ + 1]
          /\ work' = [work EXCEPT ![h][k] = Job(d)]
    /\ UNCHANGED <<nextSequence, hostVars>>

\* Variant: the subscriber call is not limited by the lease.
ReceivingLong(w) == [w EXCEPT !.pc = "receive", !.timer = LeaseTime + 1]

Receiving(w) == [w EXCEPT !.pc = "receive", !.timer = Timeout]
Returned(w, res) == [w EXCEPT !.pc = "settle", !.timer = 0, !.result = res]

\* acquireSubscriberDelivery of a runtime, resolveDeliveryTarget of a server.
\* A closed runtime has no snapshot to acquire, whether or not its worker
\* context is cancelled already.
Resolve(h, k) ==
    LET w == work[h][k] IN
    /\ w.pc = "resolve"
    /\ work' = [work EXCEPT ![h][k] =
          IF up[h] # "up" /\ h \notin Servers THEN Returned(w, "closed")
          ELSE IF mounted[h] = Unmounted THEN Returned(w, "error")
          ELSE IF mounted[h] # RevisionOf[w.id] THEN Returned(w, "permanent")
          ELSE Receiving(w)]
    /\ UNCHANGED <<store, nextSequence, issued, hostVars>>

Noted(r) == [r EXCEPT !.received = TRUE]

\* The subscriber call returns.
Receive(h, k, res) ==
    LET w == work[h][k] IN
    /\ w.pc = "receive" /\ res \in {"ok", "error"}
    /\ work' = [work EXCEPT ![h][k] = Returned(w, res)]
    /\ store' = IF res = "ok" /\ Exists(w.id)
                THEN [store EXCEPT ![w.id] = Noted(@)] ELSE store
    /\ UNCHANGED <<nextSequence, issued, hostVars>>

Cancelled(h) == up[h] = "closing"

\* Variant: a failing delivery is retried for ever.
VerdictRetry(h, w) == IF w.result = "ok" THEN "delivered" ELSE "pending"

\* Variant: a cancelled call is acknowledged.
VerdictAckCancelled(h, w) ==
    IF w.result = "ok" \/ Cancelled(h) THEN "delivered"
    ELSE IF w.result = "permanent" \/ w.attempt >= MaxAttempts THEN "dead"
    ELSE "pending"

\* Ack, the release of a cancelled call, the dead letter and the retry.
Verdict(h, w) ==
    IF w.result = "ok" THEN "delivered"
    ELSE IF Cancelled(h) THEN "pending"
    ELSE IF w.result = "permanent" \/ w.attempt >= MaxAttempts THEN "dead"
    ELSE "pending"

Delay(h, w) ==
    IF Verdict(h, w) = "pending" /\ ~Cancelled(h) THEN RetryDelay(w.attempt) ELSE 0

Settling(h, w) == FinishLease(store[w.id], Verdict(h, w), Delay(h, w))

Settle(h, k) ==
    LET w == work[h][k] IN
    /\ w.pc = "settle"
    /\ work' = [work EXCEPT ![h][k] = Idle]
    /\ store' = IF Holds(w.id, w.token)
                THEN [store EXCEPT ![w.id] = Settling(h, w)] ELSE store
    /\ UNCHANGED <<nextSequence, issued, hostVars>>

\* The store call of Settle fails: the worker logs it and goes on, and the
\* lease is left to expire.
SettleFault(h, k) ==
    /\ StoreFaults /\ faults < MaxFaults
    /\ work[h][k].pc = "settle"
    /\ work' = [work EXCEPT ![h][k] = Idle]
    /\ faults' = faults + 1
    /\ UNCHANGED <<store, nextSequence, issued, up, mounted, drain>>

-------------------------------------------------------------------------------
(***************************************************************************)
(* DrainDeliveries, hosts, time.                                           *)
(***************************************************************************)

\* A caller waits for the deliveries addressed to the subscriber as it is
\* mounted now.
DrainStart(h) ==
    /\ up[h] = "up" /\ h \notin Servers
    /\ drain[h] = Unmounted /\ mounted[h] # Unmounted
    /\ drain' = [drain EXCEPT ![h] = mounted[h]]
    /\ UNCHANGED <<store, nextSequence, issued, up, mounted, work, faults>>

\* Variant: settled deliveries are waited for too.
DrainDoneAll(h) ==
    /\ drain[h] # Unmounted
    /\ \A d \in Ids : Exists(d) => RevisionOf[d] # drain[h]
    /\ drain' = [drain EXCEPT ![h] = Unmounted]
    /\ UNCHANGED <<store, nextSequence, issued, up, mounted, work, faults>>

DrainDone(h) ==
    /\ drain[h] # Unmounted
    /\ \A d \in Ids : Exists(d) /\ RevisionOf[d] = drain[h] => Terminal(d)
    /\ drain' = [drain EXCEPT ![h] = Unmounted]
    /\ UNCHANGED <<store, nextSequence, issued, up, mounted, work, faults>>

Fault == faults < MaxFaults /\ faults' = faults + 1

\* The first mount of a plugin with subscribers starts the workers of a runtime:
\* the subscriber in revision r, or only others (Unmounted).
Mount(h, r) ==
    /\ up[h] = "starting"
    /\ up' = [up EXCEPT ![h] = "up"]
    /\ mounted' = [mounted EXCEPT ![h] = r]
    /\ UNCHANGED <<store, nextSequence, issued, work, drain, faults>>

\* Another revision is mounted, or the subscriber is unmounted.  The workers run on.
Remount(h, r) ==
    /\ Fault /\ up[h] = "up" /\ h \notin Servers /\ r # mounted[h]
    /\ mounted' = [mounted EXCEPT ![h] = r]
    /\ UNCHANGED <<store, nextSequence, issued, up, work, drain>>

\* startClose first closes the runtime and unpublishes its plugins (a runtime
\* without workers has nothing that could run before it cancels them) ...
CloseRuntime(h) ==
    /\ Fault /\ up[h] \in {"starting", "up"} /\ h \notin Servers
    /\ up' = [up EXCEPT ![h] = IF up[h] = "up" THEN "closed" ELSE "closing"]
    /\ mounted' = [mounted EXCEPT ![h] = Unmounted]
    /\ UNCHANGED <<store, nextSequence, issued, work, drain>>

\* ... and then cancels the worker context; a plugin server only cancels it.
CancelWorkers(h) ==
    /\ \/ up[h] = "closed" /\ UNCHANGED faults
       \/ up[h] = "up" /\ h \in Servers /\ Fault
    /\ up' = [up EXCEPT ![h] = "closing"]
    /\ UNCHANGED <<store, nextSequence, issued, mounted, work, drain>>

Gone(h) ==
    /\ up' = [up EXCEPT ![h] = "down"]
    /\ mounted' = [mounted EXCEPT ![h] = Unmounted]
    /\ drain' = [drain EXCEPT ![h] = Unmounted]
    /\ work' = [work EXCEPT ![h] = [k \in Slots |-> Idle]]
    /\ UNCHANGED <<store, nextSequence, issued>>

\* Variant: Close does not wait for the workers.
StoppedEarly(h) == Cancelled(h) /\ Gone(h) /\ UNCHANGED faults

\* Close waits for every worker to have returned.
Stopped(h) ==
    /\ Cancelled(h) /\ \A k \in Slots : work[h][k] = Idle
    /\ Gone(h) /\ UNCHANGED faults

Crash(h) == Crashes /\ Fault /\ up[h] # "down" /\ Gone(h)

\* A plugin server starts its inbox workers with the process.  A new runtime has
\* nothing mounted and no workers.
Restart(h, r) ==
    /\ up[h] = "down" /\ (h \in Servers <=> r # Unmounted)
    /\ up' = [up EXCEPT ![h] = IF h \in Servers THEN "up" ELSE "starting"]
    /\ mounted' = [mounted EXCEPT ![h] = r]
    /\ UNCHANGED <<store, nextSequence, issued, work, drain, faults>>

Aged(r) == [r EXCEPT !.timer = Less(@)]
AgedWorker(w) == IF w = Idle THEN w ELSE [w EXCEPT !.timer = Less(@)]

\* What a timely worker does between two store calls takes no time, and its
\* subscriber call ends when its context does.  Nor does startClose take time
\* between closing the runtime and cancelling the worker context.
OnTime(w) == w = Idle \/ (w.pc = "receive" /\ w.timer > 0)

TimersRun == \E d \in Ids : store[d].timer > 0

Advance ==
    /\ Timely => \A h \in Hosts :
          up[h] # "closed" /\ \A k \in Slots : OnTime(work[h][k])
    /\ store' = [d \in Ids |-> Aged(store[d])]
    /\ work' = [h \in Hosts |-> [k \in Slots |-> AgedWorker(work[h][k])]]
    /\ UNCHANGED <<nextSequence, issued, hostVars>>

Tick == TimersRun /\ Advance

-------------------------------------------------------------------------------
Init ==
    /\ store = [d \in Ids |-> Blank("absent", 0)] /\ nextSequence = 0
    /\ issued = [d \in Ids |-> 0]
    /\ up = [h \in Hosts |-> "down"]
    /\ mounted = [h \in Hosts |-> Unmounted]
    /\ drain = [h \in Hosts |-> Unmounted]
    /\ work = [h \in Hosts |-> [k \in Slots |-> Idle]]
    /\ faults = 0

WorkerNext(h, k) ==
    \/ Lease(h, k) \/ Resolve(h, k) \/ Settle(h, k) \/ SettleFault(h, k)
    \/ \E res \in {"ok", "error"} : Receive(h, k, res)

HostNext(h) ==
    \/ DrainStart(h) \/ DrainDone(h)
    \/ CloseRuntime(h) \/ CancelWorkers(h) \/ Stopped(h) \/ Crash(h)
    \/ \E r \in Revisions \cup {Unmounted} : Mount(h, r) \/ Remount(h, r) \/ Restart(h, r)

Next ==
    \/ \E S \in SUBSET Ids : Enqueue(S) \/ PurgeTerminal(S)
    \/ \E h \in Hosts, k \in Slots : WorkerNext(h, k)
    \/ \E h \in Hosts : HostNext(h)
    \/ Tick

Spec == Init /\ [][Next]_vars

\* Goroutines are scheduled, subscriber calls end with their context, time
\* passes, a closing host finishes closing, a poll loop polls again and a host
\* that is down is started again.  Nothing obliges a runtime to mount a plugin.
Fairness ==
    /\ \A h \in Hosts, k \in Slots :
          /\ WF_vars(Lease(h, k)) /\ WF_vars(Resolve(h, k))
          /\ WF_vars(\E res \in {"ok", "error"} : Receive(h, k, res))
          /\ WF_vars(Settle(h, k) \/ SettleFault(h, k))
    /\ \A h \in Hosts :
          /\ WF_vars(up[h] = "closed" /\ CancelWorkers(h)) /\ WF_vars(Stopped(h))
          /\ WF_vars(DrainDone(h))
          /\ WF_vars(\E r \in Revisions \cup {Unmounted} : Restart(h, r))
    /\ WF_vars(Tick)

FairSpec == Spec /\ Fairness

-------------------------------------------------------------------------------
(***************************************************************************)
(* Properties.                                                             *)
(***************************************************************************)

\* Every variable has its type.
TypeOK ==
    /\ store \in [Ids -> Record] /\ nextSequence \in Nat /\ issued \in [Ids -> Nat]
    /\ up \in [Hosts -> HostStates]
    /\ mounted \in [Hosts -> Revisions \cup {Unmounted}]
    /\ drain \in [Hosts -> Revisions \cup {Unmounted}]
    /\ work \in [Hosts -> [Slots -> Worker]] /\ faults \in Nat

\* "Ordering is preserved per trajectory": Lease gives out only the head of a
\* partition, so no delivery is attempted before every delivery enqueued before
\* it in its partition is settled, through retries, expired leases, duplicate
\* enqueues and purges.
PartitionOrder ==
    \A d, e \in Ids : Before(d, e) /\ store[e].attempt > 0 => Terminal(d)

\* "The timeout-below-lease invariant is the concurrency fence": while
\* subscribers respect their timeout, no two workers of any host are in the
\* subscriber with deliveries of one partition at the same time.
SerialPartition ==
    Timely => \A h, g \in Hosts, k, l \in Slots :
        /\ work[h][k].pc = "receive" /\ work[g][l].pc = "receive"
        /\ PartitionOf[work[h][k].id] = PartitionOf[work[g][l].id]
        => <<h, k>> = <<g, l>>

\* Processing is at least once: a delivery is marked delivered only after a
\* subscriber call for it returned nil, whatever late workers settle.
DeliveredWasReceived ==
    \A d \in Ids : store[d].state = "delivered" => store[d].received

\* FinishLease fences late workers: from the moment a worker leases a delivery
\* until it settles it or a newer lease is given out, nobody else changes the
\* delivery, however late the holders of earlier leases try to settle it.
LeaseFence ==
    \A h \in Hosts, k \in Slots :
        LET w == work[h][k] IN
        Busy(h, k) /\ w.token = issued[w.id] => Holds(w.id, w.token)

\* waitDurableStopped and releaseCancelled: unless its host crashes or its store
\* call fails, a worker never leaves a lease it holds behind, shutdown included.
NoLeaseAbandoned ==
    [][faults' = faults => \A h \in Hosts, k \in Slots :
          LET w == work[h][k] IN
          Busy(h, k) /\ Holds(w.id, w.token) /\ work'[h][k] = Idle
              => store'[w.id].state # "leased" \/ store'[w.id].token # w.token]_vars

\* Sequence numbers identify the stored deliveries.
Sequenced ==
    /\ \A d \in Ids : Exists(d) => store[d].sequence <= nextSequence
    /\ \A d, e \in Ids :
          Exists(d) /\ Exists(e) /\ store[d].sequence = store[e].sequence => d = e

\* A lease bears the newest token of its delivery, and no two workers have the
\* same token of one delivery.
TokensIssued ==
    /\ \A d \in Ids : store[d].state = "leased" =>
          store[d].token = issued[d] /\ store[d].attempt > 0
    /\ \A h \in Hosts, k \in Slots : Busy(h, k) =>
          work[h][k].token <= issued[work[h][k].id]
    /\ \A h, g \in Hosts, k, l \in Slots :
          /\ Busy(h, k) /\ Busy(g, l) /\ work[h][k].id = work[g][l].id
          /\ work[h][k].token = work[g][l].token
          => h = g /\ k = l

\* A timely worker holds its lease until the subscriber call is over: what is
\* left of the lease exceeds what is left of the call.
OnLease ==
    Timely => \A h \in Hosts, k \in Slots :
        LET w == work[h][k] IN
        /\ w.pc = "resolve" =>
              Holds(w.id, w.token) /\ store[w.id].timer = LeaseTime
        /\ w.pc = "receive" =>
              Holds(w.id, w.token) /\ w.timer + LeaseTime <= store[w.id].timer + Timeout

\* A worker that will acknowledge the delivery it holds has had it received.
Receipts ==
    \A h \in Hosts, k \in Slots :
        LET w == work[h][k] IN
        w.pc = "settle" /\ w.result = "ok" /\ Holds(w.id, w.token)
            => store[w.id].received

\* What the order, fence and receipt properties rest on: sequence numbers are
\* unique and ordered as leased, tokens are unique and the newest one alone is a
\* lease, timely workers hold theirs.  Together it is inductive.
LeaseInvariant ==
    /\ Sequenced /\ PartitionOrder
    /\ TokensIssued /\ LeaseFence /\ OnLease
    /\ Receipts /\ DeliveredWasReceived

\* Retries end: whatever the subscriber returns, whoever crashes and whether or
\* not the subscriber is mounted where the workers run, every delivery is settled
\* in the end, unless no process runs workers at all: after a restart they start
\* with the first plugin that has subscribers, and until then nothing is leased.
EverySettles ==
    \A d \in Ids : store[d].state \in {"pending", "leased"} ~>
        (~Exists(d) \/ Terminal(d) \/ \A h \in Hosts : up[h] = "starting")

\* DrainDeliveries returns.
DrainReturns ==
    \A h \in Hosts : drain[h] # Unmounted ~> drain[h] = Unmounted

=============================================================================
