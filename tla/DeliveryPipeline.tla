--------------------------- MODULE DeliveryPipeline ---------------------------
(***************************************************************************)
(* From the subscriber outbox of the runtimes to the inbox of a standalone *)
(* plugin server and its subscriber.  The subscriber the outbox workers    *)
(* call is remoteSubscriber (pluginrpc/client.go), whose Receive is the    *)
(* Deliver call; the server stores the delivery in its inbox before it     *)
(* answers, and its own workers hand it to the plugin's subscriber.        *)
(*                                                                         *)
(* The network may lose a request or its answer, and may hand a request to *)
(* the server long after the caller gave it up.                            *)
(***************************************************************************)
EXTENDS Integers, FiniteSets

CONSTANTS
    Ids, PartitionOf, RevisionOf, Revisions, Unmounted,
    Runtimes,       \* processes whose workers empty the outbox
    PluginServers,  \* processes that serve the plugin and share its inbox
    Slots, LeaseTime, Timeout, Poll, MaxRetryDelay, MaxAttempts, Timely,
    StoreFaults, Crashes, MaxSequence, MaxLeases, MaxFaults

ASSUME PipelineAssumption ==
    /\ IsFiniteSet(Ids) /\ PartitionOf = [d \in Ids |-> PartitionOf[d]]
    /\ RevisionOf \in [Ids -> Revisions] /\ Unmounted \notin Revisions
    /\ LeaseTime \in Nat /\ Timeout \in Nat /\ Timeout < LeaseTime
    /\ Poll \in Nat /\ MaxRetryDelay \in Nat /\ MaxAttempts \in Nat \ {0}
    /\ MaxSequence \in Nat /\ MaxLeases \in Nat /\ MaxFaults \in Nat
    /\ {Timely, StoreFaults, Crashes} \subseteq BOOLEAN

VARIABLES
    outStore, outSequence, outIssued, outUp, outMounted, outWork, outDrain,
    outFaults,
    inStore, inSequence, inIssued, inUp, inMounted, inWork, inDrain, inFaults,
    calls           \* Deliver calls that were sent and not yet finished

outVars == <<outStore, outSequence, outIssued, outUp, outMounted, outWork,
             outDrain, outFaults>>
inVars == <<inStore, inSequence, inIssued, inUp, inMounted, inWork, inDrain,
            inFaults>>
vars == <<outVars, inVars, calls>>

Out == INSTANCE Deliveries WITH
    Hosts <- Runtimes, Servers <- {}, store <- outStore,
    nextSequence <- outSequence, issued <- outIssued, up <- outUp,
    mounted <- outMounted, work <- outWork, drain <- outDrain,
    faults <- outFaults

In == INSTANCE Deliveries WITH
    Hosts <- PluginServers, Servers <- PluginServers, store <- inStore,
    nextSequence <- inSequence, issued <- inIssued, up <- inUp,
    mounted <- inMounted, work <- inWork, drain <- inDrain, faults <- inFaults

\* The call of a worker: calls are told apart by the lease they run under.
CallOf(w) == [id |-> w.id, token |-> w.token, accepted |-> FALSE]

Waiting(c) ==
    \E h \in Runtimes, k \in Slots :
        LET w == outWork[h][k] IN
        w.pc = "receive" /\ w.id = c.id /\ w.token = c.token

-------------------------------------------------------------------------------
Publish(S) == Out!Enqueue(S) /\ UNCHANGED <<inVars, calls>>

\* handleSubscriberDelivery resolves the mounted remote subscriber and calls it.
ResolveAndCall(h, k) ==
    /\ Out!Resolve(h, k)
    /\ calls' = IF outWork'[h][k].pc = "receive"
                THEN calls \cup {CallOf(outWork[h][k])} ELSE calls
    /\ UNCHANGED inVars

\* Variant: the answer does not wait for the inbox to have stored the delivery.
DeliverEarly(s, c) ==
    LET accepted == inMounted[s] = RevisionOf[c.id]
        answer   == IF accepted /\ Waiting(c) THEN {[c EXCEPT !.accepted = TRUE]} ELSE {}
    IN  /\ inUp[s] = "up" /\ c \in calls /\ ~c.accepted
        /\ calls' = (calls \ {c}) \cup answer
        /\ UNCHANGED <<outVars, inVars>>

\* Variant: a delivery the inbox already has is queued again behind the others.
DeliverRequeue(s, c) ==
    LET accepted == inMounted[s] = RevisionOf[c.id]
        answer   == IF accepted /\ Waiting(c) THEN {[c EXCEPT !.accepted = TRUE]} ELSE {}
    IN  /\ inUp[s] = "up" /\ c \in calls /\ ~c.accepted /\ accepted
        /\ calls' = (calls \ {c}) \cup answer
        /\ inSequence' = inSequence + 1
        /\ inStore' = [inStore EXCEPT ![c.id] = In!Blank("pending", inSequence + 1)]
        /\ UNCHANGED <<inIssued, inUp, inMounted, inWork, inDrain, inFaults, outVars>>

\* The handler of Deliver: it refuses a delivery that is not addressed to what
\* the server runs, stores the others (a delivery it already has is left as it
\* is) and then answers.
Deliver(s, c) ==
    LET accepted == inMounted[s] = RevisionOf[c.id]
        answer   == IF accepted /\ Waiting(c) THEN {[c EXCEPT !.accepted = TRUE]} ELSE {}
    IN  /\ inUp[s] = "up" /\ c \in calls /\ ~c.accepted
        /\ calls' = (calls \ {c}) \cup answer
        /\ IF accepted /\ ~In!Exists(c.id) THEN In!Enqueue({c.id})
           ELSE UNCHANGED inVars
        /\ UNCHANGED outVars

\* The network loses a request.
Lose(c) ==
    /\ c \in calls /\ ~c.accepted
    /\ calls' = calls \ {c}
    /\ UNCHANGED <<outVars, inVars>>

\* The call returns to the worker: nil when the server's answer arrives; an
\* error, the deadline or a broken connection, whatever the server did.
CallReturns(h, k, res) ==
    LET c        == CallOf(outWork[h][k])
        accepted == [c EXCEPT !.accepted = TRUE]
    IN  /\ Out!Receive(h, k, res)
        /\ res = "ok" => accepted \in calls
        /\ calls' = calls \ {accepted}
        /\ UNCHANGED inVars

OutboxWorker(h, k) ==
    /\ Out!Lease(h, k) \/ Out!Settle(h, k) \/ Out!SettleFault(h, k)
    /\ UNCHANGED <<inVars, calls>>

InboxWorker(s, k) == In!WorkerNext(s, k) /\ UNCHANGED <<outVars, calls>>

\* A call whose caller is gone can still be handled, but its answer is dropped.
RuntimeStep(h) ==
    /\ \/ Out!CloseRuntime(h) \/ Out!CancelWorkers(h) \/ Out!Stopped(h)
       \/ Out!Crash(h)
       \/ \E r \in Revisions \cup {Unmounted} : Out!Restart(h, r) \/ Out!Mount(h, r)
    /\ calls' = {c \in calls : c.accepted => Waiting(c)'}
    /\ UNCHANGED inVars

ServerStep(s) ==
    /\ \/ In!CancelWorkers(s) \/ In!Stopped(s) \/ In!Crash(s)
       \/ \E r \in Revisions : In!Restart(s, r)
    /\ UNCHANGED <<outVars, calls>>

Tick ==
    /\ Out!TimersRun \/ In!TimersRun
    /\ Out!Advance /\ In!Advance /\ UNCHANGED calls

Init == Out!Init /\ In!Init /\ calls = {}

Next ==
    \/ \E S \in SUBSET Ids : Publish(S)
    \/ \E h \in Runtimes, k \in Slots :
          \/ OutboxWorker(h, k) \/ ResolveAndCall(h, k)
          \/ \E res \in {"ok", "error"} : CallReturns(h, k, res)
    \/ \E s \in PluginServers, c \in calls : Deliver(s, c)
    \/ \E c \in calls : Lose(c)
    \/ \E s \in PluginServers, k \in Slots : InboxWorker(s, k)
    \/ \E h \in Runtimes : RuntimeStep(h)
    \/ \E s \in PluginServers : ServerStep(s)
    \/ Tick

Spec == Init /\ [][Next]_vars

-------------------------------------------------------------------------------
(***************************************************************************)
(* Properties.                                                             *)
(***************************************************************************)

\* Deliver answers after Enqueue, so an outbox record that is marked delivered
\* is in the inbox: no delivery is lost between the two queues.
NothingLost ==
    \A d \in Ids : outStore[d].state = "delivered" => In!Exists(d)

\* Order is kept end to end: when the outbox delivered d before it attempted e of
\* the same partition, the plugin's subscriber is never called with e before d is
\* settled in the inbox, whatever late or repeated calls the server handles.
EndToEndOrder ==
    \A d, e \in Ids :
        /\ Out!Before(d, e) /\ outStore[d].state = "delivered"
        /\ In!Exists(e) /\ inStore[e].attempt > 0
        => In!Terminal(d)

=============================================================================
