------------------------ MODULE DeliveryPipelineProofs ------------------------
(***************************************************************************)
(* That no delivery is lost between the outbox and the inbox, and that the *)
(* two keep the order of a partition.  Each queue is one of Deliveries, so *)
(* what DeliveriesProofs proves of a queue holds of both.                  *)
(***************************************************************************)
EXTENDS DeliveryPipeline, TLAPS

-------------------------------------------------------------------------------
(***************************************************************************)
(* Two queues of which one fills the other.                                *)
(***************************************************************************)

\* The deliveries of a queue are numbered up to n.
Numbered(st, n) ==
    /\ n \in Nat
    /\ \A d \in Ids : /\ st[d].sequence \in Nat
                      /\ st[d].state # "absent" => st[d].sequence <= n

\* A step of a queue leaves its deliveries at their places and adds others behind
\* them; what is settled remains so.
Grows(st, n, st2) ==
    \A d \in Ids :
        /\ st2[d].sequence \in Nat
        /\ st[d].state # "absent" =>
              /\ st2[d].state # "absent" /\ st2[d].sequence = st[d].sequence
              /\ st[d].state \in {"delivered", "dead"} => st2[d].state = st[d].state
        /\ st[d].state = "absent" /\ st2[d].state # "absent" => st2[d].sequence > n

\* What precedes a delivery preceded it before the step.
LEMMA Places ==
    ASSUME NEW st, NEW st2, NEW n, Numbered(st, n), Grows(st, n, st2),
           NEW d \in Ids, NEW e \in Ids, st[e].state # "absent",
           st2[d].state # "absent", st2[d].sequence < st2[e].sequence
    PROVE  st[d].state # "absent" /\ st[d].sequence < st[e].sequence
<1>1. /\ n \in Nat /\ st[e].sequence \in Nat /\ st[e].sequence <= n
      /\ st2[d].sequence \in Nat /\ st2[e].sequence = st[e].sequence
  BY Zenon DEF Numbered, Grows
<1>2. ~(st2[d].sequence > n)
  BY <1>1
<1>3. st[d].state # "absent"
  BY Zenon, <1>2 DEF Grows
<1>4. st2[d].sequence = st[d].sequence
  BY Zenon, <1>3 DEF Grows
<1> QED BY Zenon, <1>1, <1>3, <1>4

\* What a step adds comes behind what was there.
LEMMA Behind ==
    ASSUME NEW st, NEW st2, NEW n, Numbered(st, n), Grows(st, n, st2),
           NEW d \in Ids, NEW e \in Ids, st[d].state # "absent",
           st[e].state = "absent", st2[e].state # "absent"
    PROVE  st2[d].sequence < st2[e].sequence
<1>1. /\ n \in Nat /\ st[d].sequence \in Nat /\ st[d].sequence <= n
      /\ st2[e].sequence \in Nat /\ st2[e].sequence > n
      /\ st2[d].sequence = st[d].sequence
  BY Zenon DEF Numbered, Grows
<1> QED BY <1>1

\* The outbox has come to the delivery: it has it, and has settled what
\* precedes it in its partition.
Reached(e) ==
    /\ Out!Exists(e)
    /\ \A d \in Ids : Out!Before(d, e) => Out!Terminal(d)

\* A worker of the outbox works on such a delivery, and has "ok" for a result only
\* when the inbox has the delivery.
Worked(w) ==
    w.pc # "idle" =>
        /\ w.id \in Ids /\ Reached(w.id)
        /\ w.pc = "settle" /\ w.result = "ok" => In!Exists(w.id)

\* So does a Deliver call, which the server has accepted only then.
Called(c) ==
    /\ c \in [id : Ids, token : Nat, accepted : BOOLEAN]
    /\ Reached(c.id) /\ (c.accepted => In!Exists(c.id))

\* The inbox has deliveries the outbox attempted, and has them in the order of
\* the outbox.
Arrived == \A e \in Ids : In!Exists(e) => Reached(e)

SameOrder ==
    \A d, e \in Ids :
        Out!Before(d, e) /\ outStore[d].state = "delivered" /\ In!Exists(e) =>
            inStore[d].sequence < inStore[e].sequence

\* The part of the invariant that relates the two queues.
Related ==
    /\ \A h \in Runtimes, k \in Slots : Worked(outWork[h][k])
    /\ \A c \in calls : Called(c)
    /\ Arrived /\ NothingLost /\ SameOrder

\* What every step does, in terms of the state before it.
Moved ==
    /\ Grows(outStore, outSequence, outStore')
    /\ Grows(inStore, inSequence, inStore')
    /\ \A h \in Runtimes, k \in Slots : Worked(outWork'[h][k])
    /\ \A c \in calls' : /\ c \in [id : Ids, token : Nat, accepted : BOOLEAN]
                         /\ Reached(c.id) /\ (c.accepted => inStore'[c.id].state # "absent")
    /\ \A e \in Ids : inStore'[e].state # "absent" => In!Exists(e) \/ Reached(e)
    /\ \A d \in Ids : outStore'[d].state = "delivered" =>
          outStore[d].state = "delivered" \/ In!Exists(d)

\* An attempted delivery remains one.
LEMMA ReachedStays ==
    ASSUME Numbered(outStore, outSequence), Grows(outStore, outSequence, outStore'),
           NEW e \in Ids, Reached(e)
    PROVE  Reached(e)'
<1>1. outStore[e].state # "absent" /\ outStore'[e].state # "absent"
  BY Zenon DEF Reached, Out!Exists, Grows
<1>2. ASSUME NEW d \in Ids, Out!Before(d, e)'
      PROVE  Out!Terminal(d)'
  <2>1. /\ outStore'[d].state # "absent" /\ PartitionOf[d] = PartitionOf[e]
        /\ outStore'[d].sequence < outStore'[e].sequence
    BY Zenon, <1>2 DEF Out!Before, Out!Exists
  <2>2. outStore[d].state # "absent" /\ outStore[d].sequence < outStore[e].sequence
    BY Zenon, <1>1, <2>1, Places
  <2>3. Out!Terminal(d)
    BY Zenon, <1>1, <2>1, <2>2 DEF Reached, Out!Before, Out!Exists
  <2> QED BY Zenon, <2>2, <2>3 DEF Out!Terminal, Out!Settled, Grows
<1> QED BY Zenon, <1>1, <1>2 DEF Reached, Out!Exists

\* Every step keeps that part.
LEMMA RelatedStep ==
    ASSUME Numbered(outStore, outSequence), Numbered(inStore, inSequence),
           Related, Moved
    PROVE  Related'
<1>o. Grows(outStore, outSequence, outStore') /\ Grows(inStore, inSequence, inStore')
  BY Zenon DEF Moved
<1>r. ASSUME NEW e \in Ids, Reached(e)
      PROVE  Reached(e)'
  BY Zenon, <1>o, <1>r, ReachedStays
<1>i. ASSUME NEW e \in Ids, In!Exists(e)
      PROVE  In!Exists(e)'
  BY Zenon, <1>o, <1>i DEF Grows, In!Exists
<1>1. ASSUME NEW h \in Runtimes, NEW k \in Slots
      PROVE  Worked(outWork[h][k])'
  <2>1. Worked(outWork'[h][k])
    BY Zenon DEF Moved
  <2> QED BY Zenon, <1>r, <1>i, <2>1 DEF Worked
<1>2. ASSUME NEW c \in calls'
      PROVE  Called(c)'
  <2>1. /\ c \in [id : Ids, token : Nat, accepted : BOOLEAN]
        /\ Reached(c.id) /\ (c.accepted => In!Exists(c.id)')
    BY Zenon, <1>2 DEF Moved, In!Exists
  <2>2. c.id \in Ids
    BY <2>1
  <2> QED BY Zenon, <1>r, <2>1, <2>2 DEF Called
<1>3. ASSUME NEW e \in Ids, In!Exists(e)'
      PROVE  Reached(e) /\ Reached(e)'
  BY Zenon, <1>3, <1>r DEF Moved, Related, Arrived, In!Exists
<1>4. NothingLost'
  BY Zenon, <1>i DEF Moved, Related, NothingLost
<1>5. ASSUME NEW d \in Ids, NEW e \in Ids, Out!Before(d, e)',
             outStore'[d].state = "delivered", In!Exists(e)'
      PROVE  inStore'[d].sequence < inStore'[e].sequence
  <2>1. /\ outStore'[d].state # "absent" /\ PartitionOf[d] = PartitionOf[e]
        /\ outStore'[d].sequence < outStore'[e].sequence
    BY Zenon, <1>5 DEF Out!Before, Out!Exists
  <2>2. outStore[e].state # "absent"
    BY Zenon, <1>3, <1>5 DEF Reached, Out!Exists
  <2>3. outStore[d].state # "absent" /\ outStore[d].sequence < outStore[e].sequence
    BY Zenon, <1>o, <2>1, <2>2, Places
  <2>4. Out!Before(d, e)
    BY Zenon, <2>1, <2>2, <2>3 DEF Out!Before, Out!Exists
  <2>5. outStore[d].state = "delivered"
    BY Zenon, <1>o, <1>3, <1>5, <2>3, <2>4 DEF Reached, Out!Terminal, Out!Settled, Grows
  <2>6. inStore[d].state # "absent"
    BY Zenon, <2>5 DEF Related, NothingLost, In!Exists
  <2>7. CASE In!Exists(e)
    <3>1. inStore[d].sequence < inStore[e].sequence
      BY Zenon, <2>4, <2>5, <2>7 DEF Related, SameOrder
    <3> QED BY Zenon, <1>o, <2>6, <2>7, <3>1 DEF Grows, In!Exists
  <2>8. CASE ~In!Exists(e)
    BY Zenon, <1>o, <1>5, <2>6, <2>8, Behind DEF In!Exists
  <2> QED BY Zenon, <2>7, <2>8
<1> QED BY Zenon, <1>1, <1>2, <1>3, <1>4, <1>5 DEF Related, Arrived, SameOrder

-------------------------------------------------------------------------------
(***************************************************************************)
(* What the steps do to the workers, the calls and the queues.             *)
(***************************************************************************)

\* The types of a queue that these lemmas use.
OutTypes == /\ outStore \in [Ids -> Out!Record]
            /\ outWork \in [Runtimes -> [Slots -> Out!Worker]]
InTypes == inStore \in [Ids -> In!Record]

\* The outbox keeps its deliveries, and its workers work on attempted ones.
OutMoved ==
    /\ \A h \in Runtimes, k \in Slots : Worked(outWork'[h][k])
    /\ \A d \in Ids : outStore'[d].state = "delivered" =>
          outStore[d].state = "delivered" \/ In!Exists(d)

\* The inbox gets no delivery.
InMoved == \A e \in Ids : inStore'[e].state # "absent" => In!Exists(e)

\* A step of one worker.
LEMMA OneWorker ==
    ASSUME OutTypes, Related, NEW h \in Runtimes, NEW k \in Slots, NEW v,
           outWork' = [outWork EXCEPT ![h][k] = v], Worked(v)
    PROVE  \A g \in Runtimes, l \in Slots : Worked(outWork'[g][l])
<1>1. ASSUME NEW g \in Runtimes, NEW l \in Slots
      PROVE  outWork'[g][l] = outWork[g][l] \/ outWork'[g][l] = v
  BY Zenon DEF OutTypes
<1> QED BY Zenon, <1>1 DEF Related

\* An idle worker has no delivery.
LEMMA IdleWorked == Worked(Out!Idle)
  BY DEF Worked, Out!Idle

\* The deliveries that are published are pending.
LEMMA PublishMoved ==
    ASSUME OutTypes, Related, NEW S \in SUBSET Ids, Out!Enqueue(S)
    PROVE  OutMoved
<1>1. outWork' = outWork
  BY Zenon DEF Out!Enqueue
<1>2. \A n : Out!Blank("pending", n).state # "delivered"
  BY DEF Out!Blank
<1>3. ASSUME NEW d \in Ids
      PROVE  outStore'[d] = outStore[d] \/ \E n : outStore'[d] = Out!Blank("pending", n)
  BY Zenon DEF Out!Enqueue
<1> QED BY Zenon, <1>1, <1>2, <1>3 DEF OutMoved, Related

\* A worker leases a delivery once what precedes it is settled.
LEMMA LeaseMoved ==
    ASSUME OutTypes, Related, NEW h \in Runtimes, NEW k \in Slots, Out!Lease(h, k)
    PROVE  OutMoved
<1>1. PICK d \in Ids :
        /\ Out!Candidate(d)
        /\ outStore' = [outStore EXCEPT ![d] = Out!Leased(@, outIssued[d] + 1)]
        /\ outWork' = [outWork EXCEPT ![h][k] = Out!Job(d)]
  BY Zenon DEF Out!Lease
<1>2. Reached(d)
  BY Zenon, <1>1 DEF Out!Candidate, Out!IsHead, Reached
<1>3. /\ Out!Job(d).pc = "resolve" /\ Out!Job(d).id = d
  BY DEF Out!Job
<1>4. Worked(Out!Job(d))
  BY Zenon, <1>2, <1>3 DEF Worked
<1>5. outStore[d] \in Out!Record /\ outStore'[d] = Out!Leased(outStore[d], outIssued[d] + 1)
  BY Zenon, <1>1 DEF OutTypes
<1>6. outStore'[d].state = "leased"
  BY <1>5 DEF Out!Leased, Out!Record
<1>7. \A e \in Ids : e # d => outStore'[e] = outStore[e]
  BY Zenon, <1>1 DEF OutTypes
<1> QED BY Zenon, <1>1, <1>4, <1>6, <1>7, OneWorker DEF OutMoved

\* Settle marks a delivery delivered after "ok" only.
LEMMA SettleMoved ==
    ASSUME OutTypes, Related, NEW h \in Runtimes, NEW k \in Slots, Out!Settle(h, k)
    PROVE  OutMoved
<1> DEFINE w == outWork[h][k]
<1>1. /\ w.pc = "settle" /\ outWork' = [outWork EXCEPT ![h][k] = Out!Idle]
      /\ \/ outStore' = outStore
         \/ outStore' = [outStore EXCEPT ![w.id] = Out!Settling(h, w)]
  BY Zenon DEF Out!Settle
<1>2. w.pc # "idle" /\ Worked(w)
  BY Zenon, <1>1 DEF Related
<1>3. w.id \in Ids /\ (w.result = "ok" => In!Exists(w.id))
  BY Zenon, <1>1, <1>2 DEF Worked
<1>4. outStore[w.id] \in Out!Record
  BY Zenon, <1>3 DEF OutTypes
<1>5. Out!Settling(h, w).state = Out!Verdict(h, w)
  BY <1>4 DEF Out!Settling, Out!FinishLease, Out!Record
<1>6. Out!Verdict(h, w) = "delivered" => w.result = "ok"
  BY DEF Out!Verdict
<1>7. ASSUME NEW d \in Ids
      PROVE  outStore'[d] = outStore[d] \/ (d = w.id /\ outStore'[d] = Out!Settling(h, w))
  BY Zenon, <1>1, <1>3 DEF OutTypes
<1>8. \A g \in Runtimes, l \in Slots : Worked(outWork'[g][l])
  BY Zenon, <1>1, IdleWorked, OneWorker
<1> QED BY Zenon, <1>3, <1>5, <1>6, <1>7, <1>8 DEF OutMoved

\* A store call that fails changes the worker only.
LEMMA SettleFaultMoved ==
    ASSUME OutTypes, Related, NEW h \in Runtimes, NEW k \in Slots, Out!SettleFault(h, k)
    PROVE  OutMoved
<1>1. outStore' = outStore /\ outWork' = [outWork EXCEPT ![h][k] = Out!Idle]
  BY Zenon DEF Out!SettleFault
<1> QED BY Zenon, <1>1, IdleWorked, OneWorker DEF OutMoved

\* Resolve does not end with "ok".
LEMMA ResolveMoved ==
    ASSUME OutTypes, Related, NEW h \in Runtimes, NEW k \in Slots, Out!Resolve(h, k)
    PROVE  OutMoved /\ Worked(outWork[h][k]) /\ outWork[h][k].pc = "resolve"
<1> DEFINE w == outWork[h][k]
<1>1. w.pc = "resolve" /\ outStore' = outStore
  BY Zenon DEF Out!Resolve
<1>2. w \in Out!BusyWorker
  BY <1>1 DEF OutTypes, Out!Worker, Out!Idle
<1>3. PICK v \in {Out!Receiving(w), Out!Returned(w, "closed"), Out!Returned(w, "error"),
                  Out!Returned(w, "permanent")} : outWork' = [outWork EXCEPT ![h][k] = v]
  BY Zenon DEF Out!Resolve
<1>4. v.id = w.id /\ ~(v.pc = "settle" /\ v.result = "ok")
  BY <1>2, <1>3 DEF Out!Receiving, Out!Returned, Out!BusyWorker
<1>5. Worked(w) /\ w.pc # "idle"
  BY Zenon, <1>1 DEF Related
<1>6. Worked(v)
  BY Zenon, <1>4, <1>5 DEF Worked
<1> QED BY Zenon, <1>1, <1>3, <1>5, <1>6, OneWorker DEF OutMoved

\* A call returns "ok" when the server has the delivery.
LEMMA ReceiveMoved ==
    ASSUME OutTypes, Related, NEW h \in Runtimes, NEW k \in Slots, NEW res,
           Out!Receive(h, k, res), res = "ok" => In!Exists(outWork[h][k].id)
    PROVE  OutMoved
<1> DEFINE w == outWork[h][k]
<1>1. /\ w.pc = "receive" /\ res \in {"ok", "error"}
      /\ outWork' = [outWork EXCEPT ![h][k] = Out!Returned(w, res)]
      /\ \/ outStore' = outStore
         \/ outStore' = [outStore EXCEPT ![w.id] = Out!Noted(@)]
  BY Zenon DEF Out!Receive
<1>2. w \in Out!BusyWorker
  BY <1>1 DEF OutTypes, Out!Worker, Out!Idle
<1>3. Out!Returned(w, res).id = w.id /\ Out!Returned(w, res).result = res
  BY <1>2 DEF Out!Returned, Out!BusyWorker
<1>4. Worked(w) /\ w.pc # "idle"
  BY Zenon, <1>1 DEF Related
<1>5. Worked(Out!Returned(w, res))
  BY Zenon, <1>3, <1>4 DEF Worked
<1>6. \A g \in Runtimes, l \in Slots : Worked(outWork'[g][l])
  BY Zenon, <1>1, <1>5, OneWorker
<1>7. \A r \in Out!Record : Out!Noted(r).state = r.state
  BY DEF Out!Noted, Out!Record
<1>8. ASSUME NEW d \in Ids
      PROVE  outStore'[d] = outStore[d] \/ outStore'[d] = Out!Noted(outStore[d])
  BY Zenon, <1>1 DEF OutTypes
<1>9. \A d \in Ids : outStore'[d].state = outStore[d].state
  BY Zenon, <1>7, <1>8 DEF OutTypes
<1> QED BY Zenon, <1>6, <1>9 DEF OutMoved

\* A runtime that closes, stops, crashes or starts again leaves the queue alone.
LEMMA RuntimeMoved ==
    ASSUME OutTypes, Related, NEW h \in Runtimes,
           \/ Out!CloseRuntime(h) \/ Out!CancelWorkers(h) \/ Out!Stopped(h)
           \/ Out!Crash(h)
           \/ \E r \in Revisions \cup {Unmounted} : Out!Restart(h, r) \/ Out!Mount(h, r)
    PROVE  OutMoved
<1>1. /\ outStore' = outStore
      /\ \/ outWork' = outWork
         \/ outWork' = [outWork EXCEPT ![h] = [k \in Slots |-> Out!Idle]]
  BY Zenon DEF Out!CloseRuntime, Out!CancelWorkers, Out!Stopped, Out!Crash, Out!Restart, Out!Mount,
        Out!Gone
<1>2. ASSUME NEW g \in Runtimes, NEW l \in Slots
      PROVE  outWork'[g][l] = outWork[g][l] \/ outWork'[g][l] = Out!Idle
  BY Zenon, <1>1 DEF OutTypes
<1> QED BY Zenon, <1>1, <1>2, IdleWorked DEF OutMoved, Related

\* Time changes timers only.
LEMMA OutAdvanceMoved ==
    ASSUME OutTypes, Related, Out!Advance
    PROVE  OutMoved
<1>1. \A r \in Out!Record : Out!Aged(r).state = r.state
  BY DEF Out!Aged, Out!Record
<1>2. ASSUME NEW w \in Out!BusyWorker, NEW t
      PROVE  LET v == [w EXCEPT !.timer = t] IN
             v.pc = w.pc /\ v.id = w.id /\ v.result = w.result
  BY DEF Out!BusyWorker
<1>3. ASSUME NEW w \in Out!Worker, Worked(w)
      PROVE  Worked(Out!AgedWorker(w))
  <2>1. CASE w = Out!Idle
    BY Zenon, <1>3, <2>1 DEF Out!AgedWorker
  <2>2. CASE w # Out!Idle
    <3>1. w \in Out!BusyWorker
      BY Zenon, <2>2 DEF Out!Worker
    <3>2. Out!AgedWorker(w) = [w EXCEPT !.timer = Out!Less(@)]
      BY Zenon, <2>2 DEF Out!AgedWorker
    <3> QED BY Zenon, <1>2, <1>3, <3>1, <3>2 DEF Worked
  <2> QED BY Zenon, <2>1, <2>2
<1>4. \A d \in Ids : outStore'[d] = Out!Aged(outStore[d]) /\ outStore[d] \in Out!Record
  BY Zenon DEF Out!Advance, OutTypes
<1>5. \A g \in Runtimes, l \in Slots :
        outWork'[g][l] = Out!AgedWorker(outWork[g][l]) /\ outWork[g][l] \in Out!Worker
  BY Zenon DEF Out!Advance, OutTypes
<1> QED BY Zenon, <1>1, <1>3, <1>4, <1>5 DEF OutMoved, Related

\* The workers of a plugin server settle deliveries its inbox has.
LEMMA InboxMoved ==
    ASSUME InTypes, NEW s \in PluginServers, NEW k \in Slots, In!WorkerNext(s, k)
    PROVE  InMoved
<1>1. CASE In!Lease(s, k)
  <2>1. PICK d \in Ids :
          /\ In!Candidate(d)
          /\ inStore' = [inStore EXCEPT ![d] = In!Leased(@, inIssued[d] + 1)]
    BY Zenon, <1>1 DEF In!Lease
  <2>2. In!Exists(d) /\ \A e \in Ids : e # d => inStore'[e] = inStore[e]
    BY Zenon, <2>1 DEF In!Candidate, In!IsHead, InTypes
  <2> QED BY Zenon, <2>2 DEF InMoved, In!Exists
<1>2. CASE In!Resolve(s, k) \/ In!SettleFault(s, k)
  BY Zenon, <1>2 DEF In!Resolve, In!SettleFault, InMoved, In!Exists
<1>3. CASE In!Settle(s, k)
  <2> DEFINE w == inWork[s][k]
  <2>1. \/ inStore' = inStore
        \/ /\ inStore[w.id].state = "leased"
           /\ inStore' = [inStore EXCEPT ![w.id] = In!Settling(s, w)]
    BY Zenon, <1>3 DEF In!Settle, In!Holds
  <2>2. \A e \in Ids : inStore'[e] = inStore[e] \/ inStore[e].state = "leased"
    BY Zenon, <2>1 DEF InTypes
  <2>3. "leased" # "absent"
    OBVIOUS
  <2> QED BY Zenon, <2>2, <2>3 DEF InMoved, In!Exists
<1>4. ASSUME NEW res, In!Receive(s, k, res)
      PROVE  InMoved
  <2> DEFINE w == inWork[s][k]
  <2>1. \/ inStore' = inStore
        \/ /\ In!Exists(w.id)
           /\ inStore' = [inStore EXCEPT ![w.id] = In!Noted(@)]
    BY Zenon, <1>4 DEF In!Receive
  <2>2. \A e \in Ids : inStore'[e] = inStore[e] \/ In!Exists(e)
    BY Zenon, <2>1 DEF InTypes
  <2> QED BY Zenon, <2>2 DEF InMoved, In!Exists
<1> QED BY Zenon, <1>1, <1>2, <1>3, <1>4 DEF In!WorkerNext

\* Nor do the other steps of a server add a delivery.
LEMMA ServerMoved ==
    ASSUME InTypes,
           \/ \E s \in PluginServers :
                 \/ In!CancelWorkers(s) \/ In!Stopped(s) \/ In!Crash(s)
                 \/ \E r \in Revisions : In!Restart(s, r)
           \/ UNCHANGED inVars
    PROVE  InMoved
  BY Zenon DEF In!CancelWorkers, In!Stopped, In!Crash, In!Restart, In!Gone, inVars, InMoved,
               In!Exists

\* Time passes in the inbox.
LEMMA InAdvanceMoved ==
    ASSUME InTypes, In!Advance
    PROVE  InMoved
<1>1. \A r \in In!Record : In!Aged(r).state = r.state
  BY DEF In!Aged, In!Record
<1>2. \A d \in Ids : inStore'[d] = In!Aged(inStore[d]) /\ inStore[d] \in In!Record
  BY Zenon DEF In!Advance, InTypes
<1> QED BY Zenon, <1>1, <1>2 DEF InMoved, In!Exists

\* The steps of each queue; time may run when only the other has a timer.
OutGoing ==
    \/ \E S \in SUBSET Ids : Out!Enqueue(S)
    \/ \E h \in Runtimes, k \in Slots : Out!WorkerNext(h, k)
    \/ \E h \in Runtimes : Out!HostNext(h)
    \/ Out!Advance
    \/ UNCHANGED outVars

InGoing ==
    \/ \E S \in SUBSET Ids : In!Enqueue(S)
    \/ \E s \in PluginServers, k \in Slots : In!WorkerNext(s, k)
    \/ \E s \in PluginServers : In!HostNext(s)
    \/ In!Advance
    \/ UNCHANGED inVars

\* Every step is a step of each queue.
LEMMA NextGoing ==
    ASSUME Related, [Next]_vars
    PROVE  OutGoing /\ InGoing
<1>1. ASSUME NEW S \in SUBSET Ids, Publish(S)
      PROVE  OutGoing /\ InGoing
  BY Zenon, <1>1 DEF Publish, OutGoing, InGoing, inVars
<1>2. ASSUME NEW h \in Runtimes, NEW k \in Slots,
             \/ OutboxWorker(h, k) \/ ResolveAndCall(h, k)
             \/ \E res \in {"ok", "error"} : CallReturns(h, k, res)
      PROVE  OutGoing /\ InGoing
  <2>1. Out!WorkerNext(h, k) /\ UNCHANGED inVars
    BY Zenon, <1>2 DEF OutboxWorker, ResolveAndCall, CallReturns, Out!WorkerNext, inVars
  <2> QED BY Zenon, <2>1 DEF OutGoing, InGoing
<1>3. ASSUME NEW s \in PluginServers, NEW c \in calls, Deliver(s, c)
      PROVE  OutGoing /\ InGoing
  <2>1. c \in [id : Ids, token : Nat, accepted : BOOLEAN]
    BY Zenon DEF Related, Called
  <2>2. {c.id} \in SUBSET Ids
    BY <2>1
  <2>3. UNCHANGED outVars /\ (In!Enqueue({c.id}) \/ UNCHANGED inVars)
    BY Zenon, <1>3 DEF Deliver
  <2> QED BY Zenon, <2>2, <2>3 DEF OutGoing, InGoing
<1>4. ASSUME NEW c \in calls, Lose(c)
      PROVE  OutGoing /\ InGoing
  BY Zenon, <1>4 DEF Lose, OutGoing, InGoing, outVars, inVars
<1>5. ASSUME NEW s \in PluginServers, NEW k \in Slots, InboxWorker(s, k)
      PROVE  OutGoing /\ InGoing
  BY Zenon, <1>5 DEF InboxWorker, OutGoing, InGoing, outVars
<1>6. ASSUME NEW h \in Runtimes, RuntimeStep(h)
      PROVE  OutGoing /\ InGoing
  <2>1. Out!HostNext(h) /\ UNCHANGED inVars
    BY Zenon, <1>6 DEF RuntimeStep, Out!HostNext
  <2> QED BY Zenon, <2>1 DEF OutGoing, InGoing
<1>7. ASSUME NEW s \in PluginServers, ServerStep(s)
      PROVE  OutGoing /\ InGoing
  <2>1. In!HostNext(s) /\ UNCHANGED outVars
    BY Zenon, <1>7 DEF ServerStep, In!HostNext, outVars
  <2> QED BY Zenon, <2>1 DEF OutGoing, InGoing
<1>8. CASE Tick
  BY Zenon, <1>8 DEF Tick, OutGoing, InGoing
<1>9. CASE UNCHANGED vars
  BY Zenon, <1>9 DEF vars, OutGoing, InGoing
<1> QED BY Zenon, <1>1, <1>2, <1>3, <1>4, <1>5, <1>6, <1>7, <1>8, <1>9 DEF Next

\* The calls that are under way after a step.
CallsMoved ==
    \A c \in calls' :
        /\ c \in [id : Ids, token : Nat, accepted : BOOLEAN]
        /\ Reached(c.id) /\ (c.accepted => inStore'[c.id].state # "absent")

\* Calls that were under way before it.
LEMMA CallsLeft ==
    ASSUME Related, Grows(inStore, inSequence, inStore')
    PROVE  \A c \in calls : /\ c \in [id : Ids, token : Nat, accepted : BOOLEAN]
                            /\ Reached(c.id)
                            /\ c.accepted => inStore'[c.id].state # "absent"
<1>1. ASSUME NEW c \in calls
      PROVE  /\ c \in [id : Ids, token : Nat, accepted : BOOLEAN]
             /\ Reached(c.id) /\ (c.accepted => In!Exists(c.id))
  BY Zenon DEF Related, Called
<1>2. ASSUME NEW c \in calls PROVE c.id \in Ids
  BY <1>1
<1> QED BY Zenon, <1>1, <1>2 DEF Grows, In!Exists

\* A new call is for a delivery a worker leased.
LEMMA ResolveCalls ==
    ASSUME OutTypes, Related, Grows(inStore, inSequence, inStore'),
           NEW h \in Runtimes, NEW k \in Slots, ResolveAndCall(h, k)
    PROVE  CallsMoved
<1> DEFINE w == outWork[h][k]
<1>1. Worked(w) /\ w.pc = "resolve"
  BY Zenon, ResolveMoved DEF ResolveAndCall
<1>2. Reached(w.id)
  BY Zenon, <1>1 DEF Worked
<1>3. w \in Out!BusyWorker
  BY <1>1 DEF OutTypes, Out!Worker, Out!Idle
<1>4. /\ CallOf(w) \in [id : Ids, token : Nat, accepted : BOOLEAN]
      /\ CallOf(w).id = w.id /\ ~CallOf(w).accepted
  BY <1>3 DEF CallOf, Out!BusyWorker
<1>5. \A c \in calls' : c \in calls \/ c = CallOf(w)
  BY Zenon DEF ResolveAndCall
<1> QED BY Zenon, <1>2, <1>4, <1>5, CallsLeft DEF CallsMoved

\* A call that returns "ok" to its worker was accepted.
LEMMA ReturnsAccepted ==
    ASSUME OutTypes, Related, NEW h \in Runtimes, NEW k \in Slots, NEW res,
           CallReturns(h, k, res), res = "ok"
    PROVE  In!Exists(outWork[h][k].id)
<1> DEFINE w == outWork[h][k]
           a == [CallOf(w) EXCEPT !.accepted = TRUE]
<1>1. a \in calls
  BY Zenon DEF CallReturns
<1>2. a.id = w.id /\ a.accepted
  BY DEF CallOf
<1> QED BY Zenon, <1>1, <1>2 DEF Related, Called

\* The server has the delivery of a call it accepts, and adds no other.
LEMMA DeliverMoved ==
    ASSUME InTypes, Related, Grows(inStore, inSequence, inStore'),
           NEW s \in PluginServers, NEW c \in calls, Deliver(s, c)
    PROVE  /\ CallsMoved
           /\ \A e \in Ids : inStore'[e].state # "absent" => In!Exists(e) \/ Reached(e)
<1>1. /\ c \in [id : Ids, token : Nat, accepted : BOOLEAN] /\ Reached(c.id)
  BY Zenon, CallsLeft
<1> DEFINE a == [c EXCEPT !.accepted = TRUE]
           taken == inMounted[s] = RevisionOf[c.id]
<1>2. /\ c.id \in Ids /\ a \in [id : Ids, token : Nat, accepted : BOOLEAN] /\ a.id = c.id
  BY <1>1
<1>3. \A e \in calls' : e \in calls \/ (taken /\ e = a)
  BY Zenon DEF Deliver
<1>4. \/ In!Enqueue({c.id}) /\ ~In!Exists(c.id)
      \/ UNCHANGED inVars /\ (taken => In!Exists(c.id))
  BY Zenon DEF Deliver
<1> HIDE DEF a, taken
<1>5. CASE In!Enqueue({c.id}) /\ ~In!Exists(c.id)
  <2>1. \A n : In!Blank("pending", n).state # "absent"
    BY DEF In!Blank
  <2>2. PICK f :
          inStore' = [d \in Ids |-> IF d \in {e \in {c.id} : ~In!Exists(e)}
                                    THEN In!Blank("pending", f[d]) ELSE inStore[d]]
    BY Zenon, <1>5 DEF In!Enqueue
  <2>3. inStore'[c.id].state # "absent"
    BY Zenon, <1>2, <1>5, <2>1, <2>2
  <2>4. \A e \in Ids : e # c.id => inStore'[e] = inStore[e]
    BY Zenon, <2>2
  <2>5. CallsMoved
    BY Zenon, <1>1, <1>2, <1>3, <2>3, CallsLeft DEF CallsMoved
  <2> QED BY Zenon, <1>1, <2>4, <2>5 DEF In!Exists
<1>6. CASE UNCHANGED inVars /\ (taken => In!Exists(c.id))
  <2>1. inStore' = inStore
    BY Zenon, <1>6 DEF inVars
  <2> QED BY Zenon, <1>1, <1>2, <1>3, <1>6, <2>1, CallsLeft DEF CallsMoved, In!Exists
<1> QED BY Zenon, <1>4, <1>5, <1>6

\* Every step does to the two queues what the invariant allows.
LEMMA NextMoved ==
    ASSUME OutTypes, InTypes, Related, [Next]_vars,
           Grows(outStore, outSequence, outStore'), Grows(inStore, inSequence, inStore')
    PROVE  Moved
<1>a. ASSUME OutMoved, CallsMoved,
             \A e \in Ids : inStore'[e].state # "absent" => In!Exists(e) \/ Reached(e)
      PROVE  Moved
  BY Zenon, <1>a DEF OutMoved, CallsMoved, Moved
<1>b. ASSUME calls' \subseteq calls
      PROVE  CallsMoved
  BY Zenon, <1>b, CallsLeft DEF CallsMoved
<1>c. ASSUME OutMoved, InMoved, CallsMoved
      PROVE  Moved
  BY Zenon, <1>a, <1>c DEF InMoved
<1>d. ASSUME UNCHANGED outVars
      PROVE  OutMoved
  BY Zenon, <1>d DEF outVars, OutMoved, Related
<1>e. ASSUME UNCHANGED inVars
      PROVE  InMoved
  BY Zenon, <1>e, ServerMoved
<1>1. ASSUME NEW S \in SUBSET Ids, Publish(S)
      PROVE  Moved
  BY Zenon, <1>1, <1>b, <1>c, <1>e, PublishMoved DEF Publish
<1>2. ASSUME NEW h \in Runtimes, NEW k \in Slots, OutboxWorker(h, k)
      PROVE  Moved
  <2>1. OutMoved
    BY Zenon, <1>2, LeaseMoved, SettleMoved, SettleFaultMoved DEF OutboxWorker
  <2> QED BY Zenon, <1>2, <1>b, <1>c, <1>e, <2>1 DEF OutboxWorker
<1>3. ASSUME NEW h \in Runtimes, NEW k \in Slots, ResolveAndCall(h, k)
      PROVE  Moved
  <2>1. OutMoved /\ UNCHANGED inVars
    BY Zenon, <1>3, ResolveMoved DEF ResolveAndCall
  <2> QED BY Zenon, <1>3, <1>c, <1>e, <2>1, ResolveCalls
<1>4. ASSUME NEW h \in Runtimes, NEW k \in Slots, NEW res \in {"ok", "error"},
             CallReturns(h, k, res)
      PROVE  Moved
  <2>1. OutMoved
    BY Zenon, <1>4, ReturnsAccepted, ReceiveMoved DEF CallReturns
  <2>2. calls' \subseteq calls /\ UNCHANGED inVars
    BY Zenon, <1>4 DEF CallReturns
  <2> QED BY Zenon, <1>b, <1>c, <1>e, <2>1, <2>2
<1>5. ASSUME NEW s \in PluginServers, NEW c \in calls, Deliver(s, c)
      PROVE  Moved
  <2>1. OutMoved
    BY Zenon, <1>5, <1>d DEF Deliver
  <2> QED BY Zenon, <1>5, <1>a, <2>1, DeliverMoved
<1>6. ASSUME NEW c \in calls, Lose(c)
      PROVE  Moved
  <2>1. calls' \subseteq calls /\ UNCHANGED outVars /\ UNCHANGED inVars
    BY Zenon, <1>6 DEF Lose, outVars, inVars
  <2> QED BY Zenon, <1>b, <1>c, <1>d, <1>e, <2>1
<1>7. ASSUME NEW s \in PluginServers, NEW k \in Slots, InboxWorker(s, k)
      PROVE  Moved
  <2>1. calls' \subseteq calls /\ UNCHANGED outVars /\ InMoved
    BY Zenon, <1>7, InboxMoved DEF InboxWorker, outVars
  <2> QED BY Zenon, <1>b, <1>c, <1>d, <2>1
<1>8. ASSUME NEW h \in Runtimes, RuntimeStep(h)
      PROVE  Moved
  <2>1. calls' \subseteq calls /\ OutMoved /\ UNCHANGED inVars
    BY Zenon, <1>8, RuntimeMoved DEF RuntimeStep
  <2> QED BY Zenon, <1>b, <1>c, <1>e, <2>1
<1>9. ASSUME NEW s \in PluginServers, ServerStep(s)
      PROVE  Moved
  <2>1. calls' \subseteq calls /\ UNCHANGED outVars /\ InMoved
    BY Zenon, <1>9, ServerMoved DEF ServerStep, outVars
  <2> QED BY Zenon, <1>b, <1>c, <1>d, <2>1
<1>10. CASE Tick
  <2>1. calls' \subseteq calls /\ OutMoved /\ InMoved
    BY Zenon, <1>10, OutAdvanceMoved, InAdvanceMoved DEF Tick
  <2> QED BY Zenon, <1>b, <1>c, <2>1
<1>11. CASE UNCHANGED vars
  <2>1. calls' \subseteq calls /\ UNCHANGED outVars /\ UNCHANGED inVars
    BY Zenon, <1>11 DEF vars
  <2> QED BY Zenon, <1>b, <1>c, <1>d, <1>e, <2>1
<1> QED BY Zenon, <1>1, <1>2, <1>3, <1>4, <1>5, <1>6, <1>7, <1>8, <1>9, <1>10, <1>11 DEF Next

\* The order of the outbox and that of the inbox make the order end to end.
LEMMA OrderKept ==
    ASSUME Related, In!PartitionOrder
    PROVE  EndToEndOrder
<1> SUFFICES ASSUME NEW d \in Ids, NEW e \in Ids, Out!Before(d, e),
                    outStore[d].state = "delivered", In!Exists(e), inStore[e].attempt > 0
             PROVE  In!Terminal(d)
  BY Zenon DEF EndToEndOrder
<1>1. In!Exists(d) /\ inStore[d].sequence < inStore[e].sequence
  BY Zenon DEF Related, NothingLost, SameOrder
<1>2. In!Before(d, e)
  BY Zenon, <1>1 DEF In!Before, Out!Before
<1> QED BY Zenon, <1>2 DEF In!PartitionOrder

\* Both queues are empty at first.
LEMMA InitRelated ==
    ASSUME Init
    PROVE  Related
<1>1. Out!Blank("absent", 0).state = "absent" /\ In!Blank("absent", 0).state = "absent"
      /\ "absent" # "delivered"
  BY DEF Out!Blank, In!Blank
<1>2. \A d \in Ids : outStore[d].state = "absent" /\ inStore[d].state = "absent"
  BY Zenon, <1>1 DEF Init, Out!Init, In!Init
<1>3. /\ \A h \in Runtimes, k \in Slots : outWork[h][k] = Out!Idle
      /\ calls = {}
  BY Zenon DEF Init, Out!Init
<1> QED BY Zenon, <1>1, <1>2, <1>3, IdleWorked
        DEF Related, Arrived, NothingLost, SameOrder, In!Exists

\* Sequence numbers are numbers.
LEMMA OutNumbers == OutTypes => \A d \in Ids : outStore[d].sequence \in Nat
  BY DEF OutTypes, Out!Record

\* The numbers of the inbox.
LEMMA InNumbers == InTypes => \A d \in Ids : inStore[d].sequence \in Nat
  BY Zenon DEF InTypes, In!Record

-------------------------------------------------------------------------------
(***************************************************************************)
(* Each queue is one of Deliveries, so DeliveriesProofs speaks of both.    *)
(***************************************************************************)

OutP == INSTANCE DeliveriesProofs WITH
    Hosts <- Runtimes, Servers <- {}, store <- outStore,
    nextSequence <- outSequence, issued <- outIssued, up <- outUp,
    mounted <- outMounted, work <- outWork, drain <- outDrain,
    faults <- outFaults

\* The constants are those of a queue.
LEMMA OutConstants ==
    /\ OutP!IsFiniteSet(Ids) /\ {} \subseteq Runtimes
    /\ PartitionOf \in [Ids -> OutP!Range(PartitionOf)]
    /\ RevisionOf \in [Ids -> Revisions] /\ Unmounted \notin Revisions
    /\ LeaseTime \in Nat /\ Timeout \in Nat /\ Timeout < LeaseTime
    /\ Poll \in Nat /\ MaxRetryDelay \in Nat /\ MaxAttempts \in Nat \ {0}
    /\ MaxSequence \in Nat /\ MaxLeases \in Nat /\ MaxFaults \in Nat
    /\ {Timely, StoreFaults, Crashes} \subseteq BOOLEAN
<1>1. OutP!IsFiniteSet(Ids)
  BY Zenon, PipelineAssumption DEF PipelineAssumption, IsFiniteSet, OutP!IsFiniteSet
<1>2. PartitionOf \in [Ids -> OutP!Range(PartitionOf)]
  <2>1. PartitionOf = [d \in Ids |-> PartitionOf[d]]
    BY Zenon, PipelineAssumption DEF PipelineAssumption
  <2>2. DOMAIN PartitionOf = Ids
    BY Zenon, <2>1
  <2>3. \A d \in Ids : PartitionOf[d] \in OutP!Range(PartitionOf)
    BY Zenon, <2>2 DEF OutP!Range
  <2> QED BY Zenon, <2>1, <2>3
<1> QED BY Zenon, <1>1, <1>2, PipelineAssumption DEF PipelineAssumption

\* A step of the outbox is one of a queue.
LEMMA OutSteps == OutGoing => OutP!Going
<1>1. ASSUME NEW S, Out!Enqueue(S) PROVE OutP!Enqueue(S)
  BY Zenon, <1>1 DEF Out!Enqueue, OutP!Enqueue, Out!Exists, OutP!Exists, Out!Cardinality,
      OutP!Cardinality, Out!Bijection, OutP!Bijection, Out!Injection, OutP!Injection,
      Out!Surjection, OutP!Surjection, Out!IsInjective, OutP!IsInjective, Out!Blank,
      OutP!Blank, Out!hostVars, OutP!hostVars
<1>2. ASSUME NEW h, NEW k, Out!Lease(h, k) PROVE OutP!Lease(h, k)
  BY Zenon, <1>2 DEF Out!Lease, OutP!Lease, Out!Idle, OutP!Idle, Out!Candidate,
      OutP!Candidate, Out!IsHead, OutP!IsHead, Out!Before, OutP!Before, Out!Exists,
      OutP!Exists, Out!Terminal, OutP!Terminal, Out!Settled, OutP!Settled,
      Out!LeaseAvailable, OutP!LeaseAvailable, Out!Leased, OutP!Leased, Out!Job, OutP!Job,
      Out!hostVars, OutP!hostVars
<1>3. ASSUME NEW h, NEW k, Out!Resolve(h, k) PROVE OutP!Resolve(h, k)
  BY Zenon, <1>3 DEF Out!Resolve, OutP!Resolve, Out!Returned, OutP!Returned, Out!Receiving,
      OutP!Receiving, Out!hostVars, OutP!hostVars
<1>4. ASSUME NEW h, NEW k, NEW res, Out!Receive(h, k, res) PROVE OutP!Receive(h, k, res)
  BY Zenon, <1>4 DEF Out!Receive, OutP!Receive, Out!Returned, OutP!Returned, Out!Exists,
      OutP!Exists, Out!Noted, OutP!Noted, Out!hostVars, OutP!hostVars
<1>5. ASSUME NEW h, NEW k, Out!Settle(h, k) PROVE OutP!Settle(h, k)
  BY Zenon, <1>5 DEF Out!Settle, OutP!Settle, Out!Idle, OutP!Idle, Out!Holds, OutP!Holds,
      Out!Settling, OutP!Settling, Out!FinishLease, OutP!FinishLease, Out!Verdict,
      OutP!Verdict, Out!Cancelled, OutP!Cancelled, Out!Delay, OutP!Delay, Out!RetryDelay,
      OutP!RetryDelay, Out!PowersOfTwo, OutP!PowersOfTwo, Out!hostVars, OutP!hostVars
<1>6. ASSUME NEW h, NEW k, Out!SettleFault(h, k) PROVE OutP!SettleFault(h, k)
  BY Zenon, <1>6 DEF Out!SettleFault, OutP!SettleFault, Out!Idle, OutP!Idle
<1>7. ASSUME NEW h, NEW k, Out!WorkerNext(h, k) PROVE OutP!WorkerNext(h, k)
  BY Zenon, <1>2, <1>3, <1>4, <1>5, <1>6, <1>7 DEF Out!WorkerNext, OutP!WorkerNext
<1>8. ASSUME NEW h, Out!HostNext(h) PROVE OutP!HostNext(h)
  BY Zenon, <1>8 DEF Out!HostNext, OutP!HostNext, Out!DrainStart, OutP!DrainStart,
      Out!DrainDone, OutP!DrainDone, Out!Exists, OutP!Exists, Out!Terminal, OutP!Terminal,
      Out!Settled, OutP!Settled, Out!CloseRuntime, OutP!CloseRuntime, Out!CancelWorkers,
      OutP!CancelWorkers, Out!Stopped, OutP!Stopped, Out!Crash, OutP!Crash, Out!Cancelled,
      OutP!Cancelled, Out!Gone, OutP!Gone, Out!Idle, OutP!Idle, Out!Fault, OutP!Fault,
      Out!Mount, OutP!Mount, Out!Remount, OutP!Remount, Out!Restart, OutP!Restart
<1>9. ASSUME Out!Advance PROVE OutP!Advance
  BY Zenon, <1>9 DEF Out!Advance, OutP!Advance, Out!OnTime, OutP!OnTime, Out!Idle,
      OutP!Idle, Out!Aged, OutP!Aged, Out!AgedWorker, OutP!AgedWorker, Out!Less, OutP!Less,
      Out!hostVars, OutP!hostVars
<1>10. UNCHANGED outVars => UNCHANGED OutP!vars
  BY Zenon DEF outVars, OutP!vars
<1> QED BY Zenon, <1>1, <1>7, <1>8, <1>9, <1>10 DEF OutGoing, OutP!Going

\* The invariant of the outbox.
OutInv == OutP!TypeOK /\ OutP!LeaseInvariant

\* It holds of the empty queue ...
LEMMA OutInit == Out!Init => OutInv
<1>1. Out!Init => OutP!Init
  BY Zenon DEF Out!Init, OutP!Init, Out!Blank, OutP!Blank, Out!Idle, OutP!Idle
<1> QED BY Zenon, <1>1, OutConstants, OutP!InitType, OutP!InitInvariant DEF OutInv

\* ... gives the types and numbers that the lemmas above use ...
LEMMA OutQueue ==
    ASSUME OutInv
    PROVE  OutTypes /\ Numbered(outStore, outSequence)
<1>1. OutTypes
  BY Zenon DEF OutInv, OutP!TypeOK, OutTypes, OutP!Record, Out!Record, OutP!States, Out!States,
     OutP!Settled, Out!Settled, OutP!Worker, Out!Worker, OutP!BusyWorker, Out!BusyWorker,
     OutP!Results, Out!Results, OutP!Idle, Out!Idle
<1> QED BY ZenonT(60), <1>1, OutNumbers
        DEF OutInv, OutP!TypeOK, OutP!LeaseInvariant, OutP!Sequenced, OutP!Exists, Numbered

\* ... and every step keeps it.
LEMMA OutNext ==
    ASSUME OutInv, OutGoing
    PROVE  OutInv' /\ Grows(outStore, outSequence, outStore')
<1>1. /\ OutP!TypeOK' /\ OutP!LeaseInvariant' /\ OutP!Grown
      /\ \A d \in Ids : outStore'[d].sequence \in Nat
  BY ZenonT(60), OutSteps, OutConstants, OutP!GoingInvariant, OutP!GoingGrown DEF OutInv
<1> QED BY ZenonT(60), <1>1
        DEF OutInv, OutP!Grown, OutP!Exists, OutP!Terminal, OutP!Settled, Grows

InP == INSTANCE DeliveriesProofs WITH
    Hosts <- PluginServers, Servers <- PluginServers, store <- inStore,
    nextSequence <- inSequence, issued <- inIssued, up <- inUp,
    mounted <- inMounted, work <- inWork, drain <- inDrain, faults <- inFaults

\* The constants are those of a queue here, too.
LEMMA InConstants ==
    /\ InP!IsFiniteSet(Ids) /\ PluginServers \subseteq PluginServers
    /\ PartitionOf \in [Ids -> InP!Range(PartitionOf)]
    /\ RevisionOf \in [Ids -> Revisions] /\ Unmounted \notin Revisions
    /\ LeaseTime \in Nat /\ Timeout \in Nat /\ Timeout < LeaseTime
    /\ Poll \in Nat /\ MaxRetryDelay \in Nat /\ MaxAttempts \in Nat \ {0}
    /\ MaxSequence \in Nat /\ MaxLeases \in Nat /\ MaxFaults \in Nat
    /\ {Timely, StoreFaults, Crashes} \subseteq BOOLEAN
<1>1. InP!IsFiniteSet(Ids)
  BY Zenon, PipelineAssumption DEF PipelineAssumption, IsFiniteSet, InP!IsFiniteSet
<1>2. PartitionOf \in [Ids -> InP!Range(PartitionOf)]
  <2>1. PartitionOf = [d \in Ids |-> PartitionOf[d]]
    BY Zenon, PipelineAssumption DEF PipelineAssumption
  <2>2. DOMAIN PartitionOf = Ids
    BY Zenon, <2>1
  <2>3. \A d \in Ids : PartitionOf[d] \in InP!Range(PartitionOf)
    BY Zenon, <2>2 DEF InP!Range
  <2> QED BY Zenon, <2>1, <2>3
<1> QED BY Zenon, <1>1, <1>2, PipelineAssumption DEF PipelineAssumption

\* A step of the inbox is one of a queue.
LEMMA InSteps == InGoing => InP!Going
<1>1. ASSUME NEW S, In!Enqueue(S) PROVE InP!Enqueue(S)
  BY Zenon, <1>1 DEF In!Enqueue, InP!Enqueue, In!Exists, InP!Exists, In!Cardinality,
      InP!Cardinality, In!Bijection, InP!Bijection, In!Injection, InP!Injection,
      In!Surjection, InP!Surjection, In!IsInjective, InP!IsInjective, In!Blank, InP!Blank,
      In!hostVars, InP!hostVars
<1>2. ASSUME NEW h, NEW k, In!Lease(h, k) PROVE InP!Lease(h, k)
  BY Zenon, <1>2 DEF In!Lease, InP!Lease, In!Idle, InP!Idle, In!Candidate, InP!Candidate,
      In!IsHead, InP!IsHead, In!Before, InP!Before, In!Exists, InP!Exists, In!Terminal,
      InP!Terminal, In!Settled, InP!Settled, In!LeaseAvailable, InP!LeaseAvailable,
      In!Leased, InP!Leased, In!Job, InP!Job, In!hostVars, InP!hostVars
<1>3. ASSUME NEW h, NEW k, In!Resolve(h, k) PROVE InP!Resolve(h, k)
  BY Zenon, <1>3 DEF In!Resolve, InP!Resolve, In!Returned, InP!Returned, In!Receiving,
      InP!Receiving, In!hostVars, InP!hostVars
<1>4. ASSUME NEW h, NEW k, NEW res, In!Receive(h, k, res) PROVE InP!Receive(h, k, res)
  BY Zenon, <1>4 DEF In!Receive, InP!Receive, In!Returned, InP!Returned, In!Exists,
      InP!Exists, In!Noted, InP!Noted, In!hostVars, InP!hostVars
<1>5. ASSUME NEW h, NEW k, In!Settle(h, k) PROVE InP!Settle(h, k)
  BY Zenon, <1>5 DEF In!Settle, InP!Settle, In!Idle, InP!Idle, In!Holds, InP!Holds,
      In!Settling, InP!Settling, In!FinishLease, InP!FinishLease, In!Verdict, InP!Verdict,
      In!Cancelled, InP!Cancelled, In!Delay, InP!Delay, In!RetryDelay, InP!RetryDelay,
      In!PowersOfTwo, InP!PowersOfTwo, In!hostVars, InP!hostVars
<1>6. ASSUME NEW h, NEW k, In!SettleFault(h, k) PROVE InP!SettleFault(h, k)
  BY Zenon, <1>6 DEF In!SettleFault, InP!SettleFault, In!Idle, InP!Idle
<1>7. ASSUME NEW h, NEW k, In!WorkerNext(h, k) PROVE InP!WorkerNext(h, k)
  BY Zenon, <1>2, <1>3, <1>4, <1>5, <1>6, <1>7 DEF In!WorkerNext, InP!WorkerNext
<1>8. ASSUME NEW h, In!HostNext(h) PROVE InP!HostNext(h)
  BY Zenon, <1>8 DEF In!HostNext, InP!HostNext, In!DrainStart, InP!DrainStart, In!DrainDone,
      InP!DrainDone, In!Exists, InP!Exists, In!Terminal, InP!Terminal, In!Settled,
      InP!Settled, In!CloseRuntime, InP!CloseRuntime, In!CancelWorkers, InP!CancelWorkers,
      In!Stopped, InP!Stopped, In!Crash, InP!Crash, In!Cancelled, InP!Cancelled, In!Gone,
      InP!Gone, In!Idle, InP!Idle, In!Fault, InP!Fault, In!Mount, InP!Mount, In!Remount,
      InP!Remount, In!Restart, InP!Restart
<1>9. ASSUME In!Advance PROVE InP!Advance
  BY Zenon, <1>9 DEF In!Advance, InP!Advance, In!OnTime, InP!OnTime, In!Idle, InP!Idle,
      In!Aged, InP!Aged, In!AgedWorker, InP!AgedWorker, In!Less, InP!Less, In!hostVars,
      InP!hostVars
<1>10. UNCHANGED inVars => UNCHANGED InP!vars
  BY Zenon DEF inVars, InP!vars
<1> QED BY Zenon, <1>1, <1>7, <1>8, <1>9, <1>10 DEF InGoing, InP!Going

\* The invariant of the inbox.
InInv == InP!TypeOK /\ InP!LeaseInvariant

\* It holds of the empty queue ...
LEMMA InInit == In!Init => InInv
<1>1. In!Init => InP!Init
  BY Zenon DEF In!Init, InP!Init, In!Blank, InP!Blank, In!Idle, InP!Idle
<1> QED BY Zenon, <1>1, InConstants, InP!InitType, InP!InitInvariant DEF InInv

\* ... gives the types, the numbers and the order that the lemmas above use ...
LEMMA InQueue ==
    ASSUME InInv
    PROVE  InTypes /\ Numbered(inStore, inSequence) /\ In!PartitionOrder
<1>1. InTypes
  BY Zenon DEF InInv, InP!TypeOK, InTypes, InP!Record, In!Record, InP!States, In!States,
     InP!Settled, In!Settled
<1>2. In!PartitionOrder
  BY ZenonT(60) DEF InInv, InP!LeaseInvariant, InP!PartitionOrder, InP!Before, InP!Exists, InP!Terminal,
     InP!Settled, In!PartitionOrder, In!Before, In!Exists, In!Terminal, In!Settled
<1> QED BY ZenonT(60), <1>1, <1>2, InNumbers
        DEF InInv, InP!TypeOK, InP!LeaseInvariant, InP!Sequenced, InP!Exists, Numbered

\* ... and every step keeps it.
LEMMA InNext ==
    ASSUME InInv, InGoing
    PROVE  InInv' /\ Grows(inStore, inSequence, inStore')
<1>1. /\ InP!TypeOK' /\ InP!LeaseInvariant' /\ InP!Grown
      /\ \A d \in Ids : inStore'[d].sequence \in Nat
  BY ZenonT(60), InSteps, InConstants, InP!GoingInvariant, InP!GoingGrown DEF InInv
<1> QED BY Zenon, <1>1
        DEF InInv, InP!Grown, InP!Exists, InP!Terminal, InP!Settled, Grows

-------------------------------------------------------------------------------
(***************************************************************************)
(* The invariant, and what follows from it.                                *)
(***************************************************************************)

\* Each queue has that of a queue, and they are related.
Inv == OutInv /\ InInv /\ Related

\* It holds of two empty queues.
LEMMA InitInv == Init => Inv
BY ZenonT(60), OutInit, InInit, InitRelated DEF Init, Inv

\* Every step keeps the invariant.
LEMMA NextInv == Inv /\ [Next]_vars => Inv'
<1> SUFFICES ASSUME Inv, [Next]_vars PROVE Inv'
  BY ZenonT(60)
<1>1. OutGoing /\ InGoing
  BY Zenon, NextGoing DEF Inv
<1>2. /\ OutInv' /\ Grows(outStore, outSequence, outStore')
      /\ InInv' /\ Grows(inStore, inSequence, inStore')
  BY Zenon, <1>1, OutNext, InNext DEF Inv
<1>3. Related'
  BY ZenonT(60), <1>2, OutQueue, InQueue, NextMoved, RelatedStep DEF Inv
<1> QED BY Zenon, <1>2, <1>3 DEF Inv

\* So it holds throughout.
LEMMA Invariance == Spec => []Inv
BY InitInv, NextInv, PTL DEF Spec

\* No delivery is lost between the two queues, whatever the network loses, delays
\* or hands over twice and whoever crashes: remoteSubscriber.Receive returns nil to
\* the worker that acknowledges only after the server's Deliver stored the delivery.
THEOREM NoLoss == Spec => []NothingLost
<1>1. Inv => NothingLost
  BY Zenon DEF Inv, Related
<1> QED BY <1>1, Invariance, PTL

\* The plugin's subscriber gets the deliveries of a partition in the order of the
\* outbox: the outbox attempts one only when it has settled those before it, so
\* the inbox has them in that order, and leases them in that order.
THEOREM Order == Spec => []EndToEndOrder
<1>1. Inv => EndToEndOrder
  BY ZenonT(60), InQueue, OrderKept DEF Inv
<1> QED BY <1>1, Invariance, PTL
=============================================================================
