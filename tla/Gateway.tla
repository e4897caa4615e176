------------------------------- MODULE Gateway -------------------------------
(***************************************************************************)
(* The input queue of one gateway session (gateway/): the durable queue    *)
(* (input.go, input_store_memory.go), the supervisor's runner that         *)
(* dispatches it (input_supervisor.go), the process-local host slot        *)
(* through which executions are submitted, recovered, read and cancelled   *)
(* (runtime_backend.go, runtime_host_slot.go), and the service calls that  *)
(* race with them (service.go).                                            *)
(*                                                                         *)
(* inputs, execs and paused are durable: the input stream, the executions  *)
(* of the session's trajectory (the last one is the current one) and the   *)
(* session record.  Everything else dies with the process.  The execution  *)
(* itself (leases, turns, checkpoints) is the module Trajectories; here it *)
(* is live until its host or a cancellation ends it.                       *)
(***************************************************************************)
EXTENDS Integers, Sequences, FiniteSets

CONSTANTS
    Ids,          \* identifiers of the queued inputs
    MaxDirects,   \* number of messages submitted past the queue
    MaxPauses,    \* number of times the session is paused
    MaxFaults,    \* number of crashes and shutdowns
    Cancels,      \* whether inputs are cancelled
    HostFailures  \* what may fail of a host: its construction to submit or to recover, its unwind

ASSUME GatewayAssumption ==
    /\ MaxDirects \in Nat /\ MaxPauses \in Nat /\ MaxFaults \in Nat
    /\ Cancels \in BOOLEAN /\ HostFailures \subseteq {"submit", "recover", "unwind"}
    /\ "direct" \notin Ids

VARIABLES
    inputs,     \* inputStream.Inputs, in the order of their sequence numbers
    execs,      \* the accepted executions, oldest first
    paused,     \* Session.Paused
    mode,       \* "open", "draining", "closed" (host registry) or "down"
    boot,       \* how far RecoverSessions got, with its recovery candidate
    runner,     \* the supervisor's runner of this session
    slot,       \* activeHostRegistry.hosts[session]
    gate,       \* the call that holds the session gate
    enqueues,   \* EnqueueInput calls: what they read and where they are
    cancel,     \* the CancelInput call
    held,       \* history: the inputs that were waiting when the pause was saved
    pauses, faults

durable == <<inputs, execs, paused>>
volatile == <<boot, runner, slot, gate, enqueues, cancel>>
vars == <<durable, mode, volatile, held, pauses, faults>>

Direct == "direct"   \* the content of a message that is no queued input

InputStates == {"queued", "dispatching", "succeeded", "failed", "cancelled"}
ExecStates == {"live", "succeeded", "failed", "cancelled"}
TerminalStates == {"succeeded", "failed", "cancelled"}

NoRunner == [pc |-> "none", at |-> 0, resumed |-> FALSE, exec |-> 0]
NoSlot == [state |-> "none", exec |-> 0]
NoCall == [pc |-> "none", paused |-> FALSE]
Answered == [pc |-> "answered", paused |-> FALSE]
NoCancel == [pc |-> "none", at |-> 0, rev |-> 0, exec |-> 0]
Booting == [pc |-> "load", exec |-> 0]
Recovered == [pc |-> "done", exec |-> 0]
NoHolder == [pc |-> "free", exec |-> 0]

Stored(id) == \E n \in DOMAIN inputs : inputs[n].id = id
Current == Len(execs)
Live(e) == e \in DOMAIN execs /\ execs[e].state = "live"

\* supervisor.ctx is cancelled by Drain and by Close.
SupervisorUp == mode = "open"

Init ==
    /\ inputs = <<>> /\ execs = <<>> /\ paused = FALSE
    /\ mode = "open" /\ boot = Recovered
    /\ runner = NoRunner /\ slot = NoSlot /\ gate = NoHolder
    /\ enqueues = [id \in Ids |-> NoCall]
    /\ cancel = NoCancel
    /\ held = {} /\ pauses = 0 /\ faults = 0

-----------------------------------------------------------------------------
(***************************************************************************)
(* The durable queue.                                                      *)
(***************************************************************************)

\* A repeated identifier returns the stored input.
Enqueued(id) ==
    inputs' = IF Stored(id) THEN inputs
              ELSE Append(inputs, [id |-> id, state |-> "queued", exec |-> 0,
                                   rev |-> 1, since |-> 0])

\* Variant: an input is taken although another one is dispatching.
NextQueuedAnyway(n) ==
    /\ inputs[n].state = "queued"
    /\ \A m \in 1..n - 1 : inputs[m].state # "queued"

\* AcquireNext resumes the dispatching input if there is one, and otherwise
\* takes the first queued one.
NextQueued(n) ==
    /\ inputs[n].state = "queued"
    /\ \A m \in DOMAIN inputs : inputs[m].state # "dispatching"
    /\ \A m \in 1..n - 1 : inputs[m].state # "queued"

\* "since" stands for UpdatedAt: the executions accepted so far are the ones
\* that were created before the input was dispatched.
Dispatch(n) ==
    [inputs EXCEPT ![n].state = "dispatching", ![n].rev = @ + 1, ![n].since = Current]

\* Only a dispatching input is bound, once, and completed.
Bindable(n) == inputs[n].state = "dispatching" /\ inputs[n].exec = 0

Bind(n, e) == [inputs EXCEPT ![n].exec = e, ![n].rev = @ + 1]

Settle(n, state) == [inputs EXCEPT ![n].state = state, ![n].rev = @ + 1]

Complete(n, state) ==
    IF inputs[n].state = "dispatching" THEN Settle(n, state) ELSE inputs

-----------------------------------------------------------------------------
(***************************************************************************)
(* Submission through the host slot: reserve, SubmitPrompt, bind.  The     *)
(* queue's runner and SubmitMessage take the same three steps.             *)
(***************************************************************************)

SlotFree == slot = NoSlot /\ mode # "closed"

Reserve ==
    /\ SlotFree
    /\ slot' = [state |-> "reserved", exec |-> 0]

\* A trajectory has one live execution: SubmitPrompt is refused otherwise.
Accepts == ~ Live(Current)

SubmitPrompt(content) ==
    /\ Accepts
    /\ execs' = Append(execs, [state |-> "live", content |-> content])

BindHost(e) ==
    /\ mode # "closed"
    /\ slot' = [state |-> "bound", exec |-> e]

\* cleanup: the reservation is given up; what SubmitPrompt stored stays.
ReleaseSlot == slot' = NoSlot

-----------------------------------------------------------------------------
(***************************************************************************)
(* The supervisor: one runner per session.                                 *)
(***************************************************************************)

Goto(pc) == runner' = [runner EXCEPT !.pc = pc]

\* schedule: nothing when the supervisor is stopped or a runner is registered.
Schedule ==
    runner' = IF SupervisorUp /\ runner = NoRunner
              THEN [NoRunner EXCEPT !.pc = "load"] ELSE runner

\* run reads the session; a paused one is left to the next schedule.
RunnerLoad ==
    /\ runner.pc = "load" /\ SupervisorUp
    /\ Goto(IF paused THEN "leave" ELSE "acquire")
    /\ UNCHANGED <<durable, slot>>

\* removeRunner comes after the read that decided to stop.
RunnerLeave ==
    /\ runner.pc = "leave" \/ (runner.pc = "acquire" /\ ~ SupervisorUp)
    /\ runner' = NoRunner
    /\ UNCHANGED <<durable, slot>>

\* AcquireNext; the supervisor's mutex is held until an empty queue has removed
\* the runner.
RunnerAcquire ==
    /\ runner.pc = "acquire" /\ SupervisorUp
    /\ \/ \E n \in DOMAIN inputs :
             /\ inputs[n].state = "dispatching"
             /\ runner' = [pc |-> IF inputs[n].exec # 0 THEN "await" ELSE "boundary",
                           at |-> n, resumed |-> TRUE, exec |-> inputs[n].exec]
             /\ inputs' = inputs
       \/ \E n \in DOMAIN inputs :
             /\ NextQueued(n)
             /\ runner' = [pc |-> "boundary", at |-> n, resumed |-> FALSE, exec |-> 0]
             /\ inputs' = Dispatch(n)
       \/ /\ \A n \in DOMAIN inputs : inputs[n].state \in TerminalStates
          /\ runner' = NoRunner /\ inputs' = inputs
    /\ UNCHANGED <<execs, paused, slot>>

\* Current cannot be read while the slot is reserved for an execution that is
\* not accepted yet.
Readable == slot = NoSlot \/ slot.exec # 0

\* The execution an unbound input may have been submitted as: one that was
\* accepted after the input was dispatched.
Adopts == runner.resumed /\ Current > inputs[runner.at].since

\* Variant: a resumed input never looks for the execution it was submitted as.
BoundaryResubmits ==
    /\ runner.pc = "boundary" /\ SupervisorUp /\ Readable
    /\ \/ /\ Current = 0 /\ Goto("recheck")
       \/ /\ Current # 0 /\ ~ Live(Current)
          /\ runner' = [runner EXCEPT !.pc = "settled", !.exec = Current]
    /\ UNCHANGED <<durable, slot>>

\* waitForDispatchBoundary: no execution, the input's own one, or a terminal
\* one, whose host is then waited for; it polls while the execution is live.
Boundary ==
    /\ runner.pc = "boundary" /\ SupervisorUp /\ Readable
    /\ \/ /\ Current = 0 /\ Goto("recheck")
       \/ /\ Current # 0 /\ Adopts
          /\ runner' = [runner EXCEPT !.pc = IF Live(Current) THEN "bind" ELSE "adopted",
                                      !.exec = Current]
       \/ /\ Current # 0 /\ ~ Adopts /\ ~ Live(Current)
          /\ runner' = [runner EXCEPT !.pc = "settled", !.exec = Current]
    /\ UNCHANGED <<durable, slot>>

\* readPlan.wait: a terminal execution is reported once its host has returned.
HostGone == slot.state # "bound" \/ slot.exec # runner.exec

BoundarySettled ==
    /\ runner.pc \in {"settled", "adopted"} /\ SupervisorUp /\ HostGone
    /\ Goto(IF runner.pc = "settled" THEN "recheck" ELSE "bind")
    /\ UNCHANGED <<durable, slot>>

\* Variant: the input is submitted without another look at the session.
RecheckSkipped ==
    /\ runner.pc = "recheck" /\ SupervisorUp
    /\ Goto("reserve")
    /\ UNCHANGED <<durable, slot>>

\* The session is read again before the input is submitted.
Recheck ==
    /\ runner.pc = "recheck" /\ SupervisorUp
    /\ Goto(IF paused THEN "leave" ELSE "reserve")
    /\ UNCHANGED <<durable, slot>>

QueueReserve ==
    /\ runner.pc = "reserve"
    /\ \/ Reserve /\ Goto("submit")
       \/ ~ SlotFree /\ Goto("fail") /\ slot' = slot
    /\ UNCHANGED durable

\* Submit up to the durable acceptance.  A stopped supervisor's context may
\* end the setup before SubmitPrompt or leave it alone.
QueueSubmit ==
    /\ runner.pc = "submit"
    /\ \/ /\ SubmitPrompt(inputs[runner.at].id)
          /\ runner' = [runner EXCEPT !.pc = "hostbind", !.exec = Current + 1]
          /\ slot' = slot
       \/ /\ ~ Accepts \/ "submit" \in HostFailures \/ ~ SupervisorUp
          /\ ReleaseSlot /\ Goto("fail") /\ UNCHANGED execs
    /\ UNCHANGED <<inputs, paused>>

QueueHostBind ==
    /\ runner.pc = "hostbind"
    /\ \/ BindHost(runner.exec) /\ Goto("bind")
       \/ ~ SupervisorUp /\ ReleaseSlot /\ Goto("fail")
    /\ UNCHANGED durable

\* BindExecution, after a submission or for an adopted execution.
BindExecution ==
    /\ runner.pc = "bind" /\ SupervisorUp
    /\ IF Bindable(runner.at)
       THEN inputs' = Bind(runner.at, runner.exec) /\ Goto("await")
       ELSE UNCHANGED inputs /\ Goto("load")
    /\ UNCHANGED <<execs, paused, slot>>

\* awaitAndComplete polls Get, which knows only the current execution.
Await ==
    /\ runner.pc = "await" /\ SupervisorUp /\ Readable
    /\ runner.exec = Current /\ ~ Live(Current)
    /\ Goto("collect")
    /\ UNCHANGED <<durable, slot>>

\* Variant: every terminal execution completes the input as succeeded.
CollectSucceeded ==
    /\ runner.pc = "collect" /\ SupervisorUp /\ HostGone
    /\ inputs' = Complete(runner.at, "succeeded")
    /\ Goto("load")
    /\ UNCHANGED <<execs, paused, slot>>

Collect ==
    /\ runner.pc = "collect" /\ SupervisorUp /\ HostGone
    /\ inputs' = Complete(runner.at, execs[runner.exec].state)
    /\ Goto("load")
    /\ UNCHANGED <<execs, paused, slot>>

FailInput ==
    /\ runner.pc = "fail" /\ SupervisorUp
    /\ inputs' = Complete(runner.at, "failed")
    /\ Goto("load")
    /\ UNCHANGED <<execs, paused, slot>>

\* Every wait and store call of a stopped supervisor returns the context error;
\* the input stays as it is.
RunnerStopped ==
    /\ ~ SupervisorUp
    /\ runner.pc \in {"load", "boundary", "settled", "adopted", "recheck", "bind",
                      "await", "collect", "fail"}
    /\ Goto("leave")
    /\ UNCHANGED <<durable, slot>>

Runner ==
    /\ \/ RunnerLoad \/ RunnerLeave \/ RunnerAcquire \/ Boundary \/ BoundarySettled
       \/ Recheck \/ QueueReserve \/ QueueSubmit \/ QueueHostBind \/ BindExecution
       \/ Await \/ Collect \/ FailInput \/ RunnerStopped
    /\ UNCHANGED <<mode, boot, gate, enqueues, cancel, held, pauses, faults>>

-----------------------------------------------------------------------------
(***************************************************************************)
(* The host of the slot's execution, and recovery after a restart.         *)
(***************************************************************************)

\* The runtime ends the execution and returns.  It returns while the execution
\* is live when a closed registry has asked it to yield, and when it lost its
\* lease or could not store the unwind.
HostEnds ==
    /\ slot.state = "bound" /\ Live(slot.exec)
    /\ \E state \in {"succeeded", "failed"} :
          execs' = [execs EXCEPT ![slot.exec].state = state]
    /\ UNCHANGED slot

HostReturns ==
    /\ slot.state = "bound"
    /\ ~ Live(slot.exec) \/ mode = "closed" \/ "unwind" \in HostFailures
    /\ ReleaseSlot /\ UNCHANGED execs

\* runRecovery, once the lease of the dead host has run out.  A runtime that
\* cannot be built frees the slot, and nobody tries again before a restart.
HostRecovers ==
    /\ slot.state = "reserved" /\ slot.exec # 0
    /\ \/ BindHost(slot.exec)
       \/ ("recover" \in HostFailures \/ mode = "closed") /\ ReleaseSlot
    /\ UNCHANGED execs

Host ==
    /\ HostEnds \/ HostReturns \/ HostRecovers
    /\ UNCHANGED <<inputs, paused, mode, boot, runner, gate, enqueues, cancel,
                   held, pauses, faults>>

\* RecoverSessions runs while the API is already served: Recover loads the
\* session's execution and reserves a slot for it, then the supervisor looks at
\* the queues.
LoadRecoveryCandidate ==
    /\ boot.pc = "load"
    /\ boot' = IF Live(Current)
               THEN [pc |-> "reserve", exec |-> Current] ELSE [pc |-> "queue", exec |-> 0]
    /\ UNCHANGED <<runner, slot>>

ReserveRecovery ==
    /\ boot.pc = "reserve"
    /\ boot' = [pc |-> "queue", exec |-> 0]
    /\ slot' = IF SlotFree THEN [state |-> "reserved", exec |-> boot.exec] ELSE slot
    /\ UNCHANGED runner

\* Variant: recovery does not look at the queues.
RecoverQueueSkipped ==
    /\ boot.pc = "queue"
    /\ boot' = Recovered
    /\ UNCHANGED <<runner, slot>>

RecoverQueue ==
    /\ boot.pc = "queue"
    /\ boot' = Recovered
    /\ IF paused THEN UNCHANGED runner ELSE Schedule
    /\ UNCHANGED slot

Recovery ==
    /\ mode # "down"
    /\ LoadRecoveryCandidate \/ ReserveRecovery \/ RecoverQueue
    /\ UNCHANGED <<durable, mode, gate, enqueues, cancel, held, pauses, faults>>

-----------------------------------------------------------------------------
(***************************************************************************)
(* The service calls.                                                      *)
(***************************************************************************)

\* EnqueueInput loads the session, stores the input and schedules the runner
\* unless the session it loaded was paused.  A client whose call died with the
\* process calls again.
EnqueueInput(id) ==
    \/ /\ enqueues[id] = NoCall /\ SupervisorUp
       /\ enqueues' = [enqueues EXCEPT ![id] = [pc |-> "loaded", paused |-> paused]]
       /\ UNCHANGED <<inputs, runner, held>>
    \/ /\ enqueues[id].pc = "loaded"
       /\ Enqueued(id)
       /\ held' = IF paused /\ ~ Stored(id) THEN held \cup {id} ELSE held
       /\ enqueues' = [enqueues EXCEPT ![id].pc = "stored"]
       /\ UNCHANGED runner
    \/ /\ enqueues[id].pc = "stored"
       /\ IF enqueues[id].paused THEN UNCHANGED runner ELSE Schedule
       /\ enqueues' = [enqueues EXCEPT ![id] = Answered]
       /\ UNCHANGED <<inputs, held>>

Enqueue ==
    /\ mode # "down"
    /\ \E id \in Ids : EnqueueInput(id)
    /\ UNCHANGED <<execs, paused, mode, boot, slot, gate, cancel, pauses, faults>>

\* CancelInput loads the input, at the revision the caller expects; an input
\* that is being bound is refused.
CancelLoad(n) ==
    /\ cancel = NoCancel
    /\ inputs[n].state = "queued" \/ (inputs[n].state = "dispatching" /\ inputs[n].exec # 0)
    /\ cancel' = [pc |-> IF inputs[n].state = "queued" THEN "queued" ELSE "hosted",
                  at |-> n, rev |-> inputs[n].rev, exec |-> inputs[n].exec]
    /\ UNCHANGED <<inputs, execs, slot>>

\* CancelQueued stores the cancellation at the revision that was loaded.
CancelQueued ==
    /\ cancel.pc = "queued"
    /\ inputs' = IF inputs[cancel.at].rev = cancel.rev /\ inputs[cancel.at].state = "queued"
                 THEN Settle(cancel.at, "cancelled") ELSE inputs
    /\ cancel' = NoCancel
    /\ UNCHANGED <<execs, slot>>

CancelledExec ==
    execs' = IF cancel.exec = Current /\ Live(Current)
             THEN [execs EXCEPT ![Current].state = "cancelled"] ELSE execs

\* Backend Cancel: a bound host persists the cancellation unless it has been
\* asked to yield, a reserved slot is given up first, and the slot of another
\* execution refuses the call.
CancelHosted ==
    /\ cancel.pc = "hosted"
    /\ \/ /\ slot.state = "bound" /\ slot.exec = cancel.exec
          /\ CancelledExec \/ (mode = "closed" /\ UNCHANGED execs)
          /\ cancel' = NoCancel
          /\ UNCHANGED slot
       \/ /\ slot = NoSlot \/ (slot.state = "reserved" /\ slot.exec = cancel.exec)
          /\ ReleaseSlot
          /\ cancel' = [cancel EXCEPT !.pc = "unhosted"]
          /\ UNCHANGED execs
       \/ /\ slot # NoSlot /\ slot.exec # cancel.exec
          /\ cancel' = NoCancel
          /\ UNCHANGED <<execs, slot>>
    /\ UNCHANGED inputs

CancelUnhosted ==
    /\ cancel.pc = "unhosted"
    /\ CancelledExec
    /\ cancel' = NoCancel
    /\ UNCHANGED <<inputs, slot>>

CancelInput ==
    /\ Cancels /\ mode # "down"
    /\ \/ \E n \in DOMAIN inputs : CancelLoad(n)
       \/ CancelQueued \/ CancelHosted \/ CancelUnhosted
    /\ UNCHANGED <<paused, mode, boot, runner, gate, enqueues, held, pauses, faults>>

Directs == Cardinality({e \in DOMAIN execs : execs[e].content = Direct})

\* SubmitMessage holds the session gate from the drain check to the bound host.
SubmitMessage ==
    \/ /\ gate = NoHolder /\ SupervisorUp /\ Directs < MaxDirects
       /\ gate' = [NoHolder EXCEPT !.pc = "reserve"]
       /\ UNCHANGED <<execs, slot>>
    \/ /\ gate.pc = "reserve"
       /\ \/ Reserve /\ gate' = [gate EXCEPT !.pc = "submit"]
          \/ ~ SlotFree /\ gate' = NoHolder /\ slot' = slot
       /\ UNCHANGED execs
    \/ /\ gate.pc = "submit"
       /\ \/ /\ SubmitPrompt(Direct) /\ slot' = slot
             /\ gate' = [pc |-> "hostbind", exec |-> Current + 1]
          \/ /\ ~ Accepts \/ "submit" \in HostFailures
             /\ ReleaseSlot /\ gate' = NoHolder /\ UNCHANGED execs
    \/ /\ gate.pc = "hostbind"
       /\ BindHost(gate.exec) \/ (mode = "closed" /\ ReleaseSlot)
       /\ gate' = NoHolder
       /\ UNCHANGED execs

DirectMessage ==
    /\ mode # "down"
    /\ SubmitMessage
    /\ UNCHANGED <<inputs, paused, mode, boot, runner, enqueues, cancel, held, pauses, faults>>

PauseSession ==
    /\ gate = NoHolder /\ ~ paused /\ pauses < MaxPauses
    /\ paused' = TRUE /\ pauses' = pauses + 1
    /\ held' = {inputs[n].id : n \in {m \in DOMAIN inputs : inputs[m].state = "queued"}}
    /\ UNCHANGED <<gate, runner>>

\* SetSessionPaused(false): the session is saved, then the runner scheduled.
ResumeSession ==
    \/ /\ gate = NoHolder /\ paused
       /\ paused' = FALSE /\ held' = {}
       /\ gate' = [NoHolder EXCEPT !.pc = "resume"]
       /\ UNCHANGED <<runner, pauses>>
    \/ /\ gate.pc = "resume"
       /\ Schedule /\ gate' = NoHolder
       /\ UNCHANGED <<paused, held, pauses>>

SetSessionPaused ==
    /\ mode # "down"
    /\ PauseSession \/ ResumeSession
    /\ UNCHANGED <<inputs, execs, mode, boot, slot, enqueues, cancel, faults>>

-----------------------------------------------------------------------------
(***************************************************************************)
(* Shutdown in two phases, crash and restart.                              *)
(***************************************************************************)

ProcessEnds ==
    /\ boot' = Booting /\ runner' = NoRunner /\ slot' = NoSlot /\ gate' = NoHolder
    /\ enqueues' = [id \in Ids |->
                      IF enqueues[id] = Answered THEN Answered ELSE NoCall]
    /\ cancel' = NoCancel

\* Drain: new work is refused and the supervisor stopped.
Drain ==
    /\ mode = "open" /\ faults < MaxFaults
    /\ mode' = "draining" /\ faults' = faults + 1
    /\ UNCHANGED volatile

\* beginClose, after the runners returned or the shutdown deadline passed.
CloseHosts ==
    /\ mode = "draining"
    /\ mode' = "closed"
    /\ UNCHANGED <<volatile, faults>>

\* The process exits when the hosts have returned or the deadline passed.
Exit ==
    /\ mode = "closed" /\ mode' = "down"
    /\ ProcessEnds /\ UNCHANGED faults

Crash ==
    /\ mode # "down" /\ faults < MaxFaults
    /\ mode' = "down" /\ faults' = faults + 1
    /\ ProcessEnds

Restart ==
    /\ mode = "down" /\ mode' = "open"
    /\ UNCHANGED <<volatile, faults>>

Process ==
    /\ Drain \/ CloseHosts \/ Exit \/ Crash \/ Restart
    /\ UNCHANGED <<durable, held, pauses>>

Next ==
    \/ Runner \/ Host \/ Recovery \/ Enqueue \/ CancelInput
    \/ DirectMessage \/ SetSessionPaused \/ Process

Spec == Init /\ [][Next]_vars

\* Steps that are already under way are taken as long as the process lives,
\* an execution ends, a shutdown goes on and a dead process is restarted.
Fairness ==
    /\ WF_vars(Runner) /\ WF_vars(Host) /\ WF_vars(Recovery)
    /\ \A id \in Ids :
          WF_vars(Enqueue /\ enqueues[id].pc \in {"loaded", "stored"} /\ enqueues'[id] # enqueues[id])
    /\ WF_vars(CancelInput /\ cancel # NoCancel)
    /\ WF_vars(DirectMessage /\ gate # NoHolder)
    /\ WF_vars(SetSessionPaused /\ gate # NoHolder)
    /\ WF_vars(Process /\ mode # "open" /\ faults' = faults)

FairSpec == Spec /\ Fairness

-----------------------------------------------------------------------------
(***************************************************************************)
(* Properties.                                                             *)
(***************************************************************************)

Pcs == {"none", "load", "leave", "acquire", "boundary", "settled", "adopted", "recheck",
        "reserve", "submit", "hostbind", "bind", "await", "collect", "fail"}

InputSet == [id : Ids, state : InputStates, exec : Nat, rev : Nat, since : Nat]
ExecSet == [state : ExecStates, content : Ids \cup {Direct}]
RunnerSet == [pc : Pcs, at : Nat, resumed : BOOLEAN, exec : Nat]
SlotSet == [state : {"none", "reserved", "bound"}, exec : Nat]
CancelSet == [pc : {"none", "queued", "hosted", "unhosted"}, at : Nat, rev : Nat, exec : Nat]

\* The records of the queue, the runner, the slot and the calls are well formed.
TypeOK ==
    /\ inputs \in Seq(InputSet) /\ execs \in Seq(ExecSet)
    /\ paused \in BOOLEAN /\ mode \in {"open", "draining", "closed", "down"}
    /\ boot \in [pc : {"load", "reserve", "queue", "done"}, exec : Nat]
    /\ runner \in RunnerSet /\ slot \in SlotSet /\ cancel \in CancelSet
    /\ gate \in [pc : {"free", "resume", "reserve", "submit", "hostbind"}, exec : Nat]
    /\ enqueues \in [Ids -> [pc : {"none", "loaded", "stored", "answered"}, paused : BOOLEAN]]
    /\ held \subseteq Ids /\ pauses \in 0..MaxPauses /\ faults \in 0..MaxFaults

Taken(in) == in.state = "dispatching" \/ in.exec # 0 \/ in.state \in {"succeeded", "failed"}

\* "A trajectory dispatches at most one input at a time", and in order: when an
\* input has been taken, every input before it is settled, across pauses, failed
\* hosts, crashes and restarts of the runner (the theorem Order of GatewayProofs
\* adds cancellations).
InputsInOrder ==
    \A n \in DOMAIN inputs : Taken(inputs[n]) =>
        \A m \in 1..n - 1 : inputs[m].state \in TerminalStates

\* An input becomes at most one execution, although the process may die between
\* the acceptance of the execution and the binding of the input.
SubmittedOnce ==
    \A d, e \in DOMAIN execs :
        execs[d].content = execs[e].content /\ execs[d].content # Direct => d = e

\* "Pause prevents the next dispatch": an input that was waiting when the pause
\* was saved, or came later, is not submitted before the session is resumed.
PauseHolds ==
    \A e \in DOMAIN execs : execs[e].content \notin held

\* What an input reports is the outcome of the execution of its own content.
ResultIsOwn ==
    \A n \in DOMAIN inputs : inputs[n].state \in TerminalStates =>
        LET own == {e \in DOMAIN execs : execs[e].content = inputs[n].id} IN
        /\ inputs[n].state = "succeeded" => own # {}
        /\ \A e \in own : execs[e].state = inputs[n].state

Settled(id) ==
    \E n \in DOMAIN inputs : inputs[n].id = id /\ inputs[n].state \in TerminalStates

\* The session's execution is live and its host is gone for good: its recovery
\* could not build a runtime, or it returned without storing an outcome.  Only a
\* restart recovers it, and only a cancellation settles it before.
HostLost ==
    /\ Live(Current) /\ slot = NoSlot
    /\ mode = "open" /\ boot = Recovered /\ cancel = NoCancel

\* "Each accepted input progresses through queued, dispatching, and one of
\* succeeded, failed, or cancelled", unless its session is paused or an execution
\* has lost its host, for which the runner then polls: across crashes, shutdowns,
\* cancellations and hosts that fail, and again after the restart that recovers
\* the lost execution.
InputsSettle ==
    \A id \in Ids : Stored(id) ~> (Settled(id) \/ paused \/ HostLost)

=============================================================================
