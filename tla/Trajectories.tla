---------------------------- MODULE Trajectories ----------------------------
(***************************************************************************)
(* One durable trajectory and the runtimes that execute its prompts: the   *)
(* trajectory store (an append-only entry log with a movable head and one  *)
(* current execution behind a lease and a fencing token), and the runtime  *)
(* paths that accept, claim, run, recover, unwind, cancel and roll back.   *)
(*                                                                         *)
(* Entry identifiers are log positions, execution identifiers are the      *)
(* order of acceptance, and fencing tokens are claim numbers.  The store   *)
(* keeps only the last element of execs; the earlier ones are history that *)
(* the properties read.  A host is one runtime process with one session on *)
(* this trajectory and one caller of CancelExecution.                      *)
(***************************************************************************)
EXTENDS Integers, Sequences, FiniteSets, FiniteSetsExt

CONSTANTS
    Hosts,          \* runtimes sharing the store
    LeaseTicks,     \* RuntimeConfig.TrajectoryLease, in ticks
    MaxTurns,       \* SessionConfig.MaxTurns
    Timely,         \* heartbeats and unwinds beat the lease
    Drains,         \* RequestDrain happens
    Closes,         \* RequestClose happens
    UnwindFaults,   \* a store call of the failure unwind may fail or time out
    Cancels,        \* hosts whose callers cancel executions
    Rollbacks,      \* RollbackTrajectory happens
    MaxExecutions,  \* bound: prompts accepted
    MaxEntries,     \* bound: entries in the log
    MaxClaims,      \* bound: claims, hence fencing tokens
    MaxFaults       \* bound: crashes, shutdowns, failed renewals and unwinds

ASSUME ConstantsAssumption ==
    /\ LeaseTicks \in Nat \ {0}
    /\ MaxTurns \in Nat \ {0}
    /\ Cancels \subseteq Hosts
    /\ {Timely, Drains, Closes, UnwindFaults, Rollbacks} \subseteq BOOLEAN
    /\ {MaxExecutions, MaxEntries, MaxClaims, MaxFaults} \subseteq Nat

VARIABLES
    entries,    \* the log: user, step, checkpoint, terminal, restore, rollback
    head,       \* active head, 0 when the log is empty
    execs,      \* executions in order of acceptance; the last is current
    claims,     \* fencing tokens issued
    run,        \* per host: the session's execution in progress
    mode,       \* per host: open, draining, closing, down
    cancel,     \* per host: CancelExecution in progress
    faults      \* bound: faults so far

vars == <<entries, head, execs, claims, run, mode, cancel, faults>>
store == <<entries, head, execs, claims>>

Kinds == {"user", "step", "checkpoint", "terminal", "restore", "rollback"}
States == {"pending", "running", "succeeded", "failed", "cancelled"}
Modes == {"open", "draining", "closing", "down"}

Entry(kind, parent, exec, turn, stop) ==
    [kind |-> kind, parent |-> parent, exec |-> exec, turn |-> turn, stop |-> stop]

(* Host program counters.  A session in a Claimed one is a registered host *)
(* whose heartbeat runs until its context is done.                         *)
Writing == {"restore", "turn", "mid", "finish"}
Claimed == Writing \cup {"failing", "unwind"}
Counters ==
    Claimed \cup {"started", "idle", "moving", "resumed", "accepted", "planned"}

IdleRun ==
    [pc |-> "idle", exec |-> 0, token |-> 0, plan |-> 0, head |-> 0,
     target |-> 0, turn |-> 0, ctx |-> "live", out |-> "none"]

NoCancel == [pc |-> "idle", id |-> 0, head |-> 0, base |-> 0, tries |-> 0]

TypeOK ==
    /\ entries \in Seq([kind : Kinds, parent : Nat, exec : Nat, turn : Nat,
                        stop : BOOLEAN])
    /\ head \in 0..Len(entries)
    /\ execs \in Seq([state : States, token : Nat, lease : 0..LeaseTicks,
                      base : Nat, input : Nat])
    /\ claims \in Nat
    /\ run \in [Hosts -> [pc : Counters, exec : Nat, token : Nat, plan : Nat,
                          head : Nat, target : Nat, turn : Nat,
                          ctx : {"live", "cancelled", "lost"},
                          out : {"none", "release", "handoff", "failed",
                                 "cancelled"}]]
    /\ mode \in [Hosts -> Modes]
    /\ cancel \in [Hosts -> [pc : {"idle", "waiting", "read", "commit"},
                             id : Nat, head : Nat, base : Nat, tries : Nat]]
    /\ faults \in Nat

----------------------------------------------------------------------------
(* The entry tree.  A parent is always an earlier entry, so walking the    *)
(* branch down from a head visits descending positions.                    *)

BranchIn(log, entry) ==
    LET up[i \in 0..Len(log)] ==
            IF i = 0 THEN {} ELSE {i} \cup up[log[i].parent]
    IN up[entry]

Branch(entry) == BranchIn(entries, entry)

LatestCheckpoint(from) ==
    Max({0} \cup {i \in Branch(from) : entries[i].kind = "checkpoint"})

HeadRestoresAnchor(from, anchor) ==
    \/ from = anchor
    \/ /\ from # 0
       /\ entries[from].kind \in {"restore", "rollback"}
       /\ entries[from].parent = anchor

----------------------------------------------------------------------------
(* The store.  Every operation is one transaction under the store's lock.  *)

Live(execution) == execution.state \in {"pending", "running"}

Current == execs[Len(execs)]

Active == execs # <<>> /\ Live(Current)

\* Variant: an expired lease is not recoverable.
RecoverablePending == Active /\ Current.state = "pending"

RecoverableNow ==
    /\ Active
    /\ ~ (Current.state = "running" /\ Current.lease > 0)

\* Variant: the fencing token is not compared.
HoldsUnfenced(id, token) == id = Len(execs)

Holds(id, token) ==
    /\ id = Len(execs)
    /\ Current.state = "running"
    /\ Current.token = token
    /\ Current.lease > 0

Room(n) == Len(entries) + n <= MaxEntries

AppendEntries(new) ==
    /\ Room(Len(new))
    /\ entries' = entries \o new
    /\ head' = Len(entries) + Len(new)

Settle(execution, state) ==
    IF state = "running" THEN execution
    ELSE [execution EXCEPT !.state = state, !.token = 0, !.lease = 0]

SetCurrent(execution) ==
    execs' = [execs EXCEPT ![Len(execs)] = execution]

(* Completion entries: an optional terminal entry on the head that was     *)
(* read, and an optional restore entry on the execution's base.            *)
Completion(from, base, id, terminal, restore) ==
    (IF terminal THEN <<Entry("terminal", from, id, 0, FALSE)>> ELSE <<>>) \o
    (IF restore THEN <<Entry("restore", base, id, 0, FALSE)>> ELSE <<>>)

----------------------------------------------------------------------------
Init ==
    /\ entries = <<>>
    /\ head = 0
    /\ execs = <<>>
    /\ claims = 0
    /\ run = [h \in Hosts |-> IdleRun]
    /\ mode = [h \in Hosts |-> "open"]
    /\ cancel = [h \in Hosts |-> NoCancel]
    /\ faults = 0

Become(h, r) == run' = [run EXCEPT ![h] = r]

----------------------------------------------------------------------------
(* Accepting a prompt: ResumeSession, then SubmitPrompt.                   *)

\* Variant: the outcome of the last execution is ignored.
ResumeLatest == LatestCheckpoint(head)

(* The head a resumed session continues from: the execution's base after a *)
(* failure or cancellation, the latest checkpoint of the branch otherwise. *)
ResumeHead ==
    IF execs # <<>> /\ Current.state \in {"failed", "cancelled"}
    THEN Current.base
    ELSE LatestCheckpoint(head)

ResumeSession(h) ==
    /\ run[h].pc = "idle"
    /\ mode[h] = "open"
    /\ Len(execs) < MaxExecutions
    /\ ~ Active
    /\ Become(h, [IdleRun EXCEPT
            !.pc = IF HeadRestoresAnchor(head, ResumeHead) THEN "resumed"
                                                           ELSE "moving",
            !.head = head,
            !.target = ResumeHead])
    /\ UNCHANGED <<store, mode, cancel, faults>>

\* Variant: the head moves whatever happened since it was read.
MoveHeadUnchecked(h) ==
    /\ run[h].pc = "moving"
    /\ AppendEntries(<<Entry("restore", run[h].target, 0, 0, FALSE)>>)
    /\ Become(h, [run[h] EXCEPT !.pc = "resumed", !.head = head'])
    /\ UNCHANGED <<execs, claims, mode, cancel, faults>>

(* moveTrajectoryHead: an unfenced Append, refused when the head moved or  *)
(* an execution became active since the metadata was read.                 *)
MoveHead(h) ==
    /\ run[h].pc = "moving"
    /\ \/ /\ ~ Active
          /\ head = run[h].head
          /\ AppendEntries(<<Entry("restore", run[h].target, 0, 0, FALSE)>>)
          /\ Become(h, [run[h] EXCEPT !.pc = "resumed", !.head = head'])
       \/ /\ Active \/ head # run[h].head
          /\ Become(h, IdleRun)
          /\ UNCHANGED <<entries, head>>
    /\ UNCHANGED <<execs, claims, mode, cancel, faults>>

\* Variant: the prompt continues from the head the session was resumed at.
SubmitPromptStale(h) ==
    /\ run[h].pc = "resumed"
    /\ mode[h] = "open"
    /\ ~ Active
    /\ Len(execs) < MaxExecutions
    /\ AppendEntries(<<Entry("user", run[h].head, Len(execs) + 1, 0, FALSE)>>)
    /\ execs' = Append(execs, [state |-> "pending", token |-> 0, lease |-> 0,
                               base |-> run[h].head, input |-> Len(entries) + 1])
    /\ Become(h, [run[h] EXCEPT !.pc = "accepted", !.head = head',
                                !.plan = Len(execs) + 1])
    /\ UNCHANGED <<claims, mode, cancel, faults>>

SubmitPrompt(h) ==
    /\ run[h].pc = "resumed"
    /\ \/ /\ mode[h] = "open"
          /\ ~ Active
          /\ head = run[h].head
          /\ Len(execs) < MaxExecutions
          /\ AppendEntries(<<Entry("user", head, Len(execs) + 1, 0, FALSE)>>)
          /\ execs' = Append(execs, [state |-> "pending", token |-> 0,
                                     lease |-> 0, base |-> head,
                                     input |-> Len(entries) + 1])
          /\ Become(h, [run[h] EXCEPT !.pc = "accepted", !.head = head',
                                      !.plan = Len(execs) + 1])
       \/ /\ mode[h] # "open" \/ Active \/ head # run[h].head
                \/ Len(execs) >= MaxExecutions
          /\ Become(h, IdleRun)
          /\ UNCHANGED <<entries, head, execs>>
    /\ UNCHANGED <<claims, mode, cancel, faults>>

----------------------------------------------------------------------------
(* Claiming: a submission claims what it submitted, a recovery host claims *)
(* after planning from metadata it read before the claim.  A host looks for*)
(* an execution to recover when it starts, and may do so at any time.      *)

\* Variant: recovery always starts from the input.
PlanFromInput(h) ==
    /\ run[h].pc \in {"started", "idle"}
    /\ mode[h] = "open"
    /\ claims < MaxClaims
    /\ RecoverableNow
    /\ Become(h, [IdleRun EXCEPT !.pc = "planned", !.plan = Len(execs),
                                 !.head = head, !.target = Current.input])
    /\ UNCHANGED <<store, mode, cancel, faults>>

PlanRecovery(h) ==
    LET checkpoint == LatestCheckpoint(head)
        owned == checkpoint # 0 /\ entries[checkpoint].exec = Len(execs)
    IN
    /\ run[h].pc \in {"started", "idle"}
    /\ mode[h] = "open"
    /\ claims < MaxClaims
    /\ RecoverableNow
    /\ Become(h, [IdleRun EXCEPT
            !.pc = "planned",
            !.plan = Len(execs),
            !.head = head,
            !.target = IF owned THEN checkpoint ELSE Current.input,
            !.turn = IF owned THEN entries[checkpoint].turn ELSE 0])
    /\ UNCHANGED <<store, mode, cancel, faults>>

(* A host that starts and finds nothing to recover.                        *)
NothingToRecover(h) ==
    /\ run[h].pc = "started"
    /\ mode[h] = "open"
    /\ ~ Active
    /\ Become(h, IdleRun)
    /\ UNCHANGED <<store, mode, cancel, faults>>

Claim ==
    /\ RecoverableNow
    /\ claims < MaxClaims
    /\ claims' = claims + 1
    /\ SetCurrent([Current EXCEPT !.state = "running", !.token = claims + 1,
                                  !.lease = LeaseTicks])

(* PromptSubmission.Run.  A claim that took another execution than the one *)
(* submitted is abandoned to lease expiry.                                 *)
RunSubmission(h) ==
    /\ run[h].pc = "accepted"
    /\ \/ /\ mode[h] = "open"
          /\ Claim
          /\ Become(h, IF run[h].plan = Len(execs)
                       THEN [run[h] EXCEPT !.pc = "turn", !.exec = Len(execs),
                                           !.token = claims']
                       ELSE IdleRun)
       \/ /\ mode[h] # "open" \/ ~ RecoverableNow \/ claims >= MaxClaims
          /\ Become(h, IdleRun)
          /\ UNCHANGED <<execs, claims>>
    /\ UNCHANGED <<entries, head, mode, cancel, faults>>

RecoverExecution(h) ==
    /\ run[h].pc = "planned"
    /\ \/ /\ Claim
          /\ Become(h, [run[h] EXCEPT !.pc = "restore", !.exec = Len(execs),
                                      !.token = claims'])
       \/ /\ ~ RecoverableNow \/ claims >= MaxClaims
          /\ Become(h, IdleRun)
          /\ UNCHANGED <<execs, claims>>
    /\ UNCHANGED <<entries, head, mode, cancel, faults>>

----------------------------------------------------------------------------
(* Running a claimed execution.                                            *)

CtxDone(h) == run[h].ctx # "live" \/ mode[h] = "closing"

CanCommit(h) ==
    /\ ~ CtxDone(h)
    /\ head = run[h].head
    /\ Holds(run[h].exec, run[h].token)

(* The error unwind starts: a cancelled context makes it a cancellation,   *)
(* any other error (a lost lease, a conflict, a provider) a failure.       *)
Failing(h) ==
    [run[h] EXCEPT
        !.pc = "failing",
        !.out = IF run[h].ctx = "cancelled" \/ mode[h] = "closing"
                THEN "cancelled" ELSE "failed"]

(* commitExecution: append one entry under the token and the session head. *)
CommitEntry(h, kind, parent, turn, stop, state) ==
    /\ CanCommit(h)
    /\ AppendEntries(<<Entry(kind, parent, run[h].exec, turn, stop)>>)
    /\ SetCurrent(Settle(Current, state))
    /\ UNCHANGED claims

AfterRestore(h, at) ==
    [run[h] EXCEPT
        !.pc = IF entries[run[h].target].stop THEN "finish" ELSE "turn",
        !.head = at]

(* continueRecoveredExecution: move the head to the recovery base unless   *)
(* the session's head is there already.                                    *)
RestoreExecutionHead(h) ==
    /\ run[h].pc = "restore"
    /\ \/ /\ HeadRestoresAnchor(run[h].head, run[h].target)
          /\ Become(h, AfterRestore(h, run[h].head))
          /\ UNCHANGED store
       \/ /\ ~ HeadRestoresAnchor(run[h].head, run[h].target)
          /\ CommitEntry(h, "restore", run[h].target, 0, FALSE, "running")
          /\ Become(h, AfterRestore(h, head'))
    /\ UNCHANGED <<mode, cancel, faults>>

(* start: a hook blocks the prompt before the first turn; the checkpoint   *)
(* of the blocked prompt stops the execution.                              *)
PromptBlocked(h) ==
    /\ run[h].pc = "turn"
    /\ run[h].turn = 0
    /\ CommitEntry(h, "checkpoint", run[h].head, 0, TRUE, "running")
    /\ Become(h, [run[h] EXCEPT !.pc = "finish", !.head = head'])
    /\ UNCHANGED <<mode, cancel, faults>>

(* The entries a turn commits before its checkpoint (agent start, provider *)
(* request and response, tool results, decision) are one step entry.       *)
TurnProgress(h) ==
    /\ run[h].pc = "turn"
    /\ CommitEntry(h, "step", run[h].head, run[h].turn, FALSE, "running")
    /\ Become(h, [run[h] EXCEPT !.pc = "mid", !.head = head'])
    /\ UNCHANGED <<mode, cancel, faults>>

(* applyAction: checkpoint the turn with a step or stop action.  The last  *)
(* turn stops; a drain request is seen after a step.                       *)
CheckpointTurn(h) ==
    /\ run[h].pc = "mid"
    /\ \E stop \in BOOLEAN :
        LET next == [run[h] EXCEPT !.pc = IF stop THEN "finish" ELSE "turn",
                                   !.head = head', !.turn = @ + 1]
        IN
        /\ run[h].turn + 1 >= MaxTurns => stop
        /\ CommitEntry(h, "checkpoint", run[h].head, run[h].turn + 1, stop,
                       "running")
        /\ Become(h, IF stop \/ mode[h] = "open" THEN next
                     ELSE [next EXCEPT !.pc = "failing", !.out = "failed"])
    /\ UNCHANGED <<mode, cancel, faults>>

(* finish: the cause of the stop action decides the state; a cause that    *)
(* means failure is an error of the run instead.                           *)
Finish(h) ==
    /\ run[h].pc = "finish"
    /\ \E state \in {"succeeded", "cancelled"} :
        CommitEntry(h, "terminal", run[h].head, 0, FALSE, state)
    /\ Become(h, IdleRun)
    /\ UNCHANGED <<mode, cancel, faults>>

(* A provider, hook or tool error, at any point of the run.                *)
RunError(h) ==
    /\ run[h].pc \in Writing
    /\ CanCommit(h)
    /\ Become(h, Failing(h))
    /\ UNCHANGED <<store, mode, cancel, faults>>

(* A commit the store refuses, or a context that is done.                  *)
RunRefused(h) ==
    /\ run[h].pc \in Writing
    /\ ~ CanCommit(h)
    /\ Become(h, Failing(h))
    /\ UNCHANGED <<store, mode, cancel, faults>>

----------------------------------------------------------------------------
(* failExecution: read the metadata, choose the outcome, commit it with    *)
(* the token under a detached context.                                     *)

Outcome(h) ==
    IF mode[h] = "draining" THEN "release"
    ELSE IF mode[h] = "closing"
         THEN IF HeadRestoresAnchor(head, Current.base) THEN "release"
                                                        ELSE "handoff"
    ELSE run[h].out

UnwindRead(h) ==
    /\ run[h].pc = "failing"
    /\ Become(h, [run[h] EXCEPT !.pc = "unwind", !.head = head,
                                !.target = Current.base, !.out = Outcome(h)])
    /\ UNCHANGED <<store, mode, cancel, faults>>

UnwindState(out) == IF out \in {"release", "handoff"} THEN "pending" ELSE out

\* Variant: a released execution is recorded as ended.
UnwindRecorded(h) ==
    LET r == run[h] IN
    /\ r.pc = "unwind"
    /\ \/ /\ head = r.head
          /\ Holds(r.exec, r.token)
          /\ AppendEntries(Completion(r.head, r.target, r.exec, TRUE,
                                      r.out # "release"))
          /\ SetCurrent(Settle(Current, UnwindState(r.out)))
       \/ /\ head # r.head \/ ~ Holds(r.exec, r.token)
          /\ UNCHANGED <<entries, head, execs>>
    /\ Become(h, IdleRun)
    /\ UNCHANGED <<claims, mode, cancel, faults>>

UnwindCommit(h) ==
    LET r == run[h]
        completion == Completion(r.head, r.target, r.exec,
                                 r.out \in {"failed", "cancelled"},
                                 r.out # "release")
    IN
    /\ r.pc = "unwind"
    /\ \/ /\ head = r.head
          /\ Holds(r.exec, r.token)
          /\ IF r.out = "release" THEN UNCHANGED <<entries, head>>
                                  ELSE AppendEntries(completion)
          /\ SetCurrent(Settle(Current, UnwindState(r.out)))
       \/ /\ head # r.head \/ ~ Holds(r.exec, r.token)
          /\ UNCHANGED <<entries, head, execs>>
    /\ Become(h, IdleRun)
    /\ UNCHANGED <<claims, mode, cancel, faults>>

(* failExecution returns an error: the host is gone, the execution stays.  *)
UnwindFault(h) ==
    /\ UnwindFaults
    /\ faults < MaxFaults
    /\ run[h].pc \in {"failing", "unwind"}
    /\ Become(h, IdleRun)
    /\ faults' = faults + 1
    /\ UNCHANGED <<store, mode, cancel>>

----------------------------------------------------------------------------
(* executionHeartbeat: renew until the context is done; one failed renewal *)
(* cancels the run with the lease lost.                                    *)

Renew(h) ==
    /\ run[h].pc \in Claimed
    /\ ~ CtxDone(h)
    /\ \/ /\ Holds(run[h].exec, run[h].token)
          /\ Current.lease < LeaseTicks
          /\ SetCurrent([Current EXCEPT !.lease = LeaseTicks])
          /\ UNCHANGED run
       \/ /\ ~ Holds(run[h].exec, run[h].token)
          /\ Become(h, [run[h] EXCEPT !.ctx = "lost"])
          /\ UNCHANGED execs
    /\ UNCHANGED <<entries, head, claims, mode, cancel, faults>>

RenewFault(h) ==
    /\ faults < MaxFaults
    /\ run[h].pc \in Claimed
    /\ ~ CtxDone(h)
    /\ Become(h, [run[h] EXCEPT !.ctx = "lost"])
    /\ faults' = faults + 1
    /\ UNCHANGED <<store, mode, cancel>>

Tick ==
    /\ execs # <<>>
    /\ Current.lease > 0
    /\ Timely /\ Current.lease = 1 =>
           ~ \E h \in Hosts : /\ run[h].pc \in Claimed
                              /\ Holds(run[h].exec, run[h].token)
    /\ SetCurrent([Current EXCEPT !.lease = @ - 1])
    /\ UNCHANGED <<entries, head, claims, run, mode, cancel, faults>>

----------------------------------------------------------------------------
(* CancelExecution: interrupt the local host and wait for its unwind, or   *)
(* cancel in the store, retrying once when the head moved.                 *)

Hosting(h, id) == run[h].pc \in Claimed /\ run[h].exec = id

Interrupt(h, id) ==
    run' = IF Hosting(h, id) /\ ~ CtxDone(h)
           THEN [run EXCEPT ![h].ctx = "cancelled"]
           ELSE run

CancelExecution(h) ==
    /\ h \in Cancels
    /\ cancel[h].pc = "idle"
    /\ mode[h] = "open"
    /\ Active
    /\ Interrupt(h, Len(execs))
    /\ cancel' = [cancel EXCEPT ![h] =
            [NoCancel EXCEPT !.pc = IF Hosting(h, Len(execs)) THEN "waiting"
                                                              ELSE "read",
                             !.id = Len(execs), !.tries = 2]]
    /\ UNCHANGED <<store, mode, faults>>

\* Variant: the caller does not wait for the host.
CancelUnawaited(h) ==
    /\ cancel[h].pc = "waiting"
    /\ cancel' = [cancel EXCEPT ![h] = NoCancel]
    /\ UNCHANGED <<store, run, mode, faults>>

CancelHosted(h) ==
    /\ cancel[h].pc = "waiting"
    /\ ~ Hosting(h, cancel[h].id)
    /\ cancel' = [cancel EXCEPT ![h] = NoCancel]
    /\ UNCHANGED <<store, run, mode, faults>>

CancelRead(h) ==
    /\ cancel[h].pc = "read"
    /\ cancel' = [cancel EXCEPT ![h].pc = "commit", ![h].head = head,
                                ![h].base = Current.base,
                                ![h].tries = @ - 1]
    /\ UNCHANGED <<store, run, mode, faults>>

CancelCommit(h) ==
    LET c == cancel[h]
        current == c.id = Len(execs) /\ Active
    IN
    /\ c.pc = "commit"
    /\ \/ /\ current
          /\ head = c.head
          /\ AppendEntries(Completion(head, c.base, c.id, TRUE, TRUE))
          /\ SetCurrent(Settle(Current, "cancelled"))
          /\ Interrupt(h, c.id)
          /\ cancel' = [cancel EXCEPT ![h] = NoCancel]
       \/ /\ current
          /\ head # c.head
          /\ cancel' = [cancel EXCEPT ![h] =
                    IF c.tries > 0 THEN [c EXCEPT !.pc = "read"] ELSE NoCancel]
          /\ UNCHANGED <<entries, head, execs, run>>
       \/ /\ ~ current
          /\ cancel' = [cancel EXCEPT ![h] = NoCancel]
          /\ IF c.id = Len(execs) /\ Current.state = "cancelled"
             THEN Interrupt(h, c.id)
             ELSE UNCHANGED run
          /\ UNCHANGED <<entries, head, execs>>
    /\ UNCHANGED <<claims, mode, faults>>

(* FenceCancellation: the state alone, without completion entries.         *)
FenceCancellation ==
    /\ Cancels # {}
    /\ Active
    /\ SetCurrent(Settle(Current, "cancelled"))
    /\ UNCHANGED <<entries, head, claims, run, mode, cancel, faults>>

----------------------------------------------------------------------------
(* RollbackTrajectory: an unfenced append on any checkpoint of the log.    *)
RollbackTrajectory(h) ==
    /\ Rollbacks
    /\ mode[h] = "open"
    /\ ~ Active
    /\ \E target \in DOMAIN entries :
        /\ entries[target].kind = "checkpoint"
        /\ AppendEntries(<<Entry("rollback", target, 0, 0, FALSE)>>)
    /\ UNCHANGED <<execs, claims, run, mode, cancel, faults>>

----------------------------------------------------------------------------
(* Runtime lifecycle.  A drain lets admitted trajectory work reach a turn  *)
(* boundary, a close cancels it; both wait for it to return.  Closes makes *)
(* the drain deadline expire.  A crash loses everything but the store.     *)

Unadmitted == {"started", "idle", "resumed", "accepted"}

RequestDrain(h) ==
    /\ Drains
    /\ faults < MaxFaults
    /\ mode[h] = "open"
    /\ mode' = [mode EXCEPT ![h] = "draining"]
    /\ faults' = faults + 1
    /\ UNCHANGED <<store, run, cancel>>

RequestClose(h) ==
    /\ mode[h] \in {"open", "draining"}
    /\ Closes \/ (mode[h] = "draining" /\ run[h].pc \in Unadmitted)
    /\ mode[h] = "open" => faults < MaxFaults
    /\ mode' = [mode EXCEPT ![h] = "closing"]
    /\ faults' = IF mode[h] = "open" THEN faults + 1 ELSE faults
    /\ UNCHANGED <<store, run, cancel>>

FinishClose(h) ==
    /\ mode[h] = "closing"
    /\ run[h].pc \in Unadmitted
    /\ cancel[h].pc = "idle"
    /\ mode' = [mode EXCEPT ![h] = "down"]
    /\ Become(h, IdleRun)
    /\ UNCHANGED <<store, cancel, faults>>

Crash(h) ==
    /\ faults < MaxFaults
    /\ mode[h] # "down"
    /\ mode' = [mode EXCEPT ![h] = "down"]
    /\ Become(h, IdleRun)
    /\ cancel' = [cancel EXCEPT ![h] = NoCancel]
    /\ faults' = faults + 1
    /\ UNCHANGED store

Restart(h) ==
    /\ mode[h] = "down"
    /\ mode' = [mode EXCEPT ![h] = "open"]
    /\ Become(h, [IdleRun EXCEPT !.pc = "started"])
    /\ UNCHANGED <<store, cancel, faults>>

----------------------------------------------------------------------------
Accept(h) == NothingToRecover(h) \/ ResumeSession(h) \/ MoveHead(h) \/ SubmitPrompt(h)

Work(h) ==
    \/ RunSubmission(h) \/ RecoverExecution(h)
    \/ RestoreExecutionHead(h) \/ PromptBlocked(h) \/ TurnProgress(h)
    \/ CheckpointTurn(h) \/ Finish(h) \/ RunRefused(h)
    \/ UnwindRead(h) \/ UnwindCommit(h)

CancelStep(h) == CancelHosted(h) \/ CancelRead(h) \/ CancelCommit(h)

Lifecycle(h) ==
    RequestDrain(h) \/ RequestClose(h) \/ FinishClose(h) \/ Crash(h) \/ Restart(h)

Next ==
    \/ \E h \in Hosts :
        \/ Accept(h) \/ PlanRecovery(h) \/ Work(h) \/ RunError(h)
        \/ Renew(h) \/ RenewFault(h) \/ UnwindFault(h)
        \/ CancelExecution(h) \/ CancelStep(h)
        \/ RollbackTrajectory(h) \/ Lifecycle(h)
    \/ Tick
    \/ FenceCancellation

Spec == Init /\ [][Next]_vars

----------------------------------------------------------------------------
(* The entry the conversation stands on: the base of an execution that is  *)
(* active, failed or cancelled, the head otherwise.                        *)
Stable ==
    IF execs # <<>> /\ Current.state # "succeeded" THEN Current.base ELSE head

Conv == INSTANCE Conversation WITH
    accepted <- Len(execs),
    active <- IF Active THEN Len(execs) ELSE 0,
    history <- {i \in DOMAIN execs : execs[i].input \in Branch(Stable)}

(* The store, the claims, the unwinds and the resumes implement a          *)
(* conversation: whatever crashes, races, recoveries and cancellations     *)
(* happen, only succeeded executions become history and every other one    *)
(* leaves the history as it was.                                           *)
ConversationSpec == Conv!Spec

(* failExecution and finish, of the host that lost an execution and of the *)
(* one that recovered it, race to write its completion; at most one        *)
(* terminal entry is ever logged for it, and none for an execution that is *)
(* still live.  The theorem Settled of TrajectoriesProofs adds the races   *)
(* with CancelExecution.                                                   *)
SettledOnce ==
    \A i, j \in DOMAIN entries :
        /\ entries[i].kind = "terminal" /\ entries[j].kind = "terminal"
        /\ entries[i].exec = entries[j].exec
        => i = j /\ ~Live(execs[entries[i].exec])

(* While an execution is active, nothing but it extends the branch beyond  *)
(* its base: the active branch is its base's branch and its own entries.   *)
ActiveBranchOwned ==
    Active => \A i \in Branch(head) \ Branch(Current.base) :
                  entries[i].exec = Len(execs)

(* Recovery resumes after the latest checkpoint of the execution: no turn  *)
(* of an execution is checkpointed twice.                                  *)
NoTurnRedone ==
    \A i, j \in DOMAIN entries :
        /\ i < j
        /\ entries[i].kind = "checkpoint"
        /\ entries[j].kind = "checkpoint"
        /\ entries[i].exec = entries[j].exec
        => entries[i].turn < entries[j].turn

(* A terminal execution is final: it changes no more, and nothing is       *)
(* logged for it any more, whoever still believes to hold its lease.       *)
NothingAfterSettled ==
    [][\A id \in DOMAIN execs :
          ~ Live(execs[id]) =>
              /\ execs'[id] = execs[id]
              /\ \A i \in DOMAIN entries' \ DOMAIN entries :
                     entries'[i].exec # id]_vars

(* A caller whose CancelExecution waited for the local host returns only   *)
(* once the execution is settled.                                          *)
CancelSettles ==
    [][\A h \in Hosts :
          cancel[h].pc = "waiting" /\ cancel'[h].pc = "idle" /\ mode'[h] # "down"
              => ~ Live(execs[cancel[h].id])]_vars

=============================================================================
