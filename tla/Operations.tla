------------------------------ MODULE Operations ------------------------------
(***************************************************************************)
(* Durable operations: the operation store with its revisions and fenced   *)
(* leases (sdk/storage), the workers that claim, renew, execute and        *)
(* complete operations (internal/operationworker), the standalone server   *)
(* that recovers them at start (pluginrpc) and the runtime that submits,   *)
(* awaits and cancels them (sdk/runtime).                                  *)
(*                                                                         *)
(* Wall-clock time appears only as what is left of each lease: Tick takes  *)
(* one unit from every lease and timer.  A caller's clock may be off by up *)
(* to Skew units, so a caller that is s units ahead sees a lease with      *)
(* `left' units as valid when left > s.                                    *)
(***************************************************************************)
EXTENDS Integers

CONSTANTS
    Ids,            \* operation identities (sdk.NewID never repeats one)
    Keys,           \* idempotency keys
    Inputs,         \* submission contents that SameSubmission tells apart
    Resources,      \* resource revisions
    Hosts,          \* processes: runtimes and standalone plugin servers
    Standalone,     \* the hosts that scan for operations when they start
    Callers,        \* the hosts whose callers submit, await and cancel
    NoId,           \* the value of a free slot of the key index
    TTL,            \* lease duration
    Skew,           \* bound on the clock error of a caller
    MaxRevision,    \* bound: no renewal from this revision on
    MaxClaims,      \* bound: claims of one operation
    MaxFaults,      \* bound: crashes, shutdowns and failed store calls
    Resubmits,      \* TRUE: callers may submit a key again
    StoreFaults,    \* TRUE: store calls of a worker may fail
    Timely          \* TRUE: workers with live contexts call the store in time

ASSUME OperationsAssumption ==
    /\ TTL \in Nat /\ Skew \in Nat /\ Skew < TTL
    /\ MaxRevision \in Nat /\ MaxClaims \in Nat /\ MaxFaults \in Nat
    /\ Resubmits \in BOOLEAN /\ StoreFaults \in BOOLEAN /\ Timely \in BOOLEAN
    /\ NoId \notin Ids /\ Standalone \subseteq Hosts /\ Callers \subseteq Hosts
    /\ Ids # {} /\ Hosts # {} /\ Keys # {} /\ Inputs # {} /\ Resources # {}

VARIABLES
    ops,        \* the store's records
    keys,       \* the store's idempotency index
    up,         \* "up", "draining", "closing" or "down" for each host
    resource,   \* the resource revision each host serves
    run,        \* the worker of each host and operation (Inflight slot)
    starts,     \* operations each host is about to start a worker for
    cancel,     \* the cancellation each host is performing
    recovery,   \* the recovery task of each host and operation
    seen,       \* the last snapshot each host's await observed
    faults      \* crashes, shutdowns and store failures so far

vars == <<ops, keys, up, resource, run, starts, cancel, recovery, seen, faults>>

hostVars == <<up, resource, cancel, recovery, faults>>

Terminal == {"succeeded", "failed", "cancelled"}

\* "absent" and "purged" both stand for no row; a purged ID is never reused.
States == {"absent", "pending", "running", "purged"} \cup Terminal

Results == {"none", "output", "executeError", "contextError", "invalid"}

Skews == (-Skew)..Skew

NoRecord(k, x, r) ==
    [state |-> "absent", revision |-> 0, key |-> k, input |-> x, resource |-> r,
     token |-> 0, left |-> 0, result |-> "none", claims |-> 0, writer |-> 0]

\* The place of an operation that is not in the store.
Blank(state) ==
    [NoRecord(CHOOSE k \in Keys : TRUE, CHOOSE x \in Inputs : TRUE,
              CHOOSE r \in Resources : TRUE) EXCEPT !.state = state]

\* token = 0 is a nil Execution.  claims counts the tokens issued, so that
\* claims + 1 is a fresh one; writer is the token that completed the record.
Record ==
    [state : States, revision : Nat, key : Keys, input : Inputs,
     resource : Resources, token : Nat, left : Nat, result : Results,
     claims : Nat, writer : Nat]

WorkerStates ==
    {"none", "claiming", "executing", "finishing", "returning"}

Worker ==
    [pc : WorkerStates, token : Nat, lost : BOOLEAN, cancelled : BOOLEAN,
     outcome : Results]

NoWorker ==
    [pc |-> "none", token |-> 0, lost |-> FALSE, cancelled |-> FALSE,
     outcome |-> "none"]

\* The worker in a new slot, after its claim, after a failed renewal, after
\* its executor returned, and after Run returned with the slot still held.
Starting(cancelled) ==
    [NoWorker EXCEPT !.pc = "claiming", !.cancelled = cancelled]

Owning(w, token) == [w EXCEPT !.token = token, !.pc = "executing"]

Lost(w) == [w EXCEPT !.lost = TRUE]

Executed(w, outcome) == [w EXCEPT !.pc = "finishing", !.outcome = outcome]

Returning == [NoWorker EXCEPT !.pc = "returning"]

\* The worker after its context is cancelled.
Cancelled(w) ==
    IF w.pc \in {"none", "returning"} THEN w ELSE [w EXCEPT !.cancelled = TRUE]

Request(pc, id, revision) == [pc |-> pc, id |-> id, revision |-> revision]

NoCancel == Request("idle", NoId, 0)

Canceller ==
    [pc : {"get", "apply", "notify"}, id : Ids, revision : Nat] \cup {NoCancel}

\* startup: the task runs inside NewServer, which fails when it fails.
Recoverer == [pc : {"none", "read", "wait", "validate", "fail", "replay"},
              startup : BOOLEAN, delay : Nat, revision : Nat]

Task(pc, startup, delay, revision) ==
    [pc |-> pc, startup |-> startup, delay |-> delay, revision |-> revision]

NoRecovery == Task("none", FALSE, 0, 0)

Snapshot == [state : States \ {"absent", "purged"}, revision : Nat,
             result : Results]

NoSnapshot == [state |-> "absent", revision |-> 0, result |-> "none"]

TypeOK ==
    /\ ops \in [Ids -> Record]
    /\ keys \in [Keys -> [Resources -> Ids \cup {NoId}]]
    /\ up \in [Hosts -> {"up", "draining", "closing", "down"}]
    /\ resource \in [Hosts -> Resources]
    /\ run \in [Hosts -> [Ids -> Worker]]
    /\ starts \in [Hosts -> SUBSET Ids]
    /\ cancel \in [Hosts -> Canceller]
    /\ recovery \in [Hosts -> [Ids -> Recoverer]]
    /\ seen \in [Hosts -> [Ids -> Snapshot \cup {NoSnapshot}]]
    /\ faults \in Nat

-------------------------------------------------------------------------------
(***************************************************************************)
(* The record transitions of sdk/storage/internal/operationmodel.          *)
(***************************************************************************)
Exists(i) == ops[i].state \notin {"absent", "purged"}

Unfinished(i) == ops[i].state \in {"pending", "running"}

\* Variant: the expiry comparison is off by one.
LeasedEarly(r, s) == r.token # 0 /\ r.left > s + 1

\* A lease that a caller whose clock is s units ahead takes for valid.
Leased(r, s) == r.token # 0 /\ r.left > s

PrepareNewRecord(k, x, r) ==
    [NoRecord(k, x, r) EXCEPT !.state = "pending", !.revision = 1]

\* Cancel and Fail: a Transition without a lease token, from an unfinished
\* state only (ValidateTransition).
Transition(r, state, result) ==
    IF r.state \notin {"pending", "running"} THEN r
    ELSE [r EXCEPT !.state = state, !.revision = @ + 1, !.result = result,
                   !.token = 0, !.left = 0]

\* Variant: the claim does not count a revision.
ClaimedUnrevised(r, s) ==
    [r EXCEPT !.state = "running", !.token = r.claims + 1, !.claims = @ + 1,
              !.left = TTL + s]

\* Variant: the claim does not draw a fresh token.
ClaimedStaleToken(r, s) ==
    [r EXCEPT !.state = "running", !.revision = @ + 1, !.token = r.claims + 1,
              !.left = TTL + s]

Claimed(r, s) ==
    [r EXCEPT !.state = "running", !.revision = @ + 1, !.token = r.claims + 1,
              !.claims = @ + 1, !.left = TTL + s]

Renewed(r, s) == [r EXCEPT !.revision = @ + 1, !.left = TTL + s]

\* Variant: the fence checks the lease but not whose it is.
HoldsAnyToken(r, token, s) == r.state = "running" /\ Leased(r, s)

\* The fence of Renew and Complete: the caller's token and a valid lease.
Holds(r, token, s) ==
    /\ r.state = "running"
    /\ r.token = token
    /\ Leased(r, s)

Completed(r, token, result) ==
    [r EXCEPT !.state = IF result = "output" THEN "succeeded" ELSE "failed",
              !.revision = @ + 1, !.result = result, !.token = 0, !.left = 0,
              !.writer = token]

Released(r) == [r EXCEPT !.revision = @ + 1, !.token = 0, !.left = 0]

\* Target.Validate: the record was submitted for the revision h serves.
Validates(h, i) == ops[i].resource = resource[h]

\* What Poll returns of the record.
Observed(i) == [state |-> ops[i].state, revision |-> ops[i].revision,
                result |-> ops[i].result]

Init ==
    /\ ops = [i \in Ids |-> Blank("absent")]
    /\ keys = [k \in Keys |-> [r \in Resources |-> NoId]]
    /\ up = [h \in Hosts |-> "up"]
    /\ resource \in [Hosts -> Resources]
    /\ run = [h \in Hosts |-> [i \in Ids |-> NoWorker]]
    /\ starts = [h \in Hosts |-> {}]
    /\ cancel = [h \in Hosts |-> NoCancel]
    /\ recovery = [h \in Hosts |-> [i \in Ids |-> NoRecovery]]
    /\ seen = [h \in Hosts |-> [i \in Ids |-> NoSnapshot]]
    /\ faults = 0

\* A draining runtime still finishes the turns it hosts.
Open(h) == up[h] \in {"up", "draining"}

\* The host accepts requests: it is open and NewServer has returned.
Serving(h) ==
    /\ h \in Callers
    /\ Open(h)
    /\ \A i \in Ids : ~recovery[h][i].startup

-------------------------------------------------------------------------------
(***************************************************************************)
(* Submitting: Host.SubmitReserved on the store's Submit.                  *)
(***************************************************************************)

\* Submit finds the key free and stores a new pending record.
SubmitNew(h, i, k, x) ==
    /\ Serving(h)
    /\ keys[k][resource[h]] = NoId
    /\ ops[i].state = "absent"
    /\ ops' = [ops EXCEPT ![i] = PrepareNewRecord(k, x, resource[h])]
    /\ keys' = [keys EXCEPT ![k][resource[h]] = i]
    /\ starts' = [starts EXCEPT ![h] = @ \cup {i}]
    /\ seen' = [seen EXCEPT ![h][i] =
                   [state |-> "pending", revision |-> 1, result |-> "none"]]
    /\ UNCHANGED <<hostVars, run>>

\* The schedule hint of an accepted submission that already has a record.
Hint(h, i) ==
    /\ starts' = [starts EXCEPT ![h] = IF Unfinished(i) THEN @ \cup {i} ELSE @]
    /\ seen' = [seen EXCEPT ![h][i] = Observed(i)]

\* Submit finds the key used for the same submission: the caller gets the
\* existing operation.  Another submission under that key is an error.
SubmitAgain(h, i, k, x) ==
    /\ Resubmits /\ Serving(h)
    /\ keys[k][resource[h]] = i
    /\ ops[i].input = x
    /\ Hint(h, i)
    /\ UNCHANGED <<hostVars, ops, keys, run>>

\* Variant: a closing host keeps the reservation it was given.
StartReservedLeak(h, i) ==
    /\ i \in starts[h] /\ up[h] # "closing"
    /\ starts' = [starts EXCEPT ![h] = @ \ {i}]
    /\ run' = IF run[h][i].pc # "none" THEN run
              ELSE [run EXCEPT ![h][i] = Starting(FALSE)]
    /\ UNCHANGED <<hostVars, ops, keys, seen>>

\* StartReservedAsync: take the in-flight slot, or do nothing if it is held.
StartReservedAsync(h, i) ==
    /\ i \in starts[h]
    /\ starts' = [starts EXCEPT ![h] = @ \ {i}]
    /\ run' = IF run[h][i].pc # "none" THEN run
              ELSE [run EXCEPT ![h][i] = Starting(up[h] = "closing")]
    /\ UNCHANGED <<hostVars, ops, keys, seen>>

-------------------------------------------------------------------------------
(***************************************************************************)
(* The worker: Runner.Run.                                                 *)
(***************************************************************************)

\* Claim.  Run validates the claimed record again, which cannot fail for a host
\* that serves one revision all its life: see ExecutesOwnRevision.
Claim(h, i, s) ==
    /\ run[h][i].pc = "claiming"
    /\ ~run[h][i].cancelled
    /\ Unfinished(i) /\ ~Leased(ops[i], s)
    /\ ops[i].claims < MaxClaims
    /\ ops' = [ops EXCEPT ![i] = Claimed(@, s)]
    /\ run' = [run EXCEPT ![h][i] = Owning(@, ops[i].claims + 1)]
    /\ UNCHANGED <<hostVars, keys, starts, seen>>

\* Claim is refused: cancelled context, no such operation, terminal, or leased.
ClaimRefused(h, i, s) ==
    /\ run[h][i].pc = "claiming"
    /\ run[h][i].cancelled \/ ~Unfinished(i) \/ Leased(ops[i], s)
    /\ run' = [run EXCEPT ![h][i] = Returning]
    /\ UNCHANGED <<hostVars, ops, keys, starts, seen>>

\* Variant: Complete without its fence.
CompleteCallUnfenced(h, i, result, s) ==
    ops' = [ops EXCEPT ![i] = Completed(@, run[h][i].token, result)]

\* The store's Complete and Release as the worker of h calls them.
CompleteCall(h, i, result, s) ==
    ops' = IF Holds(ops[i], run[h][i].token, s)
           THEN [ops EXCEPT ![i] = Completed(@, run[h][i].token, result)] ELSE ops

ReleaseCall(h, i) ==
    ops' = IF ops[i].state = "running" /\ ops[i].token = run[h][i].token
           THEN [ops EXCEPT ![i] = Released(@)] ELSE ops

\* renewLease: one heartbeat; a refused renewal marks the lease lost.
Heartbeat(h, i, s) ==
    /\ run[h][i].pc = "executing"
    /\ ~run[h][i].cancelled /\ ~run[h][i].lost
    /\ \/ /\ Holds(ops[i], run[h][i].token, s)
          /\ ops[i].revision < MaxRevision
          /\ ops' = [ops EXCEPT ![i] = Renewed(@, s)]
          /\ UNCHANGED run
       \/ /\ ~Holds(ops[i], run[h][i].token, s)
          /\ run' = [run EXCEPT ![h][i] = Lost(@)]
          /\ UNCHANGED ops
    /\ UNCHANGED <<hostVars, keys, starts, seen>>

\* The executor returns: a result, its own error, or the error of a shutdown:
\* its context is done, by a cancellation or a lost lease, or it is an agent whose
\* runtime drains or closes and refuses or ends the child's session.
Execute(h, i) ==
    /\ run[h][i].pc = "executing"
    /\ \E o \in {"output", "executeError", "contextError"} :
         /\ o = "contextError" =>
              run[h][i].cancelled \/ run[h][i].lost \/ up[h] = "draining"
         /\ run' = [run EXCEPT ![h][i] = Executed(@, o)]
    /\ UNCHANGED <<hostVars, ops, keys, starts, seen>>

\* Variant: a cancelled worker records its context error.
FinishCancelled(h, i, s) ==
    /\ run[h][i].pc = "finishing"
    /\ IF run[h][i].lost THEN UNCHANGED ops
       ELSE CompleteCall(h, i, run[h][i].outcome, s)
    /\ run' = [run EXCEPT ![h][i] = Returning]
    /\ UNCHANGED <<hostVars, keys, starts, seen>>

\* After the executor: drop the result of a lost lease, release the claim of
\* a cancelled worker, complete otherwise.
Finish(h, i, s) ==
    /\ run[h][i].pc = "finishing"
    /\ CASE run[h][i].lost -> UNCHANGED ops
         [] ~run[h][i].lost /\ run[h][i].cancelled -> ReleaseCall(h, i)
         [] OTHER -> CompleteCall(h, i, run[h][i].outcome, s)
    /\ run' = [run EXCEPT ![h][i] = Returning]
    /\ UNCHANGED <<hostVars, keys, starts, seen>>

\* Run returned: slot.Finish frees the in-flight slot.
FinishSlot(h, i) ==
    /\ run[h][i].pc = "returning"
    /\ run' = [run EXCEPT ![h][i] = NoWorker]
    /\ UNCHANGED <<hostVars, ops, keys, starts, seen>>

\* A store call of the worker fails without effect: a renewal counts as a
\* lost lease, a failed Complete or Release is only logged.
StoreFault(h, i) ==
    /\ StoreFaults /\ faults < MaxFaults
    /\ \/ /\ run[h][i].pc = "executing"
          /\ ~run[h][i].cancelled /\ ~run[h][i].lost
          /\ run' = [run EXCEPT ![h][i] = Lost(@)]
       \/ /\ run[h][i].pc = "finishing"
          /\ run' = [run EXCEPT ![h][i] = Returning]
    /\ faults' = faults + 1
    /\ UNCHANGED <<ops, keys, up, resource, cancel, recovery, starts, seen>>

-------------------------------------------------------------------------------
(***************************************************************************)
(* Cancelling: requestCancel's read and compare-and-set loop, then the     *)
(* cancellation of the worker this host may be running.                    *)
(***************************************************************************)
CancelRequest(h, i) ==
    /\ Serving(h)
    /\ cancel[h].pc = "idle"
    /\ ops[i].state # "absent"
    /\ cancel' = [cancel EXCEPT ![h] = Request("get", i, 0)]
    /\ UNCHANGED <<ops, keys, up, resource, run, starts, recovery, seen, faults>>

\* Get: nothing to do for a missing or a terminal operation.
CancelGet(h) ==
    /\ cancel[h].pc = "get"
    /\ cancel' = [cancel EXCEPT ![h] =
                     IF Unfinished(cancel[h].id)
                     THEN Request("apply", cancel[h].id, ops[cancel[h].id].revision)
                     ELSE NoCancel]
    /\ UNCHANGED <<ops, keys, up, resource, run, starts, recovery, seen, faults>>

\* Store.Cancel at the revision that was read; a conflict reads again.
CancelApply(h) ==
    LET i == cancel[h].id IN
    /\ cancel[h].pc = "apply"
    /\ CASE ~Exists(i) ->
              /\ cancel' = [cancel EXCEPT ![h] = NoCancel]
              /\ UNCHANGED ops
         [] Exists(i) /\ ops[i].revision # cancel[h].revision ->
              /\ cancel' = [cancel EXCEPT ![h] = Request("get", i, 0)]
              /\ UNCHANGED ops
         [] OTHER ->
              /\ cancel' = [cancel EXCEPT ![h] = Request("notify", i, 0)]
              /\ ops' = [ops EXCEPT ![i] = Transition(@, "cancelled", "none")]
    /\ UNCHANGED <<keys, up, resource, run, starts, recovery, seen, faults>>

\* Inflight.Cancel after the durable cancellation.
CancelNotify(h) ==
    LET i == cancel[h].id IN
    /\ cancel[h].pc = "notify"
    /\ cancel' = [cancel EXCEPT ![h] = NoCancel]
    /\ run' = [run EXCEPT ![h][i] = Cancelled(@)]
    /\ UNCHANGED <<ops, keys, up, resource, starts, recovery, seen, faults>>

-------------------------------------------------------------------------------
(***************************************************************************)
(* Observing and retention.                                                *)
(***************************************************************************)

\* awaitOperation polls an operation it last saw unfinished.
Poll(h, i) ==
    /\ Open(h)
    /\ seen[h][i].state \in {"pending", "running"}
    /\ Exists(i)
    /\ seen' = [seen EXCEPT ![h][i] = Observed(i)]
    /\ UNCHANGED <<hostVars, ops, keys, run, starts>>

\* Variant: the purge leaves the idempotency index alone.
PurgeTerminalKeepKeys(S) ==
    /\ S # {} /\ \A i \in S : ops[i].state \in Terminal
    /\ ops' = [i \in Ids |-> IF i \in S THEN Blank("purged") ELSE ops[i]]
    /\ UNCHANGED <<hostVars, keys, run, starts, seen>>

\* PurgeTerminal; the cut-off selects some of the terminal records.
PurgeTerminal(S) ==
    /\ S # {} /\ \A i \in S : ops[i].state \in Terminal
    /\ ops' = [i \in Ids |-> IF i \in S THEN Blank("purged") ELSE ops[i]]
    /\ keys' = [k \in Keys |-> [r \in Resources |->
                  IF keys[k][r] \in S THEN NoId ELSE keys[k][r]]]
    /\ UNCHANGED <<hostVars, run, starts, seen>>

-------------------------------------------------------------------------------
(***************************************************************************)
(* Recovery on a standalone server (recoverOperations, recoverOperation,   *)
(* FailInvalid) and by replay on a runtime.                                *)
(***************************************************************************)
SetRecovery(h, i, task) ==
    /\ recovery' = [recovery EXCEPT ![h][i] = task]
    /\ UNCHANGED up

\* A task whose operation is gone ends; inside NewServer it fails the start,
\* which cancels the server context.
RecoveryGone(h, i) ==
    IF recovery[h][i].startup
    THEN /\ recovery' = [recovery EXCEPT ![h] = [j \in Ids |-> NoRecovery]]
         /\ up' = [up EXCEPT ![h] = "closing"]
         /\ run' = [run EXCEPT ![h] = [j \in Ids |->
                      Cancelled(run[h][j])]]
    ELSE SetRecovery(h, i, NoRecovery) /\ UNCHANGED run

\* recoverOperation re-reads the record and its lease delay.
RecoverRead(h, i, s) ==
    LET task == recovery[h][i] IN
    /\ task.pc = "read"
    /\ IF ~Exists(i) THEN RecoveryGone(h, i)
       ELSE /\ UNCHANGED run
            /\ SetRecovery(h, i,
                 IF ~Unfinished(i) THEN NoRecovery
                 ELSE IF Leased(ops[i], s)
                      THEN Task("wait", FALSE, ops[i].left - s, 0)
                      ELSE Task("validate", task.startup, 0, 0))
    /\ UNCHANGED <<ops, keys, resource, starts, cancel, seen, faults>>

\* RecoveryCandidate.Wait: the delay has passed.
RecoverWake(h, i) ==
    /\ recovery[h][i].pc = "wait"
    /\ recovery[h][i].delay = 0
    /\ SetRecovery(h, i, Task("read", FALSE, 0, 0))
    /\ UNCHANGED <<ops, keys, resource, run, starts, cancel, seen, faults>>

\* Variant: recovery starts a worker for every unfinished record.
RecoverValidateAny(h, i) ==
    /\ recovery[h][i].pc = "validate"
    /\ IF ~Exists(i) THEN RecoveryGone(h, i) /\ UNCHANGED starts
       ELSE /\ UNCHANGED run
            /\ SetRecovery(h, i, NoRecovery)
            /\ starts' = [starts EXCEPT ![h] =
                 IF Unfinished(i) THEN @ \cup {i} ELSE @]
    /\ UNCHANGED <<ops, keys, resource, cancel, seen, faults>>

\* FailInvalid's read: start a worker for a valid record.
RecoverValidate(h, i) ==
    LET task == recovery[h][i] IN
    /\ task.pc = "validate"
    /\ IF ~Exists(i) THEN RecoveryGone(h, i) /\ UNCHANGED starts
       ELSE /\ UNCHANGED run
            /\ SetRecovery(h, i,
                 IF Unfinished(i) /\ ~Validates(h, i)
                 THEN Task("fail", task.startup, 0, ops[i].revision)
                 ELSE NoRecovery)
            /\ starts' = [starts EXCEPT ![h] =
                 IF Unfinished(i) /\ Validates(h, i) THEN @ \cup {i} ELSE @]
    /\ UNCHANGED <<ops, keys, resource, cancel, seen, faults>>

\* FailInvalid's Store.Fail at the revision that was read.
RecoverFail(h, i) ==
    LET task == recovery[h][i] IN
    /\ task.pc = "fail"
    /\ IF ~Exists(i) THEN RecoveryGone(h, i) /\ UNCHANGED ops
       ELSE /\ UNCHANGED run
            /\ IF ops[i].revision # task.revision
               THEN /\ SetRecovery(h, i, Task("validate", task.startup, 0, 0))
                    /\ UNCHANGED ops
               ELSE /\ SetRecovery(h, i, NoRecovery)
                    /\ ops' = [ops EXCEPT ![i] = Transition(@, "failed", "invalid")]
    /\ UNCHANGED <<keys, resource, starts, cancel, seen, faults>>

\* The replay of the owning trajectory submits the stable key again.
Replay(h, i) ==
    /\ recovery[h][i].pc = "replay"
    /\ SetRecovery(h, i, NoRecovery)
    /\ IF Exists(i) /\ Validates(h, i) THEN Hint(h, i)
       ELSE UNCHANGED <<starts, seen>>
    /\ UNCHANGED <<ops, keys, resource, run, cancel, faults>>

-------------------------------------------------------------------------------
(***************************************************************************)
(* The life of a host, and time.                                           *)
(***************************************************************************)
Volatile(h) ==
    /\ run' = [run EXCEPT ![h] = [i \in Ids |-> NoWorker]]
    /\ starts' = [starts EXCEPT ![h] = {}]
    /\ cancel' = [cancel EXCEPT ![h] = NoCancel]
    /\ seen' = [seen EXCEPT ![h] = [i \in Ids |-> NoSnapshot]]

\* RequestDrain, or startClose, which closes the runtime and stops the
\* trajectories before the operations.
Drain(h) ==
    /\ up[h] = "up" /\ h \notin Standalone /\ faults < MaxFaults
    /\ up' = [up EXCEPT ![h] = "draining"]
    /\ faults' = faults + 1
    /\ UNCHANGED <<ops, keys, resource, run, starts, cancel, recovery, seen>>

\* server.Close, and the end of startClose: refuse new work, cancel every
\* worker context and the delayed recoveries.
Shutdown(h) ==
    /\ \/ up[h] = "up" /\ h \in Standalone /\ faults < MaxFaults /\ faults' = faults + 1
       \/ up[h] = "draining" /\ UNCHANGED faults
    /\ up' = [up EXCEPT ![h] = "closing"]
    /\ run' = [run EXCEPT ![h] = [i \in Ids |->
                 Cancelled(run[h][i])]]
    /\ recovery' = [recovery EXCEPT ![h] = [i \in Ids |-> NoRecovery]]
    /\ UNCHANGED <<ops, keys, resource, starts, cancel, seen>>

\* The close waits for every worker, then the process ends.
Stopped(h) ==
    /\ up[h] = "closing"
    /\ starts[h] = {} /\ \A i \in Ids : run[h][i].pc = "none"
    /\ up' = [up EXCEPT ![h] = "down"]
    /\ Volatile(h)
    /\ UNCHANGED <<ops, keys, resource, recovery, faults>>

\* The process dies: leases stay behind in the store.
Crash(h) ==
    /\ up[h] # "down" /\ faults < MaxFaults
    /\ up' = [up EXCEPT ![h] = "down"]
    /\ faults' = faults + 1
    /\ Volatile(h)
    /\ recovery' = [recovery EXCEPT ![h] = [i \in Ids |-> NoRecovery]]
    /\ UNCHANGED <<ops, keys, resource>>

\* Variant: only the records claimable at startup are recovered.
StartTaskClaimable(h, i, s) ==
    IF ~Unfinished(i) \/ Leased(ops[i], s) THEN NoRecovery
    ELSE Task("read", TRUE, 0, 0)

\* The task a starting host has for operation i: a standalone server takes
\* ListRecoveryCandidates, a runtime replays what its trajectories await.
StartTask(h, i, s) ==
    IF ~Unfinished(i) THEN NoRecovery
    ELSE IF h \notin Standalone THEN Task("replay", FALSE, 0, 0)
    ELSE IF Leased(ops[i], s)
         THEN Task("wait", FALSE, ops[i].left - s, 0)
         ELSE Task("read", TRUE, 0, 0)

Restart(h, r, s) ==
    /\ up[h] = "down"
    /\ up' = [up EXCEPT ![h] = "up"]
    /\ resource' = [resource EXCEPT ![h] = r]
    /\ recovery' = [recovery EXCEPT ![h] = [i \in Ids |-> StartTask(h, i, s)]]
    /\ UNCHANGED <<ops, keys, run, starts, cancel, seen, faults>>

\* A worker whose context is live: its heartbeat, and then its Complete, still
\* come.  The heartbeat of any other ends, however long its executor goes on.
Alive(w) == w.pc \in {"executing", "finishing"} /\ ~w.cancelled /\ ~w.lost

\* The worker of h is alive and holds the current lease of i.
Holding(h, i) ==
    /\ run[h][i].pc \in {"executing", "finishing"}
    /\ run[h][i].token = ops[i].token

Less(n) == IF n = 0 THEN 0 ELSE n - 1

Aged(r) == [r EXCEPT !.left = Less(@)]

AgedTask(t) == Task(t.pc, t.startup, Less(t.delay), t.revision)

Tick ==
    /\ Timely => \A h \in Hosts, i \in Ids :
         Alive(run[h][i]) /\ Holding(h, i) => ops[i].left > Skew + 1
    /\ ops' = [i \in Ids |-> Aged(ops[i])]
    /\ recovery' = [h \in Hosts |-> [i \in Ids |->
                      AgedTask(recovery[h][i])]]
    /\ UNCHANGED <<keys, up, resource, run, starts, cancel, seen, faults>>

-------------------------------------------------------------------------------
WorkerStep(h, i) ==
    \/ Execute(h, i) \/ FinishSlot(h, i)
    \/ \E s \in Skews : Claim(h, i, s) \/ ClaimRefused(h, i, s) \/ Finish(h, i, s)

RecoveryStep(h, i) ==
    \/ RecoverWake(h, i) \/ RecoverValidate(h, i) \/ RecoverFail(h, i)
    \/ Replay(h, i)
    \/ \E s \in Skews : RecoverRead(h, i, s)

CancelStep(h) == CancelGet(h) \/ CancelApply(h) \/ CancelNotify(h)

RestartStep(h) == \E r \in Resources, s \in Skews : Restart(h, r, s)

Next ==
    \/ \E h \in Hosts, i \in Ids :
         \/ \E k \in Keys, x \in Inputs : SubmitNew(h, i, k, x) \/ SubmitAgain(h, i, k, x)
         \/ StartReservedAsync(h, i)
         \/ WorkerStep(h, i)
         \/ RecoveryStep(h, i)
         \/ \E s \in Skews : Heartbeat(h, i, s)
         \/ StoreFault(h, i) \/ CancelRequest(h, i) \/ Poll(h, i)
    \/ \E h \in Hosts :
         \/ CancelStep(h)
         \/ Drain(h) \/ Shutdown(h) \/ Stopped(h) \/ Crash(h) \/ RestartStep(h)
    \/ \E S \in SUBSET Ids : PurgeTerminal(S)
    \/ Tick

Spec == Init /\ [][Next]_vars

\* Goroutines run, time passes, and a supervisor restarts a stopped host.
Fairness ==
    /\ \A h \in Hosts, i \in Ids :
         /\ WF_vars(StartReservedAsync(h, i))
         /\ WF_vars(WorkerStep(h, i))
         /\ WF_vars(RecoveryStep(h, i))
    /\ \A h \in Hosts :
         WF_vars(CancelStep(h)) /\ WF_vars(Stopped(h)) /\ WF_vars(RestartStep(h))
    /\ WF_vars(Tick)

FairSpec == Spec /\ Fairness

-------------------------------------------------------------------------------
(***************************************************************************)
(* Properties.                                                             *)
(***************************************************************************)

\* A terminal result that a worker wrote comes from the latest claim: a worker
\* whose lease was taken over never writes its result into the record
\* (the fence of operationmodel.Complete, under pauses and clock errors).
ResultFenced ==
    \A i \in Ids : ops[i].writer # 0 => ops[i].writer = ops[i].claims

\* No two workers of any hosts hold the current token of one operation, so at
\* most one of them can renew, complete or release it.
LeaseExclusive ==
    \A i \in Ids, g, h \in Hosts :
        Holding(g, i) /\ Holding(h, i) /\ ops[i].token # 0 => g = h

\* While live workers renew in time, no two hosts execute one unfinished
\* operation with live contexts: another host claims it only when the context of
\* the first is done, even if its executor goes on for ever.  The run has crashes
\* and shutdowns; SingleExecutors adds failed store calls and clock error.
SingleExecutor ==
    Timely => \A i \in Ids, g, h \in Hosts :
        Alive(run[g][i]) /\ Alive(run[h][i]) /\ Unfinished(i) => g = h

\* "the runner releases the claim [...] instead of recording shutdown as an
\* operation failure": unless its process dies or its store call fails, a worker
\* whose context was cancelled under a claim it still holds leaves the operation
\* unfinished and without a lease, whatever its executor returned.
ShutdownReleases ==
    [][faults' = faults => \A h \in Hosts, i \in Ids :
          /\ Holding(h, i) /\ ops[i].state = "running"
          /\ run[h][i].cancelled /\ ~run[h][i].lost
          /\ run'[h][i].pc \notin {"executing", "finishing"}
          => ops'[i].state = "running" /\ ops'[i].token = 0]_vars

\* A worker between its claim and the end of Runner.Run.
Active(w) == w.pc \in {"executing", "finishing"}

\* The fence of one record: a lease carries the newest token and belongs to a
\* running record, and a written result is the newest claim's.
RecordFenced(r) ==
    /\ r.token \in {0, r.claims}
    /\ r.token # 0 => r.state = "running"
    /\ r.writer # 0 => r.writer = r.claims /\ r.state \in Terminal
    /\ r.state = "absent" => r.result = "none"

\* Nothing acts on an operation that was never submitted, and the workers
\* past their claim carry distinct tokens the store issued.
WorkersFenced(i) ==
    \A h \in Hosts :
        /\ ops[i].state = "absent" =>
             ~Active(run[h][i]) /\ seen[h][i] = NoSnapshot
        /\ Active(run[h][i]) /\ Exists(i) =>
             run[h][i].token \in 1..ops[i].claims
        /\ \A g \in Hosts :
             Active(run[g][i]) /\ Active(run[h][i]) /\ Exists(i)
             /\ run[g][i].token = run[h][i].token => g = h

\* What keeps the fence of Renew, Complete and Release closed at every step.
FenceInvariant ==
    \A i \in Ids : RecordFenced(ops[i]) /\ WorkersFenced(i)

\* A host never executes an operation that was submitted for another resource
\* revision than the one it serves: a server restarted with a new revision fails
\* the old operations instead (Target.Validate in Submit, recoverOperation and
\* Runner.Run, whose failClaimedInvalid branch is therefore never taken).
ExecutesOwnRevision ==
    \A h \in Hosts, i \in Ids :
        Active(run[h][i]) /\ Exists(i) => Validates(h, i)

\* ValidateOperationProgress on two snapshots of one operation.
ValidateOperationProgress(a, b) ==
    /\ b.revision >= a.revision
    /\ b.revision = a.revision => b = a
    /\ b.revision > a.revision =>
         /\ a.state \notin Terminal
         /\ b.state = "pending" => FALSE

\* Whatever an await saw earlier, polling again never fails the progress
\* validation, however many claims, renewals and releases lie between.
ObservationsProgress ==
    \A h \in Hosts, i \in Ids :
        seen[h][i] # NoSnapshot /\ Exists(i)
            => ValidateOperationProgress(seen[h][i], Observed(i))

\* The idempotency index has an entry exactly for the stored records, so a
\* repeated Submit finds its operation and a purged key can be used again.
KeyIndexExact ==
    \A k \in Keys, r \in Resources, i \in Ids :
        keys[k][r] = i <=>
            Exists(i) /\ ops[i].key = k /\ ops[i].resource = r

\* Every accepted operation is eventually settled on standalone servers that
\* are restarted after crashes: no step of the recovery forgets one.
EveryOperationFinishes ==
    \A i \in Ids : Unfinished(i) ~> ~Unfinished(i)

\* Closing a host ends: every worker reaches its release and frees its slot.
ShutdownCompletes ==
    \A h \in Hosts : up[h] = "closing" ~> up[h] = "down"

\* What a caller sees of the records.
phases == [i \in Ids |-> ops[i].state]

outcomes == [i \in Ids |-> ops[i].result]

\* The store implements the abstract life of an operation.
Lifecycle == INSTANCE OperationLifecycle WITH
    Outcomes <- Results, phase <- phases, outcome <- outcomes

\* Every step of the detailed store is a step of the abstract one: one
\* terminal outcome per operation, immutable until it is purged.
RefinesLifecycle == Lifecycle!Spec
===============================================================================
