# Verification of ag

`ag` is a durable agent runtime. A *trajectory* is an append-only graph of
entries with one active head. A *prompt* is accepted as an *execution*, which a
*host* (a runtime process) claims under a lease and advances turn by turn. A
turn submits *operations* to plugins and commits a checkpoint; committed events
become *deliveries* to subscribers. Plugins are *mounted* into a *composition*
and used through snapshot leases. In front of this a *gateway* keeps sessions, a
durable queue of inputs, durable questions to the user, and an event stream that
*views* follow.

What must survive a crash lives in a store, is changed by compare-and-set, and
is worked on under leases with fencing tokens. What is hard about the system is
between these stores: leases that run out under a worker, a value read before an
await and used after it, a process that dies between two writes, a shutdown
that races a cancellation. The modules here model that concurrent core. TLC
checks it on small instances, and TLAPS proves their safety properties for
every value of the constants. Names follow the Go source;
paths are relative to `src/`.

Contents: parts and modules; how the modules correspond to the code; the runs;
bounds; fairness; proofs; what is only model-checked; where the code and its
documentation differ; what is not modelled.

## Parts of the system and the modules

| part | code | module(s) |
|---|---|---|
| durable operations | `sdk/operation.go`, `sdk/storage/operation_memory.go`, `sdk/storage/internal/operationmodel`, `internal/operationworker`, `pluginrpc/server_operations.go`, `sdk/runtime` | `Operations`; abstract: `OperationLifecycle`; proofs: `OperationsProofs` |
| deliveries (outbox and inbox) | `sdk/delivery.go`, `sdk/storage/delivery_memory.go`, `sdk/storage/internal/deliverymodel`, `internal/deliveryworker`, `sdk/runtime/delivery_worker.go` | `Deliveries`; proofs: `DeliveriesProofs` |
| remote delivery | `pluginrpc/client.go`, `pluginrpc/server.go` | `DeliveryPipeline`, composed of two instances of `Deliveries`; proofs: `DeliveryPipelineProofs` |
| trajectories and executions | `sdk/trajectory.go`, `sdk/storage/trajectory_*.go`, `sdk/storage/internal/trajectorymodel`, `sdk/runtime/durability_*.go`, `execution_*.go`, `session.go` | `Trajectories`; abstract: `Conversation`; proofs: `TrajectoriesProofs`, `TrajectoriesResults` |
| plugin composition | `sdk/runtime/composition_*.go`, `session.go`, `runtime.go`, `runtime_work.go` | `Composition`; proofs: `CompositionProofs` |
| runtime lifecycle | `sdk/runtime/runtime.go`, `runtime_work.go`, `runtime_wait.go` | part of `Trajectories`, `Deliveries`, `Operations`, `Composition` |
| gateway input queue | `gateway/input*.go`, `service.go`, `runtime_backend.go`, `runtime_host_slot.go`, `session_gate.go` | `Gateway`; proofs: `GatewayProofs` |
| gateway interactions, event stream, views | `gateway/interaction*.go`, `gateway/event*.go`, `internal/cli/gateway_tui_adapter.go` | `Interactions`; proofs: `InteractionsProofs` |

How they interact. The gateway's runner submits an input to the runtime and gets
an execution (`Gateway` keeps of it whether it is live and how it ended;
`Trajectories` models the execution itself). A turn of an execution calls
plugins through operations (`Operations`) under a snapshot lease
(`Composition`), and may ask the user (`Interactions`). A commit enqueues
deliveries in the outbox (`Deliveries`), whose subscriber may be a plugin server
with an inbox of its own (`DeliveryPipeline`). Every process may drain, close,
crash and start again; each module has these steps for the state it owns.

Each `MC<Module>` gives TLC the values of constants, symmetry sets and, for
`Trajectories`, the fair specification. `<Module>_<question>.cfg` is one run.

## Modules and code

In every module durable variables model records of a store, volatile ones are
per host (or per process) and are reset by its `Crash`, `Exit` or `Stopped`
step. One action is what the code does under one lock, in one store transaction
or between two points at which another goroutine can act; a handler that reads,
releases the lock and writes is two actions with what it read kept in between.
Time is counted down: a lease or a retry delay is the number of ticks left, and
`Tick` ages all of them. Definitions marked `Variant:` are altered forms of the
definition after them, used to see that a property can fail.

**Operations.** `ops` are the records (state, revision, token, lease, claims,
result), `keys` the idempotency index, `starts` and `run` the reserved slot and
the worker of a host for an operation, `recovery` its recovery tasks, `cancel`
the cancellation in progress, `seen` what a poller was last given.
Actions: submit (new, repeated, conflicting), claim, execute, renew, complete,
release on shutdown, cancel and fail-invalid as read and write, recovery at the
start of a plugin server and by replay of the owning invocation, purge,
drain, shutdown, crash, restart with another resource revision, `Tick`. An
executor whose context was cancelled may go on for as long as it likes. `Skew` is
the error of a host's clock when it writes a deadline. `OperationLifecycle` is the
promise: an operation is pending or running until it gets one terminal outcome,
which stays until it is purged.

**Deliveries.** `store` has the records with partition, sequence, state, token,
attempts, availability and lease; `issued` the lease tokens so far; `work` the
worker slots of a host with the lease they carry; `mounted` the subscriber
revision a host serves; `drain` its `DrainDeliveries` call. Actions: enqueue
(idempotent), lease the head of a partition, resolve the subscriber, call it and
time out, settle (acknowledge, retry, dead-letter or release, fenced by the
token), store calls that fail, the first mount, which starts the workers of a
runtime, remount, `DrainDeliveries`, cancellation of
workers, close, crash, restart, purge. The inbox workers of a plugin server start
with its process.
`DeliveryPipeline` puts an outbox and an inbox together with the `Deliver` call
in between: a request or its answer is lost, late or repeated. Neither of the two
queues purges there: a `Deliver` that arrives after the inbox has forgotten its
settled delivery would enqueue it again. Nothing in the repository calls
`PurgeTerminal` on either queue; an embedder that does has to keep settled records
for longer than a call can be late.

**Trajectories.** `entries` is the entry graph with its `head`, `execs` the
executions with lease, token and status, `run` what a host is doing and the plan
it made before it claimed, `mode` whether it is open, draining, closing or down.
Actions follow the runtime: resume a session (read, then move the head), submit,
claim, renew, commit a turn, finish, the failure unwind with its choice between
failed, cancelled and handed back, an unwind that fails and leaves the execution
behind, recovery at start, cancel here or elsewhere, roll back, drain, close, crash. `Conversation` is the promise
to the user: prompts are answered one at a time, those that succeeded are the
history, one that failed or was cancelled leaves no trace, and only an explicit
rollback selects another history.

**Composition.** `mounts` with reference counts and states, `current` the
published snapshot, `mu` the runtime's mutex, `proc`, `lease` and `pinned` what a
goroutine is doing, holds and is pinned to, `closer` the goroutine of
`finishClose`. A plugin is what it provides, requires, conflicts with and, for its
hooks and subscribers, the plugin events it targets; targets have to be there
when it is mounted, and unmounting their owner does not ask for them again. The
error return for a lifecycle event that cannot be prepared
(`composition_mount.go:162-167`, `251-256`) is never taken: the two events are
builtin and their payload always encodes. Actions: open, mount,
unmount, publish, acquire a snapshot mount by mount with failure in the middle,
re-acquire the snapshot of a pinned session, release, retire, close a
connection, admit work, close the runtime and its storage.

**Gateway.** One session: `inputs`, `execs` and `paused` are durable; `runner`
is the supervisor's goroutine with its program counter, `slot` the host slot,
`gate` the session gate, `enqueues` and `cancel` the service calls under way,
`boot` the progress of `RecoverSessions`. `since` stands for the time stamp by
which a restarted runner recognises the execution it had submitted.
`HostFailures` says which steps of a host can fail: building the runtime for a
submission or a recovery, and storing the outcome of an execution.

**Interactions.** `items` are the stored questions, `events` the stream,
`results` what the trajectory records for a call, `call` the `ask_user` call of
the execution, `accepted` the answers views were told are accepted, `view` each
attached view with its cursor, what it shows and the answer it is sending.
Actions: store and announce a question, wait, be woken, answer at an expected
revision, announce the answer, cancel, attach (open the stream, then list what
is pending), follow, detach, shutdown, crash, and the call made again after a
restart. An execution hosted here is cancelled context first and stores its
cancellation when its call has returned; without a host it is stored first.

## The runs

| run | what it checks and shows |
|---|---|
| `operations_fence` | Two hosts race for one operation while heartbeats are late, clocks are off, a store call fails, a host crashes or restarts with another resource revision, and the operation is cancelled, submitted again and purged. `ResultFenced`: a stored result is that of the newest claim. `LeaseExclusive`: one live worker has the current token. `ShutdownReleases`: a worker cancelled under a claim it holds gives the claim back, unfinished, whatever its executor returned. `ObservationsProgress`: two polls never contradict each other. `KeyIndexExact`: the index has exactly the stored records. `ExecutesOwnRevision`: no executor gets an operation recorded for another revision. `RefinesLifecycle`: the store implements `OperationLifecycle`. |
| `operations_live` | Servers that are restarted after crashes and shutdowns, with timely heartbeats. `EveryOperationFinishes`, `ShutdownCompletes`, and `SingleExecutor`: no two hosts execute one unfinished operation with live contexts. |
| `deliveries_late` | Subscribers ignore their timeout, so calls outlast the lease and the delivery is leased again. `PartitionOrder`: nothing is attempted before its predecessors in the partition are settled. `LeaseFence`: only the holder of the newest lease changes a delivery. `DeliveredWasReceived`: what is marked delivered reached its subscriber. |
| `deliveries_live` | Two runtimes on one queue are stopped, started and remounted; store calls and subscribers fail. `SerialPartition`: a partition is in one subscriber call at a time. `NoLeaseAbandoned`: an orderly shutdown leaves no lease without a worker. `EverySettles`: a delivery is settled, unless no runtime has started its workers. `DrainReturns`. |
| `pipeline_order` | Outbox, network and inbox. `NothingLost`: what the outbox counts as delivered is in the inbox. `EndToEndOrder`: the order of a partition holds at the plugin. |
| `trajectories_recover` | Two hosts, two prompts, rollbacks, expired leases, a crash, drain, failed renewal or failed unwind. `SettledOnce`, `NothingAfterSettled`: one outcome, and no entry of an execution after it. `ActiveBranchOwned`: the branch of a live execution has only its own entries on top of its base. `NoTurnRedone`: a checkpointed turn is not run again. `ConversationSpec`: the whole implements `Conversation`. |
| `trajectories_cancel` | Executions hosted here, elsewhere or nowhere are cancelled while their hosts run, fail, recover and unwind. `CancelSettles`: the call returns without error only when the execution is settled. `ConversationSpec` again, under cancellations. |
| `trajectories_live` | Leases that run out under live hosts, crashes, drains, forced closes, failed renewals and failed unwinds. `PromptsSettle`: an accepted prompt is settled by its host, another host or its successor, unless a host that stays up has dropped it; the next start of a host settles it then. |
| `gateway_queue` | Two inputs, a message past the queue, a pause, hosts that fail, a crash or shutdown at any step. `InputsInOrder`: an input is taken only when all before it are settled. `SubmittedOnce`: it becomes at most one execution. `PauseHolds`: what waited when the pause was saved is not submitted before the resume. |
| `gateway_live` | Cancellations, hosts that fail and a crash or shutdown. `ResultIsOwn`: an input reports the outcome of the execution of its own content. `InputsSettle`: every stored input is settled, unless an execution has lost its host, and then after the restart that recovers it. |
| `composition_leases` | Mount, unmount, lease, re-acquire and release while the runtime closes. `NoUseAfterClose`: no lease has a closed connection. `RefsExact`: the reference counts are the leases. `CompositionValid`: the published snapshot satisfies requirements and conflicts. `StorageOutlivesWork`: storage closes after admitted work. `NothingLeaks`: when a closed runtime is quiet, every connection it ever opened is closed, once, or being closed. |
| `interactions_answer` | Two views answer differently, go away and come back, while the call that asks is cancelled, shut down or crashes and is made again. `AnswerKept`: an answer a view was told is accepted is the one stored and the one the execution gets. `QuestionShown`: a view that has read every event shows the question that is waited for. `QuestionsReturn`: the call returns. |

Every run passes. For every property there is an altered definition (a dropped
guard, a skipped step, a swapped order) under which TLC finds it violated in the
same run; `PROJECT.json` lists them. `PROJECT.json` also lists the hazards of
the code, with the line where each bites and the properties that cover it.

## Bounds

Faults (crashes, shutdowns, failed calls) are counted by `MaxFaults`, because
the code's answer to a fault is to hand over to a fresh worker: what can go
wrong is between one failing worker and its successor, and one or two faults
reach all pairs.

- `Operations_fence`: one operation, hosts `h1` (a runtime that submits and
  replays) and `h2` (a plugin server), two revisions, `TTL` 2, `Skew` 1, three
  revisions, two claims, one fault. Operations do not interact except through
  the index, which the proofs cover for every number of operations. Two claims
  are one takeover. `Operations_live`: two servers, five claims, two faults, no
  clock error and no failing store calls (`SingleExecutors` proves its property
  with both).
- `Deliveries_late`: two deliveries of one partition, two hosts with a worker
  each, `LeaseTime` 2, `Timeout` 1, two attempts, three leases, one fault, so
  that one delivery is leased three times or retried to its dead letter with its
  successor behind it. `Deliveries_live`: two subscriber revisions, five leases.
  `DeliveryPipeline_order`: one runtime, one plugin server, `LeaseTime` 1.
- `Trajectories_recover`: two hosts (symmetric), two executions of two turns,
  seven entries, three claims, one fault. `Trajectories_cancel`: two executions
  of one turn, a cancelling host. `Trajectories_live`: one execution, twenty
  entries and four claims, enough for every behaviour with two faults to end
  before a bound does.
- `Gateway_queue`: two inputs (symmetric), one direct message, one pause, one
  fault. `Gateway_live`: two inputs, one fault.
- `Composition_leases`: four plugins, of which one needs another, one conflicts
  with it and one has a hook on its event, two goroutines (symmetric), two mounts.
- `Interactions_answer`: one question, two views, two answers, two faults.

The bounds of the liveness runs on claims, leases and entries are never reached
by a behaviour with the given faults; a bound that stopped the system would show
as a violation of the liveness property.

## Fairness

Weak fairness only, and only of steps that a goroutine which is already running
or a supervisor takes by itself: workers, recovery tasks, unwinds, waits of a
shutdown, the clock, and the restart of a process that is down. Requests of a
user (submitting, cancelling, pausing, mounting, rolling back) and faults are
never fair.

- *Operations*: starting a reserved slot, a worker's and a recovery task's next
  step, a cancellation, the end of a shutdown, the restart, `Tick`. That
  an executor returns is an assumption: the code gives it a context that ends
  with a cancellation or a shutdown, and no deadline.
- *Deliveries*: leasing, resolving, the subscriber call (its context has a
  timeout below the lease), settling, the cancellation of workers once the
  runtime is closed, the poll of `DrainDeliveries`, the restart, `Tick`. That a
  plugin with subscribers is mounted is not fair.
- *Trajectories*: a host's work on its execution, the recovery it plans once as
  it starts, cancellations, the close of a draining host, the restart, `Tick`.
- *Gateway*: the runner, the host, `RecoverSessions`, service calls under way, a
  shutdown that has begun, the restart.
- *Interactions*: the call, a shutdown or a cancellation that has begun, the
  restart, and the views: some view stays open and its user answers. Without a user no question
  is answered, so nothing weaker would do.

`Timely = TRUE` (operations, deliveries, trajectories) says that a live host
renews its lease, or ends a call at its timeout, before the lease runs out; the
safety runs do without it wherever the property does not need it.

## What is proved

TLAPS checks all proofs from the assumptions named in the modules
(`OperationsAssumption`, `DeliveriesAssumption`, `PipelineAssumption`,
`InteractionsAssumption`, `GatewayAssumption`, `CompositionAssumption`,
`ConstantsAssumption` of `Trajectories`: what the constants are, that the subscriber timeout is below the
lease, that an answer is not one of the words for "none" and "error", that no
input is called like a direct message). Four theorems have a hypothesis of their
own, named below. There are no other assumptions: the sets of hosts, operations,
deliveries, inputs, views, answers, plugins and goroutines and every number are
arbitrary.

**Operations** (`OperationsProofs`). `ResultFenced` and
`LeaseExclusive` are not inductive: nothing in them says where a token comes
from. `FenceInvariant` adds that a record's token is 0 or its number of claims
and belongs to a running record, that workers past their claim carry distinct
tokens the store issued. With
`TypeOK`, `KeyIndexExact` and `ObservationsProgress` it is inductive
(`InvariantHolds`). The first part of the module reduces the actions to four
kinds of steps: submit, purge, claim, and steps that change a record by one of
the transitions of `operationmodel`. Theorems: `TypeCorrect`, `ResultsFenced`,
`LeasesExclusive`, `ShutdownsRelease` (the action property `ShutdownReleases`), `IndexExact`, `PollsProgress`, and
`Refinement`: the detailed specification implements `OperationLifecycle`.

`OwnRevisions` (`ExecutesOwnRevision`) rests on `RevisionInvariant`: a host with
a worker for an operation, or with a slot reserved for one, is up and serves the
revision in the record, and a host that does not serve has no recovery task; it
changes its revision only while it has no worker and no reserved slot.
`SingleExecutors` (`SingleExecutor`) rests on `LeasesKept`: with timely
heartbeats, a worker whose context is live has its token in the record and more of its
lease left than any clock may be off, so no other host finds it expired. That
needs `2 * Skew < TTL`, the hypothesis of the theorem: a claim written by a
clock that is slow by `Skew` leaves `TTL - Skew`, which a clock that is fast by
`Skew` must not take for expired. A cancelled worker no longer renews and is not
counted: its executor may overlap with the next one, which is why a result is
fenced.

**Deliveries** (`DeliveriesProofs`). `LeaseInvariance` is the
inductive invariant: sequence numbers identify deliveries, only the head of a
partition is leased, a token belongs to one worker, a worker that is to
acknowledge has a received delivery, and, for subscribers that keep their
timeout, a worker in a call has at least as much lease left as time. The last
part, with the timeout below the lease, makes `SerialPartition` hold for every
lease and timeout (`Serialization`). `LeasesSettled` proves the action property
`NoLeaseAbandoned`: without a fault a busy worker goes idle only by settling
(`GoesIdle`), and settling takes the delivery off its lease. Theorems: `Typing`,
`LeaseInvariance`, `Ordering`, `Fencing`, `AtLeastOnce`, `Serialization`,
`LeasesSettled`.

**Delivery pipeline** (`DeliveryPipelineProofs`). Outbox and inbox are instances
of `Deliveries`, and the proofs of `DeliveriesProofs` are instantiated for both:
each queue keeps its own invariant in every step of the pipeline (`Going` in
`DeliveriesProofs` is what a queue does as a part of it). `Related` is what ties the two together. A
delivery is *reached* when everything before it in its partition is settled in
the outbox; workers, calls on the network and the inbox have reached deliveries
only, a worker has "ok" for a result and a call an acceptance only if the inbox
has the delivery, and a delivery the outbox delivered is in the inbox before all
later ones of its partition. Since reached deliveries stay reached and a queue only grows
at its end (`Grows`), late and repeated calls change none of this. Theorems:
`NoLoss` (`NothingLost`) and `Order` (`EndToEndOrder`), for any number of
runtimes, plugin servers, deliveries and faults.

**Interactions** (`InteractionsProofs`). `ItemsStep`: a step
leaves a question alone, stores a new one or closes a pending one, and a closed
question never changes. `Agreement` (what the execution recorded, what a view
was told and what is on its way to a view is what the store has; a call returns
from a settled question) gives `AnswersKept`. `Announced` (questions are stored
one after another and before they are announced; the question of a waiting call
is in the stream; a live view shows every pending question announced up to its
cursor) gives `QuestionsShown`, which holds because the view opens the stream
before it lists what is pending.

**Gateway** (`GatewayProofs`). `InputsInOrder` is inductive by
itself. `SubmittedOnce` needs to know why the runner may submit: a queued input
has no execution, an unbound dispatching one has only executions accepted since
it was dispatched (`Records`), and a runner past the dispatch boundary has an
unbound input without execution (`Fresh`), since the boundary adopts any
execution that came after the dispatch. `PauseHolds` needs `Holding`: inputs are
held only during a pause, and the input between the second look at the session
and its submission is not among them. Theorems: `GatewayTypes`, `Order`, `Once`,
`Pauses`.

`Results` is about `ResultIsOwn` and has the condition `QueueOnly`: no message
was accepted past the queue so far (the exception is described below). Under it
`Own` is inductive: a bound input is bound to the execution of its content; if an
execution came after the dispatch of an unbound input, the current one is the
input's; the runner follows the execution of its own input, and fails an input
only if it was never submitted, since a supervisor that was stopped between
submission and binding stays stopped until the process ends.

**Composition** (`CompositionProofs`). The inductive invariant is `Structure`
and `RefsExact`. `Structure` says what a mount, a snapshot and a goroutine may
be at the same time: every mount a lease or a snapshot names exists; a mount
that is being opened or discarded belongs to one goroutine; a published mount is
not retired; what a goroutine has acquired so far is a part of the snapshot it
acquires; the published snapshot is valid, and what a goroutine is about to
publish is derived from it; work is counted from its admission to its end, and
the runtime's close advances only as the counts allow. `RefsExact` counts: the
references of a mount are the number of leases that hold it. The steps therefore
prove `Structure'` together with `Tally`, which says for each mount which
goroutine took or gave back a reference, and a tally is turned into
cardinalities once for all actions. Theorems: `CompositionTypes`, `References`,
`LeasesHold`, `Compositions`, `StorageLast`, `NoLeaks`.

**Trajectories** (`TrajectoriesProofs`: the invariant; `TrajectoriesResults`: what
follows from it about conversations, turns and cancels). A lemma that one proof
uses is a step of that proof (the actions are the steps of `EveryStep`), and a
fact that most of a proof rests on is an unnamed step. A branch is computed by
recursion along the parents (`BranchIn`). That the recursion has its defining equation, that a branch is a
line and that appends change none is proved from `Founded`: every set of log
positions in which each has a smaller one is empty. It stands in for an
induction: it holds of the empty log, each append of at most two entries keeps
it, and so it is one more conjunct of the invariant.

`Inv` (theorem `Invariance`) has two halves. The store: the log is a tree whose
last entry is the head; an execution's record fits its input entry, and only the
last can be live; a checkpoint lies above its execution's input; a success leaves
every prompt of the branch below the latest checkpoint; `SettledOnce` and
`ActiveBranchOwned`. The hosts: what a host read (the entry to resume from, the
anchor of a recovery, the execution it writes for, the base it unwinds to) is
still so *if the head has not moved since* (`Ready`, and `CancelBounds` for a
canceller). That is the reason the whole is safe: every write compares heads,
every step that changes what somebody may have read appends, and so moves the
head. Neither property is inductive without it. All actions are reduced to five
kinds of steps of the store (`Quiet`, `Moves`, `Accepts`, `Commits`,
`Completes`), which keep the first half; each action then only has to show which
kind it is and that its own host stays ready (`Good`). Theorems: `Types`,
`Settled`, `BranchOwned`, and `Final` for the action property
`NothingAfterSettled`.

`Refinement`: the specification implements `Conversation`. The five kinds of
steps are its steps or none; `Concluded` is what makes the history that a
resume restores the one that a success left.

`TurnsOnce` (`NoTurnRedone`) has the hypothesis `~Closes`, since a forced close
moves the head back to the base (below). `Turns` adds that the checkpoints of an
execution follow one another on one branch, on the head's while it is live, and
that a host which the head does not stop plans with the latest checkpoint and is
in a later turn than any that is checkpointed.

`CancelsSettle` (`CancelSettles`) has the hypotheses of its run: `Timely`, no
drains, no closes, no unwind that fails. `Waiting` adds that a host past its claim holds the lease
under a token nobody else has until the execution is settled, that it unwinds
from the current head, and that a canceller waits for such a host.

Each invariant was model-checked before it was proved.

## What is only model-checked

Liveness: `EveryOperationFinishes`, `ShutdownCompletes`, `EverySettles`,
`DrainReturns`, `PromptsSettle`, `InputsSettle`, `QuestionsReturn`. The prover has
no reasoning about fairness. Every other property the passing runs check is the
subject of a theorem above; `ResultIsOwn`, `NoTurnRedone`, `CancelSettles` and
`SingleExecutor` with the hypotheses named there.

## Where the code and its documentation differ

Modelling the code brought out behaviours that its comments or documents do not
describe, or describe otherwise. The models contain them; the properties above
are the ones that hold with them, or that hold in the stated setting.

*Operations.* An agent operation that runs when its runtime drains or closes can
get the error of a refused or ended child session while its own context is still
live, and that is stored as its failure; `docs/pluggable-sdk.md:458-461` speaks of
releasing the claim "instead of recording shutdown as an operation failure".
`ShutdownReleases` is about workers that are cancelled. A delayed recovery asks for its slot once
(`internal/operationworker/host.go:73`). If a worker whose own claim was refused
still has the slot, nothing is started and nothing asks again, although
`docs/architecture.md:115` wants a delayed plan for every crashed worker's lease.
`operations_live` therefore has no resubmissions. A replay that finds a crashed
worker's lease still valid gets `ErrOperationClaimed`, and `Runner.Run` returns
(`runner.go:52`); `docs/architecture.md:117` says the worker will "claim or wait
under the same lease fence". The run therefore has plugin servers only, which
recover on their own.

*Deliveries.* `startClose` closes the runtime (`sdk/runtime/runtime.go:462`)
before it cancels the delivery workers (`:479`). A worker that resolves its
subscriber in between gets `ErrRuntimeClosed` as a failed attempt and may
dead-letter the delivery. `internal/deliveryworker/runner.go:154` says "Worker
cancellation is a lifecycle release, not subscriber failure", and
`docs/architecture.md:196-199` the same. No property counts attempts. A runtime
starts its delivery workers with the first plugin that has subscribers
(`composition_mount.go:171`); one that is restarted without such a plugin leaves
what is in the outbox where it is, which `EverySettles` allows for.

*Trajectories.*
- `RecoverExecution` claims the current execution without comparing it with its
  plan (`sdk/runtime/durability_recovery.go:71`). If the planned one was settled
  and another accepted in between, the host runs the new one with the old plan,
  its first commit conflicts, and the prompt fails. `docs/pluggable-sdk.md:691-693`
  says hosts run from the accepted input. `ConversationSpec` holds all the same.
- A forced close moves the head back to the base of the execution
  (`durability_execution.go:744`), so recovery starts from the input again;
  `docs/pluggable-sdk.md:722-723` says it resumes after the latest checkpoint, and
  `docs/gateway.md:197-198` allows an earlier one. `NoTurnRedone` is checked
  without forced closes.
- When a drain begins before the unwind of a cancelled execution chooses its
  outcome, the drain is tested first (`durability_execution.go:739`) and the
  execution goes back to pending while its canceller returns without error;
  `execution_lifecycle.go:434-437` and `docs/gateway.md:167` describe a persisted
  cancellation. `CancelSettles` is checked without drains, and with timely
  renewals: a host that lost its lease unwinds nothing.
- After a failed or cancelled execution every resume returns to the base of that
  execution (`internal/durability/checkpoint.go:472`), also when a rollback has
  moved the head since; `docs/pluggable-sdk.md:747-751` says the rollback moves
  the head. `Conversation` lets such a resume select any history when rollbacks
  are allowed; without them it is strict.
- A host that lost its lease unwinds nothing, and one whose unwind fails gives the
  execution up (`durability_execution.go:263-303`). If it lives on, nobody looks at
  that execution before a host starts. `PromptsSettle` names the state
  (`Stranded`) and holds again from the restart on.
- A host whose claim got another execution than the submitted one abandons the
  claim (`execution_submission.go:157`); until a host restarts nobody runs that
  execution. `PromptsSettle` is checked with one prompt.

*Gateway.*
- A restarted runner takes any execution younger than the dispatch for its own
  (`gateway/input_supervisor.go:241`). A direct message accepted between the
  dispatch and the crash is adopted: the input reports its outcome and never
  runs. The comment at `237-240` speaks of older direct runs only. `ResultIsOwn`
  is checked without direct messages and proved for as long as none was
  accepted; `SubmittedOnce` holds with them.
- `EnqueueInput` decides from the session it read before it stored the input
  (`service.go:606`). If the session is resumed in between, nobody schedules the
  input until another input, a resume or a restart does. `InputsSettle` is checked
  without pauses.
- A direct message that replaces a finished execution before the supervisor has
  polled it leaves the runner asking for an execution that is no longer current.
  `InputsSettle` is checked without direct messages.
- A recovery that cannot build its runtime is logged and dropped
  (`runtime_backend.go:706-714`), and a host that returns without a stored outcome
  leaves its slot; the input polls a live execution that nobody runs until it is
  cancelled or the process restarts. `docs/gateway.md:161` lets each accepted input
  end. `InputsSettle` names the state (`HostLost`).

*Interactions.*
- When a view's answer is confirmed, or any question is reported as settled, the
  view clears whatever it has pending (`gateway_tui_adapter.go:1090`, `483-487`).
  A second question announced meanwhile cannot be answered in that view.
  `QuestionsReturn` is checked with one question; `AnswerKept` and `QuestionShown`
  are proved for any number.
- The announcement of a question may follow that of its answer, and a crash
  between storing an answer and announcing it loses the announcement.
- A question pending at a forced shutdown is cancelled for good; the replayed
  `ask_user` call fails instead of asking again. `docs/gateway.md:171-173` says that
  a cancellation cancels the pending question.

*Composition.* A session pinned to a snapshot keeps no lease between turns, so
its turns fail once a mount of the snapshot is unmounted and closed;
`docs/pluggable-sdk.md:325-326` promises only that connections outlive the leases.
Overlapping turns of pinned sessions can keep a retired mount open for ever, so
that every retired mount is closed is not claimed.

## Not modelled

The repository has about 145,000 lines, of which the terminal interface
(`internal/tui`, `internal/cagent`), generated protocol code and bundled plugins
are the larger part. They present, convert or do input and output and keep no
state that another part relies on. The modules cover the concurrent core, which
is a small part of the lines.

- *Alternative stores* (file, SQLite, PostgreSQL, DuckDB): they run the
  transitions of `operationmodel`, `deliverymodel` and `trajectorymodel`, which are
  modelled, inside a transaction or a file lock whose isolation is not in the
  source.
- *Plugin registry*: leased registrations and a bounded change log under one
  lock. A process reads it once as it starts (`internal/bootstrap`); nothing
  follows the log.
- *Context injection*: text drained at a turn boundary and committed with the
  checkpoint, which `Trajectories` models as one commit without its text.
- *Agents and workflows*: both are operations with idempotency keys and child
  sessions, as modelled by `Operations` and `Trajectories`. The wave scheduler
  inside a workflow keeps its progress in memory and is left out.
- *Event observers, invocation graph, conversation and inspection views*: told
  after a commit, or read-only projections.
- *Model turns, tools, hooks, prompts, permissions*: calls whose content has no
  state of its own.
- *RPC conversions, command line, configuration, bootstrap, process manager,
  plugin host helpers*: conversions, wiring and operating-system behaviour.

Inside the modelled parts these are left out: forks and deletion of
trajectories and the events a commit carries; sessions' creation and deletion,
attachments and store errors in the gateway; permission questions that wait at
the same time, several answers in flight from one view and page limits; panics
of handlers (ordinary errors); the wording of errors; the content of messages.
