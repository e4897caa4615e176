--------------------------- MODULE OperationsProofs ---------------------------
(***************************************************************************)
(* Proofs about the operation store and its workers, for every set of      *)
(* hosts, operations, keys and revisions and every lease length and skew:  *)
(* first what the steps do to the records, the workers and what pollers    *)
(* saw, then the invariants and the theorems.                              *)
(***************************************************************************)
EXTENDS Operations, TLAPS

-------------------------------------------------------------------------------
(***************************************************************************)
(* Types.                                                                  *)
(***************************************************************************)

\* Every record transition yields a record.
LEMMA RecordTypes ==
    ASSUME NEW r \in Record, NEW s \in Skews, NEW res \in Results,
           NEW st \in Terminal, NEW token \in Nat
    PROVE  /\ Transition(r, st, res) \in Record
           /\ Claimed(r, s) \in Record
           /\ Renewed(r, s) \in Record
           /\ Completed(r, token, res) \in Record
           /\ Released(r) \in Record
<1> USE OperationsAssumption DEF OperationsAssumption, Record, Skews, States,
        Terminal, Results
<1>0. /\ r.revision + 1 \in Nat /\ r.claims + 1 \in Nat /\ r.token \in Nat
      /\ TTL + s \in Nat
  OBVIOUS
<1>1. Transition(r, st, res) \in Record
  BY Zenon, <1>0 DEF Transition
<1>2. Claimed(r, s) \in Record
  BY Zenon, <1>0 DEF Claimed
<1>3. Renewed(r, s) \in Record
  BY Zenon, <1>0 DEF Renewed
<1>4. Completed(r, token, res) \in Record
  BY Zenon, <1>0 DEF Completed
<1>5. Released(r) \in Record
  BY Zenon, <1>0 DEF Released
<1> QED BY <1>1, <1>2, <1>3, <1>4, <1>5

\* The place of an operation that is not stored is a record, and so is a new
\* pending one.
LEMMA BlankTypes ==
    /\ \A st \in States : Blank(st) \in Record /\ Blank(st).state = st
    /\ \A k \in Keys, x \in Inputs, r \in Resources :
          PrepareNewRecord(k, x, r) \in Record
BY ZenonT(30), OperationsAssumption
DEF Record, States, Terminal, Results, Blank, NoRecord, PrepareNewRecord

\* Every worker, request and task the actions build has its type.
LEMMA WorkerTypes ==
    /\ NoWorker \in Worker /\ Returning \in Worker
    /\ \A b \in BOOLEAN : Starting(b) \in Worker
    /\ \A w \in Worker : Cancelled(w) \in Worker /\ Lost(w) \in Worker
    /\ \A w \in Worker, t \in Nat : Owning(w, t) \in Worker
    /\ \A w \in Worker, o \in Results : Executed(w, o) \in Worker
BY Zenon DEF Worker, NoWorker, Returning, WorkerStates, Results, Starting, Cancelled,
       Lost, Owning, Executed

\* So have the requests and tasks.
LEMMA TaskTypes ==
    /\ NoCancel \in Canceller /\ NoRecovery \in Recoverer
    /\ \A p \in {"get", "apply", "notify"}, i \in Ids, n \in Nat :
          Request(p, i, n) \in Canceller
    /\ \A p \in {"none", "read", "wait", "validate", "fail", "replay"},
          b \in BOOLEAN, d \in Nat, n \in Nat : Task(p, b, d, n) \in Recoverer
    /\ \A t \in Recoverer : AgedTask(t) \in Recoverer
BY DEF Canceller, NoCancel, Request, Recoverer, NoRecovery, Task, AgedTask, Less

\* A cancellation under way is of an operation.
LEMMA CancelTarget ==
    ASSUME NEW c \in Canceller, c.pc \in {"get", "apply", "notify"}
    PROVE  c.id \in Ids
BY DEF Canceller, NoCancel, Request

\* What Poll returns of a stored operation is a snapshot.
LEMMA ObservedType ==
    ASSUME TypeOK, NEW i \in Ids, Exists(i)
    PROVE  Observed(i) \in Snapshot
BY DEF TypeOK, Exists, Observed, Snapshot, Record

\* The initial state is well typed.
LEMMA InitType == Init => TypeOK
BY BlankTypes, WorkerTypes, TaskTypes, OperationsAssumption
DEF Init, TypeOK, States, OperationsAssumption

\* Every step of a submission or of a worker keeps the types.
LEMMA WorkerStepType ==
    ASSUME TypeOK, KeyIndexExact, NEW h \in Hosts, NEW i \in Ids, NEW s \in Skews,
           NEW k \in Keys, NEW x \in Inputs,
           \/ SubmitNew(h, i, k, x) \/ SubmitAgain(h, i, k, x)
           \/ StartReservedAsync(h, i) \/ Claim(h, i, s) \/ ClaimRefused(h, i, s)
           \/ Heartbeat(h, i, s) \/ Execute(h, i)
           \/ Finish(h, i, s) \/ FinishSlot(h, i) \/ StoreFault(h, i)
           \/ Poll(h, i)
    PROVE  TypeOK'
<1> USE DEF TypeOK, hostVars
<1>0. /\ ops[i] \in Record /\ run[h][i] \in Worker
      /\ run[h][i].outcome \in Results /\ run[h][i].token \in Nat
      /\ ops[i].claims + 1 \in Nat
  BY DEF Worker, Record
<1>r. /\ \A res \in Results : Completed(ops[i], run[h][i].token, res) \in Record
      /\ Released(ops[i]) \in Record /\ Claimed(ops[i], s) \in Record
      /\ Renewed(ops[i], s) \in Record
  BY Zenon, <1>0, RecordTypes DEF Results, Terminal
<1>o. Exists(i) => Observed(i) \in Snapshot
  BY ObservedType
<1>1. CASE SubmitNew(h, i, k, x)
  <2>1. PrepareNewRecord(k, x, resource[h]) \in Record
    BY BlankTypes
  <2>2. [state |-> "pending", revision |-> 1, result |-> "none"] \in Snapshot
    BY DEF Snapshot, States, Results
  <2> QED BY <1>1, <2>1, <2>2 DEF SubmitNew
<1>2. CASE SubmitAgain(h, i, k, x)
  <2>1. Observed(i) \in Snapshot
    BY <1>2, <1>o DEF SubmitAgain, KeyIndexExact
  <2> QED BY <1>2, <2>1 DEF SubmitAgain, Hint
<1>3. CASE StartReservedAsync(h, i)
  BY Zenon, <1>3, WorkerTypes DEF StartReservedAsync
<1>4. CASE Claim(h, i, s)
  <2>1. Owning(run[h][i], ops[i].claims + 1) \in Worker
    BY <1>0, WorkerTypes
  <2> QED BY <1>4, <1>r, <2>1 DEF Claim
<1>5. CASE ClaimRefused(h, i, s)
  BY <1>5, WorkerTypes DEF ClaimRefused
<1>7. CASE Heartbeat(h, i, s)
  <2>1. Lost(run[h][i]) \in Worker
    BY <1>0, WorkerTypes
  <2>2. CASE Holds(ops[i], run[h][i].token, s)
    BY ZenonT(30), <1>7, <1>r, <2>2 DEF Heartbeat
  <2>3. CASE ~Holds(ops[i], run[h][i].token, s)
    <3>1. run' = [run EXCEPT ![h][i] = Lost(run[h][i])] /\ UNCHANGED ops
      BY Zenon, <1>7, <2>3 DEF Heartbeat
    <3> QED BY Zenon, <1>7, <2>1, <3>1 DEF Heartbeat
  <2> QED BY <2>2, <2>3
<1>8. CASE Execute(h, i)
  <2>1. \A o \in {"output", "executeError", "contextError"} :
          Executed(run[h][i], o) \in Worker
    BY <1>0, WorkerTypes DEF Results
  <2> QED BY SMT, SMTT(30), <1>8, <2>1 DEF Execute
<1>9. CASE Finish(h, i, s)
  <2>1. ops' \in [Ids -> Record]
    BY Zenon, <1>9, <1>0, <1>r DEF Finish, ReleaseCall, CompleteCall
  <2> QED BY <1>9, <2>1, WorkerTypes DEF Finish
<1>10. CASE FinishSlot(h, i)
  BY <1>10, WorkerTypes DEF FinishSlot
<1>11. CASE StoreFault(h, i)
  <2>1. Lost(run[h][i]) \in Worker
    BY <1>0, WorkerTypes
  <2>2. PICK w \in Worker : run' = [run EXCEPT ![h][i] = w]
    BY Zenon, <1>11, <2>1, WorkerTypes DEF StoreFault
  <2>3. run' \in [Hosts -> [Ids -> Worker]]
    BY <2>2
  <2> QED BY SMT, SMTT(30), <1>11, <2>3 DEF StoreFault
<1>12. CASE Poll(h, i)
  BY Zenon, <1>12, <1>o DEF Poll
<1> QED BY Zenon, <1>1, <1>2, <1>3, <1>4, <1>5, <1>7, <1>8, <1>9, <1>10, <1>11, <1>12

\* Every other step keeps the types.
LEMMA HostStepType ==
    ASSUME TypeOK, NEW h \in Hosts, NEW i \in Ids, NEW s \in Skews,
           NEW r \in Resources, NEW S \in SUBSET Ids,
           \/ CancelRequest(h, i) \/ CancelGet(h) \/ CancelApply(h)
           \/ CancelNotify(h) \/ PurgeTerminal(S)
           \/ RecoverRead(h, i, s) \/ RecoverWake(h, i) \/ RecoverValidate(h, i)
           \/ RecoverFail(h, i) \/ Replay(h, i)
           \/ Drain(h) \/ Shutdown(h) \/ Stopped(h) \/ Crash(h) \/ Restart(h, r, s) \/ Tick
    PROVE  TypeOK'
<1> USE DEF TypeOK
<1>0. /\ ops[i] \in Record /\ ops[i].revision \in Nat
      /\ recovery[h][i].startup \in BOOLEAN
      /\ \A j \in Ids : run[h][j] \in Worker
  BY SMT, SMTT(30) DEF Record, Recoverer
<1>d. \A j \in Ids : Leased(ops[j], s) => ops[j].left - s \in Nat
  BY OperationsAssumption DEF OperationsAssumption, Leased, Record, Skews
<1>t. \A p \in {"none", "read", "wait", "validate", "fail", "replay"},
         b \in BOOLEAN, d \in Nat, n \in Nat : Task(p, b, d, n) \in Recoverer
  BY TaskTypes
<1>c. \A j \in Ids : Cancelled(run[h][j]) \in Worker
  BY Zenon, <1>0, WorkerTypes
<1>n. /\ NoRecovery \in Recoverer /\ NoCancel \in Canceller
      /\ \A t \in Recoverer : SetRecovery(h, i, t) =>
           /\ up' \in [Hosts -> {"up", "draining", "closing", "down"}]
           /\ recovery' \in [Hosts -> [Ids -> Recoverer]]
  <2>1. NoRecovery \in Recoverer /\ NoCancel \in Canceller
    BY TaskTypes
  <2>2. ASSUME NEW t \in Recoverer, SetRecovery(h, i, t)
        PROVE  /\ up' \in [Hosts -> {"up", "draining", "closing", "down"}]
               /\ recovery' \in [Hosts -> [Ids -> Recoverer]]
    BY <2>2 DEF SetRecovery
  <2> QED BY <2>1, <2>2
<1>g. RecoveryGone(h, i) => /\ up' \in [Hosts -> {"up", "draining", "closing", "down"}]
                           /\ run' \in [Hosts -> [Ids -> Worker]]
                           /\ recovery' \in [Hosts -> [Ids -> Recoverer]]
  <2>1. ASSUME recovery[h][i].startup, RecoveryGone(h, i)
        PROVE  /\ up' \in [Hosts -> {"up", "draining", "closing", "down"}]
               /\ run' \in [Hosts -> [Ids -> Worker]]
               /\ recovery' \in [Hosts -> [Ids -> Recoverer]]
    <3>1. up' \in [Hosts -> {"up", "draining", "closing", "down"}]
      BY Zenon, <2>1 DEF RecoveryGone
    <3>2. [j \in Ids |-> Cancelled(run[h][j])] \in [Ids -> Worker]
      BY <1>c
    <3>3. run' \in [Hosts -> [Ids -> Worker]]
      BY Zenon, <2>1, <3>2 DEF RecoveryGone
    <3>4. [j \in Ids |-> NoRecovery] \in [Ids -> Recoverer]
      BY <1>n
    <3>5. recovery' \in [Hosts -> [Ids -> Recoverer]]
      BY ZenonT(30), <2>1, <3>4 DEF RecoveryGone
    <3> QED BY <3>1, <3>3, <3>5
  <2>2. CASE ~recovery[h][i].startup
    BY <1>n, <2>2 DEF RecoveryGone
  <2> QED BY <2>1, <2>2
<1>1. CASE CancelRequest(h, i)
  <2>1. Request("get", i, 0) \in Canceller
    BY TaskTypes
  <2> QED BY Zenon, <1>1, <2>1 DEF CancelRequest
<1>2. CASE CancelGet(h)
  <2>1. cancel[h].id \in Ids
    BY ZenonT(30), <1>2, CancelTarget DEF CancelGet
  <2>2. Request("apply", cancel[h].id, ops[cancel[h].id].revision) \in Canceller
    BY Zenon, <2>1, TaskTypes DEF Record
  <2> QED BY Zenon, <1>2, <1>n, <2>2 DEF CancelGet
<1>3. CASE CancelApply(h)
  <2>1. cancel[h].id \in Ids
    BY Zenon, <1>3, CancelTarget DEF CancelApply
  <2>2. /\ Request("get", cancel[h].id, 0) \in Canceller
        /\ Request("notify", cancel[h].id, 0) \in Canceller
    BY Zenon, <2>1, TaskTypes
  <2>3. Transition(ops[cancel[h].id], "cancelled", "none") \in Record
    BY Zenon, <2>1, RecordTypes DEF Terminal, Results
  <2>4. ops' \in [Ids -> Record]
    BY ZenonT(30), <1>3, <2>1, <2>3 DEF CancelApply
  <2>5. PICK c \in Canceller : cancel' = [cancel EXCEPT ![h] = c]
    BY <1>3, <1>n, <2>2 DEF CancelApply
  <2> QED BY <1>3, <2>4, <2>5 DEF CancelApply
<1>4. CASE CancelNotify(h)
  <2>1. cancel[h].id \in Ids
    BY Zenon, <1>4, CancelTarget DEF CancelNotify
  <2> QED BY Zenon, <1>4, <1>n, <1>c, <2>1 DEF CancelNotify
<1>5. CASE PurgeTerminal(S)
  <2>1. Blank("purged") \in Record
    BY BlankTypes DEF States
  <2> QED BY Zenon, <1>5, <2>1 DEF PurgeTerminal, hostVars
<1>6. CASE RecoverRead(h, i, s)
  <2>1. Leased(ops[i], s) => Task("wait", FALSE, ops[i].left - s, 0) \in Recoverer
    BY Zenon, <1>d, <1>t
  <2>2. Task("validate", recovery[h][i].startup, 0, 0) \in Recoverer
    BY Zenon, <1>0, <1>t
  <2>3. CASE Exists(i)
    <3> DEFINE t == IF ~Unfinished(i) THEN NoRecovery
                    ELSE IF Leased(ops[i], s)
                         THEN Task("wait", FALSE, ops[i].left - s, 0)
                         ELSE Task("validate", recovery[h][i].startup, 0, 0)
    <3>1. t \in Recoverer
      BY Zenon, <1>n, <2>1, <2>2
    <3>2. SetRecovery(h, i, t)
      BY Zenon, <1>6, <2>3 DEF RecoverRead
    <3> HIDE DEF t
    <3> QED BY Zenon, <1>6, <1>n, <2>3, <3>1, <3>2 DEF RecoverRead
  <2>4. CASE ~Exists(i)
    BY Zenon, <1>6, <1>g, <2>4 DEF RecoverRead
  <2> QED BY Zenon, <2>3, <2>4
<1>7. CASE RecoverWake(h, i)
  <2>1. Task("read", FALSE, 0, 0) \in Recoverer
    BY ZenonT(30), <1>t
  <2> QED BY Zenon, <1>7, <1>n, <2>1 DEF RecoverWake
<1>8. CASE RecoverValidate(h, i)
  <2>1. Task("fail", recovery[h][i].startup, 0, ops[i].revision) \in Recoverer
    BY Zenon, <1>0, <1>t
  <2>2. CASE Exists(i)
    <3>1. \E t \in Recoverer : SetRecovery(h, i, t)
      BY Zenon, <1>8, <1>n, <2>1, <2>2 DEF RecoverValidate
    <3>2. PICK I \in SUBSET Ids : starts' = [starts EXCEPT ![h] = I]
      BY Zenon, <1>8, <2>2, starts[h] \cup {i} \in SUBSET Ids, starts[h] \in SUBSET Ids
      DEF RecoverValidate
    <3> QED BY Zenon, <1>8, <1>n, <2>2, <3>1, <3>2 DEF RecoverValidate
  <2>3. CASE ~Exists(i)
    BY Zenon, <1>8, <1>g, <2>3 DEF RecoverValidate
  <2> QED BY Zenon, <2>2, <2>3
<1>9. CASE RecoverFail(h, i)
  <2>1. Task("validate", recovery[h][i].startup, 0, 0) \in Recoverer
    BY <1>0, <1>t
  <2>2. Transition(ops[i], "failed", "invalid") \in Record
    BY Zenon, <1>0, RecordTypes DEF Results, Terminal, Skews
  <2>3. CASE Exists(i)
    <3>1. \E t \in Recoverer : SetRecovery(h, i, t)
      BY Zenon, <1>9, <1>n, <2>1, <2>3 DEF RecoverFail
    <3>2. ops' \in [Ids -> Record]
      BY Zenon, <1>9, <2>2, <2>3 DEF RecoverFail
    <3> QED BY Zenon, <1>9, <1>n, <2>3, <3>1, <3>2 DEF RecoverFail
  <2>4. CASE ~Exists(i)
    BY Zenon, <1>9, <1>g, <2>4 DEF RecoverFail
  <2> QED BY Zenon, <2>3, <2>4
<1>10. CASE Replay(h, i)
  <2>2. CASE Exists(i) /\ Validates(h, i)
    <3>1. Observed(i) \in Snapshot
      BY Zenon, <2>2, ObservedType
    <3>2. starts' \in [Hosts -> SUBSET Ids]
      BY SMT, SMTT(30), <1>10, <2>2 DEF Replay, Hint
    <3>3. seen' = [seen EXCEPT ![h][i] = Observed(i)]
      BY Zenon, <1>10, <2>2 DEF Replay, Hint
    <3>4. seen' \in [Hosts -> [Ids -> Snapshot \cup {NoSnapshot}]]
      BY Zenon, <3>1, <3>3
    <3> QED BY Zenon, <1>10, <1>n, <3>2, <3>4 DEF Replay
  <2>3. CASE ~(Exists(i) /\ Validates(h, i))
    BY ZenonT(30), <1>10, <1>n, <2>3 DEF Replay
  <2> QED BY Zenon, <2>2, <2>3
<1>11a. CASE Drain(h)
  BY SMT, SMTT(30), <1>11a DEF Drain
<1>11. CASE Shutdown(h)
  BY SMT, SMTT(30), <1>11, <1>c, TaskTypes DEF Shutdown
<1>12. CASE Stopped(h)
  BY ZenonT(30), <1>12, WorkerTypes, TaskTypes DEF Stopped, Volatile
<1>13. CASE Crash(h)
  BY SMT, SMTT(30), <1>13, WorkerTypes, TaskTypes DEF Crash, Volatile
<1>14. CASE Restart(h, r, s)
  <2>1. \A j \in Ids : StartTask(h, j, s) \in Recoverer
    BY Zenon, <1>d, <1>t, TaskTypes DEF StartTask
  <2> QED BY Zenon, <1>14, <2>1 DEF Restart
<1>15. CASE Tick
  <2>1. \A j \in Ids : Aged(ops[j]) \in Record
    <3> TAKE j \in Ids
    <3>1. ops[j] \in Record /\ Less(ops[j].left) \in Nat
      BY SMT, SMTT(30) DEF Less, Record
    <3> QED BY Zenon, <3>1 DEF Aged, Record
  <2>2. \A g \in Hosts, j \in Ids : AgedTask(recovery[g][j]) \in Recoverer
    BY Zenon, TaskTypes
  <2> QED BY Zenon, <1>15, <2>1, <2>2 DEF Tick
<1> QED BY ZenonT(30), <1>1, <1>2, <1>3, <1>4, <1>5, <1>6, <1>7, <1>8, <1>9, <1>10, <1>11, <1>11a,
           <1>12, <1>13, <1>14, <1>15

-------------------------------------------------------------------------------
(***************************************************************************)
(* What a step does to the store.                                          *)
(***************************************************************************)

\* Only what is left of the lease differs.
Kept(r, q) ==
    /\ q.state = r.state /\ q.revision = r.revision /\ q.result = r.result
    /\ q.key = r.key /\ q.resource = r.resource
    /\ q.token = r.token /\ q.claims = r.claims /\ q.writer = r.writer

\* A transition of an unfinished record: one more revision, never back to
\* pending, and either a claim with a fresh token or the end of a lease.
Advanced(r, q) ==
    /\ r.state \in {"pending", "running"}
    /\ q.state \in Terminal \cup {"running"}
    /\ q.revision = r.revision + 1
    /\ q.key = r.key /\ q.resource = r.resource
    /\ q.state = "running" => q.result = r.result
    /\ \/ /\ q.state = "running" /\ q.writer = r.writer
          /\ q.claims = r.claims + 1 /\ q.token = q.claims
       \/ /\ q.claims = r.claims /\ q.token \in {0, r.token}
          /\ q.token # 0 => q.state = "running"
          /\ q.writer \in {r.writer, r.token}
          /\ q.writer # r.writer => q.state \in Terminal

\* The store's part of every step but a new submission and a purge.
StoreStep ==
    /\ keys' = keys
    /\ \/ \A j \in Ids : Kept(ops[j], ops'[j])
       \/ \E i \in Ids : /\ Advanced(ops[i], ops'[i])
                         /\ \A j \in Ids \ {i} : ops'[j] = ops[j]

\* Every record transition advances the record it is applied to.
LEMMA RecordSteps ==
    ASSUME NEW r \in Record, NEW s \in Skews, RecordFenced(r),
           r.state \in {"pending", "running"}
    PROVE  /\ Advanced(r, Claimed(r, s))
           /\ Advanced(r, Transition(r, "cancelled", "none"))
           /\ Advanced(r, Transition(r, "failed", "invalid"))
           /\ r.state = "running" =>
                /\ Advanced(r, Renewed(r, s)) /\ Advanced(r, Released(r))
                /\ \A o \in Results : Advanced(r, Completed(r, r.token, o))
<1> USE DEF RecordFenced, Advanced, Terminal, Record
<1>1. Advanced(r, Claimed(r, s))
  BY DEF Claimed
<1>2. Advanced(r, Transition(r, "cancelled", "none"))
  BY DEF Transition
<1>3. Advanced(r, Transition(r, "failed", "invalid"))
  BY DEF Transition
<1>4. ASSUME r.state = "running"
      PROVE  Advanced(r, Renewed(r, s)) /\ Advanced(r, Released(r))
  BY <1>4 DEF Renewed, Released
<1>5. ASSUME r.state = "running", NEW o \in Results
      PROVE  Advanced(r, Completed(r, r.token, o))
  BY <1>5 DEF Completed, Results
<1> QED BY Zenon, <1>1, <1>2, <1>3, <1>4, <1>5

\* A fenced record stays fenced.
LEMMA FencedRecordSteps ==
    ASSUME NEW r \in Record, NEW q \in Record, RecordFenced(r),
           Kept(r, q) \/ Advanced(r, q)
    PROVE  RecordFenced(q)
BY Zenon DEF RecordFenced, Kept, Advanced, Terminal, Record

\* A step that leaves the records alone, or advances one of them.
LEMMA StoreStepIntro ==
    ASSUME TypeOK, keys' = keys,
           \/ ops' = ops
           \/ \E i \in Ids, q \in Record :
                ops' = [ops EXCEPT ![i] = q] /\ Advanced(ops[i], q)
    PROVE  StoreStep
<1>1. CASE ops' = ops
  BY Zenon, <1>1 DEF StoreStep, Kept
<1>2. ASSUME NEW i \in Ids, NEW q \in Record, Advanced(ops[i], q),
             ops' = [ops EXCEPT ![i] = q]
      PROVE  StoreStep
  <2>1. ops'[i] = q /\ \A j \in Ids \ {i} : ops'[j] = ops[j]
    BY <1>2 DEF TypeOK
  <2> QED BY <1>2, <2>1 DEF StoreStep
<1> QED BY <1>1, <1>2

\* Submitting again, the workers, the cancellations and the recoveries take
\* store steps.
LEMMA StoreSteps ==
    ASSUME TypeOK, FenceInvariant, NEW h \in Hosts, NEW i \in Ids, NEW s \in Skews,
           NEW k \in Keys, NEW x \in Inputs, NEW r \in Resources,
           \/ SubmitAgain(h, i, k, x)
           \/ StartReservedAsync(h, i) \/ Claim(h, i, s) \/ ClaimRefused(h, i, s)
           \/ Heartbeat(h, i, s) \/ Execute(h, i)
           \/ Finish(h, i, s) \/ FinishSlot(h, i) \/ StoreFault(h, i)
           \/ Poll(h, i)
           \/ CancelRequest(h, i) \/ CancelGet(h) \/ CancelApply(h)
           \/ CancelNotify(h)
           \/ RecoverRead(h, i, s) \/ RecoverWake(h, i) \/ RecoverValidate(h, i)
           \/ RecoverFail(h, i) \/ Replay(h, i)
           \/ Drain(h) \/ Shutdown(h) \/ Stopped(h) \/ Crash(h) \/ Restart(h, r, s) \/ Tick
    PROVE  StoreStep
<1>f. \A j \in Ids : ops[j] \in Record /\ RecordFenced(ops[j])
  BY Zenon DEF TypeOK, FenceInvariant, WorkersFenced
<1>n. ops[i].token \in Nat
  BY Zenon, <1>f DEF Record
<1>t. \A j \in Ids : ops[j].state \in {"pending", "running"} =>
        /\ Advanced(ops[j], Transition(ops[j], "cancelled", "none"))
        /\ Advanced(ops[j], Transition(ops[j], "failed", "invalid"))
        /\ Transition(ops[j], "cancelled", "none") \in Record
        /\ Transition(ops[j], "failed", "invalid") \in Record
  BY Zenon, <1>f, RecordSteps, RecordTypes DEF Terminal, Results
<1>u. \A j \in Ids : ops[j].state \notin {"pending", "running"} =>
        /\ [ops EXCEPT ![j] = Transition(ops[j], "cancelled", "none")] = ops
        /\ [ops EXCEPT ![j] = Transition(ops[j], "failed", "invalid")] = ops
  BY DEF Transition, TypeOK
<1>r. ops[i].state = "running" =>
        /\ Advanced(ops[i], Renewed(ops[i], s)) /\ Renewed(ops[i], s) \in Record
        /\ Advanced(ops[i], Released(ops[i])) /\ Released(ops[i]) \in Record
        /\ \A o \in Results :
             /\ Advanced(ops[i], Completed(ops[i], ops[i].token, o))
             /\ Completed(ops[i], ops[i].token, o) \in Record
  BY Zenon, <1>f, <1>n, RecordSteps, RecordTypes DEF Terminal, Results
<1>1. CASE ops' = ops /\ keys' = keys
  BY Zenon, <1>1, StoreStepIntro
<1>2. CASE \/ SubmitAgain(h, i, k, x) \/ StartReservedAsync(h, i)
           \/ ClaimRefused(h, i, s) \/ Execute(h, i) \/ FinishSlot(h, i)
           \/ StoreFault(h, i) \/ Poll(h, i)
  BY Zenon, <1>1, <1>2 DEF SubmitAgain, StartReservedAsync, ClaimRefused, Execute,
     FinishSlot, StoreFault, Poll
<1>3. CASE \/ CancelRequest(h, i) \/ CancelGet(h) \/ CancelNotify(h)
           \/ RecoverRead(h, i, s) \/ RecoverWake(h, i) \/ RecoverValidate(h, i)
           \/ Replay(h, i)
  BY Zenon, <1>1, <1>3 DEF CancelRequest, CancelGet, CancelNotify, RecoverRead,
     RecoverWake, RecoverValidate, Replay
<1>4. CASE Drain(h) \/ Shutdown(h) \/ Stopped(h) \/ Crash(h) \/ Restart(h, r, s)
  BY Zenon, <1>1, <1>4 DEF Drain, Shutdown, Stopped, Crash, Restart
<1>5. CASE Claim(h, i, s)
  <2>1. Advanced(ops[i], Claimed(ops[i], s)) /\ Claimed(ops[i], s) \in Record
    BY Zenon, <1>5, <1>f, RecordSteps, RecordTypes DEF Claim, Unfinished, Terminal, Results
  <2> QED BY Zenon, <1>5, <2>1, StoreStepIntro DEF Claim
<1>7. CASE Heartbeat(h, i, s)
  BY Zenon, <1>1, <1>7, <1>r, StoreStepIntro DEF Heartbeat, Holds
<1>8. CASE Finish(h, i, s)
  <2>1. CASE run[h][i].lost
    BY <1>1, <1>8, <2>1 DEF Finish
  <2>2. CASE ~run[h][i].lost /\ run[h][i].cancelled
    BY <1>1, <1>8, <1>r, <2>2, StoreStepIntro DEF Finish, ReleaseCall
  <2>3. CASE ~run[h][i].lost /\ ~run[h][i].cancelled
    <3>1. run[h][i].outcome \in Results
      BY Zenon DEF TypeOK, Worker
    <3> QED BY Zenon, <1>1, <1>8, <1>r, <2>3, <3>1, StoreStepIntro
            DEF Finish, CompleteCall, Holds
  <2> QED BY Zenon, <2>1, <2>2, <2>3
<1>9. CASE CancelApply(h)
  <2>1. cancel[h].id \in Ids
    BY <1>9 DEF CancelApply, TypeOK, Canceller, NoCancel, Request
  <2> QED BY <1>1, <1>9, <1>t, <1>u, <2>1, StoreStepIntro DEF CancelApply
<1>10. CASE RecoverFail(h, i)
  BY Zenon, <1>1, <1>10, <1>t, <1>u, StoreStepIntro DEF RecoverFail
<1>11. CASE Tick
  <2>1. \A j \in Ids : Kept(ops[j], Aged(ops[j]))
    BY <1>f DEF Kept, Aged, Record
  <2> QED BY Zenon, <1>11, <2>1 DEF Tick, StoreStep
<1> QED BY Zenon, <1>2, <1>3, <1>4, <1>5, <1>7, <1>8, <1>9, <1>10, <1>11

-------------------------------------------------------------------------------
(***************************************************************************)
(* What a step does to the workers and to the observations.                *)
(***************************************************************************)

\* No worker is past its claim that was not before, none changes its token, and
\* none comes alive.
WorkersKept ==
    \A g \in Hosts, j \in Ids :
        /\ Active(run'[g][j]) =>
             Active(run[g][j]) /\ run'[g][j].token = run[g][j].token
        /\ Alive(run'[g][j]) => Alive(run[g][j])

\* An observation is kept, dropped, or that of a stored, untouched record.
ObservationsKept ==
    \A g \in Hosts, j \in Ids :
        \/ seen'[g][j] \in {seen[g][j], NoSnapshot}
        \/ Exists(j) /\ ops' = ops /\ seen'[g][j] = Observed(j)

\* The updates of one worker that keep it, in the sense of WorkersKept.
KeptWorker(w, v) ==
    /\ Active(v) => Active(w) /\ v.token = w.token
    /\ Alive(v) => Alive(w)

\* Returning, losing the lease and being cancelled are such updates.
LEMMA KeptWorkers ==
    ASSUME NEW w \in Worker
    PROVE  /\ KeptWorker(w, w) /\ KeptWorker(w, NoWorker) /\ KeptWorker(w, Returning)
           /\ \A b \in BOOLEAN : KeptWorker(w, Starting(b))
           /\ KeptWorker(w, Cancelled(w)) /\ KeptWorker(w, Lost(w))
           /\ \A o \in Results : w.pc = "executing" => KeptWorker(w, Executed(w, o))
BY DEF KeptWorker, Alive, Active, Worker, WorkerStates, NoWorker, Returning, Starting,
       Cancelled, Lost, Executed, Results

\* A step that replaces one worker, or those of one host.
LEMMA WorkersKeptIntro ==
    ASSUME TypeOK, FenceInvariant, NEW h \in Hosts,
           \/ run' = run
           \/ \E i \in Ids, v \in Worker :
                KeptWorker(run[h][i], v) /\ run' = [run EXCEPT ![h][i] = v]
           \/ \E f \in [Ids -> Worker] :
                /\ \A i \in Ids : KeptWorker(run[h][i], f[i])
                /\ run' = [run EXCEPT ![h] = f]
    PROVE  WorkersKept
<1>0. \A g \in Hosts, j \in Ids : KeptWorker(run[g][j], run[g][j])
  <2>1. \A g \in Hosts, j \in Ids : run[g][j] \in Worker
    BY SMT, SMTT(30) DEF TypeOK
  <2> QED BY Zenon, <2>1, KeptWorkers
<1>1. CASE run' = run
  BY ZenonT(30), <1>0, <1>1 DEF WorkersKept, KeptWorker
<1>2. ASSUME NEW i \in Ids, NEW v \in Worker, KeptWorker(run[h][i], v),
             run' = [run EXCEPT ![h][i] = v]
      PROVE  WorkersKept
  <2>1. \A g \in Hosts, j \in Ids :
          run'[g][j] = IF g = h /\ j = i THEN v ELSE run[g][j]
    BY ZenonT(30), <1>2 DEF TypeOK
  <2> QED BY SMT, SMTT(30), <1>0, <1>2, <2>1 DEF WorkersKept, KeptWorker
<1>3. ASSUME NEW f \in [Ids -> Worker], run' = [run EXCEPT ![h] = f],
             \A i \in Ids : KeptWorker(run[h][i], f[i])
      PROVE  WorkersKept
  <2>1. \A g \in Hosts, j \in Ids :
          run'[g][j] = IF g = h THEN f[j] ELSE run[g][j]
    BY Zenon, <1>3 DEF TypeOK
  <2> QED BY SMT, SMTT(30), <1>0, <1>3, <2>1 DEF WorkersKept, KeptWorker
<1> QED BY <1>1, <1>2, <1>3

\* Every step but a claim keeps the workers.
LEMMA WorkerSteps ==
    ASSUME TypeOK, FenceInvariant, NEW h \in Hosts, NEW i \in Ids, NEW s \in Skews,
           NEW k \in Keys, NEW x \in Inputs, NEW r \in Resources,
           NEW S \in SUBSET Ids,
           \/ SubmitNew(h, i, k, x) \/ SubmitAgain(h, i, k, x)
           \/ StartReservedAsync(h, i) \/ ClaimRefused(h, i, s)
           \/ Heartbeat(h, i, s) \/ Execute(h, i)
           \/ Finish(h, i, s) \/ FinishSlot(h, i) \/ StoreFault(h, i)
           \/ Poll(h, i) \/ PurgeTerminal(S)
           \/ CancelRequest(h, i) \/ CancelGet(h) \/ CancelApply(h)
           \/ CancelNotify(h)
           \/ RecoverRead(h, i, s) \/ RecoverWake(h, i) \/ RecoverValidate(h, i)
           \/ RecoverFail(h, i) \/ Replay(h, i)
           \/ Drain(h) \/ Shutdown(h) \/ Stopped(h) \/ Crash(h) \/ Restart(h, r, s) \/ Tick
    PROVE  WorkersKept
<1>w. \A j \in Ids : run[h][j] \in Worker
  BY Zenon DEF TypeOK
<1>k. \A j \in Ids :
        /\ KeptWorker(run[h][j], NoWorker) /\ KeptWorker(run[h][j], Returning)
        /\ \A b \in BOOLEAN : KeptWorker(run[h][j], Starting(b))
        /\ KeptWorker(run[h][j], Cancelled(run[h][j]))
        /\ KeptWorker(run[h][j], Lost(run[h][j]))
  BY Zenon, <1>w, KeptWorkers
<1>t. /\ \A j \in Ids : Cancelled(run[h][j]) \in Worker /\ Lost(run[h][j]) \in Worker
      /\ NoWorker \in Worker /\ Returning \in Worker
      /\ \A b \in BOOLEAN : Starting(b) \in Worker
  BY Zenon, <1>w, WorkerTypes
<1>a. run' = [run EXCEPT ![h] = [j \in Ids |-> Cancelled(run[h][j])]] => WorkersKept
  <2> DEFINE f == [j \in Ids |-> Cancelled(run[h][j])]
  <2>1. f \in [Ids -> Worker] /\ \A j \in Ids : KeptWorker(run[h][j], f[j])
    BY Zenon, <1>t, <1>k
  <2> HIDE DEF f
  <2>2. run' = [run EXCEPT ![h] = f] => WorkersKept
    BY Zenon, <2>1, WorkersKeptIntro
  <2> QED BY Zenon, <2>2 DEF f
<1>n. run' = [run EXCEPT ![h] = [j \in Ids |-> NoWorker]] => WorkersKept
  <2> DEFINE f == [j \in Ids |-> NoWorker]
  <2>1. f \in [Ids -> Worker] /\ \A j \in Ids : KeptWorker(run[h][j], f[j])
    BY Zenon, <1>t, <1>k
  <2> HIDE DEF f
  <2>2. run' = [run EXCEPT ![h] = f] => WorkersKept
    BY Zenon, <2>1, WorkersKeptIntro
  <2> QED BY Zenon, <2>2 DEF f
<1>o. run' = run => WorkersKept
  BY Zenon, WorkersKeptIntro
<1>1. CASE \/ SubmitNew(h, i, k, x) \/ SubmitAgain(h, i, k, x) \/ Poll(h, i)
           \/ PurgeTerminal(S) \/ CancelRequest(h, i) \/ CancelGet(h)
           \/ CancelApply(h) \/ RecoverWake(h, i) \/ Replay(h, i)
           \/ Drain(h) \/ Restart(h, r, s) \/ Tick
  BY Zenon, <1>1, <1>o DEF Drain, SubmitNew, SubmitAgain, Poll, PurgeTerminal, CancelRequest,
     CancelGet, CancelApply, RecoverWake, Replay, Restart, Tick
<1>2. CASE RecoverRead(h, i, s) \/ RecoverValidate(h, i) \/ RecoverFail(h, i)
  BY Zenon, <1>2, <1>a, <1>o DEF RecoverRead, RecoverValidate, RecoverFail, RecoveryGone
<1>3. CASE Shutdown(h)
  BY Zenon, <1>3, <1>a DEF Shutdown
<1>4. CASE Stopped(h) \/ Crash(h)
  BY Zenon, <1>4, <1>n DEF Stopped, Crash, Volatile
<1>5. CASE \/ ClaimRefused(h, i, s) \/ Finish(h, i, s)
           \/ FinishSlot(h, i)
  BY Zenon, <1>5, <1>k, <1>t, WorkersKeptIntro
  DEF ClaimRefused, Finish, FinishSlot
<1>6. CASE Heartbeat(h, i, s) \/ StoreFault(h, i)
  BY Zenon, <1>6, <1>o, <1>k, <1>t, WorkersKeptIntro DEF Heartbeat, StoreFault
<1>7. CASE StartReservedAsync(h, i)
  BY Zenon, <1>7, <1>o, <1>k, <1>t, WorkersKeptIntro DEF StartReservedAsync
<1>8. CASE Execute(h, i)
  <2>1. PICK o \in {"output", "executeError", "contextError"} :
          /\ run' = [run EXCEPT ![h][i] = Executed(run[h][i], o)]
          /\ run[h][i].pc = "executing"
    BY Zenon, <1>8 DEF Execute
  <2>2. Executed(run[h][i], o) \in Worker
    BY Zenon, <1>w, WorkerTypes DEF Results
  <2>3. KeptWorker(run[h][i], Executed(run[h][i], o))
    BY Zenon, <1>w, <2>1, KeptWorkers DEF Results
  <2> QED BY Zenon, <2>1, <2>2, <2>3, WorkersKeptIntro
<1>9. CASE CancelNotify(h)
  <2>1. cancel[h].id \in Ids
    BY SMT, SMTT(30), <1>9 DEF CancelNotify, TypeOK, Canceller, NoCancel, Request
  <2> QED BY ZenonT(30), <1>9, <1>k, <1>t, <2>1, WorkersKeptIntro DEF CancelNotify
<1> QED BY Zenon, <1>1, <1>2, <1>3, <1>4, <1>5, <1>6, <1>7, <1>8, <1>9

\* Every step but a new submission keeps the observations.
LEMMA ObservationSteps ==
    ASSUME TypeOK, KeyIndexExact, NEW h \in Hosts, NEW i \in Ids, NEW s \in Skews,
           NEW k \in Keys, NEW x \in Inputs, NEW r \in Resources,
           NEW S \in SUBSET Ids,
           \/ SubmitAgain(h, i, k, x)
           \/ StartReservedAsync(h, i) \/ Claim(h, i, s) \/ ClaimRefused(h, i, s)
           \/ Heartbeat(h, i, s) \/ Execute(h, i)
           \/ Finish(h, i, s) \/ FinishSlot(h, i) \/ StoreFault(h, i)
           \/ Poll(h, i) \/ PurgeTerminal(S)
           \/ CancelRequest(h, i) \/ CancelGet(h) \/ CancelApply(h)
           \/ CancelNotify(h)
           \/ RecoverRead(h, i, s) \/ RecoverWake(h, i) \/ RecoverValidate(h, i)
           \/ RecoverFail(h, i) \/ Replay(h, i)
           \/ Drain(h) \/ Shutdown(h) \/ Stopped(h) \/ Crash(h) \/ Restart(h, r, s) \/ Tick
    PROVE  ObservationsKept
<1>1. CASE seen' = seen
  BY Zenon, <1>1 DEF ObservationsKept
<1>2. CASE Exists(i) /\ ops' = ops /\ seen' = [seen EXCEPT ![h][i] = Observed(i)]
  <2>1. \A g \in Hosts, j \in Ids :
          seen'[g][j] = IF g = h /\ j = i THEN Observed(i) ELSE seen[g][j]
    BY Zenon, <1>2 DEF TypeOK
  <2> QED BY SMT, SMTT(30), <1>2, <2>1 DEF ObservationsKept
<1>3. CASE seen' = [seen EXCEPT ![h] = [j \in Ids |-> NoSnapshot]]
  BY Zenon, <1>3 DEF ObservationsKept, TypeOK
<1>4. CASE SubmitAgain(h, i, k, x)
  <2>1. Exists(i)
    BY SMT, SMTT(30), <1>4 DEF SubmitAgain, KeyIndexExact, TypeOK
  <2> QED BY ZenonT(30), <1>2, <1>4, <2>1 DEF SubmitAgain, Hint
<1>5. CASE Poll(h, i) \/ Replay(h, i)
  BY Zenon, <1>1, <1>2, <1>5 DEF Poll, Replay, Hint
<1>6. CASE Stopped(h) \/ Crash(h)
  BY Zenon, <1>3, <1>6 DEF Stopped, Crash, Volatile
<1>7. CASE \/ StartReservedAsync(h, i) \/ Claim(h, i, s) \/ ClaimRefused(h, i, s)
           \/ Heartbeat(h, i, s) \/ Execute(h, i)
           \/ Finish(h, i, s) \/ FinishSlot(h, i) \/ StoreFault(h, i)
  BY Zenon, <1>1, <1>7 DEF StartReservedAsync, Claim, ClaimRefused,
     Heartbeat, Execute, Finish, FinishSlot, StoreFault
<1>8. CASE \/ PurgeTerminal(S) \/ CancelRequest(h, i) \/ CancelGet(h)
           \/ CancelApply(h) \/ CancelNotify(h)
           \/ RecoverRead(h, i, s) \/ RecoverWake(h, i) \/ RecoverValidate(h, i)
           \/ RecoverFail(h, i) \/ Drain(h) \/ Shutdown(h) \/ Restart(h, r, s) \/ Tick
  BY Zenon, <1>1, <1>8 DEF PurgeTerminal, CancelRequest, CancelGet, CancelApply,
     CancelNotify, RecoverRead, RecoverWake, RecoverValidate, RecoverFail,
     Drain, Shutdown, Restart, Tick
<1> QED BY Zenon, <1>4, <1>5, <1>6, <1>7, <1>8

-------------------------------------------------------------------------------
(***************************************************************************)
(* The inductive invariant.                                                *)
(***************************************************************************)
Invariant == TypeOK /\ KeyIndexExact /\ FenceInvariant /\ ObservationsProgress

\* What every step does, with the two that add and remove records apart.
LEMMA NextStep ==
    ASSUME TypeOK, KeyIndexExact, FenceInvariant, Next
    PROVE  /\ TypeOK'
           /\ \/ /\ \E h \in Hosts, i \in Ids, k \in Keys, x \in Inputs :
                       SubmitNew(h, i, k, x)
                 /\ WorkersKept
              \/ /\ \E S \in SUBSET Ids : PurgeTerminal(S)
                 /\ WorkersKept /\ ObservationsKept
              \/ StoreStep /\ WorkersKept /\ ObservationsKept
              \/ /\ \E h \in Hosts, i \in Ids, s \in Skews : Claim(h, i, s)
                 /\ StoreStep /\ ObservationsKept
<1>e. PICK h0 \in Hosts, i0 \in Ids, k0 \in Keys, x0 \in Inputs,
           r0 \in Resources, s0 \in Skews, S0 \in SUBSET Ids : TRUE
  <2>1. 0 \in Skews
    BY OperationsAssumption DEF OperationsAssumption, Skews
  <2> QED BY <2>1, OperationsAssumption DEF OperationsAssumption
<1>1. ASSUME NEW h \in Hosts, NEW i \in Ids, NEW k \in Keys, NEW x \in Inputs,
             SubmitNew(h, i, k, x)
      PROVE  TypeOK' /\ WorkersKept
  BY Zenon, <1>1, <1>e, WorkerStepType, WorkerSteps
<1>2. ASSUME NEW S \in SUBSET Ids, PurgeTerminal(S)
      PROVE  TypeOK' /\ WorkersKept /\ ObservationsKept
  BY Zenon, <1>2, <1>e, HostStepType, WorkerSteps, ObservationSteps
<1>3. ASSUME NEW h \in Hosts, NEW i \in Ids, NEW s \in Skews, Claim(h, i, s)
      PROVE  TypeOK' /\ StoreStep /\ ObservationsKept
  BY Zenon, <1>3, <1>e, WorkerStepType, StoreSteps, ObservationSteps
<1>4. ASSUME NEW h \in Hosts, NEW i \in Ids, NEW s \in Skews, NEW k \in Keys,
             NEW x \in Inputs,
             \/ SubmitAgain(h, i, k, x)
             \/ StartReservedAsync(h, i) \/ ClaimRefused(h, i, s)
             \/ Heartbeat(h, i, s) \/ Execute(h, i)
             \/ Finish(h, i, s) \/ FinishSlot(h, i) \/ StoreFault(h, i)
             \/ Poll(h, i)
      PROVE  TypeOK' /\ StoreStep /\ WorkersKept /\ ObservationsKept
  <2>1. TypeOK'
    BY Zenon, <1>4, <1>e, WorkerStepType
  <2>2. StoreStep
    BY Zenon, <1>4, <1>e, StoreSteps
  <2>3. WorkersKept
    BY Zenon, <1>4, <1>e, WorkerSteps
  <2>4. ObservationsKept
    BY Zenon, <1>4, <1>e, ObservationSteps
  <2> QED BY Zenon, <2>1, <2>2, <2>3, <2>4
<1>5. ASSUME NEW h \in Hosts, NEW i \in Ids, NEW s \in Skews, NEW r \in Resources,
             \/ CancelRequest(h, i) \/ CancelGet(h) \/ CancelApply(h)
             \/ CancelNotify(h)
             \/ RecoverRead(h, i, s) \/ RecoverWake(h, i) \/ RecoverValidate(h, i)
             \/ RecoverFail(h, i) \/ Replay(h, i)
             \/ Drain(h) \/ Shutdown(h) \/ Stopped(h) \/ Crash(h) \/ Restart(h, r, s) \/ Tick
      PROVE  TypeOK' /\ StoreStep /\ WorkersKept /\ ObservationsKept
  <2>1. TypeOK'
    BY Zenon, <1>5, <1>e, HostStepType
  <2>2. StoreStep
    BY Zenon, <1>5, <1>e, StoreSteps
  <2>3. WorkersKept
    BY ZenonT(30), <1>5, <1>e, WorkerSteps
  <2>4. ObservationsKept
    BY ZenonT(30), <1>5, <1>e, ObservationSteps
  <2> QED BY Zenon, <2>1, <2>2, <2>3, <2>4
<1> QED BY SMT, SMTT(30), <1>1, <1>2, <1>3, <1>4, <1>5
        DEF Next, WorkerStep, RecoveryStep, CancelStep, RestartStep

\* A submission into a free key leaves all other records alone.
LEMMA SubmitNewEffect ==
    ASSUME TypeOK, NEW h \in Hosts, NEW i \in Ids, NEW k \in Keys,
           NEW x \in Inputs, SubmitNew(h, i, k, x)
    PROVE  /\ ops[i].state = "absent" /\ keys[k][resource[h]] = NoId
           /\ \A j \in Ids \ {i} : ops'[j] = ops[j]
           /\ ops'[i].state = "pending" /\ ops'[i].revision = 1
           /\ ops'[i].key = k /\ ops'[i].resource = resource[h]
           /\ ops'[i].result = "none" /\ ops'[i].token = 0
           /\ ops'[i].claims = 0 /\ ops'[i].writer = 0
           /\ keys' = [keys EXCEPT ![k][resource[h]] = i]
           /\ seen' = [seen EXCEPT ![h][i] =
                          [state |-> "pending", revision |-> 1, result |-> "none"]]
BY DEF SubmitNew, TypeOK, PrepareNewRecord, NoRecord

\* A purge blanks the terminal records it selects.
LEMMA PurgeEffect ==
    ASSUME TypeOK, NEW S \in SUBSET Ids, PurgeTerminal(S), NEW j \in Ids
    PROVE  /\ j \notin S => ops'[j] = ops[j]
           /\ j \in S => /\ ops[j].state \in Terminal
                         /\ ops'[j].state = "purged" /\ ops'[j].result = "none"
                         /\ ops'[j].token = 0 /\ ops'[j].claims = 0
                         /\ ops'[j].writer = 0
BY DEF PurgeTerminal, Blank, NoRecord

\* A store step keeps which operations exist, and their keys.
LEMMA StoreStepKeeps ==
    ASSUME TypeOK, StoreStep, NEW j \in Ids
    PROVE  /\ Kept(ops[j], ops'[j]) \/ Advanced(ops[j], ops'[j])
           /\ Exists(j)' <=> Exists(j)
           /\ ops'[j].key = ops[j].key /\ ops'[j].resource = ops[j].resource
<1>1. Kept(ops[j], ops'[j]) \/ Advanced(ops[j], ops'[j])
  BY Zenon DEF StoreStep, Kept
<1> QED BY Zenon, <1>1 DEF Kept, Advanced, Exists, Terminal

\* The idempotency index stays exact.
LEMMA KeyIndexStep ==
    ASSUME TypeOK, KeyIndexExact, FenceInvariant, Next
    PROVE  KeyIndexExact'
<1> SUFFICES ASSUME NEW k \in Keys, NEW r \in Resources, NEW i \in Ids
             PROVE  keys'[k][r] = i <=>
                      Exists(i)' /\ ops'[i].key = k /\ ops'[i].resource = r
  BY Zenon DEF KeyIndexExact
<1>0. keys[k][r] = i <=> Exists(i) /\ ops[i].key = k /\ ops[i].resource = r
  BY DEF KeyIndexExact
<1>1. ASSUME NEW h \in Hosts, NEW j \in Ids, NEW l \in Keys, NEW x \in Inputs,
             SubmitNew(h, j, l, x)
      PROVE  keys'[k][r] = i <=>
               Exists(i)' /\ ops'[i].key = k /\ ops'[i].resource = r
  <2>1. keys'[k][r] = IF k = l /\ r = resource[h] THEN j ELSE keys[k][r]
    BY SMT, SMTT(30), <1>1, SubmitNewEffect DEF TypeOK
  <2>2. CASE i = j
    BY SMT, SMTT(30), <1>0, <1>1, <2>1, <2>2, SubmitNewEffect DEF Exists
  <2>3. CASE i # j
    <3>1. ops'[i] = ops[i] /\ keys[l][resource[h]] # i
      BY SMTT(30), <1>1, <2>3, SubmitNewEffect, OperationsAssumption DEF OperationsAssumption
    <3> QED BY Zenon, <1>0, <2>1, <2>3, <3>1 DEF Exists
  <2> QED BY Zenon, <2>2, <2>3
<1>2. ASSUME NEW S \in SUBSET Ids, PurgeTerminal(S)
      PROVE  keys'[k][r] = i <=>
               Exists(i)' /\ ops'[i].key = k /\ ops'[i].resource = r
  <2>1. keys'[k][r] = IF keys[k][r] \in S THEN NoId ELSE keys[k][r]
    BY Zenon, <1>2 DEF PurgeTerminal
  <2>2. CASE i \in S
    BY ZenonT(30), <1>2, <2>1, <2>2, PurgeEffect, OperationsAssumption
    DEF Exists, OperationsAssumption
  <2>3. CASE i \notin S
    BY Zenon, <1>0, <1>2, <2>1, <2>3, PurgeEffect, OperationsAssumption
    DEF Exists, OperationsAssumption
  <2> QED BY Zenon, <2>2, <2>3
<1>3. CASE StoreStep
  BY Zenon, <1>0, <1>3, StoreStepKeeps DEF StoreStep
<1> QED BY Zenon, <1>1, <1>2, <1>3, NextStep

\* Every record stays fenced.
LEMMA RecordFencedStep ==
    ASSUME TypeOK, KeyIndexExact, FenceInvariant, Next, NEW j \in Ids
    PROVE  RecordFenced(ops'[j])
<1>0. RecordFenced(ops[j]) /\ ops[j] \in Record /\ ops'[j] \in Record
  BY Zenon, NextStep DEF FenceInvariant, WorkersFenced, TypeOK
<1>1. ASSUME NEW h \in Hosts, NEW i \in Ids, NEW k \in Keys, NEW x \in Inputs,
             SubmitNew(h, i, k, x)
      PROVE  RecordFenced(ops'[j])
  BY SMT, SMTT(30), <1>0, <1>1, SubmitNewEffect DEF RecordFenced
<1>2. ASSUME NEW S \in SUBSET Ids, PurgeTerminal(S)
      PROVE  RecordFenced(ops'[j])
  BY Zenon, <1>0, <1>2, PurgeEffect DEF RecordFenced
<1>3. CASE StoreStep
  BY Zenon, <1>0, <1>3, StoreStepKeeps, FencedRecordSteps
<1> QED BY <1>1, <1>2, <1>3, NextStep

\* A step that keeps the workers keeps them fenced, if the operation existed
\* whenever it exists and its claims do not decrease.
LEMMA WorkersFencedKept ==
    ASSUME TypeOK, TypeOK', NEW i \in Ids, WorkersFenced(i), WorkersKept,
           Exists(i)' => /\ Exists(i) \/ ops[i].state = "absent"
                         /\ Exists(i) => ops[i].claims <= ops'[i].claims,
           ops'[i].state = "absent" => /\ ops[i].state = "absent"
                                       /\ \A h \in Hosts : seen'[h][i] = seen[h][i]
    PROVE  WorkersFenced(i)'
<1> SUFFICES ASSUME NEW h \in Hosts
             PROVE  /\ ops'[i].state = "absent" =>
                         ~Active(run'[h][i]) /\ seen'[h][i] = NoSnapshot
                    /\ Active(run'[h][i]) /\ Exists(i)' =>
                         run'[h][i].token \in 1..ops'[i].claims
                    /\ \A g \in Hosts :
                         Active(run'[g][i]) /\ Active(run'[h][i]) /\ Exists(i)'
                         /\ run'[g][i].token = run'[h][i].token => g = h
  BY Zenon DEF WorkersFenced, Active
<1>0. /\ ops[i].claims \in Nat /\ ops'[i].claims \in Nat
      /\ run[h][i].token \in Nat
  BY Zenon DEF TypeOK, Record, Worker
<1>1. \A g \in Hosts : Active(run'[g][i]) =>
        Active(run[g][i]) /\ run'[g][i].token = run[g][i].token
  BY Zenon DEF WorkersKept
<1>2. ops'[i].state = "absent" =>
        ~Active(run'[h][i]) /\ seen'[h][i] = NoSnapshot
  BY Zenon, <1>1 DEF WorkersFenced
<1>3. ASSUME Active(run'[h][i]), Exists(i)'
      PROVE  run'[h][i].token \in 1..ops'[i].claims
  BY SMT, SMTT(30), <1>0, <1>1, <1>3 DEF WorkersFenced
<1>5. ASSUME NEW g \in Hosts, Active(run'[g][i]), Active(run'[h][i]), Exists(i)',
             run'[g][i].token = run'[h][i].token
      PROVE  g = h
  BY Zenon, <1>1, <1>5 DEF WorkersFenced
<1> QED BY Zenon, <1>2, <1>3, <1>5

\* A claim's token is fresh, so the workers stay fenced.
LEMMA ClaimFenced ==
    ASSUME TypeOK, FenceInvariant, NEW h \in Hosts, NEW i \in Ids, NEW s \in Skews,
           Claim(h, i, s), NEW j \in Ids
    PROVE  WorkersFenced(j)'
<1>0. /\ WorkersFenced(j) /\ run[h][i] \in Worker /\ ops[i] \in Record
      /\ ops[i].claims \in Nat
      /\ \A g \in Hosts : run[g][j].token \in Nat
  BY Zenon DEF FenceInvariant, TypeOK, Record, Worker
<1>1. /\ \A g \in Hosts, l \in Ids : run'[g][l] =
           IF g = h /\ l = i THEN Owning(run[h][i], ops[i].claims + 1)
           ELSE run[g][l]
      /\ \A l \in Ids : ops'[l] = IF l = i THEN Claimed(ops[i], s) ELSE ops[l]
      /\ seen' = seen
  BY Zenon DEF Claim, TypeOK
<1>2. run'[h][i].token = ops[i].claims + 1
  BY Zenon, <1>0, <1>1 DEF Owning, Worker
<1>3. ops'[i].claims = ops[i].claims + 1 /\ ops'[i].state = "running"
  BY Zenon, <1>0, <1>1 DEF Claimed, Record
<1>4. CASE j # i
  <2>1. \A g \in Hosts : run'[g][j] = run[g][j]
    BY Zenon, <1>1, <1>4
  <2>2. ops'[j] = ops[j] /\ seen' = seen
    BY Zenon, <1>1, <1>4
  <2> QED BY Zenon, <1>0, <2>1, <2>2 DEF WorkersFenced, Exists
<1>5. CASE j = i
  <2>1. Exists(i)
    BY DEF Claim, Unfinished, Exists
  <2>2. \A g \in Hosts \ {h} : run'[g][i] = run[g][i]
    BY Zenon, <1>1
  <2>3. \A g \in Hosts \ {h} : Active(run[g][i]) => run[g][i].token \in 1..ops[i].claims
    BY Zenon, <1>0, <1>5, <2>1 DEF WorkersFenced
  <2> SUFFICES ASSUME NEW f \in Hosts
               PROVE  /\ ops'[i].state = "absent" =>
                           ~Active(run'[f][i]) /\ seen'[f][i] = NoSnapshot
                      /\ Active(run'[f][i]) /\ Exists(i)' =>
                           run'[f][i].token \in 1..ops'[i].claims
                      /\ \A g \in Hosts :
                           Active(run'[g][i]) /\ Active(run'[f][i]) /\ Exists(i)'
                           /\ run'[g][i].token = run'[f][i].token => g = f
    BY ZenonT(60), <1>5 DEF WorkersFenced, Active
  <2>4. ops'[i].state # "absent"
    BY Zenon, <1>3
  <2>5. Active(run'[f][i]) => run'[f][i].token \in 1..ops'[i].claims
    BY SMT, SMTT(30), <1>0, <1>2, <1>3, <2>2, <2>3
  <2>7. ASSUME NEW g \in Hosts, Active(run'[g][i]), Active(run'[f][i]),
               run'[g][i].token = run'[f][i].token
        PROVE  g = f
    <3>1. CASE g # h /\ f # h
      BY Zenon, <1>0, <1>5, <2>1, <2>2, <2>7, <3>1 DEF WorkersFenced
    <3>2. CASE g = h /\ f # h
      BY SMT, SMTT(30), <1>0, <1>2, <2>2, <2>3, <2>7, <3>2
    <3>3. CASE g # h /\ f = h
      BY SMT, SMTT(30), <1>0, <1>2, <2>2, <2>3, <2>7, <3>3
    <3> QED BY <3>1, <3>2, <3>3
  <2> QED BY Zenon, <2>4, <2>5, <2>7
<1> QED BY <1>4, <1>5

\* The fence invariant is inductive.
LEMMA FenceStep ==
    ASSUME TypeOK, KeyIndexExact, FenceInvariant, Next
    PROVE  FenceInvariant'
<1> SUFFICES ASSUME NEW j \in Ids
             PROVE  WorkersFenced(j)'
  BY Zenon, RecordFencedStep DEF FenceInvariant
<1>0. TypeOK' /\ WorkersFenced(j) /\ ops[j].claims \in Nat
  BY Zenon, NextStep DEF FenceInvariant, TypeOK, Record
<1>1. ASSUME NEW h \in Hosts, NEW i \in Ids, NEW k \in Keys, NEW x \in Inputs,
             SubmitNew(h, i, k, x), WorkersKept
      PROVE  WorkersFenced(j)'
  <2>1. CASE j = i
    <3>1. ops[j].state = "absent" /\ ops'[j].state = "pending"
      BY ZenonT(30), <1>1, <2>1, SubmitNewEffect
    <3> QED BY Zenon, <1>0, <1>1, <3>1, WorkersFencedKept DEF Exists
  <2>2. CASE j # i
    <3>1. ops'[j] = ops[j] /\ ops[j].claims <= ops[j].claims
      BY SMTT(30), <1>0, <1>1, <2>2, SubmitNewEffect
    <3>2. \A g \in Hosts : seen'[g][j] = seen[g][j]
      BY Zenon, <1>1, <2>2 DEF SubmitNew, TypeOK
    <3> QED BY Zenon, <1>0, <1>1, <3>1, <3>2, WorkersFencedKept DEF Exists
  <2> QED BY <2>1, <2>2
<1>2. ASSUME NEW S \in SUBSET Ids, PurgeTerminal(S), WorkersKept
      PROVE  WorkersFenced(j)'
  <2>1. /\ j \in S => ops'[j].state = "purged"
        /\ j \notin S => ops'[j] = ops[j]
        /\ seen' = seen
    BY Zenon, <1>2, PurgeEffect DEF PurgeTerminal
  <2>2. Exists(j)' => ops'[j] = ops[j]
    BY <2>1 DEF Exists
  <2>3. ops'[j].state = "absent" => ops'[j] = ops[j]
    BY <2>1
  <2>4. ops[j].claims <= ops[j].claims
    BY <1>0
  <2> QED BY Zenon, <1>0, <1>2, <2>1, <2>2, <2>3, <2>4, WorkersFencedKept DEF Exists
<1>3. ASSUME StoreStep, WorkersKept, ObservationsKept
      PROVE  WorkersFenced(j)'
  <2>1. Exists(j)' <=> Exists(j)
    BY Zenon, <1>3, StoreStepKeeps
  <2>2. Kept(ops[j], ops'[j]) \/ Advanced(ops[j], ops'[j])
    BY Zenon, <1>3, StoreStepKeeps
  <2>3. ops[j].claims <= ops'[j].claims
    BY SMT, SMTT(30), <1>0, <2>2 DEF Kept, Advanced
  <2>4. ops'[j].state = "absent" => ops[j].state = "absent"
    BY Zenon, <2>2 DEF Kept, Advanced, Terminal
  <2>5. ops'[j].state = "absent" => \A h \in Hosts : seen'[h][j] = seen[h][j]
    BY Zenon, <1>0, <1>3, <2>4 DEF ObservationsKept, WorkersFenced, Exists
  <2> QED BY Zenon, <1>0, <1>3, <2>1, <2>3, <2>4, <2>5, WorkersFencedKept
<1>4. ASSUME NEW h \in Hosts, NEW i \in Ids, NEW s \in Skews, Claim(h, i, s)
      PROVE  WorkersFenced(j)'
  BY <1>4, ClaimFenced
<1> QED BY <1>1, <1>2, <1>3, <1>4, NextStep

\* Observations stay behind the records they were taken from.
LEMMA ProgressStep ==
    ASSUME Invariant, Next
    PROVE  ObservationsProgress'
<1> USE DEF Invariant
<1> SUFFICES ASSUME NEW g \in Hosts, NEW j \in Ids, seen'[g][j] # NoSnapshot,
                    Exists(j)'
             PROVE  ValidateOperationProgress(seen'[g][j], Observed(j)')
  BY Zenon DEF ObservationsProgress
<1>0. /\ ops[j].revision \in Nat /\ Observed(j).revision = ops[j].revision
      /\ Observed(j).state = ops[j].state
      /\ seen[g][j] # NoSnapshot => seen[g][j].revision \in Nat
  BY SMT, SMTT(30) DEF TypeOK, Record, Observed, Snapshot
<1>s. \A a : a.revision \in Nat => ValidateOperationProgress(a, a)
  BY DEF ValidateOperationProgress
<1>1. ASSUME NEW h \in Hosts, NEW i \in Ids, NEW k \in Keys, NEW x \in Inputs,
             SubmitNew(h, i, k, x)
      PROVE  ValidateOperationProgress(seen'[g][j], Observed(j)')
  <2> DEFINE fresh == [state |-> "pending", revision |-> 1, result |-> "none"]
  <2>1. seen'[g][j] = IF g = h /\ j = i THEN fresh ELSE seen[g][j]
    BY Zenon, <1>1 DEF SubmitNew, TypeOK
  <2>2. CASE j = i
    <3>1. seen[g][j] = NoSnapshot
      BY Zenon, <1>1, <2>2 DEF SubmitNew, FenceInvariant, WorkersFenced
    <3>2. Observed(j)' = fresh
      BY SMT, SMTT(30), <1>1, <2>2, SubmitNewEffect DEF Observed
    <3> QED BY SMT, SMTT(30), <1>s, <2>1, <2>2, <3>1, <3>2
  <2>3. CASE j # i
    <3>1. ops'[j] = ops[j]
      BY SMTT(30), <1>1, <2>3, SubmitNewEffect
    <3> QED BY Zenon, <2>1, <2>3, <3>1 DEF ObservationsProgress, Exists, Observed
  <2> QED BY <2>2, <2>3
<1>2. ASSUME NEW S \in SUBSET Ids, PurgeTerminal(S)
      PROVE  ValidateOperationProgress(seen'[g][j], Observed(j)')
  <2>1. ops'[j] = ops[j] /\ seen' = seen
    BY Zenon, <1>2, PurgeEffect DEF PurgeTerminal, Exists
  <2> QED BY Zenon, <2>1 DEF ObservationsProgress, Exists, Observed
<1>3. ASSUME StoreStep, ObservationsKept
      PROVE  ValidateOperationProgress(seen'[g][j], Observed(j)')
  <2>1. CASE Exists(j) /\ ops' = ops /\ seen'[g][j] = Observed(j)
    <3>1. Observed(j)' = Observed(j)
      BY Zenon, <2>1 DEF Observed
    <3> QED BY Zenon, <1>0, <1>s, <2>1, <3>1
  <2>2. CASE seen'[g][j] = seen[g][j]
    <3>1. Exists(j) /\ ValidateOperationProgress(seen[g][j], Observed(j))
      BY Zenon, <1>3, <2>2, StoreStepKeeps DEF ObservationsProgress
    <3>2. CASE Kept(ops[j], ops'[j])
      <4>1. Observed(j)' = Observed(j)
        BY Zenon, <3>2 DEF Observed, Kept
      <4> QED BY Zenon, <2>2, <3>1, <4>1
    <3>3. CASE Advanced(ops[j], ops'[j])
      <4>1. /\ Observed(j)'.revision = Observed(j).revision + 1
            /\ Observed(j)'.state # "pending"
            /\ Observed(j).state \notin Terminal
        BY Zenon, <3>3 DEF Observed, Advanced, Terminal
      <4> QED BY SMT, SMTT(30), <1>0, <2>2, <3>1, <4>1 DEF ValidateOperationProgress
    <3> QED BY Zenon, <1>3, <3>2, <3>3, StoreStepKeeps
  <2> QED BY Zenon, <1>3, <2>1, <2>2 DEF ObservationsKept
<1> QED BY Zenon, <1>1, <1>2, <1>3, NextStep

\* A stuttering step keeps the invariant.
LEMMA StutterStep ==
    ASSUME Invariant, UNCHANGED vars
    PROVE  Invariant'
<1> USE DEF Invariant, vars
<1>1. TypeOK'
  BY Zenon DEF TypeOK
<1>2. KeyIndexExact'
  BY SMTT(30) DEF KeyIndexExact, Exists
<1>3. \A i \in Ids : RecordFenced(ops'[i])
  BY DEF FenceInvariant
<1>4. \A i \in Ids : WorkersFenced(i)'
  BY ZenonT(30) DEF FenceInvariant, WorkersFenced, Exists
<1>5. ObservationsProgress'
  BY Zenon DEF ObservationsProgress, Observed, Exists
<1> QED BY <1>1, <1>2, <1>3, <1>4, <1>5 DEF FenceInvariant

\* The conjunction of the types, the exact index, the fence and the progress
\* of observations is inductive, hence an invariant of the whole system:
\* submission, workers, cancellation, recovery, purging, crashes and time.
THEOREM InvariantHolds == Spec => []Invariant
<1>1. Init => Invariant
  <2> SUFFICES ASSUME Init
               PROVE  Invariant
    OBVIOUS
  <2>1. TypeOK
    BY InitType
  <2>2. \A i \in Ids : ops[i] = Blank("absent")
    BY DEF Init
  <2>3. KeyIndexExact
    BY <2>2, OperationsAssumption
    DEF Init, KeyIndexExact, Exists, Blank, NoRecord, OperationsAssumption
  <2>4. \A i \in Ids : RecordFenced(ops[i])
    BY ZenonT(30), <2>2 DEF RecordFenced, Blank, NoRecord
  <2>5. \A i \in Ids : WorkersFenced(i)
    BY <2>2 DEF Init, WorkersFenced, Exists, Active, NoWorker, Blank, NoRecord
  <2>6. ObservationsProgress
    BY DEF Init, ObservationsProgress
  <2> QED BY <2>1, <2>3, <2>4, <2>5, <2>6 DEF Invariant, FenceInvariant
<1>2. Invariant /\ [Next]_vars => Invariant'
  <2>1. ASSUME Invariant, Next
        PROVE  Invariant'
    BY <2>1, NextStep, KeyIndexStep, FenceStep, ProgressStep DEF Invariant
  <2> QED BY <2>1, StutterStep
<1> QED BY <1>1, <1>2, PTL DEF Spec

-------------------------------------------------------------------------------
(***************************************************************************)
(* The revision a worker executes.                                         *)
(***************************************************************************)

\* Host h has, or is about to start, a worker for operation i.
Committed(h, i) == i \in starts[h] \/ run[h][i].pc # "none"

\* A host that serves is committed to operations of its own revision only, and
\* one that does not serve has no recovery that could commit it.
RevisionInvariant ==
    \A h \in Hosts :
        /\ \A i \in Ids : Committed(h, i) =>
             /\ up[h] # "down" /\ ops[i].state # "absent"
             /\ Exists(i) => Validates(h, i)
        /\ ~Open(h) => \A i \in Ids : recovery[h][i].pc = "none"

\* The lease of a worker whose context is live is still valid on every clock.
LeasesKept ==
    \A h \in Hosts, i \in Ids :
        Alive(run[h][i]) /\ Unfinished(i) =>
            run[h][i].token = ops[i].token /\ ops[i].token # 0 /\ ops[i].left > Skew

\* What a step may do to the hosts: it commits a serving host to a stored
\* operation of its revision, closes a host, or takes all commitments from it.
Admitted(g, j) ==
    /\ Open(g) /\ ops'[j].state # "absent" /\ ops'[j].resource = resource[g]

HostKept(g) ==
    /\ \A j \in Ids : Committed(g, j)' => Committed(g, j) \/ Admitted(g, j)
    /\ \/ up'[g] \in {up[g], "draining", "closing"} /\ resource'[g] = resource[g]
       \/ \A j \in Ids : ~Committed(g, j)'
    /\ ~Open(g)' => \A j \in Ids : recovery'[g][j].pc = "none"

\* The operations that exist are those that existed and the new ones.
LEMMA OperationsKept ==
    ASSUME TypeOK, KeyIndexExact, FenceInvariant, Next, NEW j \in Ids
    PROVE  /\ ops[j].state # "absent" => ops'[j].state # "absent"
           /\ Exists(j)' /\ ops[j].state # "absent" =>
                Exists(j) /\ ops'[j].resource = ops[j].resource
<1>1. ASSUME NEW h \in Hosts, NEW i \in Ids, NEW k \in Keys, NEW x \in Inputs,
             SubmitNew(h, i, k, x)
      PROVE  ops[j].state # "absent" => ops'[j] = ops[j]
  <2>1. ops[i].state = "absent" /\ \A l \in Ids \ {i} : ops'[l] = ops[l]
    BY <1>1, SubmitNewEffect
  <2> QED BY <2>1, Zenon
<1>2. ASSUME NEW S \in SUBSET Ids, PurgeTerminal(S)
      PROVE  ops'[j] = ops[j] \/ ops'[j].state = "purged"
  BY <1>2, PurgeEffect, Zenon
<1>3. ASSUME StoreStep
      PROVE  /\ ops'[j].state = "absent" => ops[j].state = "absent"
             /\ Exists(j)' <=> Exists(j)
             /\ ops'[j].resource = ops[j].resource
  BY <1>3, StoreStepKeeps, Zenon DEF Kept, Advanced, Terminal
<1> QED BY <1>1, <1>2, <1>3, NextStep, Zenon DEF Exists

\* The updates of a worker keep a free slot free.
LEMMA FreeSlots ==
    ASSUME NEW w \in Worker
    PROVE  /\ NoWorker.pc = "none"
           /\ w.pc # "none" => /\ \A n \in Nat : Owning(w, n).pc # "none"
                               /\ Lost(w).pc # "none"
                               /\ \A o \in Results : Executed(w, o).pc # "none"
           /\ Cancelled(w).pc = w.pc /\ Lost(w).pc = w.pc
BY DEF NoWorker, Worker, Owning, Lost, Executed, Cancelled

\* A step that leaves the hosts, the starts and the recoveries alone and
\* starts no worker.
LEMMA QuietHosts ==
    ASSUME TypeOK, RevisionInvariant, starts' = starts, up' = up, resource' = resource,
           \A g \in Hosts, j \in Ids : recovery[g][j].pc = "none" => recovery'[g][j].pc = "none",
           \A g \in Hosts, j \in Ids : run[g][j].pc = "none" => run'[g][j].pc = "none"
    PROVE  \A g \in Hosts : HostKept(g)
<1> SUFFICES ASSUME NEW g \in Hosts
             PROVE  HostKept(g)
  OBVIOUS
<1>1. \A j \in Ids : Committed(g, j)' => Committed(g, j)
  BY Zenon DEF Committed
<1>2. up'[g] \in {up[g], "closing"} /\ resource'[g] = resource[g]
  OBVIOUS
<1>3. ~Open(g)' => \A j \in Ids : recovery'[g][j].pc = "none"
  BY Zenon DEF RevisionInvariant, Open
<1> QED BY <1>1, <1>2, <1>3, Zenon DEF HostKept

\* A step that may add operation i to the starts of host h.
LEMMA StartingHosts ==
    ASSUME TypeOK, RevisionInvariant, NEW h \in Hosts, NEW i \in Ids,
           run' = run, up' = up, resource' = resource,
           \A g \in Hosts, j \in Ids : recovery[g][j].pc = "none" => recovery'[g][j].pc = "none",
           \/ starts' = starts
           \/ starts' = [starts EXCEPT ![h] = @ \cup {i}] /\ Admitted(h, i)
    PROVE  \A g \in Hosts : HostKept(g)
<1> SUFFICES ASSUME NEW g \in Hosts
             PROVE  HostKept(g)
  OBVIOUS
<1>1. ASSUME NEW j \in Ids, Committed(g, j)'
      PROVE  Committed(g, j) \/ Admitted(g, j)
  <2>1. starts'[g] = starts[g] \/ (starts'[g] = starts[g] \cup {i} /\ g = h /\ Admitted(h, i))
    BY Zenon DEF TypeOK
  <2> QED BY <1>1, <2>1, Zenon DEF Committed
<1>2. up'[g] \in {up[g], "closing"} /\ resource'[g] = resource[g]
  OBVIOUS
<1>3. ~Open(g)' => \A j \in Ids : recovery'[g][j].pc = "none"
  BY Zenon DEF RevisionInvariant, Open
<1> QED BY <1>1, <1>2, <1>3, Zenon DEF HostKept

\* A step that changes host h only and closes it, keeping its slots.
LEMMA ClosingHost ==
    ASSUME TypeOK, RevisionInvariant, NEW h \in Hosts, starts' = starts, resource' = resource,
           up' = [up EXCEPT ![h] = "closing"],
           recovery' = [recovery EXCEPT ![h] = [j \in Ids |-> NoRecovery]],
           run' = [run EXCEPT ![h] = [j \in Ids |-> Cancelled(run[h][j])]]
    PROVE  \A g \in Hosts : HostKept(g)
<1> SUFFICES ASSUME NEW g \in Hosts
             PROVE  HostKept(g)
  OBVIOUS
<1>0. \A j \in Ids : run[h][j] \in Worker /\ Cancelled(run[h][j]).pc = run[h][j].pc
  BY FreeSlots, Zenon DEF TypeOK
<1>1. \A j \in Ids : run'[g][j].pc = run[g][j].pc
  <2>1. CASE g = h
    BY <1>0, <2>1, Zenon DEF TypeOK
  <2>2. CASE g # h
    BY <2>2, Zenon DEF TypeOK
  <2> QED BY <2>1, <2>2
<1>2. \A j \in Ids : Committed(g, j)' => Committed(g, j)
  BY <1>1, Zenon DEF Committed
<1>3. up'[g] \in {up[g], "closing"} /\ resource'[g] = resource[g]
  BY Zenon DEF TypeOK
<1>4. ASSUME ~Open(g)', NEW j \in Ids
      PROVE  recovery'[g][j].pc = "none"
  <2>1. CASE g = h
    BY Zenon, <2>1 DEF TypeOK, NoRecovery, Task
  <2>2. CASE g # h
    <3>1. ~Open(g) /\ recovery'[g] = recovery[g]
      BY Zenon, <1>4, <2>2 DEF TypeOK, Open
    <3> QED BY <3>1, Zenon DEF RevisionInvariant
  <2> QED BY <2>1, <2>2
<1> QED BY <1>2, <1>3, <1>4, Zenon DEF HostKept

\* A step that ends or starts host h, to which nothing is committed after it.
LEMMA EmptyHost ==
    ASSUME TypeOK, RevisionInvariant, NEW h \in Hosts,
           \A j \in Ids : ~Committed(h, j)',
           \A g \in Hosts \ {h} : /\ starts'[g] = starts[g] /\ run'[g] = run[g]
                                  /\ up'[g] = up[g] /\ resource'[g] = resource[g]
                                  /\ recovery'[g] = recovery[g],
           ~Open(h)' => \A j \in Ids : recovery'[h][j].pc = "none"
    PROVE  \A g \in Hosts : HostKept(g)
<1>1. HostKept(h)
  BY Zenon DEF HostKept
<1>2. ASSUME NEW g \in Hosts \ {h}
      PROVE  HostKept(g)
  <2>1. \A j \in Ids : Committed(g, j)' => Committed(g, j)
    BY Zenon DEF Committed
  <2>2. ~Open(g) => \A j \in Ids : recovery[g][j].pc = "none"
    BY Zenon DEF RevisionInvariant
  <2>3. ~Open(g)' => \A j \in Ids : recovery'[g][j].pc = "none"
    BY Zenon, <2>2 DEF Open
  <2> QED BY <2>1, <2>3, Zenon DEF HostKept
<1> QED BY <1>1, <1>2, Zenon

\* Only one slot changes, and it is not free before or its operation starts.
LEMMA SlotHost ==
    ASSUME TypeOK, RevisionInvariant, NEW h \in Hosts, NEW i \in Ids, NEW w,
           run' = [run EXCEPT ![h][i] = w], run[h][i].pc # "none",
           UNCHANGED <<starts, up, resource, recovery>>
    PROVE  \A g \in Hosts : HostKept(g)
<1>1. \A g \in Hosts, j \in Ids : g # h \/ j # i => run'[g][j] = run[g][j]
  BY Zenon DEF TypeOK
<1>2. \A g \in Hosts, j \in Ids : run[g][j].pc = "none" => run'[g][j].pc = "none"
  BY <1>1, Zenon
<1> QED BY <1>2, QuietHosts, Zenon

\* Every step keeps the hosts in order.
LEMMA HostsStep ==
    ASSUME TypeOK, KeyIndexExact, FenceInvariant, RevisionInvariant, Next
    PROVE  \A g \in Hosts : HostKept(g)
<1> DEFINE Goal == \A g \in Hosts : HostKept(g)
<1>q. /\ run' = run /\ starts' = starts /\ up' = up /\ resource' = resource /\ recovery' = recovery
      => Goal
  BY QuietHosts, Zenon
<1>k. ASSUME NEW h \in Hosts, NEW i \in Ids, NEW t,
             recovery' = [recovery EXCEPT ![h][i] = t], recovery[h][i].pc # "none"
      PROVE  \A g \in Hosts, j \in Ids : recovery[g][j].pc = "none" => recovery'[g][j].pc = "none"
  <2>1. \A g \in Hosts, j \in Ids : g # h \/ j # i => recovery'[g][j] = recovery[g][j]
    BY <1>k, Zenon DEF TypeOK
  <2> QED BY <1>k, <2>1, Zenon
<1>g. ASSUME NEW h \in Hosts, NEW i \in Ids, RecoveryGone(h, i), starts' = starts,
             resource' = resource, recovery[h][i].pc # "none"
      PROVE  Goal
  <2>1. CASE recovery[h][i].startup
    BY <1>g, <2>1, ClosingHost, Zenon DEF RecoveryGone
  <2>2. CASE ~recovery[h][i].startup
    BY <1>g, <2>2, <1>k, QuietHosts, Zenon DEF RecoveryGone, SetRecovery
  <2> QED BY <2>1, <2>2
<1>1. ASSUME NEW h \in Hosts, NEW i \in Ids, NEW k \in Keys, NEW x \in Inputs,
             SubmitNew(h, i, k, x)
      PROVE  Goal
  <2>1. Admitted(h, i)
    BY ZenonT(60), <1>1, SubmitNewEffect DEF SubmitNew, Serving, Admitted
  <2> QED BY <1>1, <2>1, StartingHosts, ZenonT(60) DEF SubmitNew, hostVars
<1>2. ASSUME NEW h \in Hosts, NEW i \in Ids, NEW k \in Keys, NEW x \in Inputs,
             SubmitAgain(h, i, k, x)
      PROVE  Goal
  <2>1. Exists(i) /\ ops[i].resource = resource[h] /\ Open(h) /\ ops' = ops
    BY SMT, SMTT(30), <1>2 DEF SubmitAgain, KeyIndexExact, TypeOK, Serving
  <2>2. Admitted(h, i)
    BY <2>1 DEF Admitted, Exists
  <2>3. \/ starts' = [starts EXCEPT ![h] = starts[h]]
        \/ starts' = [starts EXCEPT ![h] = @ \cup {i}]
    BY <1>2, Zenon DEF SubmitAgain, Hint
  <2>4. [starts EXCEPT ![h] = starts[h]] = starts
    BY DEF TypeOK
  <2> QED BY <1>2, <2>2, <2>3, <2>4, StartingHosts, Zenon DEF SubmitAgain, hostVars
<1>3. ASSUME NEW h \in Hosts, NEW i \in Ids, StartReservedAsync(h, i)
      PROVE  Goal
  <2>1. /\ starts' = [starts EXCEPT ![h] = starts[h] \ {i}] /\ i \in starts[h]
        /\ up' = up /\ resource' = resource /\ recovery' = recovery
    BY <1>3, Zenon DEF StartReservedAsync, hostVars
  <2>2. \A g \in Hosts, j \in Ids : g # h \/ j # i => run'[g][j] = run[g][j]
    BY <1>3, Zenon DEF TypeOK, StartReservedAsync
  <2>3. \A g \in Hosts : starts'[g] \subseteq starts[g]
    BY <2>1 DEF TypeOK
  <2>4. \A g \in Hosts, j \in Ids : Committed(g, j)' => Committed(g, j)
    BY <2>1, <2>2, <2>3, Zenon DEF Committed
  <2>5. \A g \in Hosts : ~Open(g)' => \A j \in Ids : recovery'[g][j].pc = "none"
    BY <2>1, Zenon DEF RevisionInvariant, Open
  <2> QED BY <2>1, <2>4, <2>5, Zenon DEF HostKept
<1>4. ASSUME NEW h \in Hosts, NEW i \in Ids, WorkerStep(h, i)
      PROVE  Goal
  <2>1. PICK s \in Skews : \/ Execute(h, i) \/ FinishSlot(h, i) \/ Claim(h, i, s)
                          \/ ClaimRefused(h, i, s) \/ Finish(h, i, s)
    <3>1. 0 \in Skews
      BY OperationsAssumption DEF OperationsAssumption, Skews
    <3> QED BY <1>4, <3>1, Zenon DEF WorkerStep
  <2>2. run[h][i].pc # "none" /\ UNCHANGED <<starts, up, resource, recovery>>
    BY <2>1 DEF Execute, FinishSlot, Claim, ClaimRefused, Finish, hostVars
  <2>3. \E w : run' = [run EXCEPT ![h][i] = w]
    BY <2>1, Zenon DEF Execute, FinishSlot, Claim, ClaimRefused, Finish
  <2> QED BY <2>2, <2>3, SlotHost, Zenon
<1>5. ASSUME NEW h \in Hosts, NEW i \in Ids, NEW s \in Skews, Heartbeat(h, i, s)
      PROVE  Goal
  BY <1>5, <1>q, SlotHost, Zenon DEF Heartbeat, hostVars
<1>6. ASSUME NEW h \in Hosts, NEW i \in Ids, StoreFault(h, i)
      PROVE  Goal
  BY <1>6, SlotHost, Zenon DEF StoreFault
<1>7. ASSUME NEW h \in Hosts, NEW i \in Ids, NEW s \in Skews, RecoverRead(h, i, s)
      PROVE  Goal
  BY <1>7, <1>g, <1>k, QuietHosts, Zenon DEF RecoverRead, SetRecovery
<1>8. ASSUME NEW h \in Hosts, NEW i \in Ids, RecoverWake(h, i)
      PROVE  Goal
  BY <1>8, <1>k, QuietHosts, Zenon DEF RecoverWake, SetRecovery
<1>9. ASSUME NEW h \in Hosts, NEW i \in Ids, RecoverValidate(h, i)
      PROVE  Goal
  <2>1. CASE ~Exists(i)
    BY <1>9, <2>1, <1>g, Zenon DEF RecoverValidate
  <2>2. CASE Exists(i)
    <3>1. Open(h) /\ ops' = ops /\ resource' = resource /\ run' = run /\ up' = up
      BY <1>9, <2>2, Zenon DEF RecoverValidate, SetRecovery, RevisionInvariant
    <3>2. \A g \in Hosts, j \in Ids : recovery[g][j].pc = "none" => recovery'[g][j].pc = "none"
      BY <1>9, <2>2, <1>k, Zenon DEF RecoverValidate, SetRecovery
    <3>3. Validates(h, i) => Admitted(h, i)
      BY <2>2, <3>1 DEF Admitted, Exists, Validates
    <3>4. \/ starts' = [starts EXCEPT ![h] = starts[h]]
          \/ starts' = [starts EXCEPT ![h] = @ \cup {i}] /\ Validates(h, i)
      BY <1>9, <2>2, Zenon DEF RecoverValidate
    <3>5. [starts EXCEPT ![h] = starts[h]] = starts
      BY DEF TypeOK
    <3> QED BY <3>1, <3>2, <3>3, <3>4, <3>5, StartingHosts, Zenon
  <2> QED BY <2>1, <2>2
<1>10. ASSUME NEW h \in Hosts, NEW i \in Ids, RecoverFail(h, i)
      PROVE  Goal
  BY <1>10, <1>g, <1>k, QuietHosts, Zenon DEF RecoverFail, SetRecovery
<1>11. ASSUME NEW h \in Hosts, NEW i \in Ids, Replay(h, i)
      PROVE  Goal
  <2>1. Open(h) /\ ops' = ops /\ resource' = resource /\ run' = run /\ up' = up
    BY <1>11, Zenon DEF Replay, SetRecovery, RevisionInvariant
  <2>2. \A g \in Hosts, j \in Ids : recovery[g][j].pc = "none" => recovery'[g][j].pc = "none"
    BY <1>11, <1>k, Zenon DEF Replay, SetRecovery
  <2>3. Exists(i) /\ Validates(h, i) => Admitted(h, i)
    BY <2>1 DEF Admitted, Exists, Validates
  <2>4. \/ starts' = [starts EXCEPT ![h] = starts[h]] \/ starts' = starts
        \/ starts' = [starts EXCEPT ![h] = @ \cup {i}] /\ Exists(i) /\ Validates(h, i)
    BY <1>11, Zenon DEF Replay, Hint
  <2>5. [starts EXCEPT ![h] = starts[h]] = starts
    BY DEF TypeOK
  <2> QED BY <2>1, <2>2, <2>3, <2>4, <2>5, StartingHosts, Zenon
<1>12. ASSUME NEW h \in Hosts, NEW i \in Ids, CancelRequest(h, i) \/ Poll(h, i)
      PROVE  Goal
  BY <1>12, <1>q, Zenon DEF CancelRequest, Poll, hostVars
<1>13. ASSUME NEW h \in Hosts, CancelGet(h) \/ CancelApply(h)
      PROVE  Goal
  BY <1>13, <1>q, Zenon DEF CancelGet, CancelApply
<1>14. ASSUME NEW h \in Hosts, CancelNotify(h)
      PROVE  Goal
  <2>1. cancel[h].id \in Ids
    BY SMT, SMTT(30), <1>14 DEF CancelNotify, TypeOK, Canceller, NoCancel, Request
  <2>2. run[h][cancel[h].id] \in Worker
    BY <2>1, ZenonT(60) DEF TypeOK
  <2>3. Cancelled(run[h][cancel[h].id]).pc = run[h][cancel[h].id].pc
    BY <2>2, FreeSlots, Zenon
  <2>4. /\ run' = [run EXCEPT ![h][cancel[h].id] = Cancelled(run[h][cancel[h].id])]
        /\ starts' = starts /\ up' = up /\ resource' = resource /\ recovery' = recovery
    BY <1>14, Zenon DEF CancelNotify
  <2>5. \A g \in Hosts, j \in Ids : g # h \/ j # cancel[h].id => run'[g][j] = run[g][j]
    BY <2>1, <2>4, Zenon DEF TypeOK
  <2>6. run'[h][cancel[h].id] = Cancelled(run[h][cancel[h].id])
    BY <2>1, <2>4, Zenon DEF TypeOK
  <2>7. \A g \in Hosts, j \in Ids : run[g][j].pc = "none" => run'[g][j].pc = "none"
    BY <2>3, <2>5, <2>6, Zenon
  <2> QED BY <2>4, <2>7, QuietHosts, Zenon
<1>15a. ASSUME NEW h \in Hosts, Drain(h)
      PROVE  Goal
  <2>1. /\ up[h] = "up" /\ up' = [up EXCEPT ![h] = "draining"] /\ resource' = resource
        /\ run' = run /\ starts' = starts /\ recovery' = recovery
    BY <1>15a, Zenon DEF Drain
  <2>2. \A g \in Hosts : up'[g] \in {up[g], "draining"} /\ (~Open(g)' => ~Open(g))
    BY <2>1 DEF TypeOK, Open
  <2>3. \A g \in Hosts : ~Open(g)' => \A j \in Ids : recovery'[g][j].pc = "none"
    BY <2>1, <2>2, Zenon DEF RevisionInvariant
  <2>4. \A g \in Hosts, j \in Ids : Committed(g, j)' => Committed(g, j)
    BY <2>1, Zenon DEF Committed
  <2> QED BY <2>1, <2>2, <2>3, <2>4, Zenon DEF HostKept
<1>15. ASSUME NEW h \in Hosts, Shutdown(h)
      PROVE  Goal
  BY <1>15, ClosingHost, Zenon DEF Shutdown
<1>16. ASSUME NEW h \in Hosts, Stopped(h) \/ Crash(h)
      PROVE  Goal
  <2>1. Volatile(h) /\ resource' = resource /\ up' = [up EXCEPT ![h] = "down"]
    BY <1>16, Zenon DEF Stopped, Crash
  <2>2. /\ starts'[h] = {} /\ \A j \in Ids : run'[h][j].pc = "none"
    BY Zenon, <2>1 DEF Volatile, TypeOK, NoWorker
  <2>3. \A j \in Ids : ~Committed(h, j)'
    BY <2>2 DEF Committed
  <2>4. \A g \in Hosts \ {h} : starts'[g] = starts[g] /\ run'[g] = run[g] /\ up'[g] = up[g]
    BY Zenon, <2>1 DEF Volatile, TypeOK
  <2>5. /\ \A g \in Hosts \ {h} : recovery'[g] = recovery[g]
        /\ \A j \in Ids : recovery'[h][j].pc = "none"
    <3>1. CASE Stopped(h)
      <4>1. ~Open(h)
        BY <3>1 DEF Stopped, Open
      <4> QED BY <3>1, <4>1, Zenon DEF Stopped, RevisionInvariant
    <3>2. CASE Crash(h)
      BY Zenon, <3>2 DEF Crash, TypeOK, NoRecovery, Task
    <3> QED BY Zenon, <1>16, <3>1, <3>2
  <2> QED BY <2>1, <2>3, <2>4, <2>5, EmptyHost, Zenon
<1>17. ASSUME NEW h \in Hosts, NEW r \in Resources, NEW s \in Skews, Restart(h, r, s)
      PROVE  Goal
  <2>1. /\ up[h] = "down" /\ up' = [up EXCEPT ![h] = "up"] /\ run' = run /\ starts' = starts
        /\ resource' = [resource EXCEPT ![h] = r]
    BY <1>17, Zenon DEF Restart
  <2>2. \A j \in Ids : ~Committed(h, j)'
    BY <2>1, Zenon DEF RevisionInvariant, Committed
  <2>3. \A g \in Hosts \ {h} : /\ up'[g] = up[g] /\ resource'[g] = resource[g]
                               /\ recovery'[g] = recovery[g]
    BY <1>17, <2>1, Zenon DEF TypeOK, Restart
  <2>4. Open(h)'
    BY <2>1 DEF TypeOK, Open
  <2> QED BY <2>1, <2>2, <2>3, <2>4, EmptyHost, Zenon
<1>18. ASSUME NEW S \in SUBSET Ids, PurgeTerminal(S)
      PROVE  Goal
  BY <1>18, <1>q, Zenon DEF PurgeTerminal, hostVars
<1>19. ASSUME Tick
      PROVE  Goal
  <2>1. \A g \in Hosts, j \in Ids : recovery'[g][j].pc = recovery[g][j].pc
    BY Zenon, <1>19 DEF Tick, AgedTask, Task
  <2> QED BY <1>19, <2>1, QuietHosts, ZenonT(60) DEF Tick
<1> HIDE DEF Goal
<1>20. Goal
  BY <1>1, <1>2, <1>3, <1>4, <1>5, <1>6, <1>7, <1>8, <1>9, <1>10, <1>11, <1>12, <1>13, <1>14,
     <1>15a, <1>15, <1>16, <1>17, <1>18, <1>19, Zenon DEF Next, RecoveryStep, CancelStep, RestartStep
<1> QED BY <1>20 DEF Goal

\* The invariant of the revisions is preserved.
LEMMA RevisionStep ==
    ASSUME TypeOK, KeyIndexExact, FenceInvariant, RevisionInvariant, Next
    PROVE  RevisionInvariant'
<1> SUFFICES ASSUME NEW h \in Hosts
             PROVE  /\ \A i \in Ids : Committed(h, i)' =>
                         /\ up'[h] # "down" /\ ops'[i].state # "absent"
                         /\ Exists(i)' => Validates(h, i)'
                    /\ ~Open(h)' => \A i \in Ids : recovery'[h][i].pc = "none"
  BY Zenon DEF RevisionInvariant
<1>1. HostKept(h)
  BY HostsStep, Zenon
<1>2. ASSUME NEW i \in Ids, Committed(h, i)'
      PROVE  /\ up'[h] # "down" /\ ops'[i].state # "absent"
             /\ Exists(i)' => Validates(h, i)'
  <2>1. up'[h] \in {up[h], "draining", "closing"} /\ resource'[h] = resource[h]
    BY <1>1, <1>2, ZenonT(60) DEF HostKept
  <2>2. CASE Committed(h, i)
    <3>1. up[h] # "down" /\ ops[i].state # "absent" /\ (Exists(i) => Validates(h, i))
      BY <2>2, Zenon DEF RevisionInvariant
    <3>2. ops'[i].state # "absent" /\ (Exists(i)' => Exists(i) /\ ops'[i].resource = ops[i].resource)
      BY <3>1, OperationsKept, Zenon
    <3> QED BY Zenon, <2>1, <3>1, <3>2 DEF Validates
  <2>3. CASE Admitted(h, i)
    BY Zenon, <2>1, <2>3 DEF Admitted, Validates, Open
  <2> QED BY <1>1, <1>2, <2>2, <2>3, Zenon DEF HostKept
<1> QED BY <1>1, <1>2, Zenon DEF HostKept

-------------------------------------------------------------------------------
(***************************************************************************)
(* The lease a worker executes under.                                      *)
(***************************************************************************)

\* A step that keeps the workers keeps their leases, if it keeps those of the
\* records that stay unfinished.
LEMMA LeasesKeptIntro ==
    ASSUME LeasesKept, WorkersKept,
           \A i \in Ids : Unfinished(i)' /\ (\E h \in Hosts : Alive(run'[h][i])) =>
               /\ Unfinished(i) /\ ops'[i].token = ops[i].token
               /\ ops[i].left > Skew => ops'[i].left > Skew
    PROVE  LeasesKept'
<1> SUFFICES ASSUME NEW h \in Hosts, NEW i \in Ids, Alive(run'[h][i]), Unfinished(i)'
             PROVE  run'[h][i].token = ops'[i].token /\ ops'[i].token # 0 /\ ops'[i].left > Skew
  BY Zenon DEF LeasesKept
<1>1. Alive(run[h][i]) /\ run'[h][i].token = run[h][i].token
  BY Zenon DEF WorkersKept, Alive, Active
<1>2. /\ Unfinished(i) /\ ops'[i].token = ops[i].token
      /\ ops[i].left > Skew => ops'[i].left > Skew
  BY Zenon
<1>3. run[h][i].token = ops[i].token /\ ops[i].token # 0 /\ ops[i].left > Skew
  BY <1>1, <1>2, Zenon DEF LeasesKept
<1> QED BY Zenon, <1>1, <1>2, <1>3

\* A lease that is claimed or renewed lasts on every clock.
LEMMA LongLease ==
    ASSUME 2 * Skew < TTL, NEW s \in Skews
    PROVE  TTL + s > Skew
BY OperationsAssumption DEF OperationsAssumption, Skews

\* A lease that is valid on every clock is not claimed by another worker.
LEMMA ClaimLeases ==
    ASSUME TypeOK, FenceInvariant, LeasesKept, 2 * Skew < TTL,
           NEW h \in Hosts, NEW i \in Ids, NEW s \in Skews, Claim(h, i, s)
    PROVE  LeasesKept'
<1>1. Skew \in Nat /\ s \in Int /\ s <= Skew /\ ops[i] \in Record /\ run[h][i] \in Worker
  BY SMT, SMTT(30), OperationsAssumption DEF OperationsAssumption, Skews, TypeOK
<1>2. Unfinished(i) /\ ~(ops[i].token # 0 /\ ops[i].left > s)
  BY Zenon DEF Claim, Leased
<1>3. \A g \in Hosts : ~Alive(run[g][i])
  <2>1. ops[i].left \in Nat
    BY Zenon, <1>1 DEF Record
  <2>2. ops[i].left > Skew => ops[i].left > s
    BY <1>1, <2>1
  <2> QED BY Zenon, <1>2, <2>2 DEF LeasesKept
<1>4. /\ ops' = [ops EXCEPT ![i] = Claimed(ops[i], s)]
      /\ run' = [run EXCEPT ![h][i] = Owning(run[h][i], ops[i].claims + 1)]
  BY Zenon DEF Claim
<1>5. /\ ops'[i] = Claimed(ops[i], s) /\ \A j \in Ids \ {i} : ops'[j] = ops[j]
  BY <1>4, Zenon DEF TypeOK
<1>6. /\ run'[h][i] = Owning(run[h][i], ops[i].claims + 1)
      /\ \A g \in Hosts, j \in Ids : g # h \/ j # i => run'[g][j] = run[g][j]
  BY <1>4, Zenon DEF TypeOK
<1>7. /\ Claimed(ops[i], s).token = ops[i].claims + 1
      /\ Claimed(ops[i], s).left = TTL + s
      /\ ops[i].claims \in Nat
  BY <1>1 DEF Claimed, Record
<1>8. Owning(run[h][i], ops[i].claims + 1).token = ops[i].claims + 1
  BY <1>1 DEF Owning, Worker
<1> SUFFICES ASSUME NEW g \in Hosts, NEW j \in Ids, Alive(run'[g][j]), Unfinished(j)'
             PROVE  run'[g][j].token = ops'[j].token /\ ops'[j].token # 0 /\ ops'[j].left > Skew
  BY Zenon DEF LeasesKept
<1>9. CASE j = i
  <2>1. g = h
    BY <1>3, <1>6, <1>9, Zenon
  <2>2. /\ run'[g][j].token = ops[i].claims + 1 /\ ops'[j].token = ops[i].claims + 1
        /\ ops'[j].left = TTL + s
    BY Zenon, <1>5, <1>6, <1>7, <1>8, <1>9, <2>1
  <2>3. ops[i].claims \in Nat
    BY Zenon, <1>7
  <2> QED BY SMT, SMTT(30), <2>2, <2>3, LongLease
<1>10. CASE j # i
  <2>1. run'[g][j] = run[g][j] /\ ops'[j] = ops[j]
    BY <1>5, <1>6, <1>10, Zenon
  <2>2. Alive(run[g][j]) /\ Unfinished(j)
    BY Zenon, <2>1 DEF Unfinished
  <2> QED BY <2>1, <2>2, Zenon DEF LeasesKept
<1> QED BY Zenon, <1>9, <1>10

\* Record i, which is stored in place of the old one, is finished or its lease lasts.
LEMMA RecordLeases ==
    ASSUME TypeOK, LeasesKept, WorkersKept, NEW i \in Ids, NEW q,
           ops' = [ops EXCEPT ![i] = q],
           \/ q.state \notin {"pending", "running"}
           \/ \A g \in Hosts : ~Alive(run'[g][i])
           \/ Unfinished(i) /\ q.token = ops[i].token /\ q.left > Skew
           \/ q = ops[i]
    PROVE  LeasesKept'
<1>1. ops'[i] = q /\ \A j \in Ids \ {i} : ops'[j] = ops[j]
  BY Zenon DEF TypeOK
<1>2. ASSUME NEW j \in Ids, Unfinished(j)', \E h \in Hosts : Alive(run'[h][j])
      PROVE  /\ Unfinished(j) /\ ops'[j].token = ops[j].token
             /\ ops[j].left > Skew => ops'[j].left > Skew
  <2>1. CASE j = i
    BY <1>1, <1>2, <2>1, Zenon DEF Unfinished
  <2>2. CASE j # i
    BY <1>1, <1>2, <2>2, Zenon DEF Unfinished
  <2> QED BY Zenon, <2>1, <2>2
<1> QED BY <1>2, LeasesKeptIntro, Zenon

\* The leases of the workers are kept: each store call ends the lease of its
\* caller, renews it, or finishes the record, and time waits for heartbeats.
LEMMA LeaseStep ==
    ASSUME TypeOK, KeyIndexExact, FenceInvariant, LeasesKept, Timely, 2 * Skew < TTL, Next
    PROVE  LeasesKept'
<1>e. PICK h0 \in Hosts, i0 \in Ids, k0 \in Keys, x0 \in Inputs,
           r0 \in Resources, s0 \in Skews, S0 \in SUBSET Ids : TRUE
  <2>1. 0 \in Skews
    BY OperationsAssumption DEF OperationsAssumption, Skews
  <2> QED BY <2>1, OperationsAssumption DEF OperationsAssumption
<1>q. ops' = ops /\ WorkersKept => LeasesKept'
  BY LeasesKeptIntro, Zenon DEF Unfinished
<1>0. \A j \in Ids : ops[j] \in Record
  BY Zenon DEF TypeOK
<1>t. \A j \in Ids :
        /\ Transition(ops[j], "cancelled", "none").state \notin {"pending", "running"}
        /\ Transition(ops[j], "failed", "invalid").state \notin {"pending", "running"}
  BY <1>0 DEF Transition, Record
<1>1. ASSUME NEW h \in Hosts, NEW i \in Ids, NEW k \in Keys, NEW x \in Inputs,
             SubmitNew(h, i, k, x)
      PROVE  LeasesKept'
  <2>1. WorkersKept
    BY <1>1, <1>e, WorkerSteps, Zenon
  <2>2. \A g \in Hosts : ~Alive(run'[g][i])
    BY <1>1, Zenon DEF SubmitNew, FenceInvariant, WorkersFenced, Alive, Active
  <2> QED BY <1>1, <2>1, <2>2, RecordLeases, Zenon DEF SubmitNew
<1>2. ASSUME NEW h \in Hosts, NEW i \in Ids, NEW k \in Keys, NEW x \in Inputs, NEW s \in Skews,
             NEW r \in Resources,
             \/ SubmitAgain(h, i, k, x) \/ StartReservedAsync(h, i) \/ ClaimRefused(h, i, s)
             \/ Execute(h, i) \/ FinishSlot(h, i) \/ StoreFault(h, i) \/ Poll(h, i)
      PROVE  LeasesKept'
  <2>1. WorkersKept
    BY <1>2, <1>e, WorkerSteps, Zenon
  <2>2. ops' = ops
    BY <1>2, Zenon DEF SubmitAgain, StartReservedAsync, ClaimRefused, Execute, FinishSlot,
       StoreFault, Poll
  <2> QED BY <1>q, <2>1, <2>2, Zenon
<1>3. ASSUME NEW h \in Hosts, NEW i \in Ids, NEW s \in Skews, NEW r \in Resources,
             \/ CancelRequest(h, i) \/ CancelGet(h) \/ CancelNotify(h)
             \/ RecoverRead(h, i, s) \/ RecoverWake(h, i) \/ RecoverValidate(h, i)
             \/ Replay(h, i) \/ Drain(h) \/ Shutdown(h) \/ Stopped(h) \/ Crash(h) \/ Restart(h, r, s)
      PROVE  LeasesKept'
  <2>1. WorkersKept
    BY <1>3, <1>e, WorkerSteps, ZenonT(30)
  <2>2. ops' = ops
    BY <1>3, Zenon DEF CancelRequest, CancelGet, CancelNotify, RecoverRead, RecoverWake,
       RecoverValidate, Replay, Drain, Shutdown, Stopped, Crash, Restart
  <2> QED BY <1>q, <2>1, <2>2, Zenon
<1>4. ASSUME NEW h \in Hosts, NEW i \in Ids, NEW s \in Skews, Claim(h, i, s)
      PROVE  LeasesKept'
  BY <1>4, ClaimLeases, Zenon
<1>5. ASSUME NEW h \in Hosts, NEW i \in Ids, NEW s \in Skews, Heartbeat(h, i, s)
      PROVE  LeasesKept'
  <2>1. WorkersKept
    BY <1>5, <1>e, WorkerSteps, Zenon
  <2>2. CASE Holds(ops[i], run[h][i].token, s) /\ ops' = [ops EXCEPT ![i] = Renewed(ops[i], s)]
    <3>1. Unfinished(i)
      BY <2>2 DEF Holds, Unfinished
    <3>2. Renewed(ops[i], s).token = ops[i].token /\ Renewed(ops[i], s).left > Skew
      BY <1>0, LongLease DEF Renewed, Record
    <3> QED BY <2>1, <2>2, <3>1, <3>2, RecordLeases, Zenon
  <2> QED BY <1>5, <1>q, <2>1, <2>2, Zenon DEF Heartbeat
<1>6. ASSUME NEW h \in Hosts, NEW i \in Ids, NEW s \in Skews, Finish(h, i, s)
      PROVE  LeasesKept'
  <2>1. WorkersKept
    BY <1>6, <1>e, WorkerSteps, Zenon
  <2>2. CASE ops' = [ops EXCEPT ![i] = Completed(ops[i], run[h][i].token, run[h][i].outcome)]
    <3>1. Completed(ops[i], run[h][i].token, run[h][i].outcome).state \notin {"pending", "running"}
      BY <1>0 DEF Completed, Record
    <3> QED BY <2>1, <2>2, <3>1, RecordLeases, Zenon
  <2>3. CASE /\ ops[i].state = "running" /\ ops[i].token = run[h][i].token
             /\ ops' = [ops EXCEPT ![i] = Released(ops[i])]
    <3>1. ASSUME NEW g \in Hosts, Alive(run'[g][i])
          PROVE  FALSE
      <4>1. Alive(run[g][i]) /\ Active(run[g][i]) /\ Unfinished(i) /\ Exists(i)
        BY <2>1, <2>3, <3>1, Zenon DEF WorkersKept, Unfinished, Exists, Alive, Active
      <4>2. run[g][i].token = run[h][i].token
        BY <2>3, <4>1, Zenon DEF LeasesKept
      <4>3. Active(run[h][i])
        BY <1>6, Zenon DEF Finish, Active
      <4>4. g = h
        BY <4>1, <4>2, <4>3, Zenon DEF FenceInvariant, WorkersFenced
      <4>5. run'[h][i] = Returning
        BY <1>6, Zenon DEF Finish, TypeOK
      <4> QED BY <3>1, <4>4, <4>5 DEF Alive, Returning, NoWorker
    <3> QED BY <2>1, <2>3, <3>1, RecordLeases, Zenon
  <2>4. \/ ops' = ops
        \/ ops' = [ops EXCEPT ![i] = Completed(ops[i], run[h][i].token, run[h][i].outcome)]
        \/ /\ ops[i].state = "running" /\ ops[i].token = run[h][i].token
           /\ ops' = [ops EXCEPT ![i] = Released(ops[i])]
    BY <1>6 DEF Finish, CompleteCall, ReleaseCall
  <2> QED BY <1>q, <2>1, <2>2, <2>3, <2>4, Zenon
<1>7. ASSUME NEW h \in Hosts, CancelApply(h)
      PROVE  LeasesKept'
  <2>1. WorkersKept
    BY <1>7, <1>e, WorkerSteps, Zenon
  <2>2. cancel[h].id \in Ids
    BY SMTT(30), <1>7 DEF CancelApply, TypeOK, Canceller, NoCancel, Request
  <2>3. \/ ops' = ops
        \/ ops' = [ops EXCEPT ![cancel[h].id] = Transition(ops[cancel[h].id], "cancelled", "none")]
    BY <1>7 DEF CancelApply
  <2> QED BY <1>q, <1>t, <2>1, <2>2, <2>3, RecordLeases, Zenon
<1>8. ASSUME NEW h \in Hosts, NEW i \in Ids, RecoverFail(h, i)
      PROVE  LeasesKept'
  <2>1. WorkersKept
    BY <1>8, <1>e, WorkerSteps, Zenon
  <2>2. \/ ops' = ops
        \/ ops' = [ops EXCEPT ![i] = Transition(ops[i], "failed", "invalid")]
    BY <1>8, Zenon DEF RecoverFail
  <2> QED BY <1>q, <1>t, <2>1, <2>2, RecordLeases, Zenon
<1>9. ASSUME NEW S \in SUBSET Ids, PurgeTerminal(S)
      PROVE  LeasesKept'
  <2>1. WorkersKept
    BY <1>9, <1>e, WorkerSteps, Zenon
  <2>2. \A j \in Ids : ops'[j] = ops[j] \/ ops'[j].state = "purged"
    BY <1>9, PurgeEffect, Zenon
  <2> QED BY <2>1, <2>2, LeasesKeptIntro DEF Unfinished
<1>10. ASSUME Tick
      PROVE  LeasesKept'
  <2>1. WorkersKept
    BY <1>10, <1>e, WorkerSteps, Zenon
  <2>2. \A j \in Ids : ops'[j] = Aged(ops[j])
    BY <1>10, Zenon DEF Tick
  <2>3. ASSUME NEW j \in Ids, Unfinished(j)', NEW g \in Hosts, Alive(run'[g][j])
        PROVE  /\ Unfinished(j) /\ ops'[j].token = ops[j].token /\ ops'[j].left > Skew
    <3>1. /\ ops'[j].state = ops[j].state /\ ops'[j].token = ops[j].token
          /\ ops'[j].left = Less(ops[j].left) /\ ops[j].left \in Nat
      BY Zenon, <1>0, <2>2 DEF Aged, Record
    <3>2. Alive(run[g][j]) /\ Unfinished(j)
      BY <2>1, <2>3, <3>1, Zenon DEF WorkersKept, Unfinished
    <3>3. Holding(g, j)
      BY <3>2, Zenon DEF LeasesKept, Holding, Alive
    <3>4. ops[j].left > Skew + 1
      BY <1>10, <3>2, <3>3, Zenon DEF Tick
    <3>5. Skew \in Nat
      BY OperationsAssumption DEF OperationsAssumption
    <3> QED BY SMT, SMTT(30), <3>1, <3>2, <3>4, <3>5 DEF Less
  <2> QED BY <2>1, <2>3, LeasesKeptIntro, Zenon
<1>11. ASSUME NEW h \in Hosts, NEW i \in Ids,
              \/ \E k \in Keys, x \in Inputs : SubmitNew(h, i, k, x) \/ SubmitAgain(h, i, k, x)
              \/ StartReservedAsync(h, i) \/ WorkerStep(h, i) \/ RecoveryStep(h, i)
              \/ \E s \in Skews : Heartbeat(h, i, s)
              \/ StoreFault(h, i) \/ CancelRequest(h, i) \/ Poll(h, i)
       PROVE  LeasesKept'
  BY <1>e, <1>1, <1>2, <1>3, <1>4, <1>5, <1>6, <1>8, <1>11, ZenonT(30) DEF WorkerStep, RecoveryStep
<1>12. ASSUME NEW h \in Hosts,
              CancelStep(h) \/ Drain(h) \/ Shutdown(h) \/ Stopped(h) \/ Crash(h) \/ RestartStep(h)
       PROVE  LeasesKept'
  BY <1>e, <1>3, <1>7, <1>12, ZenonT(30) DEF CancelStep, RestartStep
<1> QED BY <1>9, <1>10, <1>11, <1>12, Zenon DEF Next

-------------------------------------------------------------------------------
(***************************************************************************)
(* The properties, for every value of the constants.                       *)
(***************************************************************************)

\* The store, the workers and the recoveries are well typed; in particular a
\* recovery delay taken from a valid lease is never negative.
THEOREM TypeCorrect == Spec => []TypeOK
BY InvariantHolds, PTL DEF Invariant

\* A result in a record was written by the worker of the newest claim, however
\* late its heartbeats and however skewed the clocks (operationmodel.Complete).
THEOREM ResultsFenced == Spec => []ResultFenced
<1>1. Invariant => ResultFenced
  BY Zenon DEF Invariant, FenceInvariant, RecordFenced, ResultFenced
<1> QED BY <1>1, InvariantHolds, PTL

\* At most one worker anywhere can renew, complete or release an operation.
THEOREM LeasesExclusive == Spec => []LeaseExclusive
<1>1. Invariant => LeaseExclusive
  <2> SUFFICES ASSUME Invariant, NEW i \in Ids, NEW g \in Hosts, NEW h \in Hosts,
                      Holding(g, i), Holding(h, i), ops[i].token # 0
               PROVE  g = h
    BY Zenon DEF LeaseExclusive
  <2>1. Exists(i) /\ WorkersFenced(i)
    BY Zenon DEF Invariant, FenceInvariant, RecordFenced, Exists
  <2>2. /\ Active(run[g][i]) /\ Active(run[h][i])
        /\ run[g][i].token = run[h][i].token
    BY Zenon DEF Holding, Active
  <2> QED BY Zenon, <2>1, <2>2 DEF WorkersFenced
<1> QED BY <1>1, InvariantHolds, PTL

\* A worker past its claim stays so until it finishes, unless a fault is counted.
LEMMA ActiveKept ==
    ASSUME TypeOK, Next, faults' = faults, NEW g \in Hosts, NEW j \in Ids, Active(run[g][j])
    PROVE  Active(run'[g][j]) \/ \E s \in Skews : Finish(g, j, s)
<1> DEFINE Goal == Active(run'[g][j]) \/ \E s \in Skews : Finish(g, j, s)
<1>0. /\ run[g][j] \in Worker /\ faults + 1 # faults
      /\ Active(Cancelled(run[g][j])) /\ Active(Lost(run[g][j]))
      /\ \A o \in Results : run[g][j].pc = "executing" => Active(Executed(run[g][j], o))
  BY DEF TypeOK, Worker, Active, Cancelled, Lost, Executed
<1>o. ASSUME NEW h \in Hosts, NEW i \in Ids, NEW v, run' = [run EXCEPT ![h][i] = v],
             h = g /\ i = j => Active(v)
      PROVE  Goal
  BY Zenon, <1>o DEF TypeOK
<1>c. ASSUME NEW h \in Hosts, run' = [run EXCEPT ![h] = [k \in Ids |-> Cancelled(run[h][k])]]
      PROVE  Goal
  BY Zenon, <1>0, <1>c DEF TypeOK
<1>r. run' = run => Goal
  BY Zenon
<1>1. ASSUME NEW h \in Hosts, NEW i \in Ids, NEW k \in Keys, NEW x \in Inputs,
             \/ SubmitNew(h, i, k, x) \/ SubmitAgain(h, i, k, x) \/ Poll(h, i)
             \/ CancelRequest(h, i) \/ RecoverWake(h, i) \/ Replay(h, i)
      PROVE  Goal
  BY Zenon, <1>1, <1>r DEF SubmitNew, SubmitAgain, Poll, CancelRequest, RecoverWake, Replay
<1>2. ASSUME NEW h \in Hosts, NEW r \in Resources, NEW s \in Skews, NEW S \in SUBSET Ids,
             \/ CancelGet(h) \/ CancelApply(h) \/ Drain(h) \/ Restart(h, r, s) \/ Tick
             \/ PurgeTerminal(S)
      PROVE  Goal
  BY Zenon, <1>2, <1>r DEF CancelGet, CancelApply, Drain, Restart, Tick, PurgeTerminal
<1>3. ASSUME NEW h \in Hosts, NEW i \in Ids, NEW s \in Skews,
             RecoverRead(h, i, s) \/ RecoverValidate(h, i) \/ RecoverFail(h, i) \/ Shutdown(h)
      PROVE  Goal
  BY Zenon, <1>3, <1>r, <1>c DEF RecoverRead, RecoverValidate, RecoverFail, RecoveryGone, Shutdown
<1>4. ASSUME NEW h \in Hosts, Stopped(h)
      PROVE  Goal
  <2>1. h # g
    BY <1>4 DEF Stopped, Active
  <2> QED BY Zenon, <1>4, <2>1 DEF Stopped, Volatile, TypeOK
<1>5. ASSUME NEW h \in Hosts, Crash(h)
      PROVE  Goal
  BY Zenon, <1>0, <1>5 DEF Crash
<1>6. ASSUME NEW h \in Hosts, NEW i \in Ids, StoreFault(h, i)
      PROVE  Goal
  BY Zenon, <1>0, <1>6 DEF StoreFault
<1>7. ASSUME NEW h \in Hosts, NEW i \in Ids, NEW s \in Skews,
             Claim(h, i, s) \/ ClaimRefused(h, i, s) \/ FinishSlot(h, i)
      PROVE  Goal
  <2>1. ~Active(run[h][i])
    BY <1>7 DEF Claim, ClaimRefused, FinishSlot, Active
  <2>2. h # g \/ i # j
    BY Zenon, <2>1
  <2>3. PICK v : run' = [run EXCEPT ![h][i] = v]
    BY Zenon, <1>7 DEF Claim, ClaimRefused, FinishSlot
  <2> QED BY <1>o, <2>2, <2>3
<1>8. ASSUME NEW h \in Hosts, NEW i \in Ids, StartReservedAsync(h, i)
      PROVE  Goal
  <2>1. CASE run' = run
    BY Zenon, <1>r, <2>1
  <2>2. CASE run[h][i].pc = "none" /\ \E v : run' = [run EXCEPT ![h][i] = v]
    <3>1. ~Active(run[h][i])
      BY <2>2 DEF Active
    <3>2. h # g \/ i # j
      BY Zenon, <3>1
    <3>3. PICK v : run' = [run EXCEPT ![h][i] = v]
      BY Zenon, <2>2
    <3> QED BY <1>o, <3>2, <3>3
  <2> QED BY Zenon, <1>8, <2>1, <2>2 DEF StartReservedAsync
<1>9. ASSUME NEW h \in Hosts, NEW i \in Ids, NEW s \in Skews, Finish(h, i, s)
      PROVE  Goal
  <2>1. CASE h = g /\ i = j
    BY Zenon, <1>9, <2>1
  <2>2. CASE ~(h = g /\ i = j)
    BY Zenon, <1>9, <1>o, <2>2 DEF Finish
  <2> QED BY Zenon, <2>1, <2>2
<1>10. ASSUME NEW h \in Hosts, NEW i \in Ids, NEW s \in Skews, Heartbeat(h, i, s)
      PROVE  Goal
  BY Zenon, <1>0, <1>10, <1>o, <1>r DEF Heartbeat
<1>11. ASSUME NEW h \in Hosts, NEW i \in Ids, Execute(h, i)
      PROVE  Goal
  <2>1. PICK o \in Results : run' = [run EXCEPT ![h][i] = Executed(run[h][i], o)]
    BY Zenon, <1>11 DEF Execute, Results
  <2> QED BY Zenon, <1>0, <1>11, <1>o, <2>1 DEF Execute
<1>12. ASSUME NEW h \in Hosts, CancelNotify(h)
      PROVE  Goal
  <2>1. cancel[h].id \in Ids
    BY SMT, SMTT(30), <1>12 DEF CancelNotify, TypeOK, Canceller, NoCancel, Request
  <2> QED BY Zenon, <1>0, <1>12, <1>o, <2>1 DEF CancelNotify
<1> HIDE DEF Goal
<1>e. PICK k0 \in Keys, x0 \in Inputs, r0 \in Resources, s0 \in Skews, S0 \in SUBSET Ids : TRUE
  <2>1. 0 \in Skews
    BY OperationsAssumption DEF OperationsAssumption, Skews
  <2> QED BY <2>1, OperationsAssumption DEF OperationsAssumption
<1>13. ASSUME NEW h \in Hosts, NEW i \in Ids, WorkerStep(h, i) \/ RecoveryStep(h, i)
      PROVE  Goal
  BY Zenon, <1>13, <1>e, <1>1, <1>3, <1>7, <1>9, <1>11 DEF WorkerStep, RecoveryStep
<1>14. ASSUME NEW h \in Hosts,
              \/ CancelStep(h) \/ Drain(h) \/ Shutdown(h) \/ Stopped(h) \/ Crash(h)
              \/ RestartStep(h)
      PROVE  Goal
  BY Zenon, <1>14, <1>e, <1>2, <1>3, <1>4, <1>5, <1>12, \E i \in Ids : TRUE
  DEF CancelStep, RestartStep
<1>15. Goal
  BY Zenon, <1>e, <1>1, <1>2, <1>6, <1>8, <1>10, <1>13, <1>14 DEF Next
<1> QED BY Zenon, <1>15 DEF Goal

\* A worker that a shutdown or a cancellation interrupts under its claim gives
\* the claim back and records nothing (the release branch of Runner.Run).
THEOREM ShutdownsRelease == Spec => ShutdownReleases
<1> DEFINE Releases == faults' = faults => \A h \in Hosts, i \in Ids :
                          /\ Holding(h, i) /\ ops[i].state = "running"
                          /\ run[h][i].cancelled /\ ~run[h][i].lost
                          /\ run'[h][i].pc \notin {"executing", "finishing"}
                          => ops'[i].state = "running" /\ ops'[i].token = 0
<1>1. TypeOK /\ [Next]_vars => [Releases]_vars
  <2> SUFFICES ASSUME TypeOK, Next, faults' = faults, NEW h \in Hosts, NEW i \in Ids,
                      Holding(h, i), ops[i].state = "running",
                      run[h][i].cancelled, ~run[h][i].lost,
                      run'[h][i].pc \notin {"executing", "finishing"}
               PROVE  ops'[i].state = "running" /\ ops'[i].token = 0
    BY Zenon
  <2>1. Active(run[h][i]) /\ ~Active(run'[h][i])
    BY Zenon DEF Holding, Active
  <2>2. PICK s \in Skews : Finish(h, i, s)
    BY Zenon, <2>1, ActiveKept
  <2>3. ops' = [ops EXCEPT ![i] = Released(ops[i])]
    BY Zenon, <2>2 DEF Finish, ReleaseCall, Holding
  <2>4. ops'[i] = Released(ops[i]) /\ ops[i] \in Record
    BY Zenon, <2>3 DEF TypeOK
  <2> QED BY <2>4 DEF Released, Record
<1> QED BY <1>1, TypeCorrect, PTL DEF Spec, ShutdownReleases

\* The idempotency index matches the stored records (Submit, PurgeTerminal).
THEOREM IndexExact == Spec => []KeyIndexExact
BY InvariantHolds, PTL DEF Invariant

\* Polling never fails ValidateOperationProgress.
THEOREM PollsProgress == Spec => []ObservationsProgress
BY InvariantHolds, PTL DEF Invariant

\* A host executes operations of the revision it serves only: Submit and the
\* recovery validate the target before they start a worker, and a host that
\* restarts with another revision has no worker left (Target.Validate).
THEOREM OwnRevisions == Spec => []ExecutesOwnRevision
<1>1. Init => RevisionInvariant
  BY SMT, SMTT(30) DEF Init, RevisionInvariant, Committed, NoWorker, NoRecovery, Task
<1>2. Invariant /\ RevisionInvariant /\ [Next]_vars => RevisionInvariant'
  <2>1. ASSUME Invariant, RevisionInvariant, Next
        PROVE  RevisionInvariant'
    BY <2>1, RevisionStep DEF Invariant
  <2>2. ASSUME RevisionInvariant, UNCHANGED vars
        PROVE  RevisionInvariant'
    BY Zenon, <2>2 DEF vars, RevisionInvariant, Committed, Exists, Validates, Open
  <2> QED BY <2>1, <2>2
<1>3. RevisionInvariant => ExecutesOwnRevision
  BY Zenon DEF RevisionInvariant, ExecutesOwnRevision, Active, Committed
<1> QED BY <1>1, <1>2, <1>3, InvariantHolds, PTL DEF Spec

\* While live workers renew in time at most one host executes an unfinished
\* operation with a live context, as long as no clock is off by half a lease: a
\* claim waits until the lease has expired on the claimant's clock
\* (operationmodel.Claim), and a worker whose heartbeat ended is cancelled.
THEOREM SingleExecutors == 2 * Skew < TTL => (Spec => []SingleExecutor)
<1> SUFFICES ASSUME 2 * Skew < TTL
             PROVE  Spec => []SingleExecutor
  BY Zenon
<1> DEFINE Inv == Timely => LeasesKept
<1>1. Init => Inv
  BY DEF Init, LeasesKept, Alive, NoWorker
<1>2. Invariant /\ Inv /\ [Next]_vars => Inv'
  <2>1. ASSUME Invariant, LeasesKept, Timely, Next
        PROVE  LeasesKept'
    BY Zenon, <2>1, LeaseStep DEF Invariant
  <2>2. ASSUME LeasesKept, UNCHANGED vars
        PROVE  LeasesKept'
    BY Zenon, <2>2 DEF vars, LeasesKept, Unfinished, Alive
  <2> QED BY <2>1, <2>2
<1>3. Invariant /\ Inv => SingleExecutor
  <2> SUFFICES ASSUME Invariant, Timely, LeasesKept, NEW i \in Ids, NEW g \in Hosts, NEW h \in Hosts,
                      Alive(run[g][i]), Alive(run[h][i]), Unfinished(i)
               PROVE  g = h
    BY Zenon DEF SingleExecutor
  <2>1. Active(run[g][i]) /\ Active(run[h][i]) /\ Exists(i)
    BY Zenon DEF Alive, Active, Unfinished, Exists
  <2>2. run[g][i].token = run[h][i].token
    BY <2>1, Zenon DEF LeasesKept
  <2> QED BY <2>1, <2>2, Zenon DEF Invariant, FenceInvariant, WorkersFenced
<1> QED BY <1>1, <1>2, <1>3, InvariantHolds, PTL DEF Spec

\* A step that advances one record begins or settles its operation, or leaves
\* it as the caller sees it.
LEMMA LifecycleAdvance ==
    ASSUME TypeOK, TypeOK', NEW i \in Ids, Advanced(ops[i], ops'[i]),
           \A j \in Ids \ {i} : ops'[j] = ops[j]
    PROVE  Lifecycle!Next \/ UNCHANGED <<phases, outcomes>>
<1>0. /\ phases' = [phases EXCEPT ![i] = ops'[i].state]
      /\ outcomes' = [outcomes EXCEPT ![i] = ops'[i].result]
      /\ phases[i] = ops[i].state /\ outcomes[i] = ops[i].result
      /\ ops'[i].result \in Results
  BY Zenon DEF phases, outcomes, TypeOK, Record
<1>1. CASE ops'[i].state = "running"
  <2>1. outcomes' = outcomes
    BY Zenon, <1>0, <1>1 DEF Advanced, outcomes
  <2>2. CASE ops[i].state = "pending"
    <3>1. Lifecycle!Begin(i)
      BY Zenon, <1>0, <1>1, <2>1, <2>2 DEF Lifecycle!Begin
    <3> QED BY Zenon, <3>1 DEF Lifecycle!Next
  <2>3. CASE ops[i].state = "running"
    BY Zenon, <1>0, <1>1, <2>1, <2>3 DEF phases
  <2> QED BY Zenon, <2>2, <2>3 DEF Advanced
<1>2. CASE ops'[i].state \in Terminal
  <2>1. Lifecycle!Settle(i, ops'[i].state, ops'[i].result)
    BY Zenon, <1>0, <1>2 DEF Lifecycle!Settle, Lifecycle!TerminalPhases, Terminal, Advanced
  <2> QED BY Zenon, <1>0, <1>2, <2>1 DEF Lifecycle!Next, Lifecycle!TerminalPhases, Terminal
<1> QED BY Zenon, <1>1, <1>2 DEF Advanced

\* The store implements the abstract life of an operation: one terminal
\* outcome for each, unchanged until retention removes it.
THEOREM Refinement == Spec => RefinesLifecycle
<1>1. Init => Lifecycle!Init
  BY DEF Init, Lifecycle!Init, Lifecycle!NoOutcome, phases, outcomes, Blank, NoRecord
<1>2. Invariant /\ [Next]_vars => [Lifecycle!Next]_<<phases, outcomes>>
  <2> SUFFICES ASSUME Invariant, [Next]_vars
               PROVE  Lifecycle!Next \/ UNCHANGED <<phases, outcomes>>
    OBVIOUS
  <2>1. CASE UNCHANGED vars
    BY <2>1 DEF vars, phases, outcomes
  <2>2. ASSUME NEW h \in Hosts, NEW i \in Ids, NEW k \in Keys, NEW x \in Inputs,
               SubmitNew(h, i, k, x)
        PROVE  Lifecycle!Next
    <3>1. ops[i].result = "none"
      BY Zenon, <2>2 DEF Invariant, FenceInvariant, RecordFenced, SubmitNew
    <3>2. /\ \A j \in Ids \ {i} : ops'[j] = ops[j]
          /\ ops[i].state = "absent"
          /\ ops'[i].state = "pending" /\ ops'[i].result = "none"
      BY SMT, SMTT(30), <2>2, SubmitNewEffect DEF Invariant
    <3>3. phases[i] = "absent" /\ phases' = [phases EXCEPT ![i] = "pending"]
      BY Zenon, <3>2 DEF phases
    <3>4. outcomes' = outcomes
      BY <3>1, <3>2 DEF outcomes
    <3>5. Lifecycle!Accept(i)
      BY <3>3, <3>4 DEF Lifecycle!Accept
    <3> QED BY <3>5 DEF Lifecycle!Next
  <2>3. ASSUME NEW S \in SUBSET Ids, PurgeTerminal(S)
        PROVE  Lifecycle!Next
    <3>1. \A j \in Ids :
            /\ j \notin S => ops'[j] = ops[j]
            /\ j \in S => /\ ops[j].state \in Terminal
                          /\ ops'[j].state = "purged" /\ ops'[j].result = "none"
      BY Zenon, <2>3, PurgeEffect DEF Invariant
    <3>2. /\ phases' = [j \in Ids |-> IF j \in S THEN "purged" ELSE phases[j]]
          /\ \A j \in S : phases[j] \in Terminal
      BY <3>1 DEF phases
    <3>3. outcomes' = [j \in Ids |-> IF j \in S THEN "none" ELSE outcomes[j]]
      BY <3>1 DEF outcomes
    <3>4. Lifecycle!Forget(S)
      BY <3>2, <3>3
      DEF Lifecycle!Forget, Lifecycle!TerminalPhases, Lifecycle!NoOutcome, Terminal
    <3> QED BY <3>4 DEF Lifecycle!Next
  <2>4. ASSUME Next, StoreStep
        PROVE  Lifecycle!Next \/ UNCHANGED <<phases, outcomes>>
    <3>1. CASE \A j \in Ids : Kept(ops[j], ops'[j])
      BY Zenon, <3>1 DEF Kept, phases, outcomes
    <3>2. ASSUME NEW i \in Ids, Advanced(ops[i], ops'[i]),
                 \A j \in Ids \ {i} : ops'[j] = ops[j]
          PROVE  Lifecycle!Next \/ UNCHANGED <<phases, outcomes>>
      BY Zenon, <2>4, <3>2, NextStep, LifecycleAdvance DEF Invariant
    <3> QED BY Zenon, <2>4, <3>1, <3>2 DEF StoreStep
  <2> QED BY <2>1, <2>2, <2>3, <2>4, NextStep DEF Invariant
<1> QED BY <1>1, <1>2, InvariantHolds, PTL DEF Spec, RefinesLifecycle, Lifecycle!Spec
===============================================================================
