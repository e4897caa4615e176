---------------------------- MODULE GatewayProofs ----------------------------
(***************************************************************************)
(* The order of the inputs, their single submission and the pause of the   *)
(* module Gateway, for any number of inputs, direct messages, pauses,      *)
(* cancellations, crashes and shutdowns; and what the inputs report, while *)
(* no message is accepted past the queue: the outcome of the execution of  *)
(* their own content.                                                      *)
(***************************************************************************)
EXTENDS Gateway, TLAPS

-----------------------------------------------------------------------------
(***************************************************************************)
(* The invariant.                                                          *)
(***************************************************************************)

\* No execution has the content of input id.
Unsubmitted(id) == \A e \in DOMAIN execs : execs[e].content # id

Unbound(in) == in.state = "dispatching" /\ in.exec = 0

\* What the runner, the inputs and a cancellation point at exists, and an
\* execution whose outcome is collected has one.
RunnerPointers ==
    /\ runner.pc \notin {"none", "load", "leave", "acquire"} => runner.at \in DOMAIN inputs
    /\ runner.pc \in {"adopted", "hostbind", "bind", "await", "collect"} =>
          runner.exec \in DOMAIN execs
    /\ runner.pc = "collect" => execs[runner.exec].state \in TerminalStates

InputPointers ==
    \A n \in DOMAIN inputs : /\ inputs[n].exec # 0 => inputs[n].exec \in DOMAIN execs
                             /\ inputs[n].since <= Len(execs)

CancelPointer == cancel.pc = "queued" => cancel.at \in DOMAIN inputs

Pointers == RunnerPointers /\ InputPointers /\ CancelPointer

\* An input is stored once.  A queued one is not bound or submitted; one that is
\* dispatched and not bound was submitted, if at all, since it was dispatched.
Records ==
    /\ \A m, n \in DOMAIN inputs : inputs[m].id = inputs[n].id => m = n
    /\ \A n \in DOMAIN inputs : inputs[n].state = "queued" =>
          inputs[n].exec = 0 /\ Unsubmitted(inputs[n].id)
    /\ \A n \in DOMAIN inputs, e \in DOMAIN execs :
          Unbound(inputs[n]) /\ execs[e].content = inputs[n].id => e > inputs[n].since
    /\ \A e \in DOMAIN execs : execs[e].content = Direct \/ Stored(execs[e].content)

\* A runner on its way to a submission has an unbound input, which it submits
\* only if it was not submitted before.
Guarded == {"boundary", "settled", "recheck", "reserve", "submit"}

Fresh ==
    runner.pc \in Guarded =>
        /\ Unbound(inputs[runner.at])
        /\ runner.pc # "boundary" \/ ~ runner.resumed => Unsubmitted(inputs[runner.at].id)

\* Inputs are held only during a pause, and the one that passed the second look
\* at the session is not among them.
Holding ==
    /\ ~ paused => held = {}
    /\ runner.pc \in {"reserve", "submit"} => inputs[runner.at].id \notin held

Core == Records /\ Fresh /\ Holding /\ InputsInOrder /\ SubmittedOnce /\ PauseHolds

Invariant == TypeOK /\ Pointers /\ Core

-----------------------------------------------------------------------------
(***************************************************************************)
(* Types.                                                                  *)
(***************************************************************************)

\* Positions are positive.
LEMMA Positive == \A n \in Nat : \A i \in 1..n : i \in Nat /\ i # 0
OBVIOUS

\* A position is an old one or the new last one.
LEMMA Positions == \A n \in Nat : \A i \in 1..n + 1 : i \in 1..n \/ i = n + 1
OBVIOUS

\* Old positions remain.
LEMMA Wider == \A n \in Nat : 1..n \subseteq 1..n + 1
OBVIOUS

\* A sequence longer than another has a last element.
LEMMA Latest == \A m, n \in Nat : n > m => n \in 1..n
OBVIOUS

\* The domains of the queue and of the executions.
LEMMA Domains ==
    ASSUME TypeOK
    PROVE  /\ Len(inputs) \in Nat /\ DOMAIN inputs = 1..Len(inputs)
           /\ Len(execs) \in Nat /\ DOMAIN execs = 1..Len(execs)
           /\ \A n \in DOMAIN inputs : inputs[n] \in InputSet
           /\ \A e \in DOMAIN execs : execs[e] \in ExecSet
<1>1. inputs \in Seq(InputSet) /\ execs \in Seq(ExecSet)
  BY DEF TypeOK
<1>2. /\ Len(inputs) \in Nat /\ DOMAIN inputs = 1..Len(inputs)
      /\ Len(execs) \in Nat /\ DOMAIN execs = 1..Len(execs)
  BY <1>1
<1> QED BY <1>1, <1>2

\* One input is replaced.
LEMMA Replaced ==
    ASSUME TypeOK, NEW n \in DOMAIN inputs, NEW r \in InputSet,
           inputs' = [inputs EXCEPT ![n] = r]
    PROVE  /\ inputs' \in Seq(InputSet)
           /\ Len(inputs') = Len(inputs) /\ DOMAIN inputs' = DOMAIN inputs
           /\ inputs'[n] = r
           /\ \A m \in DOMAIN inputs : m # n => inputs'[m] = inputs[m]
<1>1. inputs \in Seq(InputSet) /\ n \in 1..Len(inputs) /\ DOMAIN inputs = 1..Len(inputs)
  BY Domains DEF TypeOK
<1>2. /\ inputs' \in Seq(InputSet) /\ Len(inputs') = Len(inputs)
      /\ \A j \in 1..Len(inputs) : inputs'[j] = IF j = n THEN r ELSE inputs[j]
  BY <1>1
<1>3. DOMAIN inputs' = 1..Len(inputs)
  BY <1>2
<1> QED BY <1>1, <1>2, <1>3

\* The record of an input that is dispatched, bound or settled.
LEMMA InputUpdates ==
    ASSUME TypeOK, NEW n \in DOMAIN inputs
    PROVE  /\ \E r \in InputSet :
                 /\ Dispatch(n) = [inputs EXCEPT ![n] = r]
                 /\ r.id = inputs[n].id /\ r.state = "dispatching"
                 /\ r.exec = inputs[n].exec /\ r.since = Len(execs)
           /\ \A e \in Nat : \E r \in InputSet :
                 /\ Bind(n, e) = [inputs EXCEPT ![n] = r]
                 /\ r.id = inputs[n].id /\ r.state = inputs[n].state
                 /\ r.exec = e /\ r.since = inputs[n].since
           /\ \A st \in InputStates : \E r \in InputSet :
                 /\ Settle(n, st) = [inputs EXCEPT ![n] = r]
                 /\ r.id = inputs[n].id /\ r.state = st
                 /\ r.exec = inputs[n].exec /\ r.since = inputs[n].since
<1>1. inputs[n] \in InputSet /\ Current \in Nat /\ inputs[n].rev + 1 \in Nat
  BY Domains DEF Current, InputSet
<1>2. \E r \in InputSet :
                 /\ Dispatch(n) = [inputs EXCEPT ![n] = r]
                 /\ r.id = inputs[n].id /\ r.state = "dispatching"
                 /\ r.exec = inputs[n].exec /\ r.since = Len(execs)
  <2> DEFINE r == [inputs[n] EXCEPT !.state = "dispatching", !.rev = @ + 1, !.since = Current]
  <2>1. r \in InputSet
    BY <1>1, Zenon DEF InputSet, InputStates
  <2>2. Dispatch(n) = [inputs EXCEPT ![n] = r]
    BY Zenon DEF Dispatch
  <2>3. /\ r.id = inputs[n].id /\ r.state = "dispatching"
        /\ r.exec = inputs[n].exec /\ r.since = Len(execs)
    BY <1>1 DEF InputSet, Current
  <2> QED BY <2>1, <2>2, <2>3, Zenon
<1>3. ASSUME NEW e \in Nat
      PROVE  \E r \in InputSet :
                 /\ Bind(n, e) = [inputs EXCEPT ![n] = r]
                 /\ r.id = inputs[n].id /\ r.state = inputs[n].state
                 /\ r.exec = e /\ r.since = inputs[n].since
  <2> DEFINE r == [inputs[n] EXCEPT !.exec = e, !.rev = @ + 1]
  <2>1. r \in InputSet
    BY <1>1, Zenon DEF InputSet
  <2>2. Bind(n, e) = [inputs EXCEPT ![n] = r]
    BY Zenon DEF Bind
  <2>3. /\ r.id = inputs[n].id /\ r.state = inputs[n].state
        /\ r.exec = e /\ r.since = inputs[n].since
    BY <1>1 DEF InputSet
  <2> QED BY <2>1, <2>2, <2>3, Zenon
<1>4. ASSUME NEW st \in InputStates
      PROVE  \E r \in InputSet :
                 /\ Settle(n, st) = [inputs EXCEPT ![n] = r]
                 /\ r.id = inputs[n].id /\ r.state = st
                 /\ r.exec = inputs[n].exec /\ r.since = inputs[n].since
  <2> DEFINE r == [inputs[n] EXCEPT !.state = st, !.rev = @ + 1]
  <2>1. r \in InputSet
    BY <1>1, Zenon DEF InputSet
  <2>2. Settle(n, st) = [inputs EXCEPT ![n] = r]
    BY Zenon DEF Settle
  <2>3. /\ r.id = inputs[n].id /\ r.state = st
        /\ r.exec = inputs[n].exec /\ r.since = inputs[n].since
    BY <1>1 DEF InputSet
  <2> QED BY <2>1, <2>2, <2>3, Zenon
<1> QED BY <1>2, <1>3, <1>4, Zenon

\* An input is appended to the queue.
LEMMA InputAppended ==
    ASSUME TypeOK, NEW r \in InputSet, inputs' = Append(inputs, r)
    PROVE  /\ inputs' \in Seq(InputSet)
           /\ Len(inputs') = Len(inputs) + 1 /\ DOMAIN inputs' = 1..Len(inputs) + 1
           /\ inputs'[Len(inputs) + 1] = r
           /\ \A m \in DOMAIN inputs : inputs'[m] = inputs[m]
<1>1. inputs \in Seq(InputSet) /\ DOMAIN inputs = 1..Len(inputs)
  BY Domains DEF TypeOK
<1>2. /\ inputs' \in Seq(InputSet) /\ Len(inputs') = Len(inputs) + 1
      /\ inputs'[Len(inputs) + 1] = r
      /\ \A m \in 1..Len(inputs) : inputs'[m] = inputs[m]
  BY <1>1
<1>3. DOMAIN inputs' = 1..Len(inputs')
  BY <1>2
<1> QED BY <1>1, <1>2, <1>3

\* An execution is accepted.
LEMMA ExecAppended ==
    ASSUME TypeOK, NEW c \in Ids \cup {Direct},
           execs' = Append(execs, [state |-> "live", content |-> c])
    PROVE  /\ execs' \in Seq(ExecSet)
           /\ Len(execs') = Len(execs) + 1 /\ DOMAIN execs' = 1..Len(execs) + 1
           /\ execs'[Len(execs) + 1].content = c
           /\ \A e \in DOMAIN execs : execs'[e] = execs[e]
<1> DEFINE r == [state |-> "live", content |-> c]
<1>0. r \in ExecSet /\ r.content = c
  BY DEF ExecSet, ExecStates
<1>1. execs \in Seq(ExecSet) /\ DOMAIN execs = 1..Len(execs)
  BY Domains DEF TypeOK
<1>2. /\ execs' \in Seq(ExecSet) /\ Len(execs') = Len(execs) + 1
      /\ execs'[Len(execs) + 1] = r
      /\ \A m \in 1..Len(execs) : execs'[m] = execs[m]
  BY <1>0, <1>1
<1>3. DOMAIN execs' = 1..Len(execs')
  BY <1>2
<1> QED BY <1>0, <1>1, <1>2, <1>3

\* No execution changes its content, and none that has ended its outcome.
ExecsKept ==
    /\ Len(execs') = Len(execs) /\ DOMAIN execs' = DOMAIN execs
    /\ \A e \in DOMAIN execs :
          /\ execs'[e].content = execs[e].content
          /\ execs[e].state \in TerminalStates => execs'[e].state = execs[e].state

\* An execution ends.
LEMMA ExecEnded ==
    ASSUME TypeOK, NEW e, Live(e), NEW st \in ExecStates,
           execs' = [execs EXCEPT ![e].state = st]
    PROVE  execs' \in Seq(ExecSet) /\ ExecsKept
<1> DEFINE r == [execs[e] EXCEPT !.state = st]
<1>1. /\ execs \in Seq(ExecSet) /\ DOMAIN execs = 1..Len(execs)
      /\ e \in 1..Len(execs) /\ execs[e] \in ExecSet
  BY Domains DEF TypeOK, Live
<1>2. r \in ExecSet /\ r.content = execs[e].content
  BY <1>1 DEF ExecSet
<1>3. execs' = [execs EXCEPT ![e] = r]
  OBVIOUS
<1> HIDE DEF r
<1>4. /\ execs' \in Seq(ExecSet) /\ Len(execs') = Len(execs)
      /\ \A j \in 1..Len(execs) : execs'[j] = IF j = e THEN r ELSE execs[j]
  BY <1>1, <1>2, <1>3
<1>5. DOMAIN execs' = 1..Len(execs)
  BY <1>4
<1>6. execs[e].state \notin TerminalStates
  BY DEF Live, TerminalStates
<1> QED BY <1>1, <1>2, <1>4, <1>5, <1>6 DEF ExecsKept

\* The idle values are of their types.
LEMMA Blanks ==
    /\ NoRunner \in RunnerSet /\ NoRunner.pc = "none"
    /\ [NoRunner EXCEPT !.pc = "load"] \in RunnerSet
    /\ [NoRunner EXCEPT !.pc = "load"].pc = "load"
    /\ NoSlot \in SlotSet /\ NoCancel \in CancelSet /\ NoCancel.pc = "none"
BY Zenon DEF NoRunner, RunnerSet, Pcs, NoSlot, SlotSet, NoCancel, CancelSet

-----------------------------------------------------------------------------
(***************************************************************************)
(* Steps.  All but six kinds of steps are quiet: they settle or bind an    *)
(* input or end an execution at most, and leave the runner where it is or  *)
(* take it to a place from which nothing is submitted.                     *)
(***************************************************************************)

\* Inputs keep their identifier; none becomes queued, unbound or taken.
InputsKept ==
    /\ DOMAIN inputs' = DOMAIN inputs
    /\ \A n \in DOMAIN inputs :
          /\ inputs'[n].id = inputs[n].id /\ inputs'[n].since = inputs[n].since
          /\ inputs'[n].state = "queued" => inputs'[n] = inputs[n]
          /\ Unbound(inputs'[n]) => Unbound(inputs[n])
          /\ Taken(inputs'[n]) => Taken(inputs[n])
          /\ inputs[n].state \in TerminalStates => inputs'[n].state \in TerminalStates

RunnerStays ==
    \/ runner'.pc \notin Guarded
    \/ runner' = runner /\ (runner.pc \in Guarded => inputs'[runner.at] = inputs[runner.at])

Quiet ==
    /\ InputsKept /\ ExecsKept /\ RunnerStays
    /\ paused' = paused /\ held' = held

\* An unchanged queue and unchanged executions are kept.
LEMMA Unchanged ==
    /\ inputs' = inputs => InputsKept
    /\ execs' = execs => ExecsKept
BY DEF InputsKept, ExecsKept

\* Binding or settling a dispatching input, and cancelling a queued one, keeps
\* the queue.
LEMMA UpdateKept ==
    ASSUME TypeOK, NEW n \in DOMAIN inputs, NEW r \in InputSet,
           inputs' = [inputs EXCEPT ![n] = r],
           r.id = inputs[n].id, r.since = inputs[n].since,
           \/ inputs[n].state = "dispatching" /\ r.state = "dispatching" /\ r.exec # 0
           \/ inputs[n].state = "dispatching" /\ r.state \in TerminalStates
           \/ /\ inputs[n].state = "queued" /\ r.state = "cancelled"
              /\ r.exec = inputs[n].exec
    PROVE  InputsKept /\ inputs' \in Seq(InputSet)
<1>1. /\ inputs' \in Seq(InputSet) /\ DOMAIN inputs' = DOMAIN inputs /\ inputs'[n] = r
      /\ \A m \in DOMAIN inputs : m # n => inputs'[m] = inputs[m]
  BY Replaced, Zenon
<1>2. ASSUME NEW m \in DOMAIN inputs
      PROVE  /\ inputs'[m].id = inputs[m].id /\ inputs'[m].since = inputs[m].since
             /\ inputs'[m].state = "queued" => inputs'[m] = inputs[m]
             /\ Unbound(inputs'[m]) => Unbound(inputs[m])
             /\ Taken(inputs'[m]) => Taken(inputs[m])
             /\ inputs[m].state \in TerminalStates => inputs'[m].state \in TerminalStates
  <2>1. CASE m = n
    BY <1>1, <2>1 DEF Unbound, Taken, TerminalStates
  <2>2. CASE m # n
    BY <1>1, <2>2
  <2> QED BY <2>1, <2>2
<1> QED BY <1>1, <1>2 DEF InputsKept

\* Complete keeps the queue, and changes an input only if it is dispatching.
LEMMA CompleteKept ==
    ASSUME TypeOK, NEW n \in DOMAIN inputs, NEW st \in TerminalStates,
           inputs' = Complete(n, st)
    PROVE  /\ InputsKept /\ inputs' \in Seq(InputSet)
           /\ \A m \in DOMAIN inputs : inputs'[m].exec = inputs[m].exec
<1>1. CASE inputs[n].state = "dispatching"
  <2>1. st \in InputStates
    BY DEF TerminalStates, InputStates
  <2>2. PICK r \in InputSet :
           /\ Settle(n, st) = [inputs EXCEPT ![n] = r]
           /\ r.id = inputs[n].id /\ r.state = st
           /\ r.exec = inputs[n].exec /\ r.since = inputs[n].since
    BY <2>1, InputUpdates
  <2>3. inputs' = [inputs EXCEPT ![n] = r]
    BY <1>1, <2>2 DEF Complete
  <2>4. \A m \in DOMAIN inputs : inputs'[m].exec = inputs[m].exec
    BY <2>2, <2>3, Replaced
  <2> QED BY <1>1, <2>2, <2>3, <2>4, UpdateKept, Zenon
<1>2. CASE inputs[n].state # "dispatching"
  BY <1>2, Unchanged DEF Complete, TypeOK
<1> QED BY <1>1, <1>2

\* The pointers stay right when the queue and the executions are kept.
LEMMA PointersStay ==
    ASSUME Pointers, InputsKept, ExecsKept
    PROVE  /\ (\A n \in DOMAIN inputs : inputs'[n].exec = inputs[n].exec) => InputPointers'
           /\ runner' = runner => RunnerPointers'
           /\ cancel' = cancel \/ cancel'.pc # "queued" => CancelPointer'
<1>1. /\ DOMAIN inputs' = DOMAIN inputs
      /\ \A n \in DOMAIN inputs : inputs'[n].since = inputs[n].since
      /\ DOMAIN execs' = DOMAIN execs /\ Len(execs') = Len(execs)
      /\ \A e \in DOMAIN execs :
            execs[e].state \in TerminalStates => execs'[e].state = execs[e].state
  BY DEF InputsKept, ExecsKept
<1>2. (\A n \in DOMAIN inputs : inputs'[n].exec = inputs[n].exec) => InputPointers'
  BY <1>1 DEF Pointers, InputPointers
<1>3. runner' = runner => RunnerPointers'
  BY <1>1 DEF Pointers, RunnerPointers
<1> QED BY <1>1, <1>2, <1>3 DEF Pointers, CancelPointer

\* A quiet step keeps the invariant.
LEMMA QuietCore ==
    ASSUME TypeOK, Pointers, Core, Quiet
    PROVE  Core'
<1>i. /\ DOMAIN inputs' = DOMAIN inputs
      /\ \A n \in DOMAIN inputs :
          /\ inputs'[n].id = inputs[n].id /\ inputs'[n].since = inputs[n].since
          /\ inputs'[n].state = "queued" => inputs'[n] = inputs[n]
          /\ Unbound(inputs'[n]) => Unbound(inputs[n])
          /\ Taken(inputs'[n]) => Taken(inputs[n])
          /\ inputs[n].state \in TerminalStates => inputs'[n].state \in TerminalStates
  BY DEF Quiet, InputsKept
<1>e. DOMAIN execs' = DOMAIN execs /\ \A e \in DOMAIN execs : execs'[e].content = execs[e].content
  BY DEF Quiet, ExecsKept
<1>u. \A id : Unsubmitted(id) => Unsubmitted(id)'
  BY <1>e DEF Unsubmitted
<1>1. Records'
  <2>1. \A n \in DOMAIN inputs : inputs'[n].state = "queued" =>
           inputs[n].exec = 0 /\ \A e \in DOMAIN execs : execs[e].content # inputs[n].id
    BY <1>i DEF Core, Records, Unsubmitted
  <2>2. \A e \in DOMAIN execs :
           execs[e].content = Direct \/ \E n \in DOMAIN inputs : inputs[n].id = execs[e].content
    BY DEF Core, Records, Stored
  <2>3. /\ \A m, n \in DOMAIN inputs : inputs[m].id = inputs[n].id => m = n
        /\ \A n \in DOMAIN inputs, e \in DOMAIN execs :
              Unbound(inputs[n]) /\ execs[e].content = inputs[n].id => e > inputs[n].since
    BY DEF Core, Records
  <2> QED BY <1>i, <1>e, <2>1, <2>2, <2>3 DEF Records, Stored, Unsubmitted
<1>2. Fresh'
  <2>1. CASE runner'.pc \notin Guarded
    BY <2>1 DEF Fresh
  <2>2. CASE runner' = runner /\ runner.pc \in Guarded /\ inputs'[runner.at] = inputs[runner.at]
    BY <1>u, <2>2 DEF Core, Fresh
  <2> QED BY <2>1, <2>2 DEF Quiet, RunnerStays
<1>3. Holding'
  <2>1. CASE runner'.pc \notin Guarded
    BY <2>1 DEF Quiet, Core, Holding, Guarded
  <2>2. CASE runner' = runner /\ runner.pc \in Guarded /\ inputs'[runner.at] = inputs[runner.at]
    BY <2>2 DEF Quiet, Core, Holding
  <2> QED BY <2>1, <2>2 DEF Quiet, RunnerStays
<1>4. InputsInOrder'
  <2> SUFFICES ASSUME NEW n \in DOMAIN inputs, Taken(inputs'[n]), NEW m \in 1..n - 1
               PROVE  inputs'[m].state \in TerminalStates
    BY <1>i DEF InputsInOrder
  <2>1. m \in DOMAIN inputs
    BY Domains
  <2>2. inputs[m].state \in TerminalStates
    BY <1>i DEF Core, InputsInOrder
  <2> QED BY <1>i, <2>1, <2>2
<1>5. SubmittedOnce'
  BY <1>e DEF Core, SubmittedOnce
<1>6. PauseHolds'
  BY <1>e DEF Quiet, Core, PauseHolds
<1> QED BY <1>1, <1>2, <1>3, <1>4, <1>5, <1>6 DEF Core

\* A step that changes neither the queue nor the executions keeps it when the
\* runner stays fresh.
LEMMA StillCore ==
    ASSUME Core, inputs' = inputs, execs' = execs, paused' = paused, held' = held,
           Fresh', runner'.pc \in {"reserve", "submit"} => inputs[runner'.at].id \notin held
    PROVE  Core'
<1>1. Records' /\ InputsInOrder' /\ SubmittedOnce' /\ PauseHolds'
  BY DEF Core, Records, Stored, Unsubmitted, InputsInOrder, SubmittedOnce, PauseHolds
<1>2. Holding'
  BY DEF Core, Holding
<1> QED BY <1>1, <1>2 DEF Core

\* The runner takes the first queued input.
LEMMA DispatchCore ==
    ASSUME TypeOK, Pointers, Core, NEW n \in DOMAIN inputs, NextQueued(n),
           inputs' = Dispatch(n), execs' = execs, paused' = paused, held' = held,
           runner' = [pc |-> "boundary", at |-> n, resumed |-> FALSE, exec |-> 0]
    PROVE  Core' /\ InputPointers' /\ inputs' \in Seq(InputSet) /\ DOMAIN inputs' = DOMAIN inputs
<1>1. PICK r \in InputSet :
         /\ Dispatch(n) = [inputs EXCEPT ![n] = r]
         /\ r.id = inputs[n].id /\ r.state = "dispatching"
         /\ r.exec = inputs[n].exec /\ r.since = Len(execs)
  BY InputUpdates
<1>2. /\ inputs' \in Seq(InputSet) /\ DOMAIN inputs' = DOMAIN inputs /\ inputs'[n] = r
      /\ \A m \in DOMAIN inputs : m # n => inputs'[m] = inputs[m]
  BY <1>1, Replaced, Zenon
<1>3. inputs[n].state = "queued" /\ r.exec = 0 /\ \A e \in DOMAIN execs : execs[e].content # r.id
  BY <1>1 DEF NextQueued, Core, Records, Unsubmitted
<1>l. Len(execs) \in Nat
  BY Domains
<1>4. InputPointers'
  BY <1>1, <1>2, <1>3, <1>l DEF Pointers, InputPointers
<1>5. Records'
  <2>1. /\ \A m, k \in DOMAIN inputs : inputs[m].id = inputs[k].id => m = k
        /\ \A m \in DOMAIN inputs : inputs[m].state = "queued" =>
              inputs[m].exec = 0 /\ \A e \in DOMAIN execs : execs[e].content # inputs[m].id
        /\ \A m \in DOMAIN inputs, e \in DOMAIN execs :
              Unbound(inputs[m]) /\ execs[e].content = inputs[m].id => e > inputs[m].since
        /\ \A e \in DOMAIN execs :
              execs[e].content = Direct \/ \E m \in DOMAIN inputs : inputs[m].id = execs[e].content
    BY DEF Core, Records, Stored, Unsubmitted
  <2>2. \A m \in DOMAIN inputs : inputs'[m].id = inputs[m].id
    BY <1>1, <1>2
  <2>3. \A m \in DOMAIN inputs : inputs'[m].state = "queued" => m # n
    BY <1>1, <1>2
  <2>4. \A m \in DOMAIN inputs, e \in DOMAIN execs :
           Unbound(inputs'[m]) /\ execs[e].content = inputs'[m].id => e > inputs'[m].since
    BY <1>1, <1>2, <1>3, <2>1
  <2> QED BY <1>2, <2>1, <2>2, <2>3, <2>4 DEF Records, Stored, Unsubmitted
<1>6. Fresh'
  BY <1>1, <1>2, <1>3 DEF Fresh, Unbound, Unsubmitted
<1>7. Holding'
  BY DEF Core, Holding
<1>8. InputsInOrder'
  <2> SUFFICES ASSUME NEW k \in DOMAIN inputs, Taken(inputs'[k]), NEW m \in 1..k - 1
               PROVE  inputs'[m].state \in TerminalStates
    BY <1>2 DEF InputsInOrder
  <2>1. m \in DOMAIN inputs /\ inputs[m] \in InputSet
    BY Domains
  <2>2. CASE k = n
    <3>1. m # n /\ inputs[m].state \in InputStates
      BY <2>1, <2>2, Domains DEF InputSet
    <3>2. inputs[m].state # "queued" /\ inputs[m].state # "dispatching"
      BY <2>1, <2>2 DEF NextQueued
    <3> QED BY <1>2, <2>1, <3>1, <3>2 DEF InputStates, TerminalStates
  <2>3. CASE k # n
    <3>1. inputs[m].state \in TerminalStates
      BY <1>2, <2>3 DEF Core, InputsInOrder
    <3>2. m # n
      BY <1>3, <3>1 DEF TerminalStates
    <3> QED BY <1>2, <2>1, <3>1, <3>2
  <2> QED BY <2>2, <2>3
<1>9. SubmittedOnce' /\ PauseHolds'
  BY DEF Core, SubmittedOnce, PauseHolds
<1> QED BY <1>2, <1>4, <1>5, <1>6, <1>7, <1>8, <1>9 DEF Core

\* The content of an execution that may be accepted: it is no input that is
\* queued, was submitted before or is held, and the runner that is not the one
\* which submits it has another input in hand.
LEMMA SubmitCore ==
    ASSUME TypeOK, Pointers, Core, NEW c \in Ids \cup {Direct},
           execs' = Append(execs, [state |-> "live", content |-> c]),
           inputs' = inputs, paused' = paused, held' = held,
           c = Direct \/ (Stored(c) /\ Unsubmitted(c)),
           \A n \in DOMAIN inputs : inputs[n].state = "queued" => inputs[n].id # c,
           c \notin held,
           \/ runner'.pc \notin Guarded
           \/ runner' = runner /\ (runner.pc \in Guarded => inputs[runner.at].id # c)
    PROVE  Core' /\ InputPointers' /\ execs' \in Seq(ExecSet) /\ DOMAIN execs \subseteq DOMAIN execs'
<1>1. /\ execs' \in Seq(ExecSet) /\ Len(execs) \in Nat /\ DOMAIN execs = 1..Len(execs)
      /\ Len(execs') = Len(execs) + 1 /\ DOMAIN execs' = 1..Len(execs) + 1
      /\ execs'[Len(execs) + 1].content = c
      /\ \A e \in DOMAIN execs : execs'[e] = execs[e]
  BY ExecAppended, Domains
<1>2. \A e \in DOMAIN execs' : \/ e \in DOMAIN execs /\ execs'[e].content = execs[e].content
                               \/ e = Len(execs) + 1 /\ execs'[e].content = c
  BY <1>1
<1>3. InputPointers'
  <2>1. \A n \in DOMAIN inputs : inputs[n].since \in Nat
    BY Domains DEF InputSet
  <2> QED BY <1>1, <2>1 DEF Pointers, InputPointers
<1>4. Records'
  <2>1. /\ \A m, k \in DOMAIN inputs : inputs[m].id = inputs[k].id => m = k
        /\ \A m \in DOMAIN inputs : inputs[m].state = "queued" =>
              inputs[m].exec = 0 /\ \A e \in DOMAIN execs : execs[e].content # inputs[m].id
    BY DEF Core, Records, Unsubmitted
  <2>2. \A m \in DOMAIN inputs : inputs[m].state = "queued" =>
              \A e \in DOMAIN execs' : execs'[e].content # inputs[m].id
    BY <1>2, <2>1
  <2>3. \A m \in DOMAIN inputs, e \in DOMAIN execs' :
           Unbound(inputs[m]) /\ execs'[e].content = inputs[m].id => e > inputs[m].since
    <3> SUFFICES ASSUME NEW m \in DOMAIN inputs, NEW e \in DOMAIN execs',
                        Unbound(inputs[m]), execs'[e].content = inputs[m].id
                 PROVE  e > inputs[m].since
      OBVIOUS
    <3>1. CASE e \in DOMAIN execs
      BY <1>1, <3>1 DEF Core, Records
    <3>2. CASE e = Len(execs) + 1
      <4>1. inputs[m].since \in Nat /\ inputs[m].since <= Len(execs)
        BY Domains DEF InputSet, Pointers, InputPointers
      <4> QED BY <1>1, <3>2, <4>1
    <3> QED BY <1>2, <3>1, <3>2
  <2>4. \A e \in DOMAIN execs' : execs'[e].content = Direct \/ Stored(execs'[e].content)
    BY <1>2 DEF Core, Records
  <2> QED BY <2>1, <2>2, <2>3, <2>4 DEF Records, Stored, Unsubmitted
<1>5. Fresh'
  <2>1. CASE runner'.pc \notin Guarded
    BY <2>1 DEF Fresh
  <2>2. CASE runner' = runner /\ runner.pc \in Guarded /\ inputs[runner.at].id # c
    BY <1>2, <2>2 DEF Core, Fresh, Unsubmitted
  <2> QED BY <2>1, <2>2
<1>6. Holding'
  <2>1. ~ paused' => held' = {}
    BY DEF Core, Holding
  <2> QED BY <2>1 DEF Core, Holding, Guarded
<1>7. InputsInOrder'
  BY DEF Core, InputsInOrder
<1>8. SubmittedOnce'
  BY <1>2 DEF Core, SubmittedOnce, Unsubmitted
<1>9. PauseHolds'
  BY <1>2 DEF Core, PauseHolds
<1> QED BY <1>1, <1>3, <1>4, <1>5, <1>6, <1>7, <1>8, <1>9 DEF Core

\* A new input is stored.
LEMMA EnqueueCore ==
    ASSUME TypeOK, Pointers, Core, NEW id \in Ids, ~ Stored(id), Enqueued(id),
           held' = IF paused /\ ~ Stored(id) THEN held \cup {id} ELSE held,
           execs' = execs, paused' = paused, runner' = runner, cancel' = cancel
    PROVE  Core' /\ Pointers' /\ inputs' \in Seq(InputSet)
<1> DEFINE r == [id |-> id, state |-> "queued", exec |-> 0, rev |-> 1, since |-> 0]
<1>0. /\ r \in InputSet /\ r.id = id /\ r.state = "queued" /\ r.exec = 0 /\ r.since = 0
      /\ ~ Taken(r) /\ ~ Unbound(r)
  BY DEF InputSet, InputStates, Taken, Unbound
<1>1. inputs' = Append(inputs, r)
  BY DEF Enqueued
<1> HIDE DEF r
<1>2. /\ inputs' \in Seq(InputSet) /\ Len(inputs) \in Nat /\ DOMAIN inputs = 1..Len(inputs)
      /\ DOMAIN inputs' = 1..Len(inputs) + 1 /\ inputs'[Len(inputs) + 1] = r
      /\ \A m \in DOMAIN inputs : inputs'[m] = inputs[m]
  BY <1>0, <1>1, InputAppended, Domains
<1>3. \A m \in DOMAIN inputs' : \/ m \in DOMAIN inputs /\ inputs'[m] = inputs[m]
                                \/ m = Len(inputs) + 1 /\ inputs'[m] = r
  BY <1>2
<1>4. \A m \in DOMAIN inputs : inputs[m].id # id
  BY DEF Stored
<1>5. \A e \in DOMAIN execs : execs[e].content # id
  <2>1. id # Direct
    BY GatewayAssumption DEF GatewayAssumption, Direct
  <2> QED BY <2>1 DEF Core, Records
<1>6. DOMAIN inputs \subseteq DOMAIN inputs'
  BY <1>2
<1>7. Pointers'
  <2>1. InputPointers'
    <3>1. Len(execs) \in Nat
      BY Domains
    <3> QED BY <1>0, <1>3, <3>1 DEF Pointers, InputPointers
  <2> QED BY <1>6, <2>1 DEF Pointers, RunnerPointers, CancelPointer
<1>8. Records'
  <2>1. /\ \A m, k \in DOMAIN inputs : inputs[m].id = inputs[k].id => m = k
        /\ \A m \in DOMAIN inputs : inputs[m].state = "queued" =>
              inputs[m].exec = 0 /\ \A e \in DOMAIN execs : execs[e].content # inputs[m].id
        /\ \A m \in DOMAIN inputs, e \in DOMAIN execs :
              Unbound(inputs[m]) /\ execs[e].content = inputs[m].id => e > inputs[m].since
        /\ \A e \in DOMAIN execs :
              execs[e].content = Direct \/ \E m \in DOMAIN inputs : inputs[m].id = execs[e].content
    BY Zenon DEF Core, Records, Stored, Unsubmitted
  <2>2. \A m, k \in DOMAIN inputs' : inputs'[m].id = inputs'[k].id => m = k
    BY <1>0, <1>3, <1>4, <2>1
  <2>3. \A m \in DOMAIN inputs' : inputs'[m].state = "queued" =>
              inputs'[m].exec = 0 /\ \A e \in DOMAIN execs : execs[e].content # inputs'[m].id
    BY <1>0, <1>3, <1>5, <2>1
  <2>4. \A m \in DOMAIN inputs', e \in DOMAIN execs :
              Unbound(inputs'[m]) /\ execs[e].content = inputs'[m].id => e > inputs'[m].since
    BY <1>0, <1>3, <2>1
  <2>5. \A e \in DOMAIN execs :
              execs[e].content = Direct \/ \E m \in DOMAIN inputs' : inputs'[m].id = execs[e].content
    BY <1>2, <1>6, <2>1
  <2> QED BY <2>2, <2>3, <2>4, <2>5 DEF Records, Stored, Unsubmitted
<1>f. runner.pc \in Guarded => runner.at \in DOMAIN inputs
  BY DEF Pointers, RunnerPointers, Guarded
<1>9. Fresh'
  BY <1>2, <1>f DEF Core, Fresh, Unsubmitted
<1>10. Holding'
  BY <1>2, <1>4, <1>f DEF Core, Holding, Guarded
<1>11. InputsInOrder'
  <2> SUFFICES ASSUME NEW n \in DOMAIN inputs', Taken(inputs'[n]), NEW m \in 1..n - 1
               PROVE  inputs'[m].state \in TerminalStates
    BY DEF InputsInOrder
  <2>1. n \in DOMAIN inputs /\ Taken(inputs[n])
    BY <1>0, <1>3
  <2>2. m \in DOMAIN inputs
    BY <1>2, <2>1
  <2> QED BY <1>2, <2>1, <2>2 DEF Core, InputsInOrder
<1>12. SubmittedOnce' /\ PauseHolds'
  BY <1>5 DEF Core, SubmittedOnce, PauseHolds
<1> QED BY <1>2, <1>7, <1>8, <1>9, <1>10, <1>11, <1>12 DEF Core

\* The session is paused or resumed.
LEMMA PauseCore ==
    ASSUME TypeOK, Pointers, Core, inputs' = inputs, execs' = execs,
           RunnerStays,
           \/ /\ paused' = TRUE
              /\ held' = {inputs[n].id : n \in {m \in DOMAIN inputs : inputs[m].state = "queued"}}
           \/ held' = {}
    PROVE  Core'
<1>1. Records' /\ InputsInOrder' /\ SubmittedOnce'
  BY Zenon DEF Core, Records, Stored, Unsubmitted, InputsInOrder, SubmittedOnce
<1>2. Fresh'
  BY DEF Core, Fresh, Unsubmitted, RunnerStays
<1>3. \A x \in held' : \E n \in DOMAIN inputs : inputs[n].state = "queued" /\ inputs[n].id = x
  OBVIOUS
<1>4. PauseHolds'
  BY <1>3 DEF Core, Records, Unsubmitted, PauseHolds
<1>5. Holding'
  <2>1. ~ paused' => held' = {}
    OBVIOUS
  <2>2. ASSUME runner'.pc \in {"reserve", "submit"}
        PROVE  inputs'[runner'.at].id \notin held'
    <3>1. runner' = runner /\ runner.pc \in Guarded
      BY <2>2 DEF RunnerStays, Guarded
    <3>2. runner.at \in DOMAIN inputs /\ inputs[runner.at].state = "dispatching"
      BY <3>1 DEF Core, Fresh, Unbound, Pointers, RunnerPointers, Guarded
    <3>3. \A n \in DOMAIN inputs : inputs[n].state = "queued" => inputs[n].id # inputs[runner.at].id
      BY <3>2 DEF Core, Records
    <3> QED BY <1>3, <3>1, <3>3
  <2> QED BY <2>1, <2>2 DEF Holding
<1> QED BY <1>1, <1>2, <1>4, <1>5 DEF Core

\* A step of the runner that stores nothing.
LEMMA RunnerOnly ==
    ASSUME TypeOK, Pointers, Core, inputs' = inputs, execs' = execs,
           UNCHANGED <<paused, mode, boot, gate, enqueues, cancel, held, pauses, faults>>,
           runner' \in RunnerSet, slot' \in SlotSet, RunnerPointers',
           \/ runner'.pc \notin Guarded
           \/ /\ Unbound(inputs[runner'.at])
              /\ runner'.pc # "boundary" \/ ~ runner'.resumed => Unsubmitted(inputs[runner'.at].id)
              /\ runner'.pc \in {"reserve", "submit"} => inputs[runner'.at].id \notin held
    PROVE  TypeOK' /\ Pointers' /\ Core'
<1>1. TypeOK'
  BY Zenon DEF TypeOK
<1>2. Pointers'
  BY Zenon DEF Pointers, InputPointers, CancelPointer
<1>3. Core'
  <2>1. Fresh'
    BY DEF Fresh, Unsubmitted
  <2>2. runner'.pc \in {"reserve", "submit"} => inputs[runner'.at].id \notin held
    BY DEF Guarded
  <2> QED BY <2>1, <2>2, StillCore
<1> QED BY <1>1, <1>2, <1>3

\* A step of the runner that binds or settles an input.
LEMMA RunnerStores ==
    ASSUME TypeOK, Pointers, Core, InputsKept, execs' = execs,
           UNCHANGED <<paused, mode, boot, gate, enqueues, cancel, held, pauses, faults>>,
           inputs' \in Seq(InputSet), runner' \in RunnerSet, slot' \in SlotSet,
           RunnerPointers', InputPointers', runner'.pc \notin Guarded
    PROVE  TypeOK' /\ Pointers' /\ Core'
<1>1. TypeOK'
  BY DEF TypeOK
<1>2. ExecsKept
  BY Unchanged
<1>3. Pointers'
  BY <1>2, PointersStay DEF Pointers
<1>4. Quiet
  BY <1>2 DEF Quiet, RunnerStays
<1> QED BY <1>1, <1>3, <1>4, QuietCore

\* The runner moves on.
LEMMA Goes ==
    ASSUME TypeOK, NEW pc \in Pcs, Goto(pc)
    PROVE  /\ runner' \in RunnerSet /\ runner'.pc = pc /\ runner'.at = runner.at
           /\ runner'.resumed = runner.resumed /\ runner'.exec = runner.exec
BY Zenon DEF TypeOK, RunnerSet, Goto

\* The runner moves on with an execution.
LEMMA GoesWith ==
    ASSUME TypeOK, NEW pc \in Pcs, NEW e \in Nat,
           runner' = [runner EXCEPT !.pc = pc, !.exec = e]
    PROVE  /\ runner' \in RunnerSet /\ runner'.pc = pc /\ runner'.at = runner.at
           /\ runner'.resumed = runner.resumed /\ runner'.exec = e
BY Zenon DEF TypeOK, RunnerSet

\* The runner up to the dispatch boundary.
LEMMA AcquireStep ==
    ASSUME TypeOK, Pointers, Core,
           UNCHANGED <<mode, boot, gate, enqueues, cancel, held, pauses, faults>>,
           RunnerLoad \/ RunnerLeave \/ RunnerAcquire \/ RunnerStopped
    PROVE  TypeOK' /\ Pointers' /\ Core'
<1>s. slot' = slot /\ slot \in SlotSet /\ paused' = paused /\ execs' = execs
  BY Zenon DEF TypeOK, RunnerLoad, RunnerLeave, RunnerAcquire, RunnerStopped, durable
<1>1. CASE RunnerLoad
  <2>1. runner' \in RunnerSet /\ runner'.pc \in {"leave", "acquire"}
    BY <1>1, Goes DEF RunnerLoad, Pcs
  <2>2. RunnerPointers' /\ runner'.pc \notin Guarded
    BY <2>1 DEF RunnerPointers, Guarded
  <2> QED BY Zenon, <1>1, <1>s, <2>1, <2>2, RunnerOnly DEF RunnerLoad, durable
<1>2. CASE RunnerLeave
  <2>1. RunnerPointers' /\ runner'.pc \notin Guarded
    BY <1>2, Blanks DEF RunnerLeave, RunnerPointers, Guarded
  <2> QED BY <1>2, <1>s, <2>1, Blanks, RunnerOnly DEF RunnerLeave, durable
<1>3. CASE RunnerStopped
  <2>1. runner' \in RunnerSet /\ runner'.pc = "leave"
    BY <1>3, Goes DEF RunnerStopped, Pcs
  <2>2. RunnerPointers' /\ runner'.pc \notin Guarded
    BY Zenon, <2>1 DEF RunnerPointers, Guarded
  <2> QED BY Zenon, <1>3, <1>s, <2>1, <2>2, RunnerOnly DEF RunnerStopped, durable
<1>4. CASE RunnerAcquire
  <2>1. ASSUME NEW n \in DOMAIN inputs, inputs[n].state = "dispatching",
               runner' = [pc |-> IF inputs[n].exec # 0 THEN "await" ELSE "boundary",
                          at |-> n, resumed |-> TRUE, exec |-> inputs[n].exec],
               inputs' = inputs
        PROVE  TypeOK' /\ Pointers' /\ Core'
    <3>1. n \in Nat /\ inputs[n].exec \in Nat
      BY Domains DEF InputSet
    <3>2. /\ runner' \in RunnerSet /\ runner'.at = n /\ runner'.resumed = TRUE
          /\ runner'.exec = inputs[n].exec
          /\ runner'.pc = IF inputs[n].exec # 0 THEN "await" ELSE "boundary"
      BY <2>1, <3>1 DEF RunnerSet, Pcs
    <3>3. RunnerPointers'
      BY Zenon, <1>s, <2>1, <3>2 DEF RunnerPointers, Pointers, InputPointers
    <3>4. runner'.pc \notin Guarded \/ (runner'.pc = "boundary" /\ Unbound(inputs[n]))
      BY Zenon, <2>1, <3>2 DEF Guarded, Unbound
    <3> QED BY Zenon, <1>s, <2>1, <3>2, <3>3, <3>4, RunnerOnly
  <2>2. ASSUME NEW n \in DOMAIN inputs, NextQueued(n), inputs' = Dispatch(n),
               runner' = [pc |-> "boundary", at |-> n, resumed |-> FALSE, exec |-> 0]
        PROVE  TypeOK' /\ Pointers' /\ Core'
    <3>1. Core' /\ InputPointers' /\ inputs' \in Seq(InputSet) /\ DOMAIN inputs' = DOMAIN inputs
      BY Zenon, <1>s, <2>2, DispatchCore
    <3>2. runner' \in RunnerSet /\ RunnerPointers'
      BY <2>2, <3>1, Domains DEF RunnerSet, Pcs, RunnerPointers
    <3>3. TypeOK'
      BY Zenon, <1>s, <3>1, <3>2 DEF TypeOK
    <3>4. CancelPointer'
      BY <3>1 DEF Pointers, CancelPointer
    <3> QED BY ZenonT(60), <3>1, <3>2, <3>3, <3>4 DEF Pointers
  <2>3. ASSUME runner' = NoRunner, inputs' = inputs
        PROVE  TypeOK' /\ Pointers' /\ Core'
    <3>1. RunnerPointers' /\ runner'.pc \notin Guarded
      BY <2>3, Blanks DEF RunnerPointers, Guarded
    <3> QED BY <1>s, <2>3, <3>1, Blanks, RunnerOnly
  <2> QED BY Zenon, <1>4, <2>1, <2>2, <2>3 DEF RunnerAcquire
<1> QED BY Zenon, <1>1, <1>2, <1>3, <1>4

\* The runner from the boundary to the reserved slot.
LEMMA BoundaryStep ==
    ASSUME TypeOK, Pointers, Core,
           UNCHANGED <<mode, boot, gate, enqueues, cancel, held, pauses, faults>>,
           Boundary \/ BoundarySettled \/ Recheck \/ QueueReserve
    PROVE  TypeOK' /\ Pointers' /\ Core'
<1>s. inputs' = inputs /\ paused' = paused /\ execs' = execs
  BY DEF Boundary, BoundarySettled, Recheck, QueueReserve, durable
<1>d. Len(execs) \in Nat /\ DOMAIN execs = 1..Len(execs)
  BY Domains
<1>a. runner.pc \in Guarded =>
        runner.at \in DOMAIN inputs /\ inputs[runner.at].since \in Nat /\ Unbound(inputs[runner.at])
  BY Domains DEF Core, Fresh, Pointers, RunnerPointers, Guarded, InputSet
<1>1. CASE Boundary
  <2>a. runner.at \in DOMAIN inputs /\ inputs[runner.at].since \in Nat /\ Unbound(inputs[runner.at])
    BY <1>1, <1>a DEF Boundary, Guarded
  <2>s. slot' \in SlotSet
    BY <1>1 DEF Boundary, TypeOK
  <2>1. CASE Current = 0 /\ Goto("recheck")
    <3>1. runner' \in RunnerSet /\ runner'.pc = "recheck" /\ runner'.at = runner.at
      BY <2>1, Goes DEF Pcs
    <3>2. Unsubmitted(inputs[runner.at].id)
      BY <1>d, <2>1 DEF Unsubmitted, Current
    <3>3. RunnerPointers'
      BY Zenon, <1>s, <2>a, <3>1 DEF RunnerPointers
    <3> QED BY Zenon, <1>s, <2>a, <2>s, <3>1, <3>2, <3>3, RunnerOnly
  <2>2. CASE /\ Current # 0 /\ Adopts
             /\ runner' = [runner EXCEPT !.pc = IF Live(Current) THEN "bind" ELSE "adopted",
                                         !.exec = Current]
    <3>1. /\ runner' \in RunnerSet /\ runner'.pc \in {"bind", "adopted"} /\ runner'.at = runner.at
          /\ runner'.exec = Current
      <4>1. (IF Live(Current) THEN "bind" ELSE "adopted") \in Pcs
        BY DEF Pcs
      <4> QED BY <1>d, <2>2, <4>1, GoesWith, Zenon DEF Current
    <3>2. RunnerPointers' /\ runner'.pc \notin Guarded
      BY <1>d, <1>s, <2>2, <2>a, <3>1 DEF RunnerPointers, Guarded, Current
    <3> QED BY <1>s, <2>s, <3>1, <3>2, RunnerOnly
  <2>3. CASE /\ Current # 0 /\ ~ Adopts /\ ~ Live(Current)
             /\ runner' = [runner EXCEPT !.pc = "settled", !.exec = Current]
    <3>1. runner' \in RunnerSet /\ runner'.pc = "settled" /\ runner'.at = runner.at
      BY <1>d, <2>3, GoesWith, Zenon DEF Pcs, Current
    <3>2. Unsubmitted(inputs[runner.at].id)
      <4>1. CASE ~ runner.resumed
        BY <1>1, <4>1 DEF Boundary, Core, Fresh, Guarded
      <4>2. CASE ~ (Current > inputs[runner.at].since)
        BY SMT, SMTT(30), <1>d, <2>a, <4>2 DEF Core, Records, Unsubmitted, Current
      <4> QED BY <2>3, <4>1, <4>2 DEF Adopts
    <3>3. RunnerPointers'
      BY <1>s, <2>a, <3>1 DEF RunnerPointers
    <3> QED BY <1>s, <2>a, <2>s, <3>1, <3>2, <3>3, RunnerOnly
  <2> QED BY <1>1, <2>1, <2>2, <2>3 DEF Boundary
<1>2. CASE BoundarySettled
  <2>s. slot' \in SlotSet /\ runner.at \in DOMAIN inputs
    BY Zenon, <1>2 DEF BoundarySettled, TypeOK, Pointers, RunnerPointers
  <2>1. CASE runner.pc = "settled"
    <3>1. runner' \in RunnerSet /\ runner'.pc = "recheck" /\ runner'.at = runner.at
      BY <1>2, <2>1, Goes DEF BoundarySettled, Pcs
    <3>2. Unsubmitted(inputs[runner.at].id) /\ Unbound(inputs[runner.at])
      BY <2>1 DEF Core, Fresh, Guarded
    <3>3. RunnerPointers'
      BY Zenon, <1>s, <2>s, <3>1 DEF RunnerPointers
    <3> QED BY <1>s, <2>s, <3>1, <3>2, <3>3, RunnerOnly
  <2>2. CASE runner.pc = "adopted"
    <3>1. /\ runner' \in RunnerSet /\ runner'.pc = "bind" /\ runner'.at = runner.at
          /\ runner'.exec = runner.exec
      BY <1>2, <2>2, Goes DEF BoundarySettled, Pcs
    <3>2. RunnerPointers' /\ runner'.pc \notin Guarded
      BY Zenon, <1>s, <2>s, <2>2, <3>1 DEF RunnerPointers, Pointers, Guarded
    <3> QED BY Zenon, <1>s, <2>s, <3>1, <3>2, RunnerOnly
  <2> QED BY <1>2, <2>1, <2>2 DEF BoundarySettled
<1>3. CASE Recheck
  <2>s. slot' \in SlotSet /\ runner.at \in DOMAIN inputs
    BY Zenon, <1>3 DEF Recheck, TypeOK, Pointers, RunnerPointers
  <2>1. /\ runner' \in RunnerSet /\ runner'.at = runner.at
        /\ runner'.pc = IF paused THEN "leave" ELSE "reserve"
    BY <1>3, Goes DEF Recheck, Pcs
  <2>2. RunnerPointers'
    BY Zenon, <1>s, <2>s, <2>1 DEF RunnerPointers
  <2>3. Unsubmitted(inputs[runner.at].id) /\ Unbound(inputs[runner.at])
    BY <1>3 DEF Recheck, Core, Fresh, Guarded
  <2>4. runner'.pc \notin Guarded \/ inputs[runner.at].id \notin held
    BY <2>1 DEF Guarded, Core, Holding
  <2> QED BY Zenon, <1>s, <2>s, <2>1, <2>2, <2>3, <2>4, RunnerOnly
<1>4. CASE QueueReserve
  <2>s. slot' \in SlotSet /\ runner.at \in DOMAIN inputs
    BY SMT, SMTT(30), <1>4 DEF QueueReserve, Reserve, TypeOK, SlotSet, Pointers, RunnerPointers
  <2>1. /\ runner' \in RunnerSet /\ runner'.at = runner.at
        /\ runner'.pc \in {"submit", "fail"}
    BY <1>4, Goes DEF QueueReserve, Pcs
  <2>2. RunnerPointers'
    BY Zenon, <1>s, <2>s, <2>1 DEF RunnerPointers
  <2>3. /\ Unsubmitted(inputs[runner.at].id) /\ Unbound(inputs[runner.at])
        /\ inputs[runner.at].id \notin held
    BY Zenon, <1>4 DEF QueueReserve, Core, Fresh, Holding, Guarded
  <2> QED BY Zenon, <1>s, <2>s, <2>1, <2>2, <2>3, RunnerOnly
<1> QED BY <1>1, <1>2, <1>3, <1>4

\* The runner submits its input and binds the host.
LEMMA SubmitStep ==
    ASSUME TypeOK, Pointers, Core,
           UNCHANGED <<mode, boot, gate, enqueues, cancel, held, pauses, faults>>,
           QueueSubmit \/ QueueHostBind
    PROVE  TypeOK' /\ Pointers' /\ Core'
<1>d. Len(execs) \in Nat /\ DOMAIN execs = 1..Len(execs)
  BY Domains
<1>a. runner.at \in DOMAIN inputs
  BY DEF QueueSubmit, QueueHostBind, Pointers, RunnerPointers
<1>1. CASE QueueSubmit
  <2>1. /\ Unsubmitted(inputs[runner.at].id) /\ Unbound(inputs[runner.at])
        /\ inputs[runner.at].id \notin held
    BY <1>1 DEF QueueSubmit, Core, Fresh, Holding, Guarded
  <2>2. CASE /\ SubmitPrompt(inputs[runner.at].id)
             /\ runner' = [runner EXCEPT !.pc = "hostbind", !.exec = Current + 1]
             /\ slot' = slot
    <3> DEFINE c == inputs[runner.at].id
    <3>1. /\ c \in Ids \cup {Direct} /\ Stored(c)
          /\ execs' = Append(execs, [state |-> "live", content |-> c])
      BY <1>a, <2>2, Domains DEF SubmitPrompt, Stored, InputSet
    <3>2. \A n \in DOMAIN inputs : inputs[n].state = "queued" => inputs[n].id # c
      BY Zenon, <1>a, <2>1 DEF Core, Records, Unbound
    <3>3. /\ runner' \in RunnerSet /\ runner'.pc = "hostbind" /\ runner'.at = runner.at
          /\ runner'.exec = Len(execs) + 1
      <4>1. /\ Len(execs) + 1 \in Nat /\ "hostbind" \in Pcs
            /\ runner' = [runner EXCEPT !.pc = "hostbind", !.exec = Len(execs) + 1]
        BY <1>d, <2>2 DEF Pcs, Current
      <4> QED BY <4>1, GoesWith, Zenon
    <3>4. runner'.pc \notin Guarded /\ inputs' = inputs /\ paused' = paused
      BY Zenon, <1>1, <3>3 DEF Guarded, QueueSubmit
    <3> HIDE DEF c
    <3>5. Core' /\ InputPointers' /\ execs' \in Seq(ExecSet)
      BY Zenon, <2>1, <3>1, <3>2, <3>4, SubmitCore DEF c
    <3>6. DOMAIN execs' = 1..Len(execs) + 1
      BY Zenon, <3>1, ExecAppended
    <3>7. RunnerPointers' /\ CancelPointer'
      BY SMT, SMTT(30), <1>a, <1>d, <3>3, <3>4, <3>6 DEF RunnerPointers, Pointers, CancelPointer
    <3>8. TypeOK'
      BY Zenon, <2>2, <3>3, <3>4, <3>5 DEF TypeOK
    <3> QED BY <3>5, <3>7, <3>8 DEF Pointers
  <2>3. CASE ReleaseSlot /\ Goto("fail") /\ UNCHANGED execs
    <3>1. runner' \in RunnerSet /\ runner'.pc = "fail" /\ runner'.at = runner.at
      BY Zenon, <2>3, Goes DEF Pcs
    <3>2. /\ inputs' = inputs /\ paused' = paused /\ slot' \in SlotSet
          /\ runner'.pc \notin Guarded
      BY <1>1, <2>3, <3>1, Blanks DEF QueueSubmit, ReleaseSlot, Guarded
    <3>3. RunnerPointers'
      BY ZenonT(60), <1>a, <3>1, <3>2 DEF RunnerPointers
    <3> QED BY Zenon, <2>3, <3>1, <3>2, <3>3, RunnerOnly
  <2> QED BY <1>1, <2>2, <2>3 DEF QueueSubmit
<1>2. CASE QueueHostBind
  <2>1. runner.exec \in DOMAIN execs /\ runner.exec \in Nat
    BY Zenon, <1>2 DEF QueueHostBind, Pointers, RunnerPointers, TypeOK, RunnerSet
  <2>2. /\ runner' \in RunnerSet /\ runner'.pc \in {"bind", "fail"}
        /\ runner'.at = runner.at /\ runner'.exec = runner.exec
    BY Zenon, <1>2, Goes DEF QueueHostBind, Pcs
  <2>3. slot' \in SlotSet
    BY <1>2, <2>1, Blanks DEF QueueHostBind, BindHost, ReleaseSlot, SlotSet
  <2>4. inputs' = inputs /\ execs' = execs /\ paused' = paused
    BY <1>2 DEF QueueHostBind, durable
  <2>5. RunnerPointers' /\ runner'.pc \notin Guarded
    BY <1>a, <2>1, <2>2, <2>4 DEF RunnerPointers, Guarded
  <2> QED BY Zenon, <2>2, <2>3, <2>4, <2>5, RunnerOnly
<1> QED BY <1>1, <1>2

\* The runner binds its input, waits for the execution and settles the input.
LEMMA SettleStep ==
    ASSUME TypeOK, Pointers, Core,
           UNCHANGED <<mode, boot, gate, enqueues, cancel, held, pauses, faults>>,
           BindExecution \/ Await \/ Collect \/ FailInput
    PROVE  TypeOK' /\ Pointers' /\ Core'
<1>a. runner.at \in DOMAIN inputs
  BY Zenon DEF BindExecution, Await, Collect, FailInput, Pointers, RunnerPointers
<1>s. execs' = execs /\ paused' = paused /\ slot' = slot /\ slot' \in SlotSet /\ ExecsKept
  BY Zenon, Unchanged DEF BindExecution, Await, Collect, FailInput, durable, TypeOK
<1>1. CASE BindExecution
  <2>e. runner.exec \in DOMAIN execs /\ runner.exec \in Nat /\ runner.exec # 0
    BY Zenon, <1>1, Domains, Positive DEF BindExecution, Pointers, RunnerPointers
  <2>1. CASE Bindable(runner.at)
    <3>1. inputs' = Bind(runner.at, runner.exec) /\ Goto("await")
      BY <1>1, <2>1 DEF BindExecution
    <3>2. PICK r \in InputSet :
             /\ Bind(runner.at, runner.exec) = [inputs EXCEPT ![runner.at] = r]
             /\ r.id = inputs[runner.at].id /\ r.state = inputs[runner.at].state
             /\ r.exec = runner.exec /\ r.since = inputs[runner.at].since
      BY <1>a, <2>e, InputUpdates, Zenon
    <3>3. inputs' = [inputs EXCEPT ![runner.at] = r]
      BY <3>1, <3>2
    <3>4. InputsKept /\ inputs' \in Seq(InputSet)
      BY <1>a, <2>1, <2>e, <3>2, <3>3, UpdateKept, Zenon DEF Bindable
    <3>5. /\ DOMAIN inputs' = DOMAIN inputs /\ inputs'[runner.at] = r
          /\ \A m \in DOMAIN inputs : m # runner.at => inputs'[m] = inputs[m]
      BY Zenon, <1>a, <3>3, Replaced
    <3>6. InputPointers'
      BY Zenon, <1>a, <1>s, <2>e, <3>2, <3>5 DEF Pointers, InputPointers
    <3>7. /\ runner' \in RunnerSet /\ runner'.pc = "await"
          /\ runner'.at = runner.at /\ runner'.exec = runner.exec
      BY Zenon, <3>1, Goes DEF Pcs
    <3>8. RunnerPointers' /\ runner'.pc \notin Guarded
      BY <1>a, <1>s, <2>e, <3>5, <3>7 DEF RunnerPointers, Guarded
    <3> QED BY Zenon, <1>s, <3>4, <3>6, <3>7, <3>8, RunnerStores
  <2>2. CASE ~ Bindable(runner.at)
    <3>1. inputs' = inputs /\ runner' \in RunnerSet /\ runner'.pc = "load"
      BY Zenon, <1>1, <2>2, Goes DEF BindExecution, Pcs
    <3>2. RunnerPointers' /\ runner'.pc \notin Guarded
      BY <3>1 DEF RunnerPointers, Guarded
    <3> QED BY <1>s, <3>1, <3>2, RunnerOnly, Zenon
  <2> QED BY <2>1, <2>2
<1>2. CASE Await
  <2>1. /\ runner' \in RunnerSet /\ runner'.pc = "collect" /\ runner'.at = runner.at
        /\ runner'.exec = runner.exec /\ inputs' = inputs
    BY Zenon, <1>2, Goes DEF Await, Pcs, durable
  <2>2. runner.exec \in DOMAIN execs /\ execs[runner.exec].state \in TerminalStates
    <3>1. runner.exec \in DOMAIN execs /\ execs[runner.exec].state \in ExecStates
      BY Zenon, <1>2, Domains DEF Await, Pointers, RunnerPointers, ExecSet
    <3>2. execs[runner.exec].state # "live"
      BY Zenon, <1>2, <3>1 DEF Await, Live
    <3> QED BY Zenon, <3>1, <3>2 DEF ExecStates, TerminalStates
  <2>3. RunnerPointers' /\ runner'.pc \notin Guarded
    BY Zenon, <1>a, <1>s, <2>1, <2>2 DEF RunnerPointers, Guarded
  <2> QED BY Zenon, <1>s, <2>1, <2>3, RunnerOnly
<1>3. CASE Collect \/ FailInput
  <2>1. PICK st \in TerminalStates : inputs' = Complete(runner.at, st)
    BY Zenon, <1>3 DEF Collect, FailInput, Pointers, RunnerPointers, TerminalStates
  <2>2. /\ InputsKept /\ inputs' \in Seq(InputSet)
        /\ \A m \in DOMAIN inputs : inputs'[m].exec = inputs[m].exec
    BY Zenon, <1>a, <2>1, CompleteKept
  <2>3. runner' \in RunnerSet /\ runner'.pc = "load"
    BY Zenon, <1>3, Goes DEF Collect, FailInput, Pcs
  <2>4. RunnerPointers' /\ runner'.pc \notin Guarded
    BY Zenon, <2>3 DEF RunnerPointers, Guarded
  <2>5. InputPointers'
    BY Zenon, <1>s, <2>2, PointersStay
  <2> QED BY Zenon, <1>s, <2>2, <2>3, <2>4, <2>5, RunnerStores
<1> QED BY Zenon, <1>1, <1>2, <1>3

\* Every step of the runner keeps the invariant.
LEMMA RunnerStep ==
    ASSUME Invariant, Runner
    PROVE  Invariant'
<1>1. /\ TypeOK /\ Pointers /\ Core
      /\ UNCHANGED <<mode, boot, gate, enqueues, cancel, held, pauses, faults>>
  BY DEF Invariant, Runner
<1> QED BY <1>1, AcquireStep, BoundaryStep, SubmitStep, SettleStep DEF Runner, Invariant

-----------------------------------------------------------------------------
(***************************************************************************)
(* The other actions.                                                      *)
(***************************************************************************)

\* A step that leaves the runner alone, starts it or drops it is quiet.
LEMMA AsideStep ==
    ASSUME TypeOK, Pointers, Core, InputsKept, ExecsKept,
           \A n \in DOMAIN inputs : inputs'[n].exec = inputs[n].exec,
           runner' = runner \/ runner'.pc \in {"none", "load"},
           runner.pc \in Guarded => inputs'[runner.at] = inputs[runner.at],
           cancel' = cancel \/ cancel'.pc # "queued" \/ cancel'.at \in DOMAIN inputs,
           paused' = paused, held' = held
    PROVE  Pointers' /\ Core'
<1>1. RunnerStays
  BY DEF RunnerStays, Guarded
<1>2. RunnerPointers'
  <2>1. CASE runner' = runner
    BY <2>1, PointersStay
  <2>2. CASE runner'.pc \in {"none", "load"}
    BY <2>2 DEF RunnerPointers
  <2> QED BY <2>1, <2>2
<1>3. InputPointers'
  BY Zenon, PointersStay
<1>4. CancelPointer'
  BY Zenon DEF CancelPointer, Pointers, InputsKept
<1> QED BY <1>1, <1>2, <1>3, <1>4, QuietCore DEF Quiet, Pointers

\* The same, for a step that changes no input and no execution.
LEMMA IdleStep ==
    ASSUME TypeOK, Pointers, Core, inputs' = inputs, execs' = execs,
           runner' = runner \/ runner'.pc \in {"none", "load"},
           cancel' = cancel \/ cancel'.pc # "queued" \/ cancel'.at \in DOMAIN inputs,
           paused' = paused, held' = held
    PROVE  Pointers' /\ Core'
BY Unchanged, AsideStep

\* What schedule leaves behind.
LEMMA Scheduled ==
    ASSUME TypeOK, Schedule \/ runner' = runner
    PROVE  runner' \in RunnerSet /\ (runner' = runner \/ runner'.pc \in {"none", "load"})
<1>1. CASE runner' = runner
  BY <1>1 DEF TypeOK
<1>2. CASE runner' = [NoRunner EXCEPT !.pc = "load"]
  BY <1>2, Blanks
<1> QED BY <1>1, <1>2 DEF Schedule

\* The host ends its execution, returns or is recovered.
LEMMA HostStep ==
    ASSUME Invariant, Host
    PROVE  Invariant'
<1>1. /\ TypeOK /\ Pointers /\ Core /\ inputs' = inputs
      /\ UNCHANGED <<paused, mode, boot, runner, gate, enqueues, cancel, held, pauses, faults>>
  BY DEF Invariant, Host
<1>2. slot' \in SlotSet
  BY <1>1, Blanks DEF Host, HostEnds, HostReturns, HostRecovers, BindHost, ReleaseSlot,
                      TypeOK, SlotSet
<1>3. execs' \in Seq(ExecSet) /\ ExecsKept
  <2>1. CASE HostEnds
    <3>1. PICK st \in {"succeeded", "failed"} : execs' = [execs EXCEPT ![slot.exec].state = st]
      BY <2>1, Zenon DEF HostEnds
    <3>2. Live(slot.exec) /\ st \in ExecStates
      BY <2>1 DEF HostEnds, ExecStates
    <3> QED BY <1>1, <3>1, <3>2, ExecEnded, Zenon
  <2>2. CASE execs' = execs
    BY Zenon, <1>1, <2>2, Unchanged DEF TypeOK
  <2> QED BY <2>1, <2>2 DEF Host, HostReturns, HostRecovers
<1>4. Pointers' /\ Core'
  BY Zenon, <1>1, <1>3, Unchanged, AsideStep
<1>5. TypeOK'
  BY <1>1, <1>2, <1>3 DEF TypeOK
<1> QED BY <1>4, <1>5 DEF Invariant

\* RecoverSessions.
LEMMA RecoveryStep ==
    ASSUME Invariant, Recovery
    PROVE  Invariant'
<1>1. /\ TypeOK /\ Pointers /\ Core /\ inputs' = inputs /\ execs' = execs
      /\ UNCHANGED <<paused, mode, gate, enqueues, cancel, held, pauses, faults>>
  BY Zenon DEF Invariant, Recovery, durable
<1>2. runner' \in RunnerSet /\ (runner' = runner \/ runner'.pc \in {"none", "load"})
  BY Zenon, <1>1, Scheduled
     DEF Recovery, LoadRecoveryCandidate, ReserveRecovery, RecoverQueue
<1>3. /\ slot' \in SlotSet
      /\ boot' \in [pc : {"load", "reserve", "queue", "done"}, exec : Nat]
  BY SMT, SMTT(30), <1>1, Domains DEF Recovery, LoadRecoveryCandidate, ReserveRecovery, RecoverQueue,
                       Recovered, Current, TypeOK, SlotSet
<1>4. Pointers' /\ Core'
  BY <1>1, <1>2, IdleStep
<1>5. TypeOK'
  BY <1>1, <1>2, <1>3 DEF TypeOK
<1> QED BY <1>4, <1>5 DEF Invariant

\* EnqueueInput.
LEMMA EnqueueStep ==
    ASSUME Invariant, Enqueue
    PROVE  Invariant'
<1>1. /\ TypeOK /\ Pointers /\ Core /\ execs' = execs /\ paused' = paused /\ cancel' = cancel
      /\ UNCHANGED <<mode, boot, slot, gate, pauses, faults>>
  BY DEF Invariant, Enqueue
<1>2. PICK id \in Ids : EnqueueInput(id)
  BY DEF Enqueue
<1>e. enqueues' \in [Ids -> [pc : {"none", "loaded", "stored", "answered"}, paused : BOOLEAN]]
  <2> DEFINE CallSet == [pc : {"none", "loaded", "stored", "answered"}, paused : BOOLEAN]
  <2>1. enqueues \in [Ids -> CallSet] /\ enqueues[id] \in CallSet /\ paused \in BOOLEAN
    BY <1>1 DEF TypeOK
  <2>2. Answered \in CallSet
    BY DEF Answered
  <2>3. [pc |-> "loaded", paused |-> paused] \in CallSet
    BY <2>1
  <2>4. [enqueues[id] EXCEPT !.pc = "stored"] \in CallSet
    BY <2>1
  <2>5. PICK c \in CallSet : enqueues' = [enqueues EXCEPT ![id] = c]
    BY <1>2, <2>2, <2>3, <2>4, Zenon DEF EnqueueInput
  <2> HIDE DEF CallSet
  <2>6. enqueues' \in [Ids -> CallSet]
    BY <2>1, <2>5
  <2> QED BY <2>6 DEF CallSet
<1>3. runner' \in RunnerSet /\ (runner' = runner \/ runner'.pc \in {"none", "load"})
  BY <1>1, <1>2, Scheduled DEF EnqueueInput
<1>4. CASE Enqueued(id) /\ ~ Stored(id) /\ runner' = runner
           /\ held' = IF paused /\ ~ Stored(id) THEN held \cup {id} ELSE held
  <2>1. Core' /\ Pointers' /\ inputs' \in Seq(InputSet)
    BY <1>1, <1>4, EnqueueCore
  <2>2. held' \subseteq Ids
    BY Zenon, <1>1, <1>4 DEF TypeOK
  <2>3. TypeOK'
    BY Zenon, <1>1, <1>e, <1>3, <2>1, <2>2 DEF TypeOK
  <2> QED BY <2>1, <2>3 DEF Invariant
<1>5. CASE inputs' = inputs /\ held' = held
  <2>1. Pointers' /\ Core'
    BY Zenon, <1>1, <1>3, <1>5, IdleStep
  <2>2. TypeOK'
    BY Zenon, <1>1, <1>e, <1>3, <1>5 DEF TypeOK
  <2> QED BY <2>1, <2>2 DEF Invariant
<1>6. CASE Stored(id) /\ Enqueued(id)
           /\ held' = IF paused /\ ~ Stored(id) THEN held \cup {id} ELSE held
  BY <1>5, <1>6 DEF Enqueued
<1> QED BY <1>2, <1>4, <1>5, <1>6 DEF EnqueueInput

\* The execution a cancellation ends.
LEMMA CancelledKept ==
    ASSUME TypeOK, CancelledExec
    PROVE  execs' \in Seq(ExecSet) /\ ExecsKept
<1>1. CASE Live(Current) /\ execs' = [execs EXCEPT ![Current].state = "cancelled"]
  <2>1. "cancelled" \in ExecStates
    BY DEF ExecStates
  <2> QED BY <1>1, <2>1, ExecEnded, Zenon
<1>2. CASE execs' = execs
  BY <1>2, Unchanged DEF TypeOK
<1> QED BY <1>1, <1>2 DEF CancelledExec

\* CancelInput.
LEMMA CancelStep ==
    ASSUME Invariant, CancelInput
    PROVE  Invariant'
<1>1. /\ TypeOK /\ Pointers /\ Core
      /\ UNCHANGED <<paused, mode, boot, runner, gate, enqueues, held, pauses, faults>>
  BY DEF Invariant, CancelInput
<1>r. runner' = runner /\ runner' \in RunnerSet /\ slot \in SlotSet /\ cancel \in CancelSet
  BY <1>1 DEF TypeOK
<1> DEFINE Typed == /\ inputs' \in Seq(InputSet) /\ execs' \in Seq(ExecSet)
                    /\ slot' \in SlotSet /\ cancel' \in CancelSet
<1>t. Typed => TypeOK'
  BY Zenon, <1>1, <1>r DEF TypeOK
<1>s. inputs \in Seq(InputSet) /\ execs \in Seq(ExecSet)
  BY Zenon, <1>1 DEF TypeOK
<1>2. CASE \E n \in DOMAIN inputs : CancelLoad(n)
  <2>1. PICK n \in DOMAIN inputs : CancelLoad(n)
    BY <1>2
  <2>2. inputs[n] \in InputSet /\ n \in Nat
    BY Zenon, <1>1, Domains, Positive
  <2>3. inputs' = inputs /\ execs' = execs /\ slot' = slot
    BY Zenon, <2>1 DEF CancelLoad
  <2>4. cancel' \in CancelSet /\ cancel'.at = n
    BY Zenon, <2>1, <2>2 DEF CancelLoad, CancelSet, InputSet
  <2>5. Pointers' /\ Core'
    BY Zenon, <1>1, <1>r, <2>3, <2>4, IdleStep
  <2> QED BY <1>r, <1>s, <1>t, <2>3, <2>4, <2>5 DEF Invariant
<1>3. CASE CancelQueued
  <2>1. /\ execs' = execs /\ slot' = slot /\ cancel' = NoCancel
        /\ cancel' \in CancelSet /\ cancel'.pc # "queued" /\ cancel.at \in DOMAIN inputs
    BY <1>1, <1>3, Blanks DEF CancelQueued, Pointers, CancelPointer
  <2>2. CASE inputs' = inputs
    <3>1. Pointers' /\ Core'
      BY Zenon, <1>1, <1>r, <2>1, <2>2, IdleStep
    <3> QED BY Zenon, <1>r, <1>s, <1>t, <2>1, <2>2, <3>1 DEF Invariant
  <2>3. CASE inputs[cancel.at].state = "queued" /\ inputs' = Settle(cancel.at, "cancelled")
    <3>1. "cancelled" \in InputStates
      BY DEF InputStates
    <3>2. PICK r \in InputSet :
             /\ Settle(cancel.at, "cancelled") = [inputs EXCEPT ![cancel.at] = r]
             /\ r.id = inputs[cancel.at].id /\ r.state = "cancelled"
             /\ r.exec = inputs[cancel.at].exec /\ r.since = inputs[cancel.at].since
      BY <1>1, <2>1, <3>1, InputUpdates, Zenon
    <3>3. inputs' = [inputs EXCEPT ![cancel.at] = r]
      BY <2>3, <3>2
    <3>4. InputsKept /\ inputs' \in Seq(InputSet)
      BY Zenon, <1>1, <2>1, <2>3, <3>2, <3>3, UpdateKept
    <3>5. /\ inputs'[cancel.at] = r
          /\ \A m \in DOMAIN inputs : m # cancel.at => inputs'[m] = inputs[m]
      BY Zenon, <1>1, <2>1, <3>3, Replaced
    <3>6. \A n \in DOMAIN inputs : inputs'[n].exec = inputs[n].exec
      BY Zenon, <3>2, <3>5
    <3>7. runner.pc \in Guarded => inputs'[runner.at] = inputs[runner.at]
      <4>1. runner.pc \in Guarded =>
               runner.at \in DOMAIN inputs /\ inputs[runner.at].state = "dispatching"
        BY Zenon, <1>1 DEF Core, Fresh, Unbound, Pointers, RunnerPointers, Guarded
      <4> QED BY Zenon, <2>3, <3>5, <4>1
    <3>8. Pointers' /\ Core'
      BY Zenon, <1>1, <1>r, <2>1, <3>4, <3>6, <3>7, Unchanged, AsideStep
    <3> QED BY Zenon, <1>r, <1>s, <1>t, <2>1, <3>4, <3>8 DEF Invariant
  <2> QED BY <1>3, <2>2, <2>3 DEF CancelQueued
<1>4. CASE CancelHosted \/ CancelUnhosted
  <2>1. inputs' = inputs /\ slot' \in SlotSet
    BY <1>4, <1>r, Blanks DEF CancelHosted, CancelUnhosted, ReleaseSlot
  <2>2. cancel' \in CancelSet /\ cancel'.pc # "queued"
    <3>1. CASE cancel' = NoCancel
      BY <3>1, Blanks
    <3>2. CASE cancel' = [cancel EXCEPT !.pc = "unhosted"]
      BY <1>r, <3>2 DEF CancelSet
    <3> QED BY <1>4, <3>1, <3>2 DEF CancelHosted, CancelUnhosted
  <2>3. execs' \in Seq(ExecSet) /\ ExecsKept
    BY Zenon, <1>1, <1>4, <1>s, CancelledKept, Unchanged DEF CancelHosted, CancelUnhosted
  <2>4. Pointers' /\ Core'
    BY Zenon, <1>1, <1>r, <2>1, <2>2, <2>3, Unchanged, AsideStep
  <2> QED BY <1>s, <1>t, <2>1, <2>2, <2>3, <2>4 DEF Invariant
<1> QED BY <1>2, <1>3, <1>4 DEF CancelInput

\* SubmitMessage.
LEMMA DirectStep ==
    ASSUME Invariant, DirectMessage
    PROVE  Invariant'
<1>1. /\ TypeOK /\ Pointers /\ Core /\ inputs' = inputs /\ paused' = paused
      /\ UNCHANGED <<mode, boot, runner, enqueues, cancel, held, pauses, faults>>
  BY DEF Invariant, DirectMessage
<1>n. Len(execs) \in Nat /\ DOMAIN execs = 1..Len(execs)
  BY <1>1, Domains
<1>2. slot' \in SlotSet
  BY <1>1, Blanks DEF DirectMessage, SubmitMessage, Reserve, BindHost, ReleaseSlot,
                      TypeOK, SlotSet
<1>3. gate' \in [pc : {"free", "resume", "reserve", "submit", "hostbind"}, exec : Nat]
  BY <1>1, <1>n DEF DirectMessage, SubmitMessage, NoHolder, Current, TypeOK
<1>4. CASE execs' = execs
  <2>1. Pointers' /\ Core'
    BY <1>1, <1>4, IdleStep
  <2>2. TypeOK'
    BY Zenon, <1>1, <1>2, <1>3, <1>4 DEF TypeOK
  <2> QED BY <2>1, <2>2 DEF Invariant
<1>5. CASE SubmitPrompt(Direct)
  <2>1. execs' = Append(execs, [state |-> "live", content |-> Direct])
    BY <1>5 DEF SubmitPrompt
  <2>2. \A n \in DOMAIN inputs : inputs[n].id # Direct
    BY Zenon, <1>1, Domains, GatewayAssumption DEF InputSet, Direct
  <2>3. Direct \notin held
    BY Zenon, <1>1, GatewayAssumption DEF TypeOK, Direct
  <2>4. runner.pc \in Guarded => inputs[runner.at].id # Direct
    BY Zenon, <1>1, <2>2 DEF Pointers, RunnerPointers, Guarded
  <2>5. /\ Core' /\ InputPointers' /\ execs' \in Seq(ExecSet)
        /\ DOMAIN execs \subseteq DOMAIN execs'
    <3> PICK c \in Ids \cup {Direct} : c = Direct
      OBVIOUS
    <3>1. /\ TypeOK /\ Pointers /\ Core
          /\ execs' = Append(execs, [state |-> "live", content |-> c])
          /\ inputs' = inputs /\ paused' = paused /\ held' = held
      BY <1>1, <2>1
    <3>2. \A n \in DOMAIN inputs : inputs[n].state = "queued" => inputs[n].id # c
      BY Zenon, <2>2
    <3>3. runner' = runner /\ (runner.pc \in Guarded => inputs[runner.at].id # c)
      BY Zenon, <1>1, <2>4
    <3>4. c = Direct /\ c \notin held
      BY <2>3
    <3> QED BY Zenon, <3>1, <3>2, <3>3, <3>4, SubmitCore
  <2>6. \A e \in DOMAIN execs : execs'[e] = execs[e]
    BY <1>1, <2>1, ExecAppended, Zenon
  <2>7. RunnerPointers'
    BY Zenon, <1>1, <2>5, <2>6 DEF Pointers, RunnerPointers
  <2>8. CancelPointer'
    BY Zenon, <1>1 DEF Pointers, CancelPointer
  <2>9. TypeOK'
    BY Zenon, <1>1, <1>2, <1>3, <2>5 DEF TypeOK
  <2> QED BY <2>5, <2>7, <2>8, <2>9 DEF Invariant, Pointers
<1> QED BY <1>4, <1>5 DEF DirectMessage, SubmitMessage

\* SetSessionPaused.
LEMMA PauseStep ==
    ASSUME Invariant, SetSessionPaused
    PROVE  Invariant'
<1>1. /\ TypeOK /\ Pointers /\ Core /\ inputs' = inputs /\ execs' = execs
      /\ UNCHANGED <<mode, boot, slot, enqueues, cancel, faults>>
  BY DEF Invariant, SetSessionPaused
<1>2. gate' \in [pc : {"free", "resume", "reserve", "submit", "hostbind"}, exec : Nat]
  BY <1>1 DEF SetSessionPaused, PauseSession, ResumeSession, NoHolder, TypeOK
<1>3. CASE PauseSession
  <2>1. /\ runner' = runner /\ paused' = TRUE /\ pauses' = pauses + 1 /\ pauses < MaxPauses
        /\ held' = {inputs[n].id : n \in {m \in DOMAIN inputs : inputs[m].state = "queued"}}
    BY <1>3 DEF PauseSession
  <2>2. RunnerStays
    BY <1>1, <2>1 DEF RunnerStays
  <2>3. Core'
    BY Zenon, <1>1, <2>1, <2>2, PauseCore
  <2>4. Pointers'
    BY Zenon, <1>1, <2>1, Unchanged, PointersStay DEF Pointers
  <2>5. held' \subseteq Ids
    BY Zenon, <1>1, <2>1, Domains DEF InputSet
  <2>6. pauses' \in 0..MaxPauses
    BY SMT, SMTT(30), <1>1, <2>1, GatewayAssumption DEF TypeOK
  <2>7. TypeOK'
    BY Zenon, <1>1, <1>2, <2>1, <2>5, <2>6 DEF TypeOK
  <2> QED BY <2>3, <2>4, <2>7 DEF Invariant
<1>4. CASE ResumeSession
  <2>1. CASE paused' = FALSE /\ held' = {} /\ runner' = runner /\ pauses' = pauses
    <3>1. RunnerStays
      BY <1>1, <2>1 DEF RunnerStays
    <3>2. Core'
      BY <1>1, <2>1, <3>1, PauseCore
    <3>3. Pointers'
      BY Zenon, <1>1, <2>1, Unchanged, PointersStay DEF Pointers
    <3>4. TypeOK'
      BY <1>1, <1>2, <2>1, Zenon DEF TypeOK
    <3> QED BY <3>2, <3>3, <3>4 DEF Invariant
  <2>2. CASE Schedule /\ UNCHANGED <<paused, held, pauses>>
    <3>1. runner' \in RunnerSet /\ (runner' = runner \/ runner'.pc \in {"none", "load"})
      BY <1>1, <2>2, Scheduled
    <3>2. Pointers' /\ Core'
      BY Zenon, <1>1, <2>2, <3>1, IdleStep
    <3>3. TypeOK'
      BY Zenon, <1>1, <1>2, <2>2, <3>1 DEF TypeOK
    <3> QED BY <3>2, <3>3 DEF Invariant
  <2> QED BY <1>4, <2>1, <2>2, Zenon DEF ResumeSession
<1> QED BY <1>3, <1>4 DEF SetSessionPaused

\* Shutdown, crash and restart.
LEMMA ProcessStep ==
    ASSUME Invariant, Process
    PROVE  Invariant'
<1>1. /\ TypeOK /\ Pointers /\ Core /\ inputs' = inputs /\ execs' = execs /\ paused' = paused
      /\ held' = held /\ pauses' = pauses
  BY Zenon DEF Invariant, Process, durable
<1>2. /\ mode' \in {"open", "draining", "closed", "down"}
      /\ faults' \in 0..MaxFaults
  BY <1>1, GatewayAssumption DEF Process, Drain, CloseHosts, Exit, Crash, Restart, TypeOK
<1>3. CASE ProcessEnds
  <2>1. /\ runner' \in RunnerSet /\ runner'.pc = "none" /\ slot' \in SlotSet
        /\ cancel' \in CancelSet /\ cancel'.pc # "queued"
    BY <1>3, Blanks DEF ProcessEnds
  <2>2. /\ boot' \in [pc : {"load", "reserve", "queue", "done"}, exec : Nat]
        /\ gate' \in [pc : {"free", "resume", "reserve", "submit", "hostbind"}, exec : Nat]
    BY <1>3 DEF ProcessEnds, Booting, NoHolder
  <2>3. enqueues' \in [Ids -> [pc : {"none", "loaded", "stored", "answered"}, paused : BOOLEAN]]
    BY Zenon, <1>3 DEF ProcessEnds, NoCall, Answered
  <2>4. Pointers' /\ Core'
    BY <1>1, <2>1, IdleStep
  <2>5. TypeOK'
    BY Zenon, <1>1, <1>2, <2>1, <2>2, <2>3 DEF TypeOK
  <2> QED BY <2>4, <2>5 DEF Invariant
<1>4. CASE UNCHANGED volatile
  <2>1. UNCHANGED <<boot, runner, slot, gate, enqueues, cancel>>
    BY <1>4 DEF volatile
  <2>2. Pointers' /\ Core'
    BY <1>1, <2>1, IdleStep
  <2>3. TypeOK'
    BY Zenon, <1>1, <1>2, <2>1 DEF TypeOK
  <2> QED BY <2>2, <2>3 DEF Invariant
<1> QED BY <1>3, <1>4 DEF Process, Drain, CloseHosts, Exit, Crash, Restart

-----------------------------------------------------------------------------
(***************************************************************************)
(* The theorems.                                                           *)
(***************************************************************************)

\* The gateway starts in the invariant.
LEMMA InitInvariant ==
    ASSUME Init
    PROVE  Invariant
<1>1. inputs = <<>> /\ execs = <<>> /\ held = {} /\ runner = NoRunner /\ cancel = NoCancel
  BY DEF Init
<1>2. /\ inputs \in Seq(InputSet) /\ execs \in Seq(ExecSet)
      /\ DOMAIN inputs = {} /\ DOMAIN execs = {}
  BY <1>1
<1>3. enqueues \in [Ids -> [pc : {"none", "loaded", "stored", "answered"}, paused : BOOLEAN]]
  BY DEF Init, NoCall
<1>4. /\ boot \in [pc : {"load", "reserve", "queue", "done"}, exec : Nat]
      /\ gate \in [pc : {"free", "resume", "reserve", "submit", "hostbind"}, exec : Nat]
      /\ paused \in BOOLEAN /\ mode \in {"open", "draining", "closed", "down"}
  BY Zenon DEF Init, Recovered, NoHolder
<1>5. pauses \in 0..MaxPauses /\ faults \in 0..MaxFaults
  BY GatewayAssumption DEF Init
<1>6. slot \in SlotSet
  BY Blanks DEF Init
<1>7. TypeOK
  BY <1>1, <1>2, <1>3, <1>4, <1>5, <1>6, Blanks DEF TypeOK
<1>8. Pointers
  BY <1>1, <1>2, Blanks DEF Pointers, RunnerPointers, InputPointers, CancelPointer
<1>9. Core
  BY <1>1, <1>2, Blanks DEF Core, Records, Fresh, Guarded, Holding, InputsInOrder,
                            SubmittedOnce, PauseHolds
<1> QED BY <1>7, <1>8, <1>9 DEF Invariant

\* Every step of the gateway keeps the invariant.
LEMMA NextInvariant ==
    ASSUME Invariant, [Next]_vars
    PROVE  Invariant'
<1>1. CASE UNCHANGED vars
  <2>1. /\ UNCHANGED <<inputs, execs, paused, mode, boot, runner, slot, gate, enqueues, cancel>>
        /\ UNCHANGED <<held, pauses, faults>>
    BY <1>1 DEF vars, durable, volatile
  <2>2. TypeOK /\ Pointers /\ Core
    BY DEF Invariant
  <2>3. Pointers' /\ Core'
    BY <2>1, <2>2, IdleStep
  <2>4. TypeOK'
    BY <2>1, <2>2 DEF TypeOK
  <2> QED BY <2>3, <2>4 DEF Invariant
<1> QED BY <1>1, RunnerStep, HostStep, RecoveryStep, EnqueueStep, CancelStep, DirectStep,
           PauseStep, ProcessStep DEF Next

\* The invariant holds in every behaviour of the gateway.
LEMMA Invariance == Spec => []Invariant
BY InitInvariant, NextInvariant, PTL DEF Spec

\* The records of the queue, the runner, the slot and the calls stay well formed.
THEOREM GatewayTypes == Spec => []TypeOK
<1>1. Invariant => TypeOK
  BY DEF Invariant
<1> QED BY <1>1, Invariance, PTL

\* Inputs are dispatched one at a time and in the order of their sequence
\* numbers, across pauses, cancellations, crashes and restarts (AcquireNext).
THEOREM Order == Spec => []InputsInOrder
<1>1. Invariant => InputsInOrder
  BY DEF Invariant, Core
<1> QED BY <1>1, Invariance, PTL

\* An input becomes at most one execution, although the process may die between
\* SubmitPrompt and BindExecution (waitForDispatchBoundary adopts it).
THEOREM Once == Spec => []SubmittedOnce
<1>1. Invariant => SubmittedOnce
  BY DEF Invariant, Core
<1> QED BY <1>1, Invariance, PTL

\* No input that waits when a pause is saved, or comes later, is submitted
\* before the session is resumed (the supervisor's second look at the session).
THEOREM Pauses == Spec => []PauseHolds
<1>1. Invariant => PauseHolds
  BY Zenon DEF Invariant, Core
<1> QED BY <1>1, Invariance, PTL


-----------------------------------------------------------------------------
(***************************************************************************)
(* The invariant of the results.                                           *)
(***************************************************************************)

\* No message was accepted past the queue.
QueueOnly == \A e \in DOMAIN execs : execs[e].content # Direct

\* st is what the execution of input n's content, if there is one, came to.
Outcome(n, st) ==
    /\ st = "succeeded" => \E e \in DOMAIN execs : execs[e].content = inputs[n].id
    /\ \A e \in DOMAIN execs : execs[e].content = inputs[n].id => execs[e].state = st

\* A bound input is bound to the execution of its content, the current execution
\* is the one of an unbound input that was dispatched before it, and an input
\* reports the outcome of its own.
InputOwn ==
    /\ \A n \in DOMAIN inputs : inputs[n].exec # 0 =>
          execs[inputs[n].exec].content = inputs[n].id
    /\ \A n \in DOMAIN inputs : Unbound(inputs[n]) /\ Len(execs) > inputs[n].since =>
          execs[Len(execs)].content = inputs[n].id
    /\ \A n \in DOMAIN inputs : inputs[n].state \in TerminalStates =>
          Outcome(n, inputs[n].state)

\* The runner follows the execution of its own input, and fails an input only
\* if it was not submitted; no runner outlives the process.
Attached == {"adopted", "hostbind", "bind", "await", "collect"}

RunnerOwn ==
    /\ runner.pc \in Attached => execs[runner.exec].content = inputs[runner.at].id
    /\ runner.pc = "fail" /\ mode = "open" => Unsubmitted(inputs[runner.at].id)
    /\ mode = "down" => runner.pc = "none"

Own == InputOwn /\ RunnerOwn

-----------------------------------------------------------------------------
(***************************************************************************)
(* Steps that keep the queue and the executions.                           *)
(***************************************************************************)

\* Settling, binding and ending executions keep what the inputs report, if what
\* is bound and what is reported now is right.
LEMMA InputsOwn ==
    ASSUME TypeOK, Pointers, InputOwn, InputsKept, ExecsKept,
           \A n \in DOMAIN inputs : inputs'[n].exec = inputs[n].exec \/
              /\ inputs'[n].exec \in DOMAIN execs
              /\ execs[inputs'[n].exec].content = inputs[n].id,
           \A n \in DOMAIN inputs : inputs'[n].state \in TerminalStates =>
              inputs'[n].state = inputs[n].state \/ Outcome(n, inputs'[n].state)
    PROVE  InputOwn'
<1>i. /\ DOMAIN inputs' = DOMAIN inputs
      /\ \A n \in DOMAIN inputs :
          /\ inputs'[n].id = inputs[n].id /\ inputs'[n].since = inputs[n].since
          /\ Unbound(inputs'[n]) => Unbound(inputs[n])
  BY Zenon DEF InputsKept
<1>e. /\ Len(execs') = Len(execs) /\ DOMAIN execs' = DOMAIN execs
      /\ \A e \in DOMAIN execs :
          /\ execs'[e].content = execs[e].content
          /\ execs[e].state \in TerminalStates => execs'[e].state = execs[e].state
  BY Zenon DEF ExecsKept
<1>1. ASSUME NEW n \in DOMAIN inputs, inputs'[n].exec # 0
      PROVE  execs'[inputs'[n].exec].content = inputs'[n].id
  BY ZenonT(60), <1>1, <1>i, <1>e DEF InputOwn, Pointers, InputPointers
<1>2. ASSUME NEW n \in DOMAIN inputs, Unbound(inputs'[n]), Len(execs') > inputs'[n].since
      PROVE  execs'[Len(execs')].content = inputs'[n].id
  <2>1. Len(execs) > inputs[n].since /\ Unbound(inputs[n])
    BY Zenon, <1>2, <1>i, <1>e
  <2>2. Len(execs) \in Nat /\ inputs[n].since \in Nat /\ DOMAIN execs = 1..Len(execs)
    BY Zenon, Domains DEF InputSet
  <2>3. Len(execs) \in DOMAIN execs
    BY Zenon, <2>1, <2>2, Latest
  <2>4. execs[Len(execs)].content = inputs[n].id
    BY Zenon, <2>1 DEF InputOwn
  <2> QED BY Zenon, <1>i, <1>e, <2>3, <2>4
<1>3. ASSUME NEW n \in DOMAIN inputs, inputs'[n].state \in TerminalStates
      PROVE  Outcome(n, inputs[n].state)'
  <2>1. Outcome(n, inputs'[n].state)
    BY Zenon, <1>3 DEF InputOwn
  <2> QED BY Zenon, <1>3, <1>i, <1>e, <2>1 DEF Outcome
<1> QED BY Zenon, <1>i, <1>1, <1>2, <1>3 DEF InputOwn

\* The runner stays where it is, starts or is dropped.
LEMMA RunnerStaysOwn ==
    ASSUME TypeOK, Pointers, RunnerOwn, InputsKept, ExecsKept,
           runner' = runner \/ runner'.pc \in {"none", "load"},
           mode' = "down" => runner'.pc = "none",
           mode' = "open" => mode = "open" \/ runner'.pc = "none"
    PROVE  RunnerOwn'
<1>i. /\ DOMAIN inputs' = DOMAIN inputs
      /\ \A n \in DOMAIN inputs : inputs'[n].id = inputs[n].id
      /\ DOMAIN execs' = DOMAIN execs
      /\ \A e \in DOMAIN execs : execs'[e].content = execs[e].content
  BY Zenon DEF InputsKept, ExecsKept
<1>1. CASE runner' = runner
  <2>1. runner.pc \in Attached => execs'[runner.exec].content = inputs'[runner.at].id
    BY Zenon, <1>i DEF RunnerOwn, Attached, Pointers, RunnerPointers
  <2>2. runner.pc = "fail" /\ mode = "open" =>
           \A e \in DOMAIN execs : execs'[e].content # inputs'[runner.at].id
    BY Zenon, <1>i DEF RunnerOwn, Unsubmitted, Pointers, RunnerPointers
  <2> QED BY Zenon, <1>1, <1>i, <2>1, <2>2 DEF RunnerOwn, Unsubmitted
<1>2. CASE runner'.pc \in {"none", "load"}
  BY Zenon, <1>2 DEF RunnerOwn, Attached
<1> QED BY Zenon, <1>1, <1>2

\* A step that leaves the queue alone.
LEMMA AsideOwn ==
    ASSUME Invariant, Own, inputs' = inputs, ExecsKept,
           runner' = runner \/ runner'.pc \in {"none", "load"},
           mode' = "down" => runner'.pc = "none",
           mode' = "open" => mode = "open" \/ runner'.pc = "none"
    PROVE  Own'
<1>1. TypeOK /\ Pointers /\ InputsKept /\ InputOwn /\ RunnerOwn
  BY Unchanged DEF Invariant, Own
<1>2. InputOwn'
  BY Zenon, <1>1, InputsOwn
<1>3. RunnerOwn'
  BY <1>1, RunnerStaysOwn
<1> QED BY <1>2, <1>3 DEF Own

\* A step of the runner that stores nothing.
LEMMA MovesOwn ==
    ASSUME Invariant, Own, inputs' = inputs, execs' = execs, RunnerOwn'
    PROVE  Own'
<1>1. TypeOK /\ Pointers /\ InputsKept /\ ExecsKept /\ InputOwn
  BY Unchanged DEF Invariant, Own
<1>2. InputOwn'
  BY Zenon, <1>1, InputsOwn
<1> QED BY <1>2 DEF Own

\* A runner that neither follows an execution nor fails its input.
LEMMA FreeRunner ==
    ASSUME Own, mode' = mode, runner.pc # "none",
           runner'.pc \notin Attached, runner'.pc # "fail"
    PROVE  RunnerOwn'
BY Zenon DEF Own, RunnerOwn

-----------------------------------------------------------------------------
(***************************************************************************)
(* The runner and the results.                                             *)
(***************************************************************************)

\* The runner up to the dispatch boundary.
LEMMA AcquireOwn ==
    ASSUME Invariant, Own, mode' = mode,
           RunnerLoad \/ RunnerLeave \/ RunnerAcquire \/ RunnerStopped
    PROVE  Own'
<1>t. TypeOK /\ Pointers /\ Core /\ InputOwn /\ RunnerOwn
  BY Zenon DEF Invariant, Own
<1>n. runner.pc # "none" /\ execs' = execs
  BY Zenon DEF RunnerLoad, RunnerLeave, RunnerAcquire, RunnerStopped, durable
<1>1. CASE RunnerLoad \/ RunnerLeave \/ RunnerStopped
  <2>1. inputs' = inputs /\ runner'.pc \in {"none", "leave", "acquire"}
    BY <1>1, <1>t, Goes, Blanks DEF RunnerLoad, RunnerLeave, RunnerStopped, durable, Pcs
  <2>2. RunnerOwn'
    BY Zenon, <1>n, <2>1, FreeRunner DEF Attached
  <2> QED BY <1>n, <2>1, <2>2, MovesOwn
<1>2. CASE RunnerAcquire
  <2>1. ASSUME NEW n \in DOMAIN inputs, inputs[n].state = "dispatching", inputs' = inputs,
               runner' = [pc |-> IF inputs[n].exec # 0 THEN "await" ELSE "boundary",
                          at |-> n, resumed |-> TRUE, exec |-> inputs[n].exec]
        PROVE  Own'
    <3>1. CASE inputs[n].exec # 0
      <4>1. runner'.pc = "await" /\ runner'.at = n /\ runner'.exec = inputs[n].exec
        BY Zenon, <2>1, <3>1
      <4>2. execs[runner'.exec].content = inputs[n].id
        BY Zenon, <1>t, <3>1, <4>1 DEF InputOwn
      <4>3. RunnerOwn'
        BY Zenon, <1>n, <1>t, <2>1, <4>1, <4>2 DEF RunnerOwn
      <4> QED BY Zenon, <1>n, <2>1, <4>3, MovesOwn
    <3>2. CASE inputs[n].exec = 0
      <4>1. runner'.pc = "boundary"
        BY Zenon, <2>1, <3>2
      <4>2. RunnerOwn'
        BY <1>n, <4>1, FreeRunner DEF Attached
      <4> QED BY Zenon, <1>n, <2>1, <4>2, MovesOwn
    <3> QED BY Zenon, <3>1, <3>2
  <2>2. ASSUME NEW n \in DOMAIN inputs, NextQueued(n), inputs' = Dispatch(n),
               runner' = [pc |-> "boundary", at |-> n, resumed |-> FALSE, exec |-> 0]
        PROVE  Own'
    <3>1. PICK r \in InputSet :
             /\ Dispatch(n) = [inputs EXCEPT ![n] = r]
             /\ r.id = inputs[n].id /\ r.state = "dispatching"
             /\ r.exec = inputs[n].exec /\ r.since = Len(execs)
      BY Zenon, <1>t, InputUpdates
    <3>2. /\ DOMAIN inputs' = DOMAIN inputs /\ inputs'[n] = r
          /\ \A m \in DOMAIN inputs : m # n => inputs'[m] = inputs[m]
      BY <1>t, <2>2, <3>1, Replaced, Zenon
    <3>3. r.state \notin TerminalStates /\ ~ (Len(execs) > r.since)
      BY <1>t, <3>1, Domains DEF TerminalStates
    <3>4. \A m \in DOMAIN inputs : inputs'[m].id = inputs[m].id /\ inputs'[m].exec = inputs[m].exec
      BY Zenon, <3>1, <3>2
    <3>5. ASSUME NEW m \in DOMAIN inputs
          PROVE  /\ inputs'[m].exec # 0 => execs[inputs'[m].exec].content = inputs'[m].id
                 /\ Unbound(inputs'[m]) /\ Len(execs) > inputs'[m].since =>
                       execs[Len(execs)].content = inputs'[m].id
                 /\ inputs'[m].state \in TerminalStates => Outcome(m, inputs'[m].state)
      BY Zenon, <1>t, <3>2, <3>3, <3>4 DEF InputOwn
    <3>6. InputOwn'
      <4>1. ASSUME NEW m \in DOMAIN inputs, inputs'[m].state \in TerminalStates
            PROVE  Outcome(m, inputs[m].state)'
        <5>1. Outcome(m, inputs'[m].state)
          BY Zenon, <3>5, <4>1
        <5> QED BY Zenon, <1>n, <3>4, <5>1 DEF Outcome
      <4> QED BY Zenon, <1>n, <3>2, <3>5, <4>1 DEF InputOwn
    <3>7. RunnerOwn'
      BY Zenon, <1>n, <2>2, FreeRunner DEF Attached
    <3> QED BY Zenon, <3>6, <3>7 DEF Own
  <2>3. CASE runner' = NoRunner /\ inputs' = inputs
    <3>1. RunnerOwn'
      BY <1>n, <2>3, Blanks, FreeRunner DEF Attached
    <3> QED BY <1>n, <2>3, <3>1, MovesOwn
  <2> QED BY Zenon, <1>2, <2>1, <2>2, <2>3 DEF RunnerAcquire
<1> QED BY <1>1, <1>2

\* The runner from the boundary to the reserved slot: it adopts the current
\* execution only if that is the one of its input.
LEMMA BoundaryOwn ==
    ASSUME Invariant, Own, mode' = mode,
           Boundary \/ BoundarySettled \/ Recheck \/ QueueReserve
    PROVE  Own'
<1>t. TypeOK /\ Pointers /\ Core /\ InputOwn /\ RunnerOwn
  BY DEF Invariant, Own
<1>n. runner.pc # "none" /\ inputs' = inputs /\ execs' = execs
  BY DEF Boundary, BoundarySettled, Recheck, QueueReserve, durable
<1>f. runner'.pc \notin Attached /\ runner'.pc # "fail" => Own'
  BY <1>n, FreeRunner, MovesOwn
<1>a. runner'.pc \in Attached /\ execs[runner'.exec].content = inputs[runner'.at].id => Own'
  BY Zenon, <1>n, <1>t, MovesOwn DEF RunnerOwn, Attached
<1>1. CASE Boundary
  <2>1. CASE Current = 0 /\ Goto("recheck")
    <3>1. runner'.pc = "recheck"
      BY Zenon, <1>t, <2>1, Goes DEF Pcs
    <3> QED BY <1>f, <3>1 DEF Attached
  <2>2. CASE /\ Current # 0 /\ Adopts
             /\ runner' = [runner EXCEPT !.pc = IF Live(Current) THEN "bind" ELSE "adopted",
                                         !.exec = Current]
    <3>1. runner'.pc \in Attached /\ runner'.at = runner.at /\ runner'.exec = Len(execs)
      <4>1. (IF Live(Current) THEN "bind" ELSE "adopted") \in Pcs \cap Attached
        BY DEF Pcs, Attached
      <4>2. Current \in Nat /\ Current = Len(execs)
        BY <1>t, Domains DEF Current
      <4> QED BY <1>t, <2>2, <4>1, <4>2, GoesWith, Zenon
    <3>2. /\ runner.at \in DOMAIN inputs /\ Unbound(inputs[runner.at])
          /\ Len(execs) > inputs[runner.at].since
      BY Zenon, <1>1, <1>t, <2>2 DEF Boundary, Core, Fresh, Guarded, Pointers, RunnerPointers,
                              Adopts, Current
    <3>3. execs[runner'.exec].content = inputs[runner'.at].id
      BY Zenon, <1>t, <3>1, <3>2 DEF InputOwn
    <3> QED BY Zenon, <1>a, <3>1, <3>3
  <2>3. CASE runner' = [runner EXCEPT !.pc = "settled", !.exec = Current]
    <3>1. runner'.pc = "settled"
      BY <1>t, <2>3, Domains, GoesWith, Zenon DEF Pcs, Current
    <3> QED BY <1>f, <3>1 DEF Attached
  <2> QED BY <1>1, <2>1, <2>2, <2>3 DEF Boundary
<1>2. CASE BoundarySettled
  <2>1. CASE runner.pc = "settled"
    <3>1. runner'.pc = "recheck"
      BY Zenon, <1>2, <1>t, <2>1, Goes DEF BoundarySettled, Pcs
    <3> QED BY <1>f, <3>1 DEF Attached
  <2>2. CASE runner.pc = "adopted"
    <3>1. runner'.pc = "bind" /\ runner'.at = runner.at /\ runner'.exec = runner.exec
      BY Zenon, <1>2, <1>t, <2>2, Goes DEF BoundarySettled, Pcs
    <3> QED BY Zenon, <1>a, <1>t, <2>2, <3>1 DEF RunnerOwn, Attached
  <2> QED BY Zenon, <1>2, <2>1, <2>2 DEF BoundarySettled
<1>3. CASE Recheck
  <2>1. runner'.pc \in {"leave", "reserve"}
    BY Zenon, <1>3, <1>t, Goes DEF Recheck, Pcs
  <2> QED BY <1>f, <2>1 DEF Attached
<1>4. CASE QueueReserve
  <2>1. runner'.pc \in {"submit", "fail"} /\ runner'.at = runner.at
    BY Zenon, <1>4, <1>t, Goes DEF QueueReserve, Pcs
  <2>2. Unsubmitted(inputs[runner.at].id)
    BY Zenon, <1>4, <1>t DEF QueueReserve, Core, Fresh, Guarded
  <2>3. RunnerOwn'
    BY Zenon, <1>n, <1>t, <2>1, <2>2 DEF RunnerOwn, Attached, Unsubmitted
  <2> QED BY <1>n, <2>3, MovesOwn
<1> QED BY <1>1, <1>2, <1>3, <1>4

\* Only one input is unbound.
LEMMA OneUnbound ==
    ASSUME TypeOK, InputsInOrder, NEW m \in DOMAIN inputs, NEW n \in DOMAIN inputs,
           Unbound(inputs[m]), Unbound(inputs[n])
    PROVE  m = n
<1>1. /\ inputs[m].state \notin TerminalStates /\ inputs[n].state \notin TerminalStates
      /\ Taken(inputs[m]) /\ Taken(inputs[n])
  BY Zenon DEF Unbound, Taken, TerminalStates
<1>2. m \notin 1..n - 1 /\ n \notin 1..m - 1
  BY <1>1 DEF InputsInOrder
<1>3. m \in 1..Len(inputs) /\ n \in 1..Len(inputs) /\ Len(inputs) \in Nat
  BY Domains
<1> QED BY <1>2, <1>3

\* The runner submits its input and binds the host.
LEMMA SubmitOwn ==
    ASSUME Invariant, Own, mode' = mode, QueueSubmit \/ QueueHostBind
    PROVE  Own'
<1>t. TypeOK /\ Pointers /\ Core /\ InputOwn /\ RunnerOwn
  BY DEF Invariant, Own
<1>n. runner.pc # "none" /\ inputs' = inputs
  BY DEF QueueSubmit, QueueHostBind, durable
<1>a. runner.at \in DOMAIN inputs
  BY <1>t DEF QueueSubmit, QueueHostBind, Pointers, RunnerPointers
<1>1. CASE QueueSubmit
  <2>1. Unsubmitted(inputs[runner.at].id) /\ Unbound(inputs[runner.at])
    BY <1>1, <1>t DEF QueueSubmit, Core, Fresh, Guarded
  <2>2. CASE /\ SubmitPrompt(inputs[runner.at].id)
             /\ runner' = [runner EXCEPT !.pc = "hostbind", !.exec = Current + 1]
    <3>1. PICK c \in Ids \cup {Direct} : c = inputs[runner.at].id
      BY Zenon, <1>a, <1>t, Domains DEF InputSet
    <3>2. execs' = Append(execs, [state |-> "live", content |-> c])
      BY <2>2, <3>1 DEF SubmitPrompt
    <3>3. /\ Len(execs') = Len(execs) + 1 /\ DOMAIN execs' = 1..Len(execs) + 1
          /\ execs'[Len(execs) + 1].content = c
          /\ \A e \in DOMAIN execs : execs'[e] = execs[e]
      BY <1>t, <3>2, ExecAppended, Zenon
    <3>4. Len(execs) \in Nat /\ DOMAIN execs = 1..Len(execs)
      BY <1>t, Domains
    <3>5. \A e \in DOMAIN execs' : e \in DOMAIN execs \/ e = Len(execs) + 1
      BY Zenon, <3>3, <3>4, Positions
    <3>6. ASSUME NEW n \in DOMAIN inputs, inputs[n].exec # 0
          PROVE  execs'[inputs[n].exec].content = inputs[n].id
      BY Zenon, <1>t, <3>3, <3>6 DEF InputOwn, Pointers, InputPointers
    <3>7. ASSUME NEW n \in DOMAIN inputs, Unbound(inputs[n])
          PROVE  execs'[Len(execs')].content = inputs[n].id
      <4>1. n = runner.at
        BY Zenon, <1>a, <1>t, <2>1, <3>7, OneUnbound DEF Core
      <4> QED BY <3>1, <3>3, <4>1
    <3>8. ASSUME NEW n \in DOMAIN inputs, inputs[n].state \in TerminalStates
          PROVE  Outcome(n, inputs[n].state)'
      <4>1. inputs[n].id # c
        BY Zenon, <1>a, <1>t, <2>1, <3>1, <3>8 DEF Core, Records, Unbound, TerminalStates
      <4>2. Outcome(n, inputs[n].state)
        BY Zenon, <1>t, <3>8 DEF InputOwn
      <4>3. ASSUME NEW e \in DOMAIN execs', execs'[e].content = inputs[n].id
            PROVE  execs'[e].state = inputs[n].state
        BY Zenon, <3>3, <3>5, <4>1, <4>2, <4>3 DEF Outcome
      <4>4. inputs[n].state = "succeeded" => \E e \in DOMAIN execs' : execs'[e].content = inputs[n].id
        <5>1. DOMAIN execs \subseteq DOMAIN execs'
          BY ZenonT(60), <3>3, <3>4, Wider
        <5> QED BY Zenon, <3>3, <4>2, <5>1 DEF Outcome
      <4> QED BY Zenon, <1>n, <4>3, <4>4 DEF Outcome
    <3>9. InputOwn'
      BY Zenon, <1>n, <3>6, <3>7, <3>8 DEF InputOwn
    <3>10. runner'.pc = "hostbind" /\ runner'.at = runner.at /\ runner'.exec = Len(execs) + 1
      <4>1. /\ Len(execs) + 1 \in Nat /\ "hostbind" \in Pcs
            /\ runner' = [runner EXCEPT !.pc = "hostbind", !.exec = Len(execs) + 1]
        <5>1. Len(execs) + 1 \in Nat
          BY <3>4
        <5> QED BY Zenon, <2>2, <5>1 DEF Pcs, Current
      <4> QED BY <1>t, <4>1, GoesWith, Zenon
    <3>11. RunnerOwn'
      BY Zenon, <1>n, <1>t, <3>1, <3>3, <3>10 DEF RunnerOwn
    <3> QED BY <3>9, <3>11 DEF Own
  <2>3. CASE ReleaseSlot /\ Goto("fail") /\ UNCHANGED execs
    <3>1. runner'.pc = "fail" /\ runner'.at = runner.at
      BY Zenon, <1>t, <2>3, Goes DEF Pcs
    <3>2. RunnerOwn'
      BY Zenon, <1>n, <1>t, <2>1, <2>3, <3>1 DEF RunnerOwn, Attached, Unsubmitted
    <3> QED BY <1>n, <2>3, <3>2, MovesOwn
  <2> QED BY <1>1, <2>2, <2>3 DEF QueueSubmit
<1>2. CASE QueueHostBind
  <2>1. /\ runner'.at = runner.at /\ runner'.exec = runner.exec
        /\ runner'.pc = "bind" \/ (runner'.pc = "fail" /\ ~ SupervisorUp)
    BY Zenon, <1>2, <1>t, Goes DEF QueueHostBind, Pcs
  <2>2. execs' = execs /\ execs[runner.exec].content = inputs[runner.at].id
    BY Zenon, <1>2, <1>t DEF QueueHostBind, durable, RunnerOwn, Attached
  <2>3. RunnerOwn'
    BY Zenon, <1>n, <1>t, <2>1, <2>2 DEF RunnerOwn, Attached, SupervisorUp
  <2> QED BY Zenon, <1>n, <2>2, <2>3, MovesOwn
<1> QED BY <1>1, <1>2

\* The runner binds its input, waits for the execution and settles the input.
LEMMA SettleOwn ==
    ASSUME Invariant, Own, mode' = mode, BindExecution \/ Await \/ Collect \/ FailInput
    PROVE  Own'
<1>t. TypeOK /\ Pointers /\ Core /\ InputOwn /\ RunnerOwn
  BY DEF Invariant, Own
<1>n. runner.pc # "none" /\ execs' = execs /\ ExecsKept
  BY Zenon, Unchanged DEF BindExecution, Await, Collect, FailInput, durable
<1>a. runner.at \in DOMAIN inputs
  BY Zenon, <1>t DEF BindExecution, Await, Collect, FailInput, Pointers, RunnerPointers
<1>f. runner'.pc = "load" => RunnerOwn'
  BY <1>n, FreeRunner DEF Attached
<1>1. CASE BindExecution
  <2>e. /\ runner.exec \in DOMAIN execs /\ runner.exec \in Nat /\ runner.exec # 0
        /\ execs[runner.exec].content = inputs[runner.at].id
    <3>1. runner.pc = "bind"
      BY Zenon, <1>1 DEF BindExecution
    <3>2. runner.exec \in DOMAIN execs
      BY Zenon, <1>t, <3>1 DEF Pointers, RunnerPointers
    <3>3. execs[runner.exec].content = inputs[runner.at].id
      BY Zenon, <1>t, <3>1 DEF RunnerOwn, Attached
    <3> QED BY Zenon, <1>t, <3>2, <3>3, Domains, Positive
  <2>1. CASE Bindable(runner.at)
    <3>1. inputs' = Bind(runner.at, runner.exec) /\ Goto("await")
      BY <1>1, <2>1 DEF BindExecution
    <3>2. PICK r \in InputSet :
             /\ Bind(runner.at, runner.exec) = [inputs EXCEPT ![runner.at] = r]
             /\ r.id = inputs[runner.at].id /\ r.state = inputs[runner.at].state
             /\ r.exec = runner.exec /\ r.since = inputs[runner.at].since
      BY <1>a, <1>t, <2>e, InputUpdates, Zenon
    <3>3. inputs' = [inputs EXCEPT ![runner.at] = r]
      BY Zenon, <3>1, <3>2
    <3>4. InputsKept
      BY <1>a, <1>t, <2>1, <2>e, <3>2, <3>3, UpdateKept, Zenon DEF Bindable
    <3>5. /\ inputs'[runner.at] = r
          /\ \A m \in DOMAIN inputs : m # runner.at => inputs'[m] = inputs[m]
      BY Zenon, <1>a, <1>t, <3>3, Replaced
    <3>6. \A n \in DOMAIN inputs :
             /\ inputs'[n].state = inputs[n].state
             /\ inputs'[n].exec = inputs[n].exec \/
                   /\ inputs'[n].exec \in DOMAIN execs
                   /\ execs[inputs'[n].exec].content = inputs[n].id
      BY Zenon, <2>e, <3>2, <3>5
    <3>7. InputOwn'
      BY Zenon, <1>n, <1>t, <3>4, <3>6, InputsOwn
    <3>8. runner'.pc = "await" /\ runner'.at = runner.at /\ runner'.exec = runner.exec
      BY Zenon, <1>t, <3>1, Goes DEF Pcs
    <3>9. inputs'[runner.at].id = inputs[runner.at].id
      BY Zenon, <3>2, <3>5
    <3>10. RunnerOwn'
      BY Zenon, <1>n, <1>t, <2>e, <3>8, <3>9 DEF RunnerOwn
    <3> QED BY <3>7, <3>10 DEF Own
  <2>2. CASE ~ Bindable(runner.at)
    <3>1. inputs' = inputs /\ runner'.pc = "load"
      BY Zenon, <1>1, <1>t, <2>2, Goes DEF BindExecution, Pcs
    <3> QED BY Zenon, <1>f, <1>n, <3>1, MovesOwn
  <2> QED BY Zenon, <2>1, <2>2
<1>2. CASE Await
  <2>1. /\ runner'.pc = "collect" /\ runner'.at = runner.at
        /\ runner'.exec = runner.exec /\ inputs' = inputs
    BY Zenon, <1>2, <1>t, Goes DEF Await, Pcs, durable
  <2>2. RunnerOwn'
    BY Zenon, <1>2, <1>n, <1>t, <2>1 DEF Await, RunnerOwn, Attached
  <2> QED BY Zenon, <1>n, <2>1, <2>2, MovesOwn
<1>3. CASE Collect \/ FailInput
  <2>1. PICK st \in TerminalStates : inputs' = Complete(runner.at, st) /\ Outcome(runner.at, st)
    <3>1. CASE Collect
      <4>1. /\ runner.exec \in DOMAIN execs /\ execs[runner.exec].state \in TerminalStates
            /\ execs[runner.exec].content = inputs[runner.at].id
            /\ inputs' = Complete(runner.at, execs[runner.exec].state)
        BY Zenon, <1>t, <3>1 DEF Collect, Pointers, RunnerPointers, RunnerOwn, Attached
      <4>2. inputs[runner.at].id # Direct
        BY ZenonT(60), <1>a, <1>t, Domains, GatewayAssumption DEF InputSet, Direct
      <4>3. \A e \in DOMAIN execs : execs[e].content = inputs[runner.at].id => e = runner.exec
        BY Zenon, <1>t, <4>1, <4>2 DEF Core, SubmittedOnce
      <4>4. Outcome(runner.at, execs[runner.exec].state)
        BY Zenon, <4>1, <4>3 DEF Outcome
      <4> QED BY Zenon, <4>1, <4>4
    <3>2. CASE FailInput
      <4>1. Unsubmitted(inputs[runner.at].id) /\ inputs' = Complete(runner.at, "failed")
        BY Zenon, <1>t, <3>2 DEF FailInput, RunnerOwn, SupervisorUp
      <4>2. Outcome(runner.at, "failed") /\ "failed" \in TerminalStates
        BY Zenon, <4>1 DEF Outcome, Unsubmitted, TerminalStates
      <4> QED BY Zenon, <4>1, <4>2
    <3> QED BY <1>3, <3>1, <3>2
  <2>2. InputsKept /\ \A m \in DOMAIN inputs : inputs'[m].exec = inputs[m].exec
    BY Zenon, <1>a, <1>t, <2>1, CompleteKept
  <2>3. \A m \in DOMAIN inputs : inputs'[m].state = inputs[m].state \/ Outcome(m, inputs'[m].state)
    <3>1. CASE inputs[runner.at].state = "dispatching"
      <4>1. st \in InputStates /\ inputs' = Settle(runner.at, st)
        BY Zenon, <2>1, <3>1 DEF Complete, TerminalStates, InputStates
      <4>2. PICK r \in InputSet :
               /\ Settle(runner.at, st) = [inputs EXCEPT ![runner.at] = r]
               /\ r.id = inputs[runner.at].id /\ r.state = st
               /\ r.exec = inputs[runner.at].exec /\ r.since = inputs[runner.at].since
        BY <1>a, <1>t, <4>1, InputUpdates, Zenon
      <4>3. /\ inputs'[runner.at] = r
            /\ \A m \in DOMAIN inputs : m # runner.at => inputs'[m] = inputs[m]
        BY Zenon, <1>a, <1>t, <4>1, <4>2, Replaced
      <4> QED BY Zenon, <2>1, <4>2, <4>3
    <3>2. CASE inputs[runner.at].state # "dispatching"
      BY Zenon, <2>1, <3>2 DEF Complete
    <3> QED BY Zenon, <3>1, <3>2
  <2>4. InputOwn'
    BY Zenon, <1>n, <1>t, <2>2, <2>3, InputsOwn
  <2>5. runner'.pc = "load"
    BY Zenon, <1>3, <1>t, Goes DEF Collect, FailInput, Pcs
  <2> QED BY <1>f, <2>4, <2>5 DEF Own
<1> QED BY Zenon, <1>1, <1>2, <1>3

\* Every step of the runner keeps the results right.
LEMMA RunnersOwn ==
    ASSUME Invariant, Own, Runner
    PROVE  Own'
<1>1. mode' = mode
  BY DEF Runner
<1> QED BY <1>1, AcquireOwn, BoundaryOwn, SubmitOwn, SettleOwn DEF Runner

-----------------------------------------------------------------------------
(***************************************************************************)
(* The other actions and the results.                                      *)
(***************************************************************************)

\* EnqueueInput.
LEMMA EnqueueOwn ==
    ASSUME Invariant, Own, Enqueue
    PROVE  Own'
<1>t. TypeOK /\ Pointers /\ InputOwn /\ RunnerOwn
  BY DEF Invariant, Own
<1>1. execs' = execs /\ ExecsKept /\ mode' = mode /\ mode # "down"
  BY Unchanged DEF Enqueue
<1>2. PICK id \in Ids : EnqueueInput(id)
  BY DEF Enqueue
<1>3. CASE inputs' = inputs
  <2>1. runner' = runner \/ runner'.pc \in {"none", "load"}
    BY <1>2, <1>t, Scheduled DEF EnqueueInput
  <2> QED BY <1>1, <1>3, <2>1, AsideOwn
<1>4. CASE Enqueued(id) /\ ~ Stored(id) /\ runner' = runner
  <2>1. PICK r \in InputSet : /\ inputs' = Append(inputs, r)
                              /\ r.state = "queued" /\ r.exec = 0
    <3> DEFINE s == [id |-> id, state |-> "queued", exec |-> 0, rev |-> 1, since |-> 0]
    <3>1. s \in InputSet /\ s.state = "queued" /\ s.exec = 0
      BY Zenon DEF InputSet, InputStates
    <3>2. inputs' = Append(inputs, s)
      BY <1>4 DEF Enqueued
    <3> QED BY <3>1, <3>2
  <2>2. /\ DOMAIN inputs' = 1..Len(inputs) + 1 /\ inputs'[Len(inputs) + 1] = r
        /\ \A m \in DOMAIN inputs : inputs'[m] = inputs[m]
    BY Zenon, <1>t, <2>1, InputAppended
  <2>3. \A m \in DOMAIN inputs' : m \in DOMAIN inputs \/ inputs'[m] = r
    BY Zenon, <1>t, <2>2, Domains, Positions
  <2>4. ASSUME NEW m \in DOMAIN inputs'
        PROVE  /\ inputs'[m].exec # 0 => execs'[inputs'[m].exec].content = inputs'[m].id
               /\ Unbound(inputs'[m]) /\ Len(execs') > inputs'[m].since =>
                     execs'[Len(execs')].content = inputs'[m].id
               /\ inputs'[m].state \in TerminalStates => Outcome(m, inputs[m].state)'
    <3>1. CASE m \in DOMAIN inputs
      BY ZenonT(60), <1>1, <1>t, <2>2, <3>1 DEF InputOwn, Outcome
    <3>2. CASE inputs'[m] = r
      BY Zenon, <2>1, <3>2 DEF Unbound, TerminalStates
    <3> QED BY Zenon, <2>3, <3>1, <3>2
  <2>5. InputOwn'
    BY Zenon, <2>4 DEF InputOwn
  <2>6. RunnerOwn'
    BY Zenon, <1>1, <1>4, <1>t, <2>2 DEF RunnerOwn, Attached, Unsubmitted, Pointers, RunnerPointers
  <2> QED BY <2>5, <2>6 DEF Own
<1> QED BY <1>2, <1>3, <1>4 DEF EnqueueInput, Enqueued

\* CancelInput: a cancelled queued input has no execution.
LEMMA CancelOwn ==
    ASSUME Invariant, Own, CancelInput
    PROVE  Own'
<1>t. TypeOK /\ Pointers /\ Core /\ InputOwn /\ RunnerOwn
  BY DEF Invariant, Own
<1>1. runner' = runner /\ mode' = mode /\ mode # "down"
  BY DEF CancelInput
<1>2. ExecsKept
  BY <1>t, Unchanged, CancelledKept DEF CancelInput, CancelLoad, CancelQueued, CancelHosted,
                                        CancelUnhosted
<1>3. CASE inputs' = inputs
  BY <1>1, <1>2, <1>3, AsideOwn
<1>4. CASE /\ cancel.pc = "queued" /\ inputs[cancel.at].state = "queued"
           /\ inputs' = Settle(cancel.at, "cancelled")
  <2>1. cancel.at \in DOMAIN inputs /\ "cancelled" \in InputStates
    BY <1>4, <1>t DEF Pointers, CancelPointer, InputStates
  <2>2. PICK r \in InputSet :
           /\ Settle(cancel.at, "cancelled") = [inputs EXCEPT ![cancel.at] = r]
           /\ r.id = inputs[cancel.at].id /\ r.state = "cancelled"
           /\ r.exec = inputs[cancel.at].exec /\ r.since = inputs[cancel.at].since
    BY <1>t, <2>1, InputUpdates, Zenon
  <2>3. inputs' = [inputs EXCEPT ![cancel.at] = r]
    BY <1>4, <2>2
  <2>4. InputsKept
    BY <1>4, <1>t, <2>1, <2>2, <2>3, UpdateKept
  <2>5. /\ inputs'[cancel.at] = r
        /\ \A m \in DOMAIN inputs : m # cancel.at => inputs'[m] = inputs[m]
    BY Zenon, <1>t, <2>1, <2>3, Replaced
  <2>6. Outcome(cancel.at, "cancelled")
    BY Zenon, <1>4, <1>t, <2>1 DEF Core, Records, Unsubmitted, Outcome
  <2>7. \A n \in DOMAIN inputs :
           /\ inputs'[n].exec = inputs[n].exec
           /\ inputs'[n].state = inputs[n].state \/ Outcome(n, inputs'[n].state)
    BY Zenon, <2>2, <2>5, <2>6
  <2>8. InputOwn'
    BY Zenon, <1>2, <1>t, <2>4, <2>7, InputsOwn
  <2>9. RunnerOwn'
    BY <1>1, <1>2, <1>t, <2>4, RunnerStaysOwn
  <2> QED BY <2>8, <2>9 DEF Own
<1> QED BY <1>3, <1>4 DEF CancelInput, CancelLoad, CancelQueued, CancelHosted, CancelUnhosted

\* The host ends at most its execution.
LEMMA HostExecs ==
    ASSUME TypeOK, Host
    PROVE  ExecsKept
<1>1. CASE HostEnds
  <2>1. PICK st \in {"succeeded", "failed"} : execs' = [execs EXCEPT ![slot.exec].state = st]
    BY <1>1, Zenon DEF HostEnds
  <2>2. Live(slot.exec) /\ st \in ExecStates
    BY <1>1 DEF HostEnds, ExecStates
  <2> QED BY <2>1, <2>2, ExecEnded, Zenon
<1>2. CASE execs' = execs
  BY <1>2, Unchanged
<1> QED BY <1>1, <1>2 DEF Host, HostReturns, HostRecovers

\* The steps that leave the queue alone.
LEMMA OthersOwn ==
    ASSUME Invariant, Own,
           Host \/ Recovery \/ (DirectMessage /\ execs' = execs) \/ SetSessionPaused \/ Process
    PROVE  Own'
<1>t. TypeOK /\ inputs' = inputs
  BY Zenon DEF Invariant, Host, Recovery, DirectMessage, SetSessionPaused, Process, durable
<1>1. ExecsKept
  BY <1>t, HostExecs, Unchanged DEF Recovery, SetSessionPaused, Process, durable
<1>2. CASE Process
  <2>1. CASE ProcessEnds /\ mode' = "down"
    <3>1. runner'.pc = "none"
      BY <2>1, Blanks DEF ProcessEnds
    <3> QED BY <1>1, <1>t, <2>1, <3>1, AsideOwn
  <2>2. CASE UNCHANGED volatile /\ (mode' = "open" => mode = "down") /\ mode' # "down"
    <3>1. runner' = runner /\ (mode = "down" => runner.pc = "none")
      BY Zenon, <2>2 DEF volatile, Own, RunnerOwn
    <3> QED BY <1>1, <1>t, <2>2, <3>1, AsideOwn
  <2> QED BY Zenon, <1>2, <2>1, <2>2 DEF Process, Drain, CloseHosts, Exit, Crash, Restart
<1>3. CASE Host \/ Recovery \/ DirectMessage \/ SetSessionPaused
  <2>1. mode' = mode
    BY Zenon, <1>3 DEF Host, Recovery, DirectMessage, SetSessionPaused
  <2>2. runner' = runner \/ Schedule
    BY Zenon, <1>3 DEF Host, Recovery, LoadRecoveryCandidate, ReserveRecovery, RecoverQueue,
                DirectMessage, SetSessionPaused, PauseSession, ResumeSession
  <2>3. /\ runner' = runner \/ runner'.pc \in {"none", "load"}
        /\ mode = "down" => runner' = runner
    BY <1>t, <2>2, Scheduled DEF Schedule, SupervisorUp
  <2> QED BY Zenon, <1>1, <1>t, <2>1, <2>3, AsideOwn DEF Own, RunnerOwn
<1> QED BY <1>2, <1>3

\* Executions are accepted and never forgotten.
LEMMA ExecsStep ==
    ASSUME Invariant, [Next]_vars
    PROVE  ExecsKept \/ \E c \in Ids \cup {Direct} : SubmitPrompt(c)
<1>t. TypeOK /\ Pointers
  BY Zenon DEF Invariant
<1>1. CASE Runner
  <2>1. CASE runner.pc = "submit" /\ SubmitPrompt(inputs[runner.at].id)
    <3>1. inputs[runner.at].id \in Ids
      BY Zenon, <1>t, <2>1, Domains DEF Pointers, RunnerPointers, InputSet
    <3> QED BY Zenon, <2>1, <3>1
  <2>2. CASE execs' = execs
    BY <2>2, Unchanged
  <2> QED BY <1>1, <2>1, <2>2
          DEF Runner, RunnerLoad, RunnerLeave, RunnerAcquire, Boundary, BoundarySettled,
              Recheck, QueueReserve, QueueSubmit, QueueHostBind, BindExecution,
              Await, Collect, FailInput, RunnerStopped, durable
<1>2. CASE CancelInput
  BY <1>2, <1>t, Unchanged, CancelledKept
     DEF CancelInput, CancelLoad, CancelQueued, CancelHosted, CancelUnhosted
<1>3. CASE DirectMessage
  <2>1. execs' = execs \/ SubmitPrompt(Direct)
    BY <1>3 DEF DirectMessage, SubmitMessage
  <2> QED BY <2>1, Unchanged
<1>4. CASE Recovery \/ Enqueue \/ SetSessionPaused \/ Process \/ UNCHANGED vars
  <2>1. execs' = execs
    BY Zenon, <1>4 DEF Recovery, Enqueue, SetSessionPaused, Process, vars, durable
  <2> QED BY <2>1, Unchanged
<1> QED BY <1>t, <1>1, <1>2, <1>3, <1>4, HostExecs DEF Next

-----------------------------------------------------------------------------
(***************************************************************************)
(* The theorem about the results.                                          *)
(***************************************************************************)

\* As long as nothing is accepted past the queue, the results stay right.
LEMMA OwnStep ==
    ASSUME Invariant, [Next]_vars, QueueOnly => Own, QueueOnly'
    PROVE  Own'
<1>t. TypeOK
  BY DEF Invariant
<1>1. QueueOnly /\ ~ SubmitPrompt(Direct)
  <2>1. CASE ExecsKept
    <3>1. QueueOnly
      BY <2>1 DEF QueueOnly, ExecsKept
    <3>2. Len(execs') = Len(execs) /\ Len(execs) \in Nat
      BY <1>t, <2>1, Domains DEF ExecsKept
    <3>3. SubmitPrompt(Direct) => Len(execs') = Len(execs) + 1
      BY <1>t, ExecAppended, Zenon DEF SubmitPrompt
    <3> QED BY <3>1, <3>2, <3>3
  <2>2. ASSUME NEW c \in Ids \cup {Direct}, SubmitPrompt(c)
        PROVE  QueueOnly /\ ~ SubmitPrompt(Direct)
    <3>1. ASSUME NEW d \in Ids \cup {Direct}, SubmitPrompt(d)
          PROVE  QueueOnly /\ d # Direct
      <4>1. /\ DOMAIN execs' = 1..Len(execs) + 1 /\ execs'[Len(execs) + 1].content = d
            /\ \A e \in DOMAIN execs : execs'[e] = execs[e]
        BY <1>t, <3>1, ExecAppended, Zenon DEF SubmitPrompt
      <4>2. Len(execs) \in Nat /\ DOMAIN execs = 1..Len(execs)
        BY Zenon, <1>t, Domains
      <4>3. Len(execs) + 1 \in DOMAIN execs' /\ DOMAIN execs \subseteq DOMAIN execs'
        BY SMT, SMTT(30), <4>1, <4>2
      <4> QED BY Zenon, <4>1, <4>3 DEF QueueOnly
    <3> QED BY <2>2, <3>1
  <2> QED BY <2>1, <2>2, ExecsStep
<1>2. Own
  BY Zenon, <1>1
<1>3. CASE UNCHANGED vars
  <2>1. inputs' = inputs /\ execs' = execs /\ runner' = runner /\ mode' = mode
    BY <1>3 DEF vars, durable, volatile
  <2> QED BY Zenon, <1>2, <2>1, Unchanged, AsideOwn DEF Own, RunnerOwn
<1>4. CASE DirectMessage
  <2>1. execs' = execs
    BY <1>1, <1>4 DEF DirectMessage, SubmitMessage
  <2> QED BY <1>2, <1>4, <2>1, OthersOwn
<1> QED BY <1>2, <1>3, <1>4, RunnersOwn, EnqueueOwn, CancelOwn, OthersOwn DEF Next

\* As long as no message was accepted past the queue, what an input reports is
\* the outcome of the execution of its own content, although a runner that was
\* stopped or died may adopt the current execution as the one of its input
\* (waitForDispatchBoundary, awaitAndComplete).
THEOREM Results == Spec => [](QueueOnly => ResultIsOwn)
<1> DEFINE Inv == Invariant /\ (QueueOnly => Own)
<1>1. Init => Inv
  <2> SUFFICES ASSUME Init PROVE Inv
    OBVIOUS
  <2>0. inputs = <<>> /\ runner.pc = "none" /\ mode = "open"
    BY Zenon, Blanks DEF Init
  <2>1. DOMAIN inputs = {} /\ runner.pc = "none" /\ mode = "open"
    BY <2>0
  <2>2. Own
    BY Zenon, <2>1 DEF Own, InputOwn, RunnerOwn, Attached
  <2> QED BY <2>2, InitInvariant
<1>2. Inv /\ [Next]_vars => Inv'
  BY Zenon, NextInvariant, OwnStep
<1>3. Inv => (QueueOnly => ResultIsOwn)
  BY Zenon DEF Own, InputOwn, Outcome, ResultIsOwn
<1> QED BY <1>1, <1>2, <1>3, PTL DEF Spec
=============================================================================
