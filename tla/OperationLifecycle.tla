-------------------------- MODULE OperationLifecycle --------------------------
(***************************************************************************)
(* What the operation store promises to the code that submits, polls and   *)
(* cancels operations (sdk/operation.go): an operation is accepted once,   *)
(* moves forward through pending and running, and takes exactly one        *)
(* terminal outcome that never changes until retention removes it.         *)
(***************************************************************************)
CONSTANTS
    Ids,        \* operation identities handed out by sdk.NewID
    Outcomes    \* the results a terminal operation can carry

VARIABLES
    phase,      \* phase[i]: where operation i is in its life
    outcome     \* outcome[i]: its result, NoOutcome before it is terminal

NoOutcome == "none"

Phases == {"absent", "pending", "running", "succeeded", "failed", "cancelled",
           "purged"}

TerminalPhases == {"succeeded", "failed", "cancelled"}

Init ==
    /\ phase = [i \in Ids |-> "absent"]
    /\ outcome = [i \in Ids |-> NoOutcome]

\* OperationStore.Submit accepts a new operation.
Accept(i) ==
    /\ phase[i] = "absent"
    /\ phase' = [phase EXCEPT ![i] = "pending"]
    /\ UNCHANGED outcome

\* A worker claims the operation for the first time.
Begin(i) ==
    /\ phase[i] = "pending"
    /\ phase' = [phase EXCEPT ![i] = "running"]
    /\ UNCHANGED outcome

\* The operation takes its one terminal outcome.
Settle(i, p, o) ==
    /\ phase[i] \in {"pending", "running"}
    /\ p \in TerminalPhases
    /\ phase' = [phase EXCEPT ![i] = p]
    /\ outcome' = [outcome EXCEPT ![i] = o]

\* PurgeTerminal forgets some terminal operations and their results.
Forget(S) ==
    /\ \A i \in S : phase[i] \in TerminalPhases
    /\ phase' = [i \in Ids |-> IF i \in S THEN "purged" ELSE phase[i]]
    /\ outcome' = [i \in Ids |-> IF i \in S THEN NoOutcome ELSE outcome[i]]

Next ==
    \/ \E i \in Ids : Accept(i) \/ Begin(i)
    \/ \E i \in Ids, p \in TerminalPhases, o \in Outcomes : Settle(i, p, o)
    \/ \E S \in SUBSET Ids : Forget(S)

Spec == Init /\ [][Next]_<<phase, outcome>>
===============================================================================
