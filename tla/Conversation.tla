---------------------------- MODULE Conversation ----------------------------
(***************************************************************************)
(* What a trajectory promises its user.  Prompts are accepted one at a     *)
(* time.  The prompts that succeeded make up the history the next prompt   *)
(* continues from; a prompt that failed or was cancelled leaves no trace   *)
(* in it.  Only an explicit rollback chooses another history.              *)
(***************************************************************************)
EXTENDS Naturals

CONSTANT Rollbacks  \* the user may roll the conversation back

VARIABLES
    accepted,   \* number of prompts accepted so far
    active,     \* the prompt being answered, 0 when there is none
    history     \* the prompts the conversation now consists of

conversation == <<accepted, active, history>>

Init ==
    /\ accepted = 0
    /\ active = 0
    /\ history = {}

Accept ==
    /\ active = 0
    /\ accepted' = accepted + 1
    /\ active' = accepted + 1
    /\ UNCHANGED history

Succeed ==
    /\ active # 0
    /\ active' = 0
    /\ history' = history \cup {active}
    /\ UNCHANGED accepted

Abort ==
    /\ active # 0
    /\ active' = 0
    /\ UNCHANGED <<accepted, history>>

Rollback ==
    /\ Rollbacks
    /\ active = 0
    /\ history' \in SUBSET (1..accepted)
    /\ UNCHANGED <<accepted, active>>

Next == Accept \/ Succeed \/ Abort \/ Rollback

Spec == Init /\ [][Next]_conversation
=============================================================================
