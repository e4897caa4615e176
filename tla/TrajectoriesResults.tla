------------------------- MODULE TrajectoriesResults -------------------------
(***************************************************************************)
(* That Trajectories implements the specification Conversation, that no    *)
(* turn of an execution is done twice, and that a cancellation of a        *)
(* running execution returns when it is settled.                           *)
(***************************************************************************)
EXTENDS TrajectoriesProofs

-----------------------------------------------------------------------------
(***************************************************************************)
(* The history of the conversation.                                        *)
(***************************************************************************)

\* The prompts that the branch of entry at holds.
Prompts(at) == {i \in DOMAIN execs : execs[i].input \in BranchIn(entries, at)}

\* The execution that is active, by its number.
ActiveId == IF Active THEN Len(execs) ELSE 0

\* What the steps are to the conversation: nothing,
Kept == Len(execs') = Len(execs) /\ ActiveId' = ActiveId /\ Prompts(Stable)' = Prompts(Stable)

\* the failure or cancellation of the active execution,
Aborted ==
    /\ ActiveId # 0 /\ ActiveId' = 0 /\ Len(execs') = Len(execs)
    /\ Prompts(Stable)' = Prompts(Stable)

\* its success,
Succeeded ==
    /\ ActiveId # 0 /\ ActiveId' = 0 /\ Len(execs') = Len(execs)
    /\ Prompts(Stable)' = Prompts(Stable) \cup {ActiveId}

\* a rollback,
RolledBack ==
    /\ Rollbacks /\ ActiveId = 0 /\ ActiveId' = 0 /\ Len(execs') = Len(execs)
    /\ Prompts(Stable)' \in SUBSET (1..Len(execs))

\* or the acceptance of a prompt.
Accepted ==
    /\ ActiveId = 0 /\ ActiveId' = Len(execs) + 1 /\ Len(execs') = Len(execs) + 1
    /\ Prompts(Stable)' = Prompts(Stable)

\* Every step of the store is a step of the conversation, or none.
LEMMA ConversationStep ==
    ASSUME Inv, StoreStep
    PROVE  Kept \/ Accepted \/ Succeeded \/ Aborted \/ RolledBack
\* Each execution has its own input entry.
<1>Inputs. /\ Len(execs) \in Nat /\ DOMAIN execs = 1..Len(execs)
           /\ \A i \in 1..Len(execs) :
                /\ execs[i].input \in 1..Len(entries)
                /\ entries[execs[i].input].kind = "user" /\ entries[execs[i].input].exec = i
           /\ Stable \in 0..Len(entries)
  <2>1. /\ StoreType /\ Logged /\ Len(execs) \in Nat /\ Len(entries) \in Nat
        /\ head \in 0..Len(entries)
    BY Facts
  <2>2. DOMAIN execs = 1..Len(execs) /\ DOMAIN entries = 1..Len(entries)
    BY <2>1 DEF StoreType
  <2>3. execs # <<>> => Current.base \in 0..Len(entries)
    BY <2>1, InputBranch
  <2>4. Stable \in 0..Len(entries)
    BY <2>1, <2>3 DEF Stable
  <2> QED BY <2>1, <2>2, <2>4 DEF Logged, Recorded
\* A step that keeps the branch under the conversation, and every input, keeps the history.
<1>SamePrompts. ASSUME LogKept, ExecsKept, Len(execs') = Len(execs),
                       BranchIn(entries', Stable') = BranchIn(entries, Stable)
                PROVE  Prompts(Stable)' = Prompts(Stable)
  <2> USE <1>SamePrompts
  <2>1. DOMAIN execs = 1..Len(execs) /\ DOMAIN execs' = 1..Len(execs)
    BY <1>Inputs DEF ExecsKept
  <2>2. \A i \in 1..Len(execs) : execs'[i].input = execs[i].input
    BY DEF ExecsKept
  <2> QED BY <2>1, <2>2 DEF Prompts
\* While the last execution has not succeeded, the conversation stands on its base.
<1>BaseStands. ASSUME LogKept, ExecsKept, Len(execs') = Len(execs), execs # <<>>,
                      Current.state # "succeeded", Current'.state # "succeeded"
               PROVE  Prompts(Stable)' = Prompts(Stable)
  <2> USE <1>BaseStands
  <2>1. /\ StoreType /\ Logged /\ Len(execs) \in Nat
    BY Facts
  <2>2. execs' # <<>>
    <3>1. Len(execs) # 0 /\ Len(<<>>) = 0
      BY <2>1 DEF StoreType
    <3> QED BY <3>1
  <2>3. Current.base \in 0..Len(entries)
    BY <2>1, InputBranch
  <2>4. Current'.base = Current.base
    <3>1. Len(execs) \in 1..Len(execs)
      BY <2>1 DEF StoreType
    <3> QED BY <3>1 DEF Current, ExecsKept
  <2>5. Stable = Current.base /\ Stable' = Current.base
    BY <2>2, <2>4 DEF Stable
  <2>6. BranchIn(entries', Current.base) = BranchIn(entries, Current.base)
    BY <2>1, <2>3, Branches
  <2> QED BY <2>5, <2>6, <1>SamePrompts
\* Settling the record without an append succeeds nothing.
<1>AlteredConversation. ASSUME NEW x, Altered(x), x.state # "succeeded", LogKept, ExecsKept
                        PROVE  Kept \/ Aborted
  <2> USE <1>AlteredConversation
  <2>1. StoreType /\ Len(execs) \in Nat
    BY Facts
  <2>2. /\ Len(execs') = Len(execs) /\ execs # <<>> /\ execs' # <<>>
        /\ execs'[Len(execs)] = x /\ Active
    BY <2>1, Alters DEF Altered
  <2>3. Current' = x /\ Current.state # "succeeded" /\ Len(execs) # 0
    BY <2>1, <2>2 DEF Current, Active, Live, StoreType
  <2>4. Prompts(Stable)' = Prompts(Stable)
    BY <2>2, <2>3, <1>BaseStands
  <2>5. ActiveId = Len(execs) /\ (ActiveId' = Len(execs) \/ ActiveId' = 0)
    BY <2>2 DEF ActiveId
  <2> QED BY Zenon, <2>2, <2>3, <2>4, <2>5 DEF Kept, Aborted
\* So a quiet step keeps the history.
<1>QuietConversation. ASSUME Quiet, LogKept, ExecsKept
                      PROVE  Kept \/ Aborted
  <2> USE <1>QuietConversation
  <2>1. CASE execs' = execs
    <3>1. entries' = entries /\ head' = head
      BY DEF Quiet
    <3> QED BY <2>1, <3>1 DEF Kept, Prompts, ActiveId, Active, Current, Stable
  <2>2. CASE \E x \in Executions : Altered(x) /\ x.state # "succeeded"
    BY <2>2, <1>AlteredConversation
  <2> QED BY <2>1, <2>2 DEF Quiet
\* What a running execution commits is not in the history yet.
<1>CommitsConversation. ASSUME UNCHANGED execs, Active, LogKept, ExecsKept
                        PROVE  Kept
  <2> USE <1>CommitsConversation
  <2>1. execs # <<>> /\ Current.state # "succeeded" /\ Current' = Current
    BY DEF Active, Live, Current
  <2>2. Prompts(Stable)' = Prompts(Stable)
    BY <2>1, <1>BaseStands
  <2> QED BY <2>2 DEF Kept, ActiveId, Active, Current
\* Returning to the entry a resume continues from keeps the history.
<1>MovesConversation. ASSUME NEW kind, NEW t, Moves(kind, t)
                      PROVE  Kept \/ RolledBack
  <2> USE <1>MovesConversation
  <2>1. /\ StoreType /\ Store /\ Logged /\ Tree(entries) /\ Len(entries) \in Nat
        /\ Len(execs) \in Nat /\ head = Len(entries) /\ head \in 0..Len(entries)
    BY Facts
  <2>2. /\ LogKept /\ ExecsKept /\ head' = Len(entries) + 1
        /\ BranchIn(entries', head') = {head'} \cup BranchIn(entries, t)
    BY Zenon, <2>1, MovesStore
  <2>3. execs' = execs /\ ~Active /\ (Rollbacks \/ t = ResumeHead) /\ t \in 0..Len(entries)
    BY DEF Moves
  <2>4. Len(execs') = Len(execs) /\ ActiveId = 0 /\ ActiveId' = 0
    BY <2>3 DEF ActiveId, Active, Current
  <2>5. CASE execs # <<>> /\ Current.state # "succeeded"
    <3>1. Current' = Current
      BY <2>3 DEF Current
    <3> QED BY <2>2, <2>4, <2>5, <3>1, <1>BaseStands DEF Kept
  <2>6. CASE Rollbacks
    <3>1. Prompts(Stable)' \in SUBSET (1..Len(execs))
      BY <2>3, <1>Inputs DEF Prompts
    <3> QED BY Zenon, <2>4, <2>6, <3>1 DEF RolledBack
  <2>7. CASE execs = <<>>
    <3>1. Prompts(Stable)' = {} /\ Prompts(Stable) = {}
      BY <2>3, <2>7 DEF Prompts
    <3> QED BY <2>4, <3>1 DEF Kept
  <2>8. CASE ~Rollbacks /\ execs # <<>> /\ Current.state = "succeeded"
    <3>1. t = LatestCheckpoint(head) /\ Stable = head /\ Stable' = head'
      BY Zenon, <2>3, <2>8 DEF ResumeHead, Stable, Current
    <3>2. ASSUME NEW i \in 1..Len(execs)
          PROVE  execs[i].input \in BranchIn(entries', head')
                   <=> execs[i].input \in BranchIn(entries, head)
      <4> DEFINE n == execs[i].input
      <4>1. n \in 1..Len(entries) /\ n # head'
        BY <2>1, <2>2, <1>Inputs
      <4>2. ASSUME n \in BranchIn(entries, head) PROVE n \in BranchIn(entries, t)
        <5>1. n <= t
          <6>1. Concluded
            BY <2>1 DEF Store
          <6>2. i \in DOMAIN execs
            BY <1>Inputs
          <6> QED BY Zenon, <2>8, <3>1, <4>2, <6>1, <6>2 DEF Concluded, Branch
        <5>2. t # 0
          BY <2>3, <4>1, <5>1
        <5>3. t \in BranchIn(entries, head)
          BY Zenon, <3>1, <5>2, ResumeBelow DEF Branch
        <5> HIDE DEF n
        <5> QED BY Zenon, <2>1, <4>2, <5>1, <5>3, BranchLinear
      <4>3. ASSUME n \in BranchIn(entries, t) PROVE n \in BranchIn(entries, head)
        <5>1. t # 0
          BY Zenon, <2>1, <4>3, BranchRecursion
        <5>2. t \in BranchIn(entries, head)
          BY <3>1, <5>1, ResumeBelow DEF Branch
        <5>3. BranchIn(entries, t) \subseteq BranchIn(entries, head)
          BY Zenon, <2>1, <5>2, BranchDown
        <5> QED BY <4>3, <5>3
      <4> QED BY Zenon, <2>2, <4>1, <4>2, <4>3
    <3>3. Prompts(Stable)' = Prompts(Stable)
      <4>1. Prompts(Stable) = {i \in 1..Len(execs) : execs[i].input \in BranchIn(entries, head)}
        BY <3>1, <1>Inputs DEF Prompts
      <4>2. Prompts(Stable)' = {i \in 1..Len(execs) : execs[i].input \in BranchIn(entries', head')}
        BY <2>3, <3>1, <1>Inputs DEF Prompts
      <4> QED BY Zenon, <3>2, <4>1, <4>2
    <3> QED BY <2>4, <3>3 DEF Kept
  <2> QED BY Zenon, <2>5, <2>6, <2>7, <2>8
\* An accepted prompt is not in the history yet.
<1>AcceptsConversation. ASSUME Accepts
                        PROVE  Accepted
  <2> USE <1>AcceptsConversation
  <2> DEFINE x == [state |-> "pending", token |-> 0, lease |-> 0,
                   base |-> head, input |-> Len(entries) + 1]
  <2>1. /\ StoreType /\ Store /\ Logged /\ Tree(entries) /\ Len(entries) \in Nat
        /\ Len(execs) \in Nat /\ head = Len(entries) /\ head \in 0..Len(entries)
    BY Facts
  <2>2. /\ LogKept /\ ExecsKept /\ head' = Len(entries) + 1 /\ Len(execs') = Len(execs) + 1
        /\ execs'[Len(execs) + 1] = x
    BY <2>1, AcceptsStore
  <2>3. Current' = x /\ execs' # <<>> /\ DOMAIN execs' = 1..(Len(execs) + 1)
    BY <2>1, <2>2 DEF Current, ExecsKept
  <2>4. Active' /\ Stable' = head /\ ~Active /\ Resumable
    BY <2>3 DEF Active, Live, Stable, Accepts
  <2>5. BranchIn(entries', head) = BranchIn(entries, head)
    BY Zenon, <2>1, <2>2, Branches
  <2>6. x.input \notin BranchIn(entries, head)
    <3>1. BranchIn(entries, head) \subseteq 1..head
      BY <2>1, BranchBelow
    <3> QED BY <2>1, <3>1
  <2>7. ASSUME NEW i \in 1..Len(execs)
        PROVE  execs[i].input \in BranchIn(entries, head)
                  <=> execs[i].input \in BranchIn(entries, Stable)
    <3>1. CASE Stable = head
      BY <3>1
    <3>2. CASE execs # <<>> /\ Current.state # "succeeded"
      <4>1. Current.state \in {"failed", "cancelled"} /\ Stable = Current.base
        <5>1. Current.state \in States
          BY <2>1, <3>2, Last DEF Executions
        <5> QED BY <2>4, <3>2, <5>1 DEF Active, Live, States, Stable
      <4>2. HeadRestoresAnchor(head, Current.base)
        BY <2>4, <3>2, <4>1 DEF Resumable
      <4>3. CASE head = Current.base
        BY <4>1, <4>3
      <4>4. CASE /\ head # 0 /\ entries[head].kind \in {"restore", "rollback"}
                 /\ entries[head].parent = Current.base
        <5>1. head \in 1..Len(entries)
          BY <2>1, <4>4
        <5>2. BranchIn(entries, head) = {head} \cup BranchIn(entries, Current.base)
          BY <2>1, <4>4, <5>1, BranchRecursion
        <5>3. execs[i].input # head
          BY Zenon, <4>4, <1>Inputs
        <5> QED BY Zenon, <4>1, <5>2, <5>3
      <4> QED BY Zenon, <4>2, <4>3, <4>4 DEF HeadRestoresAnchor
    <3> QED BY <3>1, <3>2 DEF Stable
  <2>8. \A i \in 1..Len(execs) : execs'[i].input = execs[i].input
    BY <2>2 DEF ExecsKept
  <2>9. Prompts(Stable)' = Prompts(Stable)
    <3>1. Prompts(Stable) = {i \in 1..Len(execs) : execs[i].input \in BranchIn(entries, Stable)}
      BY <1>Inputs DEF Prompts
    <3>2. Prompts(Stable)' = {i \in 1..(Len(execs) + 1) : execs'[i].input \in BranchIn(entries,
    head)}
      BY Zenon, <2>3, <2>4, <2>5 DEF Prompts
    <3>3. execs'[Len(execs) + 1].input \notin BranchIn(entries, head)
      BY <2>2, <2>6
    <3>4. \A i \in 1..(Len(execs) + 1) : i \in 1..Len(execs) \/ i = Len(execs) + 1
      BY <2>1
    <3>5. \A i \in 1..Len(execs) : i \in 1..(Len(execs) + 1)
      BY <2>1
    <3> QED BY <2>7, <2>8, <3>1, <3>2, <3>3, <3>4, <3>5, Zenon
  <2> QED BY <2>2, <2>4, <2>9 DEF Accepted, ActiveId
\* A completion puts the prompt into the history, or leaves it as it was.
<1>CompletesConversation. ASSUME NEW x, NEW terminal, NEW restore, Completes(x, terminal, restore)
                          PROVE  Kept \/ Aborted \/ Succeeded
  <2> USE <1>CompletesConversation
  <2>1. /\ StoreType /\ Store /\ Logged /\ Tree(entries) /\ Len(entries) \in Nat
        /\ Len(execs) \in Nat /\ head = Len(entries) /\ head \in 0..Len(entries)
    BY Facts
  <2>2. LogKept /\ ExecsKept
    BY Zenon, <2>1, CompletesStore
  <2>3. /\ Altered(x) /\ Active /\ execs # <<>> /\ terminal \in BOOLEAN /\ restore \in BOOLEAN
        /\ terminal \/ restore
        /\ AppendEntries(Completion(head, Current.base, Len(execs), terminal, restore))
    BY DEF Completes, Altered, Active
  <2>4. CASE x.state # "succeeded"
    BY Zenon, <2>2, <2>3, <2>4, <1>AlteredConversation
  <2>5. CASE x.state = "succeeded"
    <3>1. /\ Len(execs') = Len(execs) /\ execs'[Len(execs)] = x /\ execs' # <<>>
      BY Zenon, <2>1, <2>3, Alters
    <3>2. ~restore /\ Current.input \in BranchIn(entries, head)
      BY <2>5 DEF Completes, Branch
    <3>3. BranchIn(entries', head') = {head'} \cup BranchIn(entries, head)
      BY Zenon, <2>1, <2>3, <3>2, CompletionLog
    <3>4. Len(entries') > Len(entries) /\ head' > Len(entries)
      BY Zenon, <2>1, <2>2, CompletesStore DEF LogKept
    <3>5. Current' = x /\ Stable' = head' /\ Stable = Current.base
      BY Zenon, <2>3, <2>5, <3>1 DEF Current, Stable, Active, Live
    <3>6. ActiveId = Len(execs) /\ ActiveId' = 0 /\ Len(execs) # 0
      BY <2>1, <2>3, <2>5, <3>5 DEF ActiveId, Active, Live, StoreType
    <3>7. BranchIn(entries, Current.base) \subseteq BranchIn(entries, head)
      <4>1. BranchIn(entries, Current.input) \subseteq BranchIn(entries, head)
        BY Zenon, <2>1, <3>2, BranchDown
      <4>2. BranchIn(entries, Current.input) =
               {Current.input} \cup BranchIn(entries, Current.base)
        BY Zenon, <2>1, <2>3, InputBranch
      <4> QED BY Zenon, <4>1, <4>2
    <3>8. ASSUME NEW i \in 1..Len(execs)
          PROVE  execs'[i].input \in BranchIn(entries', head')
                    <=> execs[i].input \in BranchIn(entries, Current.base) \/ i = Len(execs)
      <4>1. /\ execs'[i].input = execs[i].input /\ execs[i].input \in 1..Len(entries)
            /\ entries[execs[i].input].exec = i
        BY Zenon, <2>2, <1>Inputs DEF ExecsKept
      <4>2. execs[i].input # head'
        BY <2>1, <3>4, <4>1
      <4>3. CASE i = Len(execs)
        BY Zenon, <3>2, <3>3, <4>1, <4>3 DEF Current
      <4>4. CASE i # Len(execs)
        <5>1. execs[i].input \in BranchIn(entries, head) =>
                 execs[i].input \in BranchIn(entries, Current.base)
          BY Zenon, <2>1, <2>3, <4>1, <4>4 DEF Store, ActiveBranchOwned, Branch
        <5> QED BY Zenon, <3>3, <3>7, <4>1, <4>2, <4>4, <5>1
      <4> QED BY Zenon, <4>3, <4>4
    <3>9. Prompts(Stable)' = Prompts(Stable) \cup {Len(execs)}
      <4>1. Prompts(Stable) =
               {i \in 1..Len(execs) : execs[i].input \in BranchIn(entries, Current.base)}
        BY Zenon, <3>5, <1>Inputs DEF Prompts
      <4>2. DOMAIN execs' = 1..Len(execs)
        BY <2>2, <3>1 DEF ExecsKept
      <4>3. Prompts(Stable)' = {i \in 1..Len(execs) : execs'[i].input \in BranchIn(entries', head')}
        BY Zenon, <3>5, <4>2 DEF Prompts
      <4>4. Len(execs) \in 1..Len(execs)
        BY <2>1, <3>6
      <4> QED BY <3>8, <4>1, <4>3, <4>4, Zenon
    <3> QED BY Zenon, <3>1, <3>6, <3>9 DEF Succeeded
  <2> QED BY <2>4, <2>5
<1>1. StoreType /\ Store
  BY Facts
<1>2. LogKept /\ ExecsKept
  BY <1>1, StoreSteps
<1>3. ASSUME NEW kind, NEW parent, NEW turn, NEW stop, Commits(kind, parent, turn, stop)
      PROVE  Kept
  BY Zenon, <1>2, <1>3, <1>CommitsConversation DEF Commits
<1> QED BY Zenon, <1>2, <1>3, <1>QuietConversation, <1>AcceptsConversation, <1>MovesConversation,
      <1>CompletesConversation DEF StoreStep

\* The log, its branches and the resumes implement the conversation: its history is
\* the prompts on the branch that a resume continues from, it grows by the active
\* prompt when that succeeds, and a failure, cancellation, crash or handoff leaves it.
THEOREM Refinement == Spec => ConversationSpec
<1>1. Init => Conv!Init
  BY DEF Init, Conv!Init, Active
<1>2. ASSUME Inv, [Next]_vars PROVE [Conv!Next]_(Conv!conversation)
  <2> DEFINE history == {i \in DOMAIN execs : execs[i].input \in Branch(Stable)}
             active == IF Active THEN Len(execs) ELSE 0
  <2>1. /\ history = Prompts(Stable) /\ history' = Prompts(Stable)'
        /\ active = ActiveId /\ active' = ActiveId'
    BY DEF Prompts, Branch, ActiveId
  <2>2. Kept \/ Accepted \/ Succeeded \/ Aborted \/ RolledBack
    BY Zenon, <1>2, EveryStep, ConversationStep DEF Good
  <2> HIDE DEF history, active
  <2>3. CASE Kept
    <3>1. Len(execs') = Len(execs) /\ active' = active /\ history' = history
      BY <2>1, <2>3 DEF Kept
    <3> QED BY <3>1 DEF Conv!conversation, history, active
  <2>4. CASE Accepted
    <3>1. /\ active = 0 /\ active' = Len(execs) + 1 /\ Len(execs') = Len(execs) + 1
          /\ history' = history
      BY <2>1, <2>4 DEF Accepted
    <3>2. Conv!Accept
      BY <3>1 DEF Conv!Accept, history, active
    <3> QED BY <3>2 DEF Conv!Next
  <2>5. CASE Succeeded
    <3>1. /\ active # 0 /\ active' = 0 /\ Len(execs') = Len(execs)
          /\ history' = history \cup {active}
      BY <2>1, <2>5 DEF Succeeded
    <3>2. Conv!Succeed
      BY <3>1 DEF Conv!Succeed, history, active
    <3> QED BY <3>2 DEF Conv!Next
  <2>6. CASE Aborted
    <3>1. /\ active # 0 /\ active' = 0 /\ Len(execs') = Len(execs)
          /\ history' = history
      BY <2>1, <2>6 DEF Aborted
    <3>2. Conv!Abort
      BY <3>1 DEF Conv!Abort, history, active
    <3> QED BY <3>2 DEF Conv!Next
  <2>7. CASE RolledBack
    <3>1. /\ Rollbacks /\ active = 0 /\ active' = 0 /\ Len(execs') = Len(execs)
          /\ history' \in SUBSET (1..Len(execs))
      BY <2>1, <2>7 DEF RolledBack
    <3>2. Conv!Rollback
      BY <3>1 DEF Conv!Rollback, history, active
    <3> QED BY <3>2 DEF Conv!Next
  <2> QED BY Zenon, <2>2, <2>3, <2>4, <2>5, <2>6, <2>7
<1> QED BY <1>1, <1>2, Invariance, PTL DEF Spec, ConversationSpec, Conv!Spec

-----------------------------------------------------------------------------
(***************************************************************************)
(* The effects of the actions.                                             *)
(***************************************************************************)

\* Only host h's run moves.
Alone(h) == \A g \in Hosts : g # h => run'[g] = run[g] /\ Calm(g)

\* The effect of each action on the runs, for the invariants of single properties.
\* A host's run is over.
LEMMA Idles ==
    ASSUME Inv, NEW h \in Hosts, Become(h, IdleRun)
    PROVE  Alone(h) /\ run'[h] = IdleRun /\ run'[h].pc = "idle"
<1>1. IdleRun \in Runs /\ IdleRun.pc = "idle"
  BY DEF IdleRun, Runs, Counters
<1>2. HostType
  BY Zenon, Facts
<1> QED BY Zenon, <1>1, <1>2, Becomes DEF Alone

\* ResumeSession.
LEMMA ResumeEffect ==
    ASSUME Inv, NEW h \in Hosts, ResumeSession(h)
    PROVE  Alone(h) /\ run'[h].pc \in {"resumed", "moving"}
<1> DEFINE p == IF HeadRestoresAnchor(head, ResumeHead) THEN "resumed" ELSE "moving"
           r == [IdleRun EXCEPT !.pc = p, !.head = head, !.target = ResumeHead]
<1>1. head \in Nat /\ ResumeHead \in Nat /\ HostType
  BY Facts, ResumeBelow
<1>2. p \in {"resumed", "moving"} /\ p \in Counters
  BY DEF Counters
<1>3. Become(h, r)
  BY DEF ResumeSession
<1>4. r \in Runs /\ r.pc = p
  <2>1. r = [IdleRun EXCEPT !.pc = p, !.head = head, !.target = ResumeHead]
    OBVIOUS
  <2> HIDE DEF r, p
  <2> QED BY Zenon, <1>1, <1>2, <2>1 DEF IdleRun, Runs
<1> HIDE DEF r, p
<1> QED BY Zenon, <1>1, <1>2, <1>3, <1>4, Becomes DEF Alone

\* MoveHead.
LEMMA MoveEffect ==
    ASSUME Inv, NEW h \in Hosts, MoveHead(h)
    PROVE  /\ Alone(h) /\ run'[h].pc \in {"resumed", "idle"}
           /\ entries' = entries \/ ~Active
<1>1. CASE Become(h, IdleRun) /\ entries' = entries
  BY <1>1, Idles
<1>2. CASE /\ Become(h, [run[h] EXCEPT !.pc = "resumed", !.head = head'])
           /\ head' = Len(entries) + 1 /\ ~Active
  <2> DEFINE r == [run[h] EXCEPT !.pc = "resumed", !.head = head']
  <2>1. head' \in Nat /\ HostType /\ run[h] \in Runs /\ "resumed" \in Counters
    BY <1>2, Facts, HostFacts DEF Counters
  <2>2. r \in Runs /\ r.pc = "resumed"
    <3>1. r = [run[h] EXCEPT !.pc = "resumed", !.head = head']
      OBVIOUS
    <3> HIDE DEF r
    <3> QED BY Zenon, <2>1, <3>1 DEF Runs
  <2>3. Become(h, r)
    BY <1>2
  <2> HIDE DEF r
  <2> QED BY Zenon, <1>2, <2>1, <2>2, <2>3, Becomes DEF Alone
<1>3. Len(<<Entry("restore", run[h].target, 0, 0, FALSE)>>) = 1
  OBVIOUS
<1> QED BY <1>1, <1>2, <1>3 DEF MoveHead, AppendEntries

\* SubmitPrompt.
LEMMA SubmitEffect ==
    ASSUME Inv, NEW h \in Hosts, SubmitPrompt(h)
    PROVE  /\ Alone(h) /\ run'[h].pc \in {"accepted", "idle"}
           /\ entries' = entries \/ ~Active
<1>1. CASE Become(h, IdleRun) /\ entries' = entries
  BY <1>1, Idles
<1>2. CASE /\ Become(h, [run[h] EXCEPT !.pc = "accepted", !.head = head', !.plan = Len(execs) + 1])
           /\ head' = Len(entries) + 1 /\ ~Active
  <2> DEFINE r == [run[h] EXCEPT !.pc = "accepted", !.head = head', !.plan = Len(execs) + 1]
  <2>1. /\ head' \in Nat /\ HostType /\ run[h] \in Runs /\ "accepted" \in Counters
        /\ Len(execs) + 1 \in Nat
    BY <1>2, Facts, HostFacts DEF Counters
  <2>2. r \in Runs /\ r.pc = "accepted"
    <3>1. r = [run[h] EXCEPT !.pc = "accepted", !.head = head', !.plan = Len(execs) + 1]
      OBVIOUS
    <3> HIDE DEF r
    <3> QED BY Zenon, <2>1, <3>1 DEF Runs
  <2>3. Become(h, r)
    BY <1>2
  <2> HIDE DEF r
  <2> QED BY Zenon, <1>2, <2>1, <2>2, <2>3, Becomes DEF Alone
<1>3. Len(<<Entry("user", head, Len(execs) + 1, 0, FALSE)>>) = 1
  OBVIOUS
<1> QED BY <1>1, <1>2, <1>3 DEF SubmitPrompt, AppendEntries

\* PlanRecovery: the target is the latest checkpoint of the execution, or its input.
LEMMA PlanEffect ==
    ASSUME Inv, NEW h \in Hosts, PlanRecovery(h)
    PROVE  /\ Alone(h) /\ run'[h].pc = "planned" /\ Active /\ mode[h] = "open"
           /\ run'[h].target =
                IF LatestCheckpoint(head) # 0 /\ entries[LatestCheckpoint(head)].exec = Len(execs)
                THEN LatestCheckpoint(head) ELSE Current.input
<1> DEFINE c == LatestCheckpoint(head)
           owned == c # 0 /\ entries[c].exec = Len(execs)
           t == IF owned THEN c ELSE Current.input
           k == IF owned THEN entries[c].turn ELSE 0
           r == [IdleRun EXCEPT !.pc = "planned", !.plan = Len(execs), !.head = head,
                                !.target = t, !.turn = k]
<1>1. Become(h, r) /\ Active /\ mode[h] = "open"
  BY DEF PlanRecovery, RecoverableNow
<1>2. /\ StoreType /\ Logged /\ HostType /\ Len(execs) \in Nat /\ head \in Nat
      /\ Len(entries) \in Nat /\ "planned" \in Counters
  BY Facts DEF Counters
<1>3. c \in 0..Len(entries) /\ Current.input \in 1..Len(entries)
  BY Zenon, <1>1, <1>2, ResumeBelow, InputBranch DEF Active
<1>4. c # 0 => entries[c].turn \in Nat
  BY <1>2, <1>3, EntryType
<1> HIDE DEF c
<1>5. t \in Nat /\ k \in Nat
  BY <1>2, <1>3, <1>4
<1>6. r \in Runs /\ r.pc = "planned" /\ r.target = t
  <2>1. r = [IdleRun EXCEPT !.pc = "planned", !.plan = Len(execs), !.head = head,
                            !.target = t, !.turn = k]
    OBVIOUS
  <2> HIDE DEF r, t, k
  <2> QED BY Zenon, <1>2, <1>5, <2>1 DEF IdleRun, Runs
<1>7. Alone(h) /\ run'[h] = r
  <2> HIDE DEF r, t, k
  <2> QED BY <1>1, <1>2, <1>6, Becomes DEF Alone
<1> QED BY <1>1, <1>6, <1>7 DEF c

\* RunSubmission and RecoverExecution: no claim, or a run under a new token.
LEMMA ClaimEffect ==
    ASSUME Inv, NEW h \in Hosts, RunSubmission(h) \/ RecoverExecution(h)
    PROVE  /\ Alone(h) /\ UNCHANGED <<entries, head, mode, cancel>>
           /\ \/ run'[h].pc = "idle" /\ (Claim \/ UNCHANGED <<execs, claims>>)
              \/ /\ Claim /\ run'[h].exec = Len(execs) /\ run'[h].token = claims'
                 /\ run'[h].head = run[h].head /\ run'[h].target = run[h].target
                 /\ run'[h].turn = run[h].turn
                 /\ \/ run'[h].pc = "turn" /\ RunSubmission(h) /\ mode[h] = "open"
                    \/ run'[h].pc = "restore" /\ RecoverExecution(h)
<1> UNCHANGED <<entries, head, mode, cancel>>
  BY Zenon DEF RunSubmission, RecoverExecution
<1> CASE Become(h, IdleRun) /\ (Claim \/ UNCHANGED <<execs, claims>>)
  BY Zenon, Idles
<1> ASSUME NEW p \in {"turn", "restore"}, Claim,
           Become(h, [run[h] EXCEPT !.pc = p, !.exec = Len(execs), !.token = claims'])
    PROVE  /\ Alone(h) /\ run'[h].exec = Len(execs) /\ run'[h].token = claims'
           /\ run'[h].head = run[h].head /\ run'[h].target = run[h].target
           /\ run'[h].turn = run[h].turn /\ run'[h].pc = p
  <2> DEFINE r == [run[h] EXCEPT !.pc = p, !.exec = Len(execs), !.token = claims']
  <2>1. /\ claims' \in Nat /\ HostType /\ run[h] \in Runs /\ p \in Counters /\ Len(execs) \in Nat
    BY Zenon, Facts, HostFacts, Claiming DEF Counters, Claimed, Writing
  <2>2. /\ r \in Runs /\ r.pc = p /\ r.exec = Len(execs) /\ r.token = claims'
        /\ r.head = run[h].head /\ r.target = run[h].target /\ r.turn = run[h].turn
    <3>1. r = [run[h] EXCEPT !.pc = p, !.exec = Len(execs), !.token = claims']
      OBVIOUS
    <3> HIDE DEF r
    <3> QED BY Zenon, <2>1, <3>1 DEF Runs
  <2>3. Become(h, r)
    OBVIOUS
  <2> HIDE DEF r
  <2>4. run'[h] = r /\ Alone(h)
    BY Zenon, <2>1, <2>2, <2>3, Becomes DEF Alone
  <2> QED BY <2>2, <2>4
<1> CASE RunSubmission(h)
  <2> CASE /\ mode[h] = "open" /\ Claim
           /\ Become(h, [run[h] EXCEPT !.pc = "turn", !.exec = Len(execs), !.token = claims'])
    <3>1. /\ Alone(h) /\ run'[h].exec = Len(execs) /\ run'[h].token = claims'
          /\ run'[h].head = run[h].head /\ run'[h].target = run[h].target
          /\ run'[h].turn = run[h].turn /\ run'[h].pc = "turn"
      BY Zenon
    <3> QED BY Zenon, <3>1
  <2> QED BY Zenon DEF RunSubmission
<1> CASE RecoverExecution(h)
  <2> CASE /\ Claim
           /\ Become(h, [run[h] EXCEPT !.pc = "restore", !.exec = Len(execs), !.token = claims'])
    <3>1. /\ Alone(h) /\ run'[h].exec = Len(execs) /\ run'[h].token = claims'
          /\ run'[h].head = run[h].head /\ run'[h].target = run[h].target
          /\ run'[h].turn = run[h].turn /\ run'[h].pc = "restore"
      OBVIOUS
    <3> QED BY Zenon, <3>1
  <2> QED BY Zenon DEF RecoverExecution
<1> QED BY Zenon

\* A run that goes on under its claim.
Continues(h, p, at) ==
    /\ Alone(h) /\ run'[h].pc = p /\ run'[h].head = at
    /\ run'[h].exec = run[h].exec /\ run'[h].token = run[h].token
    /\ run'[h].turn = run[h].turn

\* A record that changes its place and head only.
LEMMA Continuing ==
    ASSUME Inv, NEW h \in Hosts, NEW p \in Counters, NEW at \in Nat,
           Become(h, [run[h] EXCEPT !.pc = p, !.head = at])
    PROVE  Continues(h, p, at)
<1> DEFINE r == [run[h] EXCEPT !.pc = p, !.head = at]
<1>1. HostType /\ run[h] \in Runs
  BY Facts, HostFacts
<1>2. /\ r \in Runs /\ r.pc = p /\ r.head = at /\ r.exec = run[h].exec
      /\ r.token = run[h].token /\ r.turn = run[h].turn
  <2>1. r = [run[h] EXCEPT !.pc = p, !.head = at]
    OBVIOUS
  <2> HIDE DEF r
  <2> QED BY Zenon, <1>1, <2>1 DEF Runs
<1>3. Become(h, r)
  OBVIOUS
<1> HIDE DEF r
<1>4. run'[h] = r /\ Alone(h)
  BY <1>1, <1>2, <1>3, Becomes DEF Alone
<1> QED BY <1>2, <1>4 DEF Continues

\* RestoreExecutionHead: the anchor is restored already, or an entry restores it.
LEMMA RestoreEffect ==
    ASSUME Inv, NEW h \in Hosts, RestoreExecutionHead(h)
    PROVE  LET p == IF entries[run[h].target].stop THEN "finish" ELSE "turn"
               t == run[h].target IN
           /\ run[h].pc = "restore" /\ UNCHANGED <<mode, cancel>>
           /\ \/ /\ Continues(h, p, run[h].head) /\ UNCHANGED <<entries, head, execs, claims>>
                 /\ HeadRestoresAnchor(run[h].head, t)
              \/ /\ Continues(h, p, head') /\ Commits("restore", t, 0, FALSE)
                 /\ Anchor(t, run[h].turn) /\ head = run[h].head /\ UNCHANGED claims
                 /\ Holds(run[h].exec, run[h].token)
<1> DEFINE t == run[h].target
           p == IF entries[t].stop THEN "finish" ELSE "turn"
<1>0. run[h].pc = "restore" /\ run[h].pc \in Claimed /\ UNCHANGED <<mode, cancel>>
  BY Zenon DEF RestoreExecutionHead, Claimed, Writing
<1>p. p \in Counters
  BY Zenon DEF Counters, Claimed, Writing
<1>1. /\ Ready(h) /\ run[h].head \in Nat /\ run[h].turn \in Nat
  BY Zenon, HostFacts
<1>2. CASE /\ HeadRestoresAnchor(run[h].head, t)
           /\ Become(h, AfterRestore(h, run[h].head))
           /\ UNCHANGED store
  <2>1. Become(h, [run[h] EXCEPT !.pc = p, !.head = run[h].head])
    BY Zenon, <1>2 DEF AfterRestore
  <2>2. Continues(h, p, run[h].head)
    <3> HIDE DEF p
    <3> QED BY Zenon, <1>1, <1>p, <2>1, Continuing
  <2> QED BY Zenon, <1>0, <1>2, <2>2 DEF store
<1>3. CASE /\ CommitEntry(h, "restore", t, 0, FALSE, "running")
           /\ Become(h, AfterRestore(h, head'))
  <2>1. Become(h, [run[h] EXCEPT !.pc = p, !.head = head'])
    BY Zenon, <1>3 DEF AfterRestore
  <2>2. /\ Active /\ execs # <<>> /\ head = run[h].head /\ run[h].exec = Len(execs)
        /\ AppendEntries(<<Entry("restore", t, Len(execs), 0, FALSE)>>)
        /\ execs' = execs
    BY Zenon, <1>0, <1>3, Committing
  <2>3. Anchor(t, run[h].turn)
    BY Zenon, <1>0, <1>1, <2>2 DEF Ready
  <2>4. Commits("restore", t, 0, FALSE)
    BY Zenon, <1>1, <2>2, <2>3 DEF Commits
  <2>5. head' \in Nat
    <3>1. StoreType /\ Store /\ Len(entries) \in Nat
      BY Facts
    <3>2. head' = Len(entries) + 1
      BY <2>4, <3>1, CommitsStore, Zenon
    <3> QED BY <3>1, <3>2
  <2>6. Continues(h, p, head')
    <3> HIDE DEF p
    <3> QED BY Zenon, <1>p, <2>1, <2>5, Continuing
  <2>7. Holds(run[h].exec, run[h].token) /\ UNCHANGED claims
    BY Zenon, <1>3 DEF CommitEntry, CanCommit
  <2> HIDE DEF p
  <2>8. /\ Continues(h, p, head') /\ Commits("restore", t, 0, FALSE)
        /\ Anchor(t, run[h].turn) /\ head = run[h].head /\ UNCHANGED claims
        /\ Holds(run[h].exec, run[h].token)
    BY Zenon, <2>2, <2>3, <2>4, <2>6, <2>7
  <2> QED BY Zenon, <1>0, <2>8 DEF p
<1> QED BY Zenon, <1>2, <1>3 DEF RestoreExecutionHead

\* A step of a turn: what it commits on the head.
LEMMA TurnEffect ==
    ASSUME Inv, NEW h \in Hosts,
           PromptBlocked(h) \/ TurnProgress(h) \/ CheckpointTurn(h)
    PROVE  /\ Alone(h) /\ head = run[h].head /\ UNCHANGED <<execs, claims, mode, cancel>>
           /\ Holds(run[h].exec, run[h].token) /\ run[h].pc \in {"turn", "mid"}
           /\ run'[h].exec = run[h].exec /\ run'[h].token = run[h].token
           /\ \/ /\ run[h].turn = 0 /\ run'[h].pc = "finish"
                 /\ Commits("checkpoint", head, 0, TRUE)
              \/ /\ run'[h].pc = "mid" /\ run'[h].turn = run[h].turn
                 /\ Commits("step", head, run[h].turn, FALSE)
              \/ /\ run'[h].pc \in {"turn", "finish", "failing"}
                 /\ run'[h].pc = "failing" => run'[h].out = "failed"
                 /\ run'[h].turn = run[h].turn + 1
                 /\ \E stop \in BOOLEAN : Commits("checkpoint", head, run[h].turn + 1, stop)
<1>0. /\ run[h].pc \in {"turn", "mid"} /\ run[h].pc \in Claimed /\ UNCHANGED <<mode, cancel>>
  BY Zenon DEF PromptBlocked, TurnProgress, CheckpointTurn, Claimed, Writing
<1>1. /\ Ready(h) /\ run[h] \in Runs /\ run[h].turn \in Nat /\ HostType
      /\ StoreType /\ Store /\ Len(entries) \in Nat
  BY Zenon, HostFacts, Facts
<1>2. ASSUME NEW kind \in {"step", "checkpoint"}, NEW turn \in Nat, NEW stop \in BOOLEAN,
             CommitEntry(h, kind, run[h].head, turn, stop, "running")
      PROVE  /\ Commits(kind, head, turn, stop) /\ head = run[h].head /\ head' \in Nat
             /\ UNCHANGED <<execs, claims>> /\ Holds(run[h].exec, run[h].token)
  <2>1. /\ Active /\ execs # <<>> /\ head = run[h].head /\ run[h].exec = Len(execs)
        /\ AppendEntries(<<Entry(kind, head, Len(execs), turn, stop)>>)
        /\ execs' = execs
    BY Zenon, <1>0, <1>2, Committing
  <2>2. Current.input \in Branch(head)
    BY Zenon, <1>0, <1>1, <2>1 DEF Ready
  <2>3. Commits(kind, head, turn, stop)
    BY <2>1, <2>2 DEF Commits
  <2>4. head' = Len(entries) + 1
    BY <1>1, <2>3, CommitsStore, Zenon
  <2>5. UNCHANGED claims /\ Holds(run[h].exec, run[h].token)
    BY Zenon, <1>2 DEF CommitEntry, CanCommit
  <2>6. head' \in Nat
    BY <1>1, <2>4
  <2> QED BY Zenon, <2>1, <2>3, <2>5, <2>6
<1>3. CASE PromptBlocked(h)
  <2>1. /\ CommitEntry(h, "checkpoint", run[h].head, 0, TRUE, "running") /\ run[h].turn = 0
        /\ Become(h, [run[h] EXCEPT !.pc = "finish", !.head = head'])
    BY Zenon, <1>3 DEF PromptBlocked
  <2>2. /\ Commits("checkpoint", head, 0, TRUE) /\ head = run[h].head /\ head' \in Nat
        /\ UNCHANGED <<execs, claims>> /\ Holds(run[h].exec, run[h].token)
    <3>1. 0 \in Nat /\ TRUE \in BOOLEAN /\ "checkpoint" \in {"step", "checkpoint"}
      OBVIOUS
    <3>2. CommitEntry(h, "checkpoint", run[h].head, 0, TRUE, "running")
      BY Zenon, <2>1
    <3> QED BY <1>2, <3>1, <3>2, Zenon
  <2>3. "finish" \in Counters
    BY DEF Counters, Claimed, Writing
  <2>4. Continues(h, "finish", head')
    BY Zenon, <2>1, <2>2, <2>3, Continuing
  <2> QED BY Zenon, <1>0, <2>1, <2>2, <2>4 DEF Continues
<1>4. CASE TurnProgress(h)
  <2>1. /\ CommitEntry(h, "step", run[h].head, run[h].turn, FALSE, "running")
        /\ Become(h, [run[h] EXCEPT !.pc = "mid", !.head = head'])
    BY Zenon, <1>4 DEF TurnProgress
  <2>2. /\ Commits("step", head, run[h].turn, FALSE) /\ head = run[h].head /\ head' \in Nat
        /\ UNCHANGED <<execs, claims>> /\ Holds(run[h].exec, run[h].token)
    BY Zenon, <1>1, <1>2, <2>1
  <2>3. "mid" \in Counters
    BY DEF Counters, Claimed, Writing
  <2>4. Continues(h, "mid", head')
    BY Zenon, <2>1, <2>2, <2>3, Continuing
  <2> QED BY Zenon, <1>0, <2>1, <2>2, <2>4 DEF Continues
<1>5. CASE CheckpointTurn(h)
  <2>1. PICK stop \in BOOLEAN :
        LET next == [run[h] EXCEPT !.pc = IF stop THEN "finish" ELSE "turn",
                                   !.head = head', !.turn = @ + 1]
        IN
        /\ CommitEntry(h, "checkpoint", run[h].head, run[h].turn + 1, stop,
                       "running")
        /\ Become(h, IF stop \/ mode[h] = "open" THEN next
                     ELSE [next EXCEPT !.pc = "failing", !.out = "failed"])
    BY Zenon, <1>5 DEF CheckpointTurn
  <2> DEFINE p == IF stop THEN "finish" ELSE "turn"
             n == run[h].turn + 1
             next == [run[h] EXCEPT !.pc = p, !.head = head', !.turn = n]
             drained == [next EXCEPT !.pc = "failing", !.out = "failed"]
             r == IF stop \/ mode[h] = "open" THEN next ELSE drained
  <2>2. CommitEntry(h, "checkpoint", run[h].head, n, stop, "running") /\ Become(h, r)
    BY Zenon, <2>1
  <2>3. n \in Nat /\ p \in {"finish", "turn"} /\ p \in Counters /\ "failing" \in Counters
    BY <1>1 DEF Counters, Claimed, Writing
  <2>4. /\ Commits("checkpoint", head, n, stop) /\ head = run[h].head /\ head' \in Nat
        /\ UNCHANGED <<execs, claims>> /\ Holds(run[h].exec, run[h].token)
    <3> HIDE DEF n, r
    <3> QED BY Zenon, <1>2, <2>2, <2>3
  <2>5. /\ next \in Runs /\ next.pc = p /\ next.exec = run[h].exec /\ next.token = run[h].token
        /\ next.turn = n
    <3>1. next = [run[h] EXCEPT !.pc = p, !.head = head', !.turn = n]
      OBVIOUS
    <3> HIDE DEF next, p, n
    <3> QED BY Zenon, <1>1, <2>3, <2>4, <3>1 DEF Runs
  <2>6. /\ drained \in Runs /\ drained.pc = "failing" /\ drained.exec = run[h].exec
        /\ drained.token = run[h].token /\ drained.turn = n /\ drained.out = "failed"
    <3>1. drained = [next EXCEPT !.pc = "failing", !.out = "failed"]
      OBVIOUS
    <3> HIDE DEF next, p, n, drained
    <3> QED BY Zenon, <2>3, <2>5, <3>1 DEF Runs
  <2>7. /\ r \in Runs /\ r.pc \in {"turn", "finish", "failing"} /\ r.exec = run[h].exec
        /\ r.token = run[h].token /\ r.turn = n /\ (r.pc = "failing" => r.out = "failed")
    <3> HIDE DEF next, p, n, drained
    <3> QED BY Zenon, <2>3, <2>5, <2>6
  <2> HIDE DEF r
  <2>8. run'[h] = r /\ Alone(h)
    BY Zenon, <1>1, <2>2, <2>7, Becomes DEF Alone
  <2> HIDE DEF n
  <2>9. /\ run'[h].pc \in {"turn", "finish", "failing"} /\ run'[h].turn = n
        /\ run'[h].pc = "failing" => run'[h].out = "failed"
        /\ \E s \in BOOLEAN : Commits("checkpoint", head, n, s)
    BY Zenon, <2>4, <2>7, <2>8
  <2> QED BY Zenon, <1>0, <2>4, <2>7, <2>8, <2>9 DEF n
<1> QED BY Zenon, <1>3, <1>4, <1>5

\* A run that fails or is refused.
LEMMA ErrorEffect ==
    ASSUME Inv, NEW h \in Hosts, RunError(h) \/ RunRefused(h)
    PROVE  /\ Alone(h) /\ run'[h].pc = "failing" /\ run'[h].out \in {"failed", "cancelled"}
           /\ run'[h].exec = run[h].exec /\ run'[h].token = run[h].token
           /\ run[h].pc \in Writing /\ UNCHANGED <<entries, head, execs, claims, mode, cancel>>
<1> DEFINE o == IF run[h].ctx = "cancelled" \/ mode[h] = "closing" THEN "cancelled" ELSE "failed"
           r == [run[h] EXCEPT !.pc = "failing", !.out = o]
<1>1. /\ Become(h, r) /\ run[h].pc \in Writing
      /\ UNCHANGED <<entries, head, execs, claims, mode, cancel>>
  BY Zenon DEF RunError, RunRefused, Failing, store
<1>2. /\ o \in {"failed", "cancelled"} /\ "failing" \in Counters /\ run[h] \in Runs /\ HostType
  BY Zenon, HostFacts, Facts DEF Counters, Claimed
<1>3. /\ r \in Runs /\ r.pc = "failing" /\ r.out = o /\ r.exec = run[h].exec
      /\ r.token = run[h].token
  <2>1. r = [run[h] EXCEPT !.pc = "failing", !.out = o]
    OBVIOUS
  <2> HIDE DEF r, o
  <2> QED BY Zenon, <1>2, <2>1 DEF Runs
<1> HIDE DEF r, o
<1>4. run'[h] = r /\ Alone(h)
  BY Zenon, <1>1, <1>2, <1>3, Becomes DEF Alone
<1> QED BY Zenon, <1>1, <1>2, <1>3, <1>4

\* failExecution's read.
LEMMA UnwindEffect ==
    ASSUME Inv, NEW h \in Hosts, UnwindRead(h)
    PROVE  /\ Alone(h) /\ run'[h].pc = "unwind" /\ run'[h].out = Outcome(h)
           /\ run'[h].exec = run[h].exec /\ run'[h].token = run[h].token
           /\ run'[h].head = head
           /\ run[h].pc = "failing" /\ UNCHANGED <<entries, head, execs, claims, mode, cancel>>
<1> DEFINE o == Outcome(h)
           b == Current.base
           r == [run[h] EXCEPT !.pc = "unwind", !.head = head, !.target = b, !.out = o]
<1>1. /\ Become(h, r) /\ run[h].pc = "failing"
      /\ UNCHANGED <<entries, head, execs, claims, mode, cancel>>
  BY DEF UnwindRead, store
<1>2. /\ run[h] \in Runs /\ HostType /\ StoreType /\ Logged /\ head \in Nat
      /\ "unwind" \in Counters /\ Len(execs) \in Nat
      /\ run[h].out # "none" /\ run[h].exec # 0 /\ run[h].exec <= Len(execs) /\ run[h].exec \in Nat
  BY Zenon, <1>1, HostFacts, Facts DEF Counters, Claimed, HostBounds
<1>3. b \in Nat
  <2>1. execs # <<>>
    BY <1>2
  <2>2. b \in 0..Len(entries) /\ Len(entries) \in Nat
    BY Zenon, <1>2, <2>1, InputBranch, Facts
  <2> QED BY <2>2
<1>4. o \in {"none", "release", "handoff", "failed", "cancelled"}
  BY Zenon, <1>2 DEF Outcome, Runs
<1>5. /\ r \in Runs /\ r.pc = "unwind" /\ r.out = o /\ r.exec = run[h].exec
      /\ r.token = run[h].token /\ r.head = head
  <2>1. r = [run[h] EXCEPT !.pc = "unwind", !.head = head, !.target = b, !.out = o]
    OBVIOUS
  <2> HIDE DEF r, o, b
  <2> QED BY Zenon, <1>2, <1>3, <1>4, <2>1 DEF Runs
<1> HIDE DEF r, b
<1>6. run'[h] = r /\ Alone(h)
  <2> HIDE DEF o
  <2> QED BY Zenon, <1>1, <1>2, <1>5, Becomes DEF Alone
<1> QED BY Zenon, <1>1, <1>5, <1>6
-----------------------------------------------------------------------------
(***************************************************************************)
(* The turns.                                                              *)
(***************************************************************************)

\* The checkpoints of the current execution.
Own == Checkpoints(Len(execs))

\* No turn is checkpointed twice; turns are counted from one; the checkpoints of an
\* execution follow one another on one branch; and while it is active they are all
\* on the head's branch.
LogTurns ==
    /\ NoTurnRedone
    /\ \A i \in DOMAIN entries :
          entries[i].kind = "checkpoint" /\ ~entries[i].stop => entries[i].turn # 0
    /\ \A i, j \in DOMAIN entries :
          /\ i < j /\ entries[i].kind = "checkpoint" /\ entries[j].kind = "checkpoint"
          /\ entries[i].exec = entries[j].exec
          => i \in Branch(j)
    /\ Active => Own \subseteq Branch(head)

\* A host that is not fenced by the head restores no older checkpoint than the
\* latest, and is in a later turn than any that has been checkpointed.
Fresh(h) ==
    LET r == run[h] IN
    r.head = head =>
        /\ r.pc \in {"planned", "restore"} => \A c \in Own : c <= r.target
        /\ r.pc \in {"turn", "mid"} => \A c \in Own : entries[c].turn <= r.turn /\ r.turn # 0

\* Without closes, nothing is handed off: a handoff restores the base, and the
\* recovery does the turns again.
Orderly(h) ==
    /\ mode[h] = "closing" => run[h].pc \in Unadmitted
    /\ run[h].pc \in {"failing", "unwind"} => run[h].out # "handoff"

\* The inductive invariant for NoTurnRedone, on top of Inv.
Turns == LogTurns /\ \A h \in Hosts : Fresh(h) /\ Orderly(h)

\* Every step keeps the order of the turns.
LEMMA TurnsStep ==
    ASSUME Inv, Turns, ~Closes, [Next]_vars
    PROVE  Turns'
\* A checkpoint of an execution lies above its input.
<1>OwnAbove. ASSUME execs # <<>>, NEW c \in Own
             PROVE  /\ c \in 1..Len(entries) /\ Current.input \in BranchIn(entries, c)
                    /\ Current.input < c
  <2> USE <1>OwnAbove
  <2> /\ StoreType /\ Logged /\ Tree(entries) /\ Len(entries) \in Nat /\ Grounded
    BY Facts DEF Inv, Store
  <2> /\ c \in 1..Len(entries) /\ entries[c].kind = "checkpoint" /\ entries[c].exec = Len(execs)
      /\ DOMAIN entries = 1..Len(entries)
    BY DEF Own, Checkpoints, StoreType
  <2>3. Current.input \in BranchIn(entries, c)
    BY DEF Grounded, Current, Branch
  <2>4. Current.input \in 1..c
    BY <2>3, BranchBelow
  <2>5. Current.input # c
    BY Zenon, InputBranch
  <2> QED BY <2>3, <2>4, <2>5
\* Steps that log no checkpoint.
<1>NoCheckpoint. ASSUME LogTurns, LogKept,
                        \A i \in (Len(entries) + 1)..Len(entries') : entries'[i].kind # "checkpoint",
                        Active' => Own' \subseteq Branch(head)'
                 PROVE  LogTurns'
  <2> USE <1>NoCheckpoint
  <2> /\ StoreType /\ Logged /\ Len(entries) \in Nat /\ Tree(entries)
    BY Facts
  <2> /\ DOMAIN entries = 1..Len(entries) /\ Len(entries') \in Nat
      /\ DOMAIN entries' = 1..Len(entries')
      /\ \A i \in 1..Len(entries) : entries'[i] = entries[i]
    BY DEF StoreType, LogKept
  <2> \A i \in DOMAIN entries' : entries'[i].kind = "checkpoint" =>
         i \in DOMAIN entries /\ entries'[i] = entries[i]
    <3>1. \A i \in 1..Len(entries') : i \in 1..Len(entries) \/ i \in (Len(entries) + 1)..Len(entries')
      OBVIOUS
    <3> QED BY <3>1
  <2>4. \A j \in DOMAIN entries : Branch(j)' = Branch(j)
    <3>1. \A j \in DOMAIN entries : j \in 0..Len(entries)
      OBVIOUS
    <3> QED BY Zenon, <3>1, Branches DEF Branch
  <2>5. NoTurnRedone'
    BY DEF LogTurns, NoTurnRedone
  <2>6. \A i \in DOMAIN entries' :
            entries'[i].kind = "checkpoint" /\ ~entries'[i].stop => entries'[i].turn # 0
    BY DEF LogTurns
  <2>7. \A i, j \in DOMAIN entries' :
            /\ i < j /\ entries'[i].kind = "checkpoint" /\ entries'[j].kind = "checkpoint"
            /\ entries'[i].exec = entries'[j].exec
            => i \in Branch(j)'
    BY Zenon, <2>4 DEF LogTurns
  <2> QED BY <2>5, <2>6, <2>7, Zenon DEF LogTurns, Branch
\* Steps in which no execution can checkpoint.
<1>PlainTurns. ASSUME LogTurns, StoreStep, Quiet \/ ~Active \/ ~Active'
               PROVE  LogTurns'
  <2> USE <1>PlainTurns
  <2> /\ StoreType /\ Store /\ Logged /\ Len(entries) \in Nat /\ Len(execs) \in Nat
      /\ head = Len(entries)
    BY Facts
  <2> Store' /\ LogKept /\ ExecsKept /\ StoreType'
    BY Zenon, StoreSteps
  <2>3. head' = Len(entries') /\ Len(entries') \in Nat
    BY DEF LogKept
  <2>4. CASE Quiet
    <3> /\ entries' = entries /\ head' = head /\ Len(execs') = Len(execs)
        /\ ~Active => execs' = execs
      BY Zenon, <2>4, QuietCurrent
    <3>2. Active' => Active
      BY DEF Active, Current
    <3>3. Own' = Own /\ Branch(head)' = Branch(head)
      BY DEF Own, Checkpoints, Branch
    <3>4. \A i \in (Len(entries) + 1)..Len(entries') : entries'[i].kind # "checkpoint"
      OBVIOUS
    <3> QED BY Zenon, <3>2, <3>3, <3>4, <1>NoCheckpoint DEF LogTurns
  <2> CASE Accepts
    <3> DEFINE e == Entry("user", head, Len(execs) + 1, 0, FALSE)
    <3>1. e \in Entries /\ e.kind = "user"
      BY DEF Entry, Entries, Kinds
    <3>2. entries'[Len(entries) + 1] = e /\ Len(entries') = Len(entries) + 1
      <4> HIDE DEF e
      <4>1. AppendEntries(<<e>>)
        BY DEF Accepts, e
      <4> QED BY Zenon, <3>1, <4>1, GrowOne
    <3> HIDE DEF e
    <3>3. \A i \in (Len(entries) + 1)..Len(entries') : entries'[i].kind # "checkpoint"
      BY <3>1, <3>2
    <3>4. Len(execs') = Len(execs) + 1
      BY Zenon, AcceptsStore
    <3>5. Own' = {}
      <4> SUFFICES ASSUME NEW c \in DOMAIN entries', entries'[c].kind = "checkpoint",
                          entries'[c].exec = Len(execs) + 1
                   PROVE  FALSE
        BY <3>4 DEF Own, Checkpoints
      <4>1. c \in 1..Len(entries')
        BY DEF StoreType
      <4>2. c \in 1..Len(entries)
        BY <2>3, <3>3, <4>1
      <4>3. entries'[c] = entries[c] /\ c \in DOMAIN entries
        BY <4>2 DEF LogKept, StoreType
      <4>4. entries[c].exec <= Len(execs)
        BY <4>3 DEF Logged
      <4> QED BY <4>3, <4>4
    <3> QED BY Zenon, <3>3, <3>5, <1>NoCheckpoint
  <2> ASSUME NEW kind, NEW t, Moves(kind, t) PROVE LogTurns'
    <3>1. head' = Len(entries) + 1 /\ entries'[Len(entries) + 1] = Entry(kind, t, 0, 0, FALSE)
      BY Zenon, MovesStore
    <3>2. kind # "checkpoint" /\ ~Active /\ execs' = execs
      BY DEF Moves
    <3>3. \A i \in (Len(entries) + 1)..Len(entries') : entries'[i].kind # "checkpoint"
      BY <2>3, <3>1, <3>2 DEF Entry
    <3>4. ~Active'
      BY <3>2 DEF Active, Current
    <3> QED BY Zenon, <3>3, <3>4, <1>NoCheckpoint
  <2> ASSUME NEW x, NEW terminal, NEW restore, Completes(x, terminal, restore), ~Active'
      PROVE  LogTurns'
    <3>1. /\ execs # <<>> /\ terminal \in BOOLEAN /\ restore \in BOOLEAN
          /\ terminal \/ restore
          /\ AppendEntries(Completion(head, Current.base, Len(execs), terminal, restore))
      BY Zenon DEF Completes, Altered, Active
    <3>2. \A i \in (Len(entries) + 1)..Len(entries') : entries'[i].kind \in {"terminal", "restore"}
      BY Zenon, <3>1, CompletionLog
    <3>3. \A i \in (Len(entries) + 1)..Len(entries') : entries'[i].kind # "checkpoint"
      BY Zenon, <3>2
    <3> QED BY Zenon, <3>3, <1>NoCheckpoint
  <2>8. ~Active => ~(\E x, terminal, restore : Completes(x, terminal, restore))
    BY Zenon DEF Completes, Altered
  <2>9. (~Active \/ ~Active') =>
           ~(\E kind, parent, turn, stop : Commits(kind, parent, turn, stop))
    BY Zenon DEF Commits, Active, Current
  <2> QED BY Zenon, <2>4, <2>8, <2>9 DEF StoreStep
\* Commits on a branch that holds every checkpoint of the execution.
<1>CommitTurns. ASSUME LogTurns, NEW kind, NEW parent, NEW turn, NEW stop,
                       Commits(kind, parent, turn, stop),
                       Own \subseteq BranchIn(entries, parent),
                       kind = "checkpoint" =>
                          (~stop => turn # 0) /\ \A c \in Own : entries[c].turn < turn
                PROVE  LogTurns'
  <2> USE <1>CommitTurns
  <2> /\ StoreType /\ Store /\ Logged /\ Len(entries) \in Nat /\ Len(execs) \in Nat
      /\ Tree(entries)
    BY Facts
  <2> /\ LogKept /\ head' = Len(entries) + 1
      /\ entries'[Len(entries) + 1] = Entry(kind, parent, Len(execs), turn, stop)
      /\ BranchIn(entries', head') = {head'} \cup BranchIn(entries, parent)
    BY Zenon, CommitsStore
  <2> /\ DOMAIN entries = 1..Len(entries) /\ Len(entries') = Len(entries) + 1
      /\ DOMAIN entries' = 1..(Len(entries) + 1)
      /\ \A i \in 1..Len(entries) : entries'[i] = entries[i]
      /\ execs' = execs /\ Active
    <3>1. execs' = execs /\ Active
      BY Zenon DEF Commits
    <3>2. /\ entries \in Seq(Entries) /\ entries' \in Seq(Entries) /\ head' = Len(entries')
          /\ \A i \in 1..Len(entries) : entries'[i] = entries[i]
      BY Zenon DEF StoreType, LogKept
    <3> QED BY SMT, SMTT(30), <3>1, <3>2
  <2> /\ entries'[head'].kind = kind /\ entries'[head'].exec = Len(execs)
      /\ entries'[head'].turn = turn /\ entries'[head'].stop = stop
    BY SMT, SMTT(30) DEF Entry
  <2>5. Own' \subseteq Branch(head)'
    <3> SUFFICES ASSUME NEW c \in 1..(Len(entries) + 1), entries'[c].kind = "checkpoint",
                        entries'[c].exec = Len(execs), c # head'
                 PROVE  c \in BranchIn(entries, parent)
      BY Zenon DEF Own, Checkpoints, Branch
    <3>1. c \in 1..Len(entries)
      BY SMT, SMTT(30)
    <3> QED BY Zenon, <3>1 DEF Own, Checkpoints
  <2>6. CASE kind # "checkpoint"
    <3>1. \A i \in (Len(entries) + 1)..Len(entries') : entries'[i].kind # "checkpoint"
      BY SMT, SMTT(30), <2>6
    <3> QED BY Zenon, <2>5, <3>1, <1>NoCheckpoint
  <2> CASE kind = "checkpoint"
    <3> \A i \in DOMAIN entries' : i = head' \/ (i \in DOMAIN entries /\ entries'[i] = entries[i])
      BY SMT, SMTT(30)
    <3>1. \A i \in DOMAIN entries : i < head' /\ ~(head' < i)
      BY SMT, SMTT(30)
    <3>2. \A i \in DOMAIN entries : entries[i].kind = "checkpoint" /\ entries[i].exec = Len(execs) =>
              i \in Own
      BY DEF Own, Checkpoints
    <3>3. \A j \in DOMAIN entries : Branch(j)' = Branch(j)
      <4>1. \A j \in DOMAIN entries : j \in 0..Len(entries)
        BY SMT, SMTT(30)
      <4> QED BY Zenon, <4>1, Branches DEF Branch
    <3>n. ~(head' < head')
      OBVIOUS
    <3>4. NoTurnRedone'
      <4> SUFFICES ASSUME NEW i \in DOMAIN entries', NEW j \in DOMAIN entries', i < j,
                          entries'[i].kind = "checkpoint", entries'[j].kind = "checkpoint",
                          entries'[i].exec = entries'[j].exec
                   PROVE  entries'[i].turn < entries'[j].turn
        BY Zenon DEF NoTurnRedone
      <4>1. i \in DOMAIN entries /\ entries'[i] = entries[i]
        BY Zenon, <3>1, <3>n
      <4>2. CASE j = head'
        BY Zenon, <3>2, <4>1, <4>2
      <4>3. CASE j \in DOMAIN entries /\ entries'[j] = entries[j]
        BY Zenon, <4>1, <4>3 DEF LogTurns, NoTurnRedone
      <4> QED BY Zenon, <4>2, <4>3
    <3>5. \A i \in DOMAIN entries' :
            entries'[i].kind = "checkpoint" /\ ~entries'[i].stop => entries'[i].turn # 0
      BY Zenon DEF LogTurns
    <3> ASSUME NEW i \in DOMAIN entries', NEW j \in DOMAIN entries', i < j,
                        entries'[i].kind = "checkpoint", entries'[j].kind = "checkpoint",
                        entries'[i].exec = entries'[j].exec
        PROVE  i \in Branch(j)'
      <4>1. i \in DOMAIN entries /\ entries'[i] = entries[i]
        BY Zenon, <3>1, <3>n
      <4> CASE j = head'
        <5>1. i \in Own
          BY Zenon, <3>2, <4>1
        <5> QED BY Zenon, <5>1 DEF Branch
      <4>3. CASE j \in DOMAIN entries /\ entries'[j] = entries[j]
        BY Zenon, <3>3, <4>1, <4>3 DEF LogTurns
      <4> QED BY Zenon, <4>3
    <3> QED BY <2>5, <3>4, <3>5, Zenon DEF LogTurns, Branch
  <2> QED BY Zenon, <2>6
\* A host that does not move stays fresh: the head stands, or fences it.
<1>FreshKept. ASSUME StoreStep, NEW g \in Hosts, Calm(g), Fresh(g)
              PROVE  Fresh(g)'
  <2> USE <1>FreshKept
  <2>1. /\ StoreType /\ Store
    BY Facts
  <2>2. LogKept /\ (Quiet \/ Len(entries') > Len(entries))
    BY <2>1, StoreSteps
  <2>3. CASE Quiet
    <3>1. entries' = entries /\ head' = head /\ Len(execs') = Len(execs)
      BY Zenon, <2>1, <2>3, QuietCurrent
    <3>2. Own' = Own
      BY Zenon, <3>1 DEF Own, Checkpoints
    <3> QED BY <3>1, <3>2, Zenon DEF Fresh, Calm
  <2>4. CASE Len(entries') > Len(entries)
    <3>1. run'[g].head \in Nat /\ run'[g].head <= Len(entries) /\ Len(entries) \in Nat
      BY Zenon, HostFacts, Facts DEF HostBounds, Calm
    <3>2. run'[g].head # head'
      BY <2>2, <2>4, <3>1 DEF LogKept
    <3> QED BY Zenon, <3>2 DEF Fresh
  <2> QED BY Zenon, <2>2, <2>3, <2>4
\* Steps that log no checkpoint of the active execution.
<1>PlainStep. ASSUME Good, entries' = entries \/ ~Active \/ ~Active'
              PROVE  LogTurns'
  <2> USE <1>PlainStep
  <2> StoreType /\ Store /\ StoreStep /\ Len(entries) \in Nat /\ LogTurns
    BY Facts DEF Good, Turns
  <2>2. Quiet \/ Len(entries') > Len(entries)
    BY StoreSteps
  <2>3. entries' = entries => Quiet
    BY <2>2
  <2> QED BY Zenon, <2>3, <1>PlainTurns
\* A step of host h's run.
<1>HostTurns. ASSUME Good, NEW h \in Hosts, Alone(h), LogTurns', Fresh(h)', Orderly(h)',
                     \A g \in Hosts : g # h => mode'[g] = mode[g]
              PROVE  Turns'
  <2> USE <1>HostTurns
  <2>1. ASSUME NEW g \in Hosts, g # h PROVE Fresh(g)' /\ Orderly(g)'
    <3>1. Calm(g) /\ Fresh(g) /\ Orderly(g) /\ mode'[g] = mode[g] /\ StoreStep
      BY Zenon, <2>1 DEF Alone, Turns, Good
    <3>2. Fresh(g)'
      BY <3>1, <1>FreshKept
    <3>3. Orderly(g)'
      BY <3>1, Zenon DEF Orderly, Calm
    <3> QED BY Zenon, <3>2, <3>3
  <2> QED BY <2>1, Zenon DEF Turns
\* A step in which no run moves.
<1>CalmTurns. ASSUME Good, \A g \in Hosts : Calm(g), UNCHANGED mode,
                     entries' = entries \/ ~Active \/ ~Active'
              PROVE  Turns'
  <2> USE <1>CalmTurns
  <2>1. LogTurns'
    BY <1>PlainStep
  <2>2. ASSUME NEW g \in Hosts PROVE Fresh(g)' /\ Orderly(g)'
    <3>1. Calm(g) /\ Fresh(g) /\ Orderly(g) /\ mode'[g] = mode[g] /\ StoreStep
      BY <2>2 DEF Turns, Good
    <3>2. Fresh(g)'
      BY <3>1, <1>FreshKept
    <3>3. Orderly(g)'
      BY <3>1, Zenon DEF Orderly, Calm
    <3> QED BY Zenon, <3>2, <3>3
  <2> QED BY <2>1, <2>2, Zenon DEF Turns
\* A host that is not in the middle of an execution.
<1>AwayTurns. ASSUME Good, NEW h \in Hosts, Alone(h),
                     run'[h].pc \in Unadmitted \cup {"moving"},
                     mode'[h] = "closing" => run'[h].pc \in Unadmitted,
                     \A g \in Hosts : g # h => mode'[g] = mode[g],
                     entries' = entries \/ ~Active \/ ~Active'
              PROVE  Turns'
  <2> USE <1>AwayTurns
  <2>1. LogTurns'
    BY <1>PlainStep
  <2>2. run'[h].pc \notin {"planned", "restore", "turn", "mid", "failing", "unwind"}
    BY DEF Unadmitted
  <2>3. Fresh(h)' /\ Orderly(h)'
    BY <2>2 DEF Fresh, Orderly
  <2> QED BY <2>1, <2>3, <1>HostTurns, Zenon
\* Accepting a prompt.
<1>AcceptTurns. ASSUME Good, NEW h \in Hosts, Accept(h)
                PROVE  Turns'
  <2> USE <1>AcceptTurns
  <2> /\ mode' = mode /\ run[h].pc \in {"started", "idle", "moving", "resumed"}
    BY DEF Accept, NothingToRecover, ResumeSession, MoveHead, SubmitPrompt
  <2>2. CASE NothingToRecover(h)
    <3>1. Alone(h) /\ run'[h].pc = "idle" /\ entries' = entries
      BY Zenon, <2>2, Idles DEF NothingToRecover, store
    <3>2. run'[h].pc \in Unadmitted
      BY Zenon, <3>1 DEF Unadmitted
    <3> QED BY Zenon, <3>1, <3>2, <1>AwayTurns
  <2>3. CASE ResumeSession(h)
    <3>1. Alone(h) /\ run'[h].pc \in {"resumed", "moving"} /\ entries' = entries /\ mode[h] = "open"
      BY Zenon, <2>3, ResumeEffect DEF ResumeSession, store
    <3>2. run'[h].pc \in Unadmitted \cup {"moving"} /\ mode'[h] # "closing"
      BY Zenon, <3>1 DEF Unadmitted
    <3> QED BY Zenon, <3>1, <3>2, <1>AwayTurns
  <2>4. CASE MoveHead(h) \/ SubmitPrompt(h)
    <3>1. /\ Alone(h) /\ run'[h].pc \in {"resumed", "idle", "accepted"}
          /\ entries' = entries \/ ~Active
      BY Zenon, <2>4, MoveEffect, SubmitEffect
    <3>2. run'[h].pc \in Unadmitted
      BY Zenon, <3>1 DEF Unadmitted
    <3> QED BY Zenon, <3>1, <3>2, <1>AwayTurns
  <2> QED BY Zenon, <2>2, <2>3, <2>4 DEF Accept
\* The latest checkpoint of the head's branch is the execution's latest one.
<1>PlanTurns. ASSUME Good, NEW h \in Hosts, PlanRecovery(h)
              PROVE  Turns'
  <2> USE <1>PlanTurns
  <2> DEFINE m == LatestCheckpoint(head)
             owned == m # 0 /\ entries[m].exec = Len(execs)
  <2> /\ Alone(h) /\ run'[h].pc = "planned" /\ Active /\ mode[h] = "open"
      /\ run'[h].target = IF owned THEN m ELSE Current.input
    BY PlanEffect
  <2> UNCHANGED <<entries, head, execs, mode>>
    BY DEF PlanRecovery, store
  <2> /\ Len(entries) \in Nat /\ Tree(entries) /\ head \in 0..Len(entries) /\ StoreType /\ Logged
      /\ ActiveBranchOwned /\ execs # <<>> /\ DOMAIN entries = 1..Len(entries)
    BY Facts DEF Store, Active, StoreType
  <2> /\ m \in 0..head
      /\ m # 0 => m \in BranchIn(entries, head) /\ entries[m].kind = "checkpoint"
      /\ \A c \in BranchIn(entries, head) : entries[c].kind = "checkpoint" => c <= m
    <3>1. m = LatestIn(entries, head)
      BY DEF LatestCheckpoint, LatestIn, Branch
    <3> QED BY Zenon, <3>1, Latest
  <2>5. ASSUME NEW c \in Own PROVE c <= run'[h].target
    <3>1. c \in BranchIn(entries, head) /\ entries[c].kind = "checkpoint"
      BY Zenon DEF Turns, LogTurns, Own, Checkpoints, Branch
    <3>2. c <= m
      BY Zenon, <3>1
    <3> /\ c \in 1..Len(entries) /\ Current.input < c /\ Current.input \in BranchIn(entries, c)
        /\ Current.input \in 1..Len(entries) /\ Current.base < Current.input
        /\ Current.base \in 0..Len(entries)
      BY Zenon, <1>OwnAbove, InputBranch
    <3>t. m \in Nat /\ c \in Nat /\ Current.input \in Nat /\ Current.base \in Nat
      BY Zenon, Ranges
    <3> m # 0 /\ Current.base < m
      BY Zenon, <3>t, <3>2, Chain
    <3>5. m \notin BranchIn(entries, Current.base)
      <4>1. BranchIn(entries, Current.base) \subseteq 1..Current.base
        BY Zenon, BranchBelow
      <4> QED BY Zenon, <3>t, <4>1, Beyond
    <3>6. m \in Branch(head) /\ m \notin Branch(Current.base)
      BY Zenon, <3>5 DEF Branch
    <3>7. owned
      BY Zenon, <3>6 DEF ActiveBranchOwned
    <3> QED BY Zenon, <3>2, <3>7
  <2>6. Own' = Own
    BY Zenon DEF Own, Checkpoints
  <2>7. Fresh(h)'
    BY Zenon, <2>5, <2>6 DEF Fresh
  <2>8. Orderly(h)'
    BY Zenon DEF Orderly
  <2>9. LogTurns'
    BY Zenon, <1>PlainStep
  <2> QED BY Zenon, <2>7, <2>8, <2>9, <1>HostTurns
\* Claims: a submission has no checkpoint yet, a recovery keeps its target.
<1>ClaimTurns. ASSUME Good, NEW h \in Hosts, RunSubmission(h) \/ RecoverExecution(h)
               PROVE  Turns'
  <2> USE <1>ClaimTurns
  <2> Alone(h) /\ UNCHANGED <<entries, head, mode, cancel>>
    BY Zenon, ClaimEffect
  <2>2. CASE run'[h].pc = "idle"
    <3>1. run'[h].pc \in Unadmitted
      BY Zenon, <2>2 DEF Unadmitted
    <3> QED BY Zenon, <3>1, <1>AwayTurns
  <2> CASE /\ Claim /\ run'[h].exec = Len(execs) /\ run'[h].token = claims'
           /\ run'[h].head = run[h].head /\ run'[h].target = run[h].target
           /\ run'[h].turn = run[h].turn
           /\ \/ run'[h].pc = "turn" /\ RunSubmission(h) /\ mode[h] = "open"
              \/ run'[h].pc = "restore" /\ RecoverExecution(h)
    <3>1. LogTurns'
      BY Zenon, <1>PlainStep
    <3>2. Len(execs') = Len(execs)
      BY Zenon, Claiming
    <3>3. Own' = Own
      BY Zenon, <3>2 DEF Own, Checkpoints
    <3> CASE run'[h].pc = "turn" /\ RunSubmission(h) /\ mode[h] = "open"
      <4>1. run[h].pc = "accepted"
        BY Zenon DEF RunSubmission
      <4>2. Ready(h)
        BY Zenon, HostFacts
      <4>3. ASSUME run[h].head = head PROVE Own = {}
        <5> SUFFICES ASSUME NEW c \in Own PROVE FALSE
          OBVIOUS
        <5>1. execs # <<>> /\ head = Current.input
          BY Zenon, <4>1, <4>2, <4>3 DEF Ready
        <5>2. c \in 1..Len(entries) /\ Current.input < c
          BY Zenon, <5>1, <1>OwnAbove
        <5>3. head = Len(entries) /\ Len(entries) \in Nat
          BY Zenon, Facts
        <5> QED BY SMT, SMTT(30), <5>1, <5>2, <5>3
      <4>4. Fresh(h)'
        BY Zenon, <3>3, <4>3 DEF Fresh
      <4>5. Orderly(h)'
        BY Zenon DEF Orderly
      <4> QED BY Zenon, <3>1, <4>4, <4>5, <1>HostTurns
    <3> CASE run'[h].pc = "restore" /\ RecoverExecution(h)
      <4>1. run[h].pc = "planned" /\ Fresh(h) /\ Orderly(h)
        BY Zenon DEF RecoverExecution, Turns
      <4>2. Fresh(h)'
        BY Zenon, <3>3, <4>1 DEF Fresh
      <4>3. Orderly(h)'
        BY Zenon, <4>1 DEF Orderly, Unadmitted
      <4> QED BY Zenon, <3>1, <4>2, <4>3, <1>HostTurns
    <3> QED BY Zenon
  <2> QED BY Zenon, <2>2, ClaimEffect
\* What a recovery anchor that no checkpoint of the execution is above gives.
<1>Restored. ASSUME LogTurns, execs # <<>>, NEW t, NEW k, Anchor(t, k), \A c \in Own : c <= t
             PROVE  /\ Own \subseteq BranchIn(entries, t)
                    /\ ~entries[t].stop => \A c \in Own : entries[c].turn <= k /\ k # 0
  <2> USE <1>Restored
  <2> /\ t \in 1..Len(entries) /\ t \in BranchIn(entries, t) /\ StoreType
      /\ Len(entries) \in Nat /\ DOMAIN entries = 1..Len(entries)
    BY AnchorBranch, Facts DEF StoreType
  <2>2. CASE t = Current.input
    <3>1. Own = {}
      <4> SUFFICES ASSUME NEW c \in Own PROVE FALSE
        OBVIOUS
      <4>1. c \in 1..Len(entries) /\ Current.input < c /\ c <= t
        BY <1>OwnAbove
      <4> QED BY <2>2, <4>1
    <3> QED BY <3>1
  <2> CASE t \in Own /\ k = entries[t].turn
    <3> entries[t].kind = "checkpoint" /\ entries[t].exec = Len(execs) /\ k \in Nat
      BY Zenon, EntryType DEF Own, Checkpoints
    <3>2. ASSUME NEW c \in Own PROVE c \in BranchIn(entries, t) /\ entries[c].turn <= k
      <4> /\ c \in DOMAIN entries /\ entries[c].kind = "checkpoint" /\ entries[c].exec = Len(execs)
          /\ c \in 1..Len(entries) /\ entries[c].turn \in Nat
        BY Zenon, EntryType DEF Own, Checkpoints
      <4>2. CASE c = t
        BY Zenon, <4>2, Reflexive
      <4> CASE c < t
        <5>1. c \in Branch(t)
          BY Zenon DEF LogTurns
        <5>k. entries[t].turn \in Nat /\ entries[c].turn \in Nat /\ c \in BranchIn(entries, t)
          BY Zenon, <5>1 DEF Branch
        <5>2. entries[c].turn < entries[t].turn
          BY Zenon DEF LogTurns, NoTurnRedone
        <5> QED BY Zenon, <5>k, <5>2, Beyond
      <4>4. c <= t
        OBVIOUS
      <4>5. c = t \/ c < t
        BY Zenon, <4>4, Ranges, Either
      <4> QED BY Zenon, <4>2, <4>5
    <3>3. ~entries[t].stop => k # 0
      BY Zenon DEF LogTurns
    <3> QED BY Zenon, <3>2, <3>3
  <2> QED BY Zenon, <2>2 DEF Anchor, Own
\* The checkpoints of the execution after a commit.
<1>OwnGrown. ASSUME NEW kind, NEW parent, NEW turn, NEW stop, Commits(kind, parent, turn, stop)
             PROVE  \A c \in Own' : \/ c \in Own /\ entries'[c] = entries[c]
                                    \/ c = head' /\ kind = "checkpoint" /\ entries'[c].turn = turn
  <2> USE <1>OwnGrown
  <2> StoreType /\ Store /\ Len(entries) \in Nat /\ execs' = execs
    BY Zenon, Facts DEF Commits
  <2> /\ LogKept /\ head' = Len(entries) + 1
      /\ entries'[Len(entries) + 1] = Entry(kind, parent, Len(execs), turn, stop)
    BY Zenon, CommitsStore
  <2>3. /\ DOMAIN entries' = 1..(Len(entries) + 1) /\ DOMAIN entries = 1..Len(entries)
        /\ \A i \in 1..Len(entries) : entries'[i] = entries[i]
    <3>1. /\ entries \in Seq(Entries) /\ entries' \in Seq(Entries) /\ head' = Len(entries')
          /\ \A i \in 1..Len(entries) : entries'[i] = entries[i]
      BY Zenon DEF LogKept, StoreType
    <3> QED BY Zenon, <3>1, Lengths
  <2>4. entries'[head'].kind = kind /\ entries'[head'].turn = turn
    BY SMT, SMTT(30) DEF Entry
  <2> SUFFICES ASSUME NEW c \in 1..(Len(entries) + 1), entries'[c].kind = "checkpoint",
                      entries'[c].exec = Len(execs)
               PROVE  \/ c \in Own /\ entries'[c] = entries[c]
                      \/ c = head' /\ kind = "checkpoint" /\ entries'[c].turn = turn
    BY <2>3, Zenon DEF Own, Checkpoints
  <2>5. CASE c = head'
    BY Zenon, <2>4, <2>5
  <2>6. CASE c # head'
    <3>1. c \in 1..Len(entries)
      BY Zenon, <2>6, Within
    <3> QED BY Zenon, <2>3, <3>1 DEF Own, Checkpoints
  <2> QED BY Zenon, <2>5, <2>6
\* A recovery restores the latest checkpoint, and goes on with the next turn.
<1>RestoreTurns. ASSUME Good, NEW h \in Hosts, RestoreExecutionHead(h)
                 PROVE  Turns'
  <2> USE <1>RestoreTurns
  <2> DEFINE t == run[h].target
             p == IF entries[t].stop THEN "finish" ELSE "turn"
             k == run[h].turn
  <2> run[h].pc = "restore" /\ UNCHANGED <<mode, cancel>> /\ Fresh(h) /\ Orderly(h) /\ Ready(h)
    BY Zenon, RestoreEffect, HostFacts DEF Turns
  <2>2. mode[h] # "closing"
    BY Zenon DEF Orderly, Unadmitted
  <2> CASE Continues(h, p, run[h].head) /\ UNCHANGED <<entries, head, execs, claims>>
    <3>1. LogTurns'
      BY Zenon, <1>PlainStep
    <3> Alone(h) /\ run'[h].pc = p /\ run'[h].head = run[h].head /\ run'[h].turn = k
      BY Zenon DEF Continues
    <3>3. Own' = Own
      BY Zenon DEF Own, Checkpoints
    <3>4. Fresh(h)'
      <4> SUFFICES ASSUME run[h].head = head, p = "turn"
                   PROVE  \A c \in Own : entries[c].turn <= k /\ k # 0
        BY Zenon, <3>3 DEF Fresh
      <4>1. execs # <<>> /\ Anchor(t, k)
        BY Zenon DEF Ready
      <4>2. \A c \in Own : c <= t
        BY Zenon DEF Fresh
      <4>3. LogTurns
        BY Zenon DEF Turns
      <4> QED BY Zenon, <4>1, <4>2, <4>3, <1>Restored
    <3>5. Orderly(h)'
      BY Zenon, <2>2 DEF Orderly
    <3> QED BY Zenon, <3>1, <3>4, <3>5, <1>HostTurns
  <2> CASE /\ Continues(h, p, head') /\ Commits("restore", t, 0, FALSE)
           /\ Anchor(t, run[h].turn) /\ head = run[h].head /\ UNCHANGED claims
           /\ Holds(run[h].exec, run[h].token)
    <3>a. \A c \in Own : c <= t
      BY Zenon DEF Fresh
    <3>b. LogTurns /\ Active /\ execs' = execs /\ execs # <<>>
      BY Zenon DEF Turns, Commits, Active
    <3>2. /\ Own \subseteq BranchIn(entries, t)
          /\ ~entries[t].stop => \A c \in Own : entries[c].turn <= k /\ k # 0
      BY Zenon, <3>a, <3>b, <1>Restored
    <3>3. LogTurns'
      BY <3>b, <3>2, <1>CommitTurns, Zenon
    <3> Alone(h) /\ run'[h].pc = p /\ run'[h].head = head' /\ run'[h].turn = k
      BY Zenon DEF Continues
    <3>5. \A c \in Own' : c \in Own /\ entries'[c] = entries[c]
      <4>1. \A c \in Own' : \/ c \in Own /\ entries'[c] = entries[c]
                            \/ c = head' /\ "restore" = "checkpoint" /\ entries'[c].turn = 0
        BY <1>OwnGrown, Zenon
      <4> QED BY Zenon, <4>1
    <3>6. Fresh(h)'
      BY Zenon, <3>2, <3>5 DEF Fresh
    <3>7. Orderly(h)'
      BY Zenon, <2>2 DEF Orderly
    <3> QED BY Zenon, <3>3, <3>6, <3>7, <1>HostTurns
  <2> QED BY Zenon, RestoreEffect
\* A turn checkpoints on the head, above every checkpoint of its execution.
<1>StepTurns. ASSUME Good, NEW h \in Hosts,
                     PromptBlocked(h) \/ TurnProgress(h) \/ CheckpointTurn(h)
              PROVE  Turns'
  <2> USE <1>StepTurns
  <2> /\ Alone(h) /\ head = run[h].head /\ mode' = mode /\ run[h].pc \in {"turn", "mid"}
    BY Zenon, TurnEffect
  <2> Fresh(h) /\ Orderly(h) /\ LogTurns
    BY Zenon DEF Turns
  <2> mode[h] # "closing"
    BY Zenon DEF Orderly, Unadmitted
  <2> \A c \in Own : entries[c].turn <= run[h].turn /\ run[h].turn # 0
    BY Zenon DEF Fresh
  <2> /\ run[h].turn \in Nat /\ StoreType /\ Len(entries) \in Nat
      /\ DOMAIN entries = 1..Len(entries)
    BY Zenon, HostFacts, Facts, Lengths DEF StoreType
  <2>6. \A c \in Own : entries[c].turn \in Nat
    <3>1. \A c \in Own : c \in 1..Len(entries)
      BY Zenon DEF Own, Checkpoints
    <3> QED BY Zenon, <3>1, EntryType
  <2>7. Active => Own \subseteq BranchIn(entries, head)
    BY Zenon DEF LogTurns, Branch
  <2> ASSUME NEW kind, NEW turn, NEW stop, Commits(kind, head, turn, stop),
             kind = "checkpoint" => (~stop => turn # 0) /\ \A c \in Own : entries[c].turn < turn
      PROVE  /\ LogTurns'
             /\ \A c \in Own' : \/ c \in Own /\ entries'[c] = entries[c]
                                \/ c = head' /\ kind = "checkpoint" /\ entries'[c].turn = turn
    <3>1. Active
      BY Zenon DEF Commits
    <3> QED BY Zenon, <2>7, <3>1, <1>CommitTurns, <1>OwnGrown
  <2> CASE /\ run[h].turn = 0 /\ run'[h].pc = "finish"
           /\ Commits("checkpoint", head, 0, TRUE)
    <3>1. \A c \in Own : entries[c].turn < 0
      BY Zenon
    <3>2. LogTurns'
      BY <3>1, Zenon
    <3>3. Fresh(h)' /\ Orderly(h)'
      BY Zenon DEF Fresh, Orderly
    <3> QED BY Zenon, <3>2, <3>3, <1>HostTurns
  <2> CASE /\ run'[h].pc = "mid" /\ run'[h].turn = run[h].turn
           /\ Commits("step", head, run[h].turn, FALSE)
    <3>1. /\ LogTurns'
          /\ \A c \in Own' : \/ c \in Own /\ entries'[c] = entries[c]
                             \/ c = head' /\ "step" = "checkpoint" /\ entries'[c].turn = run[h].turn
      <4>1. "step" # "checkpoint"
        BY Zenon
      <4> QED BY <4>1, Zenon
    <3>2. \A c \in Own' : entries'[c].turn <= run'[h].turn /\ run'[h].turn # 0
      BY Zenon, <3>1
    <3>3. Fresh(h)' /\ Orderly(h)'
      BY Zenon, <3>2 DEF Fresh, Orderly
    <3> QED BY Zenon, <3>1, <3>3, <1>HostTurns
  <2> CASE /\ run'[h].pc \in {"turn", "finish", "failing"}
           /\ run'[h].pc = "failing" => run'[h].out = "failed"
           /\ run'[h].turn = run[h].turn + 1
           /\ \E stop \in BOOLEAN : Commits("checkpoint", head, run[h].turn + 1, stop)
    <3> DEFINE n == run[h].turn + 1
    <3>1. PICK stop \in BOOLEAN : Commits("checkpoint", head, n, stop)
      BY Zenon
    <3>a. n \in Nat /\ n # 0
      BY SMT, SMTT(30)
    <3>b. \A c \in Own : entries[c].turn < n
      BY Zenon, <2>6, Successor
    <3>2. n \in Nat /\ n # 0 /\ run'[h].turn = n /\ \A c \in Own : entries[c].turn < n
      BY Zenon, <3>a, <3>b
    <3> HIDE DEF n
    <3>3. /\ LogTurns'
          /\ \A c \in Own' : \/ c \in Own /\ entries'[c] = entries[c]
                             \/ c = head' /\ entries'[c].turn = n
      BY Zenon, <3>1, <3>2
    <3>4. \A c \in Own' : entries'[c].turn <= run'[h].turn /\ run'[h].turn # 0
      BY Zenon, <2>6, <3>2, <3>3, Reflexive, Beyond
    <3>5. Fresh(h)'
      BY Zenon, <3>4 DEF Fresh
    <3>6. Orderly(h)'
      BY Zenon DEF Orderly
    <3> QED BY Zenon, <3>3, <3>5, <3>6, <1>HostTurns
  <2> QED BY Zenon, TurnEffect
\* Settling the execution leaves none active.
<1>Inactive. ASSUME Active, NEW state \in {"succeeded", "failed", "cancelled"},
                    SetCurrent(Settle(Current, state))
             PROVE  ~Active'
  <2> USE <1>Inactive
  <2>1. /\ Altered(Settle(Current, state)) /\ ~Live(Settle(Current, state)) /\ StoreType
    BY Zenon, Settling, Facts
  <2>2. Len(execs') = Len(execs) /\ execs'[Len(execs)] = Settle(Current, state)
    BY Zenon, <2>1, Alters
  <2> QED BY Zenon, <2>1, <2>2 DEF Active, Current
\* Completions.
<1>EndTurns. ASSUME Good, NEW h \in Hosts, Finish(h) \/ UnwindCommit(h) \/ UnwindFault(h)
             PROVE  Turns'
  <2> USE <1>EndTurns
  <2>1. Become(h, IdleRun) /\ mode' = mode
    BY Zenon DEF Finish, UnwindCommit, UnwindFault
  <2>2. Alone(h) /\ run'[h].pc = "idle"
    BY Zenon, <2>1, Idles
  <2>3. run'[h].pc \in Unadmitted
    BY <2>2 DEF Unadmitted
  <2>4. entries' = entries \/ ~Active'
    <3> CASE Finish(h)
      <4>1. PICK state \in {"succeeded", "cancelled"} :
               CommitEntry(h, "terminal", run[h].head, 0, FALSE, state)
        BY Zenon DEF Finish
      <4> SetCurrent(Settle(Current, state)) /\ Holds(run[h].exec, run[h].token)
        BY Zenon, <4>1 DEF CommitEntry, CanCommit
      <4>3. run[h].exec # 0 /\ Len(execs) = run[h].exec /\ StoreType /\ run[h].pc = "finish"
        BY Zenon, HostFacts, Facts DEF Finish, Holds, HostBounds, Claimed, Writing
      <4>4. Active
        BY Zenon, <4>3 DEF Active, Holds, Live
      <4> QED BY Zenon, <4>4, <1>Inactive
    <3>2. CASE UnwindCommit(h) /\ entries' # entries
      <4> /\ run[h].pc = "unwind" /\ Holds(run[h].exec, run[h].token) /\ run[h].out # "release"
          /\ SetCurrent(Settle(Current, UnwindState(run[h].out)))
        BY Zenon, <3>2 DEF UnwindCommit
      <4>2. run[h].exec # 0 /\ Len(execs) = run[h].exec /\ StoreType /\ run[h] \in Runs
        BY Zenon, HostFacts, Facts DEF Holds, HostBounds, Claimed
      <4>3. Active
        BY Zenon, <4>2 DEF Active, Holds, Live
      <4>4. run[h].out # "handoff" /\ run[h].out # "none"
        BY Zenon, HostFacts DEF Turns, Orderly, HostBounds
      <4>5. run[h].out \in {"failed", "cancelled"}
        BY Zenon, <4>2, <4>4 DEF Runs
      <4>6. UnwindState(run[h].out) = run[h].out
        BY Zenon, <4>5 DEF UnwindState
      <4> QED BY Zenon, <4>3, <4>5, <4>6, <1>Inactive
    <3> QED BY Zenon, <3>2 DEF UnwindFault, store
  <2> QED BY Zenon, <2>1, <2>2, <2>3, <2>4, <1>AwayTurns
\* Failures on the way to a completion.
<1>FailTurns. ASSUME Good, NEW h \in Hosts, RunError(h) \/ RunRefused(h) \/ UnwindRead(h)
              PROVE  Turns'
  <2> USE <1>FailTurns
  <2>1. Orderly(h)
    BY Zenon DEF Turns
  <2>2. CASE RunError(h) \/ RunRefused(h)
    <3> /\ Alone(h) /\ run'[h].pc = "failing" /\ run'[h].out \in {"failed", "cancelled"}
        /\ run[h].pc \in Writing /\ UNCHANGED <<entries, head, execs, claims, mode, cancel>>
      BY Zenon, <2>2, ErrorEffect
    <3>2. mode[h] # "closing"
      BY Zenon, <2>1 DEF Orderly, Unadmitted, Writing
    <3>3. Fresh(h)' /\ Orderly(h)'
      BY Zenon, <3>2 DEF Fresh, Orderly
    <3>4. LogTurns'
      BY Zenon, <1>PlainStep
    <3> QED BY Zenon, <3>3, <3>4, <1>HostTurns
  <2>3. CASE UnwindRead(h)
    <3> /\ Alone(h) /\ run'[h].pc = "unwind" /\ run'[h].out = Outcome(h)
        /\ run[h].pc = "failing" /\ UNCHANGED <<entries, head, execs, claims, mode, cancel>>
      BY Zenon, <2>3, UnwindEffect
    <3>2. mode[h] # "closing" /\ run[h].out # "handoff"
      BY Zenon, <2>1 DEF Orderly, Unadmitted
    <3>3. Outcome(h) # "handoff"
      BY Zenon, <3>2 DEF Outcome
    <3>4. Fresh(h)' /\ Orderly(h)'
      BY Zenon, <3>2, <3>3 DEF Fresh, Orderly
    <3>5. LogTurns'
      BY Zenon, <1>PlainStep
    <3> QED BY Zenon, <3>4, <3>5, <1>HostTurns
  <2> QED BY Zenon, <2>2, <2>3
\* Steps that change no more than contexts: renewals, cancellations, rollbacks.
<1>AsideTurns. ASSUME Good, NEW h \in Hosts,
                      \/ Renew(h) \/ RenewFault(h) \/ CancelExecution(h) \/ CancelStep(h)
                      \/ RollbackTrajectory(h)
               PROVE  Turns'
  <2> USE <1>AsideTurns
  <2>0. mode' = mode
    BY Zenon DEF Renew, RenewFault, CancelExecution, CancelStep, CancelHosted, CancelRead,
          CancelCommit,
           RollbackTrajectory
  <2>1. \A g \in Hosts : Calm(g)
    <3>1. "lost" \in {"live", "cancelled", "lost"}
      OBVIOUS
    <3>2. \/ UNCHANGED run
          \/ run' = [run EXCEPT ![h] = [run[h] EXCEPT !.ctx = "lost"]]
          \/ \E id : Interrupt(h, id)
      BY Zenon DEF Renew, RenewFault, CancelExecution, CancelStep, CancelHosted, CancelRead,
            CancelCommit,
             RollbackTrajectory, Become
    <3> QED BY <3>1, <3>2, SameRuns, ContextEnds, Interrupting, Zenon
  <2>2. entries' = entries \/ ~Active \/ ~Active'
    <3> CASE CancelCommit(h) /\ Active /\ entries' # entries
      <4>1. SetCurrent(Settle(Current, "cancelled"))
        BY Zenon DEF CancelCommit
      <4> QED BY <4>1, <1>Inactive
    <3> QED BY Zenon DEF Renew, RenewFault, CancelExecution, CancelStep, CancelHosted, CancelRead,
           RollbackTrajectory, store
  <2> QED BY Zenon, <2>0, <2>1, <2>2, <1>CalmTurns
\* Drains, crashes and restarts.
<1>ModeTurns. ASSUME Good, ~Closes, NEW h \in Hosts, Lifecycle(h)
              PROVE  Turns'
  <2> USE <1>ModeTurns
  <2> mode \in [Hosts -> Modes] /\ entries' = entries /\ Orderly(h) /\ Fresh(h) /\ StoreStep
    BY DEF Inv, HostType, Lifecycle, RequestDrain, RequestClose, FinishClose, Crash, Restart, store,
           Turns, Good
  <2>1. LogTurns'
    BY <1>PlainStep
  <2> CASE RequestDrain(h) \/ RequestClose(h)
    <3> UNCHANGED run /\ \E m : mode' = [mode EXCEPT ![h] = m]
      BY Zenon DEF RequestDrain, RequestClose
    <3>2. /\ mode'[h] = "closing" => run[h].pc \in Unadmitted
          /\ \A g \in Hosts : g # h => mode'[g] = mode[g]
      BY Zenon DEF RequestDrain, RequestClose
    <3>3. Alone(h) /\ Calm(h)
      BY Zenon, SameRuns DEF Alone
    <3>4. Fresh(h)'
      BY Zenon, <3>3, <1>FreshKept
    <3>5. Orderly(h)'
      BY Zenon, <3>2 DEF Orderly
    <3> QED BY Zenon, <2>1, <3>2, <3>3, <3>4, <3>5, <1>HostTurns
  <2>3. CASE FinishClose(h) \/ Crash(h)
    <3>1. Become(h, IdleRun) /\ mode' = [mode EXCEPT ![h] = "down"]
      BY Zenon, <2>3 DEF FinishClose, Crash
    <3>2. Alone(h) /\ run'[h].pc = "idle" /\ \A g \in Hosts : g # h => mode'[g] = mode[g]
      BY Zenon, <3>1, Idles
    <3>3. run'[h].pc \in Unadmitted
      BY Zenon, <3>2 DEF Unadmitted
    <3> QED BY Zenon, <3>2, <3>3, <1>AwayTurns
  <2>4. CASE Restart(h)
    <3> DEFINE r == [IdleRun EXCEPT !.pc = "started"]
    <3>1. Become(h, r) /\ mode' = [mode EXCEPT ![h] = "open"]
      BY <2>4 DEF Restart
    <3>2. r \in Runs /\ r.pc = "started" /\ HostType
      BY Zenon, Facts DEF IdleRun, Runs, Counters
    <3> HIDE DEF r
    <3>3. Alone(h) /\ run'[h].pc = "started" /\ \A g \in Hosts : g # h => mode'[g] = mode[g]
      BY Zenon, <3>1, <3>2, Becomes DEF Alone
    <3>4. run'[h].pc \in Unadmitted
      BY Zenon, <3>3 DEF Unadmitted
    <3> QED BY Zenon, <3>3, <3>4, <1>AwayTurns
  <2> QED BY <2>3, <2>4 DEF Lifecycle
<1> Good
  BY Zenon, EveryStep
<1>1. ASSUME NEW h \in Hosts, Work(h) PROVE Turns'
  BY Zenon, <1>1, <1>ClaimTurns, <1>RestoreTurns, <1>StepTurns, <1>EndTurns, <1>FailTurns DEF Work
<1>2. CASE Tick \/ FenceCancellation \/ UNCHANGED vars
  <2>1. UNCHANGED run /\ UNCHANGED mode /\ entries' = entries
    BY Zenon, <1>2 DEF Tick, FenceCancellation, vars
  <2> QED BY Zenon, <2>1, SameRuns, <1>CalmTurns
<1> QED BY Zenon, <1>1, <1>2, <1>AcceptTurns, <1>PlanTurns, <1>FailTurns, <1>AsideTurns,
      <1>EndTurns, <1>ModeTurns DEF Next

\* There is no turn in the empty log.
LEMMA InitTurns == Init => Turns
<1> SUFFICES ASSUME Init PROVE Turns
  OBVIOUS
<1>1. /\ entries = <<>> /\ execs = <<>> /\ DOMAIN entries = {} /\ ~Active
  BY DEF Init, Active
<1>2. ASSUME NEW h \in Hosts PROVE run[h].pc = "idle" /\ mode[h] = "open"
  BY Zenon DEF Init, IdleRun
<1>3. LogTurns
  BY <1>1 DEF LogTurns, NoTurnRedone
<1> QED BY Zenon, <1>2, <1>3 DEF Turns, Fresh, Orderly

\* No turn of an execution is checkpointed twice, whichever hosts crash, recover it
\* or still run it when its lease has passed to another: a recovery goes on after
\* the latest checkpoint, and the head fences the host that lost the race. Closes
\* are left out, since a close hands the execution off at its base.
THEOREM TurnsOnce == ~Closes => (Spec => []NoTurnRedone)
<1>1. SUFFICES ASSUME ~Closes PROVE Spec => []NoTurnRedone
  OBVIOUS
<1>2. Inv /\ Turns /\ [Next]_vars => Turns'
  BY Zenon, <1>1, TurnsStep
<1>3. Turns => NoTurnRedone
  BY Zenon DEF Turns, LogTurns
<1> QED BY <1>2, <1>3, Invariance, InitTurns, PTL DEF Spec

-----------------------------------------------------------------------------
(***************************************************************************)
(* The callers that wait.                                                  *)
(***************************************************************************)

\* A timely host that claimed an execution holds its lease until it is settled.
Under(h) == Holds(run[h].exec, run[h].token) \/ ~Live(execs[run[h].exec])

\* ... and unwinds it from the head it reads; the caller of a cancellation waits for
\* a host, or for an execution that is settled.
Waits(h) ==
    LET r == run[h] IN
    /\ mode[h] \in {"open", "down"} /\ (r.pc # "idle" => mode[h] = "open")
    /\ r.pc \in Claimed => r.token <= claims /\ Under(h)
    /\ r.pc \in {"failing", "unwind"} => r.out \in {"failed", "cancelled"}
    /\ r.pc = "unwind" /\ Holds(r.exec, r.token) => r.head = head
    /\ cancel[h].pc = "waiting" => Hosting(h, cancel[h].id) \/ ~Live(execs[cancel[h].id])

\* No two hosts run under one token.
Distinct ==
    \A g, h \in Hosts :
        g # h /\ run[g].pc \in Claimed /\ run[h].pc \in Claimed => run[g].token # run[h].token

\* The inductive invariant for CancelSettles, on top of Inv.
Waiting == Distinct /\ \A h \in Hosts : Waits(h)

\* Holds in the next state, for the execution and token of this one.
HoldsNext(id, token) ==
    /\ id = Len(execs') /\ execs'[id].state = "running"
    /\ execs'[id].token = token /\ execs'[id].lease > 0

\* What a step leaves holder g with: its lease and its head, or a settled execution.
Lasting(g) ==
    run[g].pc \in Claimed /\ Holds(run[g].exec, run[g].token) =>
        /\ HoldsNext(run[g].exec, run[g].token) \/ ~Live(execs'[run[g].exec])
        /\ run[g].pc = "unwind" /\ HoldsNext(run[g].exec, run[g].token) => head' = head

\* It is Holds primed for a run that keeps both.
LEMMA NextHolds ==
    ASSUME NEW g, run'[g].exec = run[g].exec, run'[g].token = run[g].token
    PROVE  Holds(run[g].exec, run[g].token)' <=> HoldsNext(run[g].exec, run[g].token)
BY Zenon DEF Holds, HoldsNext, Current

\* A settled execution stays settled.
LEMMA StaysSettled ==
    ASSUME Inv, Good, NEW id \in Nat, id # 0, id <= Len(execs), ~Live(execs[id])
    PROVE  ~Live(execs'[id])
<1>1. StoreType /\ Store /\ StoreStep /\ Len(execs) \in Nat
  BY Facts DEF Good
<1>2. ExecsKept
  BY <1>1, StoreSteps
<1>3. id \in 1..Len(execs)
  BY <1>1
<1> QED BY Zenon, <1>2, <1>3 DEF ExecsKept

\* A run whose execution is settled holds nothing more ...
LEMMA SettledRun ==
    ASSUME Inv, Good, NEW g \in Hosts, run[g].pc \in Claimed, ~Live(execs[run[g].exec])
    PROVE  ~Live(execs'[run[g].exec]) /\ ~HoldsNext(run[g].exec, run[g].token)
<1>1. run[g].exec \in Nat /\ run[g].exec # 0 /\ run[g].exec <= Len(execs)
  BY Zenon, HostFacts DEF HostBounds
<1>2. ~Live(execs'[run[g].exec])
  BY Zenon, <1>1, StaysSettled
<1> QED BY Zenon, <1>2 DEF HoldsNext, Live

\* ... and who waits for it waits for a settled one.
LEMMA SettledWait ==
    ASSUME Inv, Good, NEW g \in Hosts, cancel[g].pc = "waiting", ~Live(execs[cancel[g].id])
    PROVE  ~Live(execs'[cancel[g].id])
<1>1. cancel[g].id \in Nat /\ cancel[g].id # 0 /\ cancel[g].id <= Len(execs)
  BY Zenon, CancelFacts DEF CancelBounds
<1> QED BY Zenon, <1>1, StaysSettled

\* A run that keeps its claim is under it after the step.
LEMMA UnderKept ==
    ASSUME Inv, Good, NEW g \in Hosts, run[g].pc \in Claimed, Under(g), Lasting(g),
           run'[g].exec = run[g].exec, run'[g].token = run[g].token
    PROVE  /\ Under(g)'
           /\ run[g].pc = "unwind" /\ Holds(run[g].exec, run[g].token)' =>
                 Holds(run[g].exec, run[g].token) /\ head' = head
<1>1. Holds(run[g].exec, run[g].token)' <=> HoldsNext(run[g].exec, run[g].token)
  BY Zenon, NextHolds
<1>2. CASE Holds(run[g].exec, run[g].token)
  BY Zenon, <1>1, <1>2 DEF Lasting, Under
<1>3. CASE ~Live(execs[run[g].exec])
  <2>1. ~Live(execs'[run[g].exec]) /\ ~HoldsNext(run[g].exec, run[g].token)
    BY Zenon, <1>3, SettledRun
  <2>2. Under(g)'
    BY Zenon, <2>1 DEF Under, Live
  <2> QED BY Zenon, <1>1, <2>1, <2>2
<1> QED BY Zenon, <1>2, <1>3 DEF Under

\* A host that does not move.
LEMMA CalmWaits ==
    ASSUME Inv, Good, NEW g \in Hosts, Waits(g), Calm(g), Lasting(g), mode'[g] = mode[g],
           \/ cancel'[g] = cancel[g] \/ cancel'[g].pc # "waiting"
           \/ Hosting(g, cancel'[g].id),
           claims' \in {claims, claims + 1}
    PROVE  Waits(g)'
<1> /\ run'[g].pc = run[g].pc /\ run'[g].exec = run[g].exec /\ run'[g].token = run[g].token
    /\ run'[g].head = run[g].head /\ run'[g].out = run[g].out
  BY Zenon DEF Calm
<1>2. mode'[g] \in {"open", "down"} /\ (run'[g].pc # "idle" => mode'[g] = "open")
  BY Zenon DEF Waits
<1>3. run'[g].pc \in Claimed => run'[g].token <= claims' /\ Under(g)'
  <2> SUFFICES ASSUME run[g].pc \in Claimed PROVE run[g].token <= claims' /\ Under(g)'
    BY Zenon
  <2>1. run[g].token <= claims /\ Under(g) /\ claims \in Nat /\ run[g].token \in Nat
    BY Zenon, HostFacts DEF Waits, Inv, HostType
  <2>2. run[g].token <= claims'
    BY Zenon, <2>1, Successor
  <2>3. Under(g)'
    BY Zenon, <2>1, UnderKept
  <2> QED BY Zenon, <2>2, <2>3
<1>4. run'[g].pc \in {"failing", "unwind"} => run'[g].out \in {"failed", "cancelled"}
  BY Zenon DEF Waits
<1>5. run'[g].pc = "unwind" /\ Holds(run[g].exec, run[g].token)' => run'[g].head = head'
  <2> SUFFICES ASSUME run[g].pc = "unwind", Holds(run[g].exec, run[g].token)'
               PROVE  run[g].head = head'
    BY Zenon
  <2>1. run[g].pc \in Claimed
    BY Zenon DEF Claimed
  <2>2. Under(g)
    BY Zenon, <2>1 DEF Waits
  <2>3. Holds(run[g].exec, run[g].token) /\ head' = head
    BY Zenon, <2>1, <2>2, UnderKept
  <2> QED BY Zenon, <2>3 DEF Waits
<1>6. cancel'[g].pc = "waiting" =>
         Hosting(g, cancel[g].id)' \/ ~Live(execs'[cancel'[g].id])
  <2>1. CASE Hosting(g, cancel'[g].id)
    BY Zenon, <2>1 DEF Hosting
  <2> CASE cancel'[g] = cancel[g] /\ cancel[g].pc = "waiting"
    <3>1. CASE Hosting(g, cancel[g].id)
      BY Zenon, <3>1 DEF Hosting
    <3>2. CASE ~Live(execs[cancel[g].id])
      BY Zenon, <3>2, SettledWait
    <3> QED BY Zenon, <3>1, <3>2 DEF Waits
  <2> QED BY Zenon, <2>1
<1> QED BY <1>2, <1>3, <1>4, <1>5, <1>6, Zenon DEF Waits, Live

\* A host that ends its run, or had none, leaves no caller waiting for a live execution.
LEMMA LeaveWaits ==
    ASSUME Inv, Good, NEW h \in Hosts, Waits(h), run'[h].pc \notin Claimed,
           run[h].pc \in Claimed => ~Live(execs'[run[h].exec]),
           mode'[h] \in {"open", "down"}, run'[h].pc # "idle" => mode'[h] = "open",
           cancel'[h] = cancel[h] \/ cancel'[h].pc # "waiting"
    PROVE  Waits(h)'
<1>1. run'[h].pc \notin {"failing", "unwind"}
  BY Zenon DEF Claimed
<1>2. cancel'[h].pc = "waiting" => ~Live(execs'[cancel'[h].id])
  <2> SUFFICES ASSUME cancel[h].pc = "waiting", cancel'[h] = cancel[h]
               PROVE  ~Live(execs'[cancel[h].id])
    OBVIOUS
  <2>1. CASE Hosting(h, cancel[h].id)
    BY Zenon, <2>1 DEF Hosting
  <2>2. CASE ~Live(execs[cancel[h].id])
    BY Zenon, <2>2, SettledWait
  <2> QED BY Zenon, <2>1, <2>2 DEF Waits
<1> QED BY <1>1, <1>2, Zenon DEF Waits, Live

\* A host that goes on with its execution.
LEMMA GoesOn ==
    ASSUME Inv, Good, NEW h \in Hosts, Waits(h), run[h].pc \in Claimed, Lasting(h),
           run'[h].pc \in Claimed,
           run'[h].exec = run[h].exec, run'[h].token = run[h].token,
           run'[h].pc \in {"failing", "unwind"} => run'[h].out \in {"failed", "cancelled"},
           run'[h].pc = "unwind" => run'[h].head = head',
           claims' = claims, mode'[h] = mode[h], cancel'[h] = cancel[h]
    PROVE  Waits(h)'
<1>1. run[h].pc # "idle" /\ run'[h].pc # "idle"
  BY Zenon DEF Claimed, Writing
<1>2. mode'[h] = "open" /\ run'[h].token <= claims'
  BY Zenon, <1>1 DEF Waits
<1>3. Under(h)'
  BY Zenon, UnderKept DEF Waits
<1>4. cancel'[h].pc = "waiting" =>
         Hosting(h, cancel[h].id)' \/ ~Live(execs'[cancel'[h].id])
  <2> SUFFICES ASSUME cancel[h].pc = "waiting"
               PROVE  Hosting(h, cancel[h].id)' \/ ~Live(execs'[cancel[h].id])
    BY Zenon
  <2>1. CASE Hosting(h, cancel[h].id)
    BY Zenon, <2>1 DEF Hosting
  <2>2. CASE ~Live(execs[cancel[h].id])
    BY Zenon, <2>2, SettledWait
  <2> QED BY Zenon, <2>1, <2>2 DEF Waits
<1> QED BY <1>2, <1>3, <1>4, Zenon DEF Waits, Live

\* A holder holds the active execution, and nobody else may claim it.
LEMMA HolderActive ==
    ASSUME Inv, NEW g \in Hosts, run[g].pc \in Claimed, Holds(run[g].exec, run[g].token)
    PROVE  /\ Active /\ run[g].exec = Len(execs) /\ Current.state = "running"
           /\ Current.lease > 0 /\ ~RecoverableNow
<1>1. run[g].exec # 0 /\ StoreType
  BY Zenon, HostFacts, Facts DEF HostBounds
<1>2. run[g].exec = Len(execs) /\ Current.state = "running" /\ Current.lease > 0
  BY Zenon DEF Holds
<1>3. execs # <<>>
  BY Zenon, <1>1, <1>2 DEF StoreType
<1> QED BY Zenon, <1>2, <1>3 DEF Active, Live, RecoverableNow

\* Without a holder there is nothing to keep.
LEMMA NoHolder ==
    ASSUME Inv, ~Active \/ RecoverableNow
    PROVE  \A g \in Hosts : Lasting(g)
BY Zenon, HolderActive DEF Lasting

\* Steps that alter no execution.
LEMMA SameExecutions ==
    ASSUME Inv, execs' = execs, NEW g \in Hosts, run[g].pc = "unwind" => head' = head
    PROVE  Lasting(g)
BY Zenon DEF Lasting, Holds, HoldsNext, Current

\* Settling the execution.
LEMMA SettleLasts ==
    ASSUME Inv, Active, NEW state \in {"succeeded", "failed", "cancelled"},
           SetCurrent(Settle(Current, state))
    PROVE  (\A g \in Hosts : Lasting(g)) /\ ~Live(execs'[Len(execs)])
<1>1. /\ Altered(Settle(Current, state)) /\ ~Live(Settle(Current, state)) /\ StoreType
  BY Settling, Facts
<1>2. Len(execs') = Len(execs) /\ execs'[Len(execs)] = Settle(Current, state)
  BY <1>1, Alters
<1>3. ~Live(execs'[Len(execs)]) /\ execs'[Len(execs)].state # "running"
  BY Zenon, <1>1, <1>2 DEF Live
<1> QED BY Zenon, <1>3 DEF Lasting, Holds, HoldsNext

\* A renewal, and a tick that leaves some lease or finds no holder.
LEMMA LeaseLasts ==
    ASSUME Inv, Active, NEW n \in 0..LeaseTicks, SetCurrent([Current EXCEPT !.lease = n]),
           head' = head,
           n > 0 \/ ~ \E h \in Hosts : run[h].pc \in Claimed /\ Holds(run[h].exec, run[h].token)
    PROVE  \A g \in Hosts : Lasting(g)
<1> DEFINE x == [Current EXCEPT !.lease = n]
<1>1. StoreType /\ execs # <<>>
  BY Facts DEF Active
<1>2. Current \in Executions /\ Len(execs) \in DOMAIN execs /\ Len(execs) \in 1..Len(execs)
  BY <1>1, Last
<1>3. x \in Executions /\ x.state = Current.state /\ x.token = Current.token /\ x.lease = n
  <2>1. x = [Current EXCEPT !.lease = n]
    OBVIOUS
  <2> HIDE DEF x
  <2> QED BY Zenon, <1>2, <2>1 DEF Executions
<1>4. execs' = [execs EXCEPT ![Len(execs)] = x]
  BY DEF SetCurrent
<1> HIDE DEF x
<1>5. Len(execs') = Len(execs) /\ execs'[Len(execs)] = x
  BY <1>1, <1>2, <1>3, <1>4, Replaced DEF StoreType
<1>6. n \in Nat
  BY ConstantsAssumption
<1> QED BY Zenon, <1>3, <1>5, <1>6 DEF Lasting, Holds, HoldsNext

\* No new token.
LEMMA DistinctKept ==
    ASSUME Distinct,
           \A g \in Hosts : run'[g].pc \in Claimed =>
               run[g].pc \in Claimed /\ run'[g].token = run[g].token
    PROVE  Distinct'
BY Zenon DEF Distinct

\* A step of host h's run.
LEMMA HostWaits ==
    ASSUME Inv, Good, Waiting, NEW h \in Hosts, Alone(h), Waits(h)',
           \A g \in Hosts : g # h => Lasting(g) /\ mode'[g] = mode[g] /\ cancel'[g] = cancel[g],
           claims' \in {claims, claims + 1},
           run'[h].pc \in Claimed =>
              \/ run[h].pc \in Claimed /\ run'[h].token = run[h].token
              \/ run'[h].token = claims + 1
    PROVE  Waiting'
<1> ASSUME NEW g \in Hosts, g # h PROVE Waits(g)'
  <2>1. /\ Calm(g) /\ Lasting(g) /\ mode'[g] = mode[g] /\ cancel'[g] = cancel[g] /\ Waits(g)
    BY Zenon DEF Alone, Waiting
  <2> QED BY Zenon, <2>1, CalmWaits
<1> \A g \in Hosts : g # h => run'[g] = run[g]
  BY Zenon DEF Alone
<1>3. CASE run'[h].pc \in Claimed => run[h].pc \in Claimed /\ run'[h].token = run[h].token
  <2>1. Distinct'
    BY Zenon, <1>3, DistinctKept DEF Waiting
  <2> QED BY Zenon, <2>1 DEF Waiting
<1>4. CASE run'[h].token = claims + 1
  <2>1. \A g \in Hosts : g # h /\ run'[g].pc \in Claimed => run'[g].token # claims + 1
    <3> SUFFICES ASSUME NEW g \in Hosts, g # h, run[g].pc \in Claimed
                 PROVE  run[g].token # claims + 1
      BY Zenon
    <3>1. run[g].token <= claims /\ run[g].token \in Nat /\ claims \in Nat
      BY Zenon, HostFacts DEF Waiting, Waits, Inv, HostType
    <3> QED BY SMT, SMTT(30), <3>1
  <2>2. Distinct'
    <3> SUFFICES ASSUME NEW a \in Hosts, NEW b \in Hosts, a # b, run'[a].pc \in Claimed,
                        run'[b].pc \in Claimed
                 PROVE  run'[a].token # run'[b].token
      BY Zenon DEF Distinct
    <3>1. CASE a # h /\ b # h
      BY Zenon, <3>1 DEF Waiting, Distinct
    <3> QED BY Zenon, <1>4, <2>1, <3>1
  <2> QED BY <2>2 DEF Waiting
<1> QED BY Zenon, <1>3, <1>4

\* A step in which no run moves.
LEMMA AsideWaits ==
    ASSUME Inv, Good, Waiting, \A g \in Hosts : Calm(g) /\ Lasting(g), UNCHANGED <<mode, claims>>,
           \A g \in Hosts : \/ cancel'[g] = cancel[g] \/ cancel'[g].pc # "waiting"
                            \/ Hosting(g, cancel'[g].id)
    PROVE  Waiting'
<1>1. ASSUME NEW g \in Hosts PROVE Waits(g)'
  <2>1. Waits(g)
    BY Zenon DEF Waiting
  <2> QED BY Zenon, <2>1, CalmWaits
<1>2. Distinct'
  BY Zenon, DistinctKept DEF Waiting, Calm
<1> QED BY Zenon, <1>1, <1>2 DEF Waiting

\* Accepting a prompt and planning a recovery.
LEMMA AcceptWaits ==
    ASSUME Inv, Good, Waiting, NEW h \in Hosts, Accept(h) \/ PlanRecovery(h)
    PROVE  Waiting'
<1>0. UNCHANGED <<claims, mode, cancel>>
  BY Zenon DEF Accept, NothingToRecover, ResumeSession, MoveHead, SubmitPrompt, PlanRecovery, store
<1>1. /\ run[h].pc \in {"started", "idle", "moving", "resumed"}
      /\ run[h].pc = "idle" => mode[h] = "open"
  BY Zenon DEF Accept, NothingToRecover, ResumeSession, MoveHead, SubmitPrompt, PlanRecovery
<1>2. /\ Alone(h) /\ run'[h].pc \in {"idle", "moving", "resumed", "accepted", "planned"}
  <2>1. NothingToRecover(h) => Become(h, IdleRun)
    BY Zenon DEF NothingToRecover
  <2> QED BY Zenon, <2>1, Idles, ResumeEffect, MoveEffect, SubmitEffect, PlanEffect DEF Accept
<1>3. \A g \in Hosts : Lasting(g)
  <2>1. CASE ~Active \/ RecoverableNow
    BY Zenon, <2>1, NoHolder
  <2>2. CASE UNCHANGED <<head, execs>>
    BY Zenon, <2>2, SameExecutions
  <2> QED BY Zenon, <2>1, <2>2
        DEF Accept, NothingToRecover, ResumeSession, MoveHead, SubmitPrompt, PlanRecovery, store
<1>4. run[h].pc \notin Claimed /\ run'[h].pc \notin Claimed
  BY Zenon, <1>1, <1>2 DEF Claimed, Writing
<1>5. Waits(h) /\ mode[h] = "open"
  BY Zenon, <1>1 DEF Waiting, Waits
<1>6. Waits(h)'
  BY Zenon, <1>0, <1>4, <1>5, LeaveWaits
<1> QED BY Zenon, <1>0, <1>2, <1>3, <1>4, <1>6, HostWaits

\* Claims: the token is new and the lease is full.
LEMMA ClaimWaits ==
    ASSUME Inv, Good, Waiting, NEW h \in Hosts, RunSubmission(h) \/ RecoverExecution(h)
    PROVE  Waiting'
<1> Alone(h) /\ UNCHANGED <<entries, head, mode, cancel>>
  BY Zenon, ClaimEffect
<1>1. run[h].pc \in {"accepted", "planned"}
  BY Zenon DEF RunSubmission, RecoverExecution
<1> run[h].pc \notin Claimed /\ run[h].pc # "idle"
  BY Zenon, <1>1 DEF Claimed, Writing
<1> Waits(h) /\ mode[h] = "open"
  BY Zenon DEF Waiting, Waits
<1>4. (Claim \/ UNCHANGED <<execs, claims>>) => \A g \in Hosts : Lasting(g)
  <2>1. Claim => RecoverableNow
    BY Zenon DEF Claim
  <2>2. CASE UNCHANGED <<execs, claims>>
    BY Zenon, <2>2, SameExecutions
  <2> QED BY Zenon, <2>1, <2>2, NoHolder
<1>5. Claim \/ UNCHANGED <<execs, claims>> => claims' \in {claims, claims + 1}
  BY Zenon DEF Claim
<1> CASE run'[h].pc = "idle" /\ (Claim \/ UNCHANGED <<execs, claims>>)
  <2>1. run'[h].pc \notin Claimed
    BY Zenon DEF Claimed, Writing
  <2>2. Waits(h)'
    BY Zenon, <2>1, LeaveWaits
  <2> QED BY Zenon, <1>4, <1>5, <2>1, <2>2, HostWaits
<1> CASE /\ Claim /\ run'[h].exec = Len(execs) /\ run'[h].token = claims'
         /\ run'[h].pc \in {"turn", "restore"}
  <2> DEFINE x == [Current EXCEPT !.state = "running", !.token = claims + 1, !.lease = LeaseTicks]
  <2> execs' = [execs EXCEPT ![Len(execs)] = x] /\ claims' = claims + 1 /\ execs # <<>>
    BY Zenon DEF Claim, SetCurrent, RecoverableNow, Active
  <2> StoreType /\ claims \in Nat /\ LeaseTicks \in Nat /\ LeaseTicks > 0
    BY Facts, ConstantsAssumption DEF Inv, HostType
  <2>3. Current \in Executions /\ Len(execs) \in 1..Len(execs)
    BY Last
  <2>4. x \in Executions /\ x.state = "running" /\ x.token = claims + 1 /\ x.lease = LeaseTicks
    <3>1. x = [Current EXCEPT !.state = "running", !.token = claims + 1, !.lease = LeaseTicks]
      OBVIOUS
    <3>2. claims + 1 \in Nat /\ LeaseTicks \in 0..LeaseTicks /\ Current \in Executions
      BY <2>3
    <3> HIDE DEF x
    <3> QED BY Zenon, <3>1, <3>2 DEF Executions, States
  <2> HIDE DEF x
  <2>5. Len(execs') = Len(execs) /\ execs'[Len(execs)] = x
    BY SMT, SMTT(30), <2>3, <2>4, Replaced DEF StoreType
  <2>6. Under(h)'
    BY Zenon, <2>4, <2>5 DEF Under, Holds, Current
  <2>7. cancel'[h].pc = "waiting" => ~Live(execs'[cancel'[h].id])
    <3> SUFFICES ASSUME cancel[h].pc = "waiting" PROVE ~Live(execs'[cancel[h].id])
      BY Zenon
    <3>1. ~Live(execs[cancel[h].id])
      BY Zenon DEF Waits, Hosting
    <3> QED BY Zenon, <3>1, SettledWait
  <2>8. run'[h].token <= claims' /\ run'[h].pc \notin {"failing", "unwind"} /\ mode'[h] = "open"
    BY SMT, SMTT(30)
  <2>9. Waits(h)'
    BY <2>6, <2>7, <2>8, Zenon DEF Waits, Live
  <2> QED BY Zenon, <1>4, <1>5, <2>9, HostWaits
<1> QED BY Zenon, ClaimEffect

\* A claimed run goes on.
LEMMA RunWaits ==
    ASSUME Inv, Good, Waiting, NEW h \in Hosts,
           \/ RestoreExecutionHead(h)
           \/ PromptBlocked(h) \/ TurnProgress(h) \/ CheckpointTurn(h)
           \/ RunError(h) \/ RunRefused(h) \/ UnwindRead(h)
    PROVE  Waiting'
<1> Waits(h) /\ Distinct
  BY Zenon DEF Waiting
<1> /\ Alone(h) /\ UNCHANGED <<execs, claims, mode, cancel>>
    /\ run'[h].exec = run[h].exec /\ run'[h].token = run[h].token
    /\ run[h].pc \in {"restore", "turn", "mid", "finish", "failing"}
    /\ head' = head \/ Holds(run[h].exec, run[h].token)
    /\ run'[h].pc \in {"turn", "mid", "finish", "failing", "unwind"}
    /\ run'[h].pc = "failing" => run'[h].out \in {"failed", "cancelled"}
    /\ run'[h].pc = "unwind" =>
          run[h].pc = "failing" /\ run'[h].out = Outcome(h) /\ run'[h].head = head'
  <2>1. CASE RestoreExecutionHead(h)
    BY Zenon, <2>1, RestoreEffect DEF Continues, Commits
  <2>2. CASE PromptBlocked(h) \/ TurnProgress(h) \/ CheckpointTurn(h)
    BY Zenon, <2>2, TurnEffect
  <2>3. CASE RunError(h) \/ RunRefused(h)
    BY Zenon, <2>3, ErrorEffect DEF Writing
  <2>4. CASE UnwindRead(h)
    BY Zenon, <2>4, UnwindEffect
  <2> QED BY Zenon, <2>1, <2>2, <2>3, <2>4
<1> run[h].pc \in Claimed /\ run'[h].pc \in Claimed /\ run[h].pc # "unwind" /\ run[h].pc # "idle"
  BY Zenon DEF Claimed, Writing
<1>3. Lasting(h)
  BY Zenon, SameExecutions
<1>4. run'[h].pc = "unwind" => run'[h].out \in {"failed", "cancelled"}
  BY Zenon DEF Waits, Outcome
<1>5. Waits(h)'
  BY Zenon, <1>3, <1>4, GoesOn
<1>6. ASSUME NEW g \in Hosts, g # h PROVE Lasting(g)
  <2>1. CASE head' = head
    BY Zenon, <2>1, SameExecutions
  <2>2. CASE Holds(run[h].exec, run[h].token)
    <3>1. run[g].pc \in Claimed => ~Holds(run[g].exec, run[g].token)
      BY Zenon, <1>6, <2>2 DEF Holds, Distinct
    <3> QED BY Zenon, <3>1 DEF Lasting
  <2> QED BY Zenon, <2>1, <2>2
<1> QED BY Zenon, <1>5, <1>6, HostWaits

\* A claimed run completes its execution, or has lost it.
LEMMA EndWaits ==
    ASSUME Inv, Good, Waiting, NEW h \in Hosts, Finish(h) \/ UnwindCommit(h)
    PROVE  Waiting'
<1> Waits(h) /\ Become(h, IdleRun) /\ UNCHANGED <<claims, mode, cancel>>
  BY Zenon DEF Waiting, Finish, UnwindCommit, CommitEntry
<1> Alone(h) /\ run'[h].pc = "idle"
  BY Zenon, Idles
<1>2. run'[h].pc \notin Claimed
  BY Zenon DEF Claimed, Writing
<1>3. run[h].pc \in {"finish", "unwind"} /\ run[h].pc \in Claimed
  BY Zenon DEF Finish, UnwindCommit, Claimed, Writing
<1> ASSUME NEW state \in {"succeeded", "failed", "cancelled"},
           Holds(run[h].exec, run[h].token), SetCurrent(Settle(Current, state))
    PROVE  (\A g \in Hosts : Lasting(g)) /\ ~Live(execs'[run[h].exec])
  <2>1. Active /\ run[h].exec = Len(execs)
    BY Zenon, <1>3, HolderActive
  <2> QED BY Zenon, <2>1, SettleLasts
<1>5. (\A g \in Hosts : Lasting(g)) /\ ~Live(execs'[run[h].exec])
  <2>1. CASE Finish(h)
    <3>1. PICK state \in {"succeeded", "cancelled"} :
             CommitEntry(h, "terminal", run[h].head, 0, FALSE, state)
      BY Zenon, <2>1 DEF Finish
    <3>2. SetCurrent(Settle(Current, state)) /\ Holds(run[h].exec, run[h].token)
      BY Zenon, <3>1 DEF CommitEntry, CanCommit
    <3> QED BY Zenon, <3>2
  <2> CASE /\ UnwindCommit(h) /\ Holds(run[h].exec, run[h].token)
           /\ SetCurrent(Settle(Current, UnwindState(run[h].out)))
    <3>1. run[h].out \in {"failed", "cancelled"}
      BY Zenon DEF Waits, UnwindCommit
    <3>2. UnwindState(run[h].out) = run[h].out
      BY Zenon, <3>1 DEF UnwindState
    <3> QED BY Zenon, <3>1, <3>2
  <2> CASE /\ UnwindCommit(h) /\ (head # run[h].head \/ ~Holds(run[h].exec, run[h].token))
           /\ UNCHANGED <<head, execs>>
    <3>1. ~Holds(run[h].exec, run[h].token)
      BY Zenon DEF Waits, UnwindCommit
    <3>2. ~Live(execs[run[h].exec])
      BY Zenon, <1>3, <3>1 DEF Waits, Under
    <3>3. \A g \in Hosts : Lasting(g)
      BY Zenon, SameExecutions
    <3> QED BY Zenon, <3>2, <3>3
  <2> QED BY Zenon, <2>1 DEF UnwindCommit
<1>6. /\ mode'[h] \in {"open", "down"} /\ (run'[h].pc # "idle" => mode'[h] = "open")
  BY Zenon DEF Waits
<1>7. Waits(h)'
  BY Zenon, <1>2, <1>5, <1>6, LeaveWaits
<1> QED BY Zenon, <1>2, <1>5, <1>7, HostWaits

\* Steps that change no host's place: renewals, cancellations, rollbacks.
LEMMA OtherWaits ==
    ASSUME Inv, Good, Waiting, NEW h \in Hosts,
           \/ Renew(h) \/ RenewFault(h) \/ CancelExecution(h) \/ CancelStep(h)
           \/ RollbackTrajectory(h)
    PROVE  Waiting'
<1>0. UNCHANGED <<mode, claims>>
  BY Zenon DEF Renew, RenewFault, CancelExecution, CancelStep, CancelHosted, CancelRead,
        CancelCommit,
         RollbackTrajectory, store
<1>1. \A g \in Hosts : Calm(g)
  <2>1. "lost" \in {"live", "cancelled", "lost"}
    OBVIOUS
  <2>2. \/ UNCHANGED run
        \/ run' = [run EXCEPT ![h] = [run[h] EXCEPT !.ctx = "lost"]]
        \/ \E id : Interrupt(h, id)
    BY Zenon DEF Renew, RenewFault, CancelExecution, CancelStep, CancelHosted, CancelRead,
           CancelCommit, RollbackTrajectory, Become
  <2> QED BY <2>1, <2>2, SameRuns, ContextEnds, Interrupting, Zenon
<1>2. \A g \in Hosts : Lasting(g)
  <2>1. CASE UNCHANGED <<head, execs>>
    BY <2>1, SameExecutions
  <2>2. CASE ~Active
    BY Zenon, <2>2, NoHolder
  <2> CASE /\ Renew(h) /\ Holds(run[h].exec, run[h].token)
           /\ SetCurrent([Current EXCEPT !.lease = LeaseTicks])
    <3>1. Active
      BY Zenon, HolderActive DEF Renew
    <3>2. LeaseTicks \in 0..LeaseTicks /\ LeaseTicks > 0 /\ head' = head
      BY ConstantsAssumption DEF Renew
    <3> QED BY Zenon, <3>1, <3>2, LeaseLasts
  <2>4. CASE Active /\ SetCurrent(Settle(Current, "cancelled"))
    BY Zenon, <2>4, SettleLasts
  <2> QED BY Zenon, <2>1, <2>2, <2>4 DEF Renew, RenewFault, CancelExecution, CancelStep,
        CancelHosted, CancelRead,
            CancelCommit, RollbackTrajectory, store
<1>3. ASSUME NEW g \in Hosts
      PROVE  \/ cancel'[g] = cancel[g] \/ cancel'[g].pc # "waiting"
             \/ Hosting(g, cancel'[g].id)
  <2> cancel \in [Hosts -> Cancellations] /\ NoCancel.pc = "idle"
    BY Zenon DEF Inv, HostType, NoCancel
  <2>2. CASE UNCHANGED cancel
    BY Zenon, <2>2
  <2> ASSUME NEW c, cancel' = [cancel EXCEPT ![h] = c], c.pc # "waiting" \/ Hosting(h, c.id)
      PROVE  \/ cancel'[g] = cancel[g] \/ cancel'[g].pc # "waiting"
             \/ Hosting(g, cancel'[g].id)
    BY Zenon
  <2>4. CASE CancelExecution(h)
    <3> DEFINE p == IF Hosting(h, Len(execs)) THEN "waiting" ELSE "read"
               c == [NoCancel EXCEPT !.pc = p, !.id = Len(execs), !.tries = 2]
    <3>1. cancel' = [cancel EXCEPT ![h] = c]
      BY <2>4 DEF CancelExecution
    <3>2. c.pc = p /\ c.id = Len(execs)
      BY DEF NoCancel
    <3>3. c.pc # "waiting" \/ Hosting(h, c.id)
      <4> HIDE DEF c
      <4> QED BY Zenon, <3>2
    <3> HIDE DEF c
    <3> QED BY Zenon, <3>1, <3>3
  <2>5. CASE cancel' = [cancel EXCEPT ![h] = NoCancel]
    BY Zenon, <2>5
  <2>6. CASE CancelRead(h)
    <3> DEFINE c == [cancel[h] EXCEPT !.pc = "commit", !.head = head, !.base = Current.base,
                                      !.tries = @ - 1]
    <3>1. cancel' = [cancel EXCEPT ![h] = c]
      BY Zenon, <2>6 DEF CancelRead
    <3>2. c.pc = "commit"
      BY DEF Cancellations
    <3> HIDE DEF c
    <3> QED BY Zenon, <3>1, <3>2
  <2>7. CASE CancelCommit(h) /\ cancel' = [cancel EXCEPT ![h] = [cancel[h] EXCEPT !.pc = "read"]]
    <3> DEFINE c == [cancel[h] EXCEPT !.pc = "read"]
    <3>1. c.pc = "read" /\ cancel' = [cancel EXCEPT ![h] = c]
      BY Zenon, <2>7 DEF Cancellations
    <3> HIDE DEF c
    <3> QED BY <3>1
  <2>8. CancelStep(h) => \/ CancelRead(h) \/ cancel' = [cancel EXCEPT ![h] = NoCancel]
                         \/ /\ CancelCommit(h)
                            /\ cancel' = [cancel EXCEPT ![h] = [cancel[h] EXCEPT !.pc = "read"]]
    BY Zenon DEF CancelStep, CancelHosted, CancelCommit
  <2>9. Renew(h) \/ RenewFault(h) \/ RollbackTrajectory(h) => UNCHANGED cancel
    BY Zenon DEF Renew, RenewFault, RollbackTrajectory
  <2> QED BY Zenon, <2>2, <2>4, <2>5, <2>6, <2>7, <2>8, <2>9
<1> QED BY Zenon, <1>0, <1>1, <1>2, <1>3, AsideWaits

\* Time: a timely host renews before its lease runs out.
LEMMA TimeWaits ==
    ASSUME Inv, Good, Waiting, Timely, Tick \/ FenceCancellation \/ UNCHANGED vars
    PROVE  Waiting'
<1> UNCHANGED <<mode, claims, head>> /\ UNCHANGED run /\ UNCHANGED cancel
  BY DEF Tick, FenceCancellation, vars
<1>1. \A g \in Hosts : Calm(g)
  BY Zenon, SameRuns
<1>2. \A g \in Hosts : Lasting(g)
  <2>1. CASE Tick
    <3> /\ execs # <<>> /\ Current.lease > 0 /\ StoreType /\ Logged
        /\ SetCurrent([Current EXCEPT !.lease = Current.lease - 1])
        /\ Current.lease = 1 => ~ \E h \in Hosts : run[h].pc \in Claimed
                                               /\ Holds(run[h].exec, run[h].token)
      BY Zenon, <2>1, Facts DEF Tick
    <3>2. Current \in Executions /\ Len(execs) \in DOMAIN execs
      BY Zenon, Last
    <3>3. Active
      BY Zenon, <3>2 DEF Logged, Recorded, Current, Active, Live
    <3>4. Current.lease \in 0..LeaseTicks /\ LeaseTicks \in Nat
      BY Zenon, <3>2, ConstantsAssumption DEF Executions
    <3> DEFINE n == Current.lease - 1
    <3>5. n \in 0..LeaseTicks /\ (n > 0 \/ Current.lease = 1)
      BY <3>4
    <3>6. SetCurrent([Current EXCEPT !.lease = n])
      BY Zenon
    <3> HIDE DEF n
    <3> QED BY Zenon, <3>3, <3>5, <3>6, LeaseLasts
  <2>2. CASE FenceCancellation
    BY Zenon, <2>2, SettleLasts DEF FenceCancellation
  <2>3. CASE UNCHANGED vars
    BY Zenon, <2>3, SameExecutions DEF vars
  <2> QED BY Zenon, <2>1, <2>2, <2>3
<1> QED BY Zenon, <1>1, <1>2, AsideWaits

\* Crashes and restarts: the callers go with their host.
LEMMA ModeWaits ==
    ASSUME Inv, Good, Waiting, ~Drains, ~Closes, NEW h \in Hosts, Lifecycle(h)
    PROVE  Waiting'
<1> /\ Waits(h) /\ UNCHANGED <<head, execs, claims>> /\ mode \in [Hosts -> Modes]
    /\ cancel \in [Hosts -> Cancellations]
  BY Zenon DEF Waiting, Lifecycle, RequestDrain, RequestClose, FinishClose, Crash, Restart, store,
         Inv, HostType
<1>1. mode[h] \in {"open", "down"}
  BY Zenon DEF Waits
<1>2. \A g \in Hosts : Lasting(g)
  BY Zenon, SameExecutions
<1>3. Crash(h) \/ Restart(h)
  BY Zenon, <1>1 DEF Lifecycle, RequestDrain, RequestClose, FinishClose
<1>4. CASE Crash(h)
  <2>1. /\ Become(h, IdleRun) /\ mode' = [mode EXCEPT ![h] = "down"]
        /\ cancel' = [cancel EXCEPT ![h] = NoCancel]
    BY Zenon, <1>4 DEF Crash
  <2> Alone(h) /\ run'[h].pc = "idle"
    BY Zenon, <2>1, Idles
  <2>3. /\ mode'[h] = "down" /\ cancel'[h].pc # "waiting"
        /\ \A g \in Hosts : g # h => mode'[g] = mode[g] /\ cancel'[g] = cancel[g]
    BY Zenon, <2>1 DEF NoCancel
  <2>4. run'[h].pc \notin Claimed /\ run'[h].pc \notin {"failing", "unwind"}
    BY Zenon DEF Claimed, Writing
  <2>5. Waits(h)'
    BY Zenon, <2>3, <2>4 DEF Waits
  <2> QED BY Zenon, <1>2, <2>3, <2>4, <2>5, HostWaits
<1>5. CASE Restart(h)
  <2> DEFINE r == [IdleRun EXCEPT !.pc = "started"]
  <2> Become(h, r) /\ mode' = [mode EXCEPT ![h] = "open"] /\ mode[h] = "down" /\ cancel' = cancel
    BY Zenon, <1>5 DEF Restart
  <2>2. r \in Runs /\ r.pc = "started" /\ HostType
    BY Zenon, Facts DEF IdleRun, Runs, Counters
  <2> HIDE DEF r
  <2> /\ Alone(h) /\ run'[h].pc = "started" /\ mode'[h] = "open"
      /\ \A g \in Hosts : g # h => mode'[g] = mode[g]
    BY Zenon, <2>2, Becomes DEF Alone
  <2>4. run'[h].pc \notin Claimed /\ run[h].pc \notin Claimed
    BY Zenon DEF Waits, Claimed, Writing
  <2>5. Waits(h)'
    BY Zenon, <2>4, LeaveWaits
  <2> QED BY Zenon, <1>2, <2>4, <2>5, HostWaits
<1> QED BY Zenon, <1>3, <1>4, <1>5

\* Every step keeps the callers waiting for something that comes.
LEMMA WaitingStep ==
    ASSUME Inv, Waiting, Timely, ~Drains, ~Closes, ~UnwindFaults, [Next]_vars
    PROVE  Waiting'
<1>0. Good
  BY Zenon, EveryStep
<1>1. ASSUME NEW h \in Hosts, Work(h) PROVE Waiting'
  BY Zenon, <1>0, <1>1, ClaimWaits, RunWaits, EndWaits DEF Work
<1> QED BY Zenon, <1>0, <1>1, AcceptWaits, RunWaits, OtherWaits, ModeWaits, TimeWaits
      DEF Next, UnwindFault

\* Nobody waits at first.
LEMMA InitWaiting == Init => Waiting
<1> SUFFICES ASSUME Init PROVE Waiting
  OBVIOUS
<1>1. ASSUME NEW h \in Hosts
      PROVE  run[h].pc = "idle" /\ mode[h] = "open" /\ cancel[h].pc = "idle"
  BY SMT, SMTT(30) DEF Init, IdleRun, NoCancel
<1>2. "idle" \notin Claimed
  BY Zenon DEF Claimed, Writing
<1> QED BY Zenon, <1>1, <1>2 DEF Waiting, Waits, Distinct

\* A caller stops waiting by seeing no host, or with the process.
LEMMA WaitEnds ==
    ASSUME Inv, [Next]_vars, NEW h \in Hosts,
           cancel[h].pc = "waiting", cancel'[h].pc = "idle", mode'[h] # "down"
    PROVE  ~Hosting(h, cancel[h].id)
<1> cancel \in [Hosts -> Cancellations] /\ mode \in [Hosts -> Modes]
  BY Zenon DEF Inv, HostType
<1> cancel' # cancel
  OBVIOUS
<1> ASSUME NEW g \in Hosts, NEW c, cancel' = [cancel EXCEPT ![g] = c] PROVE g = h
  BY Zenon
<1> ASSUME NEW g \in Hosts, CancelExecution(g) PROVE FALSE
  <2>1. g = h
    BY Zenon DEF CancelExecution
  <2> QED BY Zenon, <2>1 DEF CancelExecution
<1> ASSUME NEW g \in Hosts, CancelStep(g) PROVE ~Hosting(h, cancel[h].id)
  <2>1. g = h
    BY Zenon DEF CancelStep, CancelHosted, CancelRead, CancelCommit
  <2> QED BY Zenon, <2>1 DEF CancelStep, CancelHosted, CancelRead, CancelCommit
<1>5. ASSUME NEW g \in Hosts, Lifecycle(g) PROVE FALSE
  <2>1. Crash(g)
    BY Zenon, <1>5 DEF Lifecycle, RequestDrain, RequestClose, FinishClose, Restart
  <2>2. g = h
    BY Zenon, <2>1 DEF Crash
  <2> QED BY Zenon, <2>1, <2>2 DEF Crash
<1>6. ASSUME NEW g \in Hosts,
             \/ Accept(g) \/ PlanRecovery(g) \/ RunError(g) \/ Renew(g) \/ RenewFault(g)
             \/ UnwindFault(g) \/ RollbackTrajectory(g)
      PROVE  FALSE
  BY Zenon, <1>6 DEF Accept, NothingToRecover, ResumeSession, MoveHead, SubmitPrompt, PlanRecovery,
        RunError, Renew, RenewFault, UnwindFault, RollbackTrajectory
<1>7. ASSUME NEW g \in Hosts, Work(g) PROVE FALSE
  BY Zenon, <1>7 DEF Work, RunSubmission, RecoverExecution, RestoreExecutionHead, PromptBlocked,
        TurnProgress, CheckpointTurn, Finish, RunRefused, UnwindRead, UnwindCommit
<1>8. ~(Tick \/ FenceCancellation \/ UNCHANGED vars)
  BY Zenon DEF Tick, FenceCancellation, vars
<1> QED BY Zenon, <1>5, <1>6, <1>7, <1>8 DEF Next

\* A cancellation that interrupts a run of its own host returns only when the
\* execution is settled: the run the caller waits for holds the lease, and unwinds
\* the execution before it ends. It takes hosts that renew in time, no handoff
\* (drains and closes release an execution to be recovered), and no unwind that
\* fails in the store or runs out of time.
THEOREM CancelsSettle ==
    Timely /\ ~Drains /\ ~Closes /\ ~UnwindFaults => (Spec => CancelSettles)
<1>1. SUFFICES ASSUME Timely, ~Drains, ~Closes, ~UnwindFaults PROVE Spec => CancelSettles
  OBVIOUS
<1>2. Inv /\ Waiting /\ [Next]_vars => Waiting'
  BY Zenon, <1>1, WaitingStep
<1>3. Inv /\ Waiting /\ [Next]_vars =>
        [\A h \in Hosts :
          cancel[h].pc = "waiting" /\ cancel'[h].pc = "idle" /\ mode'[h] # "down"
              => ~ Live(execs[cancel[h].id])]_vars
  <2> SUFFICES ASSUME Inv, Waiting, [Next]_vars, NEW h \in Hosts,
                      cancel[h].pc = "waiting", cancel'[h].pc = "idle", mode'[h] # "down"
               PROVE  ~ Live(execs[cancel[h].id])
    BY Zenon
  <2>1. ~Hosting(h, cancel[h].id)
    BY WaitEnds
  <2> QED BY Zenon, <2>1 DEF Waiting, Waits
<1> QED BY <1>2, <1>3, Invariance, InitWaiting, PTL DEF Spec, CancelSettles

=============================================================================
