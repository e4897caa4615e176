-------------------------- MODULE TrajectoriesProofs --------------------------
(***************************************************************************)
(* The inductive invariant of Trajectories, and what follows from it: the  *)
(* types, at most one completion per execution, an active branch that      *)
(* belongs to its execution, and nothing logged after a completion.        *)
(*                                                                         *)
(* Branches are computed by recursion along the parents. First come facts  *)
(* about that recursion, then the steps that the store can make, then the  *)
(* hosts, action by action. A step without a name states a fact that the   *)
(* rest of its proof rests on throughout.                                  *)
(***************************************************************************)
EXTENDS Trajectories, TLAPS

-----------------------------------------------------------------------------
(***************************************************************************)
(* The order of the log and its branches.                                  *)
(***************************************************************************)

\* The length of a sequence and its domain.
LEMMA Lengths == \A S, s : s \in Seq(S) => Len(s) \in Nat /\ DOMAIN s = 1..Len(s)
OBVIOUS

\* The last position is one.
LEMMA LastIn == \A n \in Nat : n + 1 \in 1..(n + 1)
OBVIOUS

\* Order is transitive.
LEMMA Further == \A k, m, n \in Nat : k <= m /\ m <= n => k <= n
OBVIOUS

\* Positions are numbers.
LEMMA Ranges == \A n \in Nat : (\A i \in 0..n : i \in Nat) /\ (\A i \in 1..n : i \in Nat)
OBVIOUS

\* Every position but the last is an old one.
LEMMA Within == \A n \in Nat : \A i \in 1..(n + 1) : i # n + 1 => i \in 1..n
OBVIOUS

\* A number is at most itself.
LEMMA Reflexive == \A n \in Nat : n <= n
OBVIOUS

\* What is greater is not below.
LEMMA Beyond == \A m, n \in Nat : m < n => m <= n /\ n \notin 1..m
OBVIOUS

\* At most is equal or less.
LEMMA Either == \A m, n \in Nat : m <= n => m = n \/ m < n
OBVIOUS

\* What is at most a number is less than the next.
LEMMA Successor == \A m, n \in Nat : m <= n => m < n + 1 /\ m <= n + 1
OBVIOUS

\* Membership is a truth value.
LEMMA Membership == \A x, S : (x \in S) \in BOOLEAN
OBVIOUS

\* A chain of three steps.
LEMMA Chain == \A j, k, m, n \in Nat : j < k /\ k < m /\ m <= n => n # 0 /\ j < n
OBVIOUS

\* A sequence with a position is not empty.
LEMMA NotEmpty == \A n, s : n \in Nat /\ n # 0 /\ n <= Len(s) => s # <<>>
OBVIOUS

\* Every set of positions up to n in which each one has a smaller one is empty.
\* The log is numbered, so this holds of its length; it is kept as a part of the
\* invariant, one append at a time, and takes the place of an induction.
Founded(n) ==
    \A T \in SUBSET (0..n) : (\A m \in T : \E k \in T : k < m) => T = {}

\* One append adds at most two entries, and the order stays founded.
LEMMA FoundedLonger ==
    ASSUME NEW n \in Nat, NEW m \in n..(n + 2), Founded(n)
    PROVE  Founded(m)
<1> SUFFICES ASSUME NEW T \in SUBSET (0..m), \A i \in T : \E k \in T : k < i
             PROVE  T = {}
  BY DEF Founded
<1> DEFINE U == {i \in T : i <= n}
<1>1. U \in SUBSET (0..n)
  <2>1. \A i \in U : i \in 0..m /\ i <= n
    OBVIOUS
  <2>2. \A i \in U : i \in 0..n
    BY <2>1
  <2> QED BY Zenon, <2>2
<1>2. ASSUME NEW i \in U PROVE \E k \in U : k < i
  <2>1. PICK k \in T : k < i
    OBVIOUS
  <2>2. k \in 0..m /\ i \in 0..m /\ i <= n
    OBVIOUS
  <2> QED BY <2>1, <2>2
<1> HIDE DEF U
<1>3. U = {}
  BY <1>1, <1>2 DEF Founded
<1> \A i \in T : i \in Nat /\ n < i /\ i <= n + 2
  BY <1>3 DEF U
<1>5. n + 1 \notin T
  OBVIOUS
<1>6. n + 2 \notin T
  BY <1>5
<1> QED BY <1>5, <1>6

\* The parents of the entries are earlier entries, or none (validateEntry).
Tree(log) ==
    /\ Len(log) \in Nat
    /\ \A i \in 1..Len(log) : log[i].parent \in 0..(i - 1)
    /\ Founded(Len(log))

\* A set of entries that has the parents of its members.
Closed(log, S) == \A k \in S : log[k].parent # 0 => log[k].parent \in S

\* The entries reached from entry i along the parents, as the least such set.
Reached(log, i) ==
    {j \in 1..Len(log) : i # 0 /\ \A S \in SUBSET (1..Len(log)) :
        i \in S /\ Closed(log, S) => j \in S}

\* It obeys the equation by which walkBranch computes a branch ...
LEMMA ReachedStep ==
    ASSUME NEW log, Tree(log), NEW i \in 1..Len(log)
    PROVE  Reached(log, i) = {i} \cup Reached(log, log[i].parent)
<1> DEFINE p == log[i].parent
<1> p \in 0..Len(log) /\ i \in Nat /\ i # 0 /\ Len(log) \in Nat
  BY DEF Tree
<1>2. i \in Reached(log, i)
  BY DEF Reached
<1>3. Reached(log, p) \subseteq Reached(log, i)
  BY DEF Reached, Closed
<1>4. ASSUME NEW j \in Reached(log, i) PROVE j \in {i} \cup Reached(log, p)
  <2> DEFINE S == {i} \cup Reached(log, p)
  <2>1. S \in SUBSET (1..Len(log))
    BY DEF Reached
  <2>2. p # 0 => p \in Reached(log, p)
    BY DEF Reached
  <2> ASSUME NEW k \in Reached(log, p), log[k].parent # 0
      PROVE  log[k].parent \in Reached(log, p)
    <3>1. k \in 1..Len(log)
      BY DEF Reached
    <3>2. log[k].parent \in 1..Len(log)
      BY <3>1 DEF Tree
    <3> QED BY <3>1, <3>2 DEF Reached, Closed
  <2>4. Closed(log, S)
    BY <2>2 DEF Closed
  <2> HIDE DEF S
  <2>5. i \in S
    BY DEF S
  <2>6. j \in S
    BY <2>1, <2>4, <2>5, <1>4 DEF Reached
  <2> QED BY <2>6 DEF S
<1> QED BY <1>2, <1>3, <1>4

\* ... so the recursive definition of a branch has that equation for every log.
LEMMA BranchRecursion ==
    ASSUME NEW log, Tree(log)
    PROVE  /\ BranchIn(log, 0) = {}
           /\ \A i \in 1..Len(log) :
                BranchIn(log, i) = {i} \cup BranchIn(log, log[i].parent)
<1> DEFINE Step(f) == [i \in 0..Len(log) |->
              IF i = 0 THEN {} ELSE {i} \cup f[log[i].parent]]
           F == [i \in 0..Len(log) |-> Reached(log, i)]
           up == CHOOSE f : f = Step(f)
<1>1. F = Step(F)
  <2>1. Reached(log, 0) = {}
    BY DEF Reached
  <2>2. ASSUME NEW i \in 0..Len(log)
        PROVE  Reached(log, i) = IF i = 0 THEN {} ELSE {i} \cup F[log[i].parent]
    <3>1. CASE i = 0
      BY <3>1, <2>1
    <3> CASE i # 0
      <4>1. i \in 1..Len(log) /\ log[i].parent \in 0..Len(log)
        BY DEF Tree
      <4> QED BY <4>1, ReachedStep
    <3> QED BY <3>1
  <2> QED BY <2>2
<1> HIDE DEF F
<1>2. up = Step(up)
  BY Zenon, <1>1
<1>3. \A e : BranchIn(log, e) = up[e]
  BY DEF BranchIn
<1> HIDE DEF up
<1>4. up[0] = {}
  BY <1>2 DEF Tree
<1>5. ASSUME NEW i \in 1..Len(log)
      PROVE  up[i] = {i} \cup up[log[i].parent]
  BY <1>2 DEF Tree
<1> QED BY <1>3, <1>4, <1>5

\* A branch has no later entry than the one it ends in.
LEMMA BranchBelow ==
    ASSUME NEW log, Tree(log), NEW e \in 0..Len(log)
    PROVE  BranchIn(log, e) \subseteq 1..e
<1> DEFINE T == {i \in 0..Len(log) : ~(BranchIn(log, i) \subseteq 1..i)}
<1>1. T \in SUBSET (0..Len(log))
  OBVIOUS
<1>2. ASSUME NEW m \in T PROVE \E k \in T : k < m
  <2>1. CASE m = 0
    BY <2>1, BranchRecursion
  <2>2. CASE m # 0
    <3> DEFINE p == log[m].parent
    <3> m \in 1..Len(log) /\ p \in 0..(m - 1) /\ p \in 0..Len(log) /\ p < m
      BY <2>2 DEF Tree
    <3>2. BranchIn(log, m) = {m} \cup BranchIn(log, p)
      BY BranchRecursion
    <3>3. ASSUME BranchIn(log, p) \subseteq 1..p PROVE FALSE
      <4>1. 1..p \subseteq 1..m /\ m \in 1..m
        OBVIOUS
      <4> QED BY <4>1, <3>2, <3>3
    <3>4. p \in T
      BY <3>3
    <3> QED BY <3>4
  <2> QED BY <2>1, <2>2
<1> HIDE DEF T
<1>3. T = {}
  BY Zenon, <1>1, <1>2 DEF Tree, Founded
<1> QED BY <1>3 DEF T

\* The branch of an entry of a branch is a part of it.
LEMMA BranchDown ==
    ASSUME NEW log, Tree(log), NEW e \in 0..Len(log), NEW d \in BranchIn(log, e)
    PROVE  d \in 1..Len(log) /\ BranchIn(log, d) \subseteq BranchIn(log, e)
<1> DEFINE T == {i \in 0..Len(log) :
        \E j \in BranchIn(log, i) : ~(BranchIn(log, j) \subseteq BranchIn(log, i))}
<1>1. T \in SUBSET (0..Len(log))
  OBVIOUS
<1>2. ASSUME NEW m \in T PROVE \E k \in T : k < m
  <2>1. PICK j \in BranchIn(log, m) : ~(BranchIn(log, j) \subseteq BranchIn(log, m))
    OBVIOUS
  <2>2. m # 0
    BY <2>1, BranchRecursion
  <2> DEFINE p == log[m].parent
  <2> m \in 1..Len(log) /\ p \in 0..Len(log) /\ p < m
    BY <2>2 DEF Tree
  <2>4. BranchIn(log, m) = {m} \cup BranchIn(log, p)
    BY BranchRecursion
  <2>5. j \in BranchIn(log, p) /\ ~(BranchIn(log, j) \subseteq BranchIn(log, p))
    BY <2>1, <2>4
  <2>6. p \in T
    BY <2>5
  <2> QED BY <2>6
<1> HIDE DEF T
<1>3. T = {}
  BY Zenon, <1>1, <1>2 DEF Tree, Founded
<1>4. d \in 1..Len(log)
  BY BranchBelow DEF Tree
<1> QED BY <1>3, <1>4 DEF T

\* A branch is a line: of two of its entries the earlier is on the branch of the later.
LEMMA BranchLinear ==
    ASSUME NEW log, Tree(log), NEW e \in 0..Len(log),
           NEW c \in BranchIn(log, e), NEW d \in BranchIn(log, e), c <= d
    PROVE  c \in BranchIn(log, d)
<1> DEFINE T == {i \in 0..Len(log) :
        \E j, k \in BranchIn(log, i) : j <= k /\ j \notin BranchIn(log, k)}
<1>1. T \in SUBSET (0..Len(log))
  OBVIOUS
<1>2. ASSUME NEW m \in T PROVE \E k \in T : k < m
  <2>1. PICK j, k \in BranchIn(log, m) : j <= k /\ j \notin BranchIn(log, k)
    OBVIOUS
  <2>2. m # 0
    BY <2>1, BranchRecursion
  <2> DEFINE p == log[m].parent
  <2> m \in 1..Len(log) /\ p \in 0..Len(log) /\ p < m /\ p \in Nat /\ m \in Nat
    BY <2>2 DEF Tree
  <2>4. BranchIn(log, m) = {m} \cup BranchIn(log, p)
    BY BranchRecursion
  <2>5. BranchIn(log, p) \subseteq 1..p
    BY BranchBelow
  <2>6. k # m
    BY <2>1
  <2>7. k \in BranchIn(log, p) /\ k \in 1..p
    BY <2>6, <2>4, <2>5
  <2>8. j # m
    BY <2>7, <2>1
  <2>9. p \in T
    BY <2>8, <2>7, <2>4, <2>1
  <2> QED BY <2>9
<1> HIDE DEF T
<1>3. T = {}
  BY Zenon, <1>1, <1>2 DEF Tree, Founded
<1> QED BY <1>3 DEF T

\* Appending to the log changes no branch.
LEMMA BranchKept ==
    ASSUME NEW log, Tree(log), NEW new, Tree(new), Len(log) <= Len(new),
           \A i \in 1..Len(log) : new[i] = log[i],
           NEW e \in 0..Len(log)
    PROVE  BranchIn(new, e) = BranchIn(log, e)
<1> DEFINE T == {i \in 0..Len(log) : BranchIn(new, i) # BranchIn(log, i)}
<1>1. T \in SUBSET (0..Len(log))
  OBVIOUS
<1>2. ASSUME NEW m \in T PROVE \E k \in T : k < m
  <2>1. m # 0
    BY Zenon, BranchRecursion
  <2> DEFINE p == log[m].parent
  <2> m \in 1..Len(log) /\ p \in 0..Len(log) /\ p < m /\ m \in 1..Len(new)
    BY <2>1 DEF Tree
  <2>3. BranchIn(log, m) = {m} \cup BranchIn(log, p)
    BY BranchRecursion
  <2>4. BranchIn(new, m) = {m} \cup BranchIn(new, p)
    <3>1. new[m] = log[m]
      OBVIOUS
    <3>2. BranchIn(new, m) = {m} \cup BranchIn(new, new[m].parent)
      BY BranchRecursion
    <3> QED BY <3>1, <3>2
  <2>5. p \in T
    BY Zenon, <2>3, <2>4
  <2> QED BY <2>5
<1> HIDE DEF T
<1>3. T = {}
  BY Zenon, <1>1, <1>2 DEF Tree, Founded
<1> QED BY <1>3 DEF T

\* A set of positions that is not empty has a greatest one.
LEMMA Maximum ==
    ASSUME NEW n \in Nat, Founded(n), NEW S \in SUBSET (0..n), S # {}
    PROVE  Max(S) \in S /\ \A x \in S : x <= Max(S)
<1> DEFINE T == {b \in 0..n : \A x \in S : x <= b}
<1>1. PICK b \in T : \A k \in T : b <= k
  <2>1. n \in T /\ T \in SUBSET (0..n)
    OBVIOUS
  <2> HIDE DEF T
  <2>0. ~ \A b \in T : \E k \in T : k < b
    BY <2>1, Zenon DEF Founded
  <2>2. PICK b \in T : \A k \in T : ~(k < b)
    BY <2>0, Zenon
  <2>3. \A k \in T : k \in 0..n /\ b \in 0..n
    BY <2>1
  <2>4. \A k \in T : b <= k
    BY <2>2, <2>3
  <2> QED BY <2>4
<1>2. b \in 0..n /\ \A x \in S : x \in 0..n /\ x <= b
  OBVIOUS
<1>3. ASSUME b \notin S PROVE FALSE
  <2>1. \A x \in S : x < b
    BY <1>2, <1>3
  <2>2. b - 1 \in 0..n /\ b - 1 < b
    <3>1. PICK z : z \in S
      BY Zenon
    <3>2. z \in 0..n /\ z < b
      BY <1>2, <2>1, <3>1
    <3> QED BY <1>2, <3>2
  <2>3. \A x \in S : x <= b - 1
    BY <2>1, <1>2
  <2>4. b - 1 \in T
    BY <2>2, <2>3
  <2> QED BY <2>4, <2>2, <1>1, <1>2
<1>4. \E x \in S : \A y \in S : x >= y
  BY <1>2, <1>3
<1>5. Max(S) \in S /\ \A y \in S : Max(S) >= y
  BY Zenon, <1>4 DEF Max
<1> QED BY <1>5

-----------------------------------------------------------------------------
(***************************************************************************)
(* What holds of the log and the executions, and the steps that keep it.   *)
(***************************************************************************)

\* The entries of the log.
Entries == [kind : Kinds, parent : Nat, exec : Nat, turn : Nat, stop : BOOLEAN]

\* The records of the executions.
Executions ==
    [state : States, token : Nat, lease : 0..LeaseTicks, base : Nat, input : Nat]

\* The types of the log and the executions.
StoreType == entries \in Seq(Entries) /\ execs \in Seq(Executions)

\* The checkpoints of execution id.
Checkpoints(id) ==
    {i \in DOMAIN entries : entries[i].kind = "checkpoint" /\ entries[i].exec = id}

\* The record of execution id fits its input entry; only the last one can be live,
\* and only a running one holds a lease.
Recorded(id) ==
    LET x == execs[id]  e == entries[x.input] IN
    /\ x.input \in DOMAIN entries
    /\ e.kind = "user" /\ e.exec = id /\ e.parent = x.base /\ ~e.stop
    /\ x.lease > 0 => x.state = "running"
    /\ id < Len(execs) => ~Live(x)

\* The log is a tree whose last entry is the head.
Logged ==
    /\ head = Len(entries) /\ Tree(entries)
    /\ \A i \in DOMAIN entries : entries[i].exec <= Len(execs)
    /\ \A id \in DOMAIN execs : Recorded(id)

\* A checkpoint lies on a branch that holds its execution's input.
Grounded ==
    \A i \in DOMAIN entries : entries[i].kind = "checkpoint" =>
        entries[i].exec # 0 /\ execs[entries[i].exec].input \in Branch(i)

\* After a success, every prompt on the branch lies below its latest checkpoint: a
\* resume that restores that checkpoint loses none (without rollbacks).
Concluded ==
    ~Rollbacks /\ execs # <<>> /\ Current.state = "succeeded" =>
        \A id \in DOMAIN execs :
            execs[id].input \in Branch(head) => execs[id].input <= LatestCheckpoint(head)

\* SettledOnce, and a terminal entry always names an execution.
SettledInv ==
    \A i, j \in DOMAIN entries :
        /\ entries[i].kind = "terminal" /\ entries[j].kind = "terminal"
        /\ entries[i].exec = entries[j].exec
        => i = j /\ entries[i].exec # 0 /\ ~ Live(execs[entries[i].exec])

\* Where a recovery may restore the head to: the input, or a checkpoint, of the
\* current execution on the active branch.
Anchor(target, turn) ==
    \/ target = Current.input /\ turn = 0
    \/ /\ target \in Checkpoints(Len(execs)) /\ target \in Branch(head)
       /\ turn = entries[target].turn

\* A head on which a prompt continues the conversation.
Resumable ==
    execs # <<>> /\ Current.state \in {"failed", "cancelled"} =>
        HeadRestoresAnchor(head, Current.base)

\* The five kinds of steps of the store. The record of the current execution becomes x:
Altered(x) ==
    /\ Active /\ SetCurrent(x) /\ x \in Executions
    /\ x.base = Current.base /\ x.input = Current.input
    /\ x.lease > 0 => x.state = "running"

\* nothing is appended;
Quiet ==
    /\ UNCHANGED <<entries, head>>
    /\ execs' = execs \/ \E x \in Executions : Altered(x) /\ x.state # "succeeded"

\* the head is moved between executions;
Moves(kind, t) ==
    /\ AppendEntries(<<Entry(kind, t, 0, 0, FALSE)>>)
    /\ UNCHANGED execs /\ ~Active
    /\ kind \in {"restore", "rollback"} /\ t \in 0..Len(entries)
    /\ Rollbacks \/ t = ResumeHead

\* a prompt is accepted on the head;
Accepts ==
    /\ AppendEntries(<<Entry("user", head, Len(execs) + 1, 0, FALSE)>>)
    /\ execs' = Append(execs, [state |-> "pending", token |-> 0, lease |-> 0,
                               base |-> head, input |-> Len(entries) + 1])
    /\ ~Active /\ Resumable

\* the running execution commits an entry;
Commits(kind, parent, turn, stop) ==
    /\ AppendEntries(<<Entry(kind, parent, Len(execs), turn, stop)>>)
    /\ UNCHANGED execs /\ Active
    /\ kind \in {"restore", "step", "checkpoint"} /\ turn \in Nat /\ stop \in BOOLEAN
    /\ IF kind = "restore" THEN \E n \in Nat : Anchor(parent, n) ELSE parent = head
    /\ kind = "checkpoint" => Current.input \in Branch(head)

\* the current execution is completed or handed off.
Completes(x, terminal, restore) ==
    /\ AppendEntries(Completion(head, Current.base, Len(execs), terminal, restore))
    /\ Altered(x) /\ terminal \in BOOLEAN /\ restore \in BOOLEAN
    /\ terminal <=> ~Live(x)
    /\ Live(x) => restore
    /\ x.state = "succeeded" =>
          /\ ~restore /\ Current.input \in Branch(head)
          /\ \E c \in Checkpoints(Len(execs)) : c \in Branch(head)

\* What all of them have in common: the log only grows, and the head is its end;
LogKept ==
    /\ entries' \in Seq(Entries) /\ Len(entries') \in Len(entries)..(Len(entries) + 2)
    /\ \A i \in 1..Len(entries) : entries'[i] = entries[i]
    /\ head' = Len(entries')
    /\ \A i \in (Len(entries) + 1)..Len(entries') : entries'[i].parent \in 0..(i - 1)

\* the records keep their inputs and bases, and a settled one does not change.
ExecsKept ==
    /\ execs' \in Seq(Executions) /\ Len(execs) <= Len(execs')
    /\ \A id \in 1..Len(execs) :
          /\ execs'[id].base = execs[id].base /\ execs'[id].input = execs[id].input
          /\ execs'[id] = execs[id] \/ (id = Len(execs) /\ Live(execs[id]))

\* What a sequence is made of.
LEMMA Elements ==
    ASSUME NEW S, NEW s \in Seq(S)
    PROVE  /\ Len(s) \in Nat /\ DOMAIN s = 1..Len(s)
           /\ \A i \in 1..Len(s) : s[i] \in S
OBVIOUS

\* Replacing an element of a sequence.
LEMMA Replaced ==
    ASSUME NEW S, NEW s \in Seq(S), NEW k \in 1..Len(s), NEW x \in S
    PROVE  /\ [s EXCEPT ![k] = x] \in Seq(S) /\ Len([s EXCEPT ![k] = x]) = Len(s)
           /\ [s EXCEPT ![k] = x][k] = x
           /\ \A i \in 1..Len(s) : i # k => [s EXCEPT ![k] = x][i] = s[i]
<1>1. k \in DOMAIN s /\ \A i \in 1..Len(s) : i \in DOMAIN s
  OBVIOUS
<1>2. [s EXCEPT ![k] = x] \in Seq(S) /\ Len([s EXCEPT ![k] = x]) = Len(s)
  OBVIOUS
<1>3. /\ [s EXCEPT ![k] = x][k] = x
      /\ \A i \in 1..Len(s) : i # k => [s EXCEPT ![k] = x][i] = s[i]
  BY Zenon, <1>1
<1> QED BY <1>2, <1>3

\* Two entries, appended one after the other.
LEMMA Pair ==
    ASSUME NEW S, NEW a \in S, NEW b \in S
    PROVE  <<a>> \o <<b>> = <<a, b>>
<1> DEFINE s == <<a>> \o <<b>>
           t == <<a, b>>
<1>1. s \in Seq(S) /\ Len(s) = 2 /\ s[1] = a /\ s[2] = b
  OBVIOUS
<1>2. t \in Seq(S) /\ Len(t) = 2 /\ t[1] = a /\ t[2] = b
  OBVIOUS
<1> HIDE DEF s, t
<1>3. \A i \in 1..2 : s[i] = t[i]
  BY <1>1, <1>2
<1>4. s = t
  BY <1>1, <1>2, <1>3
<1> QED BY <1>4 DEF s, t

\* The type of an entry of the log.
LEMMA EntryType ==
    ASSUME StoreType, NEW i \in 1..Len(entries)
    PROVE  /\ entries[i] \in Entries /\ entries[i].kind \in Kinds
           /\ entries[i].parent \in Nat /\ entries[i].exec \in Nat
           /\ entries[i].turn \in Nat /\ entries[i].stop \in BOOLEAN
<1>1. entries[i] \in Entries
  BY Elements DEF StoreType
<1> QED BY <1>1 DEF Entries

\* What AppendEntries leaves with one entry ...
LEMMA GrowOne ==
    ASSUME StoreType, NEW e \in Entries, AppendEntries(<<e>>)
    PROVE  /\ entries' \in Seq(Entries) /\ Len(entries') = Len(entries) + 1
           /\ head' = Len(entries')
           /\ \A i \in 1..Len(entries) : entries'[i] = entries[i]
           /\ entries'[Len(entries) + 1] = e
BY DEF AppendEntries, StoreType

\* ... and with two.
LEMMA GrowTwo ==
    ASSUME StoreType, NEW e \in Entries, NEW f \in Entries, AppendEntries(<<e, f>>)
    PROVE  /\ entries' \in Seq(Entries) /\ Len(entries') = Len(entries) + 2
           /\ head' = Len(entries')
           /\ \A i \in 1..Len(entries) : entries'[i] = entries[i]
           /\ entries'[Len(entries) + 1] = e /\ entries'[Len(entries) + 2] = f
BY DEF AppendEntries, StoreType

\* The current execution is the last one.
LEMMA Last ==
    ASSUME StoreType, execs # <<>>
    PROVE  /\ Len(execs) \in Nat /\ Len(execs) >= 1 /\ Len(execs) \in DOMAIN execs
           /\ Current \in Executions
BY DEF StoreType, Current

\* What altering the current execution leaves.
LEMMA Alters ==
    ASSUME StoreType, NEW x, Altered(x)
    PROVE  /\ execs' \in Seq(Executions) /\ Len(execs') = Len(execs) /\ execs # <<>>
           /\ execs'[Len(execs)] = x /\ execs' # <<>>
           /\ \A id \in 1..Len(execs) : id # Len(execs) => execs'[id] = execs[id]
           /\ ExecsKept
<1>1. execs # <<>> /\ Live(execs[Len(execs)]) /\ x \in Executions
  BY DEF Altered, Active, Current
<1>2. Len(execs) \in Nat /\ Len(execs) >= 1 /\ DOMAIN execs = 1..Len(execs)
  BY <1>1, Last DEF StoreType
<1>3. execs' = [execs EXCEPT ![Len(execs)] = x]
  BY DEF Altered, SetCurrent
<1>k. execs \in Seq(Executions) /\ Len(execs) \in 1..Len(execs)
  BY <1>2 DEF StoreType
<1>4. execs' \in Seq(Executions) /\ Len(execs') = Len(execs)
  BY <1>1, <1>k, <1>3, Replaced
<1>5. /\ execs'[Len(execs)] = x
      /\ \A id \in 1..Len(execs) : id # Len(execs) => execs'[id] = execs[id]
  BY <1>1, <1>k, <1>3, Replaced
<1>6. execs' # <<>>
  BY <1>4, <1>2
<1>7. ExecsKept
  <2>1. x.base = execs[Len(execs)].base /\ x.input = execs[Len(execs)].input
    BY DEF Altered, Current
  <2>2. ASSUME NEW id \in 1..Len(execs)
        PROVE  /\ execs'[id].base = execs[id].base /\ execs'[id].input = execs[id].input
               /\ execs'[id] = execs[id] \/ (id = Len(execs) /\ Live(execs[id]))
    <3>1. CASE id = Len(execs)
      BY <3>1, <2>1, <1>1, <1>5
    <3>2. CASE id # Len(execs)
      BY <3>2, <1>5
    <3> QED BY <3>1, <3>2
  <2>3. Len(execs) <= Len(execs')
    BY <1>2, <1>4
  <2> QED BY Zenon, <1>4, <2>2, <2>3 DEF ExecsKept
<1> QED BY <1>1, <1>4, <1>5, <1>6, <1>7

\* The log stays a tree, and the branches of its entries stay.
LEMMA Branches ==
    ASSUME StoreType, Logged, LogKept
    PROVE  /\ Tree(entries')
           /\ \A i \in 0..Len(entries) : BranchIn(entries', i) = BranchIn(entries, i)
<1> Len(entries) \in Nat /\ Len(entries') \in Nat /\ Len(entries) <= Len(entries')
  BY DEF StoreType, LogKept
<1>2. ASSUME NEW i \in 1..Len(entries') PROVE entries'[i].parent \in 0..(i - 1)
  <2>1. CASE i \in 1..Len(entries)
    BY <2>1 DEF LogKept, Logged, Tree
  <2>2. CASE i \notin 1..Len(entries)
    <3>1. i \in (Len(entries) + 1)..Len(entries')
      BY <2>2
    <3> QED BY <3>1 DEF LogKept
  <2> QED BY <2>1, <2>2
<1>3. Tree(entries')
  <2>1. Len(entries') \in Len(entries)..(Len(entries) + 2) /\ Founded(Len(entries))
    BY DEF LogKept, Logged, Tree
  <2>2. Founded(Len(entries'))
    BY <2>1, FoundedLonger
  <2> QED BY <1>2, <2>2 DEF Tree
<1>4. Tree(entries) /\ \A i \in 1..Len(entries) : entries'[i] = entries[i]
  BY DEF Logged, LogKept
<1>5. \A i \in 0..Len(entries) : BranchIn(entries', i) = BranchIn(entries, i)
  BY <1>3, <1>4, BranchKept
<1> QED BY <1>3, <1>5

\* One entry is appended: the head's branch is its parent's and itself.
LEMMA OneEntry ==
    ASSUME StoreType, Logged, NEW e \in Entries, AppendEntries(<<e>>),
           e.parent \in 0..Len(entries)
    PROVE  /\ LogKept /\ head' = Len(entries) + 1 /\ Len(entries') = Len(entries) + 1
           /\ entries'[Len(entries) + 1] = e
           /\ BranchIn(entries', head') = {head'} \cup BranchIn(entries, e.parent)
<1> /\ entries' \in Seq(Entries) /\ Len(entries') = Len(entries) + 1
    /\ head' = Len(entries')
    /\ \A i \in 1..Len(entries) : entries'[i] = entries[i]
    /\ entries'[Len(entries) + 1] = e
  BY GrowOne
<1>2. Len(entries) \in Nat
  BY DEF StoreType
<1>3. LogKept
  BY <1>2 DEF LogKept
<1>4. Tree(entries') /\ BranchIn(entries', e.parent) = BranchIn(entries, e.parent)
  BY <1>3, Branches
<1>5. head' \in 1..Len(entries') /\ entries'[head'].parent = e.parent
  BY <1>2
<1>6. BranchIn(entries', head') = {head'} \cup BranchIn(entries', e.parent)
  BY <1>4, <1>5, BranchRecursion
<1> QED BY <1>3, <1>4, <1>6

\* Two are appended, both on earlier ones: the head's branch is that of the second.
LEMMA TwoEntries ==
    ASSUME StoreType, Logged, NEW e \in Entries, NEW f \in Entries,
           AppendEntries(<<e, f>>),
           e.parent \in 0..Len(entries), f.parent \in 0..Len(entries)
    PROVE  /\ LogKept /\ head' = Len(entries) + 2 /\ Len(entries') = Len(entries) + 2
           /\ entries'[Len(entries) + 1] = e /\ entries'[Len(entries) + 2] = f
           /\ BranchIn(entries', head') = {head'} \cup BranchIn(entries, f.parent)
<1> /\ entries' \in Seq(Entries) /\ Len(entries') = Len(entries) + 2
    /\ head' = Len(entries')
    /\ \A i \in 1..Len(entries) : entries'[i] = entries[i]
    /\ entries'[Len(entries) + 1] = e /\ entries'[Len(entries) + 2] = f
  BY GrowTwo
<1> Len(entries) \in Nat
  BY DEF StoreType
<1>3. LogKept
  <2>1. ASSUME NEW i \in (Len(entries) + 1)..Len(entries')
        PROVE  entries'[i].parent \in 0..(i - 1)
    <3>1. i = Len(entries) + 1 \/ i = Len(entries) + 2
      OBVIOUS
    <3> QED BY <3>1
  <2> QED BY <2>1 DEF LogKept
<1>4. Tree(entries') /\ BranchIn(entries', f.parent) = BranchIn(entries, f.parent)
  BY <1>3, Branches
<1>5. head' \in 1..Len(entries') /\ entries'[head'].parent = f.parent
  OBVIOUS
<1>6. BranchIn(entries', head') = {head'} \cup BranchIn(entries', f.parent)
  BY <1>4, <1>5, BranchRecursion
<1> QED BY <1>3, <1>4, <1>6

\* The records of the executions are kept.
LEMMA RecordsKept ==
    ASSUME StoreType, Logged, LogKept, ExecsKept, NEW id \in 1..Len(execs),
           execs'[id].lease > 0 => execs'[id].state = "running",
           id < Len(execs') => ~Live(execs'[id])
    PROVE  Recorded(id)'
<1>1. Recorded(id) /\ DOMAIN entries = 1..Len(entries)
  BY DEF StoreType, Logged
<1>2. /\ execs'[id].base = execs[id].base /\ execs'[id].input = execs[id].input
      /\ execs[id].input \in 1..Len(entries)
  BY <1>1 DEF ExecsKept, Recorded
<1>3. entries'[execs[id].input] = entries[execs[id].input]
  BY <1>2 DEF LogKept
<1>4. execs[id].input \in DOMAIN entries'
  BY <1>2 DEF LogKept, StoreType
<1> QED BY Zenon, <1>1, <1>2, <1>3, <1>4 DEF Recorded

\* Checkpoints stay grounded, and so are the new ones if they are.
LEMMA GroundKept ==
    ASSUME StoreType, Logged, Grounded, LogKept, ExecsKept,
           \A i \in (Len(entries) + 1)..Len(entries') : entries'[i].kind = "checkpoint" =>
              entries'[i].exec # 0 /\ execs'[entries'[i].exec].input \in BranchIn(entries', i)
    PROVE  Grounded'
<1> SUFFICES ASSUME NEW i \in DOMAIN entries', entries'[i].kind = "checkpoint"
             PROVE  /\ entries'[i].exec # 0
                    /\ execs'[entries'[i].exec].input \in BranchIn(entries', i)
  BY DEF Grounded, Branch
<1> /\ DOMAIN entries = 1..Len(entries) /\ DOMAIN entries' = 1..Len(entries')
    /\ Len(entries) \in Nat /\ Len(entries') \in Nat /\ Len(execs) \in Nat
  BY DEF StoreType, LogKept
<1> CASE i \in 1..Len(entries)
  <2>1. entries'[i] = entries[i] /\ BranchIn(entries', i) = BranchIn(entries, i)
    BY Branches DEF LogKept
  <2>2. /\ entries[i].exec # 0 /\ entries[i].exec <= Len(execs) /\ entries[i].exec \in Nat
        /\ execs[entries[i].exec].input \in BranchIn(entries, i)
    <3>1. i \in DOMAIN entries /\ entries[i].kind = "checkpoint"
      BY <2>1
    <3>2. entries[i].exec \in Nat
      BY EntryType
    <3> QED BY Zenon, <3>1, <3>2 DEF Grounded, Logged, Branch
  <2>3. execs'[entries[i].exec].input = execs[entries[i].exec].input
    BY <2>2 DEF ExecsKept
  <2> QED BY <2>1, <2>2, <2>3
<1>2. CASE i \notin 1..Len(entries)
  BY <1>2
<1> QED BY <1>2

\* A settled execution stays settled with its terminal entry.
LEMMA SettledKept ==
    ASSUME StoreType, Logged, SettledInv, LogKept, ExecsKept,
           \A i \in (Len(entries) + 1)..Len(entries') : entries'[i].kind # "terminal"
    PROVE  SettledInv'
<1> /\ DOMAIN entries = 1..Len(entries) /\ DOMAIN entries' = 1..Len(entries')
    /\ Len(entries) \in Nat /\ Len(entries') \in Nat /\ Len(execs) \in Nat
  BY DEF StoreType, LogKept
<1>1. ASSUME NEW i \in DOMAIN entries', entries'[i].kind = "terminal"
      PROVE  i \in DOMAIN entries /\ entries'[i] = entries[i]
  BY <1>1 DEF LogKept
<1>2. ASSUME NEW i \in DOMAIN entries, entries[i].kind = "terminal"
      PROVE  entries[i].exec # 0 /\ ~Live(execs'[entries[i].exec])
  <2>1. /\ entries[i].exec # 0 /\ ~Live(execs[entries[i].exec])
        /\ entries[i].exec <= Len(execs) /\ entries[i].exec \in Nat
    <3>1. entries[i].exec \in Nat
      BY EntryType
    <3> QED BY Zenon, <1>2, <3>1 DEF SettledInv, Logged
  <2>2. execs'[entries[i].exec] = execs[entries[i].exec]
    BY <2>1 DEF ExecsKept
  <2> QED BY <2>1, <2>2
<1> QED BY <1>1, <1>2 DEF SettledInv

\* LatestCheckpoint in any log.
LatestIn(log, from) ==
    Max({0} \cup {i \in BranchIn(log, from) : log[i].kind = "checkpoint"})

\* The latest checkpoint of a branch is on it and none is later.
LEMMA Latest ==
    ASSUME NEW log, Tree(log), NEW from \in 0..Len(log)
    PROVE  /\ LatestIn(log, from) \in 0..from
           /\ LatestIn(log, from) # 0 =>
                /\ LatestIn(log, from) \in BranchIn(log, from)
                /\ log[LatestIn(log, from)].kind = "checkpoint"
           /\ \A c \in BranchIn(log, from) :
                log[c].kind = "checkpoint" => c <= LatestIn(log, from)
<1> DEFINE S == {0} \cup {i \in BranchIn(log, from) : log[i].kind = "checkpoint"}
<1> BranchIn(log, from) \subseteq 1..from /\ from \in Nat
  BY BranchBelow DEF Tree
<1>2. /\ S \in SUBSET (0..from) /\ S # {} /\ S \in SUBSET (0..Len(log))
      /\ Len(log) \in Nat /\ Founded(Len(log))
  BY DEF Tree
<1>3. Max(S) \in S /\ \A x \in S : x <= Max(S)
  <2> HIDE DEF S
  <2> QED BY <1>2, Maximum
<1>4. LatestIn(log, from) = Max(S)
  BY DEF LatestIn
<1> QED BY <1>3, <1>4

\* The records of the executions are sound after the step.
Sound ==
    \A id \in 1..Len(execs') :
        /\ execs'[id].lease > 0 => execs'[id].state = "running"
        /\ id < Len(execs') => ~Live(execs'[id])

\* Steps that alter no execution ...
LEMMA SameExecs ==
    ASSUME StoreType, Logged, UNCHANGED execs
    PROVE  ExecsKept /\ Sound
BY DEF StoreType, Logged, Recorded, ExecsKept, Sound

\* ... and steps that alter the current one.
LEMMA AlteredExecs ==
    ASSUME StoreType, Logged, NEW x, Altered(x)
    PROVE  Sound
<1>1. /\ Len(execs') = Len(execs) /\ Len(execs) \in Nat /\ DOMAIN execs = 1..Len(execs)
      /\ execs'[Len(execs)] = x
      /\ \A id \in 1..Len(execs) : id # Len(execs) => execs'[id] = execs[id]
  BY Alters DEF StoreType
<1>2. x.lease > 0 => x.state = "running"
  BY DEF Altered
<1>3. \A id \in 1..Len(execs) : /\ execs[id].lease > 0 => execs[id].state = "running"
                                /\ id < Len(execs) => ~Live(execs[id])
  BY <1>1 DEF Logged, Recorded
<1> QED BY <1>1, <1>2, <1>3 DEF Sound

\* The log's part of the invariant is kept.
LEMMA LogStays ==
    ASSUME StoreType, Logged, LogKept, ExecsKept, Sound, Len(execs') = Len(execs),
           \A i \in (Len(entries) + 1)..Len(entries') : entries'[i].exec <= Len(execs)
    PROVE  Logged'
<1>t. /\ DOMAIN entries = 1..Len(entries) /\ DOMAIN entries' = 1..Len(entries')
      /\ Len(entries) \in Nat /\ Len(entries') \in Nat
      /\ DOMAIN execs' = 1..Len(execs)
  BY DEF StoreType, LogKept, ExecsKept
<1>1. head' = Len(entries') /\ Tree(entries')
  BY Branches DEF LogKept
<1>2. \A i \in DOMAIN entries' : entries'[i].exec <= Len(execs')
  BY <1>t DEF LogKept, Logged
<1>3. \A id \in DOMAIN execs' : Recorded(id)'
  BY <1>t, RecordsKept DEF Sound
<1> QED BY <1>1, <1>2, <1>3 DEF Logged

\* What holds of the log and the executions.
Store == Logged /\ Grounded /\ Concluded /\ SettledInv /\ ActiveBranchOwned

\* A step that appends nothing.
LEMMA QuietStore ==
    ASSUME StoreType, Store, Quiet
    PROVE  Store' /\ LogKept /\ ExecsKept
<1> Logged /\ Grounded /\ Concluded /\ SettledInv /\ ActiveBranchOwned
  BY DEF Store
<1> LogKept /\ entries' = entries /\ head' = head /\ Len(entries) \in Nat
  BY DEF Quiet, LogKept, Logged, StoreType
<1> ExecsKept /\ Sound /\ Len(execs') = Len(execs)
  BY SameExecs, Alters, AlteredExecs DEF Quiet
<1>3. Logged'
  BY LogStays
<1>4. Grounded'
  BY GroundKept
<1>5. SettledInv'
  BY SettledKept
<1> CASE execs' = execs
  <2>1. Concluded'
    BY DEF Concluded, Current, Branch, LatestCheckpoint
  <2>2. ActiveBranchOwned'
    BY DEF ActiveBranchOwned, Active, Current, Branch
  <2> QED BY <1>3, <1>4, <1>5, <2>1, <2>2 DEF Store
<1>7. CASE \E x \in Executions : Altered(x) /\ x.state # "succeeded"
  <2>1. PICK x \in Executions : Altered(x) /\ x.state # "succeeded"
    BY <1>7
  <2> execs'[Len(execs')] = x /\ x.base = Current.base /\ Active
    BY <2>1, Alters DEF Altered
  <2>3. Concluded'
    BY <2>1 DEF Concluded, Current
  <2>4. ActiveBranchOwned'
    <3>1. \A i \in Branch(head) \ Branch(Current.base) : entries[i].exec = Len(execs)
      BY DEF ActiveBranchOwned
    <3> QED BY <3>1 DEF ActiveBranchOwned, Current, Branch
  <2> QED BY <1>3, <1>4, <1>5, <2>3, <2>4 DEF Store
<1> QED BY <1>7 DEF Quiet

\* The head moves between executions.
LEMMA MovesStore ==
    ASSUME StoreType, Store, NEW kind, NEW t, Moves(kind, t)
    PROVE  /\ Store' /\ LogKept /\ ExecsKept /\ head' = Len(entries) + 1
           /\ entries'[Len(entries) + 1] = Entry(kind, t, 0, 0, FALSE)
           /\ BranchIn(entries', head') = {head'} \cup BranchIn(entries, t)
<1> DEFINE e == Entry(kind, t, 0, 0, FALSE)
<1> Logged /\ Grounded /\ Concluded /\ SettledInv /\ ActiveBranchOwned
  BY DEF Store
<1> Len(entries) \in Nat /\ Len(execs) \in Nat /\ t \in 0..Len(entries)
  BY DEF StoreType, Moves
<1> /\ e \in Entries /\ e.parent = t /\ e.exec = 0
    /\ e.kind # "terminal" /\ e.kind # "checkpoint"
  BY DEF Moves, Entry, Entries, Kinds
<1> /\ LogKept /\ head' = Len(entries) + 1 /\ Len(entries') = Len(entries) + 1
    /\ entries'[Len(entries) + 1] = e
    /\ BranchIn(entries', head') = {head'} \cup BranchIn(entries, t)
  <2>1. AppendEntries(<<e>>)
    BY DEF Moves
  <2> HIDE DEF e
  <2> QED BY <2>1, OneEntry
<1> ExecsKept /\ Sound /\ execs' = execs
  BY SameExecs DEF Moves
<1> \A i \in (Len(entries) + 1)..Len(entries') : entries'[i] = e
  <2> HIDE DEF e
  <2> QED OBVIOUS
<1> HIDE DEF e
<1>3. Logged'
  BY LogStays
<1>4. Grounded'
  BY GroundKept
<1>5. SettledInv'
  BY SettledKept
<1>6. ActiveBranchOwned'
  BY DEF Moves, ActiveBranchOwned, Active, Current
<1>7. Concluded'
  <2> SUFFICES ASSUME ~Rollbacks, execs # <<>>, Current.state = "succeeded",
                      NEW id \in DOMAIN execs,
                      execs[id].input \in BranchIn(entries', head')
               PROVE  execs[id].input <= LatestIn(entries', head')
    BY DEF Concluded, Current, Branch, LatestCheckpoint, LatestIn
  <2> DEFINE L == LatestIn(entries, head)
  <2>1. t = L
    BY DEF Moves, ResumeHead, LatestCheckpoint, LatestIn, Branch
  <2> Tree(entries) /\ Tree(entries') /\ head \in 0..Len(entries)
    BY Branches DEF Logged
  <2> L \in 0..Len(entries) /\ (L # 0 => entries[L].kind = "checkpoint")
    BY Latest DEF Logged
  <2>4. execs[id].input \in 1..Len(entries)
    BY SMT, SMTT(30) DEF Logged, Recorded, StoreType
  <2>5. execs[id].input \in BranchIn(entries, L)
    BY <2>4, <2>1
  <2>6. L # 0 /\ BranchIn(entries, L) \subseteq 1..L
    BY <2>5, BranchRecursion, BranchBelow
  <2>7. L \in 1..Len(entries) /\ L \in BranchIn(entries, L)
    <3>1. L \in 1..Len(entries)
      BY <2>6
    <3> QED BY <3>1, BranchRecursion
  <2>8. L \in BranchIn(entries', head') /\ entries'[L].kind = "checkpoint"
    BY SMT, SMTT(30), <2>7, <2>1 DEF LogKept
  <2>9. head' \in 0..Len(entries')
    BY SMT, SMTT(30)
  <2>10. L <= LatestIn(entries', head') /\ LatestIn(entries', head') \in 0..head'
    BY <2>8, <2>9, Latest
  <2>11. execs[id].input <= L /\ execs[id].input \in Nat /\ L \in Nat
    BY SMT, SMTT(30), <2>5, <2>6, <2>7
  <2> HIDE DEF L
  <2>12. LatestIn(entries', head') \in Nat
    BY <2>10
  <2> QED BY <2>10, <2>11, <2>12
<1> QED BY <1>3, <1>4, <1>5, <1>6, <1>7 DEF Store, e

\* A prompt is accepted on the head.
LEMMA AcceptsStore ==
    ASSUME StoreType, Store, Accepts
    PROVE  /\ Store' /\ LogKept /\ ExecsKept
           /\ head' = Len(entries) + 1 /\ Len(execs') = Len(execs) + 1
           /\ execs'[Len(execs) + 1] = [state |-> "pending", token |-> 0, lease |-> 0,
                                        base |-> head, input |-> Len(entries) + 1]
           /\ BranchIn(entries', head') = {head'} \cup BranchIn(entries, head)
<1> DEFINE e == Entry("user", head, Len(execs) + 1, 0, FALSE)
           x == [state |-> "pending", token |-> 0, lease |-> 0,
                 base |-> head, input |-> Len(entries) + 1]
<1> Logged /\ Grounded /\ Concluded /\ SettledInv /\ ActiveBranchOwned
  BY DEF Store
<1> Len(entries) \in Nat /\ Len(execs) \in Nat /\ head \in 0..Len(entries)
  BY DEF StoreType, Logged
<1> /\ e \in Entries /\ e.parent = head /\ e.exec = Len(execs) + 1
    /\ e.kind = "user" /\ ~e.stop
  BY SMT, SMTT(30) DEF Entry, Entries, Kinds
<1> /\ x \in Executions /\ x.base = head /\ x.input = Len(entries) + 1
    /\ x.lease = 0 /\ x.state = "pending"
  BY ConstantsAssumption DEF Executions, States, ConstantsAssumption
<1>a. AppendEntries(<<e>>) /\ execs' = Append(execs, x)
  BY Zenon DEF Accepts
<1> HIDE DEF e, x
<1> /\ LogKept /\ head' = Len(entries) + 1 /\ Len(entries') = Len(entries) + 1
    /\ entries'[Len(entries) + 1] = e
    /\ BranchIn(entries', head') = {head'} \cup BranchIn(entries, head)
  BY <1>a, OneEntry
<1> /\ execs' \in Seq(Executions) /\ Len(execs') = Len(execs) + 1
    /\ execs'[Len(execs) + 1] = x
    /\ \A id \in 1..Len(execs) : execs'[id] = execs[id]
  BY <1>a DEF StoreType
<1> ExecsKept
  BY DEF ExecsKept
<1>n. \A i \in (Len(entries) + 1)..Len(entries') : entries'[i] = e
  BY SMT, SMTT(30)
<1>s. ASSUME NEW id \in 1..Len(execs)
      PROVE  /\ execs'[id].lease > 0 => execs'[id].state = "running"
             /\ ~Live(execs'[id])
  <2>1. Recorded(id) /\ execs'[id] = execs[id]
    BY DEF Logged, StoreType
  <2>2. id = Len(execs) => ~Live(execs[id])
    BY DEF Accepts, Active, Current, StoreType
  <2>3. id < Len(execs) \/ id = Len(execs)
    BY SMT, SMTT(30)
  <2> QED BY <2>1, <2>2, <2>3 DEF Recorded
<1>4. Logged'
  <2> /\ DOMAIN entries = 1..Len(entries) /\ DOMAIN entries' = 1..(Len(entries) + 1)
      /\ DOMAIN execs' = 1..(Len(execs) + 1)
    BY SMT, SMTT(30) DEF StoreType, LogKept
  <2>1. head' = Len(entries') /\ Tree(entries')
    BY Branches
  <2>2. ASSUME NEW i \in DOMAIN entries' PROVE entries'[i].exec <= Len(execs')
    <3>1. CASE i \in 1..Len(entries)
      <4>1. entries'[i] = entries[i] /\ entries[i].exec \in Nat /\ entries[i].exec <= Len(execs)
        BY Zenon, <3>1, EntryType DEF LogKept, Logged
      <4> QED BY <4>1
    <3>2. CASE i = Len(entries) + 1
      BY <3>2
    <3> QED BY <3>1, <3>2
  <2>3. ASSUME NEW id \in 1..Len(execs) PROVE Recorded(id)'
    BY <1>s, RecordsKept
  <2> ASSUME NEW id, id = Len(execs) + 1 PROVE Recorded(id)'
    <3>1. x.input \in DOMAIN entries' /\ entries'[x.input] = e
      OBVIOUS
    <3>2. ~(id < Len(execs')) /\ execs'[id] = x /\ ~(x.lease > 0)
      OBVIOUS
    <3> QED BY Zenon, <3>1, <3>2 DEF Recorded
  <2>5. \A id \in DOMAIN execs' : id \in 1..Len(execs) \/ id = Len(execs) + 1
    OBVIOUS
  <2>6. \A id \in DOMAIN execs' : Recorded(id)'
    <3> TAKE id \in DOMAIN execs'
    <3>1. CASE id \in 1..Len(execs)
      BY <3>1, <2>3
    <3>2. CASE id = Len(execs) + 1
      BY <3>2
    <3> QED BY <3>1, <3>2, <2>5
  <2> QED BY <2>1, <2>2, <2>6 DEF Logged
<1>5. Grounded'
  BY <1>n, GroundKept
<1>6. SettledInv'
  BY <1>n, SettledKept
<1>7. Concluded'
  BY Zenon DEF Concluded, Current
<1>8. ActiveBranchOwned'
  <2>1. BranchIn(entries', head) = BranchIn(entries, head)
    BY Branches
  <2>2. \A i \in BranchIn(entries', head') \ BranchIn(entries', head) : i = head'
    BY <2>1
  <2>3. entries'[head'].exec = Len(execs')
    OBVIOUS
  <2>4. execs'[Len(execs')].base = head
    OBVIOUS
  <2> QED BY <2>2, <2>3, <2>4 DEF ActiveBranchOwned, Current, Branch
<1> QED BY Zenon, <1>4, <1>5, <1>6, <1>7, <1>8 DEF Store, x

\* The branch of the current execution's input is its base's branch and itself.
LEMMA InputBranch ==
    ASSUME StoreType, Logged, execs # <<>>
    PROVE  /\ Current.input \in 1..Len(entries) /\ Current.base \in 0..Len(entries)
           /\ Current.base < Current.input
           /\ entries[Current.input].exec = Len(execs)
           /\ entries[Current.input].kind = "user" /\ ~entries[Current.input].stop
           /\ BranchIn(entries, Current.input) =
                {Current.input} \cup BranchIn(entries, Current.base)
<1>1. Recorded(Len(execs)) /\ DOMAIN entries = 1..Len(entries) /\ Len(entries) \in Nat
  BY Last DEF Logged, StoreType
<1>2. /\ Current.input \in 1..Len(entries) /\ entries[Current.input].kind = "user"
      /\ entries[Current.input].exec = Len(execs) /\ ~entries[Current.input].stop
      /\ entries[Current.input].parent = Current.base
  BY <1>1 DEF Recorded, Current
<1>3. Tree(entries)
  BY DEF Logged
<1>4. Current.base \in 0..(Current.input - 1)
  BY <1>2, <1>3 DEF Tree
<1>5. BranchIn(entries, Current.input) = {Current.input} \cup BranchIn(entries, Current.base)
  BY <1>2, <1>3, BranchRecursion
<1> QED BY <1>1, <1>2, <1>4, <1>5

\* The running execution commits an entry.
LEMMA CommitsStore ==
    ASSUME StoreType, Store, NEW kind, NEW parent, NEW turn, NEW stop,
           Commits(kind, parent, turn, stop)
    PROVE  /\ Store' /\ LogKept /\ ExecsKept /\ head' = Len(entries) + 1
           /\ entries'[Len(entries) + 1] = Entry(kind, parent, Len(execs), turn, stop)
           /\ BranchIn(entries', head') = {head'} \cup BranchIn(entries, parent)
           /\ parent \in 0..Len(entries)
\* The branch of an anchor belongs to the current execution and has its input.
<1>AnchorOwned. ASSUME StoreType, Store, Active, NEW t, NEW n, Anchor(t, n)
                PROVE  /\ t \in 1..Len(entries) /\ Current.input \in BranchIn(entries, t)
                       /\ \A i \in BranchIn(entries, t) \ BranchIn(entries, Current.base) :
                            entries[i].exec = Len(execs)
  <2> USE <1>AnchorOwned
  <2> Logged /\ Grounded /\ ActiveBranchOwned /\ execs # <<>>
    BY DEF Store, Active
  <2>t. /\ Len(entries) \in Nat /\ DOMAIN entries = 1..Len(entries)
        /\ Tree(entries) /\ head \in 0..Len(entries)
    BY SMT, SMTT(30) DEF StoreType, Logged
  <2>1. CASE t = Current.input
    BY <2>1, InputBranch
  <2> CASE t \in Checkpoints(Len(execs)) /\ t \in BranchIn(entries, head)
    <3>1. t \in 1..Len(entries) /\ BranchIn(entries, t) \subseteq BranchIn(entries, head)
      BY <2>t, BranchDown
    <3>2. Current.input \in BranchIn(entries, t)
      BY DEF Checkpoints, Grounded, Current, Branch
    <3>3. \A i \in BranchIn(entries, head) \ BranchIn(entries, Current.base) :
             entries[i].exec = Len(execs)
      BY DEF ActiveBranchOwned, Branch
    <3> QED BY <3>1, <3>2, <3>3
  <2> QED BY Zenon, <2>1 DEF Anchor, Branch
<1> DEFINE e == Entry(kind, parent, Len(execs), turn, stop)
<1> /\ Logged /\ Grounded /\ Concluded /\ SettledInv /\ ActiveBranchOwned
    /\ Active /\ execs # <<>>
  BY DEF Store, Commits, Active
<1> /\ Len(entries) \in Nat /\ Len(execs) \in Nat /\ Len(execs) # 0
    /\ head \in 0..Len(entries)
  BY Last DEF StoreType, Logged
<1> /\ parent \in 0..Len(entries)
    /\ \A i \in BranchIn(entries, parent) \ BranchIn(entries, Current.base) :
         entries[i].exec = Len(execs)
  <2>1. CASE kind = "restore"
    <3>1. PICK n \in Nat : Anchor(parent, n)
      BY <2>1 DEF Commits
    <3> QED BY <3>1, <1>AnchorOwned
  <2>2. CASE kind # "restore"
    BY <2>2 DEF Commits, ActiveBranchOwned, Branch
  <2> QED BY <2>1, <2>2
<1> /\ e \in Entries /\ e.parent = parent /\ e.exec = Len(execs)
    /\ e.kind = kind /\ kind # "terminal"
  BY SMT, SMTT(30) DEF Commits, Entry, Entries, Kinds
<1>a. AppendEntries(<<e>>)
  BY DEF Commits
<1> HIDE DEF e
<1> /\ LogKept /\ head' = Len(entries) + 1 /\ Len(entries') = Len(entries) + 1
    /\ entries'[Len(entries) + 1] = e
    /\ BranchIn(entries', head') = {head'} \cup BranchIn(entries, parent)
  BY <1>a, OneEntry
<1> ExecsKept /\ Sound /\ execs' = execs
  BY SameExecs DEF Commits
<1> \A i \in (Len(entries) + 1)..Len(entries') : i = head' /\ entries'[i] = e
  BY SMT, SMTT(30)
<1>3. Logged'
  BY LogStays
<1>4. Grounded'
  <2>1. ASSUME kind = "checkpoint"
        PROVE  execs'[Len(execs)].input \in BranchIn(entries', head')
    <3>1. parent = head /\ Current.input \in BranchIn(entries, head)
      BY <2>1 DEF Commits, Branch
    <3> QED BY <3>1 DEF Current
  <2> QED BY <2>1, GroundKept
<1>5. SettledInv'
  BY SettledKept
<1>6. ActiveBranchOwned'
  <2>1. Current.base \in 0..Len(entries)
    BY Zenon, InputBranch
  <2>2. BranchIn(entries', Current.base) = BranchIn(entries, Current.base)
    BY Zenon, <2>1, Branches
  <2>3. ASSUME NEW i \in BranchIn(entries', head') \ BranchIn(entries', Current.base)
        PROVE  entries'[i].exec = Len(execs)
    <3>1. CASE i = head'
      BY <3>1
    <3>2. CASE i # head'
      <4>1. i \in BranchIn(entries, parent) \ BranchIn(entries, Current.base)
        BY Zenon, <3>2, <2>2, <2>3
      <4>2. i \in 1..Len(entries)
        BY Zenon, <4>1, BranchDown DEF Logged
      <4> QED BY Zenon, <4>1, <4>2 DEF LogKept
    <3> QED BY <3>1, <3>2
  <2> QED BY Zenon, <2>3 DEF ActiveBranchOwned, Current, Branch
<1>7. Concluded'
  <2>1. Current.state # "succeeded"
    BY DEF Active, Live
  <2> QED BY Zenon, <2>1 DEF Concluded, Current
<1> QED BY Zenon, <1>3, <1>4, <1>5, <1>6, <1>7 DEF Store, e

\* What the completion of an execution appends.
LEMMA CompletionLog ==
    ASSUME StoreType, Logged, execs # <<>>, NEW terminal \in BOOLEAN, NEW restore \in BOOLEAN,
           terminal \/ restore,
           AppendEntries(Completion(head, Current.base, Len(execs), terminal, restore))
    PROVE  /\ LogKept /\ Len(entries') > Len(entries)
           /\ \A i \in (Len(entries) + 1)..Len(entries') :
                /\ entries'[i].exec = Len(execs) /\ entries'[i].kind \in {"terminal", "restore"}
                /\ entries'[i].kind = "terminal" => terminal /\ i = Len(entries) + 1
           /\ restore =>
                BranchIn(entries', head') = {head'} \cup BranchIn(entries, Current.base)
           /\ ~restore => BranchIn(entries', head') = {head'} \cup BranchIn(entries, head)
<1> DEFINE T == Entry("terminal", head, Len(execs), 0, FALSE)
           R == Entry("restore", Current.base, Len(execs), 0, FALSE)
           new == Completion(head, Current.base, Len(execs), terminal, restore)
<1>t. /\ Len(entries) \in Nat /\ Len(execs) \in Nat
      /\ head \in 0..Len(entries) /\ Current.base \in 0..Len(entries)
  BY SMT, SMTT(30), InputBranch DEF StoreType, Logged
<1>T. T \in Entries /\ T.parent = head /\ T.exec = Len(execs) /\ T.kind = "terminal"
  BY SMT, SMTT(30), <1>t DEF Entry, Entries, Kinds
<1>R. R \in Entries /\ R.parent = Current.base /\ R.exec = Len(execs) /\ R.kind = "restore"
  BY SMT, SMTT(30), <1>t DEF Entry, Entries, Kinds
<1>n. /\ terminal /\ restore => new = <<T, R>>
      /\ terminal /\ ~restore => new = <<T>>
      /\ ~terminal /\ restore => new = <<R>>
  <2>1. new = (IF terminal THEN <<T>> ELSE <<>>) \o (IF restore THEN <<R>> ELSE <<>>)
    BY DEF Completion
  <2> HIDE DEF T, R, new
  <2>2. <<T>> \o <<R>> = <<T, R>>
    BY <1>T, <1>R, Pair
  <2>3. <<T>> \o <<>> = <<T>> /\ <<>> \o <<R>> = <<R>>
    OBVIOUS
  <2> QED BY Zenon, <2>1, <2>2, <2>3
<1>a. AppendEntries(new)
  BY Zenon
<1> HIDE DEF T, R, new
<1>1. CASE terminal /\ restore
  <2>1. /\ LogKept /\ head' = Len(entries) + 2 /\ Len(entries') = Len(entries) + 2
        /\ entries'[Len(entries) + 1] = T /\ entries'[Len(entries) + 2] = R
        /\ BranchIn(entries', head') = {head'} \cup BranchIn(entries, Current.base)
    BY ZenonT(60), <1>1, <1>n, <1>a, <1>t, <1>T, <1>R, TwoEntries
  <2>2. \A i \in (Len(entries) + 1)..Len(entries') :
           i = Len(entries) + 1 \/ i = Len(entries) + 2
    BY <2>1, <1>t
  <2> QED BY <2>1, <2>2, <1>1, <1>t, <1>T, <1>R
<1>2. CASE terminal /\ ~restore
  <2>1. /\ LogKept /\ head' = Len(entries) + 1 /\ Len(entries') = Len(entries) + 1
        /\ entries'[Len(entries) + 1] = T
        /\ BranchIn(entries', head') = {head'} \cup BranchIn(entries, head)
    BY Zenon, <1>2, <1>n, <1>a, <1>t, <1>T, OneEntry
  <2>2. \A i \in (Len(entries) + 1)..Len(entries') : i = Len(entries) + 1
    BY <2>1, <1>t
  <2> QED BY SMT, SMTT(30), <2>1, <2>2, <1>2, <1>t, <1>T
<1>3. CASE ~terminal /\ restore
  <2>1. /\ LogKept /\ head' = Len(entries) + 1 /\ Len(entries') = Len(entries) + 1
        /\ entries'[Len(entries) + 1] = R
        /\ BranchIn(entries', head') = {head'} \cup BranchIn(entries, Current.base)
    BY Zenon, <1>3, <1>n, <1>a, <1>t, <1>R, OneEntry
  <2>2. \A i \in (Len(entries) + 1)..Len(entries') : i = Len(entries) + 1
    BY <2>1, <1>t
  <2> QED BY SMT, SMTT(30), <2>1, <2>2, <1>3, <1>t, <1>R
<1> QED BY Zenon, <1>1, <1>2, <1>3

\* The current execution is completed or handed off.
LEMMA CompletesStore ==
    ASSUME StoreType, Store, NEW x, NEW terminal, NEW restore,
           Completes(x, terminal, restore)
    PROVE  Store' /\ LogKept /\ ExecsKept /\ Len(entries') > Len(entries)
<1>i. /\ Logged /\ Grounded /\ Concluded /\ SettledInv /\ ActiveBranchOwned
      /\ Active /\ execs # <<>> /\ Altered(x)
      /\ terminal \in BOOLEAN /\ restore \in BOOLEAN /\ (terminal \/ restore)
      /\ (terminal <=> ~Live(x))
  BY Zenon DEF Store, Completes, Altered, Active
<1>t. /\ Len(entries) \in Nat /\ Len(execs) \in Nat /\ Len(execs) # 0
      /\ head \in 0..Len(entries) /\ Tree(entries)
      /\ DOMAIN entries = 1..Len(entries) /\ DOMAIN execs = 1..Len(execs)
  BY <1>i, Last DEF StoreType, Logged
<1>1. /\ LogKept /\ Len(entries') > Len(entries)
      /\ \A i \in (Len(entries) + 1)..Len(entries') :
           /\ entries'[i].exec = Len(execs) /\ entries'[i].kind \in {"terminal", "restore"}
           /\ entries'[i].kind = "terminal" => terminal /\ i = Len(entries) + 1
      /\ restore =>
           BranchIn(entries', head') = {head'} \cup BranchIn(entries, Current.base)
      /\ ~restore => BranchIn(entries', head') = {head'} \cup BranchIn(entries, head)
  <2>1. AppendEntries(Completion(head, Current.base, Len(execs), terminal, restore))
    BY Zenon DEF Completes
  <2> QED BY Zenon, <1>i, <2>1, CompletionLog
<1>2. /\ ExecsKept /\ Sound /\ Len(execs') = Len(execs) /\ execs'[Len(execs)] = x
      /\ \A id \in 1..Len(execs) : id # Len(execs) => execs'[id] = execs[id]
      /\ x.base = Current.base /\ x.input = Current.input
  BY Zenon, <1>i, Alters, AlteredExecs DEF Altered
<1>l. DOMAIN entries' = 1..Len(entries') /\ Len(entries') \in Nat /\ head' = Len(entries')
  BY Zenon, <1>1, Lengths DEF LogKept
<1>3. Logged'
  BY SMT, SMTT(30), <1>i, <1>1, <1>2, <1>t, LogStays
<1>4. Grounded'
  BY Zenon, <1>i, <1>1, <1>2, GroundKept
<1>5. SettledInv'
  <2>1. ASSUME NEW i \in DOMAIN entries', entries'[i].kind = "terminal"
        PROVE  \/ i \in DOMAIN entries /\ entries'[i] = entries[i]
               \/ i = Len(entries) + 1 /\ entries'[i].exec = Len(execs) /\ ~Live(x)
    <3>1. CASE i \in 1..Len(entries)
      BY Zenon, <3>1, <1>1, <1>t DEF LogKept
    <3>2. CASE i \in (Len(entries) + 1)..Len(entries')
      BY Zenon, <3>2, <1>1, <1>i, <2>1
    <3> QED BY SMT, SMTT(30), <3>1, <3>2, <1>t, <1>l
  <2>2. ASSUME NEW i \in DOMAIN entries, entries[i].kind = "terminal"
        PROVE  /\ entries[i].exec # 0 /\ entries[i].exec # Len(execs)
               /\ ~Live(execs'[entries[i].exec])
    <3>1. /\ entries[i].exec # 0 /\ ~Live(execs[entries[i].exec])
          /\ entries[i].exec <= Len(execs) /\ entries[i].exec \in Nat
      <4>1. entries[i].exec \in Nat
        BY Zenon, <1>t, EntryType
      <4> QED BY Zenon, <2>2, <4>1, <1>i DEF SettledInv, Logged
    <3>2. entries[i].exec # Len(execs)
      BY <3>1, <1>i DEF Active, Current
    <3>3. entries[i].exec \in 1..Len(execs)
      BY <3>1, <1>t
    <3>4. execs'[entries[i].exec] = execs[entries[i].exec]
      BY <3>2, <3>3, <1>2
    <3> QED BY <3>1, <3>2, <3>4
  <2> SUFFICES ASSUME NEW i \in DOMAIN entries', NEW j \in DOMAIN entries',
                      entries'[i].kind = "terminal", entries'[j].kind = "terminal",
                      entries'[i].exec = entries'[j].exec
               PROVE  /\ i = j /\ entries'[i].exec # 0
                      /\ ~Live(execs'[entries'[i].exec])
    BY DEF SettledInv
  <2>3. CASE i \in DOMAIN entries /\ entries'[i] = entries[i]
    <3>1. entries[i].exec # Len(execs)
      BY Zenon, <2>2, <2>3
    <3>2. j \in DOMAIN entries /\ entries'[j] = entries[j]
      BY Zenon, <2>1, <3>1, <2>3
    <3>3. i = j
      BY Zenon, <3>2, <2>3, <1>i DEF SettledInv
    <3> QED BY Zenon, <3>3, <2>2, <2>3
  <2>4. CASE i = Len(entries) + 1 /\ entries'[i].exec = Len(execs) /\ ~Live(x)
    <3>1. j = i
      BY Zenon, <2>1, <2>2, <2>4
    <3> QED BY Zenon, <3>1, <2>4, <1>2, <1>t
  <2> QED BY Zenon, <2>1, <2>3, <2>4
<1>6. ActiveBranchOwned'
  <2> SUFFICES ASSUME Live(x), NEW i \in BranchIn(entries', head') \ BranchIn(entries', x.base)
               PROVE  entries'[i].exec = Len(execs)
    BY Zenon, <1>2 DEF ActiveBranchOwned, Active, Current, Branch
  <2>1. restore
    BY Zenon, <1>i
  <2>2. Current.base \in 0..Len(entries)
    BY Zenon, <1>i, InputBranch
  <2>3. BranchIn(entries', x.base) = BranchIn(entries, Current.base)
    BY Zenon, <2>2, <1>2, <1>i, <1>1, Branches
  <2>4. i = head'
    BY Zenon, <2>1, <2>3, <1>1
  <2>5. head' \in (Len(entries) + 1)..Len(entries')
    BY SMT, SMTT(30), <1>l, <1>1, <1>t
  <2> QED BY Zenon, <2>4, <2>5, <1>1
<1>7. Concluded'
  <2> SUFFICES ASSUME x.state = "succeeded", NEW id \in 1..Len(execs),
                      execs[id].input \in BranchIn(entries', head')
               PROVE  execs[id].input <= LatestIn(entries', head')
    <3>1. \A id \in 1..Len(execs) : execs'[id].input = execs[id].input
      BY Zenon, <1>2 DEF ExecsKept
    <3>2. DOMAIN execs' = 1..Len(execs) /\ Current' = x
      BY SMT, SMTT(30), <1>2 DEF ExecsKept, Current
    <3> QED BY Zenon, <3>1, <3>2 DEF Concluded, Branch, LatestCheckpoint, LatestIn
  <2>1. ~restore /\ Current.input \in BranchIn(entries, head)
    BY Zenon DEF Completes, Branch
  <2>2. PICK c \in Checkpoints(Len(execs)) : c \in BranchIn(entries, head)
    BY Zenon DEF Completes, Branch
  <2>3. /\ c \in 1..Len(entries) /\ entries[c].kind = "checkpoint"
        /\ Current.input \in BranchIn(entries, c)
    BY Zenon, <1>t, <1>i DEF Checkpoints, Grounded, Current, Branch
  <2>4. c \in BranchIn(entries', head') /\ entries'[c].kind = "checkpoint"
    BY Zenon, <2>1, <2>2, <2>3, <1>1 DEF LogKept
  <2>5. Tree(entries') /\ head' \in 0..Len(entries')
    BY SMT, SMTT(30), <1>i, <1>1, <1>l, Branches
  <2>6. c <= LatestIn(entries', head') /\ LatestIn(entries', head') \in Nat
    <3>1. LatestIn(entries', head') \in 0..head' /\ c <= LatestIn(entries', head')
      BY Zenon, <2>4, <2>5, Latest
    <3> QED BY <3>1, <1>l
  <2>7. Recorded(id) /\ execs[id].input \in 1..Len(entries)
    BY Zenon, <1>i, <1>t DEF Logged, Recorded
  <2>8. execs[id].input \in BranchIn(entries, head)
    <3>1. execs[id].input # head'
      BY SMT, SMTT(30), <2>7, <1>1, <1>l, <1>t
    <3> QED BY Zenon, <3>1, <2>1, <1>1
  <2>9. execs[id].input <= c
    <3>1. CASE id = Len(execs)
      <4>1. BranchIn(entries, c) \subseteq 1..c
        BY SMT, SMTT(30), <2>3, <1>t, BranchBelow
      <4> QED BY <3>1, <4>1, <2>3 DEF Current
    <3>2. CASE id # Len(execs)
      <4>1. entries[execs[id].input].exec = id
        BY Zenon, <2>7 DEF Recorded
      <4>2. execs[id].input \in BranchIn(entries, Current.base)
        BY Zenon, <2>8, <3>2, <4>1, <1>i DEF ActiveBranchOwned, Branch
      <4>3. /\ Current.base \in 0..Len(entries) /\ Current.base < Current.input
            /\ Current.input \in Nat
        BY SMT, SMTT(30), <1>i, InputBranch
      <4>4. BranchIn(entries, Current.base) \subseteq 1..Current.base
        BY Zenon, <4>3, <1>t, BranchBelow
      <4>5. BranchIn(entries, c) \subseteq 1..c
        BY <2>3, <1>t, BranchBelow
      <4>6. Current.input <= c
        BY <4>5, <2>3
      <4>7. execs[id].input <= Current.base
        BY <4>2, <4>4
      <4> QED BY <4>3, <4>6, <4>7, <2>7, <2>3
    <3> QED BY Zenon, <3>1, <3>2
  <2> QED BY <2>9, <2>6, <2>7, <2>3
<1> QED BY Zenon, <1>1, <1>2, <1>3, <1>4, <1>5, <1>6, <1>7 DEF Store

-----------------------------------------------------------------------------
(***************************************************************************)
(* What holds of the hosts, and the inductive invariant.                   *)
(***************************************************************************)

\* The types of a host's run and of its cancellation request.
Runs == [pc : Counters, exec : Nat, token : Nat, plan : Nat, head : Nat,
         target : Nat, turn : Nat, ctx : {"live", "cancelled", "lost"},
         out : {"none", "release", "handoff", "failed", "cancelled"}]

\* A cancellation that a host works on.
Cancellations == [pc : {"idle", "waiting", "read", "commit"},
                  id : Nat, head : Nat, base : Nat, tries : Nat]

\* The types of the hosts.
HostType ==
    /\ claims \in Nat /\ faults \in Nat /\ mode \in [Hosts -> Modes]
    /\ run \in [Hosts -> Runs] /\ cancel \in [Hosts -> Cancellations]

\* What a host remembers of the store points into it.
HostBounds(h) ==
    LET r == run[h] IN
    /\ r.head <= Len(entries) /\ r.target <= Len(entries) /\ r.exec <= Len(execs)
    /\ r.pc \in Claimed => r.exec # 0
    /\ r.pc \in {"failing", "unwind"} => r.out # "none"
    /\ r.pc \in {"planned", "restore"} => r.target # 0
    /\ r.pc \in {"moving", "resumed", "accepted"} => r.turn = 0

\* What a host read is still true as long as the head has not moved since: it is
\* the head, and no lock, that guards a write (AppendEntries compares heads).
Ready(h) ==
    LET r == run[h] IN
    r.head = head =>
        /\ r.pc = "moving" => ~Active /\ r.target = ResumeHead
        /\ r.pc = "resumed" => ~Active /\ Resumable
        /\ r.pc = "accepted" => execs # <<>> /\ head = Current.input
        /\ r.pc \in {"planned", "restore"} => execs # <<>> /\ Anchor(r.target, r.turn)
        /\ r.pc \in Writing => r.exec = Len(execs)
        /\ r.pc \in {"turn", "mid", "finish"} => Current.input \in Branch(head)
        /\ r.pc = "finish" => \E c \in Checkpoints(Len(execs)) : c \in Branch(head)
        /\ r.pc = "unwind" => r.target = Current.base

\* The same of a cancellation: its base is the execution's if the head stands.
CancelBounds(h) ==
    LET c == cancel[h] IN
    /\ c.head <= Len(entries) /\ c.base <= Len(entries) /\ c.id <= Len(execs)
    /\ c.pc # "idle" => c.id # 0
    /\ c.pc = "read" => c.tries # 0
    /\ c.pc = "commit" /\ c.head = head => c.base = Current.base

\* What holds of one host.
HostOK(h) == HostBounds(h) /\ Ready(h)

\* The inductive invariant.
Inv ==
    /\ StoreType /\ HostType /\ Store
    /\ \A h \in Hosts : HostOK(h) /\ CancelBounds(h)

\* Every step is one of these to the store.
StoreStep ==
    \/ Quiet \/ Accepts
    \/ \E kind, t : Moves(kind, t)
    \/ \E kind, parent, turn, stop : Commits(kind, parent, turn, stop)
    \/ \E x, terminal, restore : Completes(x, terminal, restore)

\* They keep the store's part of the invariant, and those that are not quiet grow the log.
LEMMA StoreSteps ==
    ASSUME StoreType, Store, StoreStep
    PROVE  /\ Store' /\ LogKept /\ ExecsKept /\ StoreType'
           /\ Quiet \/ Len(entries') > Len(entries)
<1>t. Len(entries) \in Nat
  BY DEF StoreType
<1>1. CASE Quiet
  BY Zenon, <1>1, QuietStore DEF StoreType, LogKept, ExecsKept
<1>2. CASE Accepts
  <2>1. Store' /\ LogKept /\ ExecsKept /\ head' = Len(entries) + 1
    BY <1>2, AcceptsStore
  <2> QED BY SMT, SMTT(30), <2>1, <1>t DEF StoreType, LogKept, ExecsKept
<1>3. ASSUME NEW kind, NEW t, Moves(kind, t)
      PROVE  /\ Store' /\ LogKept /\ ExecsKept /\ StoreType' /\ Len(entries') > Len(entries)
  <2>1. Store' /\ LogKept /\ ExecsKept /\ head' = Len(entries) + 1
    BY Zenon, <1>3, MovesStore
  <2> QED BY SMT, SMTT(30), <2>1, <1>t DEF StoreType, LogKept, ExecsKept
<1>4. ASSUME NEW kind, NEW parent, NEW turn, NEW stop, Commits(kind, parent, turn, stop)
      PROVE  /\ Store' /\ LogKept /\ ExecsKept /\ StoreType' /\ Len(entries') > Len(entries)
  <2>1. Store' /\ LogKept /\ ExecsKept /\ head' = Len(entries) + 1
    BY <1>4, CommitsStore
  <2> QED BY <2>1, <1>t DEF StoreType, LogKept, ExecsKept
<1>5. ASSUME NEW x, NEW terminal, NEW restore, Completes(x, terminal, restore)
      PROVE  /\ Store' /\ LogKept /\ ExecsKept /\ StoreType' /\ Len(entries') > Len(entries)
  <2>1. Store' /\ LogKept /\ ExecsKept /\ Len(entries') > Len(entries)
    BY Zenon, <1>5, CompletesStore
  <2> QED BY Zenon, <2>1 DEF StoreType, LogKept, ExecsKept
<1> QED BY <1>1, <1>2, <1>3, <1>4, <1>5 DEF StoreStep

\* The step changes no more than the context of host g's run.
Calm(g) ==
    /\ run'[g].pc = run[g].pc /\ run'[g].exec = run[g].exec
    /\ run'[g].token = run[g].token /\ run'[g].head = run[g].head
    /\ run'[g].target = run[g].target /\ run'[g].turn = run[g].turn
    /\ run'[g].out = run[g].out

\* A step that appends nothing keeps what the current execution stands on.
LEMMA QuietCurrent ==
    ASSUME StoreType, Quiet
    PROVE  /\ entries' = entries /\ head' = head /\ Len(execs') = Len(execs)
           /\ (execs' = <<>>) <=> (execs = <<>>)
           /\ execs # <<>> => /\ Current'.base = Current.base /\ Current'.input = Current.input
           /\ ~Active => execs' = execs
<1>1. CASE execs' = execs
  BY <1>1 DEF Quiet, Current
<1>2. CASE \E x \in Executions : Altered(x)
  <2>1. PICK x \in Executions : Altered(x)
    BY <1>2
  <2>2. /\ Len(execs') = Len(execs) /\ execs # <<>> /\ execs'[Len(execs)] = x /\ execs' # <<>>
    BY <2>1, Alters
  <2> QED BY <2>1, <2>2 DEF Quiet, Altered, Current
<1> QED BY Zenon, <1>1, <1>2 DEF Quiet

\* What every step is: one of the steps of the store, and hosts that keep their bounds.
Good ==
    /\ StoreStep /\ HostType'
    /\ \A g \in Hosts : Calm(g) \/ HostOK(g)'
    /\ \A g \in Hosts : cancel'[g] = cancel[g] \/ CancelBounds(g)'

\* Such a step keeps the invariant.
LEMMA GoodStep ==
    ASSUME Inv, Good
    PROVE  Inv'
\* A host whose head is behind is ready for anything.
<1>Behind. ASSUME StoreType, LogKept, Len(entries') > Len(entries), NEW g,
                  run'[g].head \in Nat, run'[g].head <= Len(entries)
           PROVE  Ready(g)'
  <2> USE <1>Behind
  <2>1. run'[g].head # head'
    BY DEF StoreType, LogKept
  <2> QED BY Zenon, <2>1 DEF Ready
\* A host that is not disturbed stays ready through a quiet step ...
<1>QuietReady. ASSUME StoreType, Quiet, NEW g, HostBounds(g), Ready(g), Calm(g)
               PROVE  Ready(g)'
  <2> USE <1>QuietReady
  <2> /\ entries' = entries /\ head' = head /\ Len(execs') = Len(execs)
      /\ (execs' = <<>>) <=> (execs = <<>>)
      /\ execs # <<>> => Current'.base = Current.base /\ Current'.input = Current.input
      /\ ~Active => execs' = execs
    BY Zenon, QuietCurrent
  <2>2. CASE execs' = execs
    BY <2>2, Zenon DEF Ready, Calm, Anchor, Branch, Checkpoints, Active, Current, Resumable,
         ResumeHead, LatestCheckpoint, HeadRestoresAnchor
  <2> CASE Active /\ execs # <<>>
    <3>1. \A t, n : Anchor(t, n) => Anchor(t, n)'
      BY Zenon DEF Anchor, Branch, Checkpoints
    <3>2. Checkpoints(Len(execs))' = Checkpoints(Len(execs)) /\ Branch(head)' = Branch(head)
      BY Zenon DEF Branch, Checkpoints
    <3> DEFINE r == run[g]
               q == run'[g]
    <3> /\ q.pc = r.pc /\ q.exec = r.exec /\ q.head = r.head
        /\ q.target = r.target /\ q.turn = r.turn
      BY Zenon DEF Calm
    <3> SUFFICES ASSUME q.head = head' PROVE Ready(g)'
      BY Zenon DEF Ready
    <3>4. /\ r.pc # "moving" /\ r.pc # "resumed"
          /\ r.pc = "accepted" => head = Current.input
          /\ r.pc \in {"planned", "restore"} => Anchor(r.target, r.turn)
          /\ r.pc \in Writing => r.exec = Len(execs)
          /\ r.pc \in {"turn", "mid", "finish"} => Current.input \in Branch(head)
          /\ r.pc = "finish" => \E c \in Checkpoints(Len(execs)) : c \in Branch(head)
          /\ r.pc = "unwind" => r.target = Current.base
      BY Zenon DEF Ready
    <3>5. q.pc \in {"planned", "restore"} =>
             \/ q.target = Current'.input /\ q.turn = 0
             \/ /\ q.target \in Checkpoints(Len(execs))' /\ q.target \in Branch(head)'
                /\ q.turn = entries'[q.target].turn
      BY <3>1, <3>4, ZenonT(60) DEF Anchor
    <3>6. execs' # <<>> /\ Current'.base = Current.base /\ Current'.input = Current.input
      BY Zenon
    <3> HIDE DEF r, q
    <3>7. /\ q.pc # "moving" /\ q.pc # "resumed"
          /\ q.pc = "accepted" => head' = Current'.input
          /\ q.pc \in Writing => q.exec = Len(execs')
          /\ q.pc \in {"turn", "mid", "finish"} => Current'.input \in Branch(head)'
          /\ q.pc = "finish" => \E c \in Checkpoints(Len(execs))' : c \in Branch(head)'
          /\ q.pc = "unwind" => q.target = Current'.base
      BY <3>2, <3>4, <3>6, Zenon
    <3> QED BY <3>5, <3>6, <3>7, Zenon DEF Ready, Anchor, q
  <2> QED BY <2>2, Zenon DEF Quiet, Altered, Active
\* ... and through any, since the head moves in the others.
<1>RunKept. ASSUME StoreType, Store, StoreStep, NEW g, HostOK(g), Calm(g), run[g] \in Runs
            PROVE  HostOK(g)'
  <2> USE <1>RunKept
  <2> /\ LogKept /\ ExecsKept /\ StoreType'
      /\ Quiet \/ Len(entries') > Len(entries)
    BY StoreSteps
  <2>2. run[g].head \in Nat /\ run[g].target \in Nat /\ run[g].exec \in Nat
    BY DEF Runs
  <2>3. /\ Len(entries) \in Nat /\ Len(entries') \in Nat /\ Len(entries) <= Len(entries')
        /\ Len(execs) \in Nat /\ Len(execs') \in Nat /\ Len(execs) <= Len(execs')
    BY DEF StoreType, LogKept, ExecsKept
  <2>4. HostBounds(g)'
    <3>1. /\ run[g].head <= Len(entries') /\ run[g].target <= Len(entries')
          /\ run[g].exec <= Len(execs')
      BY Zenon, <2>2, <2>3, Further DEF HostOK, HostBounds
    <3> QED BY <3>1, Zenon DEF HostOK, HostBounds, Calm
  <2>5. CASE Quiet
    BY <2>4, <2>5, <1>QuietReady DEF HostOK
  <2>6. CASE Len(entries') > Len(entries)
    <3>1. run'[g].head \in Nat /\ run'[g].head <= Len(entries)
      BY Zenon, <2>2 DEF HostOK, HostBounds, Calm
    <3> QED BY Zenon, <2>4, <2>6, <3>1, <1>Behind DEF HostOK
  <2> QED BY <2>5, <2>6
\* So does a cancellation.
<1>CancelKept. ASSUME StoreType, Store, StoreStep, NEW g, CancelBounds(g), cancel'[g] = cancel[g],
                      cancel[g] \in Cancellations
               PROVE  CancelBounds(g)'
  <2> USE <1>CancelKept
  <2>1. /\ LogKept /\ ExecsKept /\ StoreType'
        /\ Quiet \/ Len(entries') > Len(entries)
    BY Zenon, StoreSteps
  <2>2. cancel[g].head \in Nat /\ cancel[g].base \in Nat /\ cancel[g].id \in Nat
    BY Zenon DEF Cancellations
  <2>3. /\ Len(entries) \in Nat /\ Len(entries') \in Nat /\ Len(entries) <= Len(entries')
        /\ Len(execs) \in Nat /\ Len(execs') \in Nat /\ Len(execs) <= Len(execs')
    BY SMT, SMTT(30), <2>1 DEF StoreType, LogKept, ExecsKept
  <2>4. /\ cancel[g].head <= Len(entries') /\ cancel[g].base <= Len(entries')
        /\ cancel[g].id <= Len(execs')
    BY SMT, SMTT(30), <2>2, <2>3 DEF CancelBounds
  <2>5. cancel[g].pc = "commit" /\ cancel[g].head = head' => cancel[g].base = Current'.base
    <3> SUFFICES ASSUME cancel[g].pc = "commit", cancel[g].head = head'
                 PROVE  cancel[g].base = Current'.base
      BY Zenon
    <3>1. execs # <<>>
      BY <2>2, <2>3 DEF CancelBounds
    <3>2. CASE Quiet
      BY Zenon, <3>1, <3>2, QuietCurrent DEF CancelBounds
    <3>3. CASE Len(entries') > Len(entries)
      BY SMT, SMTT(30), <2>1, <2>2, <2>3, <3>3 DEF CancelBounds, LogKept
    <3> QED BY Zenon, <2>1, <3>2, <3>3
  <2> QED BY <2>4, <2>5, Zenon DEF CancelBounds
<1> StoreType /\ Store /\ StoreStep /\ HostType
  BY Zenon DEF Inv, Good
<1>2. Store' /\ StoreType'
  BY StoreSteps
<1>3. ASSUME NEW g \in Hosts PROVE HostOK(g)' /\ CancelBounds(g)'
  <2>1. run[g] \in Runs /\ cancel[g] \in Cancellations /\ HostOK(g) /\ CancelBounds(g)
    BY Zenon DEF Inv, HostType
  <2>2. HostOK(g)'
    BY Zenon, <2>1, <1>RunKept DEF Good
  <2>3. CancelBounds(g)'
    BY Zenon, <2>1, <1>CancelKept DEF Good
  <2> QED BY <2>2, <2>3
<1> QED BY Zenon, <1>2, <1>3 DEF Inv, Good

\* One host's run becomes r.
LEMMA Becomes ==
    ASSUME HostType, NEW h \in Hosts, NEW r \in Runs, Become(h, r)
    PROVE  /\ run' \in [Hosts -> Runs] /\ run'[h] = r
           /\ \A g \in Hosts : g # h => run'[g] = run[g] /\ Calm(g)
<1>1. run' \in [Hosts -> Runs] /\ run'[h] = r
  BY DEF Become, HostType
<1>2. \A g \in Hosts : g # h => run'[g] = run[g]
  BY DEF Become, HostType
<1> QED BY <1>1, <1>2, Zenon DEF Calm

-----------------------------------------------------------------------------
(***************************************************************************)
(* The actions.                                                            *)
(***************************************************************************)

\* What the invariant says of the store ...
LEMMA Facts ==
    ASSUME Inv
    PROVE  /\ StoreType /\ HostType /\ Store /\ Logged /\ Tree(entries)
           /\ Len(entries) \in Nat /\ Len(execs) \in Nat
           /\ head = Len(entries) /\ head \in Nat /\ head \in 0..Len(entries)
<1>1. StoreType /\ HostType /\ Store /\ Logged /\ Tree(entries) /\ head = Len(entries)
  BY Zenon DEF Inv, Store, Logged
<1> QED BY <1>1 DEF StoreType

\* ... and of a host's run.
LEMMA HostFacts ==
    ASSUME Inv, NEW h \in Hosts
    PROVE  /\ run[h] \in Runs /\ HostBounds(h) /\ Ready(h)
           /\ run[h].pc \in Counters /\ run[h].exec \in Nat /\ run[h].token \in Nat
           /\ run[h].plan \in Nat /\ run[h].head \in Nat /\ run[h].target \in Nat
           /\ run[h].turn \in Nat
<1>1. run[h] \in Runs /\ HostBounds(h) /\ Ready(h)
  BY DEF Inv, HostType, HostOK
<1> QED BY Zenon, <1>1 DEF Runs

\* The entry a resume returns to is one of the log.
LEMMA ResumeBelow ==
    ASSUME Inv
    PROVE  /\ ResumeHead \in 0..Len(entries) /\ LatestCheckpoint(head) \in 0..Len(entries)
           /\ LatestCheckpoint(head) # 0 =>
                /\ LatestCheckpoint(head) \in Branch(head)
                /\ entries[LatestCheckpoint(head)].kind = "checkpoint"
<1>1. /\ StoreType /\ Logged /\ Tree(entries) /\ head \in 0..Len(entries)
      /\ Len(entries) \in Nat
  BY Facts
<1>2. LatestCheckpoint(head) = LatestIn(entries, head)
  BY Zenon DEF LatestCheckpoint, LatestIn, Branch
<1>3. /\ LatestIn(entries, head) \in 0..head
      /\ LatestIn(entries, head) # 0 =>
          /\ LatestIn(entries, head) \in BranchIn(entries, head)
          /\ entries[LatestIn(entries, head)].kind = "checkpoint"
  BY Zenon, <1>1, Latest
<1>4. LatestCheckpoint(head) \in 0..Len(entries)
  BY SMT, SMTT(30), <1>1, <1>2, <1>3
<1>5. execs # <<>> => Current.base \in 0..Len(entries)
  BY Zenon, <1>1, InputBranch
<1> QED BY <1>2, <1>3, <1>4, <1>5, Zenon DEF ResumeHead, Branch

\* Claiming an execution changes its record and nothing in the log.
LEMMA Claiming ==
    ASSUME Inv, Claim, UNCHANGED <<entries, head>>
    PROVE  /\ Quiet /\ StoreStep /\ execs # <<>> /\ Len(execs') = Len(execs)
           /\ claims' \in Nat /\ claims' = claims + 1
<1> DEFINE x == [Current EXCEPT !.state = "running", !.token = claims + 1, !.lease = LeaseTicks]
<1>1. /\ Active /\ execs # <<>> /\ SetCurrent(x) /\ claims' = claims + 1 /\ claims \in Nat
      /\ StoreType
  BY DEF Claim, RecoverableNow, Active, Inv, HostType
<1>2. Current \in Executions /\ claims + 1 \in Nat /\ LeaseTicks \in 0..LeaseTicks
  BY <1>1, Last, ConstantsAssumption
<1>3. /\ x \in Executions /\ x.base = Current.base /\ x.input = Current.input
      /\ x.state = "running"
  <2>1. x = [Current EXCEPT !.state = "running", !.token = claims + 1, !.lease = LeaseTicks]
    OBVIOUS
  <2> HIDE DEF x
  <2> QED BY Zenon, <1>2, <2>1 DEF Executions, States
<1> HIDE DEF x
<1>4. Altered(x) /\ x.state # "succeeded"
  BY <1>1, <1>3 DEF Altered
<1>5. Quiet
  BY <1>3, <1>4 DEF Quiet
<1> QED BY <1>1, <1>5, QuietCurrent DEF StoreStep

\* What a commit of a running execution appends, and to what.
LEMMA Committing ==
    ASSUME Inv, NEW h \in Hosts, NEW kind, NEW parent, NEW turn, NEW stop,
           CommitEntry(h, kind, parent, turn, stop, "running"), run[h].pc \in Claimed
    PROVE  /\ Active /\ execs # <<>> /\ head = run[h].head /\ run[h].exec = Len(execs)
           /\ AppendEntries(<<Entry(kind, parent, Len(execs), turn, stop)>>)
           /\ execs' = execs /\ claims' \in Nat
<1> /\ head = run[h].head /\ run[h].exec = Len(execs) /\ Current.state = "running"
    /\ AppendEntries(<<Entry(kind, parent, run[h].exec, turn, stop)>>)
    /\ execs' = [execs EXCEPT ![Len(execs)] = execs[Len(execs)]]
    /\ UNCHANGED claims
  BY DEF CommitEntry, CanCommit, Holds, SetCurrent, Settle, Current
<1>2. execs' = execs
  <2>1. execs \in Seq(Executions)
    BY DEF Inv, StoreType
  <2> QED BY <2>1
<1>3. execs # <<>>
  <2>1. run[h].exec # 0
    BY Zenon, HostFacts DEF HostBounds
  <2>2. Len(<<>>) = 0
    OBVIOUS
  <2> QED BY Zenon, <2>1, <2>2
<1>4. claims' \in Nat
  BY Zenon DEF Inv, HostType
<1> QED BY <1>2, <1>3, <1>4 DEF Active, Live

\* The branch of a recovery anchor has the execution's input.
LEMMA AnchorBranch ==
    ASSUME Inv, execs # <<>>, NEW t, NEW n, Anchor(t, n)
    PROVE  /\ t \in 1..Len(entries) /\ Current.input \in BranchIn(entries, t)
           /\ t \in BranchIn(entries, t)
           /\ entries[t].stop => t \in Checkpoints(Len(execs))
<1> /\ StoreType /\ Logged /\ Tree(entries) /\ Len(entries) \in Nat /\ Grounded
    /\ head \in 0..Len(entries) /\ DOMAIN entries = 1..Len(entries)
  <2>1. StoreType /\ Logged /\ Tree(entries) /\ Len(entries) \in Nat /\ head \in 0..Len(entries)
    BY Facts
  <2>2. Grounded
    BY DEF Inv, Store
  <2> QED BY <2>1, <2>2 DEF StoreType
<1>2. t \in 1..Len(entries) => t \in BranchIn(entries, t)
  BY Zenon, BranchRecursion
<1>3. CASE t = Current.input
  BY Zenon, <1>2, <1>3, InputBranch
<1> CASE t \in Checkpoints(Len(execs)) /\ t \in BranchIn(entries, head)
  <2>1. t \in 1..Len(entries) /\ entries[t].kind = "checkpoint" /\ entries[t].exec = Len(execs)
    BY Zenon DEF Checkpoints
  <2>2. Current.input \in BranchIn(entries, t)
    BY Zenon, <2>1 DEF Grounded, Current, Branch
  <2> QED BY Zenon, <1>2, <2>1, <2>2
<1> QED BY Zenon, <1>3 DEF Anchor, Branch

\* The record of an execution that is settled or released.
LEMMA Settling ==
    ASSUME Inv, Active, NEW state \in {"pending", "succeeded", "failed", "cancelled"},
           SetCurrent(Settle(Current, state))
    PROVE  /\ Altered(Settle(Current, state)) /\ Settle(Current, state) \in Executions
           /\ Settle(Current, state).state = state
           /\ Live(Settle(Current, state)) <=> state = "pending"
<1> DEFINE x == [Current EXCEPT !.state = state, !.token = 0, !.lease = 0]
<1>1. Settle(Current, state) = x
  BY DEF Settle
<1>2. Current \in Executions /\ LeaseTicks \in Nat
  BY Facts, Last, ConstantsAssumption DEF Active
<1> /\ x \in Executions /\ x.state = state /\ x.lease = 0 /\ x.base = Current.base
    /\ x.input = Current.input
  <2>1. x = [Current EXCEPT !.state = state, !.token = 0, !.lease = 0]
    OBVIOUS
  <2>2. 0 \in 0..LeaseTicks /\ state \in States
    BY <1>2 DEF States
  <2> HIDE DEF x
  <2> QED BY Zenon, <1>2, <2>1, <2>2 DEF Executions
<1> HIDE DEF x
<1>4. Altered(x)
  BY <1>1 DEF Altered
<1>5. Live(x) <=> state = "pending"
  BY DEF Live
<1> QED BY <1>1, <1>4, <1>5

\* When no run changes, none moves.
LEMMA SameRuns ==
    ASSUME Inv, UNCHANGED run
    PROVE  run' \in [Hosts -> Runs] /\ \A g \in Hosts : Calm(g)
<1>1. run' \in [Hosts -> Runs]
  BY DEF Inv, HostType
<1> QED BY <1>1, Zenon DEF Calm

\* A context that ends moves no run.
LEMMA ContextEnds ==
    ASSUME Inv, NEW h \in Hosts, NEW c \in {"live", "cancelled", "lost"},
           run' = [run EXCEPT ![h] = [run[h] EXCEPT !.ctx = c]]
    PROVE  run' \in [Hosts -> Runs] /\ \A g \in Hosts : Calm(g)
<1> DEFINE r == [run[h] EXCEPT !.ctx = c]
<1>1. run[h] \in Runs /\ HostType
  BY HostFacts, Facts
<1>2. /\ r \in Runs /\ r.pc = run[h].pc /\ r.exec = run[h].exec /\ r.token = run[h].token
      /\ r.head = run[h].head /\ r.target = run[h].target /\ r.turn = run[h].turn
      /\ r.out = run[h].out
  <2>1. r = [run[h] EXCEPT !.ctx = c]
    OBVIOUS
  <2> HIDE DEF r
  <2> QED BY <1>1, <2>1 DEF Runs
<1>3. Become(h, r)
  BY DEF Become
<1> HIDE DEF r
<1>4. /\ run' \in [Hosts -> Runs] /\ run'[h] = r
      /\ \A g \in Hosts : g # h => Calm(g)
  BY <1>1, <1>2, <1>3, Becomes
<1>5. Calm(h)
  BY <1>2, <1>4 DEF Calm
<1> QED BY <1>4, <1>5

\* Interrupt cancels a run's context.
LEMMA Interrupting ==
    ASSUME Inv, NEW h \in Hosts, NEW id, Interrupt(h, id)
    PROVE  run' \in [Hosts -> Runs] /\ \A g \in Hosts : Calm(g)
<1>1. CASE UNCHANGED run
  BY <1>1, SameRuns
<1>2. CASE run' = [run EXCEPT ![h].ctx = "cancelled"]
  BY Zenon, <1>2, ContextEnds
<1> QED BY <1>1, <1>2 DEF Interrupt

\* What the invariant says of a cancellation.
LEMMA CancelFacts ==
    ASSUME Inv, NEW h \in Hosts
    PROVE  /\ cancel[h] \in Cancellations /\ CancelBounds(h)
           /\ cancel[h].id \in Nat /\ cancel[h].head \in Nat /\ cancel[h].base \in Nat
           /\ cancel[h].tries \in Nat
<1>1. cancel[h] \in Cancellations /\ CancelBounds(h)
  BY Zenon DEF Inv, HostType
<1> QED BY <1>1 DEF Cancellations

\* Every step of the specification, action by action.
LEMMA EveryStep ==
    ASSUME Inv, [Next]_vars
    PROVE  Good
\* A run that is over, or one that has not begun.
<1>IdleKept. ASSUME StoreType, Store, StoreStep, NEW g, run'[g] = IdleRun
             PROVE  HostOK(g)'
  <2> USE <1>IdleKept
  <2>1. StoreType'
    BY StoreSteps
  <2>2. Len(entries') \in Nat /\ Len(execs') \in Nat
    BY <2>1 DEF StoreType
  <2>3. /\ run'[g].pc = "idle" /\ run'[g].head = 0 /\ run'[g].target = 0 /\ run'[g].exec = 0
    BY SMT, SMTT(30) DEF IdleRun
  <2> QED BY SMT, SMTT(30), <2>2, <2>3 DEF HostOK, HostBounds, Ready, Claimed, Writing
\* A step of host h's run.
<1>HostStep. ASSUME NEW h \in Hosts, NEW r \in Runs, Become(h, r), StoreStep,
                    run'[h] = r => HostOK(h)', claims' \in Nat, UNCHANGED <<mode, cancel, faults>>
             PROVE  Good
  <2> USE <1>HostStep
  <2>1. HostType
    BY DEF Inv
  <2>2. /\ run' \in [Hosts -> Runs] /\ run'[h] = r
        /\ \A g \in Hosts : g # h => Calm(g)
    BY <2>1, Becomes
  <2>3. HostType'
    BY <2>1, <2>2 DEF HostType
  <2> QED BY <2>2, <2>3 DEF Good
\* A step that ends host h's run.
<1>IdleStep. ASSUME NEW h \in Hosts, Become(h, IdleRun), StoreStep,
                    claims' \in Nat, UNCHANGED <<mode, cancel, faults>>
             PROVE  Good
  <2> USE <1>IdleStep
  <2>1. IdleRun \in Runs
    BY Zenon DEF IdleRun, Runs, Counters
  <2>2. run'[h] = IdleRun => HostOK(h)'
    BY <1>IdleKept DEF Inv
  <2> QED BY Zenon, <2>1, <2>2, <1>HostStep
\* A step that leaves the store alone.
<1>Still. ASSUME UNCHANGED <<entries, head, execs>>
          PROVE  StoreStep /\ Quiet
  BY <1>Still DEF StoreStep, Quiet
\* ResumeSession reads the head and the entry to continue from.
<1>Resuming. ASSUME NEW h \in Hosts, ResumeSession(h)
             PROVE  Good
  <2> USE <1>Resuming
  <2> DEFINE p == IF HeadRestoresAnchor(head, ResumeHead) THEN "resumed" ELSE "moving"
             r == [IdleRun EXCEPT !.pc = p, !.head = head, !.target = ResumeHead]
  <2>1. head \in Nat /\ ResumeHead \in 0..Len(entries) /\ head = Len(entries)
    BY Facts, ResumeBelow
  <2>2. /\ r \in Runs /\ r.pc \in {"resumed", "moving"} /\ r.head = head /\ r.target = ResumeHead
        /\ r.pc = "resumed" => HeadRestoresAnchor(head, ResumeHead)
        /\ r.turn = 0 /\ r.exec = 0
    <3>1. ResumeHead \in Nat /\ p \in {"resumed", "moving"}
          /\ (p = "resumed" => HeadRestoresAnchor(head, ResumeHead))
      BY <2>1
    <3>2. p \in Counters
      BY <3>1 DEF Counters
    <3>3. r = [IdleRun EXCEPT !.pc = p, !.head = head, !.target = ResumeHead]
      OBVIOUS
    <3> HIDE DEF p, r
    <3>4. head \in Nat /\ ResumeHead \in Nat
      BY <2>1, <3>1
    <3>5. r \in Runs /\ r.pc = p /\ r.head = head /\ r.target = ResumeHead /\ r.turn = 0 /\ r.exec = 0
      BY Zenon, <3>2, <3>3, <3>4 DEF IdleRun, Runs
    <3> QED BY <3>1, <3>5
  <2>3. Become(h, r) /\ ~Active /\ UNCHANGED store /\ UNCHANGED <<mode, cancel, faults>>
    BY DEF ResumeSession
  <2>u. UNCHANGED entries /\ UNCHANGED head /\ UNCHANGED execs /\ UNCHANGED claims
    BY <2>3 DEF store
  <2> HIDE DEF r
  <2>4. StoreStep
    BY <2>u, <1>Still
  <2>5. HeadRestoresAnchor(head, ResumeHead) => Resumable
    BY DEF Resumable, ResumeHead
  <2>6. ASSUME run'[h] = r PROVE HostOK(h)'
    <3>0. Len(execs) \in Nat /\ Len(entries) \in Nat
      BY Facts
    <3>1. HostBounds(h)'
      BY SMT, SMTT(30), <2>u, <2>1, <2>2, <2>6, <3>0 DEF HostBounds, Claimed, Writing
    <3>2. ~Active' /\ ResumeHead' = ResumeHead /\ (Resumable => Resumable')
      BY Zenon, <2>3, <2>u DEF Active, ResumeHead, Current, LatestCheckpoint, Branch, Resumable,
           HeadRestoresAnchor
    <3>3. Ready(h)'
      BY Zenon, <2>2, <2>5, <2>6, <3>2 DEF Ready, Writing
    <3> QED BY <3>1, <3>3 DEF HostOK
  <2>7. claims' \in Nat
    BY <2>u DEF Inv, HostType
  <2> QED BY Zenon, <2>2, <2>3, <2>4, <2>6, <2>7, <1>HostStep
\* MoveHead appends the restoring entry, or finds the head moved.
<1>Moving. ASSUME NEW h \in Hosts, MoveHead(h)
           PROVE  Good
  <2> USE <1>Moving
  <2> UNCHANGED execs /\ claims' \in Nat /\ UNCHANGED <<mode, cancel, faults>>
    BY DEF MoveHead, Inv, HostType
  <2>1. CASE /\ Become(h, IdleRun) /\ UNCHANGED <<entries, head>>
    BY Zenon, <2>1, <1>Still, <1>IdleStep
  <2> CASE /\ ~ Active
           /\ head = run[h].head
           /\ AppendEntries(<<Entry("restore", run[h].target, 0, 0, FALSE)>>)
           /\ Become(h, [run[h] EXCEPT !.pc = "resumed", !.head = head'])
    <3> DEFINE r == [run[h] EXCEPT !.pc = "resumed", !.head = head']
               t == run[h].target
    <3> run[h].pc = "moving" /\ Ready(h) /\ HostBounds(h) /\ run[h] \in Runs /\ t \in Nat
      BY HostFacts DEF MoveHead
    <3> t = ResumeHead /\ t \in 0..Len(entries) /\ StoreType /\ Store
      BY ResumeBelow, Facts DEF Ready
    <3>3. Moves("restore", t)
      BY Zenon DEF Moves
    <3> /\ Store' /\ LogKept /\ ExecsKept /\ head' = Len(entries) + 1
        /\ entries'[Len(entries) + 1] = Entry("restore", t, 0, 0, FALSE)
      BY Zenon, <3>3, MovesStore
    <3>5. StoreStep
      BY <3>3 DEF StoreStep
    <3> Len(entries) \in Nat /\ Len(execs) \in Nat /\ head' \in Nat /\ head' # 0
      BY Facts
    <3> /\ r \in Runs /\ r.pc = "resumed" /\ r.head = head' /\ r.target = t
        /\ r.turn = run[h].turn /\ r.exec = run[h].exec
      BY Zenon DEF Runs, Counters
    <3> ASSUME run'[h] = r PROVE HostOK(h)'
      <4>0. /\ r.turn = 0 /\ r.exec <= Len(execs) /\ r.target <= Len(entries')
            /\ r.head <= Len(entries')
        BY DEF HostBounds, LogKept
      <4> HIDE DEF r
      <4>1. HostBounds(h)'
        BY <4>0 DEF HostBounds, Claimed, Writing
      <4>2. ~Active'
        BY Zenon DEF Active, Current
      <4>3. Resumable'
        <5> SUFFICES ASSUME execs # <<>>, Current.state \in {"failed", "cancelled"}
                     PROVE  HeadRestoresAnchor(head, Current.base)'
          BY DEF Resumable, Current
        <5>1. t = Current.base
          BY Zenon DEF ResumeHead
        <5>2. entries'[head'].kind = "restore" /\ entries'[head'].parent = t
          <6>1. entries'[head'] = Entry("restore", t, 0, 0, FALSE)
            BY Zenon
          <6> QED BY <6>1 DEF Entry
        <5> QED BY Zenon, <5>1, <5>2 DEF HeadRestoresAnchor, Current
      <4>4. Ready(h)'
        BY <4>2, <4>3 DEF Ready, Writing
      <4> QED BY <4>1, <4>4 DEF HostOK
    <3> HIDE DEF r
    <3>9. Become(h, r)
      BY DEF r
    <3> QED BY Zenon, <3>5, <3>9, <1>HostStep
  <2> QED BY <2>1 DEF MoveHead
\* SubmitPrompt appends the prompt and the pending execution, or finds the head moved.
<1>Submitting. ASSUME NEW h \in Hosts, SubmitPrompt(h)
               PROVE  Good
  <2> USE <1>Submitting
  <2>0. claims' \in Nat /\ UNCHANGED <<mode, cancel, faults>>
    BY DEF SubmitPrompt, Inv, HostType
  <2>1. CASE Become(h, IdleRun) /\ UNCHANGED <<entries, head, execs>>
    BY Zenon, <2>0, <2>1, <1>Still, <1>IdleStep
  <2> CASE /\ ~ Active /\ head = run[h].head
           /\ AppendEntries(<<Entry("user", head, Len(execs) + 1, 0, FALSE)>>)
           /\ execs' = Append(execs, [state |-> "pending", token |-> 0,
                                     lease |-> 0, base |-> head,
                                     input |-> Len(entries) + 1])
           /\ Become(h, [run[h] EXCEPT !.pc = "accepted", !.head = head',
                                      !.plan = Len(execs) + 1])
    <3> DEFINE r == [run[h] EXCEPT !.pc = "accepted", !.head = head', !.plan = Len(execs) + 1]
    <3> run[h].pc = "resumed" /\ Ready(h) /\ HostBounds(h) /\ run[h] \in Runs
      BY HostFacts DEF SubmitPrompt
    <3>2. Resumable /\ StoreType /\ Store
      BY Facts DEF Ready
    <3>3. Accepts
      BY Zenon, <3>2 DEF Accepts
    <3> /\ Store' /\ LogKept /\ ExecsKept /\ head' = Len(entries) + 1
        /\ Len(execs') = Len(execs) + 1
        /\ execs'[Len(execs) + 1] = [state |-> "pending", token |-> 0, lease |-> 0,
                                     base |-> head, input |-> Len(entries) + 1]
      BY Zenon, <3>2, <3>3, AcceptsStore
    <3>5. StoreStep
      BY Zenon, <3>3 DEF StoreStep
    <3> Len(entries) \in Nat /\ Len(execs) \in Nat /\ head' \in Nat
      BY Facts
    <3> /\ r \in Runs /\ r.pc = "accepted" /\ r.head = head' /\ r.target = run[h].target
        /\ r.turn = run[h].turn /\ r.exec = run[h].exec
      <4>1. Len(execs) + 1 \in Nat /\ "accepted" \in Counters
        BY DEF Counters
      <4>2. r = [run[h] EXCEPT !.pc = "accepted", !.head = head', !.plan = Len(execs) + 1]
        OBVIOUS
      <4> HIDE DEF r
      <4>3. run[h] \in Runs /\ head' \in Nat
        OBVIOUS
      <4> QED BY Zenon, <4>1, <4>2, <4>3 DEF Runs
    <3> ASSUME run'[h] = r PROVE HostOK(h)'
      <4>0. /\ r.turn = 0 /\ r.exec <= Len(execs') /\ r.target <= Len(entries')
            /\ r.head <= Len(entries')
        <5>1. run[h].turn = 0 /\ run[h].exec <= Len(execs) /\ run[h].target <= Len(entries)
          BY Zenon DEF HostBounds
        <5>2. Len(entries') = Len(entries) + 1
          BY Zenon DEF LogKept
        <5>3. run[h].exec \in Nat /\ run[h].target \in Nat
          BY Zenon, HostFacts
        <5> QED BY <5>1, <5>2, <5>3
      <4> HIDE DEF r
      <4>1. HostBounds(h)'
        BY Zenon, <4>0 DEF HostBounds, Claimed, Writing
      <4>2. execs' # <<>> /\ head' = Current'.input
        <5>1. execs' # <<>>
          OBVIOUS
        <5>2. Current' = execs'[Len(execs) + 1]
          BY Zenon DEF Current
        <5> QED BY <5>1, <5>2
      <4>4. Ready(h)'
        BY <4>2 DEF Ready, Writing
      <4> QED BY <4>1, <4>4 DEF HostOK
    <3> HIDE DEF r
    <3>9. Become(h, r)
      BY Zenon DEF r
    <3> QED BY Zenon, <2>0, <3>5, <3>9, <1>HostStep
  <2> QED BY <2>1 DEF SubmitPrompt
\* PlanRecovery reads the anchor of the active execution.
<1>Planning. ASSUME NEW h \in Hosts, PlanRecovery(h)
             PROVE  Good
  <2> USE <1>Planning
  <2> DEFINE c == LatestCheckpoint(head)
             owned == c # 0 /\ entries[c].exec = Len(execs)
             r == [IdleRun EXCEPT
              !.pc = "planned",
              !.plan = Len(execs),
              !.head = head,
              !.target = IF owned THEN c ELSE Current.input,
              !.turn = IF owned THEN entries[c].turn ELSE 0]
  <2> /\ Become(h, r) /\ UNCHANGED store /\ UNCHANGED <<mode, cancel, faults>>
      /\ Active /\ execs # <<>>
    BY DEF PlanRecovery, RecoverableNow, Active
  <2> UNCHANGED entries /\ UNCHANGED head /\ UNCHANGED execs /\ UNCHANGED claims
    BY DEF store
  <2> /\ StoreType /\ Logged /\ Len(entries) \in Nat /\ Len(execs) \in Nat
      /\ head = Len(entries) /\ head \in Nat
    BY Facts
  <2>3. /\ c \in 0..Len(entries)
        /\ c # 0 => c \in Branch(head) /\ entries[c].kind = "checkpoint"
    BY ResumeBelow
  <2>4. Current.input \in 1..Len(entries)
    BY Zenon, InputBranch
  <2> owned => c \in 1..Len(entries) /\ entries[c].turn \in Nat
    BY <2>3, EntryType
  <2>6. owned => c \in Checkpoints(Len(execs)) /\ c \in Branch(head)
    <3>1. DOMAIN entries = 1..Len(entries)
      BY DEF StoreType
    <3> QED BY <2>3, <3>1 DEF Checkpoints
  <2> HIDE DEF c
  <2> /\ r \in Runs /\ r.pc = "planned" /\ r.head = head
      /\ r.target = (IF owned THEN c ELSE Current.input)
      /\ r.turn = (IF owned THEN entries[c].turn ELSE 0)
      /\ r.exec = 0
    <3> DEFINE t == IF owned THEN c ELSE Current.input
               k == IF owned THEN entries[c].turn ELSE 0
    <3>1. t \in Nat /\ k \in Nat
      <4> HIDE DEF owned
      <4> QED BY <2>4
    <3>2. "planned" \in Counters
      BY DEF Counters
    <3> HIDE DEF t, k
    <3>3. r = [IdleRun EXCEPT !.pc = "planned", !.plan = Len(execs), !.head = head,
                              !.target = t, !.turn = k]
      BY DEF t, k
    <3>4. r \in Runs /\ r.pc = "planned" /\ r.head = head /\ r.target = t /\ r.turn = k /\ r.exec = 0
      <4> HIDE DEF r
      <4>1. Len(execs) \in Nat /\ head \in Nat
        BY Zenon
      <4> QED BY Zenon, <4>1, <3>1, <3>2, <3>3 DEF IdleRun, Runs
    <3> QED BY <3>4 DEF t, k
  <2> HIDE DEF owned
  <2>8. Anchor(r.target, r.turn) /\ r.target \in 1..Len(entries)
    <3> HIDE DEF r
    <3> QED BY Zenon, <2>4, <2>6 DEF Anchor
  <2> HIDE DEF r
  <2> ASSUME run'[h] = r PROVE HostOK(h)'
    <3>1. HostBounds(h)'
      BY SMT, SMTT(30), <2>8 DEF HostBounds, Claimed, Writing
    <3>2. Anchor(r.target, r.turn) =>
             \/ r.target = Current'.input /\ r.turn = 0
             \/ /\ r.target \in Checkpoints(Len(execs))' /\ r.target \in Branch(head)'
                /\ r.turn = entries'[r.target].turn
      BY Zenon DEF Anchor, Current, Checkpoints, Branch
    <3>3. Ready(h)'
      BY Zenon, <2>8, <3>2 DEF Ready, Writing, Anchor
    <3> QED BY Zenon, <3>1, <3>3 DEF HostOK
  <2>10. claims' \in Nat
    BY Zenon DEF Inv, HostType
  <2> QED BY Zenon, <2>10, <1>Still, <1>HostStep
\* A resume with nothing to recover only reads.
<1>NothingFound. ASSUME NEW h \in Hosts, NothingToRecover(h)
                 PROVE  Good
  <2> USE <1>NothingFound
  <2>1. UNCHANGED entries /\ UNCHANGED head /\ UNCHANGED execs /\ UNCHANGED claims
    BY Zenon DEF NothingToRecover, store
  <2>2. Become(h, IdleRun) /\ UNCHANGED <<mode, cancel, faults>> /\ claims' \in Nat
    BY Zenon, <2>1 DEF NothingToRecover, Inv, HostType
  <2> QED BY Zenon, <2>1, <2>2, <1>Still, <1>IdleStep
\* RunSubmission claims the execution that was accepted.
<1>Submission. ASSUME NEW h \in Hosts, RunSubmission(h)
               PROVE  Good
  <2> USE <1>Submission
  <2> UNCHANGED entries /\ UNCHANGED head /\ UNCHANGED <<mode, cancel, faults>>
    BY DEF RunSubmission
  <2> CASE Become(h, IdleRun) /\ UNCHANGED <<execs, claims>>
    <3>1. claims' \in Nat
      BY DEF Inv, HostType
    <3> QED BY <3>1, <1>Still, <1>IdleStep
  <2>2. CASE Claim /\ Become(h, IdleRun)
    BY Zenon, <2>2, Claiming, <1>IdleStep
  <2> CASE /\ Claim
           /\ Become(h, [run[h] EXCEPT !.pc = "turn", !.exec = Len(execs), !.token = claims'])
    <3> DEFINE r == [run[h] EXCEPT !.pc = "turn", !.exec = Len(execs), !.token = claims']
    <3> /\ Quiet /\ StoreStep /\ execs # <<>> /\ Len(execs') = Len(execs)
        /\ claims' \in Nat
      BY Claiming
    <3> /\ Len(execs) \in Nat /\ Len(entries) \in Nat /\ Len(execs) # 0 /\ StoreType /\ Logged
        /\ Tree(entries) /\ head \in 0..Len(entries)
      BY Facts
    <3> run[h] \in Runs /\ HostBounds(h) /\ Ready(h) /\ run[h].pc = "accepted"
      BY HostFacts DEF RunSubmission
    <3> /\ r \in Runs /\ r.pc = "turn" /\ r.exec = Len(execs) /\ r.head = run[h].head
        /\ r.target = run[h].target
      <4>1. r = [run[h] EXCEPT !.pc = "turn", !.exec = Len(execs), !.token = claims']
        OBVIOUS
      <4>2. "turn" \in Counters
        BY DEF Counters, Claimed, Writing
      <4> HIDE DEF r
      <4> QED BY Zenon, <4>1, <4>2 DEF Runs
    <3> HIDE DEF r
    <3> ASSUME run'[h] = r PROVE HostOK(h)'
      <4>1. /\ entries' = entries /\ head' = head /\ Len(execs') = Len(execs)
            /\ Current'.input = Current.input
        BY Zenon, QuietCurrent
      <4>2. HostBounds(h)'
        BY <4>1 DEF HostBounds
      <4>3. r.head = head => Current.input \in Branch(head)
        <5> SUFFICES ASSUME r.head = head PROVE Current.input \in BranchIn(entries, head)
          BY Zenon DEF Branch
        <5>1. head = Current.input
          BY Zenon DEF Ready
        <5>2. Current.input \in 1..Len(entries)
          BY Zenon, InputBranch
        <5>3. BranchIn(entries, Current.input) =
                  {Current.input} \cup BranchIn(entries, Current.base)
          BY InputBranch
        <5> QED BY <5>1, <5>3
      <4>4. Ready(h)'
        BY <4>1, <4>3, Zenon DEF Ready, Branch
      <4> QED BY <4>2, <4>4 DEF HostOK
    <3>6. Become(h, r)
      BY DEF r
    <3> QED BY Zenon, <3>6, <1>HostStep
  <2> QED BY <2>2 DEF RunSubmission
\* RecoverExecution claims the execution that was planned for.
<1>Recovering. ASSUME NEW h \in Hosts, RecoverExecution(h)
               PROVE  Good
  <2> USE <1>Recovering
  <2> UNCHANGED entries /\ UNCHANGED head /\ UNCHANGED <<mode, cancel, faults>>
    BY Zenon DEF RecoverExecution
  <2> CASE Become(h, IdleRun) /\ UNCHANGED <<execs, claims>>
    <3>1. claims' \in Nat
      BY DEF Inv, HostType
    <3> QED BY <3>1, <1>Still, <1>IdleStep
  <2> CASE /\ Claim
           /\ Become(h, [run[h] EXCEPT !.pc = "restore", !.exec = Len(execs), !.token = claims'])
    <3> DEFINE r == [run[h] EXCEPT !.pc = "restore", !.exec = Len(execs), !.token = claims']
    <3> /\ Quiet /\ StoreStep /\ execs # <<>> /\ Len(execs') = Len(execs)
        /\ claims' \in Nat
      BY Claiming
    <3> /\ Len(execs) \in Nat /\ Len(entries) \in Nat /\ Len(execs) # 0 /\ StoreType
      BY Facts
    <3> run[h] \in Runs /\ HostBounds(h) /\ Ready(h) /\ run[h].pc = "planned"
      BY HostFacts DEF RecoverExecution
    <3> /\ r \in Runs /\ r.pc = "restore" /\ r.exec = Len(execs) /\ r.head = run[h].head
        /\ r.target = run[h].target /\ r.turn = run[h].turn
      <4>1. r = [run[h] EXCEPT !.pc = "restore", !.exec = Len(execs), !.token = claims']
        OBVIOUS
      <4>2. "restore" \in Counters
        BY DEF Counters, Claimed, Writing
      <4> HIDE DEF r
      <4> QED BY Zenon, <4>1, <4>2 DEF Runs
    <3> HIDE DEF r
    <3> ASSUME run'[h] = r PROVE HostOK(h)'
      <4> /\ entries' = entries /\ head' = head /\ Len(execs') = Len(execs) /\ execs' # <<>>
          /\ Current'.input = Current.input
        BY Zenon, QuietCurrent
      <4>2. HostBounds(h)'
        <5>1. Len(execs) <= Len(execs)
          OBVIOUS
        <5> QED BY Zenon, <5>1 DEF HostBounds
      <4>3. r.head = head => Anchor(r.target, r.turn)
        BY DEF Ready
      <4>4. Anchor(r.target, r.turn) =>
             \/ r.target = Current'.input /\ r.turn = 0
             \/ /\ r.target \in Checkpoints(Len(execs))' /\ r.target \in Branch(head)'
                /\ r.turn = entries'[r.target].turn
        BY Zenon DEF Anchor, Checkpoints, Branch
      <4>5. Ready(h)'
        BY <4>3, <4>4, Zenon DEF Ready, Anchor
      <4> QED BY <4>2, <4>5 DEF HostOK
    <3>6. Become(h, r)
      BY DEF r
    <3> QED BY <3>6, <1>HostStep
  <2> QED BY DEF RecoverExecution
\* Where a host stands after its commit.
<1>Committed. ASSUME NEW h \in Hosts, NEW kind, NEW parent, NEW turn, NEW stop,
                     Commits(kind, parent, turn, stop), NEW r \in Runs, run'[h] = r,
                     r.head = head', r.exec = Len(execs), r.target <= Len(entries),
                     r.pc \in {"turn", "mid", "finish", "failing"},
                     r.pc = "failing" => r.out # "none",
                     Current.input \in BranchIn(entries, parent),
                     r.pc = "finish" =>
                        \/ kind = "checkpoint"
                        \/ \E c \in Checkpoints(Len(execs)) : c \in BranchIn(entries, parent)
              PROVE  HostOK(h)'
  <2> USE <1>Committed
  <2>1. /\ StoreType /\ Store /\ Len(entries) \in Nat /\ Len(execs) \in Nat
    BY Zenon, Facts
  <2>2. /\ LogKept /\ ExecsKept /\ head' = Len(entries) + 1
        /\ entries'[Len(entries) + 1] = Entry(kind, parent, Len(execs), turn, stop)
        /\ BranchIn(entries', head') = {head'} \cup BranchIn(entries, parent)
    BY Zenon, <2>1, CommitsStore
  <2>3. /\ execs' = execs /\ execs # <<>> /\ Len(execs) # 0
    <3>1. Active /\ execs' = execs
      BY Zenon DEF Commits
    <3> QED BY SMT, SMTT(30), <2>1, <3>1 DEF Active, StoreType
  <2>4. /\ Len(entries') = Len(entries) + 1 /\ DOMAIN entries' = 1..(Len(entries) + 1)
        /\ \A i \in 1..Len(entries) : entries'[i] = entries[i]
        /\ DOMAIN entries = 1..Len(entries)
    <3>1. entries' \in Seq(Entries) /\ entries \in Seq(Entries) /\ head' = Len(entries')
      BY Zenon, <2>1, <2>2 DEF LogKept, StoreType
    <3>2. \A i \in 1..Len(entries) : entries'[i] = entries[i]
      BY Zenon, <2>2 DEF LogKept
    <3> QED BY SMT, SMTT(30), <2>1, <2>2, <3>1, <3>2
  <2>5. HostBounds(h)'
    <3>1. r.head \in Nat /\ r.target \in Nat /\ r.exec \in Nat
      BY Zenon DEF Runs
    <3>2. /\ r.head <= Len(entries') /\ r.target <= Len(entries') /\ r.exec <= Len(execs')
          /\ r.exec # 0
      BY SMT, SMTT(30), <2>1, <2>2, <2>3, <2>4, <3>1
    <3> QED BY Zenon, <3>2 DEF HostBounds
  <2>6. Current'.input \in Branch(head)'
    BY Zenon, <2>2, <2>3 DEF Branch, Current
  <2>7. r.pc = "finish" => \E c \in Checkpoints(Len(execs))' : c \in Branch(head)'
    <3>1. CASE kind = "checkpoint"
      <4>1. entries'[head'].kind = "checkpoint" /\ entries'[head'].exec = Len(execs')
        <5>1. entries'[head'] = Entry(kind, parent, Len(execs), turn, stop)
          BY Zenon, <2>2
        <5>2. Len(execs') = Len(execs)
          BY Zenon, <2>3
        <5> QED BY SMT, SMTT(30), <3>1, <5>1, <5>2 DEF Entry
      <4>2. head' \in DOMAIN entries'
        BY Zenon, <2>1, <2>2, <2>4, LastIn
      <4>3. head' \in Checkpoints(Len(execs))'
        BY Zenon, <4>1, <4>2 DEF Checkpoints
      <4>4. head' \in Branch(head)'
        BY Zenon, <2>2 DEF Branch
      <4> QED BY Zenon, <4>3, <4>4
    <3>2. ASSUME NEW c \in Checkpoints(Len(execs)), c \in BranchIn(entries, parent)
          PROVE  c \in Checkpoints(Len(execs))' /\ c \in Branch(head)'
      <4>1. c \in 1..Len(entries) /\ entries[c].kind = "checkpoint" /\ entries[c].exec = Len(execs)
        BY Zenon, <2>4 DEF Checkpoints
      <4>2. c \in DOMAIN entries' /\ entries'[c] = entries[c]
        BY SMT, SMTT(30), <2>1, <2>4, <4>1
      <4> QED BY Zenon, <2>2, <2>3, <3>2, <4>1, <4>2 DEF Checkpoints, Branch
    <3> QED BY Zenon, <3>1, <3>2
  <2>8. Ready(h)'
    BY ZenonT(60), <2>3, <2>6, <2>7 DEF Ready
  <2> QED BY Zenon, <2>5, <2>8 DEF HostOK
\* A prompt hook blocks the prompt: its step and the last checkpoint.
<1>Blocked. ASSUME NEW h \in Hosts, PromptBlocked(h)
            PROVE  Good
  <2> USE <1>Blocked
  <2> DEFINE r == [run[h] EXCEPT !.pc = "finish", !.head = head']
  <2>1. /\ run[h].pc = "turn" /\ run[h].pc \in Claimed
        /\ CommitEntry(h, "checkpoint", run[h].head, 0, TRUE, "running")
        /\ Become(h, r) /\ UNCHANGED <<mode, cancel, faults>>
    BY Zenon DEF PromptBlocked, Claimed, Writing
  <2>2. /\ Active /\ execs # <<>> /\ head = run[h].head /\ run[h].exec = Len(execs)
        /\ AppendEntries(<<Entry("checkpoint", head, Len(execs), 0, TRUE)>>)
        /\ execs' = execs /\ claims' \in Nat
    BY Zenon, <2>1, Committing
  <2>3. run[h] \in Runs /\ HostBounds(h) /\ Ready(h)
    BY Zenon, HostFacts
  <2>4. Current.input \in Branch(head)
    BY <2>1, <2>2, <2>3 DEF Ready
  <2>5. Commits("checkpoint", head, 0, TRUE)
    BY <2>2, <2>4 DEF Commits
  <2>6. head' \in Nat
    <3>1. StoreType /\ Store /\ Len(entries) \in Nat
      BY Facts
    <3>2. head' = Len(entries) + 1
      BY <2>5, <3>1, CommitsStore, Zenon
    <3> QED BY <3>1, <3>2
  <2>7. /\ r \in Runs /\ r.pc = "finish" /\ r.head = head' /\ r.exec = run[h].exec
        /\ r.target = run[h].target
    <3>1. r = [run[h] EXCEPT !.pc = "finish", !.head = head'] /\ "finish" \in Counters
      BY DEF Counters, Claimed, Writing
    <3> HIDE DEF r
    <3> QED BY Zenon, <2>3, <2>6, <3>1 DEF Runs
  <2> HIDE DEF r
  <2>8. ASSUME run'[h] = r PROVE HostOK(h)'
    <3>1. r.target <= Len(entries)
      BY Zenon, <2>3, <2>7 DEF HostBounds
    <3> QED BY Zenon, <2>2, <2>4, <2>5, <2>7, <2>8, <3>1, <1>Committed DEF Branch
  <2>9. StoreStep
    BY Zenon, <2>5 DEF StoreStep
  <2> QED BY Zenon, <2>1, <2>2, <2>7, <2>8, <2>9, <1>HostStep
\* A turn commits its messages.
<1>Progressing. ASSUME NEW h \in Hosts, TurnProgress(h)
                PROVE  Good
  <2> USE <1>Progressing
  <2> DEFINE r == [run[h] EXCEPT !.pc = "mid", !.head = head']
  <2> /\ run[h].pc = "turn" /\ run[h].pc \in Claimed
      /\ CommitEntry(h, "step", run[h].head, run[h].turn, FALSE, "running")
      /\ Become(h, r) /\ UNCHANGED <<mode, cancel, faults>>
    BY Zenon DEF TurnProgress, Claimed, Writing
  <2> /\ Active /\ execs # <<>> /\ head = run[h].head /\ run[h].exec = Len(execs)
      /\ AppendEntries(<<Entry("step", head, Len(execs), run[h].turn, FALSE)>>)
      /\ execs' = execs /\ claims' \in Nat
    BY Zenon, Committing
  <2> run[h] \in Runs /\ HostBounds(h) /\ Ready(h) /\ run[h].turn \in Nat
    BY HostFacts
  <2>4. Current.input \in Branch(head)
    BY Zenon DEF Ready
  <2> Commits("step", head, run[h].turn, FALSE)
    BY Zenon, <2>4 DEF Commits
  <2>6. head' \in Nat
    <3>1. StoreType /\ Store /\ Len(entries) \in Nat
      BY Facts
    <3>2. head' = Len(entries) + 1
      BY <3>1, CommitsStore, Zenon
    <3> QED BY <3>1, <3>2
  <2> /\ r \in Runs /\ r.pc = "mid" /\ r.head = head' /\ r.exec = run[h].exec
      /\ r.target = run[h].target
    <3>1. r = [run[h] EXCEPT !.pc = "mid", !.head = head'] /\ "mid" \in Counters
      BY DEF Counters, Claimed, Writing
    <3> HIDE DEF r
    <3> QED BY Zenon, <2>6, <3>1 DEF Runs
  <2> HIDE DEF r
  <2>8. ASSUME run'[h] = r PROVE HostOK(h)'
    <3>1. r.target <= Len(entries)
      BY Zenon DEF HostBounds
    <3> QED BY Zenon, <2>4, <2>8, <3>1, <1>Committed DEF Branch
  <2>9. StoreStep
    BY Zenon DEF StoreStep
  <2> QED BY Zenon, <2>8, <2>9, <1>HostStep
\* A turn ends with its checkpoint.
<1>Checkpointing. ASSUME NEW h \in Hosts, CheckpointTurn(h)
                  PROVE  Good
  <2> USE <1>Checkpointing
  <2>1. PICK stop \in BOOLEAN :
          LET next == [run[h] EXCEPT !.pc = IF stop THEN "finish" ELSE "turn",
                                     !.head = head', !.turn = @ + 1]
          IN
          /\ CommitEntry(h, "checkpoint", run[h].head, run[h].turn + 1, stop,
                         "running")
          /\ Become(h, IF stop \/ mode[h] = "open" THEN next
                       ELSE [next EXCEPT !.pc = "failing", !.out = "failed"])
    BY Zenon DEF CheckpointTurn
  <2> DEFINE p == IF stop THEN "finish" ELSE "turn"
             n == run[h].turn + 1
             next == [run[h] EXCEPT !.pc = p, !.head = head', !.turn = n]
             drained == [next EXCEPT !.pc = "failing", !.out = "failed"]
             r == IF stop \/ mode[h] = "open" THEN next ELSE drained
  <2> /\ run[h].pc = "mid" /\ run[h].pc \in Claimed /\ UNCHANGED <<mode, cancel, faults>>
      /\ CommitEntry(h, "checkpoint", run[h].head, n, stop, "running")
      /\ Become(h, r)
    BY Zenon, <2>1 DEF CheckpointTurn, Claimed, Writing
  <2> /\ Active /\ execs # <<>> /\ head = run[h].head /\ run[h].exec = Len(execs)
      /\ AppendEntries(<<Entry("checkpoint", head, Len(execs), n, stop)>>)
      /\ execs' = execs /\ claims' \in Nat
    <3> HIDE DEF n, r
    <3> QED BY Zenon, Committing
  <2> run[h] \in Runs /\ HostBounds(h) /\ Ready(h) /\ n \in Nat
    BY HostFacts
  <2>5. Current.input \in Branch(head)
    BY DEF Ready
  <2> Commits("checkpoint", head, n, stop)
    <3> HIDE DEF n
    <3> QED BY Zenon, <2>5 DEF Commits
  <2>7. head' \in Nat
    BY Facts, CommitsStore
  <2> p \in Counters /\ p \in {"finish", "turn"} /\ "failing" \in Counters
    BY DEF Counters, Claimed, Writing
  <2>9. /\ next \in Runs /\ next.pc = p /\ next.head = head' /\ next.exec = run[h].exec
        /\ next.target = run[h].target
    <3>1. next = [run[h] EXCEPT !.pc = p, !.head = head', !.turn = n]
      OBVIOUS
    <3> HIDE DEF next, p, n
    <3> QED BY Zenon, <2>7, <3>1 DEF Runs
  <2>10. /\ drained \in Runs /\ drained.pc = "failing" /\ drained.head = head'
         /\ drained.exec = run[h].exec
         /\ drained.target = run[h].target /\ drained.out = "failed"
    <3>1. drained = [next EXCEPT !.pc = "failing", !.out = "failed"]
      BY Zenon
    <3> HIDE DEF next, p, n, drained
    <3> QED BY Zenon, <2>9, <3>1 DEF Runs
  <2> /\ r \in Runs /\ r.pc \in {"finish", "turn", "failing"} /\ r.head = head'
      /\ r.exec = run[h].exec /\ r.target = run[h].target
      /\ r.pc = "failing" => r.out # "none"
    <3> HIDE DEF next, p, drained
    <3> QED BY Zenon, <2>9, <2>10
  <2> HIDE DEF r, n
  <2>12. ASSUME run'[h] = r PROVE HostOK(h)'
    <3>1. r.target <= Len(entries)
      BY Zenon DEF HostBounds
    <3> QED BY Zenon, <2>5, <2>12, <3>1, <1>Committed DEF Branch
  <2>13. StoreStep
    BY Zenon DEF StoreStep
  <2> QED BY Zenon, <2>12, <2>13, <1>HostStep
\* A recovery commits the entry that restores the anchor.
<1>Restoring. ASSUME NEW h \in Hosts, RestoreExecutionHead(h)
              PROVE  Good
  <2> USE <1>Restoring
  <2> DEFINE t == run[h].target
             p == IF entries[t].stop THEN "finish" ELSE "turn"
  <2>0. /\ run[h].pc = "restore" /\ run[h].pc \in Claimed /\ UNCHANGED <<mode, cancel, faults>>
    BY Zenon DEF RestoreExecutionHead, Claimed, Writing
  <2>1. /\ run[h] \in Runs /\ HostBounds(h) /\ Ready(h) /\ run[h].head \in Nat
        /\ run[h].exec \in Nat /\ run[h].exec # 0 /\ run[h].exec <= Len(execs)
        /\ run[h].turn \in Nat /\ t <= Len(entries)
    BY Zenon, <2>0, HostFacts DEF HostBounds
  <2>2. /\ StoreType /\ Store /\ Logged /\ Tree(entries) /\ Len(entries) \in Nat
        /\ Len(execs) \in Nat /\ head = Len(entries)
    BY Zenon, Facts
  <2>3. execs # <<>>
    BY Zenon, <2>1, NotEmpty
  <2>p. p \in Counters /\ p \in {"finish", "turn"} /\ (p = "finish" => entries[t].stop)
    BY Zenon DEF Counters, Claimed, Writing
  <2>4. run[h].head = head => Anchor(t, run[h].turn) /\ run[h].exec = Len(execs)
    BY Zenon, <2>0, <2>1 DEF Ready, Writing
  <2>5. Anchor(t, run[h].turn) =>
          /\ t \in 1..Len(entries) /\ Current.input \in BranchIn(entries, t)
          /\ t \in BranchIn(entries, t)
          /\ entries[t].stop => t \in Checkpoints(Len(execs))
    BY Zenon, <2>3, AnchorBranch
  <2>6. CASE /\ HeadRestoresAnchor(run[h].head, run[h].target)
             /\ Become(h, AfterRestore(h, run[h].head))
             /\ UNCHANGED store
    <3> DEFINE r == [run[h] EXCEPT !.pc = p, !.head = run[h].head]
    <3>1. Become(h, r)
      BY <2>6 DEF AfterRestore
    <3>2. UNCHANGED entries /\ UNCHANGED head /\ UNCHANGED execs /\ claims' \in Nat
      BY <2>6 DEF store, Inv, HostType
    <3>3. /\ r \in Runs /\ r.pc = p /\ r.head = run[h].head /\ r.exec = run[h].exec
          /\ r.target = run[h].target
      <4>1. r = [run[h] EXCEPT !.pc = p, !.head = run[h].head]
        OBVIOUS
      <4> HIDE DEF r, p
      <4> QED BY Zenon, <2>1, <2>p, <4>1 DEF Runs
    <3> HIDE DEF r, p
    <3>4. ASSUME run'[h] = r PROVE HostOK(h)'
      <4>1. HostBounds(h)'
        BY Zenon, <2>1, <2>p, <3>2, <3>3, <3>4 DEF HostBounds
      <4>2. ASSUME run[h].head = head
            PROVE  /\ Current.input \in BranchIn(entries, head) /\ r.exec = Len(execs)
                   /\ p = "finish" => \E c \in Checkpoints(Len(execs)) : c \in BranchIn(entries, head)
        <5>1. BranchIn(entries, t) \subseteq BranchIn(entries, head)
          <6>1. CASE head = t
            BY <6>1
          <6>2. CASE head # 0 /\ entries[head].parent = t
            <7>1. head \in 1..Len(entries)
              BY SMT, SMTT(30), <2>2, <6>2
            <7> QED BY SMT, SMTT(30), <2>2, <6>2, <7>1, BranchRecursion
          <6> QED BY Zenon, <2>6, <4>2, <6>1, <6>2 DEF HeadRestoresAnchor
        <5> QED BY Zenon, <2>4, <2>5, <2>p, <3>3, <4>2, <5>1
      <4>3. ASSUME run[h].head = head
            PROVE  /\ Current'.input \in Branch(head)' /\ r.exec = Len(execs')
                   /\ p = "finish" => \E c \in Checkpoints(Len(execs))' : c \in Branch(head)'
        BY <3>2, <4>2, <4>3, Zenon DEF Current, Branch, Checkpoints
      <4>4. Ready(h)'
        BY <2>p, <3>2, <3>3, <3>4, <4>3, Zenon DEF Ready
      <4> QED BY <4>1, <4>4 DEF HostOK
    <3> QED BY Zenon, <2>0, <3>1, <3>2, <3>3, <3>4, <1>Still, <1>HostStep
  <2>7. CASE /\ CommitEntry(h, "restore", run[h].target, 0, FALSE, "running")
             /\ Become(h, AfterRestore(h, head'))
    <3> DEFINE r == [run[h] EXCEPT !.pc = p, !.head = head']
    <3>1. Become(h, r)
      BY Zenon, <2>7 DEF AfterRestore
    <3> HIDE DEF p
    <3>2. /\ Active /\ execs # <<>> /\ head = run[h].head /\ run[h].exec = Len(execs)
          /\ AppendEntries(<<Entry("restore", t, Len(execs), 0, FALSE)>>)
          /\ execs' = execs /\ claims' \in Nat
      BY Zenon, <2>0, <2>7, Committing
    <3>3. Anchor(t, run[h].turn)
      BY Zenon, <2>4, <3>2
    <3>4. Commits("restore", t, 0, FALSE)
      BY Zenon, <2>1, <3>2, <3>3 DEF Commits
    <3>5. head' \in Nat
      <4>1. head' = Len(entries) + 1
        BY <2>2, <3>4, CommitsStore, Zenon
      <4> QED BY <2>2, <4>1
    <3>6. /\ r \in Runs /\ r.pc = p /\ r.head = head' /\ r.exec = run[h].exec
          /\ r.target = run[h].target
      <4>1. r = [run[h] EXCEPT !.pc = p, !.head = head']
        OBVIOUS
      <4> HIDE DEF r
      <4> QED BY Zenon, <2>1, <2>p, <3>5, <4>1 DEF Runs
    <3> HIDE DEF r
    <3>7. ASSUME run'[h] = r PROVE HostOK(h)'
      <4>1. /\ r.pc \in {"turn", "mid", "finish", "failing"} /\ r.pc # "failing"
            /\ Current.input \in BranchIn(entries, t) /\ r.exec = Len(execs)
            /\ r.target <= Len(entries)
        BY Zenon, <2>1, <2>5, <2>p, <3>2, <3>3, <3>6
      <4>2. r.pc = "finish" => \E c \in Checkpoints(Len(execs)) : c \in BranchIn(entries, t)
        BY Zenon, <2>5, <2>p, <3>3, <3>6
      <4> QED BY Zenon, <3>4, <3>6, <3>7, <4>1, <4>2, <1>Committed
    <3>8. StoreStep
      BY Zenon, <3>4 DEF StoreStep
    <3> QED BY Zenon, <2>0, <3>1, <3>2, <3>6, <3>7, <3>8, <1>HostStep
  <2> QED BY Zenon, <2>6, <2>7 DEF RestoreExecutionHead
\* Finish completes the execution as succeeded.
<1>Finishing. ASSUME NEW h \in Hosts, Finish(h)
              PROVE  Good
  <2> USE <1>Finishing
  <2>1. PICK state \in {"succeeded", "cancelled"} :
            CommitEntry(h, "terminal", run[h].head, 0, FALSE, state)
    BY Zenon DEF Finish
  <2> DEFINE x == Settle(Current, state)
  <2>2. /\ head = run[h].head /\ run[h].exec = Len(execs) /\ Current.state = "running"
        /\ AppendEntries(<<Entry("terminal", run[h].head, run[h].exec, 0, FALSE)>>)
        /\ SetCurrent(x) /\ UNCHANGED claims
    BY Zenon, <2>1 DEF CommitEntry, CanCommit, Holds
  <2>3. /\ run[h].pc = "finish" /\ run[h].exec # 0 /\ Ready(h) /\ Len(execs) \in Nat
        /\ head \in Nat
    BY Zenon, HostFacts, Facts DEF Finish, HostBounds, Claimed, Writing
  <2>4. Active
    <3>1. execs # <<>>
      BY Zenon, <2>2, <2>3
    <3> QED BY Zenon, <2>2, <3>1 DEF Active, Live
  <2>5. /\ Altered(x) /\ x \in Executions /\ x.state = state
        /\ (Live(x) <=> state = "pending")
    BY <2>2, <2>4, Settling
  <2>6. Completion(head, Current.base, Len(execs), TRUE, FALSE) =
          <<Entry("terminal", head, Len(execs), 0, FALSE)>>
    <3>1. Entry("terminal", head, Len(execs), 0, FALSE) \in Entries
      BY Zenon, <2>3 DEF Entry, Entries, Kinds
    <3> QED BY <3>1 DEF Completion
  <2>7. /\ Current.input \in Branch(head)
        /\ \E c \in Checkpoints(Len(execs)) : c \in Branch(head)
    BY Zenon, <2>2, <2>3 DEF Ready
  <2> HIDE DEF x
  <2>8. Completes(x, TRUE, FALSE)
    BY Zenon, <2>1, <2>2, <2>5, <2>6, <2>7 DEF Completes
  <2>9. StoreStep
    BY Zenon, <2>8 DEF StoreStep
  <2>10. Become(h, IdleRun) /\ UNCHANGED <<mode, cancel, faults>> /\ claims' \in Nat
    BY <2>2 DEF Finish, Inv, HostType
  <2> QED BY Zenon, <2>9, <2>10, <1>IdleStep
\* A step that only changes how a claimed run ends.
<1>Erring. ASSUME NEW h \in Hosts, run[h].pc \in Writing, Become(h, Failing(h)),
                  UNCHANGED <<store, mode, cancel, faults>>
           PROVE  Good
  <2> USE <1>Erring
  <2> DEFINE o == IF run[h].ctx = "cancelled" \/ mode[h] = "closing" THEN "cancelled" ELSE "failed"
             r == [run[h] EXCEPT !.pc = "failing", !.out = o]
  <2>1. /\ run[h] \in Runs /\ HostBounds(h) /\ run[h].pc \in Claimed /\ "failing" \in Counters
        /\ o \in {"cancelled", "failed"}
    BY Zenon, HostFacts DEF Claimed, Counters
  <2>2. Become(h, r)
    BY DEF Failing
  <2> /\ r \in Runs /\ r.pc = "failing" /\ r.out = o /\ r.head = run[h].head
      /\ r.target = run[h].target /\ r.exec = run[h].exec
    <3>1. r = [run[h] EXCEPT !.pc = "failing", !.out = o]
      OBVIOUS
    <3> HIDE DEF r, o
    <3> QED BY Zenon, <2>1, <3>1 DEF Runs
  <2>4. /\ UNCHANGED entries /\ UNCHANGED head /\ UNCHANGED execs /\ claims' \in Nat
        /\ UNCHANGED <<mode, cancel, faults>>
    BY DEF store, Inv, HostType
  <2> HIDE DEF r, o
  <2> ASSUME run'[h] = r PROVE HostOK(h)'
    <3>1. HostBounds(h)'
      BY Zenon, <2>1, <2>4 DEF HostBounds
    <3>2. Ready(h)'
      BY Zenon DEF Ready, Writing
    <3> QED BY Zenon, <3>1, <3>2 DEF HostOK
  <2> QED BY Zenon, <2>2, <2>4, <1>Still, <1>HostStep
\* failExecution reads the head and the base ...
<1>UnwindReading. ASSUME NEW h \in Hosts, UnwindRead(h)
                  PROVE  Good
  <2> USE <1>UnwindReading
  <2> DEFINE o == Outcome(h)
             b == Current.base
             r == [run[h] EXCEPT !.pc = "unwind", !.head = head, !.target = b, !.out = o]
  <2>1. /\ run[h] \in Runs /\ HostBounds(h) /\ run[h].pc = "failing" /\ "unwind" \in Counters
        /\ run[h].exec # 0 /\ run[h].exec <= Len(execs) /\ run[h].exec \in Nat
    BY HostFacts DEF UnwindRead, HostBounds, Claimed, Counters
  <2>2. /\ StoreType /\ Logged /\ Len(execs) \in Nat /\ head \in Nat /\ Len(entries) \in Nat
        /\ head = Len(entries)
    BY Facts
  <2>3. execs # <<>>
    BY ZenonT(60), <2>1, NotEmpty
  <2>4. b \in 0..Len(entries) /\ b \in Nat
    BY SMT, SMTT(30), <2>2, <2>3, InputBranch
  <2>5. o \in {"release", "handoff", "failed", "cancelled"}
    <3>1. run[h].out \in {"release", "handoff", "failed", "cancelled"}
      BY Zenon, <2>1 DEF HostBounds, Runs
    <3> QED BY Zenon, <3>1 DEF Outcome
  <2>6. Become(h, r)
    BY DEF UnwindRead
  <2>7. /\ r \in Runs /\ r.pc = "unwind" /\ r.out = o /\ r.head = head
        /\ r.target = b /\ r.exec = run[h].exec
    <3>1. r = [run[h] EXCEPT !.pc = "unwind", !.head = head, !.target = b, !.out = o]
      OBVIOUS
    <3> HIDE DEF r, o, b
    <3> QED BY Zenon, <2>1, <2>2, <2>4, <2>5, <3>1 DEF Runs
  <2>8. /\ UNCHANGED entries /\ UNCHANGED head /\ UNCHANGED execs /\ claims' \in Nat
        /\ UNCHANGED <<mode, cancel, faults>>
    BY DEF UnwindRead, store, Inv, HostType
  <2>9. Current'.base = b
    BY Zenon, <2>8 DEF Current
  <2> HIDE DEF r, o, b
  <2>10. ASSUME run'[h] = r PROVE HostOK(h)'
    <3>1. HostBounds(h)'
      BY SMT, SMTT(30), <2>1, <2>2, <2>4, <2>5, <2>7, <2>8, <2>10 DEF HostBounds
    <3>2. Ready(h)'
      BY Zenon, <2>7, <2>9, <2>10 DEF Ready, Writing
    <3> QED BY <3>1, <3>2 DEF HostOK
  <2> QED BY Zenon, <2>6, <2>7, <2>8, <2>10, <1>Still, <1>HostStep
\* ... and completes the execution, or hands it off.
<1>Unwinding. ASSUME NEW h \in Hosts, UnwindCommit(h)
              PROVE  Good
  <2> USE <1>Unwinding
  <2> DEFINE r == run[h]
             state == UnwindState(r.out)
             x == Settle(Current, state)
  <2>1. /\ r.pc = "unwind" /\ Become(h, IdleRun) /\ UNCHANGED <<mode, cancel, faults>>
        /\ claims' \in Nat
    BY Zenon DEF UnwindCommit, Inv, HostType
  <2>2. CASE UNCHANGED <<entries, head, execs>>
    BY Zenon, <2>1, <2>2, <1>Still, <1>IdleStep
  <2>3. CASE /\ head = r.head
             /\ Holds(r.exec, r.token)
             /\ IF r.out = "release" THEN UNCHANGED <<entries, head>>
                ELSE AppendEntries(Completion(r.head, r.target, r.exec,
                                   r.out \in {"failed", "cancelled"},
                                   r.out # "release"))
             /\ SetCurrent(Settle(Current, UnwindState(r.out)))
    <3>1. /\ HostBounds(h) /\ Ready(h) /\ r.exec # 0 /\ Len(execs) \in Nat
          /\ r.out \in {"release", "handoff", "failed", "cancelled"}
      BY Zenon, <2>1, HostFacts, Facts DEF HostBounds, Claimed, Runs
    <3>2. r.exec = Len(execs) /\ Current.state = "running" /\ r.target = Current.base
      BY Zenon, <2>1, <2>3, <3>1 DEF Ready, Holds
    <3>3. Active
      <4>1. execs # <<>>
        BY Zenon, <3>1, <3>2
      <4> QED BY <3>2, <4>1 DEF Active, Live
    <3>4. /\ state \in {"pending", "succeeded", "failed", "cancelled"} /\ state # "succeeded"
          /\ r.out \in {"failed", "cancelled"} <=> state # "pending"
      BY Zenon, <3>1 DEF UnwindState
    <3>5. SetCurrent(x)
      BY Zenon, <2>3
    <3> HIDE DEF state
    <3>6. /\ Altered(x) /\ x \in Executions /\ x.state = state
          /\ (Live(x) <=> state = "pending")
      BY Zenon, <3>3, <3>4, <3>5, Settling
    <3>7. CASE r.out = "release"
      <4>1. UNCHANGED <<entries, head>>
        BY Zenon, <2>3, <3>7
      <4>2. Quiet
        BY Zenon, <3>4, <3>6, <4>1 DEF Quiet
      <4> QED BY Zenon, <2>1, <4>2, <1>IdleStep DEF StoreStep
    <3>8. CASE r.out # "release"
      <4> DEFINE T == r.out \in {"failed", "cancelled"}
      <4>1. AppendEntries(Completion(head, Current.base, Len(execs), T, TRUE))
        <5>1. (r.out # "release") = TRUE
          BY Zenon, <3>8
        <5>2. AppendEntries(Completion(r.head, r.target, r.exec, T, r.out # "release"))
          BY ZenonT(60), <2>3, <3>8
        <5> QED BY Zenon, <2>3, <3>2, <5>1, <5>2
      <4>2. T \in BOOLEAN /\ (T <=> ~Live(x))
        <5>1. T \in BOOLEAN
          BY Zenon, Membership
        <5>2. T <=> ~Live(x)
          BY Zenon, <3>4, <3>6
        <5> QED BY Zenon, <5>1, <5>2
      <4> HIDE DEF T, x
      <4>3. Completes(x, T, TRUE)
        BY Zenon, <3>4, <3>6, <4>1, <4>2 DEF Completes
      <4>4. StoreStep
        BY Zenon, <4>3 DEF StoreStep
      <4> QED BY Zenon, <2>1, <4>4, <1>IdleStep
    <3> QED BY Zenon, <3>7, <3>8
  <2> QED BY Zenon, <2>2, <2>3 DEF UnwindCommit
\* A step of the store in which no run moves.
<1>CalmStep. ASSUME StoreStep, run' \in [Hosts -> Runs], \A g \in Hosts : Calm(g),
                    claims' \in Nat, faults' \in Nat, UNCHANGED <<mode, cancel>>
             PROVE  Good
  <2> USE <1>CalmStep
  <2>1. HostType'
    BY DEF Inv, HostType
  <2> QED BY <2>1 DEF Good
\* A step that alters the current execution and no entry.
<1>AlterStep. ASSUME NEW x \in Executions, Altered(x), x.state # "succeeded",
                     UNCHANGED <<entries, head, claims, run, mode, cancel, faults>>
              PROVE  Good
  <2> USE <1>AlterStep
  <2>1. StoreStep
    BY DEF StoreStep, Quiet
  <2>2. claims' \in Nat /\ faults' \in Nat
    BY DEF Inv, HostType
  <2> QED BY <2>1, <2>2, SameRuns, <1>CalmStep
\* A renewal extends the lease, or ends the context of a run that lost it.
<1>Renewing. ASSUME NEW h \in Hosts, Renew(h)
             PROVE  Good
  <2> USE <1>Renewing
  <2> UNCHANGED <<entries, head, claims, mode, cancel, faults>>
    BY DEF Renew
  <2> CASE /\ Holds(run[h].exec, run[h].token)
           /\ SetCurrent([Current EXCEPT !.lease = LeaseTicks])
           /\ UNCHANGED run
    <3> DEFINE x == [Current EXCEPT !.lease = LeaseTicks]
    <3>1. /\ run[h].exec # 0 /\ Len(execs) \in Nat /\ StoreType
      BY HostFacts, Facts DEF Renew, HostBounds
    <3> run[h].exec = Len(execs) /\ Current.state = "running"
      BY DEF Holds
    <3>3. Active /\ execs # <<>>
      <4>1. execs # <<>>
        BY Zenon, <3>1
      <4> QED BY Zenon, <4>1 DEF Active, Live
    <3>4. Current \in Executions /\ LeaseTicks \in 0..LeaseTicks
      BY <3>1, <3>3, Last, ConstantsAssumption
    <3>5. x \in Executions /\ x.base = Current.base /\ x.input = Current.input /\ x.state = "running"
      <4>1. x = [Current EXCEPT !.lease = LeaseTicks]
        OBVIOUS
      <4> HIDE DEF x
      <4> QED BY <3>4, <4>1 DEF Executions
    <3>6. SetCurrent(x)
      BY Zenon
    <3> HIDE DEF x
    <3>7. Altered(x)
      BY <3>3, <3>5, <3>6 DEF Altered
    <3> QED BY Zenon, <3>5, <3>7, <1>AlterStep
  <2> CASE /\ Become(h, [run[h] EXCEPT !.ctx = "lost"])
           /\ UNCHANGED execs
    <3>1. run' \in [Hosts -> Runs] /\ \A g \in Hosts : Calm(g)
      BY Zenon, ContextEnds DEF Become
    <3>2. claims' \in Nat /\ faults' \in Nat
      BY DEF Inv, HostType
    <3> QED BY Zenon, <3>1, <3>2, <1>Still, <1>CalmStep
  <2> QED BY DEF Renew
\* A renewal fails.
<1>RenewFaulting. ASSUME NEW h \in Hosts, RenewFault(h)
                  PROVE  Good
  <2> USE <1>RenewFaulting
  <2>1. run' \in [Hosts -> Runs] /\ \A g \in Hosts : Calm(g)
    BY Zenon, ContextEnds DEF RenewFault, Become
  <2>2. /\ UNCHANGED <<entries, head, execs>> /\ UNCHANGED <<mode, cancel>>
        /\ claims' \in Nat /\ faults' \in Nat
    BY DEF RenewFault, store, Inv, HostType
  <2> QED BY <2>1, <2>2, <1>Still, <1>CalmStep
\* Time passes for the lease.
<1>Ticking. ASSUME Tick
            PROVE  Good
  <2> USE <1>Ticking
  <2> DEFINE x == [Current EXCEPT !.lease = Current.lease - 1]
  <2> /\ execs # <<>> /\ Current.lease > 0 /\ SetCurrent(x)
      /\ UNCHANGED <<entries, head, claims, run, mode, cancel, faults>>
    BY DEF Tick
  <2> Current \in Executions /\ StoreType /\ Logged /\ Len(execs) \in DOMAIN execs
    BY Facts, Last
  <2>3. Current.lease - 1 \in 0..LeaseTicks
    <3>1. LeaseTicks \in Nat /\ Current.lease \in 0..LeaseTicks
      BY ConstantsAssumption DEF Executions
    <3> QED BY <3>1
  <2>4. Current.state = "running"
    BY DEF Logged, Recorded, Current
  <2>5. x \in Executions /\ x.base = Current.base /\ x.input = Current.input /\ x.state = "running"
    <3>1. x = [Current EXCEPT !.lease = Current.lease - 1]
      OBVIOUS
    <3> HIDE DEF x
    <3> QED BY <2>3, <2>4, <3>1 DEF Executions
  <2> HIDE DEF x
  <2>6. Altered(x)
    BY Zenon, <2>4, <2>5 DEF Altered, Active, Live
  <2> QED BY <2>5, <2>6, <1>AlterStep
\* A cancellation of an execution that no host runs.
<1>Fencing. ASSUME FenceCancellation
            PROVE  Good
  <2> USE <1>Fencing
  <2>1. /\ Active /\ SetCurrent(Settle(Current, "cancelled"))
        /\ UNCHANGED <<entries, head, claims, run, mode, cancel, faults>>
    BY DEF FenceCancellation
  <2>2. /\ Altered(Settle(Current, "cancelled")) /\ Settle(Current, "cancelled") \in Executions
        /\ Settle(Current, "cancelled").state = "cancelled"
    BY <2>1, Settling
  <2>3. \E x \in Executions : Altered(x) /\ x.state # "succeeded"
    BY <2>2
  <2> QED BY Zenon, <2>1, <2>3, <1>AlterStep
\* RollbackTrajectory moves the head between executions.
<1>RollingBack. ASSUME NEW h \in Hosts, RollbackTrajectory(h)
                PROVE  Good
  <2> USE <1>RollingBack
  <2>1. PICK t \in DOMAIN entries : AppendEntries(<<Entry("rollback", t, 0, 0, FALSE)>>)
    BY Zenon DEF RollbackTrajectory
  <2> /\ Rollbacks /\ ~Active /\ UNCHANGED <<execs, claims, run, mode, cancel, faults>>
    BY Zenon DEF RollbackTrajectory
  <2>3. t \in 0..Len(entries)
    BY Facts DEF StoreType
  <2>4. Moves("rollback", t)
    BY <2>1, <2>3 DEF Moves
  <2>5. StoreStep
    BY <2>4 DEF StoreStep
  <2>6. claims' \in Nat /\ faults' \in Nat
    BY Zenon DEF Inv, HostType
  <2> QED BY Zenon, <2>5, <2>6, SameRuns, <1>CalmStep
\* A step of host h's cancellation.
<1>CancelsStep. ASSUME NEW h \in Hosts, NEW c \in Cancellations, cancel' = [cancel EXCEPT ![h] = c],
                       cancel'[h] = c => CancelBounds(h)', StoreStep,
                       run' \in [Hosts -> Runs], \A g \in Hosts : Calm(g),
                       claims' \in Nat, UNCHANGED <<mode, faults>>
                PROVE  Good
  <2> USE <1>CancelsStep
  <2>1. HostType
    BY DEF Inv
  <2>2. /\ cancel' \in [Hosts -> Cancellations] /\ cancel'[h] = c
        /\ \A g \in Hosts : g # h => cancel'[g] = cancel[g]
    BY <2>1 DEF HostType
  <2>3. HostType'
    BY Zenon, <2>1, <2>2 DEF HostType
  <2> QED BY <2>2, <2>3 DEF Good
\* A cancellation that is over has no bounds to keep.
<1>CancelOver. ASSUME NEW h \in Hosts, StoreStep, cancel'[h] = NoCancel
               PROVE  CancelBounds(h)'
  <2> USE <1>CancelOver
  <2>1. StoreType'
    BY StoreSteps DEF Inv
  <2>2. Len(entries') \in Nat /\ Len(execs') \in Nat
    BY <2>1 DEF StoreType
  <2>3. /\ cancel'[h].pc = "idle" /\ cancel'[h].id = 0 /\ cancel'[h].head = 0
        /\ cancel'[h].base = 0
    BY SMT, SMTT(30) DEF NoCancel
  <2> QED BY SMT, SMTT(30), <2>2, <2>3 DEF CancelBounds
\* A step that ends host h's cancellation.
<1>CancelEnds. ASSUME NEW h \in Hosts, cancel' = [cancel EXCEPT ![h] = NoCancel], StoreStep,
                      run' \in [Hosts -> Runs], \A g \in Hosts : Calm(g),
                      claims' \in Nat, UNCHANGED <<mode, faults>>
               PROVE  Good
  <2> USE <1>CancelEnds
  <2>1. NoCancel \in Cancellations
    BY Zenon DEF NoCancel, Cancellations
  <2>2. cancel'[h] = NoCancel => CancelBounds(h)'
    BY <1>CancelOver
  <2> QED BY Zenon, <2>1, <2>2, <1>CancelsStep
\* CancelExecution finds the execution hosted here, or starts to fence it.
<1>Cancelling. ASSUME NEW h \in Hosts, CancelExecution(h)
               PROVE  Good
  <2> USE <1>Cancelling
  <2> DEFINE p == IF Hosting(h, Len(execs)) THEN "waiting" ELSE "read"
             c == [NoCancel EXCEPT !.pc = p, !.id = Len(execs), !.tries = 2]
  <2> /\ Interrupt(h, Len(execs)) /\ cancel' = [cancel EXCEPT ![h] = c] /\ UNCHANGED <<mode, faults>>
      /\ UNCHANGED <<entries, head, execs>> /\ claims' \in Nat /\ Active
    BY DEF CancelExecution, store, Inv, HostType
  <2> /\ Len(entries) \in Nat /\ Len(execs) \in Nat /\ p \in {"waiting", "read"} /\ StoreType
    BY Facts
  <2>3. Len(execs) # 0
    BY DEF Active, StoreType
  <2>4. /\ c \in Cancellations /\ c.pc = p /\ c.id = Len(execs) /\ c.tries = 2 /\ c.head = 0
        /\ c.base = 0
    <3>1. c = [NoCancel EXCEPT !.pc = p, !.id = Len(execs), !.tries = 2]
      BY Zenon
    <3> HIDE DEF c, p
    <3> QED BY Zenon, <3>1 DEF NoCancel, Cancellations
  <2> HIDE DEF c, p
  <2>5. ASSUME cancel'[h] = c PROVE CancelBounds(h)'
    BY <2>3, <2>4, <2>5 DEF CancelBounds
  <2>6. run' \in [Hosts -> Runs] /\ \A g \in Hosts : Calm(g)
    BY Interrupting
  <2> QED BY Zenon, <2>4, <2>5, <2>6, <1>Still, <1>CancelsStep
\* It stops waiting for the run it interrupted.
<1>CancelHosting. ASSUME NEW h \in Hosts, CancelHosted(h)
                  PROVE  Good
  <2> USE <1>CancelHosting
  <2>1. /\ UNCHANGED <<entries, head, execs>> /\ UNCHANGED run /\ UNCHANGED <<mode, faults>>
        /\ claims' \in Nat /\ cancel' = [cancel EXCEPT ![h] = NoCancel]
    BY Zenon DEF CancelHosted, store, Inv, HostType
  <2> QED BY Zenon, <2>1, SameRuns, <1>Still, <1>CancelEnds
\* It reads the head and the base of the execution ...
<1>CancelReading. ASSUME NEW h \in Hosts, CancelRead(h)
                  PROVE  Good
  <2> USE <1>CancelReading
  <2> DEFINE n == cancel[h].tries - 1
             b == Current.base
             c == [cancel[h] EXCEPT !.pc = "commit", !.head = head, !.base = b, !.tries = n]
  <2>1. /\ UNCHANGED <<entries, head, execs>> /\ UNCHANGED run /\ UNCHANGED <<mode, faults>>
        /\ claims' \in Nat /\ cancel[h].pc = "read"
    BY DEF CancelRead, store, Inv, HostType
  <2>2. cancel' = [cancel EXCEPT ![h] = c]
    BY Zenon DEF CancelRead
  <2>3. /\ cancel[h] \in Cancellations /\ cancel[h].id \in Nat /\ cancel[h].id # 0
        /\ cancel[h].id <= Len(execs) /\ n \in Nat
    BY SMT, SMTT(30), <2>1, CancelFacts DEF CancelBounds
  <2>4. /\ StoreType /\ Logged /\ Len(entries) \in Nat /\ Len(execs) \in Nat
        /\ head \in Nat /\ head = Len(entries)
    BY Facts
  <2>5. b \in 0..Len(entries) /\ b \in Nat
    <3>1. execs # <<>>
      BY SMT, SMTT(30), <2>3, <2>4
    <3> QED BY SMT, SMTT(30), <2>4, <3>1, InputBranch
  <2>6. /\ c \in Cancellations /\ c.pc = "commit" /\ c.id = cancel[h].id /\ c.head = head
        /\ c.base = b
    <3>1. c = [cancel[h] EXCEPT !.pc = "commit", !.head = head, !.base = b, !.tries = n]
      BY Zenon
    <3> HIDE DEF c, b, n
    <3> QED BY Zenon, <2>3, <2>4, <2>5, <3>1 DEF Cancellations
  <2>7. Current'.base = b
    BY <2>1 DEF Current
  <2> HIDE DEF c, b, n
  <2>8. ASSUME cancel'[h] = c PROVE CancelBounds(h)'
    <3>1. /\ c.head <= Len(entries) /\ c.base <= Len(entries)
          /\ c.id <= Len(execs) /\ c.id # 0 /\ c.pc # "read"
      BY SMT, SMTT(30), <2>3, <2>4, <2>5, <2>6
    <3>2. entries' = entries /\ execs' = execs
      BY Zenon, <2>1
    <3> QED BY Zenon, <2>6, <2>7, <2>8, <3>1, <3>2 DEF CancelBounds
  <2> QED BY Zenon, <2>1, <2>2, <2>6, <2>8, SameRuns, <1>Still, <1>CancelsStep
\* ... and settles it as cancelled, or reads again.
<1>CancelCommitting. ASSUME NEW h \in Hosts, CancelCommit(h)
                     PROVE  Good
  <2> USE <1>CancelCommitting
  <2> DEFINE c == cancel[h]
  <2>0. c.pc = "commit" /\ UNCHANGED <<mode, faults>> /\ claims' \in Nat
    BY Zenon DEF CancelCommit, Inv, HostType
  <2>f. /\ c \in Cancellations /\ CancelBounds(h) /\ c.id \in Nat /\ c.head \in Nat
        /\ c.base \in Nat /\ c.tries \in Nat
    BY CancelFacts
  <2>1. CASE /\ c.id = Len(execs) /\ Active
             /\ head = c.head
             /\ AppendEntries(Completion(head, c.base, c.id, TRUE, TRUE))
             /\ SetCurrent(Settle(Current, "cancelled"))
             /\ Interrupt(h, c.id)
             /\ cancel' = [cancel EXCEPT ![h] = NoCancel]
    <3> DEFINE x == Settle(Current, "cancelled")
    <3>1. c.base = Current.base
      BY Zenon, <2>0, <2>1, <2>f DEF CancelBounds
    <3>2. /\ Altered(x) /\ x \in Executions /\ x.state = "cancelled" /\ ~Live(x)
      BY Zenon, <2>1, Settling
    <3>3. AppendEntries(Completion(head, Current.base, Len(execs), TRUE, TRUE))
      BY Zenon, <2>1, <3>1
    <3> HIDE DEF x
    <3>4. Completes(x, TRUE, TRUE)
      BY Zenon, <3>2, <3>3 DEF Completes
    <3>5. StoreStep
      BY Zenon, <3>4 DEF StoreStep
    <3>6. run' \in [Hosts -> Runs] /\ \A g \in Hosts : Calm(g)
      BY Zenon, <2>1, Interrupting
    <3> QED BY ZenonT(60), <2>0, <2>1, <3>5, <3>6, <1>CancelEnds
  <2>2. CASE /\ cancel' = [cancel EXCEPT ![h] = NoCancel]
             /\ UNCHANGED <<entries, head, execs>>
             /\ UNCHANGED run \/ Interrupt(h, c.id)
    <3>1. run' \in [Hosts -> Runs] /\ \A g \in Hosts : Calm(g)
      BY Zenon, <2>2, SameRuns, Interrupting
    <3> QED BY Zenon, <2>0, <2>2, <3>1, <1>Still, <1>CancelEnds
  <2>3. CASE /\ c.tries > 0 /\ cancel' = [cancel EXCEPT ![h] = [c EXCEPT !.pc = "read"]]
             /\ UNCHANGED <<entries, head, execs>>
             /\ UNCHANGED run
    <3> DEFINE d == [c EXCEPT !.pc = "read"]
    <3>1. /\ d \in Cancellations /\ d.pc = "read" /\ d.id = c.id /\ d.head = c.head
          /\ d.base = c.base /\ d.tries = c.tries
      <4>1. d = [c EXCEPT !.pc = "read"]
        OBVIOUS
      <4> HIDE DEF d, c
      <4> QED BY <2>f, <4>1 DEF Cancellations
    <3>2. cancel' = [cancel EXCEPT ![h] = d]
      BY <2>3
    <3> HIDE DEF d
    <3>3. ASSUME cancel'[h] = d PROVE CancelBounds(h)'
      <4>1. /\ c.head <= Len(entries) /\ c.base <= Len(entries) /\ c.id <= Len(execs)
            /\ c.id # 0 /\ c.tries # 0
        BY <2>0, <2>3, <2>f DEF CancelBounds
      <4> HIDE DEF c
      <4> QED BY <2>3, <3>1, <3>3, <4>1 DEF CancelBounds
    <3> QED BY Zenon, <2>0, <2>3, <3>1, <3>2, <3>3, SameRuns, <1>Still, <1>CancelsStep
  <2> QED BY Zenon, <2>1, <2>2, <2>3 DEF CancelCommit
\* A step of host h's lifecycle: the store stays, the run stays or starts anew.
<1>LifecycleStep. ASSUME NEW h \in Hosts, UNCHANGED store, mode' \in [Hosts -> Modes], faults' \in Nat,
                         UNCHANGED cancel \/ cancel' = [cancel EXCEPT ![h] = NoCancel],
                         NEW r \in Runs, UNCHANGED run \/ Become(h, r),
                         r.pc \in {"idle", "started"}, r.exec = 0, r.head = 0, r.target = 0
                  PROVE  Good
  <2> USE <1>LifecycleStep
  <2>1. UNCHANGED <<entries, head, execs>> /\ claims' \in Nat
    BY Zenon DEF store, Inv, HostType
  <2>2. StoreStep
    BY Zenon, <2>1, <1>Still
  <2>3. HostType /\ Len(entries) \in Nat /\ Len(execs) \in Nat
    BY Zenon, Facts
  <2>4. run' \in [Hosts -> Runs] /\ \A g \in Hosts : Calm(g) \/ HostOK(g)'
    <3>1. CASE UNCHANGED run
      BY Zenon, <3>1, SameRuns
    <3>2. CASE Become(h, r)
      <4>1. /\ run' \in [Hosts -> Runs] /\ run'[h] = r
            /\ \A g \in Hosts : g # h => Calm(g)
        BY Zenon, <2>3, <3>2, Becomes
      <4>2. HostBounds(h)'
        BY SMT, SMTT(30), <2>1, <2>3, <4>1 DEF HostBounds, Claimed, Writing
      <4>3. Ready(h)'
        BY Zenon, <4>1 DEF Ready, Writing
      <4> QED BY Zenon, <4>1, <4>2, <4>3 DEF HostOK
    <3> QED BY Zenon, <3>1, <3>2
  <2>5. /\ cancel' \in [Hosts -> Cancellations]
        /\ \A g \in Hosts : cancel'[g] = cancel[g] \/ CancelBounds(g)'
    <3>1. CASE UNCHANGED cancel
      BY Zenon, <2>3, <3>1 DEF HostType
    <3>2. CASE cancel' = [cancel EXCEPT ![h] = NoCancel]
      <4>1. NoCancel \in Cancellations
        BY Zenon DEF NoCancel, Cancellations
      <4>2. /\ cancel' \in [Hosts -> Cancellations] /\ cancel'[h] = NoCancel
            /\ \A g \in Hosts : g # h => cancel'[g] = cancel[g]
        BY Zenon, <2>3, <3>2, <4>1 DEF HostType
      <4> QED BY Zenon, <2>2, <4>2, <1>CancelOver
    <3> QED BY Zenon, <3>1, <3>2
  <2>6. HostType'
    BY Zenon, <2>1, <2>4, <2>5 DEF HostType
  <2> QED BY Zenon, <2>2, <2>4, <2>5, <2>6 DEF Good
\* Drains, closes, crashes and restarts.
<1>Living. ASSUME NEW h \in Hosts, Lifecycle(h)
           PROVE  Good
  <2> USE <1>Living
  <2> DEFINE s == [IdleRun EXCEPT !.pc = "started"]
  <2>1. /\ IdleRun \in Runs /\ IdleRun.pc = "idle" /\ IdleRun.exec = 0 /\ IdleRun.head = 0
        /\ IdleRun.target = 0
    BY Zenon DEF IdleRun, Runs, Counters
  <2>2. /\ s \in Runs /\ s.pc = "started" /\ s.exec = 0 /\ s.head = 0 /\ s.target = 0
    <3>1. s = [IdleRun EXCEPT !.pc = "started"] /\ "started" \in Counters
      BY DEF Counters
    <3> HIDE DEF s
    <3> QED BY <2>1, <3>1 DEF IdleRun, Runs
  <2>3. mode \in [Hosts -> Modes] /\ faults \in Nat
    BY DEF Inv, HostType
  <2>m. \A m \in Modes : [mode EXCEPT ![h] = m] \in [Hosts -> Modes]
    BY <2>3
  <2>n. {"draining", "closing", "down", "open"} \subseteq Modes
    BY DEF Modes
  <2>4. CASE RequestDrain(h)
    <3>1. /\ mode' = [mode EXCEPT ![h] = "draining"] /\ faults' = faults + 1
          /\ UNCHANGED store /\ UNCHANGED run /\ UNCHANGED cancel
      BY <2>4 DEF RequestDrain
    <3>2. mode' \in [Hosts -> Modes] /\ faults' \in Nat
      BY <2>3, <2>m, <2>n, <3>1
    <3> HIDE DEF s
    <3> QED BY <2>1, <3>1, <3>2, <1>LifecycleStep, Zenon
  <2>5. CASE RequestClose(h)
    <3>1. /\ mode' = [mode EXCEPT ![h] = "closing"] /\ faults' \in {faults, faults + 1}
          /\ UNCHANGED store /\ UNCHANGED run /\ UNCHANGED cancel
      BY <2>5 DEF RequestClose
    <3>2. mode' \in [Hosts -> Modes] /\ faults' \in Nat
      BY <2>3, <2>m, <2>n, <3>1
    <3> HIDE DEF s
    <3> QED BY <2>1, <3>1, <3>2, <1>LifecycleStep, Zenon
  <2>6. CASE FinishClose(h)
    <3>1. /\ mode' = [mode EXCEPT ![h] = "down"] /\ faults' = faults
          /\ UNCHANGED store /\ Become(h, IdleRun) /\ UNCHANGED cancel
      BY <2>6 DEF FinishClose
    <3>2. mode' \in [Hosts -> Modes] /\ faults' \in Nat
      BY Zenon, <2>3, <2>m, <2>n, <3>1
    <3> HIDE DEF s
    <3> QED BY <2>1, <3>1, <3>2, <1>LifecycleStep, Zenon
  <2>7. CASE Crash(h)
    <3>1. /\ mode' = [mode EXCEPT ![h] = "down"] /\ faults' = faults + 1
          /\ UNCHANGED store /\ Become(h, IdleRun) /\ cancel' = [cancel EXCEPT ![h] = NoCancel]
      BY <2>7 DEF Crash
    <3>2. mode' \in [Hosts -> Modes] /\ faults' \in Nat
      BY <2>3, <2>m, <2>n, <3>1
    <3> HIDE DEF s
    <3> QED BY <2>1, <3>1, <3>2, <1>LifecycleStep, Zenon
  <2>8. CASE Restart(h)
    <3>1. /\ mode' = [mode EXCEPT ![h] = "open"] /\ faults' = faults
          /\ UNCHANGED store /\ Become(h, s) /\ UNCHANGED cancel
      BY <2>8 DEF Restart
    <3>2. mode' \in [Hosts -> Modes] /\ faults' \in Nat
      BY Zenon, <2>3, <2>m, <2>n, <3>1
    <3> HIDE DEF s
    <3> QED BY <2>2, <3>1, <3>2, <1>LifecycleStep, Zenon
  <2> QED BY Zenon, <2>4, <2>5, <2>6, <2>7, <2>8 DEF Lifecycle
\* An unwind fails in the store, or runs out of time.
<1>UnwindFaulting. ASSUME NEW h \in Hosts, UnwindFault(h)
                   PROVE  Good
  <2> USE <1>UnwindFaulting
  <2>1. /\ IdleRun \in Runs /\ IdleRun.pc = "idle" /\ IdleRun.exec = 0 /\ IdleRun.head = 0
        /\ IdleRun.target = 0
    BY Zenon DEF IdleRun, Runs, Counters
  <2>2. /\ UNCHANGED store /\ Become(h, IdleRun) /\ UNCHANGED cancel
        /\ mode' \in [Hosts -> Modes] /\ faults' \in Nat
    BY DEF UnwindFault, Inv, HostType
  <2> QED BY <2>1, <2>2, <1>LifecycleStep, Zenon
\* No step at all.
<1>Stuttering. ASSUME UNCHANGED vars
               PROVE  Good
  <2> USE <1>Stuttering
  <2>1. /\ UNCHANGED <<entries, head, execs>> /\ UNCHANGED run /\ UNCHANGED <<mode, cancel>>
        /\ claims' \in Nat /\ faults' \in Nat
    BY DEF vars, Inv, HostType
  <2> QED BY Zenon, <2>1, SameRuns, <1>Still, <1>CalmStep
<1>1. ASSUME NEW h \in Hosts, Accept(h) PROVE Good
  BY Zenon, <1>1, <1>NothingFound, <1>Resuming, <1>Moving, <1>Submitting DEF Accept
<1>2. ASSUME NEW h \in Hosts, Work(h) PROVE Good
  <2>1. CASE RunRefused(h)
    BY Zenon, <2>1, <1>Erring DEF RunRefused
  <2> QED BY Zenon, <1>2, <2>1, <1>Submission, <1>Recovering, <1>Restoring, <1>Blocked,
        <1>Progressing, <1>Checkpointing,
        <1>Finishing, <1>UnwindReading, <1>Unwinding DEF Work
<1>3. ASSUME NEW h \in Hosts, RunError(h) PROVE Good
  BY <1>3, <1>Erring DEF RunError
<1>4. ASSUME NEW h \in Hosts, CancelStep(h) PROVE Good
  BY <1>4, <1>CancelHosting, <1>CancelReading, <1>CancelCommitting DEF CancelStep
<1> QED BY Zenon, <1>1, <1>2, <1>3, <1>4, <1>Planning, <1>Renewing, <1>RenewFaulting,
      <1>UnwindFaulting,
      <1>Cancelling, <1>RollingBack,
      <1>Living, <1>Ticking, <1>Fencing, <1>Stuttering DEF Next

\* The invariant holds throughout, whatever the constants: runs, recoveries,
\* cancellations, rollbacks and restarts of any number of hosts write one log.
THEOREM Invariance == Spec => []Inv
\* The empty store and idle hosts satisfy the invariant.
<1>InitInv. Init => Inv
  <2> SUFFICES ASSUME Init PROVE Inv
    OBVIOUS
  <2> /\ entries = <<>> /\ head = 0 /\ execs = <<>> /\ claims = 0 /\ faults = 0
      /\ run = [h \in Hosts |-> IdleRun] /\ mode = [h \in Hosts |-> "open"]
      /\ cancel = [h \in Hosts |-> NoCancel]
    BY DEF Init
  <2> StoreType /\ Len(entries) = 0 /\ Len(execs) = 0 /\ DOMAIN entries = {} /\ DOMAIN execs = {}
    <3>1. /\ <<>> \in Seq(Entries) /\ <<>> \in Seq(Executions) /\ Len(<<>>) = 0
          /\ DOMAIN <<>> = {}
      BY SMT, SMTT(30)
    <3> QED BY Zenon, <3>1 DEF StoreType
  <2>2. IdleRun \in Runs /\ NoCancel \in Cancellations /\ "open" \in Modes
    BY Zenon DEF IdleRun, Runs, Counters, NoCancel, Cancellations, Modes
  <2>3. HostType
    BY <2>2 DEF HostType
  <2>4. ~Active
    BY DEF Active
  <2>5. Tree(entries)
    <3>1. ASSUME NEW T \in SUBSET (0..0), \A m \in T : \E k \in T : k < m PROVE T = {}
      BY <3>1
    <3>2. Founded(0)
      BY Zenon, <3>1 DEF Founded
    <3> QED BY <3>2 DEF Tree
  <2>6. Store
    BY Zenon, <2>4, <2>5 DEF Store, Logged, Grounded, Concluded, SettledInv, ActiveBranchOwned
  <2>7. ASSUME NEW h \in Hosts PROVE HostOK(h) /\ CancelBounds(h)
    <3>1. run[h] = IdleRun /\ cancel[h] = NoCancel
      BY Zenon
    <3> /\ run[h].pc = "idle" /\ run[h].head = 0 /\ run[h].target = 0 /\ run[h].exec = 0
        /\ cancel[h].pc = "idle" /\ cancel[h].id = 0 /\ cancel[h].head = 0 /\ cancel[h].base = 0
      BY Zenon, <3>1 DEF IdleRun, NoCancel
    <3>3. 0 <= Len(entries) /\ 0 <= Len(execs)
      OBVIOUS
    <3>4. CancelBounds(h)
      BY Zenon, <3>3 DEF CancelBounds
    <3>5. "idle" \notin Writing /\ "idle" \notin Claimed
      BY DEF Writing, Claimed
    <3>6. HostBounds(h)
      BY Zenon, <3>3, <3>5 DEF HostBounds
    <3>7. Ready(h)
      BY Zenon, <3>5 DEF Ready
    <3> QED BY Zenon, <3>4, <3>6, <3>7 DEF HostOK
  <2> QED BY <2>3, <2>6, <2>7 DEF Inv
<1>1. Inv /\ [Next]_vars => Inv'
  BY EveryStep, GoodStep
<1> QED BY <1>InitInv, <1>1, PTL DEF Spec

-----------------------------------------------------------------------------
(***************************************************************************)
(* The results.                                                            *)
(***************************************************************************)

\* The variables keep their types.
THEOREM Types == Spec => []TypeOK
<1>1. Inv => TypeOK
  <2> SUFFICES ASSUME Inv PROVE TypeOK
    OBVIOUS
  <2>1. StoreType /\ HostType /\ head \in 0..Len(entries)
    BY Facts
  <2> QED BY <2>1 DEF TypeOK, StoreType, HostType, Entries, Executions, Runs, Cancellations
<1> QED BY <1>1, Invariance, PTL

\* Finish, failExecution and CancelExecution race to complete an execution, and its
\* log never gets two terminal entries, nor one while it is live.
THEOREM Settled == Spec => []SettledOnce
<1>1. Inv => SettledOnce
  BY Zenon DEF Inv, Store, SettledInv, SettledOnce
<1> QED BY <1>1, Invariance, PTL

\* Between its base and the head an active execution finds no entry but its own,
\* though other hosts recover, cancel and move heads from what they read before.
THEOREM BranchOwned == Spec => []ActiveBranchOwned
<1>1. Inv => ActiveBranchOwned
  BY Zenon DEF Inv, Store
<1> QED BY <1>1, Invariance, PTL

\* No step logs anything for an execution once it is settled.
THEOREM Final == Spec => NothingAfterSettled
\* An appended entry belongs to no execution, a new one, or the active one.
<1>NewEntries. ASSUME StoreType, Store, StoreStep, NEW i \in DOMAIN entries' \ DOMAIN entries
               PROVE  \/ entries'[i].exec = 0 \/ entries'[i].exec = Len(execs) + 1
                      \/ Active /\ entries'[i].exec = Len(execs)
  <2> USE <1>NewEntries
  <2>0. Store' /\ LogKept /\ ExecsKept /\ StoreType'
    BY Zenon, StoreSteps
  <2>1. /\ Len(entries) \in Nat /\ Len(entries') \in Nat /\ DOMAIN entries = 1..Len(entries)
        /\ DOMAIN entries' = 1..Len(entries') /\ head' = Len(entries') /\ Logged
    BY SMT, SMTT(30), <2>0 DEF StoreType, LogKept, Store
  <2>2. i \in (Len(entries) + 1)..Len(entries')
    BY <2>1
  <2>3. CASE Quiet
    BY Zenon, <2>1, <2>2, <2>3 DEF Quiet
  <2>4. CASE Accepts
    <3>1. head' = Len(entries) + 1
      BY Zenon, <2>4, AcceptsStore
    <3>2. Entry("user", head, Len(execs) + 1, 0, FALSE) \in Entries
      BY SMT, SMTT(30), <2>1 DEF Entry, Entries, Kinds, Logged, StoreType
    <3>3. entries'[Len(entries) + 1] = Entry("user", head, Len(execs) + 1, 0, FALSE)
      BY Zenon, <2>4, <3>2, GrowOne DEF Accepts
    <3> QED BY SMT, SMTT(30), <2>1, <2>2, <3>1, <3>3 DEF Entry
  <2>5. ASSUME NEW kind, NEW t, Moves(kind, t) PROVE entries'[i].exec = 0
    <3>1. head' = Len(entries) + 1 /\ entries'[Len(entries) + 1] = Entry(kind, t, 0, 0, FALSE)
      BY Zenon, <2>5, MovesStore
    <3> QED BY SMT, SMTT(30), <2>1, <2>2, <3>1 DEF Entry
  <2>6. ASSUME NEW kind, NEW parent, NEW turn, NEW stop, Commits(kind, parent, turn, stop)
        PROVE  Active /\ entries'[i].exec = Len(execs)
    <3>1. /\ head' = Len(entries) + 1
          /\ entries'[Len(entries) + 1] = Entry(kind, parent, Len(execs), turn, stop)
      BY <2>6, CommitsStore
    <3>2. Active
      BY Zenon, <2>6 DEF Commits
    <3> QED BY SMT, SMTT(30), <2>1, <2>2, <3>1, <3>2 DEF Entry
  <2>7. ASSUME NEW x, NEW terminal, NEW restore, Completes(x, terminal, restore)
        PROVE  Active /\ entries'[i].exec = Len(execs)
    <3>1. /\ Active /\ execs # <<>> /\ terminal \in BOOLEAN /\ restore \in BOOLEAN
          /\ terminal \/ restore
          /\ AppendEntries(Completion(head, Current.base, Len(execs), terminal, restore))
      BY Zenon, <2>7 DEF Completes, Altered, Active
    <3>2. entries'[i].exec = Len(execs)
      BY Zenon, <2>1, <2>2, <3>1, CompletionLog
    <3> QED BY Zenon, <3>1, <3>2
  <2> QED BY Zenon, <2>3, <2>4, <2>5, <2>6, <2>7 DEF StoreStep
<1>1. ASSUME Inv, [Next]_vars, NEW id \in DOMAIN execs, ~Live(execs[id])
      PROVE  /\ execs'[id] = execs[id]
             /\ \A i \in DOMAIN entries' \ DOMAIN entries : entries'[i].exec # id
  <2>1. StoreType /\ Store /\ StoreStep /\ Len(execs) \in Nat
    BY Zenon, <1>1, Facts, EveryStep DEF Good
  <2>2. id \in 1..Len(execs)
    BY Zenon, <1>1, <2>1, Lengths DEF StoreType
  <2>3. execs'[id] = execs[id]
    BY Zenon, <1>1, <2>1, <2>2, StoreSteps DEF ExecsKept
  <2>4. Active => id # Len(execs)
    BY <1>1 DEF Active, Current
  <2>5. ASSUME NEW i \in DOMAIN entries' \ DOMAIN entries
        PROVE  entries'[i].exec # id
    <3>1. \/ entries'[i].exec = 0 \/ entries'[i].exec = Len(execs) + 1
          \/ Active /\ entries'[i].exec = Len(execs)
      BY Zenon, <2>1, <2>5, <1>NewEntries
    <3>2. id # 0 /\ id # Len(execs) + 1
      BY <2>1, <2>2
    <3> QED BY Zenon, <2>4, <3>1, <3>2
  <2> QED BY Zenon, <2>3, <2>5
<1>2. Inv /\ [Next]_vars =>
        [\A id \in DOMAIN execs :
          ~ Live(execs[id]) =>
              /\ execs'[id] = execs[id]
              /\ \A i \in DOMAIN entries' \ DOMAIN entries :
                     entries'[i].exec # id]_vars
  BY Zenon, <1>1
<1> QED BY <1>2, Invariance, PTL DEF Spec, NothingAfterSettled

=============================================================================
