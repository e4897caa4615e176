--------------------------- MODULE MCTrajectories ---------------------------
(* Trajectories for TLC: symmetry of the hosts, and the specification with *)
(* the fairness of the runtime's goroutines.                               *)
EXTENDS Trajectories, TLC

HostSymmetry == Permutations(Hosts)

(* A goroutine that can take its next step takes it, the clock advances, a *)
(* stopped host is started again and recovers once as it starts.           *)
Fairness ==
    /\ WF_vars(Tick)
    /\ \A h \in Hosts :
        /\ WF_vars(Work(h))
        /\ WF_vars(run[h].pc = "started" /\ PlanRecovery(h))
        /\ WF_vars(CancelStep(h))
        /\ WF_vars(FinishClose(h))
        /\ WF_vars(RequestClose(h) /\ mode[h] = "draining")
        /\ WF_vars(Restart(h))

(* The gateway recovers executions as its process starts, at no other time.*)
RecoversAtStart == \A h \in Hosts : run[h].pc = "idle" => run'[h].pc # "planned"

LiveSpec == Init /\ [][Next /\ RecoversAtStart]_vars /\ Fairness

(* The lease ran out, and every host is open and done looking: the unwind  *)
(* of the last host was refused or failed, and only a start recovers again.*)
Stranded ==
    /\ Active /\ Current.state = "running" /\ Current.lease = 0
    /\ \A h \in Hosts : mode[h] = "open" /\ run[h].pc \in {"idle", "moving", "resumed"}

(* Every accepted prompt is settled: a host that dies or shuts down leaves *)
(* an execution that another host or its own successor recovers, fails or  *)
(* completes.  A host that lost its lease, or whose failExecution fails,   *)
(* and lives on leaves it stranded until some host starts; after that it   *)
(* is settled, or stranded anew.                                           *)
PromptsSettle ==
    \A id \in 1..MaxExecutions :
        LET unsettled == id \in DOMAIN execs /\ Live(execs[id])
        IN  unsettled ~> (~ unsettled \/ Stranded)
=============================================================================
