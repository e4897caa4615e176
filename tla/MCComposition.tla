---------------------------- MODULE MCComposition ----------------------------
(***************************************************************************)
(* A small instance of Composition: a tool plugin, one that requires it,   *)
(* one that conflicts with it and one with a hook on an event of it.       *)
(***************************************************************************)
EXTENDS Composition, TLC

CONSTANTS tool, agent, rival, watcher

MCPlugins == {tool, agent, rival, watcher}

MCResources == MCPlugins

MCProvides == [p \in MCPlugins |-> {p}]

MCRequires == [p \in MCPlugins |-> IF p = agent THEN {tool} ELSE {}]

MCConflicts == [p \in MCPlugins |-> IF p = rival THEN {tool} ELSE {}]

MCTargets == [p \in MCPlugins |-> IF p = watcher THEN {tool} ELSE {}]

ProcSymmetry == Permutations(Procs)
=============================================================================
