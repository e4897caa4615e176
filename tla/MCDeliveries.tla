----------------------------- MODULE MCDeliveries -----------------------------
(***************************************************************************)
(* Deliveries for TLC: d1 and d2 share a partition, d3 has its own; d1 and *)
(* d3 are addressed to revision r1, d2 to r2 where there are two revisions.*)
(***************************************************************************)
EXTENDS Deliveries, TLC

CONSTANTS d1, d2, d3, p1, p2, r1, r2

MCPartitionOf == [d \in Ids |-> IF d = d3 THEN p2 ELSE p1]
MCRevisionOf == [d \in Ids |-> IF d = d2 /\ r2 \in Revisions THEN r2 ELSE r1]
HostSymmetry == Permutations(Hosts)
=============================================================================
