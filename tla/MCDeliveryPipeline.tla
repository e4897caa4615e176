-------------------------- MODULE MCDeliveryPipeline --------------------------
(***************************************************************************)
(* DeliveryPipeline for TLC: the deliveries of one subscriber revision and *)
(* one session, so of one partition.                                       *)
(***************************************************************************)
EXTENDS DeliveryPipeline, TLC

CONSTANTS d1, d2, p1, r1

MCPartitionOf == [d \in Ids |-> p1]
MCRevisionOf == [d \in Ids |-> r1]
Symmetry == Permutations(Ids)
=============================================================================
