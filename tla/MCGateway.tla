------------------------------ MODULE MCGateway ------------------------------
(***************************************************************************)
(* Instances of Gateway for TLC.                                           *)
(***************************************************************************)
EXTENDS Gateway, TLC

\* The identifiers of the inputs are interchangeable where none is cancelled
\* or all are.
IdSymmetry == Permutations(Ids)

=============================================================================
