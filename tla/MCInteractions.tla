---------------------------- MODULE MCInteractions ----------------------------
(***************************************************************************)
(* Interactions on small instances.                                        *)
(***************************************************************************)
EXTENDS Interactions
=============================================================================
