------------------------ MODULE MCDistributedPipeline ------------------------
(***************************************************************************)
(* Three claims of one pipeline in two pools.                              *)
(***************************************************************************)
EXTENDS DistributedPipeline

Three == 1..3
TwoPools == <<"p", "q", "p">>
=============================================================================
