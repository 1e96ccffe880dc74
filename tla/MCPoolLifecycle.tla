--------------------------- MODULE MCPoolLifecycle ---------------------------
(* Instances of PoolLifecycle for TLC.                                     *)
EXTENDS PoolLifecycle

TwoQueues == <<"a", "b">>
=============================================================================
