--------------------------- MODULE MCClaimProtocol ---------------------------
(* Instances of ClaimProtocol for TLC.                                     *)
EXTENDS ClaimProtocol, TLC

CONSTANTS p1, p2, w1, q1, k1, f1

\* Two pools of a rolling deployment that share one WorkerID.
SharedWorkerID == [p \in Pools |-> w1]

Timeout2  == [p \in Pools |-> 2]
Beat1     == [p \in Pools |-> 1]

Job(priority, runAt, maxRetry, key) ==
  [queue |-> q1, priority |-> priority, runAt |-> runAt,
   maxRetry |-> maxRetry, uniqueKey |-> key]

OneKind  == {Job(0, 0, 0, NoKey)}

NoDelay  == {0}

PoolSymmetry == Permutations(Pools)
=============================================================================
