---------------------------- MODULE JobOwnership ----------------------------
(***************************************************************************)
(* What the claim protocol promises, without tokens, leases or clocks: a   *)
(* job is held by one owner at a time, only its owner can settle it or     *)
(* give it back, and every attempt is charged exactly once: when it is     *)
(* settled or taken away, never when it is given back.                     *)
(***************************************************************************)
EXTENDS Integers

CONSTANTS Jobs, Owners, NoOwner   \* NoOwner is not in Owners

VARIABLES
  status,   \* "absent", "queued", "held", "done" or "deleted"
  owner,    \* who holds a held job; NoOwner when the holder is gone
  charged   \* attempts charged to the job so far

absVars == <<status, owner, charged>>

AbsTypeOK ==
  /\ status \in [Jobs -> {"absent", "queued", "held", "done", "deleted"}]
  /\ owner \in [Jobs -> Owners \cup {NoOwner}]
  /\ charged \in [Jobs -> Int]

AbsInit ==
  /\ status = [j \in Jobs |-> "absent"]
  /\ owner = [j \in Jobs |-> NoOwner]
  /\ charged = [j \in Jobs |-> 0]

Add(j) ==
  /\ status[j] = "absent"
  /\ status' = [status EXCEPT ![j] = "queued"]
  /\ UNCHANGED <<owner, charged>>

Acquire(j, o) ==
  /\ status[j] = "queued"
  /\ status' = [status EXCEPT ![j] = "held"]
  /\ owner' = [owner EXCEPT ![j] = o]
  /\ UNCHANGED charged

\* The owner reports an outcome: final, or one that queues a retry.
Settle(j) ==
  /\ owner[j] \in Owners
  /\ \E s \in {"done", "queued"} : status' = [status EXCEPT ![j] = s]
  /\ owner' = [owner EXCEPT ![j] = NoOwner]
  /\ charged' = [charged EXCEPT ![j] = @ + 1]

GiveBack(j) ==
  /\ owner[j] \in Owners
  /\ status' = [status EXCEPT ![j] = "queued"]
  /\ owner' = [owner EXCEPT ![j] = NoOwner]
  /\ UNCHANGED charged

\* Owners disappear; what they held stays held by nobody.
Abandon(S) ==
  /\ owner' = [j \in Jobs |-> IF j \in S THEN NoOwner ELSE owner[j]]
  /\ UNCHANGED <<status, charged>>

\* Held jobs are taken from whoever holds them.
Revoke(S) ==
  /\ \A j \in S : status[j] = "held"
  /\ status' = [j \in Jobs |-> IF j \in S THEN "queued" ELSE status[j]]
  /\ owner' = [j \in Jobs |-> IF j \in S THEN NoOwner ELSE owner[j]]
  /\ charged' = [j \in Jobs |-> IF j \in S THEN charged[j] + 1 ELSE charged[j]]

Withdraw(j) ==
  /\ status[j] = "queued"
  /\ status' = [status EXCEPT ![j] = "done"]
  /\ UNCHANGED <<owner, charged>>

Reopen(j) ==
  /\ status[j] = "done"
  /\ status' = [status EXCEPT ![j] = "queued"]
  /\ UNCHANGED <<owner, charged>>

\* A deleted job is forgotten, with whatever was charged to it.
Remove(j) ==
  /\ status[j] \in {"queued", "held", "done"}
  /\ status' = [status EXCEPT ![j] = "deleted"]
  /\ owner' = [owner EXCEPT ![j] = NoOwner]
  /\ charged' = [charged EXCEPT ![j] = 0]

AbsNext ==
  \/ \E j \in Jobs : \/ Add(j) \/ Settle(j) \/ GiveBack(j)
                     \/ Withdraw(j) \/ Reopen(j) \/ Remove(j)
                     \/ \E o \in Owners : Acquire(j, o)
  \/ \E S \in SUBSET Jobs : Abandon(S) \/ Revoke(S)

AbsSpec == AbsInit /\ [][AbsNext]_absVars
=============================================================================
