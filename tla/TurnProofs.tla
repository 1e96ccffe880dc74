----------------------------- MODULE TurnProofs -----------------------------
(* Theorems about DistributedPipeline, for any number of claims and pools, *)
(* any lease and any number of faults.                                     *)
EXTENDS DistributedPipeline, FiniteSetTheorems, TLAPS

Accesses == {"take", "insert", "expire", "extend"}

\* The calls, the lease and the timers are well formed.
Parts ==
  /\ driver \in Kinds
  /\ lease \in [owner : Claims \cup {NoOwner}, left : Int]
  /\ term \in [Claims -> Nat]
  /\ call \in [Claims -> [next : Accesses, age : Nat] \cup {NoCall}]
  /\ phase \in [Claims -> Handling \cup {"new", "polling", "releasing", "done"}]

Turns == Parts /\ LeaseCovers

-----------------------------------------------------------------------------
(* What a call of one claim does to the lease of another.                  *)

\* The lease of a live handler is not expired, for no reader of the clock.
LEMMA NotElectable ==
  ASSUME Turns, NEW c \in LiveHandlers, NEW d \in Claims, c # d, NEW age \in Nat
  PROVE  ~Electable(d, age) /\ lease.left > 0 /\ lease.owner = c
  <1>1. lease.owner = c /\ lease.left >= Lease - term[c] /\ term[c] < Lease
    BY Zenon DEF Turns, LeaseCovers, LiveHandlers
  <1>2. term[c] \in Nat /\ lease.left \in Int /\ c \in Claims
    BY Zenon DEF Turns, Parts, LiveHandlers
  <1>3. lease.left > 0
    BY <1>1, <1>2, PipelineAssumption
  <1>4. ~(lease.left + age <= 0)
    BY <1>2, <1>3
  <1>5. lease.owner \notin {d, NoOwner}
    BY Zenon, <1>1, <1>2, PipelineAssumption
  <1>q. QED BY Zenon, <1>1, <1>3, <1>4, <1>5 DEF Electable

\* A second access that says "elected" to another claim has left a live
\* handler's lease to it, and no shorter (leaderAttemptElect).
LEMMA WriteKeepsOther ==
  ASSUME Turns, NEW c \in LiveHandlers, NEW d \in Claims, c # d,
         call[d] # NoCall, Second(d)
  PROVE  Written(d).owner = c /\ Written(d).left >= Lease - term[c]
  <1>1. call[d].next \in Accesses /\ call[d].age \in Nat
    BY Zenon DEF Turns, Parts
  <1>2. ~Electable(d, call[d].age) /\ lease.left > 0 /\ lease.owner = c
    BY Zenon, <1>1, NotElectable
  <1>3. c # NoOwner
    BY Zenon, PipelineAssumption DEF LiveHandlers
  <1>4. call[d].next \notin {"take", "insert"}
    BY Zenon, <1>1, <1>2, <1>3 DEF Second
  <1>5. lease.left >= Lease - term[c]
    BY Zenon DEF Turns, LeaseCovers
  <1>6. CASE call[d].next = "extend"
    BY Zenon, <1>2, <1>5, <1>6 DEF Written
  <1>7. CASE call[d].next = "expire"
    <2>1. Written(d) = [lease EXCEPT !.left = Lease]
      BY Zenon, <1>2, <1>7 DEF Written
    <2>2. Written(d).owner = c /\ Written(d).left = Lease
      BY Zenon, <2>1, <1>2 DEF Turns, Parts
    <2>3. term[c] \in Nat /\ Lease \in Nat
      BY Zenon, PipelineAssumption DEF Turns, Parts, LiveHandlers
    <2>q. QED BY <2>2, <2>3
  <1>q. QED BY ZenonT(30), <1>1, <1>4, <1>6, <1>7 DEF Accesses

\* What the second access writes is a lease.
LEMMA WrittenType ==
  ASSUME Parts, NEW d \in Claims, call[d] # NoCall
  PROVE  Written(d) \in [owner : Claims \cup {NoOwner}, left : Int]
  <1>1. call[d].next \in Accesses /\ call[d].age \in Nat /\ Lease \in Nat
    BY Zenon, PipelineAssumption DEF Parts
  <1>2. Holds(d, call[d].age) \in [owner : Claims \cup {NoOwner}, left : Int]
    BY <1>1 DEF Holds
  <1>3. [lease EXCEPT !.left = Lease] \in [owner : Claims \cup {NoOwner}, left : Int]
    BY <1>1 DEF Parts
  <1>q. QED BY Zenon, <1>1, <1>2, <1>3 DEF Written, Parts

\* A claim that is told "elected" by the access that made it the owner is
\* covered by its lease (leaderAttemptElect).
LEMMA WriteCoversOwn ==
  ASSUME Parts, NEW d \in Claims, call[d] # NoCall, 
         call[d].next \in {"take", "insert"} \/ Renewed(d)
  PROVE  Written(d).owner = d /\ Written(d).left >= Lease - call[d].age
  <1>1. call[d].next \in Accesses /\ call[d].age \in Nat /\ Lease \in Nat
    BY Zenon, PipelineAssumption DEF Parts
  <1>2. CASE call[d].next = "expire"
    <2>1. lease.owner = d /\ Written(d) = [lease EXCEPT !.left = Lease]
      BY Zenon, <1>2 DEF Renewed, Written
    <2>2. Written(d).owner = d /\ Written(d).left = Lease
      BY Zenon, <2>1 DEF Parts
    <2>q. QED BY <2>2, <1>1
  <1>3. CASE call[d].next # "expire"
    <2>1. Written(d) = Holds(d, call[d].age)
      BY Zenon, <1>3 DEF Renewed, Written
    <2>2. Written(d).owner = d /\ Written(d).left = Lease - call[d].age
      BY <2>1 DEF Holds
    <2>q. QED BY <2>2, <1>1
  <1>q. QED BY Zenon, <1>2, <1>3

-----------------------------------------------------------------------------
(* One step.                                                               *)

\* A step of one claim preserves the covering of the others if it leaves them
\* alone and the lease with its live owner.
LEMMA ClaimStep ==
  ASSUME NEW d \in Claims,
         \A c \in Claims \ {d} : /\ phase'[c] = phase[c] /\ term'[c] = term[c]
                                 /\ (c \in misled') <=> (c \in misled),
         \A c \in LiveHandlers : c # d => /\ lease'.owner = c
                                          /\ lease'.left >= Lease - term[c],
         d \in LiveHandlers' => lease'.owner = d /\ lease'.left >= Lease - term'[d]
  PROVE  LeaseCovers'
  BY DEF LeaseCovers, LiveHandlers

\* A step of one claim that leaves the lease alone and does not make the claim
\* live preserves the covering.
LEMMA QuietStep ==
  ASSUME Turns, NEW d \in Claims, lease' = lease,
         \A c \in Claims \ {d} : /\ phase'[c] = phase[c] /\ term'[c] = term[c]
                                 /\ (c \in misled') <=> (c \in misled),
         \/ phase'[d] # "running"
         \/ /\ phase'[d] = phase[d] /\ term'[d] = term[d]
            /\ (d \in misled') <=> (d \in misled)
  PROVE  LeaseCovers'
  <1>1. \A c \in LiveHandlers : lease'.owner = c /\ lease'.left >= Lease - term[c]
    BY Zenon DEF Turns, LeaseCovers
  <1>2. d \in LiveHandlers' => d \in LiveHandlers /\ term'[d] = term[d]
    BY Zenon DEF LiveHandlers
  <1>3. d \in LiveHandlers' => lease'.owner = d /\ lease'.left >= Lease - term'[d]
    BY Zenon, <1>1, <1>2
  <1>q. QED BY Zenon, <1>1, <1>3, ClaimStep

\* Won, Lost and Stopped change the timers and the phase of their own claim.
LEMMA WonParts ==
  ASSUME Parts, NEW d \in Claims, NEW age \in Nat, Won(d, age)
  PROVE  /\ term' \in [Claims -> Nat] /\ term'[d] = age
         /\ phase' \in [Claims -> Handling \cup {"new", "polling", "releasing", "done"}]
         /\ \A c \in Claims \ {d} : phase'[c] = phase[c] /\ term'[c] = term[c]
  BY Zenon DEF Won, Parts, Handling

\* A claim that is told it lost is not live (Lost).
LEMMA LostParts ==
  ASSUME Parts, NEW d \in Claims, Lost(d)
  PROVE  /\ term' \in [Claims -> Nat]
         /\ phase' \in [Claims -> Handling \cup {"new", "polling", "releasing", "done"}]
         /\ phase'[d] # "running"
         /\ \A c \in Claims \ {d} : /\ phase'[c] = phase[c] /\ term'[c] = term[c]
                                    /\ (c \in misled') <=> (c \in misled)
  BY Zenon DEF Lost, Stopped, Parts, Handling

\* The first access of a call preserves the invariant.
LEMMA CallTurns ==
  ASSUME Turns, NEW d \in Claims, Call(d)
  PROVE  Turns'
  <1> USE DEF Turns
  <1>1. CASE First(d) = "won"
    <2>1. lease' = Holds(d, 0) /\ misled' = misled \ {d} /\ Won(d, 0)
          /\ call' = call /\ driver' = driver
      BY Zenon, <1>1 DEF Call
    <2>2. lease' \in [owner : Claims \cup {NoOwner}, left : Int]
          /\ lease'.owner = d /\ lease'.left = Lease
      BY <2>1, PipelineAssumption DEF Holds
    <2>3. Parts'
      BY Zenon, <2>1, <2>2, WonParts DEF Parts
    <2>4. \A c \in LiveHandlers : c = d
      <3>1. SUFFICES ASSUME NEW c \in LiveHandlers, c # d
                     PROVE  FALSE
        BY Zenon
      <3>2. ~Electable(d, 0) /\ lease.left > 0
        BY Zenon, <3>1, NotElectable
      <3>3. driver \in {"mongodb", "redis"}
        BY Zenon, <1>1 DEF First, Parts, Kinds, pgxFirst, cassandraFirst
      <3>4. CASE driver = "mongodb"
        BY Zenon, <1>1, <3>2, <3>4 DEF First, mongoFirst
      <3>5. CASE driver = "redis"
        <4>1. First(d) = redisFirst(d)
          BY Zenon, <3>5 DEF First
        <4>2. redisFirst(d) # "won"
          BY <3>2 DEF redisFirst, Parts
        <4>q. QED BY Zenon, <1>1, <4>1, <4>2
      <3>q. QED BY Zenon, <3>3, <3>4, <3>5
    <2>5. term'[d] = 0
      BY Zenon, <2>1, WonParts
    <2>6. lease'.left >= Lease - term'[d]
      BY <2>2, <2>5, PipelineAssumption
    <2>7. \A c \in Claims \ {d} : /\ phase'[c] = phase[c] /\ term'[c] = term[c]
                                  /\ (c \in misled') <=> (c \in misled)
      BY Zenon, <2>1, WonParts
    <2>q. QED BY ZenonT(30), <2>2, <2>3, <2>4, <2>6, <2>7, ClaimStep
  <1>2. CASE First(d) # "won"
    <2>1. /\ call' = [call EXCEPT ![d] = [next |-> First(d), age |-> 0]]
          /\ UNCHANGED <<driver, phase, term, lease, misled>>
          /\ First(d) # "lost"
      BY Zenon, <1>2 DEF Call
    <2>2. First(d) \in Accesses
      BY Zenon, <1>2, <2>1 DEF First, Parts, Kinds, Accesses, pgxFirst, mongoFirst, redisFirst,
                        cassandraFirst
    <2>3. Parts'
      BY Zenon, <2>1, <2>2 DEF Parts
    <2>4. LeaseCovers'
      BY Zenon, <2>1, QuietStep
    <2>q. QED BY Zenon, <2>3, <2>4
  <1>q. QED BY Zenon, <1>1, <1>2

\* The second access of a call preserves the invariant.
LEMMA AnswerTurns ==
  ASSUME Turns, NEW d \in Claims, Answer(d)
  PROVE  Turns'
  <1> USE DEF Turns
  <1>1. /\ call[d] # NoCall /\ driver' = driver
        /\ call' = [call EXCEPT ![d] = NoCall]
    BY Zenon DEF Answer
  <1>2. call' \in [Claims -> [next : Accesses, age : Nat] \cup {NoCall}]
        /\ call[d].age \in Nat
    BY Zenon, <1>1 DEF Parts
  <1>3. CASE Second(d)
    <2>1. /\ lease' = Written(d) /\ Won(d, call[d].age)
          /\ misled' = IF call[d].next \in {"take", "insert"} \/ Renewed(d)
                       THEN misled \ {d} ELSE misled \cup {d}
      BY Zenon, <1>3 DEF Answer
    <2>2. Parts'
      BY ZenonT(30), <1>1, <1>2, <2>1, WrittenType, WonParts DEF Parts
    <2>3. \A c \in Claims \ {d} : /\ phase'[c] = phase[c] /\ term'[c] = term[c]
                                  /\ (c \in misled') <=> (c \in misled)
      BY Zenon, <1>2, <2>1, WonParts
    <2>4. \A c \in LiveHandlers : c # d => /\ lease'.owner = c
                                           /\ lease'.left >= Lease - term[c]
      BY ZenonT(30), <1>1, <1>3, <2>1, WriteKeepsOther
    <2>5. term'[d] = call[d].age
      BY ZenonT(30), <1>2, <2>1, WonParts
    <2>6. d \in LiveHandlers' => call[d].next \in {"take", "insert"} \/ Renewed(d)
      BY Zenon, <2>1 DEF LiveHandlers
    <2>7. d \in LiveHandlers' => lease'.owner = d /\ lease'.left >= Lease - term'[d]
      BY ZenonT(30), <1>1, <2>1, <2>5, <2>6, WriteCoversOwn
    <2>q. QED BY ZenonT(30), <2>2, <2>3, <2>4, <2>7, ClaimStep
  <1>4. CASE ~Second(d)
    <2>1. lease' = lease /\ Lost(d)
      BY Zenon, <1>4 DEF Answer
    <2>2. Parts'
      BY ZenonT(30), <1>1, <1>2, <2>1, LostParts DEF Parts
    <2>3. LeaseCovers'
      BY Zenon, <2>1, LostParts, QuietStep
    <2>q. QED BY Zenon, <2>2, <2>3
  <1>q. QED BY Zenon, <1>3, <1>4

\* A failed call preserves the invariant, with or without effect.
LEMMA CallErrorTurns ==
  ASSUME Turns, NEW d \in Claims, CallError(d)
  PROVE  Turns'
  <1> USE DEF Turns
  <1>1. /\ call[d] # NoCall /\ driver' = driver /\ Lost(d)
        /\ call' = [call EXCEPT ![d] = NoCall]
        /\ (Second(d) /\ lease' = Written(d)) \/ lease' = lease
    BY Zenon DEF CallError
  <1>2. call' \in [Claims -> [next : Accesses, age : Nat] \cup {NoCall}]
    BY Zenon, <1>1 DEF Parts
  <1>3. lease' \in [owner : Claims \cup {NoOwner}, left : Int]
    BY Zenon, <1>1, WrittenType DEF Parts
  <1>4. Parts'
    BY ZenonT(30), <1>1, <1>2, <1>3, LostParts DEF Parts
  <1>5. \A c \in LiveHandlers : c # d => /\ lease'.owner = c
                                         /\ lease'.left >= Lease - term[c]
    BY Zenon, <1>1, WriteKeepsOther DEF LeaseCovers
  <1>6. d \notin LiveHandlers'
    BY Zenon, <1>1, LostParts DEF LiveHandlers
  <1>7. LeaseCovers'
    BY ZenonT(30), <1>1, <1>5, <1>6, LostParts, ClaimStep
  <1>q. QED BY Zenon, <1>4, <1>7

\* A renewal in flight that release() waits for preserves the invariant.
LEMMA AwaitTurns ==
  ASSUME Turns, NEW d \in Claims, Await(d)
  PROVE  Turns'
  <1> USE DEF Turns
  <1>1. /\ call[d] # NoCall /\ phase[d] = "releasing"
        /\ UNCHANGED <<driver, phase, term, misled>>
        /\ call' = [call EXCEPT ![d] = NoCall]
        /\ (Second(d) /\ lease' = Written(d)) \/ lease' = lease
    BY Zenon DEF Await
  <1>2. call' \in [Claims -> [next : Accesses, age : Nat] \cup {NoCall}]
    BY Zenon, <1>1 DEF Parts
  <1>3. lease' \in [owner : Claims \cup {NoOwner}, left : Int]
    BY Zenon, <1>1, WrittenType DEF Parts
  <1>4. Parts'
    BY Zenon, <1>1, <1>2, <1>3 DEF Parts
  <1>5. \A c \in LiveHandlers : c # d => /\ lease'.owner = c
                                         /\ lease'.left >= Lease - term[c]
    BY Zenon, <1>1, WriteKeepsOther DEF LeaseCovers
  <1>6. d \notin LiveHandlers'
    BY Zenon, <1>1 DEF LiveHandlers
  <1>7. LeaseCovers'
    BY Zenon, <1>1, <1>5, <1>6, ClaimStep
  <1>q. QED BY Zenon, <1>4, <1>7

\* The steps of a claim that touch no lease but their own preserve the
\* invariant.
LEMMA OwnTurns ==
  ASSUME Turns, NEW d \in Claims,
         Claim(d) \/ RenewRefused(d) \/ ExpireError(d) \/ GiveUp(d)
           \/ Return(d) \/ Resign(d) \/ ResignError(d)
  PROVE  Turns'
  <1> USE DEF Turns
  <1>1. CASE Claim(d)
    <2>1. phase' = [phase EXCEPT ![d] = "polling"]
          /\ UNCHANGED <<driver, term, call, lease, misled>>
      BY Zenon, <1>1 DEF Claim
    <2>2. Parts' /\ phase'[d] # "running"
      BY Zenon, <2>1 DEF Parts
    <2>3. \A c \in Claims \ {d} : phase'[c] = phase[c]
      BY Zenon, <2>1 DEF Parts
    <2>q. QED BY Zenon, <2>1, <2>2, <2>3, QuietStep
  <1>2. CASE RenewRefused(d)
    <2>1. Lost(d) /\ UNCHANGED <<driver, call, lease>>
      BY Zenon, <1>2 DEF RenewRefused
    <2>2. Parts'
      BY Zenon, <2>1, LostParts DEF Parts
    <2>q. QED BY Zenon, <2>1, <2>2, LostParts, QuietStep
  <1>3. CASE ExpireError(d)
    <2>1. /\ Won(d, call[d].age) /\ UNCHANGED <<driver, lease>>
          /\ misled' = misled \cup {d} /\ call' = [call EXCEPT ![d] = NoCall]
          /\ call[d].next = "expire"
      BY Zenon, <1>3 DEF ExpireError
    <2>2. call[d].age \in Nat
          /\ call' \in [Claims -> [next : Accesses, age : Nat] \cup {NoCall}]
      BY <2>1 DEF Parts, NoCall
    <2>3. Parts'
      BY Zenon, <2>1, <2>2, WonParts DEF Parts
    <2>4. d \notin LiveHandlers'
      BY Zenon, <2>1 DEF LiveHandlers
    <2>5. \A c \in Claims \ {d} : /\ phase'[c] = phase[c] /\ term'[c] = term[c]
                                  /\ (c \in misled') <=> (c \in misled)
      BY Zenon, <2>1, <2>2, WonParts
    <2>6. \A c \in LiveHandlers : lease'.owner = c /\ lease'.left >= Lease - term[c]
      BY Zenon, <2>1 DEF LeaseCovers
    <2>q. QED BY Zenon, <2>3, <2>4, <2>5, <2>6, ClaimStep
  <1>4. CASE GiveUp(d) \/ ResignError(d)
    <2>1. phase' = [phase EXCEPT ![d] = "done"]
          /\ UNCHANGED <<driver, term, call, lease, misled>>
      BY Zenon, <1>4 DEF GiveUp, ResignError
    <2>2. Parts' /\ phase'[d] # "running"
      BY Zenon, <2>1 DEF Parts
    <2>3. \A c \in Claims \ {d} : phase'[c] = phase[c]
      BY Zenon, <2>1 DEF Parts
    <2>q. QED BY Zenon, <2>1, <2>2, <2>3, QuietStep
  <1>5. CASE Return(d)
    <2>1. phase' = [phase EXCEPT ![d] = "releasing"] /\ Stopped(d)
          /\ UNCHANGED <<driver, call, lease>>
      BY Zenon, <1>5 DEF Return
    <2>2. Parts' /\ phase'[d] # "running"
      BY Zenon, <2>1 DEF Parts, Stopped
    <2>3. \A c \in Claims \ {d} : /\ phase'[c] = phase[c] /\ term'[c] = term[c]
                                  /\ (c \in misled') <=> (c \in misled)
      BY Zenon, <2>1 DEF Parts, Stopped
    <2>q. QED BY Zenon, <2>1, <2>2, <2>3, QuietStep
  <1>6. CASE Resign(d)
    <2>1. phase' = [phase EXCEPT ![d] = "done"] /\ lease' = Resigned(d)
          /\ UNCHANGED <<driver, term, call, misled>>
      BY Zenon, <1>6 DEF Resign
    <2>2. Parts' /\ phase'[d] # "running"
      BY <2>1 DEF Parts, Resigned, Free
    <2>3. \A c \in Claims \ {d} : phase'[c] = phase[c]
      BY Zenon, <2>1 DEF Parts
    <2>4. \A c \in LiveHandlers : c # d => /\ lease'.owner = c
                                           /\ lease'.left >= Lease - term[c]
      BY Zenon, <2>1 DEF LeaseCovers, Resigned
    <2>5. d \notin LiveHandlers'
      BY Zenon, <2>2 DEF LiveHandlers
    <2>q. QED BY ZenonT(30), <2>1, <2>2, <2>3, <2>4, <2>5, ClaimStep
  <1>q. QED BY ZenonT(30), <1>1, <1>2, <1>3, <1>4, <1>5, <1>6

\* Crashes, pauses and the passing of time preserve the invariant: a lease and
\* the term its handler counts run down together.
LEMMA PoolTurns ==
  ASSUME Turns, NEW p \in Pools, Crash(p) \/ Stall(p) \/ Wake(p)
  PROVE  Turns'
  <1> USE DEF Turns
  <1>1. CASE Crash(p)
    <2>1. /\ phase' = [c \in Claims |-> IF PoolOf[c] = p THEN "done" ELSE phase[c]]
          /\ call' = [c \in Claims |-> IF PoolOf[c] = p THEN NoCall ELSE call[c]]
          /\ term' = [c \in Claims |-> IF PoolOf[c] = p THEN 0 ELSE term[c]]
          /\ misled' = {c \in misled : PoolOf[c] # p}
          /\ UNCHANGED <<driver, lease>>
      BY Zenon, <1>1 DEF Crash
    <2>2. Parts'
      BY Zenon, <2>1 DEF Parts
    <2>3. \A c \in LiveHandlers' : c \in LiveHandlers /\ term'[c] = term[c]
      BY Zenon, <2>1 DEF LiveHandlers
    <2>4. LeaseCovers'
      BY Zenon, <2>1, <2>3 DEF LeaseCovers
    <2>q. QED BY Zenon, <2>2, <2>4
  <1>2. CASE Stall(p) \/ Wake(p)
    BY Zenon, <1>2 DEF Stall, Wake, Parts, LeaseCovers, LiveHandlers
  <1>q. QED BY Zenon, <1>1, <1>2

\* Time passes for the lease as for its handler (Tick).
LEMMA TickTurns ==
  ASSUME Turns, Tick
  PROVE  Turns'
  <1> USE DEF Turns
  <1>1. /\ lease' = [lease EXCEPT !.left = IF lease.left > Overdue THEN lease.left - 1
                                          ELSE lease.left]
        /\ term' = [c \in Claims |-> IF phase[c] = "running"
                                     THEN AtMost(term[c] + 1, Lease) ELSE term[c]]
        /\ call' = [c \in Claims |-> IF call[c] = NoCall THEN NoCall
                                     ELSE [call[c] EXCEPT !.age = AtMost(@ + 1, Lease)]]
        /\ UNCHANGED <<driver, phase, misled>>
    BY Zenon DEF Tick
  <1>2. Lease \in Nat /\ Overdue \in Int /\ Overdue <= 0
    BY PipelineAssumption DEF Overdue
  <1>3. \A n \in Nat : AtMost(n + 1, Lease) \in Nat
    BY <1>2 DEF AtMost
  <1>4. term' \in [Claims -> Nat]
    BY Zenon, <1>1, <1>3 DEF Parts
  <1>5. call' \in [Claims -> [next : Accesses, age : Nat] \cup {NoCall}]
    <2>1. \A c \in Claims : call[c] # NoCall =>
            [call[c] EXCEPT !.age = AtMost(@ + 1, Lease)] \in [next : Accesses, age : Nat]
      BY <1>3 DEF Parts
    <2>q. QED BY Zenon, <1>1, <2>1
  <1>6. /\ lease' \in [owner : Claims \cup {NoOwner}, left : Int]
        /\ lease'.owner = lease.owner
        /\ lease'.left = IF lease.left > Overdue THEN lease.left - 1 ELSE lease.left
    BY <1>1, <1>2 DEF Parts
  <1>7. Parts'
    BY ZenonT(30), <1>1, <1>4, <1>5, <1>6 DEF Parts
  <1>8. ASSUME NEW c \in LiveHandlers'
        PROVE  lease'.owner = c /\ lease'.left >= Lease - term'[c]
    <2>1. c \in Claims /\ phase[c] = "running" /\ c \notin misled /\ term'[c] < Lease
      BY Zenon, <1>1, <1>8 DEF LiveHandlers
    <2>2. term[c] \in Nat /\ term'[c] = AtMost(term[c] + 1, Lease)
      BY ZenonT(30), <1>1, <2>1 DEF Parts
    <2>3. term'[c] = term[c] + 1 /\ term[c] < Lease
      BY <1>2, <2>1, <2>2 DEF AtMost
    <2>4. c \in LiveHandlers
      BY Zenon, <2>1, <2>3 DEF LiveHandlers
    <2>5. lease.owner = c /\ lease.left >= Lease - term[c] /\ lease.left \in Int
      BY Zenon, <2>4 DEF LeaseCovers, Parts
    <2>6. lease.left > Overdue
      BY <1>2, <2>2, <2>3, <2>5
    <2>q. QED BY SMTT(30), <1>2, <1>6, <2>2, <2>3, <2>5, <2>6
  <1>9. LeaseCovers'
    BY Zenon, <1>8 DEF LeaseCovers
  <1>q. QED BY Zenon, <1>7, <1>9

\* The invariant holds initially and every step preserves it.
LEMMA InitTurns == Init => Turns
  BY PipelineAssumption
     DEF Init, Turns, Parts, LeaseCovers, LiveHandlers, Free, NoCall, Handling

\* Every step preserves the invariant.
LEMMA NextTurns == Turns /\ [Next]_vars => Turns'
  <1> SUFFICES ASSUME Turns, [Next]_vars
               PROVE  Turns'
    BY Zenon
  <1>1. CASE Tick
    BY Zenon, <1>1, TickTurns
  <1>2. ASSUME NEW c \in Claims,
               Claim(c) \/ Poll(c) \/ Renew(c) \/ RenewRefused(c) \/ Answer(c)
                 \/ CallError(c) \/ ExpireError(c) \/ GiveUp(c) \/ Return(c)
                 \/ Await(c) \/ Resign(c) \/ ResignError(c)
        PROVE  Turns'
    <2>1. CASE Poll(c) \/ Renew(c)
      BY Zenon, <2>1, CallTurns DEF Poll, Renew
    <2>2. CASE Answer(c)
      BY Zenon, <2>2, AnswerTurns
    <2>3. CASE CallError(c)
      BY ZenonT(30), <2>3, CallErrorTurns
    <2>4. CASE Await(c)
      BY Zenon, <2>4, AwaitTurns
    <2>q. QED BY ZenonT(30), <1>2, <2>1, <2>2, <2>3, <2>4, OwnTurns
  <1>3. ASSUME NEW p \in Pools, Crash(p) \/ Stall(p) \/ Wake(p)
        PROVE  Turns'
    BY Zenon, <1>3, PoolTurns
  <1>4. CASE UNCHANGED vars
    BY Zenon, <1>4 DEF vars, Turns, Parts, LeaseCovers, LiveHandlers
  <1>q. QED BY ZenonT(30), <1>1, <1>2, <1>3, <1>4 DEF Next

\* The row of the pipeline names every live handler and outlasts what the
\* handler counts (leaderAttemptElect of every driver with LinearizableLeases).
THEOREM LeaseCoversAlways == Spec => []LeaseCovers
  <1>1. Turns => LeaseCovers
    BY Zenon DEF Turns
  <1>q. QED BY <1>1, InitTurns, NextTurns, PTL DEF Spec

\* At most one handler of a pipeline is live, for any number of claims and
\* pools, any lease and any faults (acquireDistributedPipeline).
THEOREM TurnsKept == Spec => []OneLiveHandler
  <1>1. LeaseCovers => OneLiveHandler
    <2>1. LeaseCovers => LiveHandlers \subseteq {lease.owner}
      BY Zenon DEF LeaseCovers
    <2>2. IsFiniteSet({lease.owner}) /\ Cardinality({lease.owner}) = 1
      BY Zenon, FS_Singleton
    <2>3. LeaseCovers => Cardinality(LiveHandlers) <= Cardinality({lease.owner})
      BY Zenon, <2>1, <2>2, FS_Subset
    <2>q. QED BY Zenon, <2>2, <2>3 DEF OneLiveHandler
  <1>q. QED BY <1>1, LeaseCoversAlways, PTL
-----------------------------------------------------------------------------
(* The state of the claims.                                                *)

\* The phases of a goroutine in acquireDistributedPipeline or its handler.
Engaged == Handling \cup {"polling", "releasing"}

\* A pool fetches a claim once, and before the claim polls.
Fetched ==
  /\ order \in [Pools -> Seq(Claims)]
  /\ \A p \in Pools : IsInjective(order[p])
  /\ \A c \in Claims :
       /\ phase[c] = "new" => c \notin Range(order[PoolOf[c]])
       /\ phase[c] \in Engaged => c \in Range(order[PoolOf[c]])

\* No timer outgrows the lease.
Timers ==
  /\ since \in [Claims -> 0..renewEvery]
  /\ \A c \in Claims : term[c] <= Lease /\ call[c].age <= Lease
  /\ lease.left \in -Lease..Lease

\* A claim has a call in flight only while it polls, handles or releases, and
\* only Redis and Cassandra make the accesses that confirm without a test.
Calls ==
  /\ driver \in Drivers
  /\ \A c \in Claims :
       /\ call[c] # NoCall => phase[c] \in Engaged
       /\ call[c].next = "expire" => driver = "redis"
       /\ call[c].next = "extend" => driver = "cassandra"
  /\ misled # {} => driver \in {"redis", "cassandra"}

ClaimsInv == Parts /\ Fetched /\ Timers /\ Calls

\* What a step may do to the phase of a claim that was fetched before.
Moves(c) == \/ phase'[c] = phase[c]
            \/ phase[c] \in Engaged /\ phase'[c] \in Engaged
            \/ phase'[c] = "done"

\* A step that fetches no claim preserves the order of the fetched ones.
LEMMA FetchedKept ==
  ASSUME Fetched, order' = order, \A c \in Claims : Moves(c)
  PROVE  Fetched'
  <1>1. \A c \in Claims : phase'[c] = "new" => phase[c] = "new"
    BY Zenon DEF Moves, Engaged, Handling
  <1>2. \A c \in Claims : phase'[c] \in Engaged => phase[c] \in Engaged
    BY Zenon DEF Moves, Engaged, Handling
  <1>q. QED BY Zenon, <1>1, <1>2 DEF Fetched

\* The renewal interval is a part of the lease.
LEMMA Interval == renewEvery \in Nat /\ renewEvery <= Lease /\ renewEvery > 0
  BY PipelineAssumption DEF renewEvery

\* The smaller of two numbers is bounded by both.
LEMMA AtMostBounds ==
  ASSUME NEW a \in Nat, NEW b \in Nat
  PROVE  AtMost(a, b) \in 0..b
  BY DEF AtMost

\* A claim fetched for the first time comes last in the order of its pool
\* (Claim, pipelineGate).
LEMMA ClaimFetches ==
  ASSUME Parts, Fetched, NEW d \in Claims, Claim(d)
  PROVE  Fetched'
  <1> DEFINE q == order[PoolOf[d]]
  <1>1. /\ phase[d] = "new" /\ phase' = [phase EXCEPT ![d] = "polling"]
        /\ order' = [order EXCEPT ![PoolOf[d]] = Append(q, d)]
    BY Zenon DEF Claim
  <1>2. PoolOf[d] \in Pools
    BY Zenon DEF Pools
  <1>3. q \in Seq(Claims) /\ IsInjective(q) /\ d \notin Range(q)
    BY Zenon, <1>1, <1>2 DEF Fetched
  <1>4. /\ Append(q, d) \in Seq(Claims)
        /\ DOMAIN q = 1..Len(q) /\ DOMAIN Append(q, d) = 1..(Len(q) + 1)
        /\ \A i \in 1..Len(q) : Append(q, d)[i] = q[i]
        /\ Append(q, d)[Len(q) + 1] = d /\ Len(q) \in Nat
    BY <1>3
  <1>5. Range(Append(q, d)) = Range(q) \cup {d}
    BY <1>4 DEF Range
  <1>6. IsInjective(Append(q, d))
    <2>1. SUFFICES ASSUME NEW i \in 1..(Len(q) + 1), NEW j \in 1..(Len(q) + 1),
                          Append(q, d)[i] = Append(q, d)[j]
                   PROVE  i = j
      BY <1>4, Zenon DEF IsInjective
    <2>2. CASE i \in 1..Len(q) /\ j \in 1..Len(q)
      BY ZenonT(30), <1>3, <1>4, <2>1, <2>2 DEF IsInjective
    <2>3. \A n \in 1..Len(q) : q[n] # d
      BY Zenon, <1>3, <1>4 DEF Range
    <2>4. \A n \in 1..(Len(q) + 1) : n \notin 1..Len(q) => n = Len(q) + 1
      BY <1>4
    <2>q. QED BY Zenon, <1>4, <2>1, <2>2, <2>3, <2>4
  <1>7. order' \in [Pools -> Seq(Claims)] /\ \A p \in Pools : IsInjective(order'[p])
    BY Zenon, <1>1, <1>2, <1>4, <1>6 DEF Fetched
  <1>8. ASSUME NEW c \in Claims
        PROVE  /\ phase'[c] = "new" => c \notin Range(order'[PoolOf[c]])
               /\ phase'[c] \in Engaged => c \in Range(order'[PoolOf[c]])
    <2>1. PoolOf[c] \in Pools
      BY Zenon DEF Pools
    <2>2. Range(order'[PoolOf[c]]) =
            IF PoolOf[c] = PoolOf[d] THEN Range(order[PoolOf[c]]) \cup {d}
            ELSE Range(order[PoolOf[c]])
      BY <1>1, <1>2, <1>5, <2>1, Zenon DEF Fetched
    <2>3. phase'[c] = IF c = d THEN "polling" ELSE phase[c]
      BY Zenon, <1>1 DEF Parts
    <2>q. QED BY Zenon, <2>2, <2>3 DEF Fetched
  <1>q. QED BY Zenon, <1>7, <1>8 DEF Fetched

\* A step of one goroutine: the timers and the call of d stay within bounds.
OwnStep(d) ==
  /\ driver' = driver /\ order' = order
  /\ \A c \in Claims \ {d} : /\ phase'[c] = phase[c] /\ term'[c] = term[c]
                             /\ call'[c] = call[c]
  /\ Moves(d)
  /\ since' \in [Claims -> 0..renewEvery]
  /\ term'[d] <= Lease /\ call'[d].age <= Lease
  /\ lease'.left \in -Lease..Lease
  /\ call'[d] # NoCall => phase'[d] \in Engaged
  /\ call'[d].next = "expire" => driver = "redis"
  /\ call'[d].next = "extend" => driver = "cassandra"
  /\ misled' # {} => driver \in {"redis", "cassandra"}

\* Such a step keeps the state of the claims.
LEMMA OwnStepKeeps ==
  ASSUME Fetched, Timers, Calls, NEW d \in Claims, OwnStep(d)
  PROVE  Fetched' /\ Timers' /\ Calls'
  <1>1. \A c \in Claims : Moves(c)
    BY Zenon DEF OwnStep, Moves
  <1>2. Fetched'
    BY Zenon, <1>1, FetchedKept DEF OwnStep
  <1>3. Timers'
    BY Zenon DEF OwnStep, Timers
  <1>4. Calls'
    BY Zenon DEF OwnStep, Calls
  <1>q. QED BY ZenonT(30), <1>2, <1>3, <1>4

\* The answer "elected" starts the handler and its timers (Won).
LEMMA WonOwn ==
  ASSUME Parts, Timers, NEW d \in Claims, NEW age \in 0..Lease, Won(d, age),
         phase[d] \in Engaged
  PROVE  /\ Moves(d) /\ phase'[d] \in Engaged
         /\ since' \in [Claims -> 0..renewEvery] /\ term'[d] <= Lease
         /\ \A c \in Claims \ {d} : phase'[c] = phase[c] /\ term'[c] = term[c]
  <1>1. age \in Nat /\ renewEvery \in Nat /\ AtMost(age, renewEvery) \in 0..renewEvery
    BY Interval, AtMostBounds, PipelineAssumption
  <1>2. term'[d] = age /\ \A c \in Claims \ {d} : phase'[c] = phase[c] /\ term'[c] = term[c]
    BY Zenon, <1>1, WonParts
  <1>3. age <= Lease
    BY PipelineAssumption
  <1>4. 0 \in 0..renewEvery
    BY <1>1
  <1>5. since' \in [Claims -> 0..renewEvery]
    BY Zenon, <1>1, <1>4 DEF Won, Timers
  <1>6. phase'[d] \in Engaged
    BY Zenon DEF Won, Parts, Engaged, Handling
  <1>q. QED BY Zenon, <1>2, <1>3, <1>5, <1>6 DEF Moves

\* Another answer stops them (Lost).
LEMMA LostOwn ==
  ASSUME Parts, Timers, NEW d \in Claims, Lost(d)
  PROVE  /\ Moves(d) /\ (phase[d] \in Engaged => phase'[d] \in Engaged)
         /\ since' \in [Claims -> 0..renewEvery] /\ term'[d] <= Lease
         /\ \A c \in Claims \ {d} : phase'[c] = phase[c] /\ term'[c] = term[c]
         /\ misled' \subseteq misled
  <1>1. 0 \in 0..renewEvery /\ 0 <= Lease
    BY Interval, PipelineAssumption
  <1>2. since' \in [Claims -> 0..renewEvery] /\ term'[d] = 0
    BY Zenon, <1>1 DEF Lost, Stopped, Timers, Parts
  <1>3. phase'[d] = IF phase[d] = "running" THEN "cancelled" ELSE phase[d]
    BY Zenon DEF Lost, Parts
  <1>4. misled' \subseteq misled
    BY Zenon DEF Lost, Stopped
  <1>q. QED BY ZenonT(30), <1>1, <1>2, <1>3, <1>4, LostParts DEF Moves, Engaged, Handling

\* A call in flight has an age within the lease and is of a known access.
LEMMA CallBounds ==
  ASSUME Parts, Timers, Calls, NEW d \in Claims, call[d] # NoCall
  PROVE  /\ call[d].age \in 0..Lease /\ call[d].next \in Accesses
         /\ phase[d] \in Engaged
         /\ call[d].next \notin {"take", "insert"} => driver \in {"redis", "cassandra"}
  <1>1. call[d] \in [next : Accesses, age : Nat]
    BY Zenon DEF Parts
  <1>2. call[d].age <= Lease /\ Lease \in Nat
    BY Zenon, PipelineAssumption DEF Timers
  <1>q. QED BY <1>1, <1>2 DEF Calls, Accesses

\* What the second access writes ends within the lease.
LEMMA WrittenBounds ==
  ASSUME Parts, Timers, Calls, NEW d \in Claims, call[d] # NoCall
  PROVE  Written(d).left \in -Lease..Lease
  <1>1. call[d].age \in 0..Lease /\ call[d].next \in Accesses /\ Lease \in Nat
    BY ZenonT(30), CallBounds, PipelineAssumption
  <1>2. lease.left \in -Lease..Lease
    BY Zenon DEF Timers
  <1>3. Lease - call[d].age \in -Lease..Lease /\ Lease \in -Lease..Lease
    BY <1>1
  <1>4. Holds(d, call[d].age).left \in -Lease..Lease
    BY Zenon, <1>3 DEF Holds
  <1>5. [lease EXCEPT !.left = Lease].left = Lease
    BY Zenon DEF Parts
  <1>q. QED BY ZenonT(30), <1>2, <1>3, <1>4, <1>5 DEF Written

\* The first access of a call keeps the state of the claims (Call).
LEMMA CallClaims ==
  ASSUME ClaimsInv, NEW d \in Claims, Call(d), phase[d] \in Engaged
  PROVE  Fetched' /\ Timers' /\ Calls'
  <1> USE DEF ClaimsInv
  <1>1. call[d] = NoCall /\ First(d) # "lost" /\ driver' = driver /\ order' = order
    BY Zenon DEF Call
  <1>2. NoCall.age <= Lease /\ NoCall.next = "none"
    BY PipelineAssumption DEF NoCall
  <1>3. CASE First(d) = "won"
    <2>1. lease' = Holds(d, 0) /\ misled' = misled \ {d} /\ Won(d, 0) /\ call' = call
      BY Zenon, <1>3 DEF Call
    <2>2. lease'.left \in -Lease..Lease /\ 0 \in 0..Lease
      BY <2>1, PipelineAssumption DEF Holds
    <2>3. OwnStep(d)
      BY ZenonT(30), <1>1, <1>2, <2>1, <2>2, WonOwn DEF OwnStep, Calls
    <2>q. QED BY ZenonT(30), <2>3, OwnStepKeeps
  <1>4. CASE First(d) # "won"
    <2>1. /\ call' = [call EXCEPT ![d] = [next |-> First(d), age |-> 0]]
          /\ UNCHANGED <<phase, since, term, lease, misled>>
      BY Zenon, <1>4 DEF Call
    <2>2. call'[d].next = First(d) /\ call'[d].age = 0
          /\ \A c \in Claims \ {d} : call'[c] = call[c]
      BY Zenon, <2>1 DEF Parts
    <2>3. (First(d) = "expire" => driver = "redis")
          /\ (First(d) = "extend" => driver = "cassandra")
      BY Zenon DEF First, Parts, Kinds, pgxFirst, mongoFirst, redisFirst, cassandraFirst
    <2>4. 0 <= Lease
      BY PipelineAssumption
    <2>5. OwnStep(d)
      BY ZenonT(30), <1>1, <2>1, <2>2, <2>3, <2>4 DEF OwnStep, Moves, Timers, Calls
    <2>q. QED BY Zenon, <2>5, OwnStepKeeps
  <1>q. QED BY Zenon, <1>3, <1>4

\* So does the second access, whether it succeeds, fails or is waited for
\* (Answer, CallError, ExpireError, Await).
LEMMA AnswerClaims ==
  ASSUME ClaimsInv, NEW d \in Claims,
         Answer(d) \/ CallError(d) \/ ExpireError(d) \/ Await(d)
  PROVE  Fetched' /\ Timers' /\ Calls'
  <1> USE DEF ClaimsInv
  <1>1. /\ call[d] # NoCall /\ driver' = driver /\ order' = order
        /\ call' = [call EXCEPT ![d] = NoCall]
    BY DEF Answer, CallError, ExpireError, Await, NoCall
  <1>2. call'[d] = NoCall /\ NoCall.age <= Lease /\ NoCall.next = "none"
        /\ \A c \in Claims \ {d} : call'[c] = call[c]
    BY <1>1, PipelineAssumption DEF NoCall, Parts
  <1>3. lease'.left \in -Lease..Lease
    <2>1. lease' = lease \/ lease' = Written(d)
      BY Zenon DEF Answer, CallError, ExpireError, Await
    <2>q. QED BY ZenonT(30), <1>1, <2>1, WrittenBounds DEF Timers
  <1>4. CASE (Answer(d) /\ Second(d)) \/ ExpireError(d)
    <2>1. Won(d, call[d].age)
      BY Zenon, <1>4 DEF Answer, ExpireError
    <2>2. \/ misled' \subseteq misled
          \/ call[d].next \notin {"take", "insert"}
      BY Zenon, <1>4 DEF Answer, ExpireError
    <2>3. misled' # {} => driver \in {"redis", "cassandra"}
      BY ZenonT(30), <1>1, <2>2, CallBounds DEF Calls
    <2>4. OwnStep(d)
      BY ZenonT(30), <1>1, <1>2, <1>3, <2>1, <2>3, CallBounds, WonOwn DEF OwnStep
    <2>q. QED BY Zenon, <2>4, OwnStepKeeps
  <1>5. CASE (Answer(d) /\ ~Second(d)) \/ CallError(d)
    <2>1. Lost(d)
      BY Zenon, <1>5 DEF Answer, CallError
    <2>2. OwnStep(d)
      BY ZenonT(30), <1>1, <1>2, <1>3, <2>1, LostOwn DEF OwnStep, Calls
    <2>q. QED BY Zenon, <2>2, OwnStepKeeps
  <1>6. CASE Await(d)
    <2>1. UNCHANGED <<phase, since, term, misled>>
      BY Zenon, <1>6 DEF Await
    <2>2. OwnStep(d)
      BY ZenonT(30), <1>1, <1>2, <1>3, <2>1 DEF OwnStep, Moves, Timers, Calls
    <2>q. QED BY Zenon, <2>2, OwnStepKeeps
  <1>q. QED BY Zenon, <1>4, <1>5, <1>6

\* The other steps of a claim.
LEMMA OtherClaims ==
  ASSUME ClaimsInv, NEW d \in Claims,
         Claim(d) \/ RenewRefused(d) \/ GiveUp(d) \/ Return(d) \/ Resign(d) \/ ResignError(d)
  PROVE  Fetched' /\ Timers' /\ Calls'
  <1> USE DEF ClaimsInv
  <1>1. CASE Claim(d)
    <2>1. /\ UNCHANGED <<driver, since, term, call, lease, misled>>
          /\ phase' = [phase EXCEPT ![d] = "polling"]
      BY Zenon, <1>1 DEF Claim
    <2>2. \A c \in Claims : phase[c] \in Engaged => phase'[c] \in Engaged
      BY Zenon, <2>1 DEF Parts, Engaged
    <2>q. QED BY ZenonT(30), <1>1, <2>1, <2>2, ClaimFetches DEF Timers, Calls
  <1>2. CASE RenewRefused(d)
    <2>1. Lost(d) /\ call[d] = NoCall /\ UNCHANGED <<driver, order, call, lease>>
      BY Zenon, <1>2 DEF RenewRefused
    <2>2. OwnStep(d)
      BY ZenonT(30), <2>1, LostOwn DEF OwnStep, Timers, Calls
    <2>q. QED BY Zenon, <2>2, OwnStepKeeps
  <1>3. CASE GiveUp(d) \/ Resign(d) \/ ResignError(d)
    <2>1. /\ call[d] = NoCall /\ phase' = [phase EXCEPT ![d] = "done"]
          /\ lease' = lease \/ lease' = Resigned(d)
          /\ UNCHANGED <<driver, order, since, term, call, misled>>
      BY Zenon, <1>3 DEF GiveUp, Resign, ResignError
    <2>2. lease'.left \in -Lease..Lease
      <3>1. lease'.left \in {lease.left, 0}
        BY <2>1 DEF Resigned, Free
      <3>2. 0 \in -Lease..Lease /\ lease.left \in -Lease..Lease
        BY PipelineAssumption DEF Timers
      <3>q. QED BY Zenon, <3>1, <3>2
    <2>3. phase'[d] = "done" /\ \A c \in Claims \ {d} : phase'[c] = phase[c]
      BY Zenon, <2>1 DEF Parts
    <2>4. OwnStep(d)
      BY Zenon, <2>1, <2>2, <2>3 DEF OwnStep, Moves, Timers, Calls
    <2>q. QED BY Zenon, <2>4, OwnStepKeeps
  <1>4. CASE Return(d)
    <2>1. /\ phase[d] \in Handling /\ phase' = [phase EXCEPT ![d] = "releasing"]
          /\ Stopped(d) /\ UNCHANGED <<driver, order, call, lease>>
      BY Zenon, <1>4 DEF Return
    <2>2. phase'[d] = "releasing" /\ \A c \in Claims \ {d} : phase'[c] = phase[c]
      BY Zenon, <2>1 DEF Parts
    <2>3. 0 \in 0..renewEvery /\ 0 <= Lease
      BY Interval, PipelineAssumption
    <2>4. /\ since' \in [Claims -> 0..renewEvery] /\ term'[d] = 0
          /\ misled' \subseteq misled
          /\ \A c \in Claims \ {d} : term'[c] = term[c]
      BY ZenonT(30), <2>1, <2>3 DEF Stopped, Timers, Parts
    <2>5. phase[d] \in Engaged /\ "releasing" \in Engaged
      BY Zenon, <2>1 DEF Engaged
    <2>6. OwnStep(d)
      BY ZenonT(30), <2>1, <2>2, <2>3, <2>4, <2>5 DEF OwnStep, Moves, Timers, Calls
    <2>q. QED BY Zenon, <2>6, OwnStepKeeps
  <1>q. QED BY ZenonT(30), <1>1, <1>2, <1>3, <1>4

\* A crash ends every claim of its pool; a pause changes none (Crash, Stall,
\* Wake).
LEMMA PoolClaims ==
  ASSUME ClaimsInv, NEW p \in Pools, Crash(p) \/ Stall(p) \/ Wake(p)
  PROVE  Fetched' /\ Timers' /\ Calls'
  <1> USE DEF ClaimsInv
  <1>1. CASE Crash(p)
    <2>1. /\ phase' = [c \in Claims |-> IF PoolOf[c] = p THEN "done" ELSE phase[c]]
          /\ call' = [c \in Claims |-> IF PoolOf[c] = p THEN NoCall ELSE call[c]]
          /\ since' = [c \in Claims |-> IF PoolOf[c] = p THEN 0 ELSE since[c]]
          /\ term' = [c \in Claims |-> IF PoolOf[c] = p THEN 0 ELSE term[c]]
          /\ misled' \subseteq misled
          /\ UNCHANGED <<driver, order, lease>>
      BY Zenon, <1>1 DEF Crash
    <2>2. 0 \in 0..renewEvery /\ 0 <= Lease /\ NoCall.age = 0 /\ NoCall.next = "none"
      BY Interval, PipelineAssumption DEF NoCall
    <2>3. Fetched'
      BY ZenonT(30), <2>1, FetchedKept DEF Moves
    <2>4. Timers'
      BY Zenon, <2>1, <2>2 DEF Timers
    <2>5. Calls'
      BY Zenon, <2>1, <2>2 DEF Calls
    <2>q. QED BY ZenonT(30), <2>3, <2>4, <2>5
  <1>2. CASE Stall(p) \/ Wake(p)
    BY Zenon, <1>2 DEF Stall, Wake, Fetched, Timers, Calls
  <1>q. QED BY Zenon, <1>1, <1>2

\* The clock moves no timer past its bound (Tick).
LEMMA TickClaims ==
  ASSUME ClaimsInv, Tick
  PROVE  Fetched' /\ Timers' /\ Calls'
  <1> USE DEF ClaimsInv
  <1>1. /\ lease' = [lease EXCEPT !.left = IF lease.left > Overdue THEN lease.left - 1
                                          ELSE lease.left]
        /\ since' = [c \in Claims |-> IF phase[c] = "running"
                                      THEN AtMost(since[c] + 1, renewEvery) ELSE since[c]]
        /\ term' = [c \in Claims |-> IF phase[c] = "running"
                                     THEN AtMost(term[c] + 1, Lease) ELSE term[c]]
        /\ call' = [c \in Claims |-> IF call[c] = NoCall THEN NoCall
                                     ELSE [call[c] EXCEPT !.age = AtMost(@ + 1, Lease)]]
        /\ UNCHANGED <<driver, order, phase, misled>>
    BY Zenon DEF Tick
  <1>2. Lease \in Nat /\ renewEvery \in Nat
    BY ZenonT(30), Interval, PipelineAssumption
  <1>3. ASSUME NEW n \in Nat
        PROVE  AtMost(n + 1, Lease) \in 0..Lease /\ AtMost(n + 1, renewEvery) \in 0..renewEvery
    BY <1>2 DEF AtMost
  <1>4. since' \in [Claims -> 0..renewEvery]
    <2>1. \A c \in Claims : since[c] \in Nat /\ since[c] \in 0..renewEvery
      BY <1>2 DEF Timers
    <2>2. \A c \in Claims : AtMost(since[c] + 1, renewEvery) \in 0..renewEvery
      BY ZenonT(30), <1>3, <2>1
    <2>q. QED BY ZenonT(30), <1>1, <2>1, <2>2
  <1>5. ASSUME NEW c \in Claims
        PROVE  term'[c] <= Lease
    <2>1. term[c] \in Nat /\ term[c] <= Lease
      BY Zenon DEF Parts, Timers
    <2>2. AtMost(term[c] + 1, Lease) <= Lease
      BY <1>2, <1>3, <2>1
    <2>q. QED BY ZenonT(30), <1>1, <2>1, <2>2
  <1>6. ASSUME NEW c \in Claims
        PROVE  call'[c].age <= Lease /\ call'[c].next = call[c].next
               /\ (call'[c] # NoCall => call[c] # NoCall)
    <2>1. CASE call[c] = NoCall
      <3>1. NoCall.age <= Lease
        BY <1>2 DEF NoCall
      <3>q. QED BY ZenonT(30), <1>1, <2>1, <3>1
    <2>2. CASE call[c] # NoCall
      <3>1. call[c] \in [next : Accesses, age : Nat]
        BY Zenon, <2>2 DEF Parts
      <3>2. PICK n : n = AtMost(call[c].age + 1, Lease)
        BY Zenon
      <3>3. n <= Lease
        BY <1>2, <1>3, <3>1, <3>2
      <3>4. call'[c] = [call[c] EXCEPT !.age = n]
        BY ZenonT(30), <1>1, <2>2, <3>2
      <3>5. call'[c].age = n /\ call'[c].next = call[c].next
        BY ZenonT(30), <3>1, <3>4
      <3>q. QED BY ZenonT(30), <2>2, <3>3, <3>5
    <2>q. QED BY ZenonT(30), <2>1, <2>2
  <1>7. lease'.left \in -Lease..Lease
    <2>1. lease'.left = IF lease.left > Overdue THEN lease.left - 1 ELSE lease.left
      BY Zenon, <1>1 DEF Parts
    <2>2. lease.left \in -Lease..Lease /\ Overdue \in Int /\ Overdue >= -Lease
      BY <1>2 DEF Timers, Overdue
    <2>q. QED BY <1>2, <2>1, <2>2
  <1>8. Fetched'
    BY ZenonT(30), <1>1, FetchedKept DEF Moves
  <1>9. Timers'
    BY ZenonT(30), <1>4, <1>5, <1>6, <1>7 DEF Timers
  <1>10. Calls'
    BY Zenon, <1>1, <1>6 DEF Calls
  <1>q. QED BY ZenonT(30), <1>8, <1>9, <1>10

\* Every step preserves the state of the claims.
LEMMA NextClaims ==
  ASSUME Turns, Fetched, Timers, Calls, [Next]_vars
  PROVE  Fetched' /\ Timers' /\ Calls'
  <1>1. ClaimsInv
    BY Zenon DEF ClaimsInv, Turns
  <1>2. CASE Tick
    BY ZenonT(30), <1>1, <1>2, TickClaims
  <1>3. ASSUME NEW c \in Claims,
               Claim(c) \/ Poll(c) \/ Renew(c) \/ RenewRefused(c) \/ Answer(c)
                 \/ CallError(c) \/ ExpireError(c) \/ GiveUp(c) \/ Return(c)
                 \/ Await(c) \/ Resign(c) \/ ResignError(c)
        PROVE  Fetched' /\ Timers' /\ Calls'
    <2>1. CASE Poll(c) \/ Renew(c)
      <3>1. Call(c) /\ phase[c] \in Engaged
        BY Zenon, <2>1 DEF Poll, Renew, RenewalDue, Engaged, Handling
      <3>q. QED BY ZenonT(30), <1>1, <3>1, CallClaims
    <2>q. QED BY ZenonT(30), <1>1, <1>3, <2>1, AnswerClaims, OtherClaims
  <1>4. ASSUME NEW p \in Pools, Crash(p) \/ Stall(p) \/ Wake(p)
        PROVE  Fetched' /\ Timers' /\ Calls'
    BY ZenonT(30), <1>1, <1>4, PoolClaims
  <1>5. CASE UNCHANGED vars
    BY Zenon, <1>5 DEF vars, Fetched, Timers, Calls
  <1>q. QED BY ZenonT(30), <1>2, <1>3, <1>4, <1>5 DEF Next

\* The claims start in that state (newWorkerPool: nothing is fetched).
LEMMA InitClaims == Init => Fetched /\ Timers /\ Calls
  <1> SUFFICES ASSUME Init
               PROVE  Fetched /\ Timers /\ Calls
    BY Zenon
  <1>1. /\ driver \in Drivers /\ order = [p \in Pools |-> << >>]
        /\ phase = [c \in Claims |-> "new"] /\ since = [c \in Claims |-> 0]
        /\ term = [c \in Claims |-> 0] /\ call = [c \in Claims |-> NoCall]
        /\ lease = Free /\ misled = {}
    BY Zenon DEF Init
  <1>2. << >> \in Seq(Claims) /\ IsInjective(<< >>) /\ Range(<< >>) = {}
    BY DEF IsInjective, Range
  <1>3. \A c \in Claims : PoolOf[c] \in Pools
    BY Zenon DEF Pools
  <1>4. Fetched
    BY ZenonT(30), <1>1, <1>2, <1>3 DEF Fetched, Engaged, Handling
  <1>5. 0 \in 0..renewEvery /\ 0 <= Lease /\ 0 \in -Lease..Lease
    BY Interval, PipelineAssumption
  <1>6. Timers
    BY Zenon, <1>1, <1>5 DEF Timers, NoCall, Free
  <1>7. Calls
    BY Zenon, <1>1 DEF Calls, NoCall
  <1>q. QED BY ZenonT(30), <1>4, <1>6, <1>7

\* The claims keep their state: each is fetched once and before it handles, no
\* timer outgrows the lease, and only Redis and Cassandra confirm a renewal
\* they did not write (acquireDistributedPipeline, leaderAttemptElect).
THEOREM ClaimsWellFormed == Spec => []TypeOK
  <1>1. Turns /\ Fetched /\ Timers /\ Calls => TypeOK
    <2> SUFFICES ASSUME Turns, Fetched, Timers, Calls
                 PROVE  TypeOK
      BY Zenon
    <2>1. \A p \in Pools : IsInjective(order[p]) /\ Range(order[p]) \subseteq Claims
      BY DEF Fetched, Range
    <2>2. ASSUME NEW c \in Claims
          PROVE  /\ phase[c] \in Handling \cup {"new", "polling", "releasing", "done"}
                 /\ since[c] \in 0..renewEvery /\ term[c] \in 0..Lease
                 /\ phase[c] \in Handling => c \in Range(order[PoolOf[c]])
                 /\ call[c].next \in {"none", "take", "insert", "expire", "extend"}
                 /\ call[c] # NoCall => phase[c] \in Handling \cup {"polling", "releasing"}
      <3>1. term[c] \in 0..Lease
        BY PipelineAssumption DEF Turns, Parts, Timers
      <3>2. call[c].next \in Accesses \cup {"none"}
        BY DEF Turns, Parts, NoCall
      <3>q. QED BY Zenon, <3>1, <3>2 DEF Turns, Parts, Timers, Fetched, Calls, Engaged, Accesses
    <2>3. lease.owner \in Claims \cup {NoOwner} /\ lease.left \in -Lease..Lease
      BY Zenon DEF Turns, Parts, Timers
    <2>q. QED BY ZenonT(30), <2>1, <2>2, <2>3 DEF TypeOK, Calls
  <1>q. QED BY <1>1, InitTurns, NextTurns, InitClaims, NextClaims, PTL DEF Spec
=============================================================================
