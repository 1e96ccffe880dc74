----------------------------- MODULE PoolProofs -----------------------------
(***************************************************************************)
(* What one worker pool keeps, for every number of slots, jobs, queues,    *)
(* rules and limits: the limits hold, the jobs of a pipeline take turns    *)
(* and nothing leaks; Shutdown returns when the pool is drained.  The      *)
(* invariant and the steps of the goroutines are in PoolStepProofs.        *)
(***************************************************************************)
EXTENDS PoolStepProofs, FiniteSetTheorems, WellFoundedInduction

-----------------------------------------------------------------------------
(* There are finitely many slots.                                          *)

\* Sets of slots are counted by their cardinality.
LEMMA SlotsCount == SlotCounts
<1>1. Cardinality({}) = 0
  BY Zenon, FS_EmptySet
<1>2. ASSUME NEW A \in SUBSET Slots
      PROVE  /\ Cardinality(A) \in Nat
             /\ Cardinality(A) = 0 => A = {}
             /\ Cardinality(A) = 1 => \E s : A = {s}
             /\ \A s \in Slots \ A : Cardinality(A \cup {s}) = Cardinality(A) + 1
             /\ \A s \in A : Cardinality(A \ {s}) = Cardinality(A) - 1
             /\ \A B \in SUBSET A : Cardinality(B) <= Cardinality(A)
  <2>1. IsFiniteSet(A)
    BY Zenon, FS_Subset, WorkerPoolAssumption
  <2>2. Cardinality(A) \in Nat
    BY Zenon, <2>1, FS_CardinalityType
  <2>3. Cardinality(A) = 0 => A = {}
    BY Zenon, <2>1, FS_EmptySet
  <2>4. Cardinality(A) = 1 => \E s : A = {s}
    BY Zenon, <2>1, FS_Singleton
  <2>5. \A s \in Slots \ A : Cardinality(A \cup {s}) = Cardinality(A) + 1
    BY Zenon, <2>1, FS_AddElement
  <2>6. \A s \in A : Cardinality(A \ {s}) = Cardinality(A) - 1
    BY Zenon, <2>1, FS_RemoveElement
  <2>7. \A B \in SUBSET A : Cardinality(B) <= Cardinality(A)
    BY Zenon, <2>1, FS_Subset
  <2> QED
    BY ZenonT(30), <2>2, <2>3, <2>4, <2>5, <2>6, <2>7
<1> QED
  BY Zenon, <1>1, <1>2 DEF SlotCounts

-----------------------------------------------------------------------------
(* Leaving the chain of a pipeline.                                        *)

\* Of several goroutines, one was claimed first.
LEMMA HasFirst ==
  ASSUME NEW rank \in [Slots -> Nat], NEW M \in SUBSET Slots, M # {}
  PROVE  \E m \in M : \A t \in M : ~(rank[t] < rank[m])
<1>1. PICK S : S = {rank[t] : t \in M}
  BY Zenon
<1>2. S \in SUBSET Nat /\ S # {}
  BY Zenon, <1>1
<1>3. PICK R : R = {ss \in Nat \X Nat : ss[1] < ss[2]}
  BY Zenon
<1>4. IsWellFoundedOn(R, Nat)
  BY Zenon, <1>3, NatLessThanWellFounded DEF OpToRel
<1>5. PICK n \in S : \A i \in S : ~(<<i, n>> \in R)
  BY Zenon, <1>2, <1>4, WFMin
<1>6. \A i \in S : ~(i < n)
  BY Zenon, <1>2, <1>3, <1>5
<1>7. PICK m \in M : n = rank[m]
  BY Zenon, <1>1, <1>5
<1> QED
  BY Zenon, <1>1, <1>6, <1>7

\* In a pipeline that nobody has left early, the tail is the only one in the
\* chain when it is nobody's successor: the first of the others would wait
\* for it, and nobody waits for the tail.
LEMMA LoneTail ==
  ASSUME GorOK, ChainInv, NEW l \in Pipelines \ broken, NEW s \in Slots, tails[l] = s,
         gor[s].after = None, NEW t \in Slots, InChain(gor[t], l)
  PROVE  t = s
<1>1. SUFFICES ASSUME t # s PROVE FALSE
  BY Zenon
<1>2. PICK M : M = {x \in Slots : x # s /\ InChain(gor[x], l)}
  BY Zenon
<1>3. M \in SUBSET Slots /\ M # {}
  BY Zenon, <1>1, <1>2
<1>4. PICK rank \in [Slots -> Nat] :
        \A x \in Slots : gor[x] # Idle /\ gor[x].after # None => rank[gor[x].after] < rank[x]
  BY Zenon DEF ChainInv, RankInv
<1>5. PICK m \in M : \A x \in M : ~(rank[x] < rank[m])
  BY Zenon, <1>3, <1>4, HasFirst
<1>6. m \in Slots /\ m # s /\ InChain(gor[m], l) /\ gor[m] # Idle /\ JobOf[gor[m].job].pipeline = l
  BY Zenon, <1>2, <1>5 DEF InChain
<1>7. None \notin Slots
  BY Zenon, WorkerPoolAssumption
<1>8. InChain(gor[s], l) /\ \A x \in Slots : gor[x] # Idle => gor[x].after # s
  BY Zenon, <1>7 DEF ChainInv, TailInv
<1>9. gor[m].after # None
  BY Zenon, <1>6, <1>8 DEF ChainInv, TurnInv
<1>10. gor[m].after \in Slots /\ InChain(gor[gor[m].after], l)
  BY Zenon, <1>6, <1>9, AfterIsSlot DEF ChainInv, AfterInv
<1>11. gor[m].after # s
  BY Zenon, <1>6, <1>8
<1>12. gor[m].after \in M
  BY Zenon, <1>2, <1>10, <1>11
<1> QED
  BY ZenonT(30), <1>4, <1>5, <1>6, <1>9, <1>12

\* The done channel of slot s is closed: whoever waited for it is ready.
Closes(s) ==
  /\ \A t \in Slots :
       /\ gor'[t] # Idle => gor[t] # Idle
       /\ gor[t] # Idle =>
            /\ gor'[t] # Idle /\ gor'[t].job = gor[t].job /\ gor'[t].stage = gor[t].stage
            /\ gor'[t].after = IF t # s /\ gor[t].after = s THEN None ELSE gor[t].after
       /\ \A l : InChain(gor'[t], l) <=> InChain(gor[t], l) /\ t # s
  /\ tails' = [l \in Pipelines |-> IF tails[l] = s THEN None ELSE tails[l]]
  /\ broken' = broken

\* The chains keep their shape when the first of one leaves it.
LEMMA ChainShrinks ==
  ASSUME GorOK, ChainInv, NEW s \in Slots, gor[s] # Idle, gor[s].stage = "closing", Closes(s)
  PROVE  ChainInv'
<1>1. None \notin Slots
  BY Zenon, WorkerPoolAssumption
<1>2. PICK rank \in [Slots -> Nat] :
        \A x \in Slots : gor[x] # Idle /\ gor[x].after # None => rank[gor[x].after] < rank[x]
  BY Zenon DEF ChainInv, RankInv
<1>3. gor[s].after # s
  BY <1>1, <1>2
<1>4. ASSUME NEW t \in Slots, gor'[t] # Idle
      PROVE  /\ gor[t] # Idle /\ gor'[t].job = gor[t].job /\ gor'[t].stage = gor[t].stage
             /\ gor[t].after = s => gor'[t].after = None
             /\ gor[t].after # s => gor'[t].after = gor[t].after
  BY Zenon, <1>3, <1>4 DEF Closes
<1>5. ASSUME NEW t \in Slots, NEW l
      PROVE  InChain(gor'[t], l) <=> InChain(gor[t], l) /\ t # s
  BY Zenon DEF Closes
<1>6. AfterInv'
  <2>1. SUFFICES ASSUME NEW t \in Slots, gor'[t] # Idle, gor'[t].after # None
                 PROVE  /\ JobOf[gor'[t].job].pipeline \in Pipelines
                        /\ InChain(gor'[gor'[t].after], JobOf[gor'[t].job].pipeline)
    BY Zenon DEF AfterInv
  <2>2. gor[t] # Idle /\ gor'[t].job = gor[t].job /\ gor'[t].after = gor[t].after /\ gor[t].after # s
    BY Zenon, <1>4, <2>1
  <2>3. gor[t].after \in Slots
    BY Zenon, <2>1, <2>2, AfterIsSlot
  <2>4. /\ JobOf[gor[t].job].pipeline \in Pipelines
        /\ InChain(gor[gor[t].after], JobOf[gor[t].job].pipeline)
    BY Zenon, <2>1, <2>2 DEF ChainInv, AfterInv
  <2> QED
    BY Zenon, <1>5, <2>2, <2>3, <2>4
<1>7. ForkInv'
  BY <1>4 DEF ForkInv, ChainInv
<1>8. TailInv'
  <2>1. tails' \in [Pipelines -> Slots \cup {None}]
    BY Zenon DEF Closes, ChainInv, TailInv
  <2>2. ASSUME NEW l \in Pipelines, tails'[l] # None
        PROVE  /\ InChain(gor'[tails'[l]], l)
               /\ \A t \in Slots : gor'[t] # Idle => gor'[t].after # tails'[l]
    <3>1. tails'[l] = tails[l] /\ tails[l] # s
      BY Zenon, <2>2 DEF Closes
    <3>2. /\ tails[l] \in Slots /\ InChain(gor[tails[l]], l)
          /\ \A t \in Slots : gor[t] # Idle => gor[t].after # tails[l]
      BY Zenon, <2>2, <3>1 DEF ChainInv, TailInv
    <3>3. InChain(gor'[tails[l]], l)
      BY Zenon, <1>5, <3>1, <3>2
    <3>4. \A t \in Slots : gor'[t] # Idle => gor'[t].after # tails[l]
      BY <1>1, <1>4, <3>2
    <3> QED
      BY Zenon, <3>1, <3>3, <3>4
  <2> QED
    BY Zenon, <2>1, <2>2 DEF TailInv
<1>9. RankInv'
  <2>1. \A t \in Slots : gor'[t] # Idle /\ gor'[t].after # None => rank[gor'[t].after] < rank[t]
    BY Zenon, <1>2, <1>4
  <2> QED
    BY Zenon, <2>1 DEF RankInv
<1>10. TurnInv'
  <2>1. SUFFICES ASSUME NEW l \in Pipelines \ broken
                 PROVE  /\ \A t \in Slots :
                             /\ gor'[t] # Idle /\ JobOf[gor'[t].job].pipeline = l
                             /\ gor'[t].stage # "pipeline"
                             => gor'[t].after = None
                        /\ \A x, t \in Slots :
                             /\ InChain(gor'[x], l) /\ InChain(gor'[t], l)
                             /\ gor'[x].after = None /\ gor'[t].after = None
                             => x = t
                        /\ \A t \in Slots : InChain(gor'[t], l) => tails'[l] # None
    BY Zenon DEF TurnInv, Closes
  <2>2. InChain(gor[s], l) => gor[s].after = None
    BY Zenon DEF ChainInv, TurnInv, InChain
  <2>3. ASSUME NEW t \in Slots, gor'[t] # Idle, JobOf[gor'[t].job].pipeline = l,
               gor'[t].stage # "pipeline"
        PROVE  gor'[t].after = None
    <3>1. gor[t] # Idle /\ JobOf[gor[t].job].pipeline = l /\ gor[t].stage # "pipeline"
      BY Zenon, <1>4, <2>3
    <3>2. gor[t].after = None
      BY Zenon, <3>1 DEF ChainInv, TurnInv
    <3> QED
      BY ZenonT(30), <1>1, <1>4, <2>3, <3>2
  <2>4. ASSUME NEW t \in Slots, InChain(gor'[t], l), gor'[t].after = None
        PROVE  /\ gor[t] # Idle /\ InChain(gor[t], l) /\ t # s
               /\ gor[t].after = None \/ (gor[t].after = s /\ InChain(gor[s], l))
    <3>1. InChain(gor[t], l) /\ t # s /\ gor[t] # Idle /\ gor'[t] # Idle /\ JobOf[gor[t].job].pipeline = l
      BY ZenonT(30), <1>4, <1>5, <2>4 DEF InChain
    <3>2. gor[t].after = s => InChain(gor[s], l)
      BY Zenon, <1>1, <3>1 DEF ChainInv, AfterInv
    <3>3. gor[t].after = None \/ gor[t].after = s
      BY ZenonT(30), <1>4, <2>4, <3>1
    <3> QED
      BY ZenonT(30), <3>1, <3>2, <3>3
  <2>5. ASSUME NEW x \in Slots, NEW t \in Slots,
               InChain(gor'[x], l), InChain(gor'[t], l),
               gor'[x].after = None, gor'[t].after = None
        PROVE  x = t
    <3>1. \A y, z \in Slots : /\ InChain(gor[y], l) /\ InChain(gor[z], l)
                              /\ gor[y].after = None /\ gor[z].after = None
                              => y = z
      BY Zenon DEF ChainInv, TurnInv
    <3>2. CASE gor[x].after = s /\ gor[t].after = s
      BY <1>1, <2>4, <2>5, <3>2 DEF ChainInv, ForkInv
    <3>3. CASE gor[x].after = None /\ gor[t].after = None
      BY Zenon, <2>4, <2>5, <3>1, <3>3
    <3>4. CASE gor[x].after = None /\ gor[t].after = s
      BY Zenon, <1>1, <2>2, <2>4, <2>5, <3>1, <3>4
    <3>5. CASE gor[x].after = s /\ gor[t].after = None
      BY Zenon, <1>1, <2>2, <2>4, <2>5, <3>1, <3>5
    <3> QED
      BY ZenonT(30), <2>4, <2>5, <3>2, <3>3, <3>4, <3>5
  <2>6. ASSUME NEW t \in Slots, InChain(gor'[t], l)
        PROVE  tails'[l] # None
    <3>1. InChain(gor[t], l) /\ t # s
      BY Zenon, <1>5, <2>6
    <3>2. tails[l] # None
      BY Zenon, <3>1 DEF ChainInv, TurnInv
    <3>3. tails[l] # s
      <4>1. SUFFICES ASSUME tails[l] = s PROVE FALSE
        BY Zenon
      <4>2. InChain(gor[s], l)
        BY Zenon, <1>1, <4>1 DEF ChainInv, TailInv
      <4> QED
        BY ZenonT(30), <2>2, <3>1, <4>1, <4>2, LoneTail
    <3> QED
      BY Zenon, <3>2, <3>3 DEF Closes
  <2> QED
    BY Zenon, <2>3, <2>5, <2>6
<1> QED
  BY ZenonT(30), <1>6, <1>7, <1>8, <1>9, <1>10 DEF ChainInv

\* releasePipeline closes the done channel and forgets the tail if it is this
\* goroutine's.
LEMMA ReleasePipeline ==
  ASSUME PoolInv, NEW s \in Slots, Release(s), LastDefer(gor[s].defers) = "pipeline"
  PROVE  PoolInv'
<1> DEFINE f == gor[s]
           g == [gor[s] EXCEPT !.defers = gor[s].defers \ {"pipeline"},
                               !.keys = gor[s].keys, !.gate = gor[s].gate]
           ready(t) == [gor[t] EXCEPT !.after = None]
<1>1. GorOK /\ MiscOK /\ SemaphoreInv /\ RulesInv /\ CountInv /\ ChainInv
  BY Zenon DEF PoolInv
<1>2. f # Idle /\ f \in Goroutines /\ StageOK(f) /\ f.stage = "closing"
  BY Zenon, <1>1, StageIsBusy DEF Release, Stages
<1>3. gor' = [t \in Slots |-> IF t = s THEN g
                              ELSE IF gor[t] # Idle /\ gor[t].after = s THEN ready(t)
                              ELSE gor[t]]
  BY Zenon DEF Release
<1>4. g \in Goroutines /\ g # Idle
  BY Zenon, <1>2, GoroutineNotIdle DEF Goroutines
<1>5. /\ g.stage = f.stage /\ g.rules = f.rules /\ g.job = f.job
      /\ g.after = f.after /\ g.keys = f.keys /\ g.want = f.want
      /\ g.gate = f.gate /\ g.defers = f.defers \ {"pipeline"}
  BY Zenon, <1>2 DEF Goroutines
<1>6. ASSUME NEW t \in Slots, gor[t] # Idle
      PROVE  /\ ready(t) \in Goroutines /\ ready(t) # Idle
             /\ ready(t).stage = gor[t].stage /\ ready(t).rules = gor[t].rules
             /\ ready(t).job = gor[t].job /\ ready(t).after = None
             /\ ready(t).keys = gor[t].keys /\ ready(t).want = gor[t].want
             /\ ready(t).gate = gor[t].gate /\ ready(t).defers = gor[t].defers
  <2>1. gor[t] \in Goroutines
    BY Zenon, <1>1, <1>6 DEF GorOK
  <2>2. ready(t) \in Goroutines
    BY Zenon, <2>1 DEF Goroutines
  <2>3. ready(t) # Idle
    BY Zenon, <2>2, GoroutineNotIdle
  <2> QED
    BY Zenon, <2>1, <2>2, <2>3 DEF Goroutines
<1>7. \A t \in Slots : gor[t] # Idle => gor[t] \in Goroutines
  BY Zenon, <1>1 DEF GorOK
<1> HIDE DEF g, ready
<1>8. gor' \in [Slots -> {Idle} \cup Goroutines]
  BY ZenonT(30), <1>1, <1>3, <1>4, <1>6 DEF GorOK
<1>9. ASSUME NEW t \in Slots PROVE Alike(gor'[t], gor[t])
  <2>1. CASE t = s
    <3>1. gor'[t] = g
      BY Zenon, <1>3, <2>1
    <3> QED
      BY ZenonT(30), <1>2, <1>4, <1>5, <2>1, <3>1 DEF Alike
  <2>2. CASE t # s /\ gor[t] # Idle /\ gor[t].after = s
    <3>1. gor'[t] = ready(t)
      BY Zenon, <1>3, <2>2
    <3> QED
      BY ZenonT(30), <1>6, <2>2, <3>1 DEF Alike
  <2>3. CASE t # s /\ ~(gor[t] # Idle /\ gor[t].after = s)
    <3>1. gor'[t] = gor[t]
      BY Zenon, <1>3, <2>3
    <3> QED
      BY Zenon, <1>7, <3>1 DEF Alike
  <2> QED
    BY ZenonT(30), <2>1, <2>2, <2>3
<1>10. UNCHANGED <<policies, updates, active, keySemaphores, rateGates, broken>>
  BY Zenon DEF Release
<1>11. GorOK' /\ RulesInv' /\ SemaphoreInv' /\ CountInv'
  BY ZenonT(30), <1>1, <1>8, <1>9, <1>10, AlikeStep
<1>12. MiscOK'
  BY Zenon, <1>1, MiscKept DEF Release, MiscOK
<1>13. ASSUME NEW t \in Slots
       PROVE  /\ gor'[t] # Idle => gor[t] # Idle
              /\ gor[t] # Idle =>
                   /\ gor'[t] # Idle /\ gor'[t].job = gor[t].job /\ gor'[t].stage = gor[t].stage
                   /\ gor'[t].after = IF t # s /\ gor[t].after = s THEN None ELSE gor[t].after
              /\ \A l : InChain(gor'[t], l) <=> InChain(gor[t], l) /\ t # s
  <2>1. CASE t = s
    <3>1. gor'[t] = g
      BY Zenon, <1>3, <2>1
    <3> QED
      BY ZenonT(30), <1>2, <1>4, <1>5, <2>1, <3>1 DEF InChain
  <2>2. CASE t # s /\ gor[t] # Idle /\ gor[t].after = s
    <3>1. gor'[t] = ready(t)
      BY Zenon, <1>3, <2>2
    <3> QED
      BY ZenonT(30), <1>6, <2>2, <3>1 DEF InChain
  <2>3. CASE t # s /\ ~(gor[t] # Idle /\ gor[t].after = s)
    <3>1. gor'[t] = gor[t]
      BY Zenon, <1>3, <2>3
    <3> QED
      BY ZenonT(30), <2>3, <3>1
  <2> QED
    BY ZenonT(30), <2>1, <2>2, <2>3
<1>14. tails' = [l \in Pipelines |-> IF tails[l] = s THEN None ELSE tails[l]]
  BY Zenon DEF Release
<1>15. Closes(s)
  BY Zenon, <1>10, <1>13, <1>14 DEF Closes
<1>16. ChainInv'
  BY Zenon, <1>1, <1>2, <1>15, ChainShrinks
<1> QED
  BY ZenonT(30), <1>11, <1>12, <1>16 DEF PoolInv

\* A deferred call runs.
LEMMA ReleaseKeeps ==
  ASSUME PoolInv, NEW s \in Slots, Release(s)
  PROVE  PoolInv'
<1>1. GorOK
  BY Zenon DEF PoolInv
<1>2. gor[s] \in Goroutines /\ StageOK(gor[s])
  BY Zenon, <1>1, StageIsBusy DEF Release, Stages
<1>3. /\ "pending" \in gor[s].defers
      /\ gor[s].defers \in SUBSET {Defers[i] : i \in DOMAIN Defers}
  BY Zenon, <1>2 DEF StageOK, Goroutines
<1>4. LastDefer(gor[s].defers) \in {"pending", "queue", "pipeline", "keys", "gate", "kind", "sem"}
  BY Zenon, <1>3, LastDeferred, DeferNames
<1> QED
  BY ZenonT(30), <1>4, SlotsCount, ReleaseSemaphore, ReleaseQueue, ReleasePipeline, ReleasePending

-----------------------------------------------------------------------------
(* The fetch loop.                                                         *)

\* The schedule is finite and not empty, so the cursor has a place in it.
LEMMA ScheduleNotEmpty ==
  ASSUME policies \in [ConfiguredQueues -> Policies]
  PROVE  ScheduleLength \in Nat \ {0}
<1> DEFINE turns(i) == {i} \X (1..policies[QueueList[i]].weight)
<1>1. DOMAIN QueueList = 1..Len(QueueList) /\ Len(QueueList) \in Nat \ {0}
  BY WorkerPoolAssumption
<1>2. ASSUME NEW i \in DOMAIN QueueList
      PROVE  policies[QueueList[i]].weight \in Nat \ {0}
  <2>1. QueueList[i] \in ConfiguredQueues
    BY Zenon DEF ConfiguredQueues
  <2> QED
    BY Zenon, <2>1, WorkerPoolAssumption
<1>3. \A i \in DOMAIN QueueList : IsFiniteSet(turns(i))
  <2>1. SUFFICES ASSUME NEW i \in DOMAIN QueueList PROVE IsFiniteSet(turns(i))
    BY Zenon
  <2>2. IsFiniteSet({i}) /\ IsFiniteSet(1..policies[QueueList[i]].weight)
    <3>1. PICK w \in Nat : w = policies[QueueList[i]].weight
      BY Zenon, <1>2
    <3>2. IsFiniteSet(1..w)
      BY FS_Interval
    <3>3. IsFiniteSet({i})
      BY Zenon, FS_Singleton
    <3> QED
      BY Zenon, <3>1, <3>2, <3>3
  <2> QED
    BY Zenon, <2>2, FS_Product
<1>4. IsFiniteSet(DOMAIN QueueList)
  BY <1>1, FS_Interval
<1>5. PICK T : T = {turns(i) : i \in DOMAIN QueueList}
  BY Zenon
<1>6. IsFiniteSet(T)
  <2>1. PICK F : F = [i \in DOMAIN QueueList |-> turns(i)]
    BY Zenon
  <2>2. F \in [DOMAIN QueueList -> T] /\ \A x \in T : \E i \in DOMAIN QueueList : F[i] = x
    BY Zenon, <1>5, <2>1
  <2>3. F \in Surjection(DOMAIN QueueList, T)
    BY Zenon, <2>2 DEF Surjection
  <2> QED
    BY Zenon, <1>4, <2>3, FS_Surjection
<1>7. \A x \in T : IsFiniteSet(x)
  BY Zenon, <1>3, <1>5
<1>8. Turns = UNION T
  BY Zenon, <1>5 DEF Turns
<1>9. IsFiniteSet(Turns)
  BY Zenon, <1>6, <1>7, <1>8, FS_UNION
<1>10. Turns # {}
  <2>1. 1 \in DOMAIN QueueList
    BY <1>1
  <2>2. 1 \in 1..policies[QueueList[1]].weight
    BY <1>2, <2>1
  <2>3. <<1, 1>> \in turns(1)
    BY Zenon, <2>2
  <2> QED
    BY ZenonT(30), <1>5, <1>8, <2>1, <2>3
<1> QED
  BY ZenonT(30), <1>9, <1>10, FS_CardinalityType, FS_EmptySet DEF ScheduleLength

\* Nobody waits for an empty slot, and it is no tail.
LEMMA EmptySlot ==
  ASSUME GorOK, ChainInv, NEW s \in Slots, gor[s] = Idle
  PROVE  /\ \A l : ~InChain(gor[s], l)
         /\ \A t \in Slots : gor[t] # Idle => gor[t].after # s
         /\ \A l \in Pipelines : tails[l] # s
<1>1. \A l : ~InChain(gor[s], l)
  BY Zenon DEF InChain
<1>2. None \notin Slots
  BY Zenon, WorkerPoolAssumption
<1>3. \A t \in Slots : gor[t] # Idle => gor[t].after # s
  BY Zenon, <1>1, <1>2 DEF ChainInv, AfterInv
<1>4. \A l \in Pipelines : tails[l] # s
  BY Zenon, <1>1, <1>2 DEF ChainInv, TailInv
<1> QED
  BY Zenon, <1>1, <1>3, <1>4

\* pipelineGate: the new goroutine in slot s waits for the tail of its
\* pipeline l and becomes the tail; without a pipeline it waits for nobody.
LEMMA ChainGrows ==
  ASSUME GorOK, ChainInv, NEW s \in Slots, gor[s] = Idle, NEW g, SlotStep(s, g), g # Idle,
         NEW l, JobOf[g.job].pipeline = l, l \in Pipelines \cup {NoPipeline},
         g.stage = "pipeline", "pipeline" \in g.defers,
         g.after = IF l = NoPipeline THEN None ELSE tails[l],
         tails' = pipelineGate(l, s), broken' = broken
  PROVE  ChainInv'
<1>1. None \notin Slots /\ NoPipeline \notin Pipelines
  BY Zenon, WorkerPoolAssumption DEF Pipelines
<1>2. /\ \A x : ~InChain(gor[s], x)
      /\ \A t \in Slots : gor[t] # Idle => gor[t].after # s
      /\ \A x \in Pipelines : tails[x] # s
  BY Zenon, EmptySlot
<1>3. \A t \in Slots : gor'[t] = IF t = s THEN g ELSE gor[t]
  BY Zenon, SlotStepOthers
<1>4. InChain(g, l) /\ \A x : x # l => ~InChain(g, x)
  BY Zenon DEF InChain
<1>5. \A t \in Slots : \A x : InChain(gor[t], x) => InChain(gor'[t], x)
  BY Zenon, <1>2, <1>3
<1>6. tails \in [Pipelines -> Slots \cup {None}]
  BY Zenon DEF ChainInv, TailInv
<1>7. g.after # None => /\ l \in Pipelines /\ g.after = tails[l] /\ g.after \in Slots
                        /\ g.after # s /\ InChain(gor[g.after], l)
                        /\ \A t \in Slots : gor[t] # Idle => gor[t].after # g.after
  BY Zenon, <1>2, <1>6 DEF ChainInv, TailInv
<1>8. /\ \A x \in Pipelines : x # l => tails'[x] = tails[x]
      /\ l \in Pipelines => tails'[l] = s
      /\ tails' \in [Pipelines -> Slots \cup {None}]
  BY Zenon, <1>1, <1>6 DEF pipelineGate
<1>9. AfterInv'
  <2>1. SUFFICES ASSUME NEW t \in Slots, gor'[t] # Idle, gor'[t].after # None
                 PROVE  /\ JobOf[gor'[t].job].pipeline \in Pipelines
                        /\ InChain(gor'[gor'[t].after], JobOf[gor'[t].job].pipeline)
    BY Zenon DEF AfterInv
  <2>2. CASE t = s
    <3>1. gor'[t] = g
      BY Zenon, <1>3, <2>2
    <3> QED
      BY Zenon, <1>5, <1>7, <2>1, <3>1
  <2>3. CASE t # s
    <3>1. gor'[t] = gor[t]
      BY Zenon, <1>3, <2>3
    <3>2. /\ JobOf[gor[t].job].pipeline \in Pipelines
          /\ InChain(gor[gor[t].after], JobOf[gor[t].job].pipeline)
      BY Zenon, <2>1, <3>1 DEF ChainInv, AfterInv
    <3>3. gor[t].after \in Slots
      BY Zenon, <2>1, <3>1, AfterIsSlot
    <3> QED
      BY Zenon, <1>5, <3>1, <3>2, <3>3
  <2> QED
    BY Zenon, <2>2, <2>3
<1>10. ForkInv'
  <2>1. SUFFICES ASSUME NEW x \in Slots, NEW t \in Slots, gor'[x] # Idle, gor'[t] # Idle,
                        gor'[x].after # None, gor'[x].after = gor'[t].after
                 PROVE  x = t
    BY Zenon DEF ForkInv
  <2>2. CASE x # s /\ t # s
    BY Zenon, <1>3, <2>1, <2>2 DEF ChainInv, ForkInv
  <2>3. CASE x = s /\ t # s
    BY Zenon, <1>3, <1>7, <2>1, <2>3
  <2>4. CASE x # s /\ t = s
    BY Zenon, <1>3, <1>7, <2>1, <2>4
  <2> QED
    BY Zenon, <2>2, <2>3, <2>4
<1>11. TailInv'
  <2>1. ASSUME NEW x \in Pipelines, tails'[x] # None
        PROVE  /\ InChain(gor'[tails'[x]], x)
               /\ \A t \in Slots : gor'[t] # Idle => gor'[t].after # tails'[x]
    <3>1. CASE x = l
      <4>1. tails'[x] = s /\ gor'[s] = g
        BY Zenon, <1>3, <1>8, <3>1
      <4>2. InChain(gor'[tails'[x]], x)
        BY Zenon, <1>4, <3>1, <4>1
      <4>3. \A t \in Slots : gor'[t] # Idle => gor'[t].after # s
        BY Zenon, <1>1, <1>2, <1>3, <1>7
      <4> QED
        BY Zenon, <4>1, <4>2, <4>3
    <3>2. CASE x # l
      <4>1. tails'[x] = tails[x] /\ tails[x] \in Slots
        BY Zenon, <1>6, <1>8, <2>1, <3>2
      <4>2. /\ InChain(gor[tails[x]], x)
            /\ \A t \in Slots : gor[t] # Idle => gor[t].after # tails[x]
        BY Zenon, <2>1, <4>1 DEF ChainInv, TailInv
      <4>3. InChain(gor'[tails[x]], x)
        BY Zenon, <1>5, <4>1, <4>2
      <4>4. g.after # tails[x]
        BY ZenonT(30), <1>1, <1>7, <3>2, <4>1, <4>2 DEF InChain
      <4>5. \A t \in Slots : gor'[t] # Idle => gor'[t].after # tails[x]
        BY Zenon, <1>3, <4>2, <4>4
      <4> QED
        BY Zenon, <4>1, <4>3, <4>5
    <3> QED
      BY Zenon, <3>1, <3>2
  <2> QED
    BY Zenon, <1>8, <2>1 DEF TailInv
<1>12. RankInv'
  <2>1. PICK rank \in [Slots -> Nat] :
          \A t \in Slots : gor[t] # Idle /\ gor[t].after # None => rank[gor[t].after] < rank[t]
    BY Zenon DEF ChainInv, RankInv
  <2>2. PICK n \in Nat : g.after # None => rank[g.after] < n
    <3>1. CASE g.after = None
      BY Zenon, <3>1
    <3>2. CASE g.after # None
      <4>1. rank[g.after] \in Nat
        BY Zenon, <1>7, <2>1, <3>2
      <4>2. rank[g.after] + 1 \in Nat /\ rank[g.after] < rank[g.after] + 1
        BY <4>1
      <4> QED
        BY Zenon, <4>2
    <3> QED
      BY Zenon, <3>1, <3>2
  <2>3. PICK new : new = [rank EXCEPT ![s] = n]
    BY Zenon
  <2>4. new \in [Slots -> Nat] /\ new[s] = n /\ \A t \in Slots : t # s => new[t] = rank[t]
    BY Zenon, <2>1, <2>2, <2>3
  <2>5. ASSUME NEW t \in Slots, gor'[t] # Idle, gor'[t].after # None
        PROVE  new[gor'[t].after] < new[t]
    <3>1. CASE t = s
      <4>1. gor'[t] = g
        BY Zenon, <1>3, <3>1
      <4>2. g.after \in Slots /\ g.after # s
        BY Zenon, <1>7, <2>5, <4>1
      <4> QED
        BY ZenonT(30), <2>2, <2>4, <2>5, <3>1, <4>1, <4>2
    <3>2. CASE t # s
      <4>1. gor'[t] = gor[t]
        BY Zenon, <1>3, <3>2
      <4>2. gor[t].after \in Slots /\ gor[t].after # s
        BY Zenon, <1>2, <2>5, <4>1, AfterIsSlot
      <4> QED
        BY ZenonT(30), <2>1, <2>4, <2>5, <3>2, <4>1, <4>2
    <3> QED
      BY Zenon, <3>1, <3>2
  <2> QED
    BY Zenon, <2>4, <2>5 DEF RankInv
<1>13. TurnInv'
  <2>1. SUFFICES ASSUME NEW x \in Pipelines \ broken
                 PROVE  /\ \A t \in Slots :
                             /\ gor'[t] # Idle /\ JobOf[gor'[t].job].pipeline = x
                             /\ gor'[t].stage # "pipeline"
                             => gor'[t].after = None
                        /\ \A y, t \in Slots :
                             /\ InChain(gor'[y], x) /\ InChain(gor'[t], x)
                             /\ gor'[y].after = None /\ gor'[t].after = None
                             => y = t
                        /\ \A t \in Slots : InChain(gor'[t], x) => tails'[x] # None
    BY Zenon DEF TurnInv
  <2>2. /\ \A t \in Slots :
             /\ gor[t] # Idle /\ JobOf[gor[t].job].pipeline = x /\ gor[t].stage # "pipeline"
             => gor[t].after = None
        /\ \A y, t \in Slots :
             /\ InChain(gor[y], x) /\ InChain(gor[t], x)
             /\ gor[y].after = None /\ gor[t].after = None
             => y = t
        /\ \A t \in Slots : InChain(gor[t], x) => tails[x] # None
    BY Zenon DEF ChainInv, TurnInv
  <2>3. \A t \in Slots : gor'[t] # Idle /\ JobOf[gor'[t].job].pipeline = x
                         /\ gor'[t].stage # "pipeline" => gor'[t].after = None
    BY Zenon, <1>3, <2>2
  <2>4. CASE x # l
    <3>1. \A t \in Slots : InChain(gor'[t], x) => t # s /\ gor'[t] = gor[t]
      BY Zenon, <1>3, <1>4, <2>4
    <3>2. tails'[x] = tails[x]
      BY Zenon, <1>8, <2>4
    <3> QED
      BY Zenon, <2>2, <2>3, <3>1, <3>2
  <2>5. CASE x = l
    <3>1. tails'[x] # None /\ l # NoPipeline
      BY Zenon, <1>1, <1>8, <2>5
    <3>2. ASSUME NEW y \in Slots, NEW t \in Slots, InChain(gor'[y], x), InChain(gor'[t], x),
                 gor'[y].after = None, gor'[t].after = None
          PROVE  y = t
      <4>1. CASE g.after = None
        <5>1. \A z \in Slots : ~InChain(gor[z], x)
          BY ZenonT(30), <2>2, <2>5, <3>1, <4>1
        <5> QED
          BY Zenon, <1>3, <3>2, <5>1
      <4>2. CASE g.after # None
        <5>1. y # s /\ t # s
          BY Zenon, <1>3, <3>2, <4>2
        <5> QED
          BY ZenonT(30), <1>3, <2>2, <3>2, <5>1
      <4> QED
        BY Zenon, <4>1, <4>2
    <3> QED
      BY Zenon, <2>3, <3>1, <3>2
  <2> QED
    BY Zenon, <2>4, <2>5
<1> QED
  BY ZenonT(30), <1>9, <1>10, <1>11, <1>12, <1>13 DEF ChainInv

\* The cursor stays inside the schedule.
LEMMA CursorInSchedule ==
  ASSUME MiscOK, Advance, policies' = policies
  PROVE  cursor' \in 0..ScheduleLength' - 1
<1>1. ScheduleLength \in Nat \ {0}
  BY Zenon, ScheduleNotEmpty DEF MiscOK
<1>2. ScheduleLength' = ScheduleLength
  BY Zenon DEF ScheduleLength, Turns
<1>3. cursor \in Nat
  BY <1>1 DEF MiscOK
<1>4. ASSUME NEW n \in Nat, NEW m \in Nat \ {0} PROVE (n + 1) % m \in 0..m - 1
  BY SMT
<1>5. cursor' \in 0..ScheduleLength - 1
  BY Zenon, <1>1, <1>3, <1>4 DEF Advance
<1> QED
  BY Zenon, <1>2, <1>5

\* What a new goroutine is.
NewGoroutine(g, j) ==
  /\ g \in Goroutines /\ g.job = j /\ g.stage = "pipeline" /\ g.rules = << >>
  /\ g.keys = 0 /\ ~g.want /\ g.gate = None /\ g.defers = Base

\* A claim is counted in its queue, holds no semaphore and joins its chain.
LEMMA ClaimKeeps ==
  ASSUME PoolInv, MiscOK', NEW j \in JobIDs, NEW s \in Slots, gor[s] = Idle, NEW g,
         SlotStep(s, g), NewGoroutine(g, j), NEW l, l = JobOf[j].pipeline,
         g.after = IF l = NoPipeline THEN None ELSE tails[l],
         tails' = pipelineGate(l, s), NEW q, q = JobOf[j].queue, queueCanClaim(q),
         active' = [active EXCEPT ![q] = active[q] + 1],
         UNCHANGED <<policies, keySemaphores, rateGates, updates, broken>>
  PROVE  PoolInv'
<1>1. GorOK /\ MiscOK /\ SemaphoreInv /\ RulesInv /\ QueueInv /\ SemInv /\ KindInv /\ ChainInv
  BY Zenon DEF PoolInv, CountInv
<1>2. \A t \in Slots : gor'[t] = IF t = s THEN g ELSE gor[t]
  BY Zenon, <1>1, SlotStepOthers
<1>3. /\ g \in Goroutines /\ g # Idle /\ g.job = j /\ g.stage = "pipeline" /\ g.rules = << >>
      /\ g.keys = 0 /\ ~g.want /\ g.gate = None /\ g.defers = Base
  BY Zenon, GoroutineNotIdle DEF NewGoroutine
<1>4. StageOK(g)
  <2>1. Len(<< >>) = 0
    BY Zenon
  <2> QED
    BY <1>3, <2>1 DEF StageOK, Base, Admitted
<1>5. SameKeys(g, gor[s]) /\ SameGate(g, gor[s])
  <2>1. RefersKeys(g) = {} /\ HoldsKeys(g) = {}
    BY Zenon, <1>3, NoKeys
  <2> QED
    BY Zenon, <1>3, <2>1 DEF SameKeys, SameGate, RefersKeys, HoldsKeys, RefersGate, HoldsGate, Base
<1>6. SemaphoreInv'
  BY Zenon, <1>1, <1>5, SemaphoresUntouched
<1>7. GorOK'
  <2>1. gor' \in [Slots -> {Idle} \cup Goroutines]
    BY Zenon, <1>1, <1>3 DEF GorOK, SlotStep
  <2>2. \A t \in Slots : gor'[t] # Idle => StageOK(gor'[t])
    BY Zenon, <1>1, <1>2, <1>4 DEF GorOK
  <2> QED
    BY Zenon, <2>1, <2>2 DEF GorOK, StageOK, KindLimit
<1>8. RulesInv'
  <2>1. \A x : KeyRules(x)' = KeyRules(x)
    BY Zenon DEF KeyRules
  <2> QED
    BY Zenon, <1>1, <1>2, <1>3, <2>1 DEF RulesInv, Admitted
<1>9. SemInv' /\ KindInv'
  <2>1. SemHolders' = SemHolders
    BY <1>2, <1>3 DEF SemHolders, Base
  <2>2. ASSUME NEW kind PROVE KindHolders(kind)' = KindHolders(kind)
    BY <1>2, <1>3 DEF KindHolders, Base
  <2> QED
    BY Zenon, <1>1, <2>1, <2>2 DEF SemInv, KindInv
<1>10. QueueInv'
  <2>1. q \in ConfiguredQueues
    BY Zenon, WorkerPoolAssumption
  <2>2. s \notin QueueHolders(q) /\ QueueHolders(q)' = QueueHolders(q) \cup {s}
    BY <1>2, <1>3 DEF QueueHolders, Base
  <2>3. ASSUME NEW x, x # q PROVE QueueHolders(x)' = QueueHolders(x)
    BY Zenon, <1>2, <1>3, <2>3 DEF QueueHolders
  <2>4. QueueHolders(q) \subseteq Slots
    BY Zenon DEF QueueHolders
  <2>6. Cardinality(QueueHolders(q)') = Cardinality(QueueHolders(q)) + 1
    BY <2>2, <2>4, SlotsCount DEF SlotCounts
  <2>7. active[q] \in Nat /\ active[q] = Cardinality(QueueHolders(q))
    BY Zenon, <1>1, <2>1 DEF QueueInv
  <2>8. active' \in [ConfiguredQueues -> Nat]
    <3>1. PICK n \in Nat : n = active[q] + 1
      BY <2>7
    <3> QED
      BY Zenon, <1>1, <3>1 DEF QueueInv
  <2>9. ASSUME NEW x \in ConfiguredQueues
        PROVE  /\ active'[x] = Cardinality(QueueHolders(x)')
               /\ updates = 0 /\ policies[x].concurrency > 0 =>
                    active'[x] <= policies[x].concurrency
    <3>1. policies[x].concurrency \in Nat
      BY Zenon, <1>1, WorkerPoolAssumption DEF MiscOK
    <3>2. CASE x = q
      <4>1. active'[x] = active[q] + 1
        BY ZenonT(30), <1>1, <2>1, <3>2 DEF QueueInv
      <4>2. policies[x].concurrency > 0 => active[q] < policies[x].concurrency
        BY Zenon, <3>2 DEF queueCanClaim
      <4>3. active'[x] = Cardinality(QueueHolders(x)')
        BY ZenonT(30), <2>6, <2>7, <3>2, <4>1
      <4> QED
        BY <2>7, <3>1, <4>1, <4>2, <4>3
    <3>3. CASE x # q
      <4>1. active'[x] = active[x] /\ active[x] = Cardinality(QueueHolders(x))
        BY Zenon, <1>1, <3>3 DEF QueueInv
      <4>2. updates = 0 /\ policies[x].concurrency > 0 => active[x] <= policies[x].concurrency
        BY Zenon, <1>1 DEF QueueInv
      <4> QED
        BY ZenonT(30), <2>3, <3>3, <4>1, <4>2
    <3> QED
      BY Zenon, <3>2, <3>3
  <2> QED
    BY Zenon, <2>8, <2>9 DEF QueueInv
<1>11. l \in Pipelines \cup {NoPipeline}
  BY Zenon DEF Pipelines
<1>12. ChainInv'
  BY Zenon, <1>1, <1>3, <1>11, ChainGrows DEF Base
<1> QED
  BY ZenonT(30), <1>6, <1>7, <1>8, <1>9, <1>10, <1>12 DEF PoolInv, CountInv

\* fetchAndDispatch claims a job and starts its goroutine.
LEMMA FetchClaimKeeps ==
  ASSUME PoolInv, FetchClaim
  PROVE  PoolInv'
<1> DEFINE new(j) ==
             [stage |-> "pipeline", job |-> j, lost |-> FALSE,
              after |-> IF JobOf[j].pipeline = NoPipeline THEN None ELSE tails[JobOf[j].pipeline],
              gated |-> JobOf[j].pipeline # NoPipeline /\ tails[JobOf[j].pipeline] # None,
              rules |-> << >>, keys |-> 0, want |-> FALSE, gate |-> None,
              defers |-> {"pending", "queue", "pipeline"}]
<1>1. MiscOK /\ GorOK /\ ChainInv
  BY Zenon DEF PoolInv
<1>2. PICK j \in JobIDs, s \in Slots \ Busy :
        /\ JobOf[j].queue = NextQueue
        /\ store' = [store EXCEPT ![j] = "running"]
        /\ tails' = pipelineGate(JobOf[j].pipeline, s)
        /\ gor' = [gor EXCEPT ![s] = new(j)]
  BY Zenon DEF FetchClaim
<1>3. JobOf[j].queue \in ConfiguredQueues /\ gor[s] = Idle
  BY Zenon, WorkerPoolAssumption DEF Busy
<1>4. new(j).after \in Slots \cup {None}
  BY Zenon, <1>1 DEF ChainInv, TailInv, Pipelines
<1>5. new(j) \in Goroutines
  BY Zenon, <1>4, DeferNames DEF Goroutines, Stages, Waits
<1>6. NewGoroutine(new(j), j)
  BY Zenon, <1>5 DEF NewGoroutine, Base
<1>7. MiscOK'
  <2>1. store' \in [JobIDs -> {"available", "running", "done"}]
    BY Zenon, <1>1, <1>2 DEF MiscOK
  <2>2. fetch' \in [free : 0..Cardinality(Slots), misses : Nat]
    <3>1. fetch \in [free : 0..Cardinality(Slots), misses : Nat] /\ fetch.free > 0
      BY Zenon, <1>1 DEF MiscOK, FetchClaim, Fetching
    <3>2. Cardinality(Slots) \in Nat
      BY Zenon, WorkerPoolAssumption, FS_CardinalityType
    <3>3. fetch.free - 1 \in 0..Cardinality(Slots)
      BY <3>1, <3>2
    <3> QED
      BY Zenon, <3>3 DEF FetchClaim
  <2>3. UNCHANGED <<policies, lifeVars, updates, faults, broken>> /\ Advance
    BY Zenon DEF FetchClaim
  <2>4. cursor' \in 0..ScheduleLength' - 1
    BY Zenon, <1>1, <2>3, CursorInSchedule
  <2> QED
    BY ZenonT(30), <1>1, <2>1, <2>2, <2>3, <2>4 DEF MiscOK, lifeVars
<1>8. /\ queueCanClaim(JobOf[j].queue)
      /\ active' = [active EXCEPT ![JobOf[j].queue] = active[JobOf[j].queue] + 1]
      /\ UNCHANGED <<policies, keySemaphores, rateGates, updates, broken>>
  BY Zenon, <1>2 DEF FetchClaim
<1>9. PICK g : g = new(j)
  BY Zenon
<1>10. /\ NewGoroutine(g, j) /\ SlotStep(s, g)
       /\ g.after = IF JobOf[j].pipeline = NoPipeline THEN None ELSE tails[JobOf[j].pipeline]
  BY Zenon, <1>2, <1>6, <1>9 DEF SlotStep
<1> HIDE DEF new
<1>11. s \in Slots
  BY Zenon
<1> QED
  BY ZenonT(30), <1>2, <1>3, <1>7, <1>8, <1>10, <1>11, ClaimKeeps

\* A step that moves no goroutine and replaces no policy.
LEMMA Unmoved ==
  ASSUME PoolInv, MiscOK',
         UNCHANGED <<policies, active, tails, keySemaphores, rateGates, gor, updates, broken>>
  PROVE  PoolInv'
<1>1. GorOK /\ RulesInv /\ SemaphoreInv /\ CountInv /\ ChainInv
  BY Zenon DEF PoolInv
<1>2. gor' \in [Slots -> {Idle} \cup Goroutines]
  BY Zenon, <1>1 DEF GorOK
<1>3. \A t \in Slots : Alike(gor'[t], gor[t])
  BY Zenon, <1>1 DEF Alike, GorOK
<1>4. GorOK' /\ RulesInv' /\ SemaphoreInv' /\ CountInv'
  BY ZenonT(30), <1>1, <1>2, <1>3, AlikeStep
<1>5. ChainInv'
  BY Zenon, <1>1 DEF ChainInv, AfterInv, ForkInv, TailInv, RankInv, TurnInv
<1> QED
  BY Zenon, <1>4, <1>5 DEF PoolInv

\* fetchAndDispatch takes fetchMu and counts the free places, misses a queue,
\* or ends.
LEMMA FetchLoopKeeps ==
  ASSUME PoolInv, BeginFetch \/ FetchMiss \/ EndFetch
  PROVE  PoolInv'
<1>1. MiscOK
  BY Zenon DEF PoolInv
<1>2. UNCHANGED <<store, policies, active, tails, keySemaphores, rateGates, gor, lifeVars,
                  updates, broken>>
  BY Zenon DEF BeginFetch, FetchMiss, EndFetch
<1>3. ScheduleLength' = ScheduleLength
  BY Zenon, <1>2 DEF ScheduleLength, Turns
<1>4. cursor' \in 0..ScheduleLength' - 1
  <2>1. CASE Advance
    BY Zenon, <1>1, <1>2, <2>1, CursorInSchedule
  <2>2. CASE cursor' = cursor
    BY Zenon, <1>1, <1>3, <2>2 DEF MiscOK
  <2> QED
    BY Zenon, <2>1, <2>2 DEF BeginFetch, FetchMiss, EndFetch
<1>5. faults' \in Nat
  BY <1>1 DEF MiscOK, BeginFetch, FetchMiss, EndFetch
<1>6. fetch' = None \/ fetch' \in [free : 0..Cardinality(Slots), misses : Nat]
  <2>1. CASE BeginFetch
    <3>1. Slots \ Busy \subseteq Slots
      BY Zenon
    <3>2. PICK n : n = Cardinality(Slots \ Busy)
      BY Zenon
    <3>3. n \in Nat /\ n <= Cardinality(Slots) /\ Cardinality(Slots) \in Nat
      BY Zenon, <3>1, <3>2, WorkerPoolAssumption, FS_Subset, FS_CardinalityType
    <3>4. n \in 0..Cardinality(Slots)
      BY <3>3
    <3> QED
      BY Zenon, <2>1, <3>2, <3>4 DEF BeginFetch
  <2>2. CASE FetchMiss
    <3>1. fetch \in [free : 0..Cardinality(Slots), misses : Nat]
      BY Zenon, <1>1, <2>2 DEF MiscOK, FetchMiss, Fetching
    <3>2. PICK n \in Nat : n = fetch.misses + 1
      BY <3>1
    <3>3. fetch' = [fetch EXCEPT !.misses = n]
      BY Zenon, <2>2, <3>2 DEF FetchMiss
    <3> QED
      BY Zenon, <3>1, <3>2, <3>3
  <2>3. CASE EndFetch
    BY Zenon, <2>3 DEF EndFetch
  <2> QED
    BY Zenon, <2>1, <2>2, <2>3
<1>7. MiscOK'
  BY Zenon, <1>1, <1>2, <1>4, <1>5, <1>6 DEF MiscOK, lifeVars
<1> QED
  BY Zenon, <1>2, <1>7, Unmoved

-----------------------------------------------------------------------------
(* What happens to the pool, and the whole.                                *)

\* Shutdown, and the context of Start is cancelled.
LEMMA LifeKeeps ==
  ASSUME PoolInv, Shutdown \/ CancelContext
  PROVE  PoolInv'
<1>1. MiscOK
  BY Zenon DEF PoolInv
<1>2. UNCHANGED <<store, policies, fetch, cursor, active, tails, keySemaphores, rateGates,
                  gor, updates, broken>>
  BY Zenon DEF Shutdown, CancelContext, poolVars
<1>3. ScheduleLength' = ScheduleLength
  BY Zenon, <1>2 DEF ScheduleLength, Turns
<1>4. faults' \in Nat
  BY <1>1 DEF MiscOK, Shutdown, CancelContext, poolVars
<1>5. shuttingDown' \in BOOLEAN /\ ctx' \in {"live", "done"}
  BY Zenon, <1>1 DEF MiscOK, Shutdown, CancelContext
<1>6. MiscOK'
  BY Zenon, <1>1, <1>2, <1>3, <1>4, <1>5 DEF MiscOK
<1> QED
  BY Zenon, <1>2, <1>6, Unmoved

\* UpdateQueuePolicy: goroutines on their way keep the rules and semaphores
\* they have, the schedule has a new length.
LEMMA UpdateKeeps ==
  ASSUME PoolInv, NEW q \in ConfiguredQueues, NEW policy \in Policies,
         UpdateQueuePolicy(q, policy)
  PROVE  PoolInv'
<1>1. GorOK /\ MiscOK /\ SemaphoreInv /\ QueueInv /\ SemInv /\ KindInv /\ ChainInv
  BY Zenon DEF PoolInv, CountInv
<1>2. UNCHANGED <<store, fetch, active, tails, keySemaphores, rateGates, gor, lifeVars, broken>>
  BY Zenon DEF UpdateQueuePolicy
<1>3. policies' \in [ConfiguredQueues -> Policies]
  BY Zenon, <1>1 DEF MiscOK, UpdateQueuePolicy
<1>4. updates' \in Nat /\ updates' # 0 /\ faults' \in Nat
  BY <1>1 DEF MiscOK, UpdateQueuePolicy
<1>5. cursor' \in 0..ScheduleLength' - 1
  <2>1. CASE ScheduleLength' = ScheduleLength
    BY Zenon, <1>1, <2>1 DEF MiscOK, UpdateQueuePolicy
  <2>2. CASE ScheduleLength' # ScheduleLength
    BY Zenon, <2>2 DEF UpdateQueuePolicy
  <2> QED
    BY Zenon, <2>1, <2>2
<1>6. MiscOK'
  BY Zenon, <1>1, <1>2, <1>3, <1>4, <1>5 DEF MiscOK, lifeVars
<1>7. GorOK'
  BY Zenon, <1>1, <1>2 DEF GorOK
<1>8. RulesInv'
  BY Zenon, <1>4 DEF RulesInv
<1>9. SemaphoreInv'
  <2>1. KeyInv' /\ GateInv'
    BY Zenon, <1>1, <1>2 DEF SemaphoreInv, KeyInv, GateInv, KeyUsers, KeyHolders, GateUsers, GateHolders
  <2>2. CapInv'
    BY Zenon, <1>1, <1>2, <1>4 DEF SemaphoreInv, CapInv
  <2> QED
    BY Zenon, <2>1, <2>2 DEF SemaphoreInv
<1>10. CountInv'
  <2>1. \A x : QueueHolders(x)' = QueueHolders(x)
    BY Zenon, <1>2 DEF QueueHolders
  <2>2. QueueInv'
    BY ZenonT(30), <1>1, <1>2, <1>4, <2>1 DEF QueueInv
  <2>3. SemInv' /\ KindInv'
    BY Zenon, <1>1, <1>2 DEF SemInv, KindInv, SemHolders, KindHolders
  <2> QED
    BY Zenon, <2>2, <2>3 DEF CountInv
<1>11. ChainInv'
  BY Zenon, <1>1, <1>2 DEF ChainInv, AfterInv, ForkInv, TailInv, RankInv, TurnInv
<1> QED
  BY ZenonT(30), <1>6, <1>7, <1>8, <1>9, <1>10, <1>11 DEF PoolInv

\* The pool starts empty (newWorkerPool).
LEMMA PoolStarts == Init => PoolInv
<1> SUFFICES ASSUME Init PROVE PoolInv
  BY Zenon
<1>1. \A s \in Slots : gor[s] = Idle
  BY Zenon DEF Init
<1>2. MiscOK
  <2>1. policies \in [ConfiguredQueues -> Policies]
    BY Zenon, WorkerPoolAssumption DEF Init
  <2>2. ScheduleLength \in Nat \ {0}
    BY Zenon, <2>1, ScheduleNotEmpty
  <2>3. cursor \in 0..ScheduleLength - 1
    BY <2>2 DEF Init
  <2>4. updates \in Nat /\ faults \in Nat
    BY Zenon, WorkerPoolAssumption DEF Init
  <2> QED
    BY Zenon, <2>1, <2>3, <2>4 DEF Init, MiscOK
<1>3. GorOK
  BY Zenon, <1>1 DEF Init, GorOK
<1>4. RulesInv
  BY Zenon, <1>1 DEF RulesInv
<1>5. SemaphoreInv
  <2>1. DOMAIN << >> = {}
    OBVIOUS
  <2>2. DOMAIN keySemaphores = {} /\ DOMAIN rateGates = {}
    BY Zenon, <2>1 DEF Init
  <2>3. \A s \in Slots : /\ KeyHolders[s] = {} /\ KeyUsers[s] = {}
                         /\ GateHolders[s] = {} /\ GateUsers[s] = {}
    BY Zenon, <1>1 DEF KeyHolders, KeyUsers, GateHolders, GateUsers, HoldsKeys, RefersKeys,
                HoldsGate, RefersGate
  <2>4. KeyInv /\ GateInv
    BY Zenon, <2>2, <2>3 DEF KeyInv, GateInv, Counted
  <2>5. CapInv
    BY Zenon, <2>2 DEF CapInv
  <2> QED
    BY Zenon, <2>4, <2>5 DEF SemaphoreInv
<1>6. CountInv
  <2>1. Cardinality({}) = 0
    BY Zenon, FS_EmptySet
  <2>2. /\ \A q : QueueHolders(q) = {}
        /\ SemHolders = {}
        /\ \A kind : KindHolders(kind) = {}
    BY Zenon, <1>1 DEF QueueHolders, SemHolders, KindHolders
  <2>3. QueueInv
    <3>1. active \in [ConfiguredQueues -> Nat] /\ \A q \in ConfiguredQueues : active[q] = 0
      BY Zenon DEF Init
    <3>2. \A q \in ConfiguredQueues : policies[q].concurrency \in Nat
      BY Zenon, <1>2, WorkerPoolAssumption DEF MiscOK
    <3>3. ASSUME NEW q \in ConfiguredQueues
          PROVE  active[q] = Cardinality(QueueHolders(q)) /\ active[q] <= policies[q].concurrency
      <4>1. active[q] = Cardinality(QueueHolders(q))
        BY Zenon, <2>1, <2>2, <3>1
      <4>2. active[q] = 0 /\ policies[q].concurrency \in Nat
        BY Zenon, <3>1, <3>2
      <4> QED
        BY <4>1, <4>2
    <3> QED
      BY Zenon, <3>1, <3>3 DEF QueueInv
  <2>4. SemInv
    <3>1. Cardinality(Slots) \in Nat /\ Concurrency \in 1..Cardinality(Slots)
      BY Zenon, WorkerPoolAssumption, FS_CardinalityType
    <3>2. 0 <= Concurrency
      BY <3>1
    <3> QED
      BY Zenon, <2>1, <2>2, <3>2 DEF SemInv
  <2>5. KindInv
    <3>1. \A kind \in Kinds : KindConcurrency[kind] \in Nat
      BY Zenon, WorkerPoolAssumption
    <3>2. \A kind \in Kinds : 0 <= KindConcurrency[kind]
      BY <3>1
    <3> QED
      BY Zenon, <2>1, <2>2, <3>2 DEF KindInv
  <2> QED
    BY Zenon, <2>3, <2>4, <2>5 DEF CountInv
<1>7. ChainInv
  <2>1. AfterInv /\ ForkInv
    BY Zenon, <1>1 DEF AfterInv, ForkInv
  <2>2. TailInv
    BY Zenon DEF Init, TailInv
  <2>3. RankInv
    <3>1. [s \in Slots |-> 0] \in [Slots -> Nat]
      BY Zenon
    <3> QED
      BY Zenon, <1>1, <3>1 DEF RankInv
  <2>4. TurnInv
    BY Zenon, <1>1 DEF TurnInv, InChain
  <2> QED
    BY Zenon, <2>1, <2>2, <2>3, <2>4 DEF ChainInv
<1> QED
  BY ZenonT(30), <1>2, <1>3, <1>4, <1>5, <1>6, <1>7 DEF PoolInv

\* Every step of the pool keeps the invariant.
LEMMA PoolSteps == PoolInv /\ [Next]_vars => PoolInv'
<1> SUFFICES ASSUME PoolInv, [Next]_vars PROVE PoolInv'
  BY Zenon
<1>1. CASE UNCHANGED vars
  <2>1. MiscOK
    BY Zenon DEF PoolInv
  <2>2. ScheduleLength' = ScheduleLength
    BY Zenon, <1>1 DEF ScheduleLength, Turns, vars
  <2>3. MiscOK'
    BY Zenon, <1>1, <2>1, <2>2 DEF MiscOK, vars
  <2> QED
    BY Zenon, <1>1, <2>3, Unmoved DEF vars
<1>2. CASE FetchStep
  BY Zenon, <1>2, FetchLoopKeeps, FetchClaimKeeps DEF FetchStep
<1>3. ASSUME NEW s \in Slots, Acquire(s) PROVE PoolInv'
  BY ZenonT(30), <1>3, SlotsCount, PassPipelineKeeps, KeyReferKeeps, KeyAcquireKeeps,
     KeysAcquiredKeeps, GateReferKeeps, GateAcquireKeeps, KindAcquireKeeps, SemAcquireKeeps DEF Acquire
<1>4. ASSUME NEW s \in Slots, StartHandler(s) \/ GiveUp(s) \/ Leave(s) \/ LoseClaim(s)
      PROVE PoolInv'
  BY ZenonT(30), <1>4, SlotsCount, StartHandlerKeeps, GiveUpKeeps, OutcomeKeeps, ReleaseKeeps,
     LoseClaimKeeps DEF Leave
<1>5. CASE Shutdown \/ CancelContext
  BY Zenon, <1>5, LifeKeeps
<1>6. ASSUME NEW q \in ConfiguredQueues, NEW policy \in Policies, UpdateQueuePolicy(q, policy)
      PROVE  PoolInv'
  BY Zenon, <1>6, UpdateKeeps
<1> QED
  BY ZenonT(30), <1>1, <1>2, <1>3, <1>4, <1>5, <1>6 DEF Next

\* The inductive invariant holds in every reachable state.
LEMMA PoolInvariant == Spec => []PoolInv
  BY PoolStarts, PoolSteps, PTL DEF Spec

-----------------------------------------------------------------------------
(* The theorems.                                                           *)

\* Every variable of the pool keeps its shape: no counter of a queue, a
\* semaphore or a gate goes below zero or above the number of places, and an
\* entry stays in its map only while a goroutine refers to it.
THEOREM PoolWellFormed == Spec => []TypeOK
<1>1. PoolInv => TypeOK
  <2> SUFFICES ASSUME PoolInv PROVE TypeOK
    BY Zenon
  <2>1. MiscOK /\ GorOK /\ KeyInv /\ GateInv /\ QueueInv /\ TailInv /\ RankInv
    BY Zenon DEF PoolInv, SemaphoreInv, CountInv, ChainInv
  <2>2. active \in [ConfiguredQueues -> 0..Cardinality(Slots)]
    <3>1. ASSUME NEW q \in ConfiguredQueues PROVE active[q] \in 0..Cardinality(Slots)
      <4>1. QueueHolders(q) \subseteq Slots
        BY Zenon DEF QueueHolders
      <4>2. /\ Cardinality(QueueHolders(q)) <= Cardinality(Slots)
            /\ Cardinality(Slots) \in Nat
        BY Zenon, <4>1, WorkerPoolAssumption, FS_Subset, FS_CardinalityType
      <4>3. active[q] \in Nat /\ active[q] = Cardinality(QueueHolders(q))
        BY Zenon, <2>1 DEF QueueInv
      <4> QED
        BY <4>2, <4>3
    <3>2. active = [q \in ConfiguredQueues |-> active[q]]
      BY Zenon, <2>1 DEF QueueInv
    <3> QED
      BY Zenon, <3>1, <3>2
  <2>3. /\ \A k \in DOMAIN keySemaphores : keySemaphores[k] \in Semaphores
        /\ \A k \in DOMAIN rateGates : rateGates[k] \in Semaphores
    BY Zenon, <2>1 DEF KeyInv, GateInv, Counted
  <2>4. ASSUME NEW s \in Busy PROVE gor[s].after # s /\ gor[s].keys <= Len(gor[s].rules)
    <3>1. gor[s] # Idle /\ s \in Slots
      BY Zenon DEF Busy
    <3>2. gor[s].keys <= Len(gor[s].rules)
      BY Zenon, <2>1, <3>1 DEF GorOK, StageOK
    <3>3. gor[s].after # s
      <4>1. SUFFICES ASSUME gor[s].after = s PROVE FALSE
        BY Zenon
      <4>2. gor[s].after # None
        BY Zenon, <3>1, <4>1, WorkerPoolAssumption
      <4>3. PICK rank \in [Slots -> Nat] :
              \A t \in Slots : gor[t] # Idle /\ gor[t].after # None => rank[gor[t].after] < rank[t]
        BY Zenon, <2>1 DEF RankInv
      <4>4. rank[s] < rank[s] /\ rank[s] \in Nat
        BY Zenon, <3>1, <4>1, <4>2, <4>3
      <4> QED
        BY <4>4
    <3> QED
      BY Zenon, <3>2, <3>3
  <2> QED
    BY Zenon, <2>1, <2>2, <2>3, <2>4 DEF TypeOK, MiscOK, GorOK, TailInv
<1> QED
  BY <1>1, PoolInvariant, PTL

\* One at a time inside a pipeline: a second goroutine of the pipeline stays in
\* pipelineReady until the first has closed its done channel, as long as no
\* waiter of that pipeline left early.
THEOREM ChainsOrdered == Spec => []PipelineChain
<1>1. PoolInv => PipelineChain
  <2> SUFFICES ASSUME PoolInv, NEW s \in Busy, NEW t \in Busy, s # t,
                      Job(s).pipeline = Job(t).pipeline,
                      Job(s).pipeline \in Pipelines \ broken,
                      Has(s, "pipeline"), Has(t, "pipeline"),
                      gor[s].stage # "pipeline", gor[t].stage # "pipeline"
               PROVE  FALSE
    BY Zenon DEF PipelineChain
  <2>1. PICK l \in Pipelines \ broken : l = Job(s).pipeline
    BY Zenon
  <2>2. TurnInv
    BY Zenon DEF PoolInv, ChainInv
  <2>3. s \in Slots /\ t \in Slots /\ gor[s] # Idle /\ gor[t] # Idle
    BY Zenon DEF Busy
  <2>4. gor[s].after = None /\ gor[t].after = None
    BY Zenon, <2>1, <2>2, <2>3 DEF TurnInv, Job
  <2>5. InChain(gor[s], l) /\ InChain(gor[t], l)
    BY Zenon, <2>1, <2>3 DEF InChain, Has, Job
  <2> QED
    BY ZenonT(30), <2>1, <2>2, <2>3, <2>4, <2>5 DEF TurnInv
<1> QED
  BY <1>1, PoolInvariant, PTL

\* What is counted among the slots is at most what contains it.
LEMMA FewerSlots ==
  ASSUME NEW A, NEW B, A \subseteq B, B \subseteq Slots, NEW n \in Nat, Cardinality(B) <= n
  PROVE  Cardinality(A) <= n
<1>1. IsFiniteSet(B)
  BY Zenon, WorkerPoolAssumption, FS_Subset
<1>2. Cardinality(A) <= Cardinality(B) /\ IsFiniteSet(A)
  BY Zenon, <1>1, FS_Subset
<1>3. Cardinality(A) \in Nat /\ Cardinality(B) \in Nat
  BY Zenon, <1>1, <1>2, FS_CardinalityType
<1> QED
  BY <1>2, <1>3

\* While no policy was replaced, the handlers of one key value are at most what
\* the rule of their queue allows.
LEMMA KeyLimitHolds ==
  ASSUME PoolInv, updates = 0, NEW s \in Busy, NEW q, q = Job(s).queue,
         NEW i \in DOMAIN KeyRules(q), NEW k, k = KeyEntry(Job(s), i, KeyRules(q)[i])
  PROVE  Cardinality(Handling({t \in Busy : KeyEntry(Job(t), i, KeyRules(q)[i]) = k}))
           <= KeyRules(q)[i].limit
<1> DEFINE H == Handling({t \in Busy : KeyEntry(Job(t), i, KeyRules(q)[i]) = k})
<1>1. MiscOK /\ GorOK /\ RulesInv /\ KeyInv /\ CapInv
  BY Zenon DEF PoolInv, SemaphoreInv
<1>2. s \in Slots /\ gor[s] \in Goroutines
  BY Zenon, <1>1 DEF Busy, GorOK
<1>3. q \in ConfiguredQueues
  BY Zenon, <1>2, WorkerPoolAssumption DEF Job, Goroutines
<1>4. k[1] = q /\ k[2] = i
  BY Zenon DEF KeyEntry
<1>5. KeyRules(q) \in Seq([key : {"kind", "pipeline", "tag"}, limit : Nat \ {0}])
  BY Zenon, <1>1, <1>3, WorkerPoolAssumption DEF MiscOK, KeyRules
<1>6. /\ Len(KeyRules(q)) \in Nat /\ i \in 1..Len(KeyRules(q))
      /\ KeyRules(q)[i].limit \in Nat
  <2>1. PICK r \in Seq([key : {"kind", "pipeline", "tag"}, limit : Nat \ {0}]) : r = KeyRules(q)
    BY Zenon, <1>5
  <2>2. Len(r) \in Nat /\ DOMAIN r = 1..Len(r)
    OBVIOUS
  <2>3. i \in DOMAIN r
    BY Zenon, <2>1
  <2>4. r[i] \in [key : {"kind", "pipeline", "tag"}, limit : Nat \ {0}]
    <3>1. ASSUME NEW R, NEW f \in Seq(R), NEW n \in 1..Len(f) PROVE f[n] \in R
      OBVIOUS
    <3> QED
      BY Zenon, <2>2, <2>3, <3>1
  <2>5. r[i].limit \in Nat
    BY Zenon, <2>4
  <2> QED
    BY Zenon, <2>1, <2>2, <2>3, <2>5
<1>7. ASSUME NEW t \in H PROVE t \in Slots /\ k \in KeyHolders[t]
  <2>1. /\ t \in Slots /\ gor[t] # Idle /\ gor[t].stage = "handling"
        /\ KeyEntry(Job(t), i, KeyRules(q)[i]) = k
    BY Zenon DEF Handling, Busy
  <2>2. Job(t).queue = q
    BY <1>4, <2>1 DEF KeyEntry
  <2>3. gor[t].rules = KeyRules(q)
    BY ZenonT(30), <1>1, <2>1, <2>2 DEF RulesInv, Admitted, Job
  <2>4. gor[t].keys = Len(KeyRules(q))
    BY ZenonT(30), <1>1, <2>1, <2>3 DEF GorOK, StageOK, Admitted
  <2>5. i \in 1..gor[t].keys
    BY Zenon, <1>6, <2>4
  <2>6. k \in TakenBy(gor[t])
    BY Zenon, <2>1, <2>3, <2>5 DEF TakenBy, Job
  <2> QED
    BY Zenon, <2>1, <2>6 DEF KeyHolders, HoldsKeys
<1>8. CASE H = {}
  <2>1. Cardinality({}) = 0
    BY Zenon, FS_EmptySet
  <2>2. Cardinality(H) = 0
    BY Zenon, <1>8, <2>1
  <2>3. 0 <= KeyRules(q)[i].limit
    BY <1>6
  <2> QED
    BY Zenon, <2>2, <2>3
<1>9. CASE H # {}
  <2>1. PICK t \in H : TRUE
    BY Zenon, <1>9
  <2>2. k \in DOMAIN keySemaphores
    BY Zenon, <1>1, <1>7, <2>1 DEF KeyInv, Counted
  <2>3. keySemaphores[k].cap = KeyRules(q)[i].limit
    BY ZenonT(30), <1>1, <1>3, <1>4, <2>2 DEF CapInv
  <2>4. /\ keySemaphores[k].held = Cardinality(Users(KeyHolders, k))
        /\ keySemaphores[k].held <= keySemaphores[k].cap
    BY Zenon, <1>1, <2>2 DEF KeyInv, Counted
  <2>5. H \subseteq Users(KeyHolders, k) /\ Users(KeyHolders, k) \subseteq Slots
    BY Zenon, <1>7 DEF Users
  <2>6. Cardinality(Users(KeyHolders, k)) <= KeyRules(q)[i].limit
    BY Zenon, <2>3, <2>4
  <2> QED
    BY <1>6, <2>5, <2>6, FewerSlots
<1> QED
  BY Zenon, <1>8, <1>9

\* A key's semaphore has no more holders than places (acquireKeyConcurrency),
\* whatever the policy of its queue is by now.
LEMMA SemaphoreLimitHolds ==
  ASSUME PoolInv, NEW k \in DOMAIN keySemaphores
  PROVE  Cardinality({s \in Busy : k \in KeysTaken(s)}) <= keySemaphores[k].cap
<1>1. ASSUME NEW s \in Slots PROVE gor[s] # Idle => KeyHolders[s] = KeysTaken(s)
  BY Zenon DEF KeyHolders, HoldsKeys, TakenBy, KeysTaken, Job
<1>2. ASSUME NEW s \in Slots PROVE gor[s] = Idle => KeyHolders[s] = {}
  BY Zenon DEF KeyHolders, HoldsKeys
<1>3. {s \in Busy : k \in KeysTaken(s)} = Users(KeyHolders, k)
  BY Zenon, <1>1, <1>2 DEF Users, Busy
<1> QED
  BY Zenon, <1>3 DEF PoolInv, SemaphoreInv, KeyInv, Counted

\* A gate lets one goroutine through at a time (acquireRateGate).
LEMMA GateLimitHolds ==
  ASSUME PoolInv, NEW s \in Busy, NEW t \in Busy, s # t, Has(s, "gate"), Has(t, "gate")
  PROVE  gor[s].gate # gor[t].gate
<1>1. SUFFICES ASSUME NEW k, k = gor[s].gate, k = gor[t].gate PROVE s = t
  BY Zenon
<1>2. GateInv /\ CapInv
  BY Zenon DEF PoolInv, SemaphoreInv
<1>3. s \in Slots /\ t \in Slots
  BY Zenon DEF Busy
<1>4. k \in GateHolders[s] /\ k \in GateHolders[t]
  BY Zenon, <1>1, <1>3 DEF GateHolders, HoldsGate, Has
<1>5. k \in DOMAIN rateGates
  BY Zenon, <1>2, <1>3, <1>4 DEF GateInv, Counted
<1>6. rateGates[k].cap = 1
  BY Zenon, <1>2, <1>5 DEF CapInv
<1>7. Counted(rateGates, GateUsers, GateHolders)
  BY Zenon, <1>2 DEF GateInv
<1> QED
  BY ZenonT(30), <1>3, <1>4, <1>6, <1>7, OneHolder, SlotsCount

\* No limit is exceeded: neither the pool's, a kind's, a key semaphore's and a
\* gate's at any time, nor what the policy of a queue allows the queue and a key
\* value until a policy is replaced.
THEOREM LimitsKept == Spec => []LimitsHold
<1>1. PoolInv => LimitsHold
  <2> SUFFICES ASSUME PoolInv PROVE LimitsHold
    BY Zenon
  <2>1. MiscOK /\ GorOK /\ SemInv /\ KindInv /\ QueueInv
    BY Zenon DEF PoolInv, CountInv
  <2>2. ASSUME NEW s \in Busy
        PROVE  s \in Slots /\ gor[s] # Idle /\ gor[s].job \in JobIDs /\ StageOK(gor[s])
    BY Zenon, <2>1 DEF Busy, GorOK, Goroutines
  <2>3. Cardinality(Handling(Busy)) <= Concurrency
    <3>1. Handling(Busy) \subseteq SemHolders
      BY Zenon, <2>2 DEF Handling, SemHolders, StageOK
    <3>2. SemHolders \subseteq Slots
      BY Zenon DEF SemHolders
    <3>3. Cardinality(Slots) \in Nat /\ Concurrency \in 1..Cardinality(Slots)
      BY Zenon, WorkerPoolAssumption, FS_CardinalityType
    <3>4. Concurrency \in Nat
      BY <3>3
    <3> QED
      BY ZenonT(30), <2>1, <3>1, <3>2, <3>4, FewerSlots DEF SemInv
  <2>4. ASSUME NEW s \in Busy, KindConcurrency[Job(s).kind] > 0
        PROVE  Cardinality(Handling({t \in Busy : Job(t).kind = Job(s).kind}))
                 <= KindConcurrency[Job(s).kind]
    <3>1. PICK kind \in Kinds : kind = Job(s).kind
      BY Zenon, <2>2 DEF Kinds, Job
    <3>2. ASSUME NEW t \in Handling({u \in Busy : Job(u).kind = kind})
          PROVE  t \in KindHolders(kind)
      <4>1. t \in Busy /\ gor[t].stage = "handling" /\ JobOf[gor[t].job].kind = kind
        BY Zenon DEF Handling, Job
      <4>2. "kind" \in gor[t].defers
        BY Zenon, <2>2, <2>4, <3>1, <4>1 DEF StageOK, KindLimit
      <4> QED
        BY Zenon, <2>2, <4>1, <4>2 DEF KindHolders
    <3>3. KindHolders(kind) \subseteq Slots
      BY Zenon DEF KindHolders
    <3>4. Cardinality(KindHolders(kind)) <= KindConcurrency[kind]
      BY Zenon, <2>1, <2>4, <3>1 DEF KindInv
    <3>5. KindConcurrency[kind] \in Nat
      BY Zenon, WorkerPoolAssumption
    <3>6. Cardinality(Handling({u \in Busy : Job(u).kind = kind})) <= KindConcurrency[kind]
      BY ZenonT(30), <3>2, <3>3, <3>4, <3>5, FewerSlots
    <3> QED
      BY Zenon, <3>1, <3>6
  <2>5. ASSUME updates = 0, NEW s \in Busy, NEW q, q = Job(s).queue, policies[q].concurrency > 0
        PROVE  Cardinality({t \in Busy : Has(t, "queue") /\ Job(t).queue = q})
                 <= policies[q].concurrency
    <3>1. q \in ConfiguredQueues
      BY ZenonT(30), <2>2, <2>5, WorkerPoolAssumption DEF Job
    <3>2. {t \in Busy : Has(t, "queue") /\ Job(t).queue = q} = QueueHolders(q)
      BY Zenon DEF Busy, Has, Job, QueueHolders
    <3> QED
      BY ZenonT(30), <2>1, <2>5, <3>1, <3>2 DEF QueueInv
  <2>6. ASSUME updates = 0, NEW s \in Busy, NEW q, q = Job(s).queue, NEW i \in DOMAIN KeyRules(q)
        PROVE  Cardinality(Handling({t \in Busy :
                 KeyEntry(Job(t), i, KeyRules(q)[i]) = KeyEntry(Job(s), i, KeyRules(q)[i])}))
                 <= KeyRules(q)[i].limit
    BY Zenon, <2>6, KeyLimitHolds
  <2>7. ASSUME NEW s \in Busy, NEW t \in Busy \ {s}, Has(s, "gate"), Has(t, "gate")
        PROVE  gor[s].gate # gor[t].gate
    BY Zenon, <2>7, GateLimitHolds
  <2>8. ASSUME NEW k \in DOMAIN keySemaphores
        PROVE  Cardinality({s \in Busy : k \in KeysTaken(s)}) <= keySemaphores[k].cap
    BY Zenon, SemaphoreLimitHolds
  <2> QED
    BY ZenonT(30), <2>3, <2>4, <2>5, <2>6, <2>7, <2>8 DEF LimitsHold
<1> QED
  BY <1>1, PoolInvariant, PTL

-----------------------------------------------------------------------------
(* The maps of semaphores are functions, so that an empty one is << >>.    *)

IsMap(f) == f = [k \in DOMAIN f |-> f[k]]
MapInv == IsMap(keySemaphores) /\ IsMap(rateGates)

\* The operations on the maps of semaphores yield maps.
LEMMA SemaphoreMaps ==
  ASSUME NEW sems, IsMap(sems)
  PROVE  /\ \A k, cap : IsMap(Refer(sems, k, cap))
         /\ \A k : IsMap(Take(sems, k))
         /\ \A K : IsMap(Drop(sems, K)) /\ IsMap(Return(sems, K))
<1>1. ASSUME NEW k, NEW cap PROVE IsMap(Refer(sems, k, cap))
  <2>1. PICK e : e = [Entry(sems, k, cap) EXCEPT !.refs = @ + 1]
    BY Zenon
  <2> QED
    BY Zenon, <2>1 DEF IsMap, Refer
<1>2. ASSUME NEW k PROVE IsMap(Take(sems, k))
  <2>1. PICK e : e = [sems[k] EXCEPT !.held = @ + 1]
    BY Zenon
  <2>2. Take(sems, k) = [sems EXCEPT ![k] = e]
    BY Zenon, <2>1 DEF Take
  <2> QED
    BY Zenon, <2>2 DEF IsMap
<1>3. ASSUME NEW f, NEW K PROVE IsMap(Drop(f, K))
  BY Zenon DEF IsMap, Drop
<1>4. ASSUME NEW K PROVE IsMap(Return(sems, K))
  BY Zenon, <1>3 DEF Return
<1> QED
  BY Zenon, <1>1, <1>2, <1>3, <1>4

\* Every step leaves maps.
LEMMA MapSteps == MapInv /\ [Next]_vars => MapInv'
<1> SUFFICES ASSUME MapInv, [Next]_vars PROVE MapInv'
  BY Zenon
<1>1. IsMap(keySemaphores) /\ IsMap(rateGates)
  BY Zenon DEF MapInv
<1>2. CASE UNCHANGED <<keySemaphores, rateGates>>
  BY Zenon, <1>1, <1>2 DEF MapInv
<1>3. ASSUME NEW s \in Slots, KeyRefer(s) \/ KeyAcquire(s) PROVE MapInv'
  BY <1>1, <1>3, SemaphoreMaps DEF MapInv, KeyRefer, KeyAcquire
<1>4. ASSUME NEW s \in Slots, GateRefer(s) \/ GateAcquire(s) PROVE MapInv'
  BY <1>1, <1>4, SemaphoreMaps DEF MapInv, GateRefer, GateAcquire
<1>5. ASSUME NEW s \in Slots, StartHandler(s) PROVE MapInv'
  BY Zenon, <1>1, <1>5, SemaphoreMaps DEF MapInv, StartHandler
<1>6. ASSUME NEW s \in Slots, GiveUp(s) PROVE MapInv'
  <2>1. IsMap(keySemaphores')
    <3>1. IsMap(Drop(keySemaphores, {KeyWanted(s)}))
      BY Zenon, <1>1, SemaphoreMaps
    <3>2. IsMap(Return(Drop(keySemaphores, {KeyWanted(s)}), KeysTaken(s)))
      BY Zenon, <3>1, SemaphoreMaps
    <3> QED
      BY Zenon, <1>1, <1>6, <3>2 DEF GiveUp
  <2>2. IsMap(rateGates')
    BY ZenonT(30), <1>1, <1>6, SemaphoreMaps DEF GiveUp
  <2> QED
    BY Zenon, <2>1, <2>2 DEF MapInv
<1>7. ASSUME NEW s \in Slots, Release(s) PROVE MapInv'
  <2>1. IsMap(keySemaphores')
    BY Zenon, <1>1, <1>7, SemaphoreMaps DEF Release
  <2>2. IsMap(rateGates')
    BY Zenon, <1>1, <1>7, SemaphoreMaps DEF Release
  <2> QED
    BY Zenon, <2>1, <2>2 DEF MapInv
<1>8. CASE FetchStep
  BY Zenon, <1>2, <1>8 DEF FetchStep, BeginFetch, FetchMiss, FetchClaim, EndFetch
<1>9. ASSUME NEW s \in Slots,
             PassPipeline(s) \/ KeysAcquired(s) \/ KindAcquire(s) \/ SemAcquire(s)
      PROVE  MapInv'
  BY Zenon, <1>2, <1>9 DEF PassPipeline, KeysAcquired, KindAcquire, SemAcquire
<1>10. ASSUME NEW s \in Slots, YieldClaim(s) \/ FinishHandler(s) \/ LoseClaim(s) PROVE MapInv'
  BY Zenon, <1>2, <1>10 DEF YieldClaim, FinishHandler, LoseClaim
<1>11. CASE Shutdown \/ CancelContext
  BY Zenon, <1>2, <1>11 DEF Shutdown, CancelContext
<1>12. ASSUME NEW q \in ConfiguredQueues, NEW policy \in Policies, UpdateQueuePolicy(q, policy)
       PROVE  MapInv'
  BY Zenon, <1>2, <1>12 DEF UpdateQueuePolicy
<1>13. CASE UNCHANGED vars
  BY Zenon, <1>2, <1>13 DEF vars
<1> QED
  BY ZenonT(30), <1>3, <1>4, <1>5, <1>6, <1>7, <1>8, <1>9, <1>10, <1>11, <1>12, <1>13
  DEF Next, Acquire, Leave

\* A map that counts the users of its entries is empty when there are none.
LEMMA NobodyCounted ==
  ASSUME NEW sems, IsMap(sems), NEW u, NEW h, Counted(sems, u, h), \A s \in Slots : u[s] = {}
  PROVE  sems = << >>
<1>1. DOMAIN sems = {}
  <2>1. SUFFICES ASSUME NEW k \in DOMAIN sems PROVE FALSE
    BY Zenon
  <2>2. Users(u, k) = {}
    BY Zenon DEF Users
  <2>3. Cardinality({}) = 0
    BY Zenon, FS_EmptySet
  <2>4. sems[k].refs = 0
    BY Zenon, <2>2, <2>3 DEF Counted
  <2>5. sems[k].refs \in Nat \ {0}
    BY Zenon DEF Counted, Semaphores
  <2> QED
    BY Zenon, <2>4, <2>5
<1>2. sems = [k \in {} |-> sems[k]]
  BY Zenon, <1>1 DEF IsMap
<1> QED
  BY <1>2

\* When no goroutine is left, the pool is as it was at the start: the queues'
\* counters, the pipelines' tails and both maps of semaphores.
THEOREM NothingLeft == Spec => []NothingLeaks
<1>1. PoolInv /\ MapInv => NothingLeaks
  <2> SUFFICES ASSUME PoolInv, MapInv, Busy = {}
               PROVE  /\ active = [q \in ConfiguredQueues |-> 0]
                      /\ tails = [l \in Pipelines |-> None]
                      /\ keySemaphores = << >> /\ rateGates = << >>
    BY Zenon DEF NothingLeaks
  <2>1. \A s \in Slots : gor[s] = Idle
    BY Zenon DEF Busy
  <2>2. KeyInv /\ GateInv /\ QueueInv /\ TailInv
    BY Zenon DEF PoolInv, SemaphoreInv, CountInv, ChainInv
  <2>3. active = [q \in ConfiguredQueues |-> 0]
    <3>1. \A q : QueueHolders(q) = {}
      BY Zenon, <2>1 DEF QueueHolders
    <3>2. Cardinality({}) = 0
      BY Zenon, FS_EmptySet
    <3>3. \A q \in ConfiguredQueues : active[q] = 0
      BY Zenon, <2>2, <3>1, <3>2 DEF QueueInv
    <3> QED
      BY Zenon, <2>2, <3>3 DEF QueueInv
  <2>4. tails = [l \in Pipelines |-> None]
    <3>1. ASSUME NEW l \in Pipelines PROVE tails[l] = None
      BY ZenonT(30), <2>1, <2>2 DEF TailInv, InChain
    <3> QED
      BY Zenon, <2>2, <3>1 DEF TailInv
  <2>5. \A s \in Slots : KeyUsers[s] = {} /\ GateUsers[s] = {}
    BY Zenon, <2>1 DEF KeyUsers, GateUsers, RefersKeys, RefersGate
  <2>6. keySemaphores = << >>
    BY Zenon, <2>2, <2>5, NobodyCounted DEF MapInv, KeyInv
  <2>7. rateGates = << >>
    BY Zenon, <2>2, <2>5, NobodyCounted DEF MapInv, GateInv
  <2> QED
    BY Zenon, <2>3, <2>4, <2>6, <2>7
<1>2. Init => MapInv
  <2>1. IsMap(<< >>)
    BY DEF IsMap
  <2> QED
    BY Zenon, <2>1 DEF Init, MapInv
<1>3. Spec => []MapInv
  BY <1>2, MapSteps, PTL DEF Spec
<1> QED
  BY <1>1, <1>3, PoolInvariant, PTL

-----------------------------------------------------------------------------
(* Start and Shutdown.  PoolLifecycle models the same pool from its        *)
(* WaitGroup: the queues, the context and isShuttingDown are those above.  *)

CONSTANTS MaxPending, MaxJobs
VARIABLES main, subscribed, listeners, working, claimed, waiter

Lifecycle == INSTANCE PoolLifecycle

\* The waiter exists only once no job can be dispatched any more, and what it
\* has seen drained stays drained.
Drained ==
  /\ working \in Nat
  /\ waiter \in {"none", "waiting", "done"}
  /\ waiter # "none" => shuttingDown = TRUE
  /\ waiter = "done" => working = 0

\* The steps of Start, which may subscribe after Shutdown has begun to wait.
LEMMA MainStepDrained ==
  ASSUME Drained, Lifecycle!MainStep
  PROVE  Drained'
  <1>1. CASE Lifecycle!Subscribe
    BY Zenon, <1>1 DEF Lifecycle!Subscribe, Drained
  <1>2. CASE Lifecycle!StopOnCancel
    BY Zenon, <1>2 DEF Lifecycle!StopOnCancel, Drained
  <1>3. CASE \/ Lifecycle!Start \/ Lifecycle!SubscribeFails \/ Lifecycle!EnterMainLoop
             \/ Lifecycle!StopReturns \/ Lifecycle!LoopEnds
    BY Zenon, <1>3 DEF Lifecycle!Start, Lifecycle!SubscribeFails, Lifecycle!EnterMainLoop,
                       Lifecycle!StopReturns, Lifecycle!LoopEnds, Drained
  <1>q. QED BY ZenonT(30), <1>1, <1>2, <1>3 DEF Lifecycle!MainStep

\* The steps of fetchAndDispatch, the goroutines it starts, Shutdown and the
\* goroutine that waits.
LEMMA PoolStepDrained ==
  ASSUME Drained,
         \/ Lifecycle!Dispatch \/ Lifecycle!JobEnds \/ Lifecycle!CancelContext
         \/ Lifecycle!Shutdown \/ Lifecycle!WaitBegins \/ Lifecycle!WaitReturns
         \/ \E i \in 1..Len(QueueList) : Lifecycle!ListenerEnds(i)
  PROVE  Drained'
  <1>1. CASE Lifecycle!Dispatch
    <2>1. ~shuttingDown /\ working' = working + 1
          /\ UNCHANGED <<shuttingDown, waiter>>
      BY Zenon, <1>1 DEF Lifecycle!Dispatch, Lifecycle!DispatchAllowed
    <2>2. waiter = "none" /\ working' \in Nat
      BY <2>1 DEF Drained
    <2>q. QED BY Zenon, <2>1, <2>2 DEF Drained
  <1>2. CASE Lifecycle!JobEnds
    <2>1. working > 0 /\ working' = working - 1
          /\ UNCHANGED <<shuttingDown, waiter>>
      BY Zenon, <1>2 DEF Lifecycle!JobEnds
    <2>2. waiter # "done" /\ working' \in Nat
      BY <2>1 DEF Drained
    <2>q. QED BY Zenon, <2>1, <2>2 DEF Drained
  <1>3. CASE Lifecycle!CancelContext \/ Lifecycle!Shutdown \/ Lifecycle!WaitBegins
    BY Zenon, <1>3 DEF Lifecycle!CancelContext, Lifecycle!Shutdown, Lifecycle!WaitBegins,
                       Drained
  <1>4. CASE Lifecycle!WaitReturns
    BY Zenon, <1>4 DEF Lifecycle!WaitReturns, Lifecycle!wgZero, Drained
  <1>5. CASE \E i \in 1..Len(QueueList) : Lifecycle!ListenerEnds(i)
    BY Zenon, <1>5 DEF Lifecycle!ListenerEnds, Drained
  <1>q. QED BY ZenonT(30), <1>1, <1>2, <1>3, <1>4, <1>5

\* Shutdown returns nil only when no claimed job is left, and none is claimed
\* later, for any number of queues and jobs and although listeners may join the
\* WaitGroup while Shutdown waits (Shutdown, fetchAndDispatch).
THEOREM ShutdownDrained == Lifecycle!Spec => []Lifecycle!ShutdownMeansDrained
  <1>1. Lifecycle!Init => Drained
    BY DEF Lifecycle!Init, Drained
  <1>2. Drained /\ [Lifecycle!Next]_(Lifecycle!vars) => Drained'
    <2>1. Drained /\ UNCHANGED Lifecycle!vars => Drained'
      BY Zenon DEF Lifecycle!vars, Drained
    <2>q. QED BY ZenonT(30), <2>1, MainStepDrained, PoolStepDrained DEF Lifecycle!Next
  <1>3. Drained => Lifecycle!ShutdownMeansDrained
    BY Zenon DEF Drained, Lifecycle!ShutdownMeansDrained
  <1>q. QED BY <1>1, <1>2, <1>3, PTL DEF Lifecycle!Spec

=============================================================================
