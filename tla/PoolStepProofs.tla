----------------------------- MODULE PoolStepProofs ---------------------------
(***************************************************************************)
(* The invariant of one worker pool, PoolInv, and the steps of its         *)
(* goroutines that keep it; PoolProofs adds the fetch loop and has the     *)
(* theorems.                                                               *)
(*                                                                         *)
(* The argument has three parts.  A reference-counted semaphore counts its *)
(* users and its holders exactly, whatever they do (Counted).  The stage   *)
(* of a goroutine says what it holds (StageOK).  And the goroutines of a   *)
(* pipeline form a chain that ends in its tail (ChainInv).                 *)
(***************************************************************************)
EXTENDS WorkerPool, TLAPS

-----------------------------------------------------------------------------
(* Counting slots.  The lemmas below rest on these facts about sets of     *)
(* slots, of which there are finitely many; SlotsCount of PoolProofs       *)
(* proves them.                                                            *)

SlotCounts ==
  /\ Cardinality({}) = 0
  /\ \A A \in SUBSET Slots :
       /\ Cardinality(A) \in Nat
       /\ Cardinality(A) = 0 => A = {}
       /\ Cardinality(A) = 1 => \E s : A = {s}
       /\ \A s \in Slots \ A : Cardinality(A \cup {s}) = Cardinality(A) + 1
       /\ \A s \in A : Cardinality(A \ {s}) = Cardinality(A) - 1
       /\ \A B \in SUBSET A : Cardinality(B) <= Cardinality(A)

\* Sets of slots are counted, and one more slot is one more at most.
LEMMA SlotSets ==
  ASSUME SlotCounts, NEW A, A \subseteq Slots
  PROVE  /\ Cardinality(A) \in Nat
         /\ \A B : B \subseteq A => Cardinality(B) <= Cardinality(A)
         /\ \A s \in Slots : \A B :
              B \subseteq A \cup {s} => Cardinality(B) <= Cardinality(A) + 1
<1>1. /\ Cardinality(A) \in Nat
      /\ \A B : B \subseteq A => Cardinality(B) <= Cardinality(A)
  BY Zenon DEF SlotCounts
<1>2. ASSUME NEW s \in Slots, NEW B, B \subseteq A \cup {s}
      PROVE  Cardinality(B) <= Cardinality(A) + 1
  <2>1. A \cup {s} \in SUBSET Slots
    BY Zenon
  <2>2. Cardinality(B) \in Nat /\ Cardinality(B) <= Cardinality(A \cup {s})
    BY Zenon, <1>2, <2>1 DEF SlotCounts
  <2>3. CASE s \in A
    <3>1. A \cup {s} = A
      BY Zenon, <2>3
    <3> QED
      BY <1>1, <2>2, <3>1
  <2>4. CASE s \notin A
    <3>1. Cardinality(A \cup {s}) = Cardinality(A) + 1
      BY Zenon, <2>4 DEF SlotCounts
    <3> QED
      BY Zenon, <2>2, <3>1
  <2> QED
    BY Zenon, <2>3, <2>4
<1> QED
  BY Zenon, <1>1, <1>2

-----------------------------------------------------------------------------
(* Reference-counted semaphores: keySemaphores and rateGates.  The slots   *)
(* that refer to an entry are u, the ones with a place in it h.            *)

Users(u, k) == {s \in Slots : k \in u[s]}

Counted(sems, u, h) ==
  /\ \A s \in Slots : h[s] \subseteq u[s] /\ u[s] \subseteq DOMAIN sems
  /\ \A k \in DOMAIN sems :
       /\ sems[k] \in Semaphores
       /\ sems[k].refs = Cardinality(Users(u, k))
       /\ sems[k].held = Cardinality(Users(h, k))
       /\ sems[k].held <= sems[k].cap

\* Slot s adds the entry k to its own, or takes the entries K off.
Joins(u, v, s, k) ==
  /\ s \in Slots /\ k \notin u[s]
  /\ \A t \in Slots : v[t] = IF t = s THEN u[s] \cup {k} ELSE u[t]
Leaves(u, v, s, K) ==
  /\ s \in Slots /\ K \subseteq u[s]
  /\ \A t \in Slots : v[t] = IF t = s THEN u[s] \ K ELSE u[t]

\* The users of an entry can be counted.
LEMMA UsersCounted ==
  ASSUME SlotCounts, NEW u, NEW k
  PROVE  /\ Users(u, k) \in SUBSET Slots /\ Cardinality(Users(u, k)) \in Nat
         /\ Cardinality(Users(u, k)) = 0 => Users(u, k) = {}
         /\ Cardinality(Users(u, k)) = 1 => \E y : Users(u, k) = {y}
<1>1. Users(u, k) \in SUBSET Slots
  BY Zenon DEF Users
<1> QED
  BY Zenon, <1>1 DEF SlotCounts

\* One slot joins the users of an entry, and of no other.
LEMMA UserJoins ==
  ASSUME SlotCounts, NEW u, NEW v, NEW s, NEW k, Joins(u, v, s, k)
  PROVE  /\ Cardinality(Users(v, k)) = Cardinality(Users(u, k)) + 1
         /\ \A x : x # k => Users(v, x) = Users(u, x)
<1>1. Users(v, k) = Users(u, k) \cup {s} /\ s \notin Users(u, k)
  BY Zenon DEF Users, Joins
<1>2. \A x : x # k => Users(v, x) = Users(u, x)
  BY Zenon DEF Users, Joins
<1>3. Cardinality(Users(u, k) \cup {s}) = Cardinality(Users(u, k)) + 1
  BY Zenon, <1>1, UsersCounted DEF SlotCounts, Joins
<1> QED
  BY Zenon, <1>1, <1>2, <1>3

\* One slot leaves the users of the entries K, and of no other.
LEMMA UserLeaves ==
  ASSUME SlotCounts, NEW u, NEW v, NEW s, NEW K, Leaves(u, v, s, K)
  PROVE  /\ \A x \in K : /\ Users(v, x) = Users(u, x) \ {s}
                        /\ s \in Users(u, x)
                        /\ Cardinality(Users(v, x)) = Cardinality(Users(u, x)) - 1
         /\ \A x : x \notin K => Users(v, x) = Users(u, x)
<1>1. ASSUME NEW x \in K
      PROVE  Users(v, x) = Users(u, x) \ {s} /\ s \in Users(u, x)
  BY Zenon DEF Users, Leaves
<1>2. ASSUME NEW x, x \notin K
      PROVE  Users(v, x) = Users(u, x)
  BY Zenon, <1>2 DEF Users, Leaves
<1>3. ASSUME NEW x \in K
      PROVE  Cardinality(Users(u, x) \ {s}) = Cardinality(Users(u, x)) - 1
  BY Zenon, <1>1, UsersCounted DEF SlotCounts
<1> QED
  BY Zenon, <1>1, <1>2, <1>3

\* The steps of a user: sems and new are the map before and after, u and v
\* its users, h and g its holders.
Refers(sems, new, u, v, h, s, k, cap) ==
  /\ Counted(sems, u, h) /\ DOMAIN u = Slots /\ s \in Slots
  /\ k \notin u[s] /\ cap \in Nat \ {0}
  /\ new = Refer(sems, k, cap) /\ v = [u EXCEPT ![s] = u[s] \cup {k}]

Takes(sems, new, u, h, g, s, k) ==
  /\ Counted(sems, u, h) /\ DOMAIN h = Slots /\ s \in Slots
  /\ k \in u[s] /\ k \notin h[s] /\ CanTake(sems, k)
  /\ new = Take(sems, k) /\ g = [h EXCEPT ![s] = h[s] \cup {k}]

Returns(sems, new, u, v, h, g, s, K) ==
  /\ Counted(sems, u, h) /\ DOMAIN u = Slots /\ DOMAIN h = Slots /\ s \in Slots
  /\ K \subseteq h[s] /\ new = Return(sems, K)
  /\ v = [u EXCEPT ![s] = u[s] \ K] /\ g = [h EXCEPT ![s] = h[s] \ K]

Drops(sems, new, u, v, h, s, k) ==
  /\ Counted(sems, u, h) /\ DOMAIN u = Slots /\ s \in Slots
  /\ k \in u[s] /\ k \notin h[s]
  /\ new = Drop(sems, {k}) /\ v = [u EXCEPT ![s] = u[s] \ {k}]

\* A semaphore keeps its capacity as long as it is in the map.
SameCaps(new, old) == \A k \in DOMAIN new : k \in DOMAIN old /\ new[k].cap = old[k].cap

\* The same map with one more semaphore, or none if k has one.
Extended(new, old, k, cap) ==
  /\ DOMAIN new = DOMAIN old \cup {k}
  /\ \A x \in DOMAIN old : new[x].cap = old[x].cap
  /\ k \notin DOMAIN old => new[k].cap = cap

\* The entry that a caller finds or makes (the first lookup of
\* acquireKeyConcurrency and acquireRateGate).
LEMMA ReferCounted ==
  ASSUME SlotCounts, NEW sems, NEW new, NEW u, NEW v, NEW h, NEW s, NEW k, NEW cap,
         Refers(sems, new, u, v, h, s, k, cap)
  PROVE  Counted(new, v, h) /\ Extended(new, sems, k, cap)
<1>0. /\ Counted(sems, u, h) /\ DOMAIN u = Slots /\ s \in Slots
      /\ k \notin u[s] /\ cap \in Nat \ {0}
  BY Zenon DEF Refers
<1> USE <1>0
<1>1. v = [u EXCEPT ![s] = @ \cup {k}]
  BY Zenon DEF Refers
<1>2. new = Refer(sems, k, cap)
  BY Zenon DEF Refers
<1>3. PICK e : e = Entry(sems, k, cap)
  BY Zenon
<1>4. /\ DOMAIN new = DOMAIN sems \cup {k}
      /\ \A x \in DOMAIN sems : x # k => new[x] = sems[x]
      /\ new[k] = [e EXCEPT !.refs = @ + 1]
  <2>1. PICK f : f = [e EXCEPT !.refs = @ + 1]
    BY Zenon
  <2>2. new = [x \in DOMAIN sems \cup {k} |-> IF x = k THEN f ELSE sems[x]]
    BY Zenon, <1>2, <1>3, <2>1 DEF Refer
  <2> QED
    BY Zenon, <2>1, <2>2
<1>5. /\ Cardinality(Users(v, k)) = Cardinality(Users(u, k)) + 1
      /\ \A x : x # k => Users(v, x) = Users(u, x)
  <2>1. Joins(u, v, s, k)
    BY Zenon, <1>1 DEF Joins
  <2> QED
    BY <2>1, UserJoins
<1>6. /\ e \in [cap : Nat \ {0}, held : Nat, refs : Nat]
      /\ e.refs = Cardinality(Users(u, k)) /\ e.held = Cardinality(Users(h, k))
      /\ e.held <= e.cap
      /\ k \in DOMAIN sems => e.cap = sems[k].cap
      /\ k \notin DOMAIN sems => e.cap = cap
  <2>1. CASE k \in DOMAIN sems
    BY Zenon, <1>3, <2>1 DEF Entry, Counted, Semaphores
  <2>2. CASE k \notin DOMAIN sems
    <3>1. e = [cap |-> cap, held |-> 0, refs |-> 0]
      BY Zenon, <1>3, <2>2 DEF Entry
    <3>2. Users(u, k) = {} /\ Users(h, k) = {}
      BY Zenon, <2>2 DEF Users, Counted
    <3>3. Cardinality(Users(u, k)) = 0 /\ Cardinality(Users(h, k)) = 0
      BY Zenon, <3>2 DEF SlotCounts
    <3> QED
      BY <2>2, <3>1, <3>3
  <2> QED
    BY Zenon, <2>1, <2>2
<1>7. /\ new[k] \in Semaphores /\ new[k].refs = e.refs + 1
      /\ new[k].held = e.held /\ new[k].cap = e.cap
  BY <1>4, <1>6 DEF Semaphores
<1>8. \A t \in Slots : h[t] \subseteq v[t] /\ v[t] \subseteq DOMAIN new
  BY Zenon, <1>1, <1>4 DEF Counted
<1>9. ASSUME NEW x \in DOMAIN new
      PROVE  /\ new[x] \in Semaphores
             /\ new[x].refs = Cardinality(Users(v, x))
             /\ new[x].held = Cardinality(Users(h, x))
             /\ new[x].held <= new[x].cap
  <2>1. CASE x = k
    BY Zenon, <1>5, <1>6, <1>7, <2>1
  <2>2. CASE x # k
    BY Zenon, <1>4, <1>5, <2>2 DEF Counted
  <2> QED
    BY Zenon, <2>1, <2>2
<1>10. Counted(new, v, h)
  BY Zenon, <1>8, <1>9 DEF Counted
<1>11. \A x \in DOMAIN sems : new[x].cap = sems[x].cap
  BY Zenon, <1>4, <1>6, <1>7
<1> QED
  BY Zenon, <1>4, <1>6, <1>7, <1>10, <1>11 DEF Extended

\* A place in an entry (the send on entry.ch and on gate.ch).
LEMMA TakeCounted ==
  ASSUME SlotCounts, NEW sems, NEW new, NEW u, NEW h, NEW g, NEW s, NEW k,
         Takes(sems, new, u, h, g, s, k)
  PROVE  Counted(new, u, g) /\ SameCaps(new, sems)
<1>0. /\ Counted(sems, u, h) /\ DOMAIN h = Slots /\ s \in Slots
      /\ k \in u[s] /\ k \notin h[s] /\ CanTake(sems, k)
  BY Zenon DEF Takes
<1> USE <1>0
<1>1. g = [h EXCEPT ![s] = @ \cup {k}]
  BY Zenon DEF Takes
<1>2. new = Take(sems, k)
  BY Zenon DEF Takes
<1>3. k \in DOMAIN sems /\ sems[k] \in Semaphores /\ sems[k].held < sems[k].cap
  BY Zenon DEF Counted, CanTake
<1>4. /\ DOMAIN new = DOMAIN sems
      /\ \A x \in DOMAIN sems : x # k => new[x] = sems[x]
      /\ new[k] = [sems[k] EXCEPT !.held = @ + 1]
  BY Zenon, <1>2, <1>3 DEF Take
<1>5. /\ new[k] \in Semaphores /\ new[k].held = sems[k].held + 1
      /\ new[k].refs = sems[k].refs /\ new[k].cap = sems[k].cap
  BY <1>3, <1>4 DEF Semaphores
<1>6. /\ Cardinality(Users(g, k)) = Cardinality(Users(h, k)) + 1
      /\ \A x : x # k => Users(g, x) = Users(h, x)
  <2>1. Joins(h, g, s, k)
    BY Zenon, <1>1 DEF Joins
  <2> QED
    BY <2>1, UserJoins
<1>7. \A t \in Slots : g[t] \subseteq u[t] /\ u[t] \subseteq DOMAIN new
  BY Zenon, <1>1, <1>4 DEF Counted
<1>8. ASSUME NEW x \in DOMAIN new
      PROVE  /\ new[x] \in Semaphores
             /\ new[x].refs = Cardinality(Users(u, x))
             /\ new[x].held = Cardinality(Users(g, x))
             /\ new[x].held <= new[x].cap
  <2>1. CASE x = k
    <3>1. sems[k].refs = Cardinality(Users(u, k)) /\ sems[k].held = Cardinality(Users(h, k))
      BY Zenon, <1>3 DEF Counted
    <3>2. sems[k].held \in Nat /\ sems[k].cap \in Nat
      BY Zenon, <1>3 DEF Semaphores
    <3> QED
      BY <1>3, <1>5, <1>6, <2>1, <3>1, <3>2
  <2>2. CASE x # k
    BY Zenon, <1>4, <1>6, <2>2 DEF Counted
  <2> QED
    BY Zenon, <2>1, <2>2
<1>9. Counted(new, u, g)
  BY Zenon, <1>7, <1>8 DEF Counted
<1> QED
  BY Zenon, <1>1, <1>2, <1>4, <1>5, <1>9 DEF SameCaps

\* Places and references given back together: Return of the entries K.
LEMMA ReturnCounted ==
  ASSUME SlotCounts, NEW sems, NEW new, NEW u, NEW v, NEW h, NEW g, NEW s, NEW K,
         Returns(sems, new, u, v, h, g, s, K)
  PROVE  Counted(new, v, g) /\ SameCaps(new, sems)
<1>0. /\ Counted(sems, u, h) /\ DOMAIN u = Slots /\ DOMAIN h = Slots /\ s \in Slots
      /\ K \subseteq h[s]
  BY Zenon DEF Returns
<1> USE <1>0
<1>1. v = [u EXCEPT ![s] = @ \ K] /\ g = [h EXCEPT ![s] = @ \ K]
  BY Zenon DEF Returns
<1>2. PICK mid : mid = GivePlaces(sems, K)
  BY Zenon
<1>3. new = Return(sems, K)
  BY Zenon DEF Returns
<1>4. K \subseteq u[s] /\ K \subseteq DOMAIN sems
  BY Zenon DEF Counted
<1>5. ASSUME NEW x \in DOMAIN sems
      PROVE  /\ mid[x] = IF x \in K THEN [sems[x] EXCEPT !.held = @ - 1] ELSE sems[x]
             /\ mid[x].refs = sems[x].refs
  <2>1. mid[x] = IF x \in K THEN [sems[x] EXCEPT !.held = @ - 1] ELSE sems[x]
    BY Zenon, <1>2 DEF GivePlaces
  <2>2. sems[x] \in Semaphores
    BY Zenon DEF Counted
  <2> QED
    BY Zenon, <2>1, <2>2 DEF Semaphores
<1>6. DOMAIN mid = DOMAIN sems
  BY Zenon, <1>2 DEF GivePlaces
<1>7. /\ DOMAIN new = DOMAIN sems \ {x \in K : sems[x].refs = 1}
      /\ \A x \in DOMAIN new :
           new[x] = IF x \in K THEN [mid[x] EXCEPT !.refs = @ - 1] ELSE mid[x]
  <2>1. {x \in K : mid[x].refs = 1} = {x \in K : sems[x].refs = 1}
    BY Zenon, <1>4, <1>5
  <2>2. new = [x \in DOMAIN mid \ {y \in K : mid[y].refs = 1} |->
                 IF x \in K THEN [mid[x] EXCEPT !.refs = @ - 1] ELSE mid[x]]
    BY Zenon, <1>2, <1>3 DEF Return, Drop
  <2> QED
    BY Zenon, <1>6, <2>1, <2>2
<1>8. /\ \A x \in K : /\ Users(v, x) = Users(u, x) \ {s}
                     /\ s \in Users(u, x)
                     /\ Cardinality(Users(v, x)) = Cardinality(Users(u, x)) - 1
      /\ \A x : x \notin K => Users(v, x) = Users(u, x)
  <2>1. Leaves(u, v, s, K)
    BY Zenon, <1>1, <1>4 DEF Leaves
  <2> QED
    BY <2>1, UserLeaves
<1>9. /\ \A x \in K : /\ Users(g, x) = Users(h, x) \ {s}
                     /\ s \in Users(h, x)
                     /\ Cardinality(Users(g, x)) = Cardinality(Users(h, x)) - 1
      /\ \A x : x \notin K => Users(g, x) = Users(h, x)
  <2>1. Leaves(h, g, s, K)
    BY Zenon, <1>1 DEF Leaves
  <2> QED
    BY <2>1, UserLeaves
<1>10. ASSUME NEW x \in DOMAIN new
       PROVE  /\ new[x] \in Semaphores /\ new[x].cap = sems[x].cap
              /\ new[x].refs = Cardinality(Users(v, x))
              /\ new[x].held = Cardinality(Users(g, x))
              /\ new[x].held <= new[x].cap
  <2>1. /\ x \in DOMAIN sems /\ sems[x] \in Semaphores
        /\ sems[x].refs = Cardinality(Users(u, x))
        /\ sems[x].held = Cardinality(Users(h, x)) /\ sems[x].held <= sems[x].cap
    BY Zenon, <1>7 DEF Counted
  <2>2. CASE x \in K
    <3>1. sems[x].refs # 1
      BY Zenon, <1>7, <2>2
    <3>2. sems[x].held # 0
      <4>1. Users(h, x) # {}
        BY Zenon, <1>9, <2>2
      <4> QED
        BY Zenon, <2>1, <4>1, UsersCounted
    <3>3. PICK c \in Nat \ {0}, n \in Nat \ {0}, m \in Nat \ {0} :
            sems[x] = [cap |-> c, held |-> n, refs |-> m]
      BY Zenon, <2>1, <3>2 DEF Semaphores
    <3>4. mid[x] = [cap |-> c, held |-> n - 1, refs |-> m]
      BY <1>5, <2>1, <2>2, <3>3
    <3>5. new[x] = [cap |-> c, held |-> n - 1, refs |-> m - 1]
      BY <1>7, <2>2, <3>4
    <3>6. m # 1 /\ m - 1 \in Nat \ {0} /\ n - 1 \in Nat /\ n <= c
      BY <2>1, <3>1, <3>3
    <3>7. new[x] \in Semaphores
      BY <3>5, <3>6 DEF Semaphores
    <3> QED
      BY <1>8, <1>9, <2>1, <2>2, <3>3, <3>5, <3>6, <3>7
  <2>3. CASE x \notin K
    BY Zenon, <1>5, <1>7, <1>8, <1>9, <2>1, <2>3
  <2> QED
    BY Zenon, <2>2, <2>3
<1>11. ASSUME NEW t \in Slots
       PROVE  g[t] \subseteq v[t] /\ v[t] \subseteq DOMAIN new
  <2>1. g[t] \subseteq v[t]
    BY Zenon, <1>1 DEF Counted
  <2>2. ASSUME NEW x \in v[t] PROVE x \in DOMAIN new
    <3>1. x \in DOMAIN sems /\ t \in Users(v, x)
      BY Zenon, <1>1 DEF Counted, Users
    <3>2. CASE x \in K /\ sems[x].refs = 1
      <4>1. Cardinality(Users(u, x)) = 1
        BY Zenon, <3>1, <3>2 DEF Counted
      <4>2. PICK y : Users(u, x) = {y}
        BY Zenon, <4>1, UsersCounted
      <4> QED
        BY Zenon, <1>8, <3>1, <3>2, <4>2
    <3> QED
      BY Zenon, <1>7, <3>1, <3>2
  <2> QED
    BY Zenon, <2>1, <2>2
<1>12. Counted(new, v, g)
  BY Zenon, <1>10, <1>11 DEF Counted
<1> QED
  BY Zenon, <1>1, <1>3, <1>7, <1>10, <1>12 DEF SameCaps

\* A reference given back by a waiter that never got a place: Drop of k.
LEMMA DropCounted ==
  ASSUME SlotCounts, NEW sems, NEW new, NEW u, NEW v, NEW h, NEW s, NEW k,
         Drops(sems, new, u, v, h, s, k)
  PROVE  Counted(new, v, h) /\ SameCaps(new, sems)
<1>0. /\ Counted(sems, u, h) /\ DOMAIN u = Slots /\ s \in Slots
      /\ k \in u[s] /\ k \notin h[s]
  BY Zenon DEF Drops
<1> USE <1>0
<1>1. v = [u EXCEPT ![s] = @ \ {k}]
  BY Zenon DEF Drops
<1>2. new = Drop(sems, {k})
  BY Zenon DEF Drops
<1>3. /\ k \in DOMAIN sems /\ sems[k] \in Semaphores
      /\ sems[k].refs = Cardinality(Users(u, k))
  BY Zenon DEF Counted
<1>4. /\ DOMAIN new = DOMAIN sems \ {x \in {k} : sems[x].refs = 1}
      /\ \A x \in DOMAIN new :
           new[x] = IF x = k THEN [sems[k] EXCEPT !.refs = @ - 1] ELSE sems[x]
  BY Zenon, <1>2 DEF Drop
<1>5. /\ \A x \in {k} : /\ Users(v, x) = Users(u, x) \ {s}
                       /\ s \in Users(u, x)
                       /\ Cardinality(Users(v, x)) = Cardinality(Users(u, x)) - 1
      /\ \A x : x \notin {k} => Users(v, x) = Users(u, x)
  <2>1. Leaves(u, v, s, {k})
    BY Zenon, <1>1 DEF Leaves
  <2> QED
    BY <2>1, UserLeaves
<1>6. ASSUME NEW x \in DOMAIN new
      PROVE  /\ new[x] \in Semaphores /\ new[x].cap = sems[x].cap
             /\ new[x].refs = Cardinality(Users(v, x))
             /\ new[x].held = Cardinality(Users(h, x))
             /\ new[x].held <= new[x].cap
  <2>1. /\ x \in DOMAIN sems /\ sems[x] \in Semaphores
        /\ sems[x].refs = Cardinality(Users(u, x))
        /\ sems[x].held = Cardinality(Users(h, x)) /\ sems[x].held <= sems[x].cap
    BY Zenon, <1>4 DEF Counted
  <2>2. CASE x = k
    <3>1. sems[k].refs # 1
      BY Zenon, <1>4, <2>2
    <3>2. PICK c \in Nat \ {0}, n \in Nat, m \in Nat \ {0} :
            sems[k] = [cap |-> c, held |-> n, refs |-> m]
      BY Zenon, <1>3 DEF Semaphores
    <3>3. new[k] = [cap |-> c, held |-> n, refs |-> m - 1]
      BY <1>4, <2>2, <3>2
    <3>4. m # 1 /\ m - 1 \in Nat \ {0}
      BY <3>1, <3>2
    <3>5. new[k] \in Semaphores
      BY <3>3, <3>4 DEF Semaphores
    <3>6. Cardinality(Users(v, k)) = Cardinality(Users(u, k)) - 1
      BY Zenon, <1>5
    <3> QED
      BY <2>1, <2>2, <3>2, <3>3, <3>5, <3>6
  <2>3. CASE x # k
    BY Zenon, <1>4, <1>5, <2>1, <2>3
  <2> QED
    BY Zenon, <2>2, <2>3
<1>7. ASSUME NEW t \in Slots
      PROVE  h[t] \subseteq v[t] /\ v[t] \subseteq DOMAIN new
  <2>1. h[t] \subseteq v[t]
    BY Zenon, <1>1 DEF Counted
  <2>2. ASSUME NEW x \in v[t] PROVE x \in DOMAIN new
    <3>1. x \in DOMAIN sems /\ t \in Users(v, x)
      BY Zenon, <1>1 DEF Counted, Users
    <3>2. CASE x = k /\ sems[k].refs = 1
      <4>1. Cardinality(Users(u, k)) = 1
        BY Zenon, <1>3, <3>2
      <4>2. PICK y : Users(u, k) = {y}
        BY Zenon, <4>1, UsersCounted
      <4> QED
        BY Zenon, <1>5, <3>1, <3>2, <4>2
    <3> QED
      BY Zenon, <1>4, <3>1, <3>2
  <2> QED
    BY Zenon, <2>1, <2>2
<1>8. Counted(new, v, h)
  BY Zenon, <1>6, <1>7 DEF Counted
<1> QED
  BY Zenon, <1>1, <1>2, <1>4, <1>6, <1>8 DEF SameCaps

\* A semaphore of one place has one holder (gate.ch).
LEMMA OneHolder ==
  ASSUME SlotCounts, NEW sems, NEW u, NEW h, Counted(sems, u, h),
         NEW s \in Slots, NEW t \in Slots, NEW k \in h[s], k \in h[t], sems[k].cap = 1
  PROVE  s = t
<1>1. k \in DOMAIN sems
  BY Zenon DEF Counted
<1>2. sems[k].held = Cardinality(Users(h, k)) /\ sems[k].held <= 1
  BY Zenon, <1>1 DEF Counted
<1>3. s \in Users(h, k) /\ t \in Users(h, k)
  BY Zenon DEF Users
<1>4. Cardinality(Users(h, k)) \in Nat /\ Cardinality(Users(h, k)) # 0
  BY Zenon, <1>3, UsersCounted
<1>6. Cardinality(Users(h, k)) = 1
  BY <1>2, <1>4
<1>7. PICK y : Users(h, k) = {y}
  BY Zenon, <1>6, UsersCounted
<1> QED
  BY Zenon, <1>3, <1>7

-----------------------------------------------------------------------------
(* What a goroutine holds.                                                 *)

TakenBy(g)  == {KeyEntry(JobOf[g.job], i, g.rules[i]) : i \in 1..g.keys}
WantedBy(g) == KeyEntry(JobOf[g.job], g.keys + 1, g.rules[g.keys + 1])

HoldsKeys(g)  == IF g = Idle THEN {} ELSE TakenBy(g)
RefersKeys(g) ==
  IF g = Idle THEN {} ELSE IF g.want THEN TakenBy(g) \cup {WantedBy(g)} ELSE TakenBy(g)

HoldsGate(g)  == IF g # Idle /\ "gate" \in g.defers THEN {g.gate} ELSE {}
RefersGate(g) == IF g = Idle \/ g.gate = None THEN {} ELSE {g.gate}

KeyHolders == [s \in Slots |-> HoldsKeys(gor[s])]
KeyUsers   == [s \in Slots |-> RefersKeys(gor[s])]
GateHolders == [s \in Slots |-> HoldsGate(gor[s])]
GateUsers   == [s \in Slots |-> RefersGate(gor[s])]

Base == {"pending", "queue", "pipeline"}

Admitted == {"gate", "kind", "sem", "rate", "handling"}

KindLimit(g) == KindConcurrency[JobOf[g.job].kind]

\* The stage of a goroutine says which deferred calls it has.
StageOK(g) ==
  /\ g.keys <= Len(g.rules)
  /\ "pending" \in g.defers
  /\ g.stage \in {"pipeline", "keys"} => g.defers = Base /\ g.gate = None
  /\ g.stage = "pipeline" => g.keys = 0 /\ g.rules = << >>
  /\ g.want => g.stage = "keys" /\ g.keys < Len(g.rules)
  /\ g.keys # 0 => g.stage = "keys" \/ "keys" \in g.defers
  /\ g.gate # None => g.stage = "gate" \/ "gate" \in g.defers
  /\ "gate" \in g.defers => g.gate # None
  /\ g.stage = "gate" => g.defers = Base \cup {"keys"}
  /\ g.stage \in {"kind", "sem", "rate", "handling"} => Base \cup {"keys"} \subseteq g.defers
  /\ g.stage = "kind" => "kind" \notin g.defers
  /\ g.stage \in {"kind", "sem"} => "sem" \notin g.defers
  /\ g.stage \in {"sem", "rate", "handling"} /\ KindLimit(g) > 0 => "kind" \in g.defers
  /\ g.stage \in {"rate", "handling"} => "sem" \in g.defers
  /\ g.stage \in Admitted => g.keys = Len(g.rules)

-----------------------------------------------------------------------------
(* The inductive invariant.                                                *)

MiscOK ==
  /\ store \in [JobIDs -> {"available", "running", "done"}]
  /\ policies \in [ConfiguredQueues -> Policies]
  /\ fetch = None \/ fetch \in [free : 0..Cardinality(Slots), misses : Nat]
  /\ cursor \in 0..ScheduleLength - 1
  /\ shuttingDown \in BOOLEAN /\ ctx \in {"live", "done"}
  /\ updates \in Nat /\ faults \in Nat
  /\ broken \subseteq Pipelines

GorOK ==
  /\ gor \in [Slots -> {Idle} \cup Goroutines]
  /\ \A s \in Slots : gor[s] # Idle => StageOK(gor[s])

\* Until a policy is replaced, a goroutine follows the rules of its queue.
RulesInv ==
  updates = 0 => \A s \in Slots :
    gor[s] # Idle /\ gor[s].stage \in Admitted \cup {"keys"} =>
      gor[s].rules = KeyRules(JobOf[gor[s].job].queue)

KeyInv  == Counted(keySemaphores, KeyUsers, KeyHolders)
GateInv == Counted(rateGates, GateUsers, GateHolders)

\* The capacity of a semaphore is the limit of its rule; a gate has one place.
CapInv ==
  /\ \A k \in DOMAIN rateGates : rateGates[k].cap = 1
  /\ updates = 0 =>
       \A k \in DOMAIN keySemaphores, q \in ConfiguredQueues : \A i \in DOMAIN KeyRules(q) :
         k[1] = q /\ k[2] = i => keySemaphores[k].cap = KeyRules(q)[i].limit

QueueHolders(q) ==
  {s \in Slots : /\ gor[s] # Idle /\ "queue" \in gor[s].defers
                 /\ JobOf[gor[s].job].queue = q}
SemHolders == {s \in Slots : gor[s] # Idle /\ "sem" \in gor[s].defers}
KindHolders(kind) ==
  {s \in Slots : /\ gor[s] # Idle /\ "kind" \in gor[s].defers
                 /\ JobOf[gor[s].job].kind = kind}

QueueInv ==
  /\ active \in [ConfiguredQueues -> Nat]
  /\ \A q \in ConfiguredQueues :
       /\ active[q] = Cardinality(QueueHolders(q))
       /\ updates = 0 /\ policies[q].concurrency > 0 => active[q] <= policies[q].concurrency

SemInv == Cardinality(SemHolders) <= Concurrency

KindInv ==
  \A kind \in Kinds : KindConcurrency[kind] > 0 =>
    Cardinality(KindHolders(kind)) <= KindConcurrency[kind]

\* The goroutine has a place in the chain of pipeline l and has not closed
\* its done channel.
InChain(g, l) == g # Idle /\ "pipeline" \in g.defers /\ JobOf[g.job].pipeline = l

\* A goroutine waits for one of its own pipeline.
AfterInv ==
  \A s \in Slots : gor[s] # Idle /\ gor[s].after # None =>
    /\ JobOf[gor[s].job].pipeline \in Pipelines
    /\ InChain(gor[gor[s].after], JobOf[gor[s].job].pipeline)

\* No two wait for the same one.
ForkInv ==
  \A s, t \in Slots :
    /\ gor[s] # Idle /\ gor[t] # Idle
    /\ gor[s].after # None /\ gor[s].after = gor[t].after
    => s = t

\* The tail is in the chain and nobody waits for it yet.
TailInv ==
  /\ tails \in [Pipelines -> Slots \cup {None}]
  /\ \A l \in Pipelines : tails[l] # None =>
       /\ InChain(gor[tails[l]], l)
       /\ \A t \in Slots : gor[t] # Idle => gor[t].after # tails[l]

\* Whom a goroutine waits for was claimed before it: no cycles.
RankInv ==
  \E rank \in [Slots -> Nat] :
    \A s \in Slots : gor[s] # Idle /\ gor[s].after # None => rank[gor[s].after] < rank[s]

\* In a pipeline that nobody has left early, only the waiting wait, one at
\* most does not wait, and a chain with a member has a tail.
TurnInv ==
  \A l \in Pipelines \ broken :
    /\ \A s \in Slots :
         /\ gor[s] # Idle /\ JobOf[gor[s].job].pipeline = l /\ gor[s].stage # "pipeline"
         => gor[s].after = None
    /\ \A s, t \in Slots :
         /\ InChain(gor[s], l) /\ InChain(gor[t], l)
         /\ gor[s].after = None /\ gor[t].after = None
         => s = t
    /\ \A s \in Slots : InChain(gor[s], l) => tails[l] # None

ChainInv == AfterInv /\ ForkInv /\ TailInv /\ RankInv /\ TurnInv

SemaphoreInv == KeyInv /\ GateInv /\ CapInv
CountInv == QueueInv /\ SemInv /\ KindInv

PoolInv == MiscOK /\ GorOK /\ RulesInv /\ SemaphoreInv /\ CountInv /\ ChainInv

-----------------------------------------------------------------------------
(* Steps of one goroutine.                                                 *)

\* A goroutine is not an empty slot.
LEMMA GoroutineNotIdle == ASSUME NEW g \in Goroutines PROVE g # Idle
<1>1. g.stage # "idle"
  BY Zenon DEF Goroutines, Stages, Waits
<1>2. Idle.stage = "idle"
  BY Zenon DEF Idle
<1> QED
  BY Zenon, <1>1, <1>2

\* The deferred calls by name.
LEMMA DeferNames ==
  {Defers[i] : i \in DOMAIN Defers} =
    {"pending", "queue", "pipeline", "keys", "gate", "kind", "sem"}
<1>1. DOMAIN Defers = 1..7
  BY DEF Defers
<1>2. \A i \in 1..7 : i = 1 \/ i = 2 \/ i = 3 \/ i = 4 \/ i = 5 \/ i = 6 \/ i = 7
  OBVIOUS
<1>3. /\ Defers[1] = "pending" /\ Defers[2] = "queue" /\ Defers[3] = "pipeline"
      /\ Defers[4] = "keys" /\ Defers[5] = "gate" /\ Defers[6] = "kind" /\ Defers[7] = "sem"
  BY Zenon DEF Defers
<1>4. \A i \in {1, 2, 3, 4, 5, 6, 7} : i \in 1..7
  OBVIOUS
<1> QED
  BY <1>1, <1>2, <1>3, <1>4

\* A step of slot s leaves the other slots alone.
SlotStep(s, g) == gor' = [gor EXCEPT ![s] = g]

\* The other slots are as they were.
LEMMA SlotStepOthers ==
  ASSUME GorOK, NEW s \in Slots, NEW g, SlotStep(s, g)
  PROVE  \A t \in Slots : gor'[t] = IF t = s THEN g ELSE gor[t]
  BY Zenon DEF GorOK, SlotStep

\* The step changes what slot s refers to and holds, and nothing else.
LEMMA UsersStep ==
  ASSUME GorOK, NEW s \in Slots, NEW g, SlotStep(s, g)
  PROVE  /\ KeyUsers' = [KeyUsers EXCEPT ![s] = RefersKeys(g)]
         /\ KeyHolders' = [KeyHolders EXCEPT ![s] = HoldsKeys(g)]
         /\ GateUsers' = [GateUsers EXCEPT ![s] = RefersGate(g)]
         /\ GateHolders' = [GateHolders EXCEPT ![s] = HoldsGate(g)]
<1>1. \A t \in Slots : gor'[t] = IF t = s THEN g ELSE gor[t]
  BY Zenon, SlotStepOthers
<1>2. KeyUsers' = [KeyUsers EXCEPT ![s] = RefersKeys(g)]
  <2>1. KeyUsers' = [t \in Slots |-> RefersKeys(gor'[t])]
    BY Zenon DEF KeyUsers
  <2> QED
    BY Zenon, <1>1, <2>1 DEF KeyUsers
<1>3. KeyHolders' = [KeyHolders EXCEPT ![s] = HoldsKeys(g)]
  <2>1. KeyHolders' = [t \in Slots |-> HoldsKeys(gor'[t])]
    BY Zenon DEF KeyHolders
  <2> QED
    BY Zenon, <1>1, <2>1 DEF KeyHolders
<1>4. GateUsers' = [GateUsers EXCEPT ![s] = RefersGate(g)]
  <2>1. GateUsers' = [t \in Slots |-> RefersGate(gor'[t])]
    BY Zenon DEF GateUsers
  <2> QED
    BY Zenon, <1>1, <2>1 DEF GateUsers
<1>5. GateHolders' = [GateHolders EXCEPT ![s] = HoldsGate(g)]
  <2>1. GateHolders' = [t \in Slots |-> HoldsGate(gor'[t])]
    BY Zenon DEF GateHolders
  <2> QED
    BY Zenon, <1>1, <2>1 DEF GateHolders
<1> QED
  BY Zenon, <1>2, <1>3, <1>4, <1>5

SameKeys(g, f) == RefersKeys(g) = RefersKeys(f) /\ HoldsKeys(g) = HoldsKeys(f)
SameGate(g, f) == RefersGate(g) = RefersGate(f) /\ HoldsGate(g) = HoldsGate(f)

\* A step that touches neither its keys nor the map keeps the count of keys.
LEMMA KeysUntouched ==
  ASSUME GorOK, KeyInv, NEW s \in Slots, NEW g, SlotStep(s, g),
         SameKeys(g, gor[s]), keySemaphores' = keySemaphores
  PROVE  KeyInv'
<1>1. /\ KeyUsers' = [KeyUsers EXCEPT ![s] = RefersKeys(g)]
      /\ KeyHolders' = [KeyHolders EXCEPT ![s] = HoldsKeys(g)]
  BY Zenon, UsersStep
<1>2. KeyUsers[s] = RefersKeys(g) /\ KeyHolders[s] = HoldsKeys(g)
  BY Zenon DEF KeyUsers, KeyHolders, SameKeys
<1>3. KeyUsers' = KeyUsers /\ KeyHolders' = KeyHolders
  BY Zenon, <1>1, <1>2 DEF KeyUsers, KeyHolders
<1> QED
  BY Zenon, <1>3 DEF KeyInv

\* A step that touches neither its gate nor the map keeps the count of gates.
LEMMA GateUntouched ==
  ASSUME GorOK, GateInv, NEW s \in Slots, NEW g, SlotStep(s, g),
         SameGate(g, gor[s]), rateGates' = rateGates
  PROVE  GateInv'
<1>1. /\ GateUsers' = [GateUsers EXCEPT ![s] = RefersGate(g)]
      /\ GateHolders' = [GateHolders EXCEPT ![s] = HoldsGate(g)]
  BY Zenon, UsersStep
<1>2. GateUsers[s] = RefersGate(g) /\ GateHolders[s] = HoldsGate(g)
  BY Zenon DEF GateUsers, GateHolders, SameGate
<1>3. GateUsers' = GateUsers /\ GateHolders' = GateHolders
  BY Zenon, <1>1, <1>2 DEF GateUsers, GateHolders
<1> QED
  BY Zenon, <1>3 DEF GateInv

\* A goroutine waits for a slot.
LEMMA AfterIsSlot ==
  ASSUME GorOK, NEW s \in Slots, gor[s] # Idle, gor[s].after # None
  PROVE  gor[s].after \in Slots
<1>1. gor[s] \in Goroutines
  BY Zenon DEF GorOK
<1> QED
  BY Zenon, <1>1 DEF Goroutines

\* The links of the chains are the same; one that is in no chain may go.
SameLink(g, f) ==
  /\ g # Idle => f # Idle /\ g.job = f.job /\ g.after = f.after
  /\ \A l : InChain(g, l) <=> InChain(f, l)

\* A step that keeps the links keeps the chains, as long as a goroutine that
\* goes on without its turn leaves its pipeline broken.
LEMMA ChainKept ==
  ASSUME GorOK, ChainInv, \A t \in Slots : SameLink(gor'[t], gor[t]),
         tails' = tails, broken \subseteq broken',
         \A t \in Slots :
           /\ gor'[t] # Idle /\ gor'[t].stage # "pipeline" /\ gor'[t].after # None
           => JobOf[gor'[t].job].pipeline \in broken'
  PROVE  ChainInv'
<1>1. \A t \in Slots : \A l : InChain(gor'[t], l) <=> InChain(gor[t], l)
  BY Zenon DEF SameLink
<1>2. \A t \in Slots : gor'[t] # Idle =>
        gor[t] # Idle /\ gor'[t].job = gor[t].job /\ gor'[t].after = gor[t].after
  BY Zenon DEF SameLink
<1>3. TailInv
  BY Zenon DEF ChainInv
<1>4. AfterInv'
  <2>1. SUFFICES ASSUME NEW s \in Slots, gor'[s] # Idle, gor'[s].after # None
                 PROVE  /\ JobOf[gor'[s].job].pipeline \in Pipelines
                        /\ InChain(gor'[gor'[s].after], JobOf[gor'[s].job].pipeline)
    BY Zenon DEF AfterInv
  <2>2. /\ JobOf[gor[s].job].pipeline \in Pipelines
        /\ InChain(gor[gor[s].after], JobOf[gor[s].job].pipeline)
    BY Zenon, <1>2, <2>1 DEF ChainInv, AfterInv
  <2>3. gor[s].after \in Slots
    BY Zenon, <1>2, <2>1, AfterIsSlot
  <2> QED
    BY Zenon, <1>1, <1>2, <2>1, <2>2, <2>3
<1>5. ForkInv'
  BY <1>2 DEF ChainInv, ForkInv
<1>6. TailInv'
  <2>1. tails' \in [Pipelines -> Slots \cup {None}]
    BY Zenon, <1>3 DEF TailInv
  <2>2. ASSUME NEW l \in Pipelines, tails'[l] # None
        PROVE  /\ InChain(gor'[tails'[l]], l)
               /\ \A t \in Slots : gor'[t] # Idle => gor'[t].after # tails'[l]
    <3>1. /\ tails[l] \in Slots /\ InChain(gor[tails[l]], l)
          /\ \A t \in Slots : gor[t] # Idle => gor[t].after # tails[l]
      BY Zenon, <1>3, <2>2 DEF TailInv
    <3> QED
      BY Zenon, <1>1, <1>2, <3>1
  <2> QED
    BY Zenon, <2>1, <2>2 DEF TailInv
<1>7. RankInv'
  <2>1. PICK rank \in [Slots -> Nat] :
          \A s \in Slots : gor[s] # Idle /\ gor[s].after # None => rank[gor[s].after] < rank[s]
    BY Zenon DEF ChainInv, RankInv
  <2>2. \A s \in Slots : gor'[s] # Idle /\ gor'[s].after # None => rank[gor'[s].after] < rank[s]
    BY Zenon, <1>2, <2>1
  <2> QED
    BY Zenon, <2>2 DEF RankInv
<1>8. TurnInv'
  <2>1. SUFFICES ASSUME NEW l \in Pipelines \ broken'
                 PROVE  /\ \A s \in Slots :
                             /\ gor'[s] # Idle /\ JobOf[gor'[s].job].pipeline = l
                             /\ gor'[s].stage # "pipeline"
                             => gor'[s].after = None
                        /\ \A s, t \in Slots :
                             /\ InChain(gor'[s], l) /\ InChain(gor'[t], l)
                             /\ gor'[s].after = None /\ gor'[t].after = None
                             => s = t
                        /\ \A s \in Slots : InChain(gor'[s], l) => tails'[l] # None
    BY Zenon DEF TurnInv
  <2>2. l \in Pipelines \ broken
    BY Zenon
  <2>3. /\ \A s, t \in Slots :
             /\ InChain(gor[s], l) /\ InChain(gor[t], l)
             /\ gor[s].after = None /\ gor[t].after = None
             => s = t
        /\ \A s \in Slots : InChain(gor[s], l) => tails[l] # None
    BY Zenon, <2>2 DEF ChainInv, TurnInv
  <2>4. \A s \in Slots : InChain(gor'[s], l) => gor'[s].after = gor[s].after
    BY Zenon, <1>2 DEF InChain
  <2> QED
    BY Zenon, <1>1, <2>3, <2>4
<1> QED
  BY Zenon, <1>4, <1>5, <1>6, <1>7, <1>8 DEF ChainInv

\* The goroutine in slot s goes on as g, for the same job, with its place in
\* its pipeline; and also with its place in the queue.
Goes(s, g) ==
  /\ gor[s] # Idle /\ g \in Goroutines /\ StageOK(g) /\ SlotStep(s, g)
  /\ g.job = gor[s].job /\ g.after = gor[s].after
  /\ "pipeline" \in g.defers <=> "pipeline" \in gor[s].defers
  /\ UNCHANGED <<policies, tails, updates>>

Moves(s, g) ==
  /\ Goes(s, g)
  /\ "queue" \in g.defers <=> "queue" \in gor[s].defers
  /\ active' = active

\* Claims of a queue are counted when they are made, not while they go on.
LEMMA QueueKept ==
  ASSUME GorOK, QueueInv, NEW s \in Slots, NEW g, Moves(s, g)
  PROVE  QueueInv'
<1>1. \A t \in Slots : gor'[t] = IF t = s THEN g ELSE gor[t]
  BY Zenon, SlotStepOthers DEF Moves, Goes
<1>2. g # Idle
  BY Zenon, GoroutineNotIdle DEF Moves, Goes
<1>3. ASSUME NEW q PROVE QueueHolders(q)' = QueueHolders(q)
  BY Zenon, <1>1, <1>2 DEF QueueHolders, Moves, Goes
<1>4. active' = active /\ policies' = policies /\ updates' = updates
  BY Zenon DEF Moves, Goes
<1> QED
  BY Zenon, <1>3, <1>4 DEF QueueInv

\* The semaphore of the pool has a place for each holder.
LEMMA SemKept ==
  ASSUME SlotCounts, GorOK, SemInv, NEW s \in Slots, NEW g, Goes(s, g),
         "sem" \in g.defers =>
           "sem" \in gor[s].defers \/ Cardinality(SemHolders) < Concurrency
  PROVE  SemInv'
<1>1. \A t \in Slots : gor'[t] = IF t = s THEN g ELSE gor[t]
  BY Zenon, SlotStepOthers DEF Goes
<1>2. SemHolders \subseteq Slots /\ SemHolders' \subseteq Slots
  BY Zenon DEF SemHolders
<1>3. Cardinality(SemHolders) \in Nat /\ Cardinality(SemHolders') \in Nat
  BY Zenon, <1>2, SlotSets
<1>4. Concurrency \in Nat
  BY WorkerPoolAssumption
<1>5. CASE "sem" \in g.defers => "sem" \in gor[s].defers
  <2>1. SemHolders' \subseteq SemHolders
    BY Zenon, <1>1, <1>5 DEF SemHolders, Goes
  <2>2. Cardinality(SemHolders') <= Cardinality(SemHolders)
    BY Zenon, <1>2, <2>1, SlotSets
  <2> QED
    BY <1>3, <1>4, <2>2 DEF SemInv
<1>6. CASE Cardinality(SemHolders) < Concurrency
  <2>1. SemHolders' \subseteq SemHolders \cup {s}
    BY Zenon, <1>1 DEF SemHolders
  <2>2. Cardinality(SemHolders') <= Cardinality(SemHolders) + 1
    BY Zenon, <1>2, <2>1, SlotSets
  <2> QED
    BY <1>3, <1>4, <1>6, <2>2 DEF SemInv
<1> QED
  BY Zenon, <1>5, <1>6

\* The semaphore of a kind has a place for each holder.
LEMMA KindKept ==
  ASSUME SlotCounts, GorOK, KindInv, NEW s \in Slots, NEW g, Goes(s, g),
         "kind" \in g.defers =>
           \/ "kind" \in gor[s].defers
           \/ Cardinality(KindHolders(JobOf[g.job].kind)) < KindLimit(g)
  PROVE  KindInv'
<1>1. \A t \in Slots : gor'[t] = IF t = s THEN g ELSE gor[t]
  BY Zenon, SlotStepOthers DEF Goes
<1>2. SUFFICES ASSUME NEW kind \in Kinds, KindConcurrency[kind] > 0
               PROVE  Cardinality(KindHolders(kind)') <= KindConcurrency[kind]
  BY Zenon DEF KindInv
<1>3. KindHolders(kind) \subseteq Slots /\ KindHolders(kind)' \subseteq Slots
  BY Zenon DEF KindHolders
<1>4. Cardinality(KindHolders(kind)) \in Nat /\ Cardinality(KindHolders(kind)') \in Nat
  BY Zenon, <1>3, SlotSets
<1>5. KindConcurrency[kind] \in Nat /\ Cardinality(KindHolders(kind)) <= KindConcurrency[kind]
  BY Zenon, <1>2, WorkerPoolAssumption DEF KindInv
<1>6. CASE \/ "kind" \in g.defers => "kind" \in gor[s].defers
           \/ JobOf[g.job].kind # kind
  <2>1. KindHolders(kind)' \subseteq KindHolders(kind)
    BY Zenon, <1>1, <1>6 DEF KindHolders, Goes
  <2>2. Cardinality(KindHolders(kind)') <= Cardinality(KindHolders(kind))
    BY Zenon, <1>3, <2>1, SlotSets
  <2> QED
    BY <1>4, <1>5, <2>2
<1>7. CASE JobOf[g.job].kind = kind /\ Cardinality(KindHolders(kind)) < KindLimit(g)
  <2>1. KindHolders(kind)' \subseteq KindHolders(kind) \cup {s}
    BY Zenon, <1>1 DEF KindHolders
  <2>2. Cardinality(KindHolders(kind)') <= Cardinality(KindHolders(kind)) + 1
    BY Zenon, <1>3, <2>1, SlotSets
  <2>3. KindLimit(g) = KindConcurrency[kind]
    BY Zenon, <1>7 DEF KindLimit
  <2> QED
    BY <1>4, <1>5, <1>7, <2>2, <2>3
<1> QED
  BY Zenon, <1>6, <1>7

\* A goroutine that goes on keeps its place in the chain.
LEMMA ChainStep ==
  ASSUME GorOK, ChainInv, NEW s \in Slots, NEW g, Goes(s, g), broken \subseteq broken',
         g.stage # "pipeline" /\ g.after # None =>
           gor[s].stage # "pipeline" \/ JobOf[g.job].pipeline \in broken'
  PROVE  ChainInv'
<1>1. \A t \in Slots : gor'[t] = IF t = s THEN g ELSE gor[t]
  BY Zenon, SlotStepOthers DEF Goes
<1>2. g # Idle
  BY Zenon, GoroutineNotIdle DEF Goes
<1>3. \A t \in Slots : SameLink(gor'[t], gor[t])
  BY Zenon, <1>1, <1>2 DEF SameLink, Goes, InChain
<1>4. ASSUME NEW t \in Slots, gor[t] # Idle, gor[t].stage # "pipeline", gor[t].after # None
      PROVE  JobOf[gor[t].job].pipeline \in broken
  <2>1. JobOf[gor[t].job].pipeline \in Pipelines
    BY Zenon, <1>4 DEF ChainInv, AfterInv
  <2> QED
    BY Zenon, <1>4, <2>1 DEF ChainInv, TurnInv
<1>5. ASSUME NEW t \in Slots, gor'[t] # Idle, gor'[t].stage # "pipeline", gor'[t].after # None
      PROVE  JobOf[gor'[t].job].pipeline \in broken'
  <2>1. CASE t = s
    <3>1. gor'[t] = g /\ g.job = gor[s].job /\ g.after = gor[s].after /\ gor[s] # Idle
      BY Zenon, <1>1, <2>1 DEF Goes
    <3> QED
      BY Zenon, <1>4, <1>5, <3>1
  <2>2. CASE t # s
    BY Zenon, <1>1, <1>4, <1>5, <2>2
  <2> QED
    BY Zenon, <2>1, <2>2
<1>6. tails' = tails
  BY Zenon DEF Goes
<1> QED
  BY Zenon, <1>3, <1>5, <1>6, ChainKept

\* A goroutine in slot s may become g: it holds places of the semaphore of the
\* pool and of its kind only if it held them or they have a free one, works by
\* the rules of its queue, and waits for its turn unless the chain is broken.
Entitled(s, g) ==
  /\ "sem" \in g.defers =>
       "sem" \in gor[s].defers \/ Cardinality(SemHolders) < Concurrency
  /\ "kind" \in g.defers =>
       \/ "kind" \in gor[s].defers
       \/ Cardinality(KindHolders(JobOf[g.job].kind)) < KindLimit(g)
  /\ g.stage \in Admitted \cup {"keys"} =>
       \/ g.rules = KeyRules(JobOf[g.job].queue)
       \/ g.rules = gor[s].rules /\ gor[s].stage \in Admitted \cup {"keys"}
  /\ broken \subseteq broken'
  /\ g.stage # "pipeline" /\ g.after # None =>
       gor[s].stage # "pipeline" \/ JobOf[g.job].pipeline \in broken'

\* What a step of a goroutine has to respect to keep the invariant.
LEMMA GoesStep ==
  ASSUME SlotCounts, PoolInv, NEW s \in Slots, NEW g, Goes(s, g),
         MiscOK', SemaphoreInv', QueueInv',
         Entitled(s, g)
  PROVE  PoolInv'
<1> USE DEF Entitled
<1>1. GorOK /\ RulesInv /\ SemInv /\ KindInv /\ ChainInv
  BY Zenon DEF PoolInv, CountInv
<1>2. \A t \in Slots : gor'[t] = IF t = s THEN g ELSE gor[t]
  BY Zenon, <1>1, SlotStepOthers DEF Goes
<1>3. GorOK'
  <2>1. gor' \in [Slots -> {Idle} \cup Goroutines]
    BY Zenon, <1>1 DEF GorOK, Goes, SlotStep
  <2>2. \A t \in Slots : gor'[t] # Idle => StageOK(gor'[t])
    BY Zenon, <1>1, <1>2 DEF GorOK, Goes
  <2> QED
    BY Zenon, <2>1, <2>2 DEF GorOK, StageOK, KindLimit
<1>4. RulesInv'
  <2>1. SUFFICES ASSUME updates = 0, NEW t \in Slots, gor'[t] # Idle,
                        gor'[t].stage \in Admitted \cup {"keys"}
                 PROVE  gor'[t].rules = KeyRules(JobOf[gor'[t].job].queue)
    BY Zenon DEF RulesInv, Goes, KeyRules, Admitted
  <2>2. \A r \in Slots : gor[r] # Idle /\ gor[r].stage \in Admitted \cup {"keys"} =>
          gor[r].rules = KeyRules(JobOf[gor[r].job].queue)
    BY Zenon, <1>1, <2>1 DEF RulesInv
  <2>3. CASE t = s
    <3>1. gor'[t] = g /\ g.job = gor[s].job /\ gor[s] # Idle
      BY Zenon, <1>2, <2>3 DEF Goes
    <3> QED
      BY Zenon, <2>1, <2>2, <3>1
  <2>4. CASE t # s
    BY Zenon, <1>2, <2>1, <2>2, <2>4
  <2> QED
    BY Zenon, <2>3, <2>4
<1>5. SemInv'
  BY Zenon, <1>1, SemKept
<1>6. KindInv'
  BY Zenon, <1>1, KindKept
<1>7. ChainInv'
  BY Zenon, <1>1, ChainStep
<1> QED
  BY Zenon, <1>3, <1>4, <1>5, <1>6, <1>7 DEF PoolInv, CountInv

\* The same for a goroutine that keeps its place in the queue.
LEMMA GoroutineStep ==
  ASSUME SlotCounts, PoolInv, NEW s \in Slots, NEW g, Moves(s, g), MiscOK', SemaphoreInv',
         Entitled(s, g)
  PROVE  PoolInv'
<1>1. QueueInv'
  BY Zenon, QueueKept DEF PoolInv, CountInv
<1>2. Goes(s, g)
  BY Zenon DEF Moves
<1> QED
  BY Zenon, <1>1, <1>2, GoesStep

\* The pool's own state, as a step of a goroutine leaves it.
LEMMA MiscKept ==
  ASSUME MiscOK, UNCHANGED <<policies, fetch, cursor, lifeVars, updates>>,
         store' \in [JobIDs -> {"available", "running", "done"}],
         faults' \in Nat, broken' \subseteq Pipelines
  PROVE  MiscOK'
<1>1. ScheduleLength' = ScheduleLength
  BY Zenon DEF ScheduleLength, Turns
<1> QED
  BY Zenon, <1>1 DEF MiscOK, lifeVars

\* Capacities stay what the rules say while no semaphore is created.
LEMMA CapKept ==
  ASSUME CapInv, UNCHANGED <<policies, updates>>,
         SameCaps(keySemaphores', keySemaphores), SameCaps(rateGates', rateGates)
  PROVE  CapInv'
<1>1. \A k \in DOMAIN rateGates' : rateGates'[k].cap = 1
  BY Zenon DEF CapInv, SameCaps
<1>2. ASSUME updates = 0, NEW k \in DOMAIN keySemaphores', NEW q \in ConfiguredQueues,
             NEW i \in DOMAIN KeyRules(q), k[1] = q, k[2] = i
      PROVE  keySemaphores'[k].cap = KeyRules(q)[i].limit
  <2>1. k \in DOMAIN keySemaphores /\ keySemaphores'[k].cap = keySemaphores[k].cap
    BY Zenon, <1>2 DEF SameCaps
  <2> QED
    BY Zenon, <1>2, <2>1 DEF CapInv
<1>3. \A q : KeyRules(q)' = KeyRules(q)
  BY Zenon DEF KeyRules
<1> QED
  BY Zenon, <1>1, <1>2, <1>3 DEF CapInv

\* An empty slot has no stage of a goroutine.
LEMMA StageIsBusy ==
  ASSUME GorOK, NEW s \in Slots, gor[s].stage \in Stages
  PROVE  gor[s] # Idle /\ gor[s] \in Goroutines /\ StageOK(gor[s])
<1>1. Idle.stage \notin Stages
  BY Zenon DEF Idle, Stages, Waits
<1> QED
  BY Zenon, <1>1 DEF GorOK

\* The rules of a policy are a sequence of key rules.
LEMMA RulesType ==
  ASSUME MiscOK, NEW j \in JobIDs
  PROVE  /\ KeyRules(JobOf[j].queue) \in {policy.keyConcurrency : policy \in Policies}
         /\ GateKey(JobOf[j]) \in Gates
<1>1. JobOf[j].queue \in ConfiguredQueues
  BY Zenon, WorkerPoolAssumption
<1>2. policies[JobOf[j].queue] \in Policies
  BY Zenon, <1>1 DEF MiscOK
<1> QED
  BY <1>2 DEF KeyRules, GateKey, Gates, RateRules

\* A goroutine without keys has no entry of the map.
LEMMA NoKeys ==
  ASSUME NEW g, g.keys = 0, ~g.want
  PROVE  RefersKeys(g) = {} /\ HoldsKeys(g) = {}
<1>1. 1..g.keys = {}
  OBVIOUS
<1> QED
  BY Zenon, <1>1 DEF RefersKeys, HoldsKeys, TakenBy

\* A step that leaves the semaphores alone.
LEMMA SemaphoresUntouched ==
  ASSUME GorOK, SemaphoreInv, NEW s \in Slots, NEW g, SlotStep(s, g),
         SameKeys(g, gor[s]), SameGate(g, gor[s]),
         UNCHANGED <<policies, updates, keySemaphores, rateGates>>
  PROVE  SemaphoreInv'
<1>1. KeyInv'
  BY Zenon, KeysUntouched DEF SemaphoreInv
<1>2. GateInv'
  BY Zenon, GateUntouched DEF SemaphoreInv
<1>3. CapInv'
  BY Zenon, CapKept DEF SemaphoreInv, SameCaps
<1> QED
  BY Zenon, <1>1, <1>2, <1>3 DEF SemaphoreInv

\* acquireKeyConcurrency begins.
LEMMA PassPipelineKeeps ==
  ASSUME SlotCounts, PoolInv, NEW s \in Slots, PassPipeline(s)
  PROVE  PoolInv'
<1> DEFINE g == [gor[s] EXCEPT !.stage = "keys", !.rules = KeyRules(Job(s).queue)]
<1>1. GorOK /\ MiscOK /\ SemaphoreInv
  BY Zenon DEF PoolInv
<1>2. gor[s] # Idle /\ gor[s] \in Goroutines /\ StageOK(gor[s])
  BY Zenon, <1>1, StageIsBusy DEF PassPipeline, Stages, Waits
<1>3. gor[s].job \in JobIDs
  BY Zenon, <1>2 DEF Goroutines
<1>4. KeyRules(Job(s).queue) \in {policy.keyConcurrency : policy \in Policies}
  BY Zenon, <1>1, <1>3, RulesType DEF Job
<1>5. g \in Goroutines
  BY Zenon, <1>2, <1>4 DEF Goroutines, Stages, Waits
<1>6. /\ g.stage = "keys" /\ g.rules = KeyRules(Job(s).queue) /\ g.job = gor[s].job
      /\ g.after = gor[s].after /\ g.keys = gor[s].keys /\ g.want = gor[s].want
      /\ g.gate = gor[s].gate /\ g.defers = gor[s].defers
  BY Zenon, <1>2 DEF Goroutines
<1>7. /\ gor[s].stage = "pipeline" /\ gor[s].after = None
      /\ gor[s].keys = 0 /\ ~gor[s].want /\ gor[s].gate = None /\ gor[s].defers = Base
  BY Zenon, <1>2 DEF PassPipeline, StageOK
<1>8. SlotStep(s, g)
  BY Zenon, <1>1, <1>2 DEF PassPipeline, SlotStep, GorOK
<1>9. Len(g.rules) \in Nat
  BY <1>4, <1>6, WorkerPoolAssumption
<1>10. StageOK(g)
  BY <1>6, <1>7, <1>9 DEF StageOK, Base, Admitted
<1>11. Moves(s, g)
  BY Zenon, <1>2, <1>5, <1>6, <1>8, <1>10 DEF Moves, Goes, PassPipeline, poolVars
<1>12. SameKeys(g, gor[s]) /\ SameGate(g, gor[s])
  BY Zenon, <1>2, <1>5, <1>6, <1>7, NoKeys, GoroutineNotIdle DEF SameKeys, SameGate, RefersGate, HoldsGate
<1>13. SemaphoreInv'
  BY Zenon, <1>1, <1>8, <1>12, SemaphoresUntouched DEF PassPipeline, poolVars
<1>14. MiscOK'
  BY Zenon, <1>1, MiscKept DEF PassPipeline, poolVars, MiscOK
<1> QED
  BY Zenon, <1>6, <1>7, <1>11, <1>13, <1>14, GoroutineStep DEF PassPipeline, Job, Base, Entitled

\* An entry names its queue and its rule, so a goroutine that waits for the
\* next rule does not have the entry yet.
LEMMA NextEntry ==
  ASSUME NEW g \in Goroutines
  PROVE  /\ WantedBy(g) \notin TakenBy(g)
         /\ WantedBy(g)[1] = JobOf[g.job].queue /\ WantedBy(g)[2] = g.keys + 1
<1>1. g.keys \in Nat
  BY Zenon DEF Goroutines
<1>2. WantedBy(g)[1] = JobOf[g.job].queue /\ WantedBy(g)[2] = g.keys + 1
  BY Zenon DEF WantedBy, KeyEntry
<1>3. \A i \in 1..g.keys : KeyEntry(JobOf[g.job], i, g.rules[i])[2] = i
  BY Zenon DEF KeyEntry
<1>4. \A i \in 1..g.keys : i # g.keys + 1
  BY <1>1
<1> QED
  BY Zenon, <1>2, <1>3, <1>4 DEF TakenBy

\* The rule a goroutine comes to has a limit.
LEMMA NextRule ==
  ASSUME NEW g \in Goroutines, g.keys < Len(g.rules)
  PROVE  /\ Len(g.rules) \in Nat /\ g.keys + 1 \in DOMAIN g.rules
         /\ g.rules[g.keys + 1].limit \in Nat \ {0}
<1>1. g.keys \in Nat /\ g.rules \in {<< >>} \cup {policy.keyConcurrency : policy \in Policies}
  BY Zenon DEF Goroutines
<1>2. Len(<< >>) = 0
  BY Zenon
<1>3. g.rules \in Seq([key : {"kind", "pipeline", "tag"}, limit : Nat \ {0}])
  BY <1>1, <1>2, WorkerPoolAssumption
<1>4. Len(g.rules) \in Nat /\ DOMAIN g.rules = 1..Len(g.rules)
  BY <1>3
<1>5. g.keys + 1 \in 1..Len(g.rules)
  BY <1>1, <1>4
<1>6. ASSUME NEW R, NEW q \in Seq(R), NEW n \in 1..Len(q) PROVE q[n] \in R
  OBVIOUS
<1>7. g.rules[g.keys + 1] \in [key : {"kind", "pipeline", "tag"}, limit : Nat \ {0}]
  BY Zenon, <1>3, <1>5, <1>6
<1> QED
  BY Zenon, <1>4, <1>5, <1>7

\* acquireKeyConcurrency refers to the entry of the next rule.
LEMMA KeyReferKeeps ==
  ASSUME SlotCounts, PoolInv, NEW s \in Slots, KeyRefer(s)
  PROVE  PoolInv'
<1> DEFINE f == gor[s]
           g == [gor[s] EXCEPT !.want = TRUE]
           k == WantedBy(f)
           cap == f.rules[f.keys + 1].limit
<1>1. GorOK /\ MiscOK /\ SemaphoreInv /\ RulesInv
  BY Zenon DEF PoolInv
<1>2. f # Idle /\ f \in Goroutines /\ StageOK(f)
  BY Zenon, <1>1, StageIsBusy DEF KeyRefer, Stages, Waits
<1>3. f.stage = "keys" /\ ~f.want /\ f.keys < Len(f.rules)
  BY Zenon DEF KeyRefer
<1>4. g \in Goroutines /\ g # Idle
  BY Zenon, <1>2, GoroutineNotIdle DEF Goroutines
<1>5. /\ g.stage = "keys" /\ g.rules = f.rules /\ g.job = f.job
      /\ g.after = f.after /\ g.keys = f.keys /\ g.want
      /\ g.gate = f.gate /\ g.defers = f.defers
  BY Zenon, <1>2, <1>3 DEF Goroutines
<1>6. SlotStep(s, g)
  BY Zenon, <1>1, <1>2 DEF KeyRefer, SlotStep, GorOK
<1>7. StageOK(g)
  BY Zenon, <1>2, <1>3, <1>5 DEF StageOK, Base, Admitted
<1>8. Moves(s, g)
  BY Zenon, <1>2, <1>4, <1>5, <1>6, <1>7 DEF Moves, Goes, KeyRefer, poolVars
<1>9. TakenBy(g) = TakenBy(f) /\ WantedBy(g) = k
  BY <1>5 DEF TakenBy, WantedBy
<1>10. /\ RefersKeys(f) = TakenBy(f) /\ RefersKeys(g) = TakenBy(f) \cup {k}
       /\ HoldsKeys(g) = HoldsKeys(f)
  BY Zenon, <1>2, <1>3, <1>4, <1>5, <1>9 DEF RefersKeys, HoldsKeys
<1>11. SameGate(g, f)
  BY Zenon, <1>2, <1>4, <1>5 DEF SameGate, RefersGate, HoldsGate
<1>12. keySemaphores' = Refer(keySemaphores, k, cap) /\ rateGates' = rateGates
  BY Zenon DEF KeyRefer, KeyWanted, WantedBy, Job
<1>13. k \notin TakenBy(f) /\ k[1] = JobOf[f.job].queue /\ k[2] = f.keys + 1
  BY Zenon, <1>2, NextEntry
<1>14. cap \in Nat \ {0} /\ f.keys + 1 \in DOMAIN f.rules
  BY Zenon, <1>2, <1>3, NextRule
<1>15. DOMAIN KeyUsers = Slots /\ KeyUsers[s] = TakenBy(f)
  BY Zenon, <1>10 DEF KeyUsers
<1> HIDE DEF g, k, cap, f
<1>16. KeyUsers' = [KeyUsers EXCEPT ![s] = KeyUsers[s] \cup {k}] /\ KeyHolders' = KeyHolders
  <2>1. /\ KeyUsers' = [KeyUsers EXCEPT ![s] = RefersKeys(g)]
        /\ KeyHolders' = [KeyHolders EXCEPT ![s] = HoldsKeys(g)]
    BY Zenon, <1>1, <1>6, UsersStep
  <2> QED
    BY Zenon, <1>10, <1>15, <2>1 DEF KeyHolders, f
<1>17. Counted(keySemaphores', KeyUsers', KeyHolders) /\ Extended(keySemaphores', keySemaphores, k, cap)
  <2>1. Refers(keySemaphores, keySemaphores', KeyUsers, KeyUsers', KeyHolders, s, k, cap)
    BY Zenon, <1>1, <1>12, <1>13, <1>14, <1>15, <1>16 DEF Refers, SemaphoreInv, KeyInv
  <2> QED
    BY Zenon, <2>1, ReferCounted
<1>18. KeyInv' /\ GateInv'
  BY Zenon, <1>1, <1>6, <1>11, <1>12, <1>16, <1>17, GateUntouched DEF SemaphoreInv, KeyInv, f
<1>19. CapInv'
  <2>1. ASSUME updates = 0, NEW x \in DOMAIN keySemaphores', NEW q \in ConfiguredQueues,
               NEW i \in DOMAIN KeyRules(q), x[1] = q, x[2] = i
        PROVE  keySemaphores'[x].cap = KeyRules(q)[i].limit
    <3>1. CASE x \in DOMAIN keySemaphores
      BY Zenon, <1>1, <1>17, <2>1, <3>1 DEF SemaphoreInv, CapInv, Extended
    <3>2. CASE x \notin DOMAIN keySemaphores
      <4>1. x = k /\ keySemaphores'[k].cap = cap
        BY Zenon, <1>17, <2>1, <3>2 DEF Extended
      <4>2. f.rules = KeyRules(JobOf[f.job].queue)
        BY Zenon, <1>1, <1>2, <1>3, <2>1 DEF RulesInv, f
      <4> QED
        BY Zenon, <1>13, <2>1, <4>1, <4>2 DEF cap
    <3> QED
      BY Zenon, <3>1, <3>2
  <2>2. \A q : KeyRules(q)' = KeyRules(q)
    BY Zenon DEF KeyRules, KeyRefer, poolVars
  <2>3. updates' = updates
    BY Zenon DEF KeyRefer, poolVars
  <2> QED
    BY <1>1, <1>12, <2>1, <2>2, <2>3 DEF CapInv, SemaphoreInv
<1>20. MiscOK'
  BY Zenon, <1>1, MiscKept DEF KeyRefer, poolVars, MiscOK
<1>21. broken' = broken
  BY Zenon DEF KeyRefer
<1> QED
  BY <1>3, <1>5, <1>8, <1>18, <1>19, <1>20, <1>21, GoroutineStep
     DEF SemaphoreInv, f, Entitled

\* acquireKeyConcurrency gets a place in the entry.
LEMMA KeyAcquireKeeps ==
  ASSUME SlotCounts, PoolInv, NEW s \in Slots, KeyAcquire(s)
  PROVE  PoolInv'
<1> DEFINE f == gor[s]
           g == [gor[s] EXCEPT !.keys = gor[s].keys + 1, !.want = FALSE]
           k == WantedBy(f)
<1>1. GorOK /\ MiscOK /\ SemaphoreInv
  BY Zenon DEF PoolInv
<1>2. f # Idle /\ f \in Goroutines /\ StageOK(f)
  BY Zenon, <1>1, StageIsBusy DEF KeyAcquire, Stages, Waits
<1>3. f.stage = "keys" /\ f.want /\ f.keys \in Nat /\ f.keys < Len(f.rules)
  BY Zenon, <1>2 DEF KeyAcquire, StageOK, Goroutines
<1>4. g \in Goroutines /\ g # Idle
  <2>1. PICK n : n = gor[s].keys + 1
    BY Zenon
  <2>2. n \in Nat
    BY <1>3, <2>1
  <2>3. g = [gor[s] EXCEPT !.keys = n, !.want = FALSE]
    BY Zenon, <2>1
  <2>4. g \in Goroutines
    BY Zenon, <1>2, <2>2, <2>3 DEF Goroutines
  <2> QED
    BY Zenon, <2>4, GoroutineNotIdle
<1>5. /\ g.stage = "keys" /\ g.rules = f.rules /\ g.job = f.job
      /\ g.after = f.after /\ g.keys = f.keys + 1 /\ ~g.want
      /\ g.gate = f.gate /\ g.defers = f.defers
  BY Zenon, <1>2, <1>3 DEF Goroutines
<1>6. SlotStep(s, g)
  BY Zenon, <1>1, <1>2 DEF KeyAcquire, SlotStep, GorOK
<1>7. Len(f.rules) \in Nat
  BY Zenon, <1>2, <1>3, NextRule
<1>8. StageOK(g)
  <2>1. g.keys <= Len(g.rules) /\ g.keys # 0
    BY <1>3, <1>5, <1>7
  <2>2. "pending" \in f.defers /\ f.defers = Base /\ f.gate = None
    BY Zenon, <1>2, <1>3 DEF StageOK
  <2> QED
    BY <1>5, <2>1, <2>2 DEF StageOK, Base, Admitted
<1>9. Moves(s, g)
  BY Zenon, <1>2, <1>4, <1>5, <1>6, <1>8 DEF Moves, Goes, KeyAcquire, poolVars
<1>10. TakenBy(g) = TakenBy(f) \cup {k}
  <2>1. 1..g.keys = 1..f.keys \cup {f.keys + 1}
    BY <1>3, <1>5
  <2> QED
    BY Zenon, <1>5, <2>1 DEF TakenBy, WantedBy
<1>11. /\ RefersKeys(f) = TakenBy(f) \cup {k} /\ RefersKeys(g) = TakenBy(f) \cup {k}
       /\ HoldsKeys(f) = TakenBy(f) /\ HoldsKeys(g) = TakenBy(f) \cup {k}
  BY Zenon, <1>2, <1>3, <1>4, <1>5, <1>10 DEF RefersKeys, HoldsKeys
<1>12. SameGate(g, f)
  BY Zenon, <1>2, <1>4, <1>5 DEF SameGate, RefersGate, HoldsGate
<1>13. /\ keySemaphores' = Take(keySemaphores, k) /\ rateGates' = rateGates
       /\ CanTake(keySemaphores, k)
  BY Zenon DEF KeyAcquire, KeyWanted, WantedBy, Job
<1>14. k \notin TakenBy(f)
  BY Zenon, <1>2, NextEntry
<1>15. /\ DOMAIN KeyHolders = Slots /\ KeyHolders[s] = TakenBy(f)
       /\ KeyUsers[s] = TakenBy(f) \cup {k}
  BY Zenon, <1>11 DEF KeyUsers, KeyHolders
<1> HIDE DEF g, k, f
<1>16. KeyUsers' = KeyUsers /\ KeyHolders' = [KeyHolders EXCEPT ![s] = KeyHolders[s] \cup {k}]
  <2>1. /\ KeyUsers' = [KeyUsers EXCEPT ![s] = RefersKeys(g)]
        /\ KeyHolders' = [KeyHolders EXCEPT ![s] = HoldsKeys(g)]
    BY Zenon, <1>1, <1>6, UsersStep
  <2> QED
    BY Zenon, <1>11, <1>15, <2>1 DEF KeyUsers, f
<1>17. Counted(keySemaphores', KeyUsers, KeyHolders') /\ SameCaps(keySemaphores', keySemaphores)
  <2>1. Takes(keySemaphores, keySemaphores', KeyUsers, KeyHolders, KeyHolders', s, k)
    BY Zenon, <1>1, <1>13, <1>14, <1>15, <1>16 DEF Takes, SemaphoreInv, KeyInv
  <2> QED
    BY Zenon, <2>1, TakeCounted
<1>18. KeyInv' /\ GateInv'
  BY Zenon, <1>1, <1>6, <1>12, <1>13, <1>16, <1>17, GateUntouched DEF SemaphoreInv, KeyInv, f
<1>19. CapInv'
  BY Zenon, <1>1, <1>13, <1>17, CapKept DEF SemaphoreInv, SameCaps, KeyAcquire, poolVars
<1>20. MiscOK'
  BY Zenon, <1>1, MiscKept DEF KeyAcquire, poolVars, MiscOK
<1>21. broken' = broken
  BY Zenon DEF KeyAcquire
<1> QED
  BY <1>3, <1>5, <1>9, <1>18, <1>19, <1>20, <1>21, GoroutineStep
     DEF SemaphoreInv, f, Entitled

\* acquireKeyConcurrency returns, with a place for every rule.
LEMMA KeysAcquiredKeeps ==
  ASSUME SlotCounts, PoolInv, NEW s \in Slots, KeysAcquired(s)
  PROVE  PoolInv'
<1> DEFINE f == gor[s]
           g == [gor[s] EXCEPT !.stage = "gate", !.defers = gor[s].defers \cup {"keys"}]
<1>1. GorOK /\ MiscOK /\ SemaphoreInv
  BY Zenon DEF PoolInv
<1>2. f # Idle /\ f \in Goroutines /\ StageOK(f)
  BY Zenon, <1>1, StageIsBusy DEF KeysAcquired, Stages, Waits
<1>3. /\ f.stage = "keys" /\ ~f.want /\ f.keys = Len(f.rules) /\ f.gate = None
      /\ f.defers = Base
  BY Zenon, <1>2 DEF KeysAcquired, StageOK
<1>4. g \in Goroutines /\ g # Idle
  BY Zenon, <1>2, DeferNames, GoroutineNotIdle DEF Goroutines, Stages, Waits
<1>5. /\ g.stage = "gate" /\ g.rules = f.rules /\ g.job = f.job
      /\ g.after = f.after /\ g.keys = f.keys /\ ~g.want
      /\ g.gate = f.gate /\ g.defers = f.defers \cup {"keys"}
  BY Zenon, <1>2, <1>3 DEF Goroutines
<1>6. SlotStep(s, g)
  BY Zenon, <1>1, <1>2 DEF KeysAcquired, SlotStep, GorOK
<1>7. StageOK(g)
  BY Zenon, <1>2, <1>3, <1>5 DEF StageOK, Base, Admitted
<1>8. Moves(s, g)
  BY Zenon, <1>2, <1>4, <1>5, <1>6, <1>7 DEF Moves, Goes, KeysAcquired, poolVars
<1>9. SameKeys(g, f) /\ SameGate(g, f)
  <2>1. TakenBy(g) = TakenBy(f)
    BY Zenon, <1>5 DEF TakenBy
  <2> QED
    BY Zenon, <1>2, <1>3, <1>4, <1>5, <2>1
       DEF SameKeys, SameGate, RefersGate, HoldsGate, RefersKeys, HoldsKeys, Base
<1>10. SemaphoreInv'
  BY Zenon, <1>1, <1>6, <1>9, SemaphoresUntouched DEF KeysAcquired, poolVars
<1>11. MiscOK'
  BY Zenon, <1>1, MiscKept DEF KeysAcquired, poolVars, MiscOK
<1>12. broken' = broken
  BY Zenon DEF KeysAcquired
<1> QED
  BY Zenon, <1>3, <1>5, <1>8, <1>10, <1>11, <1>12, GoroutineStep DEF Base, Entitled

\* acquireRateGate: no gate without rules, otherwise a reference to it.
LEMMA GateReferKeeps ==
  ASSUME SlotCounts, PoolInv, NEW s \in Slots, GateRefer(s)
  PROVE  PoolInv'
<1> DEFINE f == gor[s]
<1>1. GorOK /\ MiscOK /\ SemaphoreInv
  BY Zenon DEF PoolInv
<1>2. f # Idle /\ f \in Goroutines /\ StageOK(f)
  BY Zenon, <1>1, StageIsBusy DEF GateRefer, Stages, Waits
<1>3. /\ f.stage = "gate" /\ f.gate = None /\ ~f.want /\ f.defers = Base \cup {"keys"}
      /\ f.keys = Len(f.rules)
  BY Zenon, <1>2 DEF GateRefer, StageOK, Admitted
<1>4. MiscOK'
  BY Zenon, <1>1, MiscKept DEF GateRefer, poolVars, MiscOK
<1>5. UNCHANGED <<policies, active, tails, updates, keySemaphores, broken>>
  BY Zenon DEF GateRefer, poolVars
<1>6. CASE RateRules(Job(s).queue) = << >>
  <2> DEFINE g == [gor[s] EXCEPT !.stage = "kind"]
  <2>1. g \in Goroutines /\ g # Idle
    BY Zenon, <1>2, GoroutineNotIdle DEF Goroutines, Stages, Waits
  <2>2. /\ g.stage = "kind" /\ g.rules = f.rules /\ g.job = f.job
        /\ g.after = f.after /\ g.keys = f.keys /\ ~g.want
        /\ g.gate = f.gate /\ g.defers = f.defers
    BY Zenon, <1>2, <1>3 DEF Goroutines
  <2>3. SlotStep(s, g) /\ rateGates' = rateGates
    BY Zenon, <1>1, <1>2, <1>6 DEF GateRefer, SlotStep, GorOK
  <2>4. StageOK(g)
    BY <1>2, <1>3, <2>2 DEF StageOK, Base, Admitted
  <2>5. Moves(s, g)
    BY Zenon, <1>2, <1>5, <2>1, <2>2, <2>3, <2>4 DEF Moves, Goes
  <2>6. SameKeys(g, f) /\ SameGate(g, f)
    <3>1. TakenBy(g) = TakenBy(f)
      BY Zenon, <2>2 DEF TakenBy
    <3> QED
      BY Zenon, <1>2, <1>3, <2>1, <2>2, <3>1
         DEF SameKeys, SameGate, RefersGate, HoldsGate, RefersKeys, HoldsKeys
  <2>7. SemaphoreInv'
    BY Zenon, <1>1, <1>5, <2>3, <2>6, SemaphoresUntouched
  <2> QED
    BY Zenon, <1>3, <1>4, <1>5, <2>2, <2>5, <2>7, GoroutineStep DEF Base, Admitted, Entitled
<1>7. CASE RateRules(Job(s).queue) # << >>
  <2> DEFINE k == GateKey(JobOf[f.job])
             g == [gor[s] EXCEPT !.gate = k]
  <2>1. k \in Gates /\ k # None
    <3>1. f.job \in JobIDs
      BY Zenon, <1>2 DEF Goroutines
    <3> QED
      BY Zenon, <1>1, <3>1, RulesType, NoneIsNoGate
  <2> HIDE DEF k
  <2>2. g \in Goroutines /\ g # Idle
    BY Zenon, <1>2, <2>1, GoroutineNotIdle DEF Goroutines
  <2>3. /\ g.stage = "gate" /\ g.rules = f.rules /\ g.job = f.job
        /\ g.after = f.after /\ g.keys = f.keys /\ ~g.want
        /\ g.gate = k /\ g.defers = f.defers
    BY Zenon, <1>2, <1>3 DEF Goroutines
  <2>4. SlotStep(s, g) /\ rateGates' = Refer(rateGates, k, 1)
    BY Zenon, <1>1, <1>2, <1>7 DEF GateRefer, SlotStep, GorOK, Job, k
  <2>5. StageOK(g)
    BY Zenon, <1>2, <1>3, <2>3 DEF StageOK, Base, Admitted
  <2>6. Moves(s, g)
    BY Zenon, <1>2, <1>5, <2>2, <2>3, <2>4, <2>5 DEF Moves, Goes
  <2>7. SameKeys(g, f)
    <3>1. TakenBy(g) = TakenBy(f)
      BY Zenon, <2>3 DEF TakenBy
    <3> QED
      BY Zenon, <1>2, <1>3, <2>2, <2>3, <3>1 DEF SameKeys, RefersKeys, HoldsKeys
  <2>8. /\ RefersGate(f) = {} /\ RefersGate(g) = {k}
        /\ HoldsGate(f) = {} /\ HoldsGate(g) = {}
    BY Zenon, <1>2, <1>3, <2>1, <2>2, <2>3 DEF RefersGate, HoldsGate, Base
  <2>9. DOMAIN GateUsers = Slots /\ GateUsers[s] = {} /\ GateHolders[s] = {}
    BY Zenon, <2>8 DEF GateUsers, GateHolders
  <2> HIDE DEF g, f
  <2>10. /\ GateUsers' = [GateUsers EXCEPT ![s] = GateUsers[s] \cup {k}]
         /\ GateHolders' = GateHolders
    <3>1. /\ GateUsers' = [GateUsers EXCEPT ![s] = RefersGate(g)]
          /\ GateHolders' = [GateHolders EXCEPT ![s] = HoldsGate(g)]
      BY Zenon, <1>1, <2>4, UsersStep
    <3> QED
      BY Zenon, <2>8, <2>9, <3>1 DEF GateHolders, f
  <2>11. /\ Counted(rateGates', GateUsers', GateHolders)
         /\ Extended(rateGates', rateGates, k, 1)
    <3>1. Refers(rateGates, rateGates', GateUsers, GateUsers', GateHolders, s, k, 1)
      BY <1>1, <2>4, <2>9, <2>10 DEF Refers, SemaphoreInv, GateInv
    <3> QED
      BY Zenon, <3>1, ReferCounted
  <2>12. KeyInv' /\ GateInv'
    BY Zenon, <1>1, <1>5, <2>4, <2>7, <2>10, <2>11, KeysUntouched DEF SemaphoreInv, GateInv, f
  <2>13. CapInv'
    <3>1. \A x \in DOMAIN rateGates' : rateGates'[x].cap = 1
      BY <1>1, <2>11 DEF Extended, SemaphoreInv, CapInv
    <3>2. \A q : KeyRules(q)' = KeyRules(q)
      BY Zenon, <1>5 DEF KeyRules
    <3> QED
      BY Zenon, <1>1, <1>5, <3>1, <3>2 DEF SemaphoreInv, CapInv
  <2> QED
    BY Zenon, <1>3, <1>4, <1>5, <2>3, <2>6, <2>12, <2>13, GoroutineStep
       DEF SemaphoreInv, Base, Admitted, f, Entitled
<1> QED
  BY Zenon, <1>6, <1>7

\* acquireRateGate gets the place in the gate.
LEMMA GateAcquireKeeps ==
  ASSUME SlotCounts, PoolInv, NEW s \in Slots, GateAcquire(s)
  PROVE  PoolInv'
<1> DEFINE f == gor[s]
           g == [gor[s] EXCEPT !.stage = "kind", !.defers = gor[s].defers \cup {"gate"}]
           k == f.gate
<1>1. GorOK /\ MiscOK /\ SemaphoreInv
  BY Zenon DEF PoolInv
<1>2. f # Idle /\ f \in Goroutines /\ StageOK(f)
  BY Zenon, <1>1, StageIsBusy DEF GateAcquire, Stages, Waits
<1>3. /\ f.stage = "gate" /\ k # None /\ ~f.want /\ f.defers = Base \cup {"keys"}
      /\ f.keys = Len(f.rules)
  BY Zenon, <1>2 DEF GateAcquire, StageOK, Admitted
<1>4. g \in Goroutines /\ g # Idle
  BY Zenon, <1>2, DeferNames, GoroutineNotIdle DEF Goroutines, Stages, Waits
<1>5. /\ g.stage = "kind" /\ g.rules = f.rules /\ g.job = f.job
      /\ g.after = f.after /\ g.keys = f.keys /\ ~g.want
      /\ g.gate = k /\ g.defers = f.defers \cup {"gate"}
  BY Zenon, <1>2, <1>3 DEF Goroutines
<1>6. SlotStep(s, g)
  BY Zenon, <1>1, <1>2 DEF GateAcquire, SlotStep, GorOK
<1>7. StageOK(g)
  BY Zenon, <1>2, <1>3, <1>5 DEF StageOK, Base, Admitted
<1>8. Moves(s, g)
  BY Zenon, <1>2, <1>4, <1>5, <1>6, <1>7 DEF Moves, Goes, GateAcquire, poolVars
<1>9. SameKeys(g, f)
  <2>1. TakenBy(g) = TakenBy(f)
    BY Zenon, <1>5 DEF TakenBy
  <2> QED
    BY Zenon, <1>2, <1>3, <1>4, <1>5, <2>1 DEF SameKeys, RefersKeys, HoldsKeys
<1>10. /\ RefersGate(f) = {k} /\ RefersGate(g) = {k}
       /\ HoldsGate(f) = {} /\ HoldsGate(g) = {k}
  BY Zenon, <1>2, <1>3, <1>4, <1>5 DEF RefersGate, HoldsGate, Base
<1>11. /\ rateGates' = Take(rateGates, k) /\ keySemaphores' = keySemaphores
       /\ CanTake(rateGates, k)
  BY Zenon DEF GateAcquire
<1>12. DOMAIN GateHolders = Slots /\ GateUsers[s] = {k} /\ GateHolders[s] = {}
  BY Zenon, <1>10 DEF GateUsers, GateHolders
<1> HIDE DEF g, k, f
<1>13. /\ GateUsers' = GateUsers
       /\ GateHolders' = [GateHolders EXCEPT ![s] = GateHolders[s] \cup {k}]
  <2>1. /\ GateUsers' = [GateUsers EXCEPT ![s] = RefersGate(g)]
        /\ GateHolders' = [GateHolders EXCEPT ![s] = HoldsGate(g)]
    BY Zenon, <1>1, <1>6, UsersStep
  <2> QED
    BY Zenon, <1>10, <1>12, <2>1 DEF GateUsers, f
<1>14. Counted(rateGates', GateUsers, GateHolders') /\ SameCaps(rateGates', rateGates)
  <2>1. Takes(rateGates, rateGates', GateUsers, GateHolders, GateHolders', s, k)
    BY Zenon, <1>1, <1>11, <1>12, <1>13 DEF Takes, SemaphoreInv, GateInv
  <2> QED
    BY Zenon, <2>1, TakeCounted
<1>15. KeyInv' /\ GateInv'
  BY <1>1, <1>6, <1>9, <1>11, <1>13, <1>14, KeysUntouched DEF SemaphoreInv, GateInv, f
<1>16. CapInv'
  BY Zenon, <1>1, <1>11, <1>14, CapKept DEF SemaphoreInv, SameCaps, GateAcquire, poolVars
<1>17. MiscOK'
  BY Zenon, <1>1, MiscKept DEF GateAcquire, poolVars, MiscOK
<1>18. broken' = broken
  BY Zenon DEF GateAcquire
<1> QED
  BY <1>3, <1>5, <1>8, <1>15, <1>16, <1>17, <1>18, GoroutineStep
     DEF SemaphoreInv, Base, Admitted, f, Entitled

\* The semaphore of the kind, when the kind is limited.
LEMMA KindAcquireKeeps ==
  ASSUME SlotCounts, PoolInv, NEW s \in Slots, KindAcquire(s)
  PROVE  PoolInv'
<1> DEFINE f == gor[s]
           limit == KindConcurrency[JobOf[f.job].kind]
           D == IF limit > 0 THEN f.defers \cup {"kind"} ELSE f.defers
           g == [gor[s] EXCEPT !.stage = "sem", !.defers = D]
<1>1. GorOK /\ MiscOK /\ SemaphoreInv
  BY Zenon DEF PoolInv
<1>2. f # Idle /\ f \in Goroutines /\ StageOK(f)
  BY Zenon, <1>1, StageIsBusy DEF KindAcquire, Stages, Waits
<1>3. /\ f.stage = "kind" /\ ~f.want /\ f.keys = Len(f.rules)
      /\ Base \cup {"keys"} \subseteq f.defers /\ "sem" \notin f.defers
  BY Zenon, <1>2 DEF KindAcquire, StageOK, Admitted
<1>4. D \in SUBSET {Defers[i] : i \in DOMAIN Defers}
  BY Zenon, <1>2, DeferNames DEF Goroutines
<1>5. limit > 0 => Cardinality(KindHolders(JobOf[f.job].kind)) < limit
  BY Zenon DEF KindAcquire, Has, Job, KindHolders
<1>6. /\ limit > 0 => "kind" \in D
      /\ "kind" \in D => limit > 0 \/ "kind" \in f.defers
      /\ \A d : d # "kind" => (d \in D <=> d \in f.defers)
  BY Zenon
<1>7. SlotStep(s, g)
  BY Zenon, <1>1, <1>2 DEF KindAcquire, SlotStep, GorOK, Job
<1>8. limit = KindLimit(f)
  BY Zenon DEF KindLimit
<1> HIDE DEF D, limit
<1>9. g \in Goroutines /\ g # Idle
  BY Zenon, <1>2, <1>4, GoroutineNotIdle DEF Goroutines, Stages, Waits
<1>10. /\ g.stage = "sem" /\ g.rules = f.rules /\ g.job = f.job
       /\ g.after = f.after /\ g.keys = f.keys /\ ~g.want
       /\ g.gate = f.gate /\ g.defers = D
  BY Zenon, <1>2, <1>3 DEF Goroutines
<1>11. KindLimit(g) = limit
  BY Zenon, <1>8, <1>10 DEF KindLimit
<1> HIDE DEF g
<1>12. StageOK(g)
  BY Zenon, <1>2, <1>3, <1>6, <1>10, <1>11 DEF StageOK, Base, Admitted
<1>13. Moves(s, g)
  BY <1>2, <1>6, <1>7, <1>9, <1>10, <1>12 DEF Moves, Goes, KindAcquire, poolVars
<1>14. SameKeys(g, f) /\ SameGate(g, f)
  <2>1. TakenBy(g) = TakenBy(f)
    BY Zenon, <1>10 DEF TakenBy
  <2> QED
    BY <1>2, <1>3, <1>6, <1>9, <1>10, <2>1
       DEF SameKeys, SameGate, RefersGate, HoldsGate, RefersKeys, HoldsKeys
<1>15. SemaphoreInv'
  BY Zenon, <1>1, <1>7, <1>14, SemaphoresUntouched DEF KindAcquire, poolVars
<1>16. MiscOK'
  BY Zenon, <1>1, MiscKept DEF KindAcquire, poolVars, MiscOK
<1>17. broken' = broken
  BY Zenon DEF KindAcquire
<1> QED
  BY <1>3, <1>5, <1>6, <1>10, <1>11, <1>13, <1>15, <1>16, <1>17, GoroutineStep DEF Admitted, Entitled

\* The semaphore of the pool.
LEMMA SemAcquireKeeps ==
  ASSUME SlotCounts, PoolInv, NEW s \in Slots, SemAcquire(s)
  PROVE  PoolInv'
<1> DEFINE f == gor[s]
           g == [gor[s] EXCEPT !.stage = "rate", !.defers = gor[s].defers \cup {"sem"}]
<1>1. GorOK /\ MiscOK /\ SemaphoreInv
  BY Zenon DEF PoolInv
<1>2. f # Idle /\ f \in Goroutines /\ StageOK(f)
  BY Zenon, <1>1, StageIsBusy DEF SemAcquire, Stages, Waits
<1>3. /\ f.stage = "sem" /\ ~f.want /\ f.keys = Len(f.rules)
      /\ Base \cup {"keys"} \subseteq f.defers
  BY Zenon, <1>2 DEF SemAcquire, StageOK, Admitted
<1>4. Cardinality(SemHolders) < Concurrency
  BY Zenon DEF SemAcquire, Has, SemHolders
<1>5. SlotStep(s, g)
  BY Zenon, <1>1, <1>2 DEF SemAcquire, SlotStep, GorOK
<1>6. g \in Goroutines /\ g # Idle
  BY Zenon, <1>2, DeferNames, GoroutineNotIdle DEF Goroutines, Stages, Waits
<1>7. /\ g.stage = "rate" /\ g.rules = f.rules /\ g.job = f.job
      /\ g.after = f.after /\ g.keys = f.keys /\ ~g.want
      /\ g.gate = f.gate /\ g.defers = f.defers \cup {"sem"}
  BY Zenon, <1>2, <1>3 DEF Goroutines
<1>8. KindLimit(g) = KindLimit(f)
  BY Zenon, <1>7 DEF KindLimit
<1> HIDE DEF g
<1>9. StageOK(g)
  BY Zenon, <1>2, <1>3, <1>7, <1>8 DEF StageOK, Base, Admitted
<1>10. Moves(s, g)
  BY Zenon, <1>2, <1>5, <1>6, <1>7, <1>9 DEF Moves, Goes, SemAcquire, poolVars
<1>11. SameKeys(g, f) /\ SameGate(g, f)
  <2>1. TakenBy(g) = TakenBy(f)
    BY Zenon, <1>7 DEF TakenBy
  <2> QED
    BY Zenon, <1>2, <1>3, <1>6, <1>7, <2>1
       DEF SameKeys, SameGate, RefersGate, HoldsGate, RefersKeys, HoldsKeys
<1>12. SemaphoreInv'
  BY Zenon, <1>1, <1>5, <1>11, SemaphoresUntouched DEF SemAcquire, poolVars
<1>13. MiscOK'
  BY Zenon, <1>1, MiscKept DEF SemAcquire, poolVars, MiscOK
<1>14. broken' = broken
  BY Zenon DEF SemAcquire
<1> QED
  BY <1>3, <1>4, <1>7, <1>10, <1>12, <1>13, <1>14, GoroutineStep DEF Admitted, Entitled

\* A goroutine gives back its place in a gate.
LEMMA GateReturned ==
  ASSUME SlotCounts, GorOK, SemaphoreInv, NEW s \in Slots, NEW g, SlotStep(s, g), SameKeys(g, gor[s]),
         NEW k, RefersGate(gor[s]) = {k}, HoldsGate(gor[s]) = {k},
         RefersGate(g) = {}, HoldsGate(g) = {},
         rateGates' = Return(rateGates, {k}), UNCHANGED <<policies, updates, keySemaphores>>
  PROVE  SemaphoreInv'
<1>1. /\ DOMAIN GateUsers = Slots /\ DOMAIN GateHolders = Slots
      /\ GateUsers[s] = {k} /\ GateHolders[s] = {k}
  BY Zenon DEF GateUsers, GateHolders
<1>2. /\ GateUsers' = [GateUsers EXCEPT ![s] = {}]
      /\ GateHolders' = [GateHolders EXCEPT ![s] = {}]
  BY UsersStep
<1>3. /\ GateUsers' = [GateUsers EXCEPT ![s] = GateUsers[s] \ {k}]
      /\ GateHolders' = [GateHolders EXCEPT ![s] = GateHolders[s] \ {k}]
  <2>1. GateUsers[s] \ {k} = {} /\ GateHolders[s] \ {k} = {}
    BY Zenon, <1>1
  <2> QED
    BY Zenon, <1>2, <2>1
<1>4. Returns(rateGates, rateGates', GateUsers, GateUsers', GateHolders, GateHolders', s, {k})
  BY Zenon, <1>1, <1>3 DEF Returns, SemaphoreInv, GateInv
<1>5. Counted(rateGates', GateUsers', GateHolders') /\ SameCaps(rateGates', rateGates)
  BY Zenon, <1>4, ReturnCounted
<1>6. KeyInv' /\ GateInv'
  BY Zenon, <1>5, KeysUntouched DEF SemaphoreInv, GateInv
<1>7. CapInv'
  BY Zenon, <1>5, CapKept DEF SemaphoreInv, SameCaps
<1> QED
  BY Zenon, <1>6, <1>7 DEF SemaphoreInv

\* The permits are granted: the gate is left, the handler starts.
LEMMA StartHandlerKeeps ==
  ASSUME SlotCounts, PoolInv, NEW s \in Slots, StartHandler(s)
  PROVE  PoolInv'
<1> DEFINE f == gor[s]
           g == [gor[s] EXCEPT !.stage = "handling", !.gate = None,
                               !.defers = gor[s].defers \ {"gate"}]
<1>1. GorOK /\ MiscOK /\ SemaphoreInv
  BY Zenon DEF PoolInv
<1>2. f # Idle /\ f \in Goroutines /\ StageOK(f)
  BY Zenon, <1>1, StageIsBusy DEF StartHandler, Stages, Waits
<1>3. /\ f.stage = "rate" /\ ~f.want /\ f.keys = Len(f.rules)
      /\ Base \cup {"keys", "sem"} \subseteq f.defers
      /\ f.gate # None <=> "gate" \in f.defers
  BY Zenon, <1>2 DEF StartHandler, StageOK, Admitted
<1>4. SlotStep(s, g)
  BY Zenon, <1>1, <1>2 DEF StartHandler, SlotStep, GorOK
<1>5. g \in Goroutines /\ g # Idle
  BY Zenon, <1>2, GoroutineNotIdle DEF Goroutines, Stages, Waits
<1>6. /\ g.stage = "handling" /\ g.rules = f.rules /\ g.job = f.job
      /\ g.after = f.after /\ g.keys = f.keys /\ ~g.want
      /\ g.gate = None /\ g.defers = f.defers \ {"gate"}
  BY Zenon, <1>2, <1>3 DEF Goroutines
<1>7. KindLimit(g) = KindLimit(f)
  BY Zenon, <1>6 DEF KindLimit
<1> HIDE DEF g
<1>8. StageOK(g)
  BY Zenon, <1>2, <1>3, <1>6, <1>7 DEF StageOK, Base, Admitted
<1>9. Moves(s, g)
  BY Zenon, <1>2, <1>4, <1>5, <1>6, <1>8 DEF Moves, Goes, StartHandler, poolVars
<1>10. SameKeys(g, f)
  <2>1. TakenBy(g) = TakenBy(f)
    BY Zenon, <1>6 DEF TakenBy
  <2> QED
    BY Zenon, <1>2, <1>3, <1>5, <1>6, <2>1 DEF SameKeys, RefersKeys, HoldsKeys
<1>11. RefersGate(g) = {} /\ HoldsGate(g) = {}
  BY Zenon, <1>5, <1>6 DEF RefersGate, HoldsGate
<1>12. UNCHANGED <<policies, updates, keySemaphores, broken>>
  BY Zenon DEF StartHandler, poolVars
<1>13. SemaphoreInv'
  <2>1. CASE "gate" \in f.defers
    <3>1. RefersGate(f) = {f.gate} /\ HoldsGate(f) = {f.gate}
      BY Zenon, <1>2, <1>3, <2>1 DEF RefersGate, HoldsGate
    <3>2. rateGates' = Return(rateGates, {f.gate})
      BY Zenon, <1>2, <2>1 DEF StartHandler, Has
    <3> QED
      BY Zenon, <1>1, <1>4, <1>10, <1>11, <1>12, <3>1, <3>2, GateReturned
  <2>2. CASE "gate" \notin f.defers
    <3>1. SameGate(g, f)
      BY Zenon, <1>2, <1>3, <1>11, <2>2 DEF SameGate, RefersGate, HoldsGate
    <3>2. rateGates' = rateGates
      BY Zenon, <2>2 DEF StartHandler, Has
    <3> QED
      BY <1>1, <1>4, <1>10, <1>12, <3>1, <3>2, SemaphoresUntouched
  <2> QED
    BY Zenon, <2>1, <2>2
<1>14. MiscOK'
  BY Zenon, <1>1, MiscKept DEF StartHandler, poolVars, MiscOK
<1> QED
  BY <1>3, <1>6, <1>9, <1>12, <1>13, <1>14, GoroutineStep DEF Admitted, Entitled

\* A goroutine gives up its wait for a gate.
LEMMA GateDropped ==
  ASSUME SlotCounts, GorOK, SemaphoreInv, NEW s \in Slots, NEW g, SlotStep(s, g), SameKeys(g, gor[s]),
         NEW k, RefersGate(gor[s]) = {k}, HoldsGate(gor[s]) = {},
         RefersGate(g) = {}, HoldsGate(g) = {},
         rateGates' = Drop(rateGates, {k}), UNCHANGED <<policies, updates, keySemaphores>>
  PROVE  SemaphoreInv'
<1>1. DOMAIN GateUsers = Slots /\ GateUsers[s] = {k} /\ GateHolders[s] = {}
  BY Zenon DEF GateUsers, GateHolders
<1>2. /\ GateUsers' = [GateUsers EXCEPT ![s] = {}]
      /\ GateHolders' = [GateHolders EXCEPT ![s] = {}]
  BY UsersStep
<1>3. GateUsers' = [GateUsers EXCEPT ![s] = GateUsers[s] \ {k}] /\ GateHolders' = GateHolders
  <2>1. GateUsers[s] \ {k} = {}
    BY Zenon, <1>1
  <2> QED
    BY Zenon, <1>1, <1>2, <2>1 DEF GateHolders
<1>4. Drops(rateGates, rateGates', GateUsers, GateUsers', GateHolders, s, k)
  BY Zenon, <1>1, <1>3 DEF Drops, SemaphoreInv, GateInv
<1>5. Counted(rateGates', GateUsers', GateHolders) /\ SameCaps(rateGates', rateGates)
  BY Zenon, <1>4, DropCounted
<1>6. KeyInv' /\ GateInv'
  BY Zenon, <1>3, <1>5, KeysUntouched DEF SemaphoreInv, GateInv
<1>7. CapInv'
  BY Zenon, <1>5, CapKept DEF SemaphoreInv, SameCaps
<1> QED
  BY Zenon, <1>6, <1>7 DEF SemaphoreInv

\* A goroutine gives back its places in all its entries.
LEMMA KeysReturned ==
  ASSUME SlotCounts, GorOK, SemaphoreInv, NEW s \in Slots, NEW g, SlotStep(s, g), SameGate(g, gor[s]),
         NEW K, RefersKeys(gor[s]) = K, HoldsKeys(gor[s]) = K,
         RefersKeys(g) = {}, HoldsKeys(g) = {},
         keySemaphores' = Return(keySemaphores, K), UNCHANGED <<policies, updates, rateGates>>
  PROVE  SemaphoreInv'
<1>1. /\ DOMAIN KeyUsers = Slots /\ DOMAIN KeyHolders = Slots
      /\ KeyUsers[s] = K /\ KeyHolders[s] = K
  BY Zenon DEF KeyUsers, KeyHolders
<1>2. /\ KeyUsers' = [KeyUsers EXCEPT ![s] = {}]
      /\ KeyHolders' = [KeyHolders EXCEPT ![s] = {}]
  BY UsersStep
<1>3. /\ KeyUsers' = [KeyUsers EXCEPT ![s] = KeyUsers[s] \ K]
      /\ KeyHolders' = [KeyHolders EXCEPT ![s] = KeyHolders[s] \ K]
  <2>1. KeyUsers[s] \ K = {} /\ KeyHolders[s] \ K = {}
    BY Zenon, <1>1
  <2> QED
    BY Zenon, <1>2, <2>1
<1>4. Returns(keySemaphores, keySemaphores', KeyUsers, KeyUsers', KeyHolders, KeyHolders', s, K)
  BY Zenon, <1>1, <1>3 DEF Returns, SemaphoreInv, KeyInv
<1>5. Counted(keySemaphores', KeyUsers', KeyHolders') /\ SameCaps(keySemaphores', keySemaphores)
  BY Zenon, <1>4, ReturnCounted
<1>6. KeyInv' /\ GateInv'
  BY Zenon, <1>5, GateUntouched DEF SemaphoreInv, KeyInv
<1>7. CapInv'
  BY Zenon, <1>5, CapKept DEF SemaphoreInv, SameCaps
<1> QED
  BY Zenon, <1>6, <1>7 DEF SemaphoreInv

\* A goroutine gives up its wait for an entry: that reference goes first, then
\* the places it has.
LEMMA KeysGivenUp ==
  ASSUME SlotCounts, GorOK, SemaphoreInv, NEW s \in Slots, NEW g, SlotStep(s, g), SameGate(g, gor[s]),
         NEW K, NEW k, k \notin K,
         RefersKeys(gor[s]) = K \cup {k}, HoldsKeys(gor[s]) = K,
         RefersKeys(g) = {}, HoldsKeys(g) = {},
         keySemaphores' = Return(Drop(keySemaphores, {k}), K),
         UNCHANGED <<policies, updates, rateGates>>
  PROVE  SemaphoreInv'
<1>1. /\ DOMAIN KeyUsers = Slots /\ DOMAIN KeyHolders = Slots
      /\ KeyUsers[s] = K \cup {k} /\ KeyHolders[s] = K
  BY Zenon DEF KeyUsers, KeyHolders
<1>2. /\ KeyUsers' = [KeyUsers EXCEPT ![s] = {}]
      /\ KeyHolders' = [KeyHolders EXCEPT ![s] = {}]
  BY UsersStep
<1>3. PICK mid, v : mid = Drop(keySemaphores, {k}) /\ v = [KeyUsers EXCEPT ![s] = KeyUsers[s] \ {k}]
  BY Zenon
<1>4. Drops(keySemaphores, mid, KeyUsers, v, KeyHolders, s, k)
  BY Zenon, <1>1, <1>3 DEF Drops, SemaphoreInv, KeyInv
<1>5. Counted(mid, v, KeyHolders) /\ SameCaps(mid, keySemaphores)
  BY Zenon, <1>4, DropCounted
<1>6. DOMAIN v = Slots /\ v[s] = K /\ v[s] \ K = {} /\ KeyHolders[s] \ K = {}
  BY Zenon, <1>1, <1>3
<1>7. /\ KeyUsers' = [v EXCEPT ![s] = v[s] \ K]
      /\ KeyHolders' = [KeyHolders EXCEPT ![s] = KeyHolders[s] \ K]
  BY Zenon, <1>1, <1>2, <1>3, <1>6
<1>8. Returns(mid, keySemaphores', v, KeyUsers', KeyHolders, KeyHolders', s, K)
  BY Zenon, <1>1, <1>3, <1>5, <1>6, <1>7 DEF Returns
<1>9. Counted(keySemaphores', KeyUsers', KeyHolders') /\ SameCaps(keySemaphores', mid)
  BY Zenon, <1>8, ReturnCounted
<1>10. SameCaps(keySemaphores', keySemaphores)
  BY Zenon, <1>5, <1>9 DEF SameCaps
<1>11. KeyInv' /\ GateInv'
  BY Zenon, <1>9, GateUntouched DEF SemaphoreInv, KeyInv
<1>12. CapInv'
  BY Zenon, <1>10, CapKept DEF SemaphoreInv, SameCaps
<1> QED
  BY Zenon, <1>11, <1>12 DEF SemaphoreInv

\* claimCtx or shutdownCh ends a wait: the goroutine gives back what the wait
\* had taken, and leaves its pipeline broken when it had not had its turn.
LEMMA GiveUpKeeps ==
  ASSUME SlotCounts, PoolInv, NEW s \in Slots, GiveUp(s)
  PROVE  PoolInv'
<1> DEFINE f == gor[s]
           n == IF f.stage = "keys" THEN 0 ELSE f.keys
           k == IF f.stage = "gate" THEN None ELSE f.gate
           g == [gor[s] EXCEPT !.stage = "yielding", !.want = FALSE, !.keys = n, !.gate = k]
<1>1. GorOK /\ MiscOK /\ SemaphoreInv /\ ChainInv
  BY Zenon DEF PoolInv
<1>2. f # Idle /\ f \in Goroutines /\ StageOK(f)
  <2>1. f.stage \in Stages
    BY Zenon DEF GiveUp, Selecting, Stages, Waits
  <2> QED
    BY Zenon, <1>1, <2>1, StageIsBusy
<1>3. f.keys \in Nat /\ f.keys <= Len(f.rules) /\ n \in Nat /\ k \in Gates \cup {None}
  BY Zenon, <1>2 DEF Goroutines, StageOK
<1>4. Len(f.rules) \in Nat
  <2>1. f.rules \in {<< >>} \cup {policy.keyConcurrency : policy \in Policies}
    BY Zenon, <1>2 DEF Goroutines
  <2> QED
    BY <2>1, WorkerPoolAssumption
<1>5. n <= Len(f.rules)
  BY <1>3, <1>4
<1>6. SlotStep(s, g)
  BY Zenon, <1>1, <1>2 DEF GiveUp, SlotStep, GorOK
<1>7. /\ f.stage = "keys" => n = 0 /\ f.want /\ f.gate = None /\ f.defers = Base
      /\ f.stage # "keys" => n = f.keys /\ ~f.want
      /\ f.stage = "gate" => k = None /\ f.gate # None /\ f.defers = Base \cup {"keys"}
      /\ f.stage # "gate" => k = f.gate
  BY Zenon, <1>2 DEF StageOK, GiveUp, Selecting
<1>8. /\ n # 0 => "keys" \in f.defers
      /\ k # None <=> "gate" \in f.defers
  BY Zenon, <1>2, <1>7 DEF StageOK, Base
<1> HIDE DEF n, k
<1>9. g \in Goroutines /\ g # Idle
  BY ZenonT(30), <1>2, <1>3, GoroutineNotIdle DEF Goroutines, Stages, Waits
<1>10. /\ g.stage = "yielding" /\ g.rules = f.rules /\ g.job = f.job
       /\ g.after = f.after /\ g.keys = n /\ ~g.want
       /\ g.gate = k /\ g.defers = f.defers
  BY Zenon, <1>2, <1>3 DEF Goroutines
<1> HIDE DEF g
<1>11. StageOK(g)
  <2>1. "pending" \in f.defers
    BY Zenon, <1>2 DEF StageOK
  <2> QED
    BY Zenon, <1>5, <1>8, <1>10, <2>1 DEF StageOK, Admitted
<1>12. Moves(s, g)
  BY <1>2, <1>6, <1>9, <1>10, <1>11 DEF Moves, Goes, GiveUp, poolVars
<1>13. UNCHANGED <<policies, updates>>
  BY Zenon DEF GiveUp, poolVars
<1>14. f.stage # "gate" => SameGate(g, f)
  BY Zenon, <1>2, <1>7, <1>9, <1>10 DEF SameGate, RefersGate, HoldsGate
<1>15. f.stage # "keys" => SameKeys(g, f)
  <2>1. f.stage # "keys" => TakenBy(g) = TakenBy(f)
    BY <1>7, <1>10 DEF TakenBy
  <2> QED
    BY <1>2, <1>7, <1>9, <1>10, <2>1 DEF SameKeys, RefersKeys, HoldsKeys
<1>16. SemaphoreInv'
  <2>1. CASE f.stage = "keys"
    <3>1. WantedBy(f) \notin TakenBy(f)
      BY Zenon, <1>2, NextEntry
    <3>2. RefersKeys(f) = TakenBy(f) \cup {WantedBy(f)} /\ HoldsKeys(f) = TakenBy(f)
      BY Zenon, <1>2, <1>7, <2>1 DEF RefersKeys, HoldsKeys
    <3>3. RefersKeys(g) = {} /\ HoldsKeys(g) = {}
      BY Zenon, <1>7, <1>10, <2>1, NoKeys
    <3>4. keySemaphores' = Return(Drop(keySemaphores, {WantedBy(f)}), TakenBy(f)) /\ rateGates' = rateGates
      BY Zenon, <2>1 DEF GiveUp, KeyWanted, KeysTaken, WantedBy, TakenBy, Job
    <3> QED
      BY <1>1, <1>6, <1>13, <1>14, <2>1, <3>1, <3>2, <3>3, <3>4, KeysGivenUp
  <2>2. CASE f.stage = "gate"
    <3>1. RefersGate(f) = {f.gate} /\ HoldsGate(f) = {}
      BY Zenon, <1>2, <1>7, <2>2 DEF RefersGate, HoldsGate, Base
    <3>2. RefersGate(g) = {} /\ HoldsGate(g) = {}
      BY Zenon, <1>7, <1>10, <2>2 DEF RefersGate, HoldsGate, Base
    <3>3. rateGates' = Drop(rateGates, {f.gate}) /\ keySemaphores' = keySemaphores
      BY Zenon, <2>2 DEF GiveUp
    <3> QED
      BY <1>1, <1>6, <1>13, <1>15, <2>2, <3>1, <3>2, <3>3, GateDropped
  <2>3. CASE f.stage \notin {"keys", "gate"}
    <3>1. rateGates' = rateGates /\ keySemaphores' = keySemaphores
      BY Zenon, <2>3 DEF GiveUp
    <3> QED
      BY <1>1, <1>6, <1>13, <1>14, <1>15, <2>3, <3>1, SemaphoresUntouched
  <2> QED
    BY Zenon, <2>1, <2>2, <2>3
<1>17. /\ broken \subseteq broken'
       /\ f.stage = "pipeline" /\ f.after # None => JobOf[f.job].pipeline \in broken'
  BY Zenon DEF GiveUp, Job
<1>18. MiscOK'
  <2>1. f.after # None => JobOf[f.job].pipeline \in Pipelines
    BY Zenon, <1>1, <1>2 DEF ChainInv, AfterInv
  <2>2. broken' \subseteq Pipelines
    BY Zenon, <1>1, <2>1 DEF MiscOK, GiveUp, Job
  <2> QED
    BY Zenon, <1>1, <2>2, MiscKept DEF GiveUp, poolVars, MiscOK
<1> QED
  BY Zenon, <1>10, <1>12, <1>16, <1>17, <1>18, GoroutineStep DEF Admitted, Entitled

\* The outcome is written, by a yield or after the handler (setState).
LEMMA SetStateKeeps ==
  ASSUME SlotCounts, PoolInv, NEW s \in Slots, NEW state \in {"available", "done"}, SetState(s, state),
         gor[s].stage \in {"yielding", "handling"}, faults' \in Nat,
         UNCHANGED <<policies, fetch, cursor, active, tails, keySemaphores, rateGates,
                     lifeVars, updates, broken>>
  PROVE  PoolInv'
<1> DEFINE f == gor[s]
           g == [gor[s] EXCEPT !.stage = "closing"]
<1>1. GorOK /\ MiscOK /\ SemaphoreInv
  BY Zenon DEF PoolInv
<1>2. f # Idle /\ f \in Goroutines /\ StageOK(f)
  BY Zenon, <1>1, StageIsBusy DEF Stages
<1>3. SlotStep(s, g)
  BY Zenon, <1>1, <1>2 DEF SetState, SlotStep, GorOK
<1>4. g \in Goroutines /\ g # Idle
  BY Zenon, <1>2, GoroutineNotIdle DEF Goroutines, Stages
<1>5. /\ g.stage = "closing" /\ g.rules = f.rules /\ g.job = f.job
      /\ g.after = f.after /\ g.keys = f.keys /\ g.want = f.want
      /\ g.gate = f.gate /\ g.defers = f.defers /\ f.job \in JobIDs
  BY Zenon, <1>2 DEF Goroutines
<1> HIDE DEF g
<1>6. ~f.want
  BY Zenon, <1>2 DEF StageOK
<1>7. StageOK(g)
  BY Zenon, <1>2, <1>5, <1>6 DEF StageOK, Admitted
<1>8. Moves(s, g)
  BY Zenon, <1>2, <1>3, <1>4, <1>5, <1>7 DEF Moves, Goes
<1>9. SameKeys(g, f) /\ SameGate(g, f)
  <2>1. TakenBy(g) = TakenBy(f)
    BY <1>5 DEF TakenBy
  <2> QED
    BY <1>2, <1>4, <1>5, <1>6, <2>1
       DEF SameKeys, SameGate, RefersGate, HoldsGate, RefersKeys, HoldsKeys
<1>10. SemaphoreInv'
  BY Zenon, <1>1, <1>3, <1>9, SemaphoresUntouched
<1>11. MiscOK'
  <2>1. store' \in [JobIDs -> {"available", "running", "done"}]
    BY Zenon, <1>1, <1>5 DEF SetState, MiscOK
  <2> QED
    BY Zenon, <1>1, <2>1, MiscKept DEF MiscOK
<1> QED
  BY Zenon, <1>5, <1>8, <1>10, <1>11, GoroutineStep DEF Admitted, Entitled

\* The claim is yielded, or the handler returns.
LEMMA OutcomeKeeps ==
  ASSUME SlotCounts, PoolInv, NEW s \in Slots, YieldClaim(s) \/ FinishHandler(s)
  PROVE  PoolInv'
<1>1. faults \in Nat
  BY Zenon DEF PoolInv, MiscOK
<1>2. CASE YieldClaim(s)
  BY Zenon, <1>1, <1>2, SetStateKeeps DEF YieldClaim
<1>3. CASE FinishHandler(s)
  <2>1. PICK state \in {"available", "done"} : SetState(s, state)
    BY Zenon, <1>3 DEF FinishHandler
  <2>2. faults' \in Nat
    BY <1>1, <1>3 DEF FinishHandler
  <2>3. /\ gor[s].stage \in {"yielding", "handling"}
        /\ UNCHANGED <<policies, fetch, cursor, active, tails, keySemaphores, rateGates,
                       lifeVars, updates, broken>>
    BY Zenon, <1>3 DEF FinishHandler
  <2> QED
    BY Zenon, <2>1, <2>2, <2>3, SetStateKeeps
<1> QED
  BY Zenon, <1>2, <1>3

\* The claim is rescued for another worker while the goroutine goes on.
LEMMA LoseClaimKeeps ==
  ASSUME SlotCounts, PoolInv, NEW s \in Slots, LoseClaim(s)
  PROVE  PoolInv'
<1> DEFINE f == gor[s]
           g == [gor[s] EXCEPT !.lost = TRUE]
<1>1. GorOK /\ MiscOK /\ SemaphoreInv
  BY Zenon DEF PoolInv
<1>2. f # Idle /\ f \in Goroutines /\ StageOK(f)
  BY Zenon, <1>1, StageIsBusy DEF LoseClaim, Stages
<1>3. SlotStep(s, g)
  BY Zenon, <1>1, <1>2 DEF LoseClaim, SlotStep, GorOK
<1>4. g \in Goroutines /\ g # Idle
  BY Zenon, <1>2, GoroutineNotIdle DEF Goroutines
<1>5. /\ g.stage = f.stage /\ g.rules = f.rules /\ g.job = f.job
      /\ g.after = f.after /\ g.keys = f.keys /\ g.want = f.want
      /\ g.gate = f.gate /\ g.defers = f.defers /\ f.job \in JobIDs
  BY Zenon, <1>2 DEF Goroutines
<1>6. KindLimit(g) = KindLimit(f)
  BY Zenon, <1>5 DEF KindLimit
<1> HIDE DEF g
<1>7. StageOK(g)
  BY <1>2, <1>5, <1>6 DEF StageOK
<1>8. Moves(s, g)
  BY Zenon, <1>2, <1>3, <1>4, <1>5, <1>7 DEF Moves, Goes, LoseClaim
<1>9. SameKeys(g, f) /\ SameGate(g, f)
  <2>1. TakenBy(g) = TakenBy(f) /\ WantedBy(g) = WantedBy(f)
    BY Zenon, <1>5 DEF TakenBy, WantedBy
  <2> QED
    BY Zenon, <1>2, <1>4, <1>5, <2>1
       DEF SameKeys, SameGate, RefersGate, HoldsGate, RefersKeys, HoldsKeys
<1>10. SemaphoreInv'
  BY Zenon, <1>1, <1>3, <1>9, SemaphoresUntouched DEF LoseClaim
<1>11. MiscOK'
  <2>1. store' \in [JobIDs -> {"available", "running", "done"}]
    BY Zenon, <1>1, <1>5 DEF LoseClaim, MiscOK
  <2>2. faults' \in Nat
    BY <1>1 DEF LoseClaim, MiscOK
  <2> QED
    BY Zenon, <1>1, <2>1, <2>2, MiscKept DEF MiscOK, LoseClaim
<1>12. broken' = broken
  BY Zenon DEF LoseClaim
<1> QED
  BY <1>5, <1>8, <1>10, <1>11, <1>12, GoroutineStep DEF Entitled

-----------------------------------------------------------------------------
(* The deferred calls.                                                     *)

\* Deferred calls run in reverse: the place in the pending channel is the
\* last to be given back.
LEMMA LastDeferred ==
  ASSUME NEW S \in SUBSET {Defers[i] : i \in DOMAIN Defers}, "pending" \in S
  PROVE  /\ LastDefer(S) \in S
         /\ LastDefer(S) = "pending" => S = {"pending"}
<1> DEFINE P(i) == Defers[i] \in S /\ \A n \in DOMAIN Defers : Defers[n] \in S => n <= i
<1>1. DOMAIN Defers = 1..7
  BY DEF Defers
<1>2. /\ Defers[1] = "pending" /\ Defers[2] = "queue" /\ Defers[3] = "pipeline"
      /\ Defers[4] = "keys" /\ Defers[5] = "gate" /\ Defers[6] = "kind" /\ Defers[7] = "sem"
  BY Zenon DEF Defers
<1>3. \A i \in 1..7 : i = 1 \/ i = 2 \/ i = 3 \/ i = 4 \/ i = 5 \/ i = 6 \/ i = 7
  OBVIOUS
<1>4. \E i \in DOMAIN Defers : P(i)
  <2>1. CASE "sem" \in S
    BY <1>1, <1>2, <2>1
  <2>2. CASE "sem" \notin S /\ "kind" \in S
    BY <1>1, <1>2, <1>3, <2>2
  <2>3. CASE "sem" \notin S /\ "kind" \notin S /\ "gate" \in S
    BY <1>1, <1>2, <1>3, <2>3
  <2>4. CASE "sem" \notin S /\ "kind" \notin S /\ "gate" \notin S /\ "keys" \in S
    BY <1>1, <1>2, <1>3, <2>4
  <2>5. CASE {"sem", "kind", "gate", "keys"} \cap S = {} /\ "pipeline" \in S
    BY <1>1, <1>2, <1>3, <2>5
  <2>6. CASE {"sem", "kind", "gate", "keys", "pipeline"} \cap S = {} /\ "queue" \in S
    BY <1>1, <1>2, <1>3, <2>6
  <2>7. CASE {"sem", "kind", "gate", "keys", "pipeline", "queue"} \cap S = {}
    BY <1>1, <1>2, <1>3, <2>7
  <2> QED
    BY Zenon, <2>1, <2>2, <2>3, <2>4, <2>5, <2>6, <2>7
<1>5. PICK i : i = CHOOSE x \in DOMAIN Defers : P(x)
  BY Zenon
<1>6. i \in DOMAIN Defers /\ P(i)
  BY Zenon, <1>4, <1>5
<1>7. LastDefer(S) = Defers[i]
  BY Zenon, <1>5 DEF LastDefer
<1>8. ASSUME Defers[i] = "pending" PROVE S = {"pending"}
  <2>1. i = 1
    BY Zenon, <1>1, <1>2, <1>3, <1>6, <1>8
  <2>2. \A n \in DOMAIN Defers : Defers[n] \in S => n = 1
    BY <1>1, <1>6, <2>1
  <2> QED
    BY <1>2, <2>2
<1> QED
  BY Zenon, <1>6, <1>7, <1>8

\* A semaphore is given back.
LEMMA ReleaseSemaphore ==
  ASSUME SlotCounts, PoolInv, NEW s \in Slots, Release(s),
         LastDefer(gor[s].defers) \in {"keys", "gate", "kind", "sem"}
  PROVE  PoolInv'
<1> DEFINE f == gor[s]
           top == LastDefer(f.defers)
           n == IF top = "keys" THEN 0 ELSE f.keys
           k == IF top = "gate" THEN None ELSE f.gate
           g == [gor[s] EXCEPT !.defers = gor[s].defers \ {top}, !.keys = n, !.gate = k]
<1>1. GorOK /\ MiscOK /\ SemaphoreInv
  BY Zenon DEF PoolInv
<1>2. f # Idle /\ f \in Goroutines /\ StageOK(f) /\ f.stage = "closing"
  BY Zenon, <1>1, StageIsBusy DEF Release, Stages
<1>3. "pending" \in f.defers /\ f.defers \in SUBSET {Defers[i] : i \in DOMAIN Defers}
  BY Zenon, <1>2 DEF StageOK, Goroutines
<1>4. top \in f.defers
  BY Zenon, <1>3, LastDeferred
<1>5. f.keys \in Nat /\ n \in Nat /\ k \in Gates \cup {None} /\ f.keys <= Len(f.rules)
  BY Zenon, <1>2 DEF Goroutines, StageOK
<1>6. Len(f.rules) \in Nat
  <2>1. f.rules \in {<< >>} \cup {policy.keyConcurrency : policy \in Policies}
    BY Zenon, <1>2 DEF Goroutines
  <2> QED
    BY <2>1, WorkerPoolAssumption
<1>7. n <= Len(f.rules)
  BY <1>5, <1>6
<1>8. gor' = [t \in Slots |-> IF t = s THEN g ELSE gor[t]]
  BY Zenon DEF Release
<1>9. SlotStep(s, g)
  BY Zenon, <1>1, <1>8 DEF SlotStep, GorOK
<1>10. /\ UNCHANGED <<policies, tails, updates, active, broken>>
       /\ top # "gate" => rateGates' = rateGates
       /\ top # "keys" => keySemaphores' = keySemaphores
       /\ top = "gate" => rateGates' = Return(rateGates, {f.gate})
       /\ top = "keys" => keySemaphores' = Return(keySemaphores, TakenBy(f))
  BY Zenon DEF Release, KeysTaken, TakenBy, Job
<1>11. /\ top = "keys" => n = 0
       /\ top # "keys" => n = f.keys
       /\ top = "gate" => k = None
       /\ top # "gate" => k = f.gate
  BY Zenon
<1>12. ~f.want /\ (f.keys # 0 => "keys" \in f.defers) /\ (f.gate # None <=> "gate" \in f.defers)
  BY Zenon, <1>2 DEF StageOK
<1>13. top \in {"keys", "gate", "kind", "sem"}
  BY Zenon
<1> HIDE DEF n, k, top
<1>14. g \in Goroutines /\ g # Idle
  BY Zenon, <1>2, <1>5, GoroutineNotIdle DEF Goroutines
<1>15. /\ g.stage = "closing" /\ g.rules = f.rules /\ g.job = f.job
       /\ g.after = f.after /\ g.keys = n /\ ~g.want
       /\ g.gate = k /\ g.defers = f.defers \ {top}
  BY Zenon, <1>2, <1>5, <1>12 DEF Goroutines
<1> HIDE DEF g
<1>16. StageOK(g)
  BY Zenon, <1>3, <1>7, <1>11, <1>12, <1>13, <1>15 DEF StageOK, Admitted
<1>17. Moves(s, g)
  BY Zenon, <1>2, <1>9, <1>10, <1>13, <1>14, <1>15, <1>16 DEF Moves, Goes
<1>18. top # "gate" => SameGate(g, f)
  BY <1>2, <1>11, <1>14, <1>15 DEF SameGate, RefersGate, HoldsGate
<1>19. top # "keys" => SameKeys(g, f)
  <2>1. top # "keys" => TakenBy(g) = TakenBy(f)
    BY Zenon, <1>11, <1>15 DEF TakenBy
  <2> QED
    BY <1>2, <1>12, <1>14, <1>15, <2>1 DEF SameKeys, RefersKeys, HoldsKeys
<1>20. SemaphoreInv'
  <2>1. CASE top = "keys"
    <3>1. RefersKeys(f) = TakenBy(f) /\ HoldsKeys(f) = TakenBy(f)
      BY Zenon, <1>2, <1>12 DEF RefersKeys, HoldsKeys
    <3>2. RefersKeys(g) = {} /\ HoldsKeys(g) = {}
      BY Zenon, <1>11, <1>15, <2>1, NoKeys
    <3> QED
      BY <1>1, <1>9, <1>10, <1>18, <2>1, <3>1, <3>2, KeysReturned
  <2>2. CASE top = "gate"
    <3>1. RefersGate(f) = {f.gate} /\ HoldsGate(f) = {f.gate}
      BY <1>2, <1>4, <1>12, <2>2 DEF RefersGate, HoldsGate
    <3>2. RefersGate(g) = {} /\ HoldsGate(g) = {}
      BY Zenon, <1>11, <1>15, <2>2 DEF RefersGate, HoldsGate
    <3> QED
      BY <1>1, <1>9, <1>10, <1>19, <2>2, <3>1, <3>2, GateReturned
  <2>3. CASE top \notin {"keys", "gate"}
    BY <1>1, <1>9, <1>10, <1>18, <1>19, <2>3, SemaphoresUntouched
  <2> QED
    BY Zenon, <2>1, <2>2, <2>3
<1>21. MiscOK'
  BY Zenon, <1>1, MiscKept DEF Release, MiscOK
<1> QED
  BY <1>2, <1>10, <1>15, <1>17, <1>20, <1>21, GoroutineStep DEF Admitted, Entitled

\* The count of the queue goes down with the claims of the queue.
LEMMA ReleaseQueue ==
  ASSUME SlotCounts, PoolInv, NEW s \in Slots, Release(s), LastDefer(gor[s].defers) = "queue"
  PROVE  PoolInv'
<1> DEFINE f == gor[s]
           g == [gor[s] EXCEPT !.defers = gor[s].defers \ {"queue"},
                               !.keys = gor[s].keys, !.gate = gor[s].gate]
<1>1. GorOK /\ MiscOK /\ SemaphoreInv /\ QueueInv
  BY Zenon DEF PoolInv, CountInv
<1>2. f # Idle /\ f \in Goroutines /\ StageOK(f) /\ f.stage = "closing"
  BY Zenon, <1>1, StageIsBusy DEF Release, Stages
<1>3. "pending" \in f.defers /\ f.defers \in SUBSET {Defers[i] : i \in DOMAIN Defers}
  BY Zenon, <1>2 DEF StageOK, Goroutines
<1>4. "queue" \in f.defers
  BY Zenon, <1>3, LastDeferred
<1>5. gor' = [t \in Slots |-> IF t = s THEN g ELSE gor[t]]
  BY Zenon DEF Release
<1>6. SlotStep(s, g)
  BY Zenon, <1>1, <1>5 DEF SlotStep, GorOK
<1>7. PICK own : own = JobOf[f.job].queue
  BY Zenon
<1>8. /\ UNCHANGED <<policies, tails, updates, broken, keySemaphores, rateGates>>
      /\ active' = [active EXCEPT ![own] = active[own] - 1]
  BY Zenon, <1>7 DEF Release, Job
<1>9. g \in Goroutines /\ g # Idle
  BY Zenon, <1>2, GoroutineNotIdle DEF Goroutines
<1>10. /\ g.stage = "closing" /\ g.rules = f.rules /\ g.job = f.job
      /\ g.after = f.after /\ g.keys = f.keys /\ g.want = f.want
      /\ g.gate = f.gate /\ g.defers = f.defers \ {"queue"} /\ f.job \in JobIDs
  BY Zenon, <1>2 DEF Goroutines
<1> HIDE DEF g
<1>11. StageOK(g)
  BY Zenon, <1>2, <1>10 DEF StageOK, Admitted
<1>12. Goes(s, g)
  BY SMTT(30), <1>2, <1>6, <1>8, <1>9, <1>10, <1>11 DEF Goes
<1>13. SameKeys(g, f) /\ SameGate(g, f)
  <2>1. TakenBy(g) = TakenBy(f) /\ WantedBy(g) = WantedBy(f)
    BY Zenon, <1>10 DEF TakenBy, WantedBy
  <2> QED
    BY <1>2, <1>9, <1>10, <2>1
       DEF SameKeys, SameGate, RefersGate, HoldsGate, RefersKeys, HoldsKeys
<1>14. SemaphoreInv'
  BY <1>1, <1>6, <1>8, <1>13, SemaphoresUntouched
<1>15. MiscOK'
  BY Zenon, <1>1, MiscKept DEF Release, MiscOK
<1>16. QueueInv'
  <2>1. \A t \in Slots : gor'[t] = IF t = s THEN g ELSE gor[t]
    BY Zenon, <1>5
  <2>2. own \in ConfiguredQueues
    BY Zenon, <1>10, <1>7, WorkerPoolAssumption
  <2>3. s \in QueueHolders(own) /\ QueueHolders(own)' = QueueHolders(own) \ {s}
    BY SMTT(30), <1>2, <1>4, <1>9, <1>10, <1>7, <2>1 DEF QueueHolders
  <2>4. ASSUME NEW q, q # own PROVE QueueHolders(q)' = QueueHolders(q)
    BY <1>2, <1>9, <1>10, <1>7, <2>1, <2>4 DEF QueueHolders
  <2>5. QueueHolders(own) \subseteq Slots
    BY Zenon DEF QueueHolders
  <2>7. Cardinality(QueueHolders(own)') = Cardinality(QueueHolders(own)) - 1
    BY <2>3, <2>5 DEF SlotCounts
  <2>9. Cardinality(QueueHolders(own)') \in Nat
    BY Zenon, <2>3, <2>5, SlotSets
  <2>10. active[own] = Cardinality(QueueHolders(own)) /\ active[own] - 1 \in Nat
    BY Zenon, <1>1, <2>2, <2>7, <2>9 DEF QueueInv
  <2>11. active' \in [ConfiguredQueues -> Nat]
    BY Zenon, <1>1, <1>8, <2>10 DEF QueueInv
  <2>12. ASSUME NEW q \in ConfiguredQueues
         PROVE  /\ active'[q] = Cardinality(QueueHolders(q)')
                /\ updates = 0 /\ policies[q].concurrency > 0 =>
                     active'[q] <= policies[q].concurrency
    <3>1. updates = 0 /\ policies[q].concurrency > 0 => active[q] <= policies[q].concurrency
      BY Zenon, <1>1 DEF QueueInv
    <3>2. policies[q].concurrency \in Nat
      BY Zenon, <1>1, WorkerPoolAssumption DEF MiscOK
    <3>3. CASE q = own
      <4>1. active'[q] = active[own] - 1 /\ active[own] \in Nat
        BY Zenon, <1>1, <1>8, <2>2, <3>3 DEF QueueInv
      <4> QED
        BY <2>7, <2>10, <3>1, <3>2, <3>3, <4>1
    <3>4. CASE q # own
      <4>1. active'[q] = active[q] /\ active[q] = Cardinality(QueueHolders(q))
        BY Zenon, <1>1, <1>8, <3>4 DEF QueueInv
      <4> QED
        BY Zenon, <2>4, <3>1, <3>4, <4>1
    <3> QED
      BY Zenon, <3>3, <3>4
  <2> QED
    BY Zenon, <1>8, <2>11, <2>12 DEF QueueInv
<1> QED
  BY <1>2, <1>8, <1>10, <1>12, <1>14, <1>15, <1>16, GoesStep DEF Admitted, Entitled

\* The slot is free again: its goroutine had given back everything else.
LEMMA ReleasePending ==
  ASSUME PoolInv, NEW s \in Slots, Release(s), LastDefer(gor[s].defers) = "pending"
  PROVE  PoolInv'
<1> DEFINE f == gor[s]
<1>1. GorOK /\ MiscOK /\ SemaphoreInv /\ RulesInv /\ QueueInv /\ SemInv /\ KindInv /\ ChainInv
  BY Zenon DEF PoolInv, CountInv
<1>2. f # Idle /\ f \in Goroutines /\ StageOK(f) /\ f.stage = "closing"
  BY Zenon, <1>1, StageIsBusy DEF Release, Stages
<1>3. "pending" \in f.defers /\ f.defers \in SUBSET {Defers[i] : i \in DOMAIN Defers}
  BY Zenon, <1>2 DEF StageOK, Goroutines
<1>4. f.defers = {"pending"}
  BY Zenon, <1>3, LastDeferred
<1>5. gor' = [t \in Slots |-> IF t = s THEN Idle ELSE gor[t]]
  BY Zenon DEF Release
<1>6. SlotStep(s, Idle) /\ \A t \in Slots : gor'[t] = IF t = s THEN Idle ELSE gor[t]
  BY Zenon, <1>1, <1>5 DEF SlotStep, GorOK
<1>7. UNCHANGED <<policies, tails, active, updates, broken, keySemaphores, rateGates>>
  BY Zenon DEF Release
<1>8. f.keys = 0 /\ ~f.want /\ f.gate = None
  BY Zenon, <1>2, <1>4 DEF StageOK
<1>9. SameKeys(Idle, f) /\ SameGate(Idle, f)
  <2>1. RefersKeys(f) = {} /\ HoldsKeys(f) = {}
    BY Zenon, <1>8, NoKeys
  <2>2. RefersGate(f) = {} /\ HoldsGate(f) = {}
    BY Zenon, <1>4, <1>8 DEF RefersGate, HoldsGate
  <2> QED
    BY Zenon, <2>1, <2>2 DEF SameKeys, SameGate, RefersKeys, HoldsKeys, RefersGate, HoldsGate
<1>10. SemaphoreInv'
  BY <1>1, <1>6, <1>7, <1>9, SemaphoresUntouched
<1>11. MiscOK'
  BY Zenon, <1>1, MiscKept DEF Release, MiscOK
<1>12. GorOK'
  <2>1. gor' \in [Slots -> {Idle} \cup Goroutines]
    BY Zenon, <1>1, <1>5 DEF GorOK
  <2>2. \A t \in Slots : gor'[t] # Idle => StageOK(gor'[t])
    BY Zenon, <1>1, <1>6 DEF GorOK
  <2> QED
    BY Zenon, <2>1, <2>2 DEF GorOK, StageOK, KindLimit
<1>13. RulesInv'
  <2>1. \A q : KeyRules(q)' = KeyRules(q)
    BY Zenon, <1>7 DEF KeyRules
  <2> QED
    BY Zenon, <1>1, <1>6, <1>7, <2>1 DEF RulesInv, Admitted
<1>14. CountInv'
  <2>1. ASSUME NEW q PROVE QueueHolders(q)' = QueueHolders(q)
    BY <1>4, <1>6 DEF QueueHolders
  <2>2. SemHolders' = SemHolders
    BY <1>4, <1>6 DEF SemHolders
  <2>3. ASSUME NEW kind PROVE KindHolders(kind)' = KindHolders(kind)
    BY <1>4, <1>6 DEF KindHolders
  <2>4. QueueInv'
    BY Zenon, <1>1, <1>7, <2>1 DEF QueueInv
  <2>5. SemInv' /\ KindInv'
    BY Zenon, <1>1, <2>2, <2>3 DEF SemInv, KindInv
  <2> QED
    BY Zenon, <2>4, <2>5 DEF CountInv
<1>15. ChainInv'
  <2>1. \A t \in Slots : SameLink(gor'[t], gor[t])
    BY <1>4, <1>6 DEF SameLink, InChain
  <2>2. ASSUME NEW t \in Slots, gor'[t] # Idle, gor'[t].stage # "pipeline", gor'[t].after # None
        PROVE  JobOf[gor'[t].job].pipeline \in broken'
    <3>1. gor'[t] = gor[t]
      BY Zenon, <1>6, <2>2
    <3>2. JobOf[gor[t].job].pipeline \in Pipelines
      BY Zenon, <1>1, <2>2, <3>1 DEF ChainInv, AfterInv
    <3> QED
      BY Zenon, <1>1, <1>7, <2>2, <3>1, <3>2 DEF ChainInv, TurnInv
  <2> QED
    BY Zenon, <1>1, <1>7, <2>1, <2>2, ChainKept
<1> QED
  BY <1>10, <1>11, <1>12, <1>13, <1>14, <1>15 DEF PoolInv

\* Everything but the links is as it was.
Alike(g, f) ==
  /\ g = Idle <=> f = Idle
  /\ g # Idle =>
       /\ g \in Goroutines
       /\ g.stage = f.stage /\ g.job = f.job /\ g.rules = f.rules
       /\ g.keys = f.keys /\ g.want = f.want /\ g.gate = f.gate
       /\ \A d \in {"pending", "queue", "keys", "gate", "kind", "sem"} :
            d \in g.defers <=> d \in f.defers
       /\ g.defers = f.defers \/ g.stage = "closing"

\* A step that changes links only keeps what does not depend on them.
LEMMA AlikeStep ==
  ASSUME GorOK, RulesInv, SemaphoreInv, CountInv,
         gor' \in [Slots -> {Idle} \cup Goroutines],
         \A t \in Slots : Alike(gor'[t], gor[t]),
         UNCHANGED <<policies, updates, active, keySemaphores, rateGates>>
  PROVE  GorOK' /\ RulesInv' /\ SemaphoreInv' /\ CountInv'
<1>1. GorOK'
  <2>1. ASSUME NEW t \in Slots, gor'[t] # Idle PROVE StageOK(gor'[t])
    <3>1. PICK g, f : g = gor'[t] /\ f = gor[t]
      BY Zenon
    <3>2. StageOK(f) /\ Alike(g, f) /\ g # Idle
      BY ZenonT(30), <2>1, <3>1 DEF GorOK, Alike
    <3>3. KindLimit(g) = KindLimit(f)
      BY Zenon, <3>2 DEF Alike, KindLimit
    <3>4. StageOK(g)
      BY <3>2, <3>3 DEF Alike, StageOK, Admitted
    <3> QED
      BY Zenon, <3>1, <3>4
  <2> QED
    BY Zenon, <2>1 DEF GorOK, StageOK, KindLimit
<1>2. RulesInv'
  <2>1. \A q : KeyRules(q)' = KeyRules(q)
    BY Zenon DEF KeyRules
  <2> QED
    BY Zenon, <2>1 DEF RulesInv, Alike, Admitted
<1>3. SemaphoreInv'
  <2>1. ASSUME NEW g, NEW f, Alike(g, f)
        PROVE  SameKeys(g, f) /\ SameGate(g, f)
    <3>1. g # Idle => TakenBy(g) = TakenBy(f) /\ WantedBy(g) = WantedBy(f)
      BY <2>1 DEF Alike, TakenBy, WantedBy
    <3> QED
      BY Zenon, <2>1, <3>1 DEF Alike, SameKeys, SameGate, RefersGate, HoldsGate, RefersKeys, HoldsKeys
  <2>2. \A t \in Slots : SameKeys(gor'[t], gor[t]) /\ SameGate(gor'[t], gor[t])
    BY Zenon, <2>1
  <2>3. KeyUsers' = KeyUsers /\ KeyHolders' = KeyHolders
    BY Zenon, <2>2 DEF KeyUsers, KeyHolders, SameKeys
  <2>4. GateUsers' = GateUsers /\ GateHolders' = GateHolders
    BY Zenon, <2>2 DEF GateUsers, GateHolders, SameGate
  <2>5. KeyInv' /\ GateInv'
    BY Zenon, <2>3, <2>4 DEF SemaphoreInv, KeyInv, GateInv
  <2>6. CapInv'
    BY Zenon, CapKept DEF SemaphoreInv, SameCaps
  <2> QED
    BY Zenon, <2>5, <2>6 DEF SemaphoreInv
<1>4. CountInv'
  <2>1. ASSUME NEW q PROVE QueueHolders(q)' = QueueHolders(q)
    BY Zenon DEF QueueHolders, Alike
  <2>2. SemHolders' = SemHolders
    BY Zenon DEF SemHolders, Alike
  <2>3. ASSUME NEW kind PROVE KindHolders(kind)' = KindHolders(kind)
    BY Zenon DEF KindHolders, Alike
  <2>4. QueueInv'
    BY Zenon, <2>1 DEF CountInv, QueueInv
  <2>5. SemInv' /\ KindInv'
    BY Zenon, <2>2, <2>3 DEF CountInv, SemInv, KindInv
  <2> QED
    BY Zenon, <2>4, <2>5 DEF CountInv
<1> QED
  BY Zenon, <1>1, <1>2, <1>3, <1>4

=============================================================================
