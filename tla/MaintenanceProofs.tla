-------------------------- MODULE MaintenanceProofs --------------------------
(***************************************************************************)
(* A retention pass misses nothing, for every number of jobs, every page   *)
(* size and every interleaving with workers and operators.                 *)
(*                                                                         *)
(* The argument is about pages: a page holds the newest rows that follow   *)
(* the cursor, so a row that is not in it is older than all of it and      *)
(* follows the next cursor; and a page that is not full holds every row.   *)
(* What the pass still owes is therefore always in the page it works on or *)
(* beyond the cursor.                                                      *)
(***************************************************************************)
EXTENDS Maintenance, FiniteSetTheorems, WellFoundedInduction, TLAPS

-----------------------------------------------------------------------------
(* Sets of job ids.                                                        *)

\* A page that is not empty has a last row (rows[len(rows)-1] in Prune).
LEMMA HasOldest ==
  ASSUME NEW S \in SUBSET Nat, S # {}
  PROVE  \E m \in S : \A k \in S : m <= k
<1>1. PICK R : R = {ss \in Nat \X Nat : ss[1] < ss[2]}
  BY Zenon
<1>2. IsWellFoundedOn(R, Nat)
  BY Zenon, <1>1, NatLessThanWellFounded DEF OpToRel
<1>3. PICK m \in S : \A k \in S : ~(<<k, m>> \in R)
  BY Zenon, <1>2, WFMin
<1>4. \A k \in S : ~(k < m)
  BY Zenon, <1>1, <1>3
<1> QED
  BY <1>4

\* A page that is not empty has a first row, the one that Prune deletes
\* next: it has the fewest rows before it.
LEMMA HasNewest ==
  ASSUME NEW S \in SUBSET Nat, IsFiniteSet(S), S # {}
  PROVE  \E m \in S : \A k \in S : k <= m
<1> DEFINE Newer(j) == {k \in S : k > j}
           Counts == {Cardinality(Newer(j)) : j \in S}
<1>1. \A j \in S : IsFiniteSet(Newer(j)) /\ Cardinality(Newer(j)) \in Nat
  BY Zenon, FS_Subset, FS_CardinalityType
<1>2. Counts \in SUBSET Nat /\ Counts # {}
  BY Zenon, <1>1
<1>3. PICK c \in Counts : \A d \in Counts : c <= d
  BY Zenon, <1>2, HasOldest
<1>4. PICK m \in S : c = Cardinality(Newer(m))
  BY Zenon, <1>3
<1>5. ASSUME NEW k \in S, k > m
      PROVE  FALSE
  <2>1. Newer(k) \subseteq Newer(m) /\ k \in Newer(m) /\ k \notin Newer(k)
    <3>1. \A i \in S : i \in Nat /\ (i > k => i > m) /\ ~(k > k)
      BY <1>5
    <3> QED
      BY Zenon, <1>5, <3>1
  <2>2. Cardinality(Newer(k)) < Cardinality(Newer(m))
    <3>1. Newer(k) # Newer(m)
      BY Zenon, <2>1
    <3>2. IsFiniteSet(Newer(m))
      BY Zenon, <1>1
    <3>3. Cardinality(Newer(k)) \in Nat /\ Cardinality(Newer(m)) \in Nat
      BY Zenon, <1>1
    <3> HIDE DEF Newer
    <3>4. Newer(k) \in SUBSET Newer(m)
      BY Zenon, <2>1
    <3>5. /\ Cardinality(Newer(k)) <= Cardinality(Newer(m))
          /\ Cardinality(Newer(m)) = Cardinality(Newer(k)) => Newer(m) = Newer(k)
      BY Zenon, <3>2, <3>4, FS_Subset
    <3> QED
      BY <3>1, <3>3, <3>5
  <2>3. c <= Cardinality(Newer(k))
    BY Zenon, <1>3
  <2> QED
    BY SMTT(30), <1>1, <1>4, <2>2, <2>3
<1> QED
  BY <1>5

-----------------------------------------------------------------------------
(* Pages.                                                                  *)

\* The page of JobList: the rows of found with fewer than PageSize before.
PageOf(found) == {j \in found : Cardinality({k \in found : k > j}) < PageSize}

\* JobList never returns more than PageSize rows.
LEMMA PageFits ==
  ASSUME NEW found \in SUBSET Jobs
  PROVE  /\ IsFiniteSet(PageOf(found))
         /\ Cardinality(PageOf(found)) \in Nat
         /\ Cardinality(PageOf(found)) <= PageSize
<1>1. /\ IsFiniteSet(found) /\ found \in SUBSET Nat /\ PageSize \in Nat \ {0}
  BY Zenon, MaintenanceAssumption, FS_Subset
<1>2. PageOf(found) \subseteq found
  BY Zenon DEF PageOf
<1>3. IsFiniteSet(PageOf(found)) /\ Cardinality(PageOf(found)) \in Nat
  BY Zenon, <1>1, <1>2, FS_Subset, FS_CardinalityType
<1>4. CASE PageOf(found) = {}
  BY <1>1, <1>3, <1>4, FS_EmptySet
<1>5. CASE PageOf(found) # {}
  <2>1. PICK m \in PageOf(found) : \A k \in PageOf(found) : m <= k
    BY Zenon, <1>1, <1>2, <1>5, HasOldest
  <2>2. PICK newer : newer = {k \in found : k > m}
    BY Zenon
  <2>3. Cardinality(newer) < PageSize
    BY Zenon, <2>1, <2>2 DEF PageOf
  <2>4. IsFiniteSet(newer) /\ Cardinality(newer) \in Nat
    BY Zenon, <1>1, <2>2, FS_Subset, FS_CardinalityType
  <2>5. PageOf(found) \subseteq newer \cup {m}
    <3>1. ASSUME NEW k \in PageOf(found)
          PROVE  k \in found /\ (k = m \/ k > m)
      <4>1. k \in found /\ k \in Nat /\ m \in Nat
        BY Zenon, <1>1, <1>2
      <4>2. m <= k
        BY Zenon, <2>1
      <4> QED
        BY <4>1, <4>2
    <3> QED
      BY Zenon, <2>2, <3>1
  <2>6. /\ IsFiniteSet(newer \cup {m})
        /\ Cardinality(newer \cup {m}) <= Cardinality(newer) + 1
        /\ Cardinality(newer \cup {m}) \in Nat
    BY <2>4, FS_AddElement, FS_CardinalityType
  <2>7. Cardinality(PageOf(found)) <= Cardinality(newer \cup {m})
    BY Zenon, <2>5, <2>6, FS_Subset
  <2> QED
    BY <1>1, <1>3, <2>3, <2>4, <2>6, <2>7
<1> QED
  BY Zenon, <1>4, <1>5

\* A row that JobList leaves for a later page is older than the whole page,
\* so it follows the cursor of the last row (JobFollowsCursor).
LEMMA LeftForLater ==
  ASSUME NEW found \in SUBSET Jobs,
         NEW j \in found, j \notin PageOf(found),
         NEW k \in PageOf(found)
  PROVE  j < k
<1>1. /\ IsFiniteSet(found) /\ found \in SUBSET Nat /\ PageSize \in Nat
      /\ k \in found
  BY Zenon, MaintenanceAssumption, FS_Subset DEF PageOf
<1>2. SUFFICES ASSUME k <= j PROVE FALSE
  BY <1>1
<1>3. PICK nj, nk : nj = {i \in found : i > j} /\ nk = {i \in found : i > k}
  BY Zenon
<1>4. IsFiniteSet(nk) /\ IsFiniteSet(nj)
  BY Zenon, <1>1, <1>3, FS_Subset
<1>5. nj \subseteq nk
  <2>1. \A i \in found : i \in Nat /\ (i > j => i > k)
    BY <1>1, <1>2
  <2> QED
    BY Zenon, <1>3, <2>1
<1>6. Cardinality(nj) <= Cardinality(nk)
  BY Zenon, <1>4, <1>5, FS_Subset
<1>7. Cardinality(nk) < PageSize /\ ~(Cardinality(nj) < PageSize)
  BY Zenon, <1>3 DEF PageOf
<1>8. Cardinality(nj) \in Nat /\ Cardinality(nk) \in Nat
  BY Zenon, <1>4, FS_CardinalityType
<1> QED
  BY <1>1, <1>6, <1>7, <1>8

\* A page that is not full is the last one: it holds every row that follows
\* the cursor (the break on len(rows) < maintenancePageSize).
LEMMA ShortPageIsLast ==
  ASSUME NEW found \in SUBSET Jobs, Cardinality(PageOf(found)) < PageSize
  PROVE  PageOf(found) = found
<1>1. /\ IsFiniteSet(found) /\ found \in SUBSET Nat /\ PageSize \in Nat
      /\ PageOf(found) \subseteq found
  BY Zenon, MaintenanceAssumption, FS_Subset DEF PageOf
<1>2. SUFFICES ASSUME found \ PageOf(found) # {} PROVE FALSE
  BY Zenon, <1>1
<1>3. PICK rest : rest = found \ PageOf(found)
  BY Zenon
<1>4. IsFiniteSet(rest) /\ rest \in SUBSET Nat /\ rest # {}
  BY Zenon, <1>1, <1>2, <1>3, FS_Subset
<1>5. PICK m \in rest : \A k \in rest : k <= m
  BY Zenon, <1>4, HasNewest
<1>6. PICK newer : newer = {i \in found : i > m}
  BY Zenon
<1>7. newer \subseteq PageOf(found)
  BY <1>1, <1>3, <1>4, <1>5, <1>6
<1>8. IsFiniteSet(PageOf(found)) /\ Cardinality(PageOf(found)) \in Nat
  BY Zenon, PageFits
<1>9. Cardinality(newer) <= Cardinality(PageOf(found)) /\ Cardinality(newer) \in Nat
  BY Zenon, <1>7, <1>8, FS_Subset, FS_CardinalityType
<1>10. Cardinality(newer) < PageSize
  BY <1>1, <1>8, <1>9
<1>11. m \in PageOf(found)
  BY Zenon, <1>3, <1>5, <1>6, <1>10 DEF PageOf
<1> QED
  BY Zenon, <1>3, <1>5, <1>11

-----------------------------------------------------------------------------
(* The inductive invariant.                                                *)

\* What the pass owes stays expired until it is deleted: only a reschedule
\* takes a job out of its terminal state, and that settles the debt.
StillExpired ==
  \A j \in owed : state[j] = "none" \/ Expired(j, prune.class, prune.cutoff)

\* What the pass owes and has not deleted is in the page it works on or
\* follows the cursor of the next one, and there is a next one.
NotPassed ==
  \A j \in owed :
    \/ state[j] = "none"
    \/ prune.phase = "list" /\ FollowsCursor(j, prune.cursor)
    \/ /\ prune.phase = "delete"
       /\ j \in prune.page \/ (~prune.last /\ FollowsCursor(j, prune.cursor))

\* Before the cutoff is taken nothing is owed, and the listing will start
\* without a cursor.
FreshClass ==
  prune.phase \in {"idle", "cutoff"} =>
    owed = {} /\ prune.page = {} /\ prune.cursor = NoJob

PruneInv == TypeOK /\ StillExpired /\ NotPassed /\ FreshClass

-----------------------------------------------------------------------------
(* The classes and the cursor.                                             *)

\* The three classes of Prune and their states.
LEMMA ClassFacts ==
  /\ DOMAIN Classes = 1..3 /\ Len(Classes) = 3
  /\ TerminalStates = {"completed", "discarded", "cancelled"}
  /\ \A c \in 1..3 : Classes[c] \in TerminalStates /\ Retention[Classes[c]] \in Nat
<1>1. DOMAIN Classes = 1..3 /\ Len(Classes) = 3
  BY DEF Classes
<1>2. Classes[1] = "completed" /\ Classes[2] = "discarded" /\ Classes[3] = "cancelled"
  BY Zenon DEF Classes
<1>3. \A c \in 1..3 : c = 1 \/ c = 2 \/ c = 3
  OBVIOUS
<1>4. 1 \in 1..3 /\ 2 \in 1..3 /\ 3 \in 1..3
  OBVIOUS
<1>5. TerminalStates = {"completed", "discarded", "cancelled"}
  BY Zenon, <1>1, <1>2, <1>3, <1>4 DEF TerminalStates
<1>6. \A c \in 1..3 : Classes[c] \in TerminalStates
  BY Zenon, <1>1 DEF TerminalStates
<1>7. \A c \in 1..3 : Retention[Classes[c]] \in Nat
  BY Zenon, <1>6, MaintenanceAssumption
<1> QED
  BY Zenon, <1>1, <1>5, <1>6, <1>7

\* The next class is a pass that owes nothing yet, or the end.
LEMMA NextClassFresh ==
  ASSUME NEW c \in 0..3
  PROVE  \/ NextClass(c) = NoPass
         \/ \E d \in 1..3 :
              NextClass(c) = [NoPass EXCEPT !.phase = "cutoff", !.class = d]
<1>1. PICK later : later = {d \in DOMAIN Classes : d > c /\ Retention[Classes[d]] > 0}
  BY Zenon
<1>2. later \subseteq 1..3 /\ later \in SUBSET Nat
  BY <1>1, ClassFacts
<1>3. CASE later = {}
  BY Zenon, <1>1, <1>3 DEF NextClass
<1>4. CASE later # {}
  <2>1. PICK d : d = CHOOSE e \in later : \A f \in later : e <= f
    BY Zenon
  <2>2. \E e \in later : \A f \in later : e <= f
    BY Zenon, <1>2, <1>4, HasOldest
  <2>3. d \in later
    BY Zenon, <2>1, <2>2
  <2>4. NextClass(c) = [NoPass EXCEPT !.phase = "cutoff", !.class = d]
    BY Zenon, <1>1, <1>4, <2>1 DEF NextClass
  <2> QED
    BY Zenon, <1>2, <2>3, <2>4
<1> QED
  BY Zenon, <1>3, <1>4

\* The record of the pass, field by field.
Passes ==
  [phase : {"idle", "cutoff", "list", "delete", "swept"},
   class : 0..3, cutoff : Int, cursor : Nat \cup {NoJob},
   page : SUBSET Jobs, last : BOOLEAN]

\* Between two classes the pass is typed and has neither page nor cursor.
LEMMA NextClassTyped ==
  ASSUME NEW c \in 0..3
  PROVE  /\ NextClass(c) \in Passes
         /\ NextClass(c).phase \in {"idle", "cutoff"}
         /\ NextClass(c).phase # "idle" => NextClass(c).class # 0
         /\ NextClass(c).page = {} /\ NextClass(c).cursor = NoJob
<1>1. NoPass \in Passes /\ NoPass.phase = "idle" /\ NoPass.page = {} /\ NoPass.cursor = NoJob
  BY DEF NoPass, Passes
<1>2. ASSUME NEW d \in 1..3, NEW p, p = [NoPass EXCEPT !.phase = "cutoff", !.class = d]
      PROVE  /\ p \in Passes /\ p.phase = "cutoff" /\ p.class # 0
             /\ p.page = {} /\ p.cursor = NoJob
  <2>1. p = [phase |-> "cutoff", class |-> d, cutoff |-> 0, cursor |-> NoJob,
             page |-> {}, last |-> FALSE]
    BY Zenon, <1>2 DEF NoPass
  <2>2. d \in 0..3 /\ d # 0
    OBVIOUS
  <2> QED
    BY <2>1, <2>2 DEF Passes
<1> QED
  BY <1>1, <1>2, NextClassFresh

\* The row that Prune deletes next is a row of the page.
LEMMA FirstOfPage ==
  ASSUME NEW page \in SUBSET Jobs, page # {}
  PROVE  Newest(page) \in page
<1>1. page \in SUBSET Nat /\ IsFiniteSet(page)
  BY Zenon, MaintenanceAssumption, FS_Subset
<1>2. \E m \in page : \A k \in page : k <= m
  BY Zenon, <1>1, HasNewest
<1> QED
  BY Zenon, <1>2 DEF Newest

\* The cursor of a page that is not empty is its oldest row.
LEMMA LastOfPage ==
  ASSUME NEW rows \in SUBSET Jobs, rows # {}
  PROVE  PageCursor(rows) \in rows /\ \A k \in rows : PageCursor(rows) <= k
<1>1. rows \in SUBSET Nat
  BY Zenon, MaintenanceAssumption
<1>2. \E m \in rows : \A k \in rows : m <= k
  BY Zenon, <1>1, HasOldest
<1> QED
  BY Zenon, <1>2 DEF PageCursor

-----------------------------------------------------------------------------
(* The two halves of the type invariant.                                   *)

RowStates == {"none", "available", "scheduled", "running",
              "completed", "discarded", "cancelled"}

TableOK ==
  /\ clock \in Nat /\ clock <= MaxTime
  /\ state \in [Jobs -> RowStates]
  /\ finalizedAt \in [Jobs -> Nat \cup {NoTime}]
  /\ \A j \in Jobs : finalizedAt[j] # NoTime => finalizedAt[j] <= clock
  /\ \A j \in Jobs : state[j] \in {"completed", "discarded", "cancelled"} =>
                       finalizedAt[j] # NoTime

PassOK ==
  /\ prune \in Passes
  /\ prune.phase # "idle" => prune.class # 0
  /\ Cardinality(prune.page) <= PageSize
  /\ owed \subseteq Jobs

ReplayOK == replay \in [Operators -> Jobs \cup {NoJob}]

\* The type invariant says just that.
LEMMA TypeHalves == TypeOK <=> TableOK /\ PassOK /\ ReplayOK
<1>1. MaxTime \in Nat /\ NoTime \notin Int
  BY Zenon, MaintenanceAssumption
<1>2. clock \in 0..MaxTime <=> clock \in Nat /\ clock <= MaxTime
  BY <1>1
<1>3. RowStates = {"none", "available", "scheduled", "running"} \cup TerminalStates
  BY Zenon, ClassFacts DEF RowStates
<1>4. ASSUME clock \in Nat
      PROVE  finalizedAt \in [Jobs -> 0..clock \cup {NoTime}] <=>
               /\ finalizedAt \in [Jobs -> Nat \cup {NoTime}]
               /\ \A j \in Jobs : finalizedAt[j] # NoTime => finalizedAt[j] <= clock
  <2>1. \A x : x \in 0..clock \cup {NoTime} <=>
                 x \in Nat \cup {NoTime} /\ (x # NoTime => x <= clock)
    BY <1>1, <1>4
  <2> QED
    BY Zenon, <2>1
<1>5. (prune \in [phase : {"idle", "cutoff", "list", "delete", "swept"},
                  class : 0..Len(Classes), cutoff : Int, cursor : Nat \cup {NoJob},
                  page : SUBSET Jobs, last : BOOLEAN]) <=> prune \in Passes
  BY Zenon, ClassFacts DEF Passes
<1>6. \A j : (state[j] \in TerminalStates) <=>
             state[j] \in {"completed", "discarded", "cancelled"}
  BY Zenon, ClassFacts
<1> QED
  BY Zenon, <1>2, <1>3, <1>4, <1>5, <1>6 DEF TypeOK, TableOK, PassOK, ReplayOK

\* One row changes its state; a terminal one is finalized now or was before
\* (JobSetStateIfRunning, JobCancel, JobReschedule, JobDelete).
LEMMA RowStep ==
  ASSUME TableOK, NEW j \in Jobs, NEW s \in RowStates,
         state' = [state EXCEPT ![j] = s], clock' = clock,
         \/ finalizedAt' = finalizedAt /\ s \notin {"completed", "discarded", "cancelled"}
         \/ finalizedAt' = [finalizedAt EXCEPT ![j] = clock]
  PROVE  TableOK'
<1>1. NoTime \notin Nat /\ clock \in Nat /\ clock' = clock /\ clock <= MaxTime
  BY MaintenanceAssumption DEF TableOK
<1>2. state' \in [Jobs -> RowStates]
  BY Zenon DEF TableOK
<1>3. \A k \in Jobs : state'[k] = IF k = j THEN s ELSE state[k]
  BY Zenon DEF TableOK
<1>4. CASE finalizedAt' = finalizedAt /\ s \notin {"completed", "discarded", "cancelled"}
  BY <1>1, <1>2, <1>3, <1>4 DEF TableOK
<1>5. CASE finalizedAt' = [finalizedAt EXCEPT ![j] = clock]
  <2>1. finalizedAt' \in [Jobs -> Nat \cup {NoTime}]
    BY Zenon, <1>1, <1>5 DEF TableOK
  <2>2. \A k \in Jobs : finalizedAt'[k] = IF k = j THEN clock ELSE finalizedAt[k]
    BY Zenon, <1>5 DEF TableOK
  <2>3. clock <= clock /\ clock # NoTime
    BY <1>1
  <2> QED
    BY <1>1, <1>2, <1>3, <2>1, <2>2, <2>3 DEF TableOK
<1> QED
  BY Zenon, <1>4, <1>5

\* A step that does not belong to the pass leaves its debt alone, as long as
\* a job that is still owed is deleted or keeps its state and its time.
LEMMA DebtKept ==
  ASSUME StillExpired, NotPassed, FreshClass,
         prune' = prune, owed' \subseteq owed,
         \A j \in owed' : \/ state'[j] = "none"
                          \/ state'[j] = state[j] /\ finalizedAt'[j] = finalizedAt[j]
  PROVE  StillExpired' /\ NotPassed' /\ FreshClass'
<1>1. StillExpired'
  BY Zenon DEF StillExpired, Expired
<1>2. NotPassed'
  BY Zenon DEF NotPassed, FollowsCursor
<1>3. FreshClass'
  BY Zenon DEF FreshClass
<1> QED
  BY Zenon, <1>1, <1>2, <1>3

\* What is owed is deleted or in a terminal state.
LEMMA OwedIsOver ==
  ASSUME PruneInv, NEW j \in owed
  PROVE  /\ j \in Jobs
         /\ state[j] \in {"none", "completed", "discarded", "cancelled"}
<1>1. PassOK
  BY Zenon, TypeHalves DEF PruneInv
<1>2. prune.phase # "idle"
  BY Zenon DEF PruneInv, FreshClass
<1>3. prune.class \in 1..3
  BY <1>1, <1>2 DEF PassOK, Passes
<1>4. Classes[prune.class] \in {"completed", "discarded", "cancelled"}
  BY Zenon, <1>3, ClassFacts
<1>5. state[j] = "none" \/ state[j] = Classes[prune.class]
  BY Zenon DEF PruneInv, StillExpired, Expired
<1> QED
  BY Zenon, <1>1, <1>4, <1>5 DEF PassOK

-----------------------------------------------------------------------------
(* The workers and the operators.                                          *)

\* A step on one row that is no step of the pass keeps the invariant.
LEMMA OthersKeep ==
  ASSUME PruneInv, TableOK', ReplayOK',
         prune' = prune, owed' \subseteq owed,
         \A j \in owed' : \/ state'[j] = "none"
                          \/ state'[j] = state[j] /\ finalizedAt'[j] = finalizedAt[j]
  PROVE  PruneInv'
<1>1. PassOK'
  <2>1. PassOK
    BY Zenon, TypeHalves DEF PruneInv
  <2> QED
    BY Zenon, <2>1 DEF PassOK
<1>2. StillExpired' /\ NotPassed' /\ FreshClass'
  BY Zenon, DebtKept DEF PruneInv
<1>3. (TypeOK <=> TableOK /\ PassOK /\ ReplayOK)'
  BY TypeHalves, PTL
<1> QED
  BY Zenon, <1>1, <1>2, <1>3 DEF PruneInv

\* JobFetchBatch touches no row in a terminal state.
LEMMA FetchKeeps ==
  ASSUME PruneInv, NEW j \in Jobs, Fetch(j)
  PROVE  PruneInv'
<1>1. TableOK /\ ReplayOK
  BY Zenon, TypeHalves DEF PruneInv
<1>2. TableOK'
  BY Zenon, <1>1, RowStep DEF Fetch, RowStates
<1>3. \A k \in owed : k # j /\ k \in Jobs
  BY Zenon, OwedIsOver DEF Fetch
<1>4. \A k \in owed' : state'[k] = state[k] /\ finalizedAt'[k] = finalizedAt[k]
  BY Zenon, <1>1, <1>3 DEF Fetch, TableOK
<1>5. ReplayOK' /\ prune' = prune /\ owed' = owed
  BY Zenon, <1>1 DEF Fetch, ReplayOK
<1> QED
  BY Zenon, <1>2, <1>4, <1>5, OthersKeep

\* JobSetStateIfRunning needs a running row.
LEMMA FinalizeKeeps ==
  ASSUME PruneInv, NEW j \in Jobs, Finalize(j)
  PROVE  PruneInv'
<1>1. TableOK /\ ReplayOK
  BY Zenon, TypeHalves DEF PruneInv
<1>2. PICK s \in {"completed", "discarded"} : state' = [state EXCEPT ![j] = s]
  BY Zenon DEF Finalize
<1>3. TableOK'
  BY Zenon, <1>1, <1>2, RowStep DEF Finalize, RowStates
<1>4. \A k \in owed : k # j /\ k \in Jobs
  BY Zenon, OwedIsOver DEF Finalize
<1>5. \A k \in owed' : state'[k] = state[k] /\ finalizedAt'[k] = finalizedAt[k]
  BY Zenon, <1>1, <1>2, <1>4 DEF Finalize, TableOK
<1>6. ReplayOK' /\ prune' = prune /\ owed' = owed
  BY Zenon, <1>1 DEF Finalize, ReplayOK
<1> QED
  BY Zenon, <1>3, <1>5, <1>6, OthersKeep

\* JobReschedule of a job settles what the pass owed of it.
LEMMA RescheduleKeeps ==
  ASSUME PruneInv, NEW j \in Jobs, Reschedule(j),
         UNCHANGED <<clock, finalizedAt, prune>>, ReplayOK'
  PROVE  PruneInv'
<1>1. TableOK
  BY Zenon, TypeHalves DEF PruneInv
<1>2. TableOK'
  BY Zenon, <1>1, RowStep DEF Reschedule, RowStates
<1>3. \A k \in owed' : k # j /\ k \in Jobs
  BY Zenon, OwedIsOver DEF Reschedule
<1>4. \A k \in owed' : state'[k] = state[k] /\ finalizedAt'[k] = finalizedAt[k]
  BY Zenon, <1>1, <1>3 DEF Reschedule, TableOK
<1>5. owed' \subseteq owed
  BY Zenon DEF Reschedule
<1> QED
  BY Zenon, <1>2, <1>4, <1>5, OthersKeep

\* JobCancel needs a pending row.
LEMMA BulkCancelKeeps ==
  ASSUME PruneInv, NEW j \in Jobs, BulkCancel(j)
  PROVE  PruneInv'
<1>1. TableOK /\ ReplayOK
  BY Zenon, TypeHalves DEF PruneInv
<1>2. TableOK'
  BY Zenon, <1>1, RowStep DEF BulkCancel, RowStates
<1>3. \A k \in owed : k # j /\ k \in Jobs
  BY Zenon, OwedIsOver DEF BulkCancel
<1>4. \A k \in owed' : state'[k] = state[k] /\ finalizedAt'[k] = finalizedAt[k]
  BY Zenon, <1>1, <1>3 DEF BulkCancel, TableOK
<1>5. ReplayOK' /\ prune' = prune /\ owed' = owed
  BY Zenon, <1>1 DEF BulkCancel, ReplayOK
<1> QED
  BY Zenon, <1>2, <1>4, <1>5, OthersKeep

\* JobDelete by an operator does the work of the pass.
LEMMA BulkDeleteKeeps ==
  ASSUME PruneInv, NEW j \in Jobs, BulkDelete(j)
  PROVE  PruneInv'
<1>1. TableOK /\ ReplayOK
  BY Zenon, TypeHalves DEF PruneInv
<1>2. TableOK'
  BY Zenon, <1>1, RowStep DEF BulkDelete, RowStates
<1>3. \A k \in owed : k \in Jobs
  BY Zenon, OwedIsOver
<1>4. \A k \in owed' : \/ state'[k] = "none"
                       \/ state'[k] = state[k] /\ finalizedAt'[k] = finalizedAt[k]
  BY Zenon, <1>1, <1>3 DEF BulkDelete, TableOK
<1>5. ReplayOK' /\ prune' = prune /\ owed' = owed
  BY Zenon, <1>1 DEF BulkDelete, ReplayOK
<1> QED
  BY Zenon, <1>2, <1>4, <1>5, OthersKeep

\* The steps of the workers, the operators and the clock.
LEMMA OutsidersKeep ==
  ASSUME PruneInv,
         \/ Tick
         \/ \E j \in Jobs :
              \/ Fetch(j) \/ Finalize(j) \/ BulkRetry(j) \/ BulkCancel(j) \/ BulkDelete(j)
              \/ \E o \in Operators : ReplayVerify(o, j)
         \/ \E o \in Operators : ReplayReschedule(o)
  PROVE  PruneInv'
<1>1. TableOK /\ ReplayOK
  BY Zenon, TypeHalves DEF PruneInv
<1>2. CASE Tick
  <2>1. TableOK'
    <3>1. clock \in Nat /\ clock' = clock + 1 /\ clock < MaxTime /\ MaxTime \in Nat
      BY Zenon, <1>1, <1>2, MaintenanceAssumption DEF Tick, TableOK
    <3>2. \A x \in Nat : x <= clock => x <= clock'
      BY <3>1
    <3>3. clock' \in Nat /\ clock' <= MaxTime
      BY <3>1
    <3> QED
      BY Zenon, <1>1, <1>2, <3>2, <3>3 DEF Tick, TableOK
  <2>2. /\ ReplayOK' /\ prune' = prune /\ owed' = owed
        /\ state' = state /\ finalizedAt' = finalizedAt
    BY Zenon, <1>1, <1>2 DEF Tick, ReplayOK
  <2> QED
    BY Zenon, <2>1, <2>2, OthersKeep
<1>3. ASSUME NEW j \in Jobs, BulkRetry(j)
      PROVE  PruneInv'
  <2>1. Reschedule(j) /\ UNCHANGED <<clock, finalizedAt, prune>> /\ ReplayOK'
    BY Zenon, <1>1, <1>3 DEF BulkRetry, ReplayOK
  <2> QED
    BY Zenon, <2>1, RescheduleKeeps
<1>4. ASSUME NEW j \in Jobs, NEW o \in Operators, ReplayVerify(o, j)
      PROVE  PruneInv'
  <2>1. ReplayOK'
    BY Zenon, <1>1, <1>4 DEF ReplayVerify, ReplayOK
  <2>2. TableOK'
    BY Zenon, <1>1, <1>4 DEF ReplayVerify, TableOK
  <2>3. prune' = prune /\ owed' = owed /\ state' = state /\ finalizedAt' = finalizedAt
    BY Zenon, <1>4 DEF ReplayVerify
  <2> QED
    BY Zenon, <2>1, <2>2, <2>3, OthersKeep
<1>5. ASSUME NEW o \in Operators, ReplayReschedule(o)
      PROVE  PruneInv'
  <2>1. ReplayOK'
    BY Zenon, <1>1, <1>5 DEF ReplayReschedule, ReplayOK
  <2>2. replay[o] \in Jobs
    BY Zenon, <1>1, <1>5 DEF ReplayReschedule, ReplayOK
  <2>3. CASE Reschedule(replay[o])
    BY Zenon, <1>5, <2>1, <2>2, <2>3, RescheduleKeeps DEF ReplayReschedule
  <2>4. CASE state[replay[o]] = "none" /\ UNCHANGED <<state, owed>>
    <3>1. TableOK'
      BY Zenon, <1>1, <1>5, <2>4 DEF ReplayReschedule, TableOK
    <3>2. prune' = prune /\ owed' = owed /\ state' = state /\ finalizedAt' = finalizedAt
      BY Zenon, <1>5, <2>4 DEF ReplayReschedule
    <3> QED
      BY Zenon, <2>1, <3>1, <3>2, OthersKeep
  <2> QED
    BY Zenon, <1>5, <2>3, <2>4 DEF ReplayReschedule
<1> QED
  BY Zenon, <1>2, <1>3, <1>4, <1>5, FetchKeeps, FinalizeKeeps, BulkCancelKeeps, BulkDeleteKeeps

-----------------------------------------------------------------------------
(* The pass.                                                               *)

\* The pieces of the invariant put together after a step of the pass, none
\* of which moves the clock, a time of finalization or a replay.
LEMMA PassStep ==
  ASSUME PruneInv, TableOK', PassOK', UNCHANGED replay,
         StillExpired', NotPassed', FreshClass'
  PROVE  PruneInv'
<1>1. ReplayOK'
  <2>1. ReplayOK
    BY Zenon, TypeHalves DEF PruneInv
  <2> QED
    BY Zenon, <2>1 DEF ReplayOK
<1>2. (TypeOK <=> TableOK /\ PassOK /\ ReplayOK)'
  BY TypeHalves, PTL
<1> QED
  BY Zenon, <1>1, <1>2 DEF PruneInv

\* Between two classes nothing is owed.
LEMMA ClassStep ==
  ASSUME PruneInv, NEW c \in 0..3, prune' = NextClass(c), owed' = {},
         UNCHANGED <<clock, state, finalizedAt, replay>>
  PROVE  PruneInv'
<1>1. TableOK'
  <2>1. TableOK
    BY Zenon, TypeHalves DEF PruneInv
  <2> QED
    BY Zenon, <2>1 DEF TableOK
<1>2. /\ prune' \in Passes /\ prune'.page = {} /\ prune'.cursor = NoJob
      /\ prune'.phase # "idle" => prune'.class # 0
  BY Zenon, NextClassTyped
<1>3. Cardinality({}) <= PageSize
  BY FS_EmptySet, MaintenanceAssumption
<1>4. PassOK'
  BY Zenon, <1>2, <1>3 DEF PassOK
<1>5. StillExpired' /\ NotPassed' /\ FreshClass'
  BY Zenon, <1>2 DEF StillExpired, NotPassed, FreshClass
<1> QED
  BY Zenon, <1>1, <1>4, <1>5, PassStep

\* SetCutoff owes what has expired and lists from the start.
LEMMA SetCutoffKeeps ==
  ASSUME PruneInv, SetCutoff
  PROVE  PruneInv'
<1>1. TableOK /\ PassOK
  BY Zenon, TypeHalves DEF PruneInv
<1>2. prune.page = {} /\ prune.cursor = NoJob /\ prune.phase = "cutoff"
  BY Zenon DEF SetCutoff, PruneInv, FreshClass
<1>3. prune.class \in 1..3
  BY <1>1, <1>2 DEF PassOK, Passes
<1>4. PICK cutoff : cutoff = clock - Retention[Classes[prune.class]]
  BY Zenon
<1>5. cutoff \in Int
  BY <1>1, <1>3, <1>4, ClassFacts DEF TableOK
<1>6. /\ prune' = [prune EXCEPT !.phase = "list", !.cutoff = cutoff]
      /\ owed' = {j \in Jobs : Expired(j, prune.class, cutoff)}
      /\ UNCHANGED <<clock, state, finalizedAt, replay>>
  BY Zenon, <1>4 DEF SetCutoff
<1>7. /\ prune' \in Passes /\ prune'.phase = "list" /\ prune'.class = prune.class
      /\ prune'.cutoff = cutoff /\ prune'.page = prune.page /\ prune'.cursor = prune.cursor
  BY Zenon, <1>1, <1>5, <1>6 DEF PassOK, Passes
<1>8. TableOK'
  BY Zenon, <1>1, <1>6 DEF TableOK
<1>9. PassOK'
  BY Zenon, <1>1, <1>2, <1>3, <1>6, <1>7 DEF PassOK
<1>10. StillExpired'
  BY Zenon, <1>6, <1>7 DEF StillExpired, Expired
<1>11. NotPassed' /\ FreshClass'
  BY Zenon, <1>2, <1>6, <1>7 DEF NotPassed, FreshClass, FollowsCursor
<1> QED
  BY Zenon, <1>6, <1>8, <1>9, <1>10, <1>11, PassStep

\* A page: what is owed is in it or follows its last row, and follows none
\* when the page is short.
LEMMA ListPageKeeps ==
  ASSUME PruneInv, ListPage
  PROVE  PruneInv'
<1>1. TableOK /\ PassOK
  BY Zenon, TypeHalves DEF PruneInv
<1>2. PICK found : found = {j \in Jobs : /\ state[j] = Classes[prune.class]
                                         /\ FollowsCursor(j, prune.cursor)}
  BY Zenon
<1>3. PICK rows : rows = PageOf(found)
  BY Zenon
<1>4. JobList(Classes[prune.class], prune.cursor) = rows
  BY Zenon, <1>2, <1>3 DEF JobList, PageOf
<1>5. /\ found \in SUBSET Jobs /\ rows \in SUBSET Jobs /\ rows \subseteq found
      /\ IsFiniteSet(rows) /\ Cardinality(rows) \in Nat /\ Cardinality(rows) <= PageSize
  BY Zenon, <1>2, <1>3, PageFits DEF PageOf
<1>6. /\ prune.phase = "list" /\ owed' = owed
      /\ UNCHANGED <<clock, state, finalizedAt, replay>>
  BY Zenon DEF ListPage
<1>7. TableOK'
  BY Zenon, <1>1, <1>6 DEF TableOK
<1>8. ASSUME NEW j \in owed
      PROVE  j \in Jobs /\ (state[j] = "none" \/ j \in found)
  <2>1. j \in Jobs
    BY Zenon, <1>1 DEF PassOK
  <2>2. state[j] = "none" \/ state[j] = Classes[prune.class]
    BY Zenon DEF PruneInv, StillExpired, Expired
  <2>3. state[j] = "none" \/ FollowsCursor(j, prune.cursor)
    BY Zenon, <1>6 DEF PruneInv, NotPassed
  <2> QED
    BY Zenon, <1>2, <2>1, <2>2, <2>3
<1>9. CASE rows = {}
  <2>1. prune' = [prune EXCEPT !.phase = "swept"]
    BY Zenon, <1>4, <1>9 DEF ListPage
  <2>2. /\ prune' \in Passes /\ prune'.phase = "swept" /\ prune'.class = prune.class
        /\ prune'.page = prune.page /\ prune'.cutoff = prune.cutoff
    BY Zenon, <1>1, <2>1 DEF PassOK, Passes
  <2>3. PassOK'
    BY Zenon, <1>1, <1>6, <2>2 DEF PassOK
  <2>4. found = {}
    <3>1. Cardinality(rows) < PageSize
      BY <1>9, FS_EmptySet, MaintenanceAssumption
    <3> QED
      BY Zenon, <1>3, <1>5, <1>9, <3>1, ShortPageIsLast
  <2>5. StillExpired'
    BY Zenon, <1>6, <2>2 DEF PruneInv, StillExpired, Expired
  <2>6. NotPassed' /\ FreshClass'
    BY Zenon, <1>6, <1>8, <2>2, <2>4 DEF NotPassed, FreshClass
  <2> QED
    BY Zenon, <1>6, <1>7, <2>3, <2>5, <2>6, PassStep
<1>10. CASE rows # {}
  <2>1. PICK page : page = {j \in rows : Expired(j, prune.class, prune.cutoff)}
    BY Zenon
  <2>2. PICK cursor : cursor = PageCursor(rows)
    BY Zenon
  <2>3. PICK last : last = (Cardinality(rows) < PageSize)
    BY Zenon
  <2>4. prune' = [prune EXCEPT !.phase = "delete", !.page = page,
                               !.cursor = cursor, !.last = last]
    BY Zenon, <1>4, <1>10, <2>1, <2>2, <2>3 DEF ListPage
  <2>5. /\ page \in SUBSET Jobs /\ last \in BOOLEAN /\ cursor \in Nat /\ cursor \in rows
        /\ \A k \in rows : cursor <= k
    <3>1. cursor \in rows /\ \A k \in rows : cursor <= k
      BY Zenon, <1>5, <1>10, <2>2, LastOfPage
    <3>2. cursor \in Nat
      BY Zenon, <1>5, <3>1, MaintenanceAssumption
    <3>3. page \in SUBSET Jobs
      BY Zenon, <1>5, <2>1
    <3>4. last \in BOOLEAN
      BY <2>3
    <3> QED
      BY Zenon, <3>1, <3>2, <3>3, <3>4
  <2>6. /\ prune' \in Passes /\ prune'.phase = "delete" /\ prune'.class = prune.class
        /\ prune'.page = page /\ prune'.cutoff = prune.cutoff
        /\ prune'.cursor = cursor /\ prune'.last = last
    <3>1. prune \in Passes
      BY Zenon, <1>1 DEF PassOK
    <3>2. prune' = [phase |-> "delete", class |-> prune.class, cutoff |-> prune.cutoff,
                    cursor |-> cursor, page |-> page, last |-> last]
      BY Zenon, <2>4, <3>1 DEF Passes
    <3>3. prune.class \in 0..3 /\ prune.cutoff \in Int
      BY Zenon, <3>1 DEF Passes
    <3> QED
      BY Zenon, <2>5, <3>2, <3>3 DEF Passes
  <2>7. Cardinality(page) <= PageSize
    <3>1. page \in SUBSET rows
      BY Zenon, <2>1
    <3>2. IsFiniteSet(page) /\ Cardinality(page) <= Cardinality(rows)
      BY Zenon, <1>5, <3>1, FS_Subset
    <3>3. Cardinality(page) \in Nat /\ PageSize \in Nat
      BY Zenon, <3>2, FS_CardinalityType, MaintenanceAssumption
    <3> QED
      BY <1>5, <3>2, <3>3
  <2>8. PassOK'
    BY Zenon, <1>1, <1>6, <2>6, <2>7 DEF PassOK
  <2>9. StillExpired'
    BY Zenon, <1>6, <2>6 DEF PruneInv, StillExpired, Expired
  <2>10. ASSUME NEW j \in owed, state[j] # "none"
         PROVE  j \in page \/ (~last /\ FollowsCursor(j, cursor))
    <3>1. j \in found
      BY Zenon, <1>8, <2>10
    <3>2. CASE j \in rows
      <4>1. Expired(j, prune.class, prune.cutoff)
        BY Zenon, <2>10 DEF PruneInv, StillExpired
      <4> QED
        BY Zenon, <2>1, <3>2, <4>1
    <3>3. CASE j \notin rows
      <4>1. ~last
        BY Zenon, <1>3, <1>5, <2>3, <3>1, <3>3, ShortPageIsLast
      <4>2. j < cursor
        BY Zenon, <1>3, <1>5, <2>5, <3>1, <3>3, LeftForLater
      <4> QED
        BY Zenon, <4>1, <4>2 DEF FollowsCursor
    <3> QED
      BY Zenon, <3>2, <3>3
  <2>11. NotPassed'
    BY Zenon, <1>6, <2>6, <2>10 DEF NotPassed, FollowsCursor
  <2>12. FreshClass'
    BY Zenon, <2>6 DEF FreshClass
  <2> QED
    BY Zenon, <1>6, <1>7, <2>8, <2>9, <2>11, <2>12, PassStep
<1> QED
  BY Zenon, <1>9, <1>10

\* The pass takes one row off its page.
LEMMA PageShrinks ==
  ASSUME PassOK, prune.page # {}, NEW j, j = Newest(prune.page),
         prune' = [prune EXCEPT !.page = @ \ {Newest(@)}]
  PROVE  /\ j \in prune.page /\ j \in Jobs
         /\ prune' \in Passes /\ prune'.phase = prune.phase /\ prune'.class = prune.class
         /\ prune'.cutoff = prune.cutoff /\ prune'.cursor = prune.cursor
         /\ prune'.last = prune.last /\ prune'.page = prune.page \ {j}
         /\ Cardinality(prune'.page) <= PageSize
<1>1. prune.page \in SUBSET Jobs
  BY Zenon DEF PassOK, Passes
<1>2. j \in prune.page /\ j \in Jobs
  BY Zenon, <1>1, FirstOfPage
<1>3. prune.page \ {j} \in SUBSET Jobs
  BY Zenon, <1>1
<1>4. prune' = [prune EXCEPT !.page = prune.page \ {j}]
  BY Zenon
<1>5. /\ prune' \in Passes /\ prune'.phase = prune.phase /\ prune'.class = prune.class
      /\ prune'.cutoff = prune.cutoff /\ prune'.cursor = prune.cursor
      /\ prune'.last = prune.last /\ prune'.page = prune.page \ {j}
  BY Zenon, <1>3, <1>4 DEF PassOK, Passes
<1>6. IsFiniteSet(prune.page)
  BY Zenon, <1>1, FS_Subset, MaintenanceAssumption
<1>7. Cardinality(prune.page \ {j}) <= Cardinality(prune.page)
  BY Zenon, <1>6, FS_Subset
<1>8. /\ Cardinality(prune.page) \in Nat /\ Cardinality(prune.page) <= PageSize
      /\ Cardinality(prune.page \ {j}) \in Nat /\ PageSize \in Nat
  BY Zenon, <1>6, FS_Subset, FS_CardinalityType, MaintenanceAssumption DEF PassOK
<1> QED
  BY <1>2, <1>5, <1>7, <1>8

\* JobDelete of the next row; whatever state it is in, it is gone.
LEMMA PruneDeleteKeeps ==
  ASSUME PruneInv, PruneDelete
  PROVE  PruneInv'
<1>1. TableOK /\ PassOK
  BY Zenon, TypeHalves DEF PruneInv
<1>2. PICK j : j = Newest(prune.page)
  BY Zenon
<1>3. /\ prune.phase = "delete" /\ prune.page # {}
      /\ state' = [state EXCEPT ![j] = "none"]
      /\ prune' = [prune EXCEPT !.page = @ \ {Newest(@)}]
      /\ UNCHANGED <<clock, finalizedAt, owed, replay>>
  BY Zenon, <1>2 DEF PruneDelete
<1>4. /\ j \in prune.page /\ j \in Jobs
      /\ prune' \in Passes /\ prune'.phase = prune.phase /\ prune'.class = prune.class
      /\ prune'.cutoff = prune.cutoff /\ prune'.cursor = prune.cursor
      /\ prune'.last = prune.last /\ prune'.page = prune.page \ {j}
      /\ Cardinality(prune'.page) <= PageSize
  BY Zenon, <1>1, <1>2, <1>3, PageShrinks
<1>5. TableOK'
  BY Zenon, <1>1, <1>3, <1>4, RowStep DEF RowStates
<1>6. PassOK'
  BY Zenon, <1>1, <1>3, <1>4 DEF PassOK
<1>7. \A k \in owed : k \in Jobs /\ state'[k] = IF k = j THEN "none" ELSE state[k]
  BY Zenon, <1>1, <1>3 DEF PassOK, TableOK
<1>8. StillExpired'
  BY <1>3, <1>4, <1>7 DEF PruneInv, StillExpired, Expired
<1>9. NotPassed'
  BY <1>3, <1>4, <1>7 DEF PruneInv, NotPassed, FollowsCursor
<1>10. FreshClass'
  BY Zenon, <1>3, <1>4 DEF FreshClass
<1> QED
  BY Zenon, <1>3, <1>5, <1>6, <1>8, <1>9, <1>10, PassStep

\* A deletion that the store refuses is an error of the pass, not a miss.
LEMMA PruneDeleteFailsKeeps ==
  ASSUME PruneInv, PruneDeleteFails
  PROVE  PruneInv'
<1>1. TableOK /\ PassOK
  BY Zenon, TypeHalves DEF PruneInv
<1>2. PICK j : j = Newest(prune.page)
  BY Zenon
<1>3. /\ prune.phase = "delete" /\ prune.page # {}
      /\ owed' = owed \ {j}
      /\ prune' = [prune EXCEPT !.page = @ \ {Newest(@)}]
      /\ UNCHANGED <<clock, state, finalizedAt, replay>>
  BY Zenon, <1>2 DEF PruneDeleteFails
<1>4. /\ j \in prune.page /\ j \in Jobs
      /\ prune' \in Passes /\ prune'.phase = prune.phase /\ prune'.class = prune.class
      /\ prune'.cutoff = prune.cutoff /\ prune'.cursor = prune.cursor
      /\ prune'.last = prune.last /\ prune'.page = prune.page \ {j}
      /\ Cardinality(prune'.page) <= PageSize
  BY Zenon, <1>1, <1>2, <1>3, PageShrinks
<1>5. TableOK'
  BY Zenon, <1>1, <1>3 DEF TableOK
<1>6. PassOK'
  BY Zenon, <1>1, <1>3, <1>4 DEF PassOK
<1>7. StillExpired'
  BY Zenon, <1>3, <1>4 DEF PruneInv, StillExpired, Expired
<1>8. NotPassed'
  BY Zenon, <1>3, <1>4 DEF PruneInv, NotPassed, FollowsCursor
<1>9. FreshClass'
  BY Zenon, <1>3, <1>4 DEF FreshClass
<1> QED
  BY Zenon, <1>3, <1>5, <1>6, <1>7, <1>8, <1>9, PassStep

\* The end of a page: the next one, or the end of the class after a short one.
LEMMA EndPageKeeps ==
  ASSUME PruneInv, EndPage
  PROVE  PruneInv'
<1>1. TableOK /\ PassOK
  BY Zenon, TypeHalves DEF PruneInv
<1>2. PICK phase \in {"swept", "list"} : phase = IF prune.last THEN "swept" ELSE "list"
  BY Zenon
<1>3. /\ prune.phase = "delete" /\ prune.page = {} /\ owed' = owed
      /\ prune' = [prune EXCEPT !.phase = phase]
      /\ UNCHANGED <<clock, state, finalizedAt, replay>>
  BY Zenon, <1>2 DEF EndPage
<1>4. /\ prune' \in Passes /\ prune'.phase = phase /\ prune'.class = prune.class
      /\ prune'.cutoff = prune.cutoff /\ prune'.cursor = prune.cursor
      /\ prune'.last = prune.last /\ prune'.page = prune.page
  BY Zenon, <1>1, <1>3 DEF PassOK, Passes
<1>5. TableOK'
  BY Zenon, <1>1, <1>3 DEF TableOK
<1>6. PassOK'
  BY Zenon, <1>1, <1>3, <1>4 DEF PassOK
<1>7. StillExpired'
  BY Zenon, <1>3, <1>4 DEF PruneInv, StillExpired, Expired
<1>8. NotPassed'
  <2>1. \A j \in owed : state[j] = "none" \/ (~prune.last /\ FollowsCursor(j, prune.cursor))
    BY Zenon, <1>3 DEF PruneInv, NotPassed
  <2>2. ~prune.last => phase = "list"
    BY Zenon, <1>2
  <2> QED
    BY Zenon, <1>3, <1>4, <2>1, <2>2 DEF NotPassed, FollowsCursor
<1>9. FreshClass'
  BY Zenon, <1>2, <1>3, <1>4 DEF FreshClass
<1> QED
  BY Zenon, <1>3, <1>5, <1>6, <1>7, <1>8, <1>9, PassStep

-----------------------------------------------------------------------------
(* The theorems.                                                           *)

\* The invariant holds before the first pass.
LEMMA PruneInvInit == Init => PruneInv
<1> SUFFICES ASSUME Init PROVE PruneInv
  BY Zenon
<1>1. TableOK
  BY MaintenanceAssumption DEF Init, TableOK, RowStates
<1>2. Cardinality({}) <= PageSize
  BY FS_EmptySet, MaintenanceAssumption
<1>3. NoPass \in Passes
  BY DEF NoPass, Passes
<1>4. /\ NoPass.page = {} /\ NoPass.phase = "idle" /\ NoPass.cursor = NoJob
  BY Zenon DEF NoPass
<1>5. PassOK /\ ReplayOK
  BY Zenon, <1>2, <1>3, <1>4 DEF Init, PassOK, ReplayOK
<1>6. StillExpired /\ NotPassed /\ FreshClass
  BY Zenon, <1>4 DEF Init, StillExpired, NotPassed, FreshClass
<1> QED
  BY Zenon, <1>1, <1>5, <1>6, TypeHalves DEF PruneInv

\* The invariant is kept by every step.
LEMMA PruneInvNext == PruneInv /\ [Next]_vars => PruneInv'
<1> SUFFICES ASSUME PruneInv, [Next]_vars PROVE PruneInv'
  BY Zenon
<1>1. PassOK
  BY Zenon, TypeHalves DEF PruneInv
<1>2. CASE BeginPrune
  <2>1. owed = {}
    BY Zenon, <1>2 DEF BeginPrune, PruneInv, FreshClass
  <2>2. 0 \in 0..3
    OBVIOUS
  <2> QED
    BY Zenon, <1>2, <2>1, <2>2, ClassStep DEF BeginPrune
<1>3. CASE EndClass
  <2>1. prune.class \in 0..3
    BY Zenon, <1>1 DEF PassOK, Passes
  <2> QED
    BY Zenon, <1>3, <2>1, ClassStep DEF EndClass
<1>4. CASE UNCHANGED vars
  <2>1. TableOK' /\ ReplayOK'
    BY Zenon, <1>4, TypeHalves DEF PruneInv, vars, TableOK, ReplayOK
  <2> QED
    BY Zenon, <1>4, <2>1, OthersKeep DEF vars
<1>5. CASE PruneStep
  BY Zenon, <1>3, <1>5, SetCutoffKeeps, ListPageKeeps, PruneDeleteKeeps, EndPageKeeps
     DEF PruneStep
<1> QED
  BY Zenon, <1>2, <1>4, <1>5, PruneDeleteFailsKeeps, OutsidersKeep DEF Next

\* The invariant of the retention pass.
LEMMA PruneInvariant == Spec => []PruneInv
  BY PruneInvInit, PruneInvNext, PTL DEF Spec

\* The table and the pass stay well formed: a terminal row always carries
\* the time Prune compares with its cutoff, and a page never exceeds
\* maintenancePageSize (JobSetStateIfRunning, JobCancel, JobList).
THEOREM TableWellFormed == Spec => []TypeOK
<1>1. PruneInv => TypeOK
  BY Zenon DEF PruneInv
<1> QED
  BY <1>1, PruneInvariant, PTL

\* A retention pass that finishes a class has deleted every job that had
\* expired at its cutoff and was not rescheduled, whatever the number of
\* jobs and the page size (Prune, JobList, JobFollowsCursor).
THEOREM PassDeletesAll == Spec => []PruneComplete
<1>1. PruneInv => PruneComplete
  BY Zenon DEF PruneInv, NotPassed, PruneComplete
<1> QED
  BY <1>1, PruneInvariant, PTL
=============================================================================
