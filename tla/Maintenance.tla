----------------------------- MODULE Maintenance -----------------------------
(***************************************************************************)
(* Maintenance.Prune, the bulk actions and DeadLetterReplay while workers  *)
(* go on.  Prune lists one page of a terminal state after another and      *)
(* deletes by id what is old enough in the page; DeadLetterReplay reads a  *)
(* job and then reschedules it.  Each call to the store is a step of its   *)
(* own.                                                                    *)
(***************************************************************************)
EXTENDS Integers, Sequences, FiniteSets

CONSTANTS
  Jobs,        \* job ids, in creation order
  Operators,   \* concurrent callers of DeadLetterReplay
  Retention,   \* RetentionPolicy: [TerminalStates -> ticks, 0 disables]
  PageSize,    \* maintenancePageSize
  MaxTime,     \* bound on the clock
  MaxActions,  \* bound on bulk actions, replays and failed deletions
  NoTime, NoJob

Classes == <<"completed", "discarded", "cancelled">>
TerminalStates == {Classes[c] : c \in DOMAIN Classes}

ASSUME MaintenanceAssumption ==
  /\ Jobs \subseteq Nat /\ IsFiniteSet(Jobs)
  /\ NoJob \notin Jobs /\ NoTime \notin Int
  /\ Retention \in [TerminalStates -> Nat]
  /\ PageSize \in Nat \ {0} /\ MaxTime \in Nat

VARIABLES
  clock,
  state,        \* JobRow.State, "none" after deletion
  finalizedAt,  \* JobRow.FinalizedAt; a reschedule does not clear it
  prune,        \* the retention pass: class, cutoff, cursor, rows of the page
  owed,         \* history: what the pass has to delete of the current class
  replay,       \* per operator: the job it has verified, NoJob otherwise
  actions

vars == <<clock, state, finalizedAt, prune, owed, replay, actions>>

NoPass == [phase |-> "idle", class |-> 0, cutoff |-> 0, cursor |-> NoJob,
           page |-> {}, last |-> FALSE]

Init ==
  /\ clock = 0
  /\ state = [j \in Jobs |-> "available"]
  /\ finalizedAt = [j \in Jobs |-> NoTime]
  /\ prune = NoPass
  /\ owed = {}
  /\ replay = [o \in Operators |-> NoJob]
  /\ actions = 0

Act == actions < MaxActions /\ actions' = actions + 1

-----------------------------------------------------------------------------
(* The workers.                                                            *)

\* A worker claims the job.
Fetch(j) ==
  /\ state[j] \in {"available", "scheduled"}
  /\ state' = [state EXCEPT ![j] = "running"]
  /\ UNCHANGED <<clock, finalizedAt, prune, owed, replay, actions>>

\* JobSetStateIfRunning with a terminal state.
Finalize(j) ==
  /\ state[j] = "running"
  /\ \E s \in {"completed", "discarded"} : state' = [state EXCEPT ![j] = s]
  /\ finalizedAt' = [finalizedAt EXCEPT ![j] = clock]
  /\ UNCHANGED <<clock, prune, owed, replay, actions>>

-----------------------------------------------------------------------------
(* Prune.                                                                  *)

\* The next class with a retention, or the end of the pass.
NextClass(class) ==
  LET later == {c \in DOMAIN Classes : c > class /\ Retention[Classes[c]] > 0}
  IN IF later = {} THEN NoPass
     ELSE [NoPass EXCEPT !.phase = "cutoff",
                         !.class = CHOOSE c \in later : \A d \in later : c <= d]

BeginPrune ==
  /\ prune.phase = "idle"
  /\ prune' = NextClass(0)
  /\ prune' # NoPass
  /\ UNCHANGED <<clock, state, finalizedAt, owed, replay, actions>>

Expired(j, class, cutoff) ==
  /\ state[j] = Classes[class]
  /\ finalizedAt[j] # NoTime /\ finalizedAt[j] <= cutoff

SetCutoff ==
  LET cutoff == clock - Retention[Classes[prune.class]]
  IN /\ prune.phase = "cutoff"
     /\ prune' = [prune EXCEPT !.phase = "list", !.cutoff = cutoff]
     /\ owed' = {j \in Jobs : Expired(j, prune.class, cutoff)}
     /\ UNCHANGED <<clock, state, finalizedAt, replay, actions>>

\* JobFollowsCursor: created_at and id in descending order.
FollowsCursor(j, cursor) == cursor = NoJob \/ j < cursor

\* JobList: the first PageSize rows after the cursor, newest first.
JobList(s, cursor) ==
  LET found == {j \in Jobs : state[j] = s /\ FollowsCursor(j, cursor)}
  IN {j \in found : Cardinality({k \in found : k > j}) < PageSize}

\* The first row of a page; Prune deletes in this order.
Newest(rows) == CHOOSE j \in rows : \A k \in rows : k <= j

\* Mutant: the cursor of the next page passes over one row.
PageCursorBeyond(rows) == (CHOOSE j \in rows : \A k \in rows : j <= k) - 1

\* EncodeJobCursor of the last row.
PageCursor(rows) == CHOOSE j \in rows : \A k \in rows : j <= k

\* The page and the rows of it that are old enough, as they were listed.
ListPage ==
  LET rows == JobList(Classes[prune.class], prune.cursor)
  IN /\ prune.phase = "list"
     /\ prune' = IF rows = {} THEN [prune EXCEPT !.phase = "swept"]
                 ELSE [prune EXCEPT
                        !.phase = "delete",
                        !.page = {j \in rows : Expired(j, prune.class, prune.cutoff)},
                        !.cursor = PageCursor(rows),
                        !.last = Cardinality(rows) < PageSize]
     /\ UNCHANGED <<clock, state, finalizedAt, owed, replay, actions>>

\* JobDelete by id, whatever the job is by now; ErrNotFound is collected.
PruneDelete ==
  /\ prune.phase = "delete" /\ prune.page # {}
  /\ state' = [state EXCEPT ![Newest(prune.page)] = "none"]
  /\ prune' = [prune EXCEPT !.page = @ \ {Newest(@)}]
  /\ UNCHANGED <<clock, finalizedAt, owed, replay, actions>>

\* The store refuses one deletion; the pass goes on.
PruneDeleteFails ==
  /\ prune.phase = "delete" /\ prune.page # {}
  /\ Act
  /\ owed' = owed \ {Newest(prune.page)}
  /\ prune' = [prune EXCEPT !.page = @ \ {Newest(@)}]
  /\ UNCHANGED <<clock, state, finalizedAt, replay>>

EndPage ==
  /\ prune.phase = "delete" /\ prune.page = {}
  /\ prune' = [prune EXCEPT !.phase = IF prune.last THEN "swept" ELSE "list"]
  /\ UNCHANGED <<clock, state, finalizedAt, owed, replay, actions>>

EndClass ==
  /\ prune.phase = "swept"
  /\ prune' = NextClass(prune.class)
  /\ owed' = {}
  /\ UNCHANGED <<clock, state, finalizedAt, replay, actions>>

-----------------------------------------------------------------------------
(* The bulk actions, one id at a time, and DeadLetterReplay.               *)

\* JobReschedule, in whatever state the job is.
Reschedule(j) ==
  /\ state[j] # "none"
  /\ state' = [state EXCEPT ![j] = "scheduled"]
  /\ owed' = owed \ {j}

BulkRetry(j) ==
  /\ Act
  /\ Reschedule(j)
  /\ UNCHANGED <<clock, finalizedAt, prune, replay>>

\* Mutant: cancelling forgets the time.
BulkCancelUntimed(j) ==
  /\ Act
  /\ state[j] \in {"available", "scheduled"}
  /\ state' = [state EXCEPT ![j] = "cancelled"]
  /\ UNCHANGED <<clock, finalizedAt, prune, owed, replay>>

BulkCancel(j) ==
  /\ Act
  /\ state[j] \in {"available", "scheduled"}
  /\ state' = [state EXCEPT ![j] = "cancelled"]
  /\ finalizedAt' = [finalizedAt EXCEPT ![j] = clock]
  /\ UNCHANGED <<clock, prune, owed, replay>>

BulkDelete(j) ==
  /\ Act
  /\ state[j] # "none"
  /\ state' = [state EXCEPT ![j] = "none"]
  /\ UNCHANGED <<clock, finalizedAt, prune, owed, replay>>

\* JobGetByID and the test of the state.
ReplayVerify(o, j) ==
  /\ Act
  /\ replay[o] = NoJob
  /\ state[j] = "discarded"
  /\ replay' = [replay EXCEPT ![o] = j]
  /\ UNCHANGED <<clock, state, finalizedAt, prune, owed>>

\* JobReschedule, which fails when the job is gone.
ReplayReschedule(o) ==
  /\ replay[o] # NoJob
  /\ Reschedule(replay[o]) \/ (state[replay[o]] = "none" /\ UNCHANGED <<state, owed>>)
  /\ replay' = [replay EXCEPT ![o] = NoJob]
  /\ UNCHANGED <<clock, finalizedAt, prune, actions>>

Tick ==
  /\ clock < MaxTime
  /\ clock' = clock + 1
  /\ UNCHANGED <<state, finalizedAt, prune, owed, replay, actions>>

PruneStep == SetCutoff \/ ListPage \/ PruneDelete \/ EndPage \/ EndClass

Next ==
  \/ Tick
  \/ BeginPrune \/ PruneStep \/ PruneDeleteFails
  \/ \E j \in Jobs :
       \/ Fetch(j) \/ Finalize(j) \/ BulkRetry(j) \/ BulkCancel(j) \/ BulkDelete(j)
       \/ \E o \in Operators : ReplayVerify(o, j)
  \/ \E o \in Operators : ReplayReschedule(o)

Spec == Init /\ [][Next]_vars

-----------------------------------------------------------------------------
(* Properties.                                                             *)

\* The state of the table and of the pass; a row in a terminal state has
\* been finalized (JobSetStateIfRunning, JobCancel).
TypeOK ==
  /\ clock \in 0..MaxTime
  /\ state \in [Jobs -> {"none", "available", "scheduled", "running"} \cup TerminalStates]
  /\ finalizedAt \in [Jobs -> 0..clock \cup {NoTime}]
  /\ \A j \in Jobs : state[j] \in TerminalStates => finalizedAt[j] # NoTime
  /\ prune \in [phase : {"idle", "cutoff", "list", "delete", "swept"},
                class : 0..Len(Classes), cutoff : Int, cursor : Nat \cup {NoJob},
                page : SUBSET Jobs, last : BOOLEAN]
  /\ prune.phase # "idle" => prune.class # 0
  /\ Cardinality(prune.page) <= PageSize
  /\ owed \subseteq Jobs
  /\ replay \in [Operators -> Jobs \cup {NoJob}]

\* A retention pass deletes every job that had expired when the pass took
\* its cutoff and was not rescheduled since, although its own deletions and
\* the workers change the list between two pages (Prune, JobFollowsCursor).
PruneComplete ==
  prune.phase = "swept" => \A j \in owed : state[j] = "none"
=============================================================================
