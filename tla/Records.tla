------------------------------- MODULE Records -------------------------------
(***************************************************************************)
(* The record stores: slow or failed recalls (diagnostics.py) and stages   *)
(* of the planner (evaluation.py).  In each gateway process recall threads *)
(* put jobs on a bounded queue and one daemon thread writes them, under a  *)
(* file lock that all processes share, and prunes the oldest records       *)
(* beyond the maximum.  An operator's command adds the result of a replay  *)
(* to a record (management.replay_diagnostic).  Any process may die.       *)
(*                                                                         *)
(* The two stores share no state, so a behaviour follows one of them.      *)
(* Record ids are times: a smaller one is older.                           *)
(***************************************************************************)
EXTENDS FiniteSets, FiniteSetsExt, Integers, Sequences

CONSTANTS
  Gateway,    \* gateway processes
  Operator,   \* the process of the replay command
  Nobody,     \* holds the lock when it is free
  MaxRecords, \* max_records
  QueueMax,   \* _CAPTURE_QUEUE_MAX, _QUEUE_MAX
  MaxIssued,  \* recalls and stages to record; a bound
  MaxKills    \* processes that die; a bound

ASSUME RecordsAssumption ==
  /\ Operator \notin Gateway /\ Nobody \notin Gateway \cup {Operator}
  /\ MaxRecords \in Nat \ {0} /\ QueueMax \in Nat \ {0}
  /\ MaxIssued \in Nat /\ MaxKills \in Nat

VARIABLES
  kind,      \* the store of this behaviour: "diagnostics" or "evaluation"
  issued,    \* the last id given out
  noted,     \* ids that recall threads of a process have not queued yet
  jobs,      \* the queue of each process
  alive,     \* its writer thread has been started
  writer,    \* where that thread is
  job,       \* the id of the record it writes
  surplus,   \* the records it has yet to unlink
  expired,   \* stages up to this one are older than max_age_seconds
  lock,      \* the process that holds the file lock
  records,   \* ids of the records in the directory
  replay,    \* where the replay command is
  target,    \* the record it replays
  pruned,    \* records ever unlinked (ghost)
  torn,      \* the last pruning was cut short (ghost)
  kills      \* processes that died

recordsVars == <<kind, issued, noted, jobs, alive, writer, job, surplus, expired, lock, records,
                 replay, target, pruned, torn, kills>>

Id == 1..MaxIssued
NoId == 0
WriterStep == {"waiting", "job", "locked", "written", "pruning"}
ReplayStep == {"off", "calling", "saving", "reloaded"}

RecordsInit ==
  /\ kind \in {"diagnostics", "evaluation"}
  /\ issued = 0
  /\ noted = [g \in Gateway |-> {}]
  /\ jobs = [g \in Gateway |-> <<>>]
  /\ alive = [g \in Gateway |-> FALSE]
  /\ writer = [g \in Gateway |-> "waiting"]
  /\ job = [g \in Gateway |-> NoId]
  /\ surplus = [g \in Gateway |-> {}]
  /\ expired = 0
  /\ lock = Nobody
  /\ records = {}
  /\ replay = "off" /\ target = NoId
  /\ pruned = {} /\ torn = FALSE
  /\ kills = 0

-----------------------------------------------------------------------------
(***************************************************************************)
(* The threads that have something to record.                              *)
(***************************************************************************)

\* initialize_recall_capture starts the writer of the diagnostics.
StartWriter(g) ==
  /\ kind = "diagnostics"
  /\ ~alive[g]
  /\ alive' = [alive EXCEPT ![g] = TRUE]
  /\ UNCHANGED <<kind, issued, noted, jobs, writer, job, surplus, expired, lock, records,
                 replay, target, pruned, torn, kills>>

\* enqueue_recall_capture: the record gets its id, before the job is queued.
Note(g) ==
  /\ kind = "diagnostics"
  /\ issued < MaxIssued
  /\ issued' = issued + 1
  /\ noted' = [noted EXCEPT ![g] = @ \cup {issued'}]
  /\ UNCHANGED <<kind, jobs, alive, writer, job, surplus, expired, lock, records, replay,
                 target, pruned, torn, kills>>

\* Without a writer, or with a full queue, it is given up.
Enqueue(g) ==
  /\ \E id \in noted[g] :
       /\ noted' = [noted EXCEPT ![g] = @ \ {id}]
       /\ jobs' = IF alive[g] /\ Len(jobs[g]) < QueueMax
                    THEN [jobs EXCEPT ![g] = Append(@, id)]
                    ELSE jobs
  /\ UNCHANGED <<kind, issued, alive, writer, job, surplus, expired, lock, records, replay,
                 target, pruned, torn, kills>>

\* _enqueue of a stage: the writer is started if need be; the job has no id.
EnqueueStage(g) ==
  /\ kind = "evaluation"
  /\ Len(jobs[g]) < QueueMax
  /\ alive' = [alive EXCEPT ![g] = TRUE]
  /\ jobs' = [jobs EXCEPT ![g] = Append(@, NoId)]
  /\ UNCHANGED <<kind, issued, noted, writer, job, surplus, expired, lock, records, replay,
                 target, pruned, torn, kills>>

-----------------------------------------------------------------------------
(***************************************************************************)
(* The writer thread: _capture_worker and _write_jobs.                     *)
(***************************************************************************)
TakeJob(g) ==
  /\ alive[g] /\ writer[g] = "waiting" /\ jobs[g] # <<>>
  /\ writer' = [writer EXCEPT ![g] = "job"]
  /\ job' = [job EXCEPT ![g] = Head(jobs[g])]
  /\ jobs' = [jobs EXCEPT ![g] = Tail(@)]
  /\ UNCHANGED <<kind, issued, noted, alive, surplus, expired, lock, records, replay, target,
                 pruned, torn, kills>>

\* The file lock; only the diagnostics wait for it.  The job of a stage gets
\* its id here.
LockStore(g) ==
  /\ writer[g] = "job"
  /\ lock = Nobody
  /\ kind = "evaluation" => issued < MaxIssued
  /\ lock' = g
  /\ writer' = [writer EXCEPT ![g] = "locked"]
  /\ issued' = IF kind = "evaluation" THEN issued + 1 ELSE issued
  /\ job' = IF kind = "evaluation" THEN [job EXCEPT ![g] = issued'] ELSE job
  /\ UNCHANGED <<kind, noted, jobs, alive, surplus, expired, records, replay, target, pruned,
                 torn, kills>>

Rest(g) ==
  /\ writer' = [writer EXCEPT ![g] = "waiting"]
  /\ job' = [job EXCEPT ![g] = NoId]

StageDropped(g) ==
  /\ writer[g] = "job"
  /\ kind = "evaluation" /\ lock # Nobody
  /\ Rest(g)
  /\ UNCHANGED <<kind, issued, noted, jobs, alive, surplus, expired, lock, records, replay,
                 target, pruned, torn, kills>>

\* _write_record publishes the record at once, or fails and leaves nothing.
WriteRecord(g) ==
  /\ writer[g] = "locked"
  /\ records' = records \cup {job[g]}
  /\ writer' = [writer EXCEPT ![g] = "written"]
  /\ UNCHANGED <<kind, issued, noted, jobs, alive, job, surplus, expired, lock, replay, target,
                 pruned, torn, kills>>

WriteFails(g) ==
  /\ writer[g] = "locked"
  /\ Rest(g)
  /\ lock' = Nobody
  /\ UNCHANGED <<kind, issued, noted, jobs, alive, surplus, expired, records, replay, target,
                 pruned, torn, kills>>

Newest(n, s) == {r \in s : Cardinality({q \in s : q > r}) < n}

\* The records that are too many.
Surplus == records \ Newest(MaxRecords, records)

ListSurplus(g) ==
  /\ writer[g] = "written"
  /\ expired' \in IF kind = "evaluation" THEN expired..issued ELSE {expired}
  /\ surplus' = [surplus EXCEPT ![g] = Surplus \cup {r \in records : r <= expired'}]
  /\ writer' = [writer EXCEPT ![g] = "pruning"]
  /\ UNCHANGED <<kind, issued, noted, jobs, alive, job, lock, records, replay, target,
                 pruned, torn, kills>>

\* The newest of them goes first.
Prune(g) ==
  /\ writer[g] = "pruning"
  /\ surplus[g] # {}
  /\ LET r == Max(surplus[g]) IN
       /\ records' = records \ {r}
       /\ pruned' = pruned \cup {r}
       /\ surplus' = [surplus EXCEPT ![g] = @ \ {r}]
  /\ UNCHANGED <<kind, issued, noted, jobs, alive, writer, job, expired, lock, replay, target,
                 torn, kills>>

PruneEnds(g) ==
  /\ writer[g] = "pruning"
  /\ surplus[g] = {}
  /\ Rest(g)
  /\ lock' = Nobody
  /\ torn' = FALSE
  /\ UNCHANGED <<kind, issued, noted, jobs, alive, surplus, expired, records, replay, target,
                 pruned, kills>>

-----------------------------------------------------------------------------
(***************************************************************************)
(* The replay command.                                                     *)
(***************************************************************************)

\* load_recall_record takes no lock; the recall is then repeated.
LoadRecord ==
  /\ kind = "diagnostics"
  /\ replay = "off"
  /\ target' \in records
  /\ replay' = "calling"
  /\ UNCHANGED <<kind, issued, noted, jobs, alive, writer, job, surplus, expired, lock,
                 records, pruned, torn, kills>>

\* save_replay_result takes the lock and loads the record once more; it may
\* have been pruned meanwhile.
LockForReplay ==
  /\ replay = "calling"
  /\ lock = Nobody
  /\ lock' = Operator
  /\ replay' = "saving"
  /\ UNCHANGED <<kind, issued, noted, jobs, alive, writer, job, surplus, expired, records,
                 target, pruned, torn, kills>>

\* Faulty variant: what was loaded before the recall is saved.
SavesWhatItLoaded ==
  /\ replay = "saving"
  /\ replay' = "reloaded"
  /\ UNCHANGED <<kind, issued, noted, jobs, alive, writer, job, surplus, expired, lock,
                 records, target, pruned, torn, kills>>

Reload ==
  /\ replay = "saving"
  /\ target \in records
  /\ replay' = "reloaded"
  /\ UNCHANGED <<kind, issued, noted, jobs, alive, writer, job, surplus, expired, lock,
                 records, target, pruned, torn, kills>>

\* The record is gone, or the write fails: diagnostic_record_write_failed.
SaveFails ==
  /\ replay \in {"saving", "reloaded"}
  /\ replay' = "off" /\ target' = NoId
  /\ lock' = Nobody
  /\ UNCHANGED <<kind, issued, noted, jobs, alive, writer, job, surplus, expired, records,
                 pruned, torn, kills>>

SaveReplay ==
  /\ replay = "reloaded"
  /\ records' = records \cup {target}
  /\ replay' = "off" /\ target' = NoId
  /\ lock' = Nobody
  /\ UNCHANGED <<kind, issued, noted, jobs, alive, writer, job, surplus, expired, pruned, torn,
                 kills>>

-----------------------------------------------------------------------------
\* A gateway dies with its queue; the kernel gives its file lock back.
KillGateway(g) ==
  /\ kills < MaxKills
  /\ kills' = kills + 1
  /\ noted' = [noted EXCEPT ![g] = {}]
  /\ jobs' = [jobs EXCEPT ![g] = <<>>]
  /\ alive' = [alive EXCEPT ![g] = FALSE]
  /\ Rest(g)
  /\ surplus' = [surplus EXCEPT ![g] = {}]
  /\ lock' = IF lock = g THEN Nobody ELSE lock
  /\ torn' = (torn \/ writer[g] \in {"written", "pruning"})
  /\ UNCHANGED <<kind, issued, expired, records, replay, target, pruned>>

RecordsNext ==
  \/ \E g \in Gateway :
       \/ StartWriter(g) \/ Note(g) \/ Enqueue(g) \/ EnqueueStage(g) \/ TakeJob(g)
       \/ LockStore(g) \/ StageDropped(g) \/ WriteRecord(g) \/ WriteFails(g)
       \/ ListSurplus(g) \/ Prune(g) \/ PruneEnds(g) \/ KillGateway(g)
  \/ LoadRecord \/ LockForReplay \/ Reload \/ SaveFails \/ SaveReplay

RecordsSpec == RecordsInit /\ [][RecordsNext]_recordsVars

-----------------------------------------------------------------------------
(***************************************************************************)
(* Properties.                                                             *)
(***************************************************************************)

\* Every variable holds a value of its kind.
RecordsTypeOK ==
  /\ kind \in {"diagnostics", "evaluation"}
  /\ issued \in 0..MaxIssued
  /\ noted \in [Gateway -> SUBSET Id]
  /\ jobs \in [Gateway -> Seq(Id \cup {NoId})]
  /\ alive \in [Gateway -> BOOLEAN]
  /\ writer \in [Gateway -> WriterStep]
  /\ job \in [Gateway -> Id \cup {NoId}]
  /\ surplus \in [Gateway -> SUBSET Id]
  /\ expired \in 0..MaxIssued
  /\ lock \in Gateway \cup {Operator, Nobody}
  /\ records \subseteq Id /\ pruned \subseteq Id
  /\ replay \in ReplayStep /\ target \in Id \cup {NoId}
  /\ torn \in BOOLEAN /\ kills \in 0..MaxKills

\* A pruned record never comes back: a replay that took longer than the
\* record was kept does not write it again (save_replay_result).
PrunedStaysPruned == records \cap pruned = {}

\* While nobody holds the lock the store is within its maximum and holds the
\* newest of the records ever written to it, in whatever order the processes
\* wrote them; a pruning cut short by a kill is made up for by the next write,
\* and a replay that took too long does not bring a pruned record back.
NewestAreKept ==
  lock = Nobody /\ ~torn =>
    /\ Cardinality(records) <= MaxRecords
    /\ \A r \in records, q \in pruned : q < r
=============================================================================
