------------------------- MODULE ExternalSearchJobs -------------------------
(***************************************************************************)
(* The background searches for metadata: the rows of background_jobs, the  *)
(* requests that create and acknowledge them, and the one worker that      *)
(* claims a job, asks the provider without holding the mutex around        *)
(* ApplicationService, and writes the answer back.                         *)
(*                                                                         *)
(* Abstractions.  A time is either past or not: a pending row waits until  *)
(* its next_retry_at has passed.  The fields of a request, the candidates  *)
(* of an answer and the number of attempts, which only sets how long a row *)
(* waits, are left out; what an answer stores is the work it was about.    *)
(* A batch creates its jobs one after the other, each in a transaction of  *)
(* its own, and differs from single requests in the row that keeps the job.*)
(***************************************************************************)
EXTENDS Naturals, Sequences

CONSTANTS
  MaxCollections, MaxJobs,  \* bounds on the row ids
  MaxWorks,                 \* bound on the works that ever enter the catalog
  MaxCrashes,               \* bound on crashes and shutdowns
  MaxErrors                 \* bound on unexpected errors of SQLite

Collections == 1 .. MaxCollections
Jobs        == 1 .. MaxJobs
Works       == 1 .. MaxWorks

ASSUME SearchBoundsAssumption ==
  /\ MaxCollections \in Nat /\ MaxJobs \in Nat /\ MaxWorks \in Nat
  /\ MaxCrashes \in Nat /\ MaxErrors \in Nat
  /\ MaxCollections <= MaxWorks

-----------------------------------------------------------------------------
VARIABLES
  collection,   \* collections.status by id: "unused", "active", "inactive"
  job,          \* background_jobs by id
  due,          \* the pending rows that wait no longer, in the order of their time
  batched,      \* jobs an item of a batch refers to
  acknowledged, \* external_search_job_resolutions
  mode,         \* "up", "stopping" (the flag is set), "stopped", "down" (crashed)
  worker,       \* where the worker is, and with which job
  work,         \* observation: which work has the id of a collection
  born,         \* observation: number of works that entered the catalog so far
  results,      \* observation: the works whose answers are stored for a collection
  crashes,      \* observation: crashes and shutdowns so far
  errors        \* observation: unexpected errors so far

tables  == <<collection, job, due, batched, acknowledged>>
process == <<mode, worker>>
catalog == <<work, born, results>>
counts  == <<crashes, errors>>
vars    == <<tables, process, catalog, counts>>

Active == {"pending", "running"}
Ended  == {"succeeded", "partial", "failed"}

Unused == [status |-> "unused"]
JobRow == [collection : Collections, status : Active \cup Ended, waiting : BOOLEAN]

Idle == [at |-> "idle"]
WorkerState ==
  {Idle}
    \cup [at : {"chosen", "broken"}, job : Jobs]
    \cup [at : {"searching"}, job : Jobs, work : Works]
    \cup [at : {"saving"}, job : Jobs, work : Works, stored : BOOLEAN]

(* the pending rows that wait no longer, each once *)
IsDue(j) == job[j].status = "pending" /\ ~job[j].waiting
QueueOK ==
  /\ due \in Seq(Jobs)
  /\ \A j \in Jobs : IsDue(j) <=> \E i \in DOMAIN due : due[i] = j
  /\ \A i, k \in DOMAIN due : due[i] = due[k] => i = k

TypeOK ==
  /\ collection \in [Collections -> {"unused", "active", "inactive"}]
  /\ job \in [Jobs -> JobRow \cup {Unused}]
  /\ QueueOK
  /\ batched \subseteq Jobs
  /\ acknowledged \subseteq Jobs
  /\ mode \in {"up", "stopping", "stopped", "down"}
  /\ worker \in WorkerState
  /\ work \in [Collections -> Works \cup {0}]
  /\ born \in 0 .. MaxWorks
  /\ results \in [Collections -> SUBSET Works]
  /\ crashes \in 0 .. MaxCrashes
  /\ errors \in 0 .. MaxErrors

Init ==
  /\ collection = [c \in Collections |-> "active"]
  /\ job = [j \in Jobs |-> Unused]
  /\ due = <<>>
  /\ batched = {}
  /\ acknowledged = {}
  /\ mode = "up"
  /\ worker = Idle
  /\ work = [c \in Collections |-> c]
  /\ born = MaxCollections
  /\ results = [c \in Collections |-> {}]
  /\ crashes = 0
  /\ errors = 0

-----------------------------------------------------------------------------
Up == mode \in {"up", "stopping"}

(* The worker holds the mutex from reading the job until the last write. *)
Unlocked == Up /\ worker.at # "saving"

JobOf(c, j) == job[j] # Unused /\ job[j].collection = c
JobsOf(c) == {j \in Jobs : JobOf(c, j)}
ActiveJobs(c) == {j \in JobsOf(c) : job[j].status \in Active}
Running(j) == job[j].status = "running"
IsActive(c) == collection[c] = "active"

(* INTEGER PRIMARY KEY without AUTOINCREMENT: ids of deleted rows come back *)
NextId(i, used) ==
  /\ \A k \in used : k < i
  /\ i = 1 \/ i - 1 \in used

UsedJobs == {j \in Jobs : job[j] # Unused}
UsedCollections == {c \in Collections : collection[c] # "unused"}

Without(queue, gone) == SelectSeq(queue, LAMBDA j : j \notin gone)
Sorted(s) == \A i, k \in DOMAIN s : i < k => s[i] < s[k]
InOrder(ids) ==
  CHOOSE s \in UNION {[1 .. n -> ids] : n \in 0 .. MaxJobs} :
    Sorted(s) /\ {s[i] : i \in DOMAIN s} = ids

-----------------------------------------------------------------------------
(* Requests and the other writers.                                          *)

Insert(c, j) ==
  /\ NextId(j, UsedJobs)
  /\ job' = [job EXCEPT ![j] = [collection |-> c, status |-> "pending", waiting |-> FALSE]]
  /\ due' = Append(due, j)

(* Mutant of Enqueue: overlooks the job the worker has claimed. *)
EnqueueBesideRunning(c) ==
  /\ Unlocked
  /\ IsActive(c)
  /\ \A k \in ActiveJobs(c) : Running(k)
  /\ \E j \in Jobs : Insert(c, j)
  /\ UNCHANGED <<collection, batched, acknowledged, process, catalog, counts>>

(* enqueue_external_search; with an active job the request changes nothing *)
Enqueue(c) ==
  /\ Unlocked
  /\ IsActive(c)
  /\ ActiveJobs(c) = {}
  /\ \E j \in Jobs : Insert(c, j)
  /\ UNCHANGED <<collection, batched, acknowledged, process, catalog, counts>>

(* one item of a batch: a new job, or the active one that is there; the     *)
(* retry of a batch is a batch over the collections of its partial jobs     *)
EnqueueInBatch(c) ==
  /\ Unlocked
  /\ IsActive(c)
  /\ \E j \in Jobs :
       /\ IF ActiveJobs(c) = {} THEN Insert(c, j)
          ELSE j \in ActiveJobs(c) /\ UNCHANGED <<job, due>>
       /\ batched' = batched \cup {j}
  /\ UNCHANGED <<collection, acknowledged, process, catalog, counts>>

(* acknowledge_external_search_job *)
Acknowledge(j) ==
  /\ Unlocked
  /\ job[j].status \in {"partial", "failed"}
  /\ IsActive(job[j].collection)
  /\ acknowledged' = acknowledged \cup {j}
  /\ UNCHANGED <<collection, job, due, batched, process, catalog, counts>>

(* a scan misses the file, a request recycles it; a consolidation brings    *)
(* a collection back                                                        *)
SetActive(c, status) ==
  /\ Unlocked
  /\ collection[c] # "unused" /\ collection[c] # status
  /\ collection' = [collection EXCEPT ![c] = status]
  /\ UNCHANGED <<job, due, batched, acknowledged, process, catalog, counts>>

(* DELETE FROM collections takes the jobs and their resolutions along, and  *)
(* is refused as long as an item of a batch refers to one of the jobs       *)
HardDelete(c) ==
  /\ Unlocked
  /\ collection[c] # "unused"
  /\ JobsOf(c) \cap batched = {}
  /\ collection' = [collection EXCEPT ![c] = "unused"]
  /\ job' = [j \in Jobs |-> IF JobOf(c, j) THEN Unused ELSE job[j]]
  /\ due' = Without(due, JobsOf(c))
  /\ acknowledged' = acknowledged \ JobsOf(c)
  /\ work' = [work EXCEPT ![c] = 0]
  /\ results' = [results EXCEPT ![c] = {}]
  /\ UNCHANGED <<batched, process, born, counts>>

(* a scan takes in another work, perhaps under the id of a deleted one *)
Ingest(c) ==
  /\ Unlocked
  /\ born < MaxWorks
  /\ NextId(c, UsedCollections)
  /\ collection' = [collection EXCEPT ![c] = "active"]
  /\ born' = born + 1
  /\ work' = [work EXCEPT ![c] = born + 1]
  /\ UNCHANGED <<job, due, batched, acknowledged, process, results, counts>>

(* next_retry_at passes *)
RetryElapses(j) ==
  /\ job[j] # Unused /\ job[j].waiting
  /\ job' = [job EXCEPT ![j].waiting = FALSE]
  /\ due' = Append(due, j)
  /\ UNCHANGED <<collection, batched, acknowledged, process, catalog, counts>>

-----------------------------------------------------------------------------
(* The worker.                                                              *)

Becomes(j, status) == job' = [job EXCEPT ![j].status = status]

(* fail_external_search_job with a kind that retry_delay_seconds delays     *)
RetryLater(j) == job' = [job EXCEPT ![j].status = "pending", ![j].waiting = TRUE]

ErrorHappens == errors < MaxErrors /\ errors' = errors + 1 /\ UNCHANGED crashes

(* Mutant of Choose: the newest due job first. *)
ChooseNewest ==
  /\ mode = "up"
  /\ worker = Idle
  /\ due # <<>>
  /\ worker' = [at |-> "chosen", job |-> due[Len(due)]]
  /\ UNCHANGED <<tables, mode, catalog, counts>>

(* due_external_search_jobs(1), unless the worker has been asked to stop    *)
Choose ==
  /\ mode = "up"
  /\ worker = Idle
  /\ due # <<>>
  /\ \E j \in Jobs : j = Head(due) /\ worker' = [at |-> "chosen", job |-> j]
  /\ UNCHANGED <<tables, mode, catalog, counts>>

Claimable == worker.at = "chosen" /\ job[worker.job].status = "pending"
Claimed == due' = Without(due, {worker.job})

(* start_external_search_job *)
Start ==
  /\ Up
  /\ Claimable
  /\ LET c == job[worker.job].collection IN
     /\ IsActive(c)
     /\ worker' = [at |-> "searching", job |-> worker.job, work |-> work[c]]
  /\ Becomes(worker.job, "running")
  /\ Claimed
  /\ UNCHANGED <<collection, batched, acknowledged, mode, catalog, counts>>

StartFindsInactive ==
  /\ Up
  /\ Claimable
  /\ ~IsActive(job[worker.job].collection)
  /\ Becomes(worker.job, "failed")
  /\ Claimed
  /\ worker' = Idle
  /\ UNCHANGED <<collection, batched, acknowledged, mode, catalog, counts>>

(* the job went away between the two acquisitions of the mutex *)
StartRefused ==
  /\ Up
  /\ worker.at = "chosen" /\ ~Claimable
  /\ worker' = Idle
  /\ UNCHANGED <<tables, mode, catalog, counts>>

(* the claim is committed, reading the collection or its identifiers fails: *)
(* the worker goes on with the next job                                     *)
StartBreaks ==
  /\ Up
  /\ Claimable
  /\ ErrorHappens
  /\ Becomes(worker.job, "running")
  /\ Claimed
  /\ worker' = Idle
  /\ UNCHANGED <<collection, batched, acknowledged, mode, catalog>>

Answered == Up /\ worker.at = "searching"

(* Mutant of FinishAnswered: does not look at the status of the job. *)
FinishAnsweredUnchecked ==
  /\ Answered
  /\ job[worker.job] # Unused
  /\ IsActive(job[worker.job].collection)
  /\ worker' = [at |-> "saving", job |-> worker.job, work |-> worker.work, stored |-> FALSE]
  /\ UNCHANGED <<tables, mode, catalog, counts>>

(* finish_external_search_job *)
FinishAnswered ==
  /\ Answered
  /\ Running(worker.job)
  /\ IsActive(job[worker.job].collection)
  /\ worker' = [at |-> "saving", job |-> worker.job, work |-> worker.work, stored |-> FALSE]
  /\ UNCHANGED <<tables, mode, catalog, counts>>

FinishFindsInactive ==
  /\ Answered
  /\ Running(worker.job)
  /\ ~IsActive(job[worker.job].collection)
  /\ Becomes(worker.job, "failed")
  /\ worker' = Idle
  /\ UNCHANGED <<collection, due, batched, acknowledged, mode, catalog, counts>>

(* the provider answers with an error *)
FinishFailed ==
  /\ Answered
  /\ Running(worker.job)
  /\ IsActive(job[worker.job].collection)
  /\ Becomes(worker.job, "failed") \/ RetryLater(worker.job)
  /\ worker' = Idle
  /\ UNCHANGED <<collection, due, batched, acknowledged, mode, catalog, counts>>

FinishUnavailable ==
  /\ Answered
  /\ ~Running(worker.job)
  /\ worker' = [at |-> "broken", job |-> worker.job]
  /\ UNCHANGED <<tables, mode, catalog, counts>>

(* persist_external_search_response: each candidate in its own transaction  *)
Saving == Up /\ worker.at = "saving"

SaveCandidate ==
  /\ Saving
  /\ results' = [results EXCEPT ![job[worker.job].collection] = @ \cup {worker.work}]
  /\ worker' = [worker EXCEPT !.stored = TRUE]
  /\ UNCHANGED <<tables, mode, work, born, counts>>

(* tags the storage refuses count as stored: partial even with nothing new  *)
Conclude ==
  /\ Saving
  /\ \/ worker.stored /\ Becomes(worker.job, "succeeded")
     \/ Becomes(worker.job, "partial")
     \/ ~worker.stored /\ (Becomes(worker.job, "failed") \/ RetryLater(worker.job))
  /\ worker' = Idle
  /\ UNCHANGED <<collection, due, batched, acknowledged, mode, catalog, counts>>

FinishBreaks ==
  /\ Saving \/ Answered
  /\ ErrorHappens
  /\ worker' = [at |-> "broken", job |-> worker.job]
  /\ UNCHANGED <<tables, mode, catalog>>

(* requeue_interrupted_external_search_job, after another acquisition of    *)
(* the mutex: without next_retry_at the row counts from its creation again, *)
(* before all rows that became due while it was running                     *)
Requeue ==
  /\ Up
  /\ worker.at = "broken"
  /\ IF Running(worker.job)
       THEN /\ Becomes(worker.job, "pending")
            /\ due' = <<worker.job>> \o due
       ELSE UNCHANGED <<job, due>>
  /\ worker' = Idle
  /\ UNCHANGED <<collection, batched, acknowledged, mode, catalog, counts>>

RequeueBreaks ==
  /\ Up
  /\ worker.at = "broken"
  /\ ErrorHappens
  /\ worker' = Idle
  /\ UNCHANGED <<tables, mode, catalog>>

-----------------------------------------------------------------------------
(* Shutdown, crash and restart.                                             *)

Shutdown ==
  /\ mode = "up"
  /\ crashes < MaxCrashes
  /\ crashes' = crashes + 1
  /\ mode' = "stopping"
  /\ UNCHANGED <<tables, worker, catalog, errors>>

(* Mutant of Stopped: does not join the worker. *)
StoppedWithoutJoin ==
  /\ mode = "stopping"
  /\ mode' = "stopped"
  /\ worker' = Idle
  /\ UNCHANGED <<tables, catalog, counts>>

(* the worker leaves its loop and is joined *)
Stopped ==
  /\ mode = "stopping"
  /\ worker = Idle
  /\ mode' = "stopped"
  /\ UNCHANGED <<tables, worker, catalog, counts>>

Crash ==
  /\ Up
  /\ crashes < MaxCrashes
  /\ crashes' = crashes + 1
  /\ mode' = "down"
  /\ worker' = Idle
  /\ UNCHANGED <<tables, catalog, errors>>

(* Mutant of Restart: does not recover the interrupted jobs. *)
RestartWithoutRecovery ==
  /\ ~Up
  /\ mode' = "up"
  /\ worker' = Idle
  /\ UNCHANGED <<tables, catalog, counts>>

(* recover_interrupted_external_search_jobs *)
Restart ==
  /\ ~Up
  /\ mode' = "up"
  /\ worker' = Idle
  /\ LET interrupted == {j \in Jobs : Running(j)} IN
     /\ job' = [j \in Jobs |->
          IF j \in interrupted THEN [job[j] EXCEPT !.status = "pending"] ELSE job[j]]
     /\ due' = InOrder(interrupted) \o due
  /\ UNCHANGED <<collection, batched, acknowledged, catalog, counts>>

-----------------------------------------------------------------------------
WorkerStep ==
  \/ Choose \/ Start \/ StartFindsInactive \/ StartRefused
  \/ FinishAnswered \/ FinishFindsInactive \/ FinishFailed \/ FinishUnavailable
  \/ SaveCandidate \/ Conclude \/ Requeue

Error == StartBreaks \/ FinishBreaks \/ RequeueBreaks

Request ==
  \/ \E c \in Collections :
       \/ Enqueue(c) \/ EnqueueInBatch(c) \/ HardDelete(c) \/ Ingest(c)
       \/ \E status \in {"active", "inactive"} : SetActive(c, status)
  \/ \E j \in Jobs : Acknowledge(j)

Next ==
  \/ WorkerStep \/ Error \/ Request
  \/ \E j \in Jobs : RetryElapses(j)
  \/ Shutdown \/ Stopped \/ Crash \/ Restart

Spec == Init /\ [][Next]_vars

(* The worker thread keeps running and every search and request returns: a  *)
(* blocking call of the provider has a timeout, and a list of candidates    *)
(* ends.  Somebody starts the service again.  Time passes.                  *)
Fairness ==
  /\ WF_vars(WorkerStep /\ worker.at # "saving")
  /\ WF_vars(Conclude)
  /\ WF_vars(Stopped)
  /\ WF_vars(Restart)
  /\ \A j \in Jobs : WF_vars(RetryElapses(j))

FairSpec == Spec /\ Fairness

-----------------------------------------------------------------------------
(* Properties                                                               *)

(* A collection has at most one search under way: the check of the request  *)
(* keeps the unique index background_jobs_one_active_external_search from   *)
(* ever being hit, also when a job comes back from the worker, from a retry *)
(* or from a restart.                                                       *)
OneSearchPerCollection ==
  \A c \in Collections : \A j, k \in ActiveJobs(c) : j = k

(* What the provider answered about a work is never stored for another one, *)
(* although the collection may be deleted while the search runs and its id  *)
(* and the id of the job may by then belong to something else.              *)
ResultsBelongToTheWork ==
  \A c \in Collections : results[c] \subseteq {work[c]}

(* Only the outcome the user saw is acknowledged: an acknowledgement never  *)
(* passes to a later job that reuses the id.                                *)
AcknowledgedHasEnded ==
  \A j \in acknowledged : job[j].status \in {"partial", "failed"}

(* A shutdown leaves nothing to recover: without an unexpected error no     *)
(* job is running when the service has stopped.                             *)
ShutdownFinishesTheSearch ==
  mode = "stopped" /\ errors = 0 => \A j \in Jobs : ~Running(j)

(* An unexpected error does not keep a claimed job from the worker: it      *)
(* tries to put it back, so that only a second error can leave it behind.   *)
OneErrorLeavesNoClaim ==
  Up /\ errors <= 1 =>
    \A j \in Jobs : Running(j) => worker # Idle /\ worker.job = j

(* Every due job gets its turn, however often others are retried, deleted   *)
(* or interrupted, as long as errors and crashes end.                       *)
NoStarvation == \A j \in Jobs : IsDue(j) ~> ~IsDue(j)

(* Every claimed job leaves "running" again, also over a crash, as long as  *)
(* SQLite returns no unexpected error.                                      *)
ClaimsEnd == \A j \in Jobs : Running(j) ~> (~Running(j) \/ errors > 0)
=============================================================================
