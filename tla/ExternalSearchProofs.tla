------------------------ MODULE ExternalSearchProofs ------------------------
(***************************************************************************)
(* What holds of ExternalSearchJobs for any number of collections, jobs,   *)
(* crashes and errors.  The order of the queue plays no part: an invariant *)
(* about the rows and the worker is enough, because a row is only ever     *)
(* claimed by the one worker, while it has no other job in hand.           *)
(***************************************************************************)
EXTENDS ExternalSearchJobs, TLAPS

(* The part of TypeOK the proofs need. *)
RowsOK ==
  /\ collection \in [Collections -> {"unused", "active", "inactive"}]
  /\ job \in [Jobs -> JobRow \cup {Unused}]
  /\ worker \in WorkerState
  /\ work \in [Collections -> Works \cup {0}]
  /\ born \in 0 .. MaxWorks
  /\ results \in [Collections -> SUBSET Works]

(* Rows of deleted collections are gone, with what was stored for them. *)
NothingLeftBehind ==
  /\ \A j \in Jobs : job[j] # Unused => collection[job[j].collection] # "unused"
  /\ \A c \in Collections : collection[c] = "unused" => results[c] = {}

(* An id in use stands for a work. *)
WorksKnown == \A c \in Collections : collection[c] # "unused" => work[c] \in Works

(* A job that runs while the worker has one in hand is that job, and it is  *)
(* still about the work the worker asked for.                               *)
InHand ==
  /\ worker.at = "saving" => Running(worker.job)
  /\ worker.at \in {"searching", "saving"} /\ Running(worker.job) =>
       work[job[worker.job].collection] = worker.work

SearchInv ==
  /\ RowsOK
  /\ NothingLeftBehind
  /\ WorksKnown
  /\ InHand
  /\ OneSearchPerCollection
  /\ ResultsBelongToTheWork

-----------------------------------------------------------------------------
LEMMA RowShape ==
  ASSUME RowsOK, NEW j \in Jobs
  PROVE  /\ job[j] # Unused <=> job[j] \in JobRow
         /\ job[j].status \in Active \cup Ended => job[j] \in JobRow
         /\ job[j] \in JobRow => job[j].collection \in Collections /\ job[j].waiting \in BOOLEAN
BY DEF RowsOK, JobRow, Unused, Active, Ended

LEMMA WorkerShape ==
  ASSUME RowsOK
  PROVE  /\ worker.at = "chosen" => worker.job \in Jobs
         /\ worker.at = "broken" => worker.job \in Jobs
         /\ worker.at = "searching" => worker.job \in Jobs /\ worker.work \in Works
         /\ worker.at = "saving" => /\ worker \in [at : {"saving"}, job : Jobs, work : Works,
                                                   stored : BOOLEAN]
                                    /\ worker.job \in Jobs /\ worker.work \in Works
         /\ worker.at = "idle" <=> worker = Idle
BY DEF RowsOK, WorkerState, Idle

LEMMA SearchInit == Init => SearchInv
<1> SUFFICES ASSUME Init PROVE SearchInv
  OBVIOUS
<1> USE SearchBoundsAssumption DEF Init
<1>1. RowsOK
  BY DEF RowsOK, WorkerState, Idle, Collections, Works, Unused
<1>2. \A c \in Collections : JobsOf(c) = {} /\ results[c] = {}
  BY DEF JobsOf, JobOf
<1>3. worker.at = "idle"
  BY DEF Idle
<1>4. WorksKnown
  BY DEF WorksKnown, Collections, Works
<1> QED
  BY <1>1, <1>2, <1>3, <1>4 DEF SearchInv, NothingLeftBehind, InHand, OneSearchPerCollection,
     ResultsBelongToTheWork, ActiveJobs

-----------------------------------------------------------------------------
(* One row gets another status; an active one only if it was active before. *)
RowMoves(j, row) ==
  /\ job[j] \in JobRow
  /\ row \in JobRow
  /\ row.collection = job[j].collection
  /\ row.status \in Active => job[j].status \in Active
  /\ job' = [job EXCEPT ![j] = row]

LEMMA RowMovesKeeps ==
  ASSUME SearchInv, NEW j \in Jobs, NEW row, RowMoves(j, row)
  PROVE  /\ job' \in [Jobs -> JobRow \cup {Unused}]
         /\ job'[j] = row
         /\ \A k \in Jobs : k # j => job'[k] = job[k]
         /\ UNCHANGED <<collection, results>> => NothingLeftBehind'
         /\ OneSearchPerCollection'
<1>1. /\ job' \in [Jobs -> JobRow \cup {Unused}]
      /\ job'[j] = row
      /\ \A k \in Jobs : k # j => job'[k] = job[k]
  BY DEF SearchInv, RowsOK, RowMoves
<1>2. row # Unused /\ job[j] # Unused
  BY DEF RowMoves, JobRow, Unused, Active, Ended
<1>3. ASSUME UNCHANGED <<collection, results>>
      PROVE  NothingLeftBehind'
  BY <1>1, <1>2, <1>3 DEF SearchInv, NothingLeftBehind, RowMoves
<1>4. ASSUME NEW c \in Collections
      PROVE  ActiveJobs(c)' \subseteq ActiveJobs(c)
  BY <1>1, <1>2 DEF ActiveJobs, JobsOf, JobOf, RowMoves
<1>5. OneSearchPerCollection'
  BY <1>4 DEF SearchInv, OneSearchPerCollection
<1> QED BY <1>1, <1>3, <1>5

(* A pending row is inserted for a collection without an active job. *)
LEMMA InsertKeeps ==
  ASSUME SearchInv, NEW c \in Collections, NEW j \in Jobs,
         Insert(c, j), IsActive(c), ActiveJobs(c) = {},
         UNCHANGED <<collection, process, catalog>>
  PROVE  SearchInv'
<1> DEFINE row == [collection |-> c, status |-> "pending", waiting |-> FALSE]
<1>1. row \in JobRow /\ row # Unused
  BY DEF JobRow, Unused, Active
<1>2. job[j] = Unused /\ job' = [job EXCEPT ![j] = row]
  <2>1. j \notin UsedJobs
    BY DEF Insert, NextId, Jobs, UsedJobs
  <2> QED BY <2>1 DEF Insert, UsedJobs
<1> HIDE DEF row
<1>3. /\ job' \in [Jobs -> JobRow \cup {Unused}]
      /\ job'[j] = row
      /\ \A k \in Jobs : k # j => job'[k] = job[k]
  BY <1>1, <1>2 DEF SearchInv, RowsOK
<1>4. RowsOK'
  BY <1>3 DEF SearchInv, RowsOK, process, catalog
<1>5. row.collection = c /\ row.status = "pending"
  BY DEF row
<1>6. NothingLeftBehind'
  BY <1>3, <1>5 DEF SearchInv, NothingLeftBehind, IsActive, catalog
<1>7. InHand'
  <2>1. ~Running(j) /\ ~Running(j)'
    BY <1>2, <1>3, <1>5 DEF Running, Unused
  <2>2. worker.at \in {"searching", "saving"} => worker.job \in Jobs
    BY WorkerShape DEF SearchInv
  <2> QED
    BY <1>3, <2>1, <2>2 DEF SearchInv, InHand, Running, process, catalog
<1>8. OneSearchPerCollection'
  <2>1. ActiveJobs(c)' \subseteq {j}
    BY <1>3 DEF ActiveJobs, JobsOf, JobOf
  <2>2. ASSUME NEW d \in Collections, d # c
        PROVE  ActiveJobs(d)' = ActiveJobs(d)
    BY <1>2, <1>3, <1>5, <2>2 DEF ActiveJobs, JobsOf, JobOf
  <2> QED BY <2>1, <2>2 DEF SearchInv, OneSearchPerCollection
<1>9. ResultsBelongToTheWork' /\ WorksKnown'
  BY DEF SearchInv, ResultsBelongToTheWork, WorksKnown, catalog
<1> QED BY <1>4, <1>6, <1>7, <1>8, <1>9 DEF SearchInv

LEMMA RequestKeeps == SearchInv /\ Request => SearchInv'
<1> SUFFICES ASSUME SearchInv, Request PROVE SearchInv'
  OBVIOUS
<1> USE DEF SearchInv
<1>1. ASSUME NEW c \in Collections, Enqueue(c) PROVE SearchInv'
  BY <1>1, InsertKeeps DEF Enqueue
<1>2. ASSUME NEW c \in Collections, EnqueueInBatch(c) PROVE SearchInv'
  <2> PICK j \in Jobs :
        IF ActiveJobs(c) = {} THEN Insert(c, j)
        ELSE j \in ActiveJobs(c) /\ UNCHANGED <<job, due>>
    BY <1>2 DEF EnqueueInBatch
  <2>1. CASE ActiveJobs(c) = {}
    BY <1>2, <2>1, InsertKeeps DEF EnqueueInBatch
  <2>2. CASE ActiveJobs(c) # {}
    BY <1>2, <2>2 DEF EnqueueInBatch, process, catalog, RowsOK, NothingLeftBehind, InHand,
       Running, OneSearchPerCollection, ActiveJobs, JobsOf, JobOf, ResultsBelongToTheWork,
       WorksKnown
  <2> QED BY <2>1, <2>2
<1>3. ASSUME NEW c \in Collections, HardDelete(c) PROVE SearchInv'
  <2>1. /\ collection' = [collection EXCEPT ![c] = "unused"]
        /\ job' = [j \in Jobs |-> IF JobOf(c, j) THEN Unused ELSE job[j]]
        /\ work' = [work EXCEPT ![c] = 0]
        /\ results' = [results EXCEPT ![c] = {}]
        /\ UNCHANGED <<mode, worker, born>>
    BY <1>3 DEF HardDelete, process
  <2>2. RowsOK'
    BY <2>1 DEF RowsOK
  <2>3. NothingLeftBehind'
    BY <2>1, RowShape DEF RowsOK, NothingLeftBehind, JobOf
  <2>4. InHand'
    <3>1. ASSUME NEW j \in Jobs, Running(j)' 
          PROVE  Running(j) /\ job'[j] = job[j] /\ job[j].collection \in Collections \ {c}
      <4>1. ~JobOf(c, j) /\ job'[j] = job[j]
        BY <2>1, <3>1 DEF Running, Unused
      <4>2. job[j] \in JobRow /\ Running(j)
        BY <3>1, <4>1, RowShape DEF Running, Active
      <4>3. job[j] # Unused
        BY <4>2, RowShape
      <4> QED BY <4>1, <4>2, <4>3 DEF JobOf, JobRow
    <3>2. worker.at # "saving"
      BY <1>3 DEF HardDelete, Unlocked
    <3>3. worker.at = "searching" => worker.job \in Jobs
      BY WorkerShape
    <3> QED BY <2>1, <3>1, <3>2, <3>3 DEF InHand, RowsOK
  <2>5. OneSearchPerCollection'
    <3>1. ASSUME NEW d \in Collections PROVE ActiveJobs(d)' \subseteq ActiveJobs(d)
      BY <2>1 DEF ActiveJobs, JobsOf, JobOf
    <3> QED BY <3>1 DEF OneSearchPerCollection
  <2>6. ResultsBelongToTheWork' /\ WorksKnown'
    BY <2>1 DEF ResultsBelongToTheWork, WorksKnown, RowsOK
  <2> QED BY <2>2, <2>3, <2>4, <2>5, <2>6
<1>4. ASSUME NEW c \in Collections, Ingest(c) PROVE SearchInv'
  <2>1. /\ collection' = [collection EXCEPT ![c] = "active"]
        /\ born' = born + 1 /\ born < MaxWorks
        /\ work' = [work EXCEPT ![c] = born + 1]
        /\ UNCHANGED <<job, mode, worker, results>>
    BY <1>4 DEF Ingest, process
  <2>2. collection[c] = "unused"
    BY <1>4 DEF Ingest, NextId, UsedCollections, Collections
  <2>3. RowsOK'
    BY <2>1, SearchBoundsAssumption DEF RowsOK, Works
  <2>4. NothingLeftBehind'
    BY <2>1, <2>2, RowShape DEF NothingLeftBehind, RowsOK
  <2>5. InHand'
    <3>1. ASSUME NEW j \in Jobs, Running(j)
          PROVE  job[j].collection \in Collections \ {c}
      <4>1. job[j] \in JobRow
        BY <3>1, RowShape DEF Running, Active
      <4>2. job[j] # Unused
        BY <4>1, RowShape
      <4> QED BY <2>2, <4>1, <4>2 DEF NothingLeftBehind, JobRow
    <3>2. worker.at \in {"searching", "saving"} => worker.job \in Jobs
      BY WorkerShape
    <3> QED BY <2>1, <3>1, <3>2 DEF InHand, Running, RowsOK
  <2>6. OneSearchPerCollection'
    BY <2>1 DEF OneSearchPerCollection, ActiveJobs, JobsOf, JobOf
  <2>7. ResultsBelongToTheWork'
    <3>1. results'[c] = {}
      BY <2>1, <2>2 DEF NothingLeftBehind
    <3>2. \A d \in Collections : d # c => work'[d] = work[d]
      BY <2>1 DEF RowsOK
    <3> QED BY <2>1, <3>1, <3>2 DEF ResultsBelongToTheWork
  <2>8. WorksKnown'
    <3>1. work'[c] \in Works
      BY <2>1, SearchBoundsAssumption DEF RowsOK, Works
    <3> QED BY <2>1, <3>1 DEF WorksKnown, RowsOK
  <2> QED BY <2>3, <2>4, <2>5, <2>6, <2>7, <2>8
<1>5. ASSUME NEW c \in Collections, NEW status \in {"active", "inactive"}, SetActive(c, status)
      PROVE  SearchInv'
  <2>1. /\ collection[c] # "unused" /\ collection' = [collection EXCEPT ![c] = status]
        /\ UNCHANGED <<job, worker, work, born, results>>
    BY <1>5 DEF SetActive, process, catalog
  <2>2. RowsOK'
    BY <2>1 DEF RowsOK
  <2>3. NothingLeftBehind'
    BY <2>1, RowShape DEF NothingLeftBehind, RowsOK
  <2>4. InHand' /\ OneSearchPerCollection' /\ ResultsBelongToTheWork' /\ WorksKnown'
    BY <2>1 DEF RowsOK, WorksKnown, InHand, Running, OneSearchPerCollection, ActiveJobs, JobsOf, JobOf,
       ResultsBelongToTheWork
  <2> QED BY <2>2, <2>3, <2>4
<1>6. ASSUME NEW j \in Jobs, Acknowledge(j) PROVE SearchInv'
  BY <1>6 DEF Acknowledge, process, catalog, RowsOK, NothingLeftBehind, WorksKnown, InHand, Running,
     OneSearchPerCollection, ActiveJobs, JobsOf, JobOf, ResultsBelongToTheWork
<1> QED BY <1>1, <1>2, <1>3, <1>4, <1>5, <1>6 DEF Request

-----------------------------------------------------------------------------
(* What remains to show when one row moves and the catalog stays.           *)
LEMMA RowStep ==
  ASSUME SearchInv, NEW j \in Jobs, NEW row, RowMoves(j, row),
         worker' \in WorkerState, InHand',
         UNCHANGED <<collection, work, born, results>>
  PROVE  SearchInv'
BY RowMovesKeeps DEF SearchInv, RowsOK, WorksKnown, ResultsBelongToTheWork

(* The job of the worker gets another status and the worker lets it go. *)
LEMMA LetGo ==
  ASSUME SearchInv, worker.job \in Jobs, Running(worker.job),
         \/ \E status \in {"pending", "succeeded", "partial", "failed"} :
              Becomes(worker.job, status)
         \/ RetryLater(worker.job),
         worker' = Idle,
         UNCHANGED <<collection, catalog>>
  PROVE  SearchInv'
<1>1. job[worker.job] \in JobRow
  BY RowShape DEF SearchInv, Running, Active
<1>2. InHand'
  BY DEF InHand, Idle
<1>3. worker' \in WorkerState
  BY DEF WorkerState
<1>4. ASSUME NEW status \in {"pending", "succeeded", "partial", "failed"},
             Becomes(worker.job, status)
      PROVE  SearchInv'
  <2> DEFINE row == [job[worker.job] EXCEPT !.status = status]
  <2>1. RowMoves(worker.job, row)
    BY <1>1, <1>4 DEF RowMoves, Becomes, JobRow, Active, Ended, Running
  <2> HIDE DEF row
  <2> QED BY <1>2, <1>3, <2>1, RowStep DEF catalog
<1>5. CASE RetryLater(worker.job)
  <2> DEFINE row == [job[worker.job] EXCEPT !.status = "pending", !.waiting = TRUE]
  <2>1. RowMoves(worker.job, row)
    BY ZenonT(60), <1>1, <1>5 DEF RowMoves, RetryLater, JobRow, Active, Ended, Running
  <2> HIDE DEF row
  <2> QED BY <1>2, <1>3, <2>1, RowStep DEF catalog
<1> QED BY <1>4, <1>5

(* The worker moves on without touching the tables. *)
LEMMA WorkerMovesOn ==
  ASSUME SearchInv, worker' \in WorkerState, InHand', UNCHANGED <<tables, catalog>>
  PROVE  SearchInv'
BY DEF SearchInv, RowsOK, NothingLeftBehind, WorksKnown, OneSearchPerCollection, ResultsBelongToTheWork,
   ActiveJobs, JobsOf, JobOf, tables, catalog

LEMMA ClaimKeeps ==
  ASSUME SearchInv, Claimable, Becomes(worker.job, "running"),
         \/ worker' = Idle
         \/ /\ IsActive(job[worker.job].collection)
            /\ worker' = [at |-> "searching", job |-> worker.job,
                          work |-> work[job[worker.job].collection]],
         UNCHANGED <<collection, catalog>>
  PROVE  SearchInv'
<1> DEFINE j   == worker.job
           row == [job[j] EXCEPT !.status = "running"]
<1>1. j \in Jobs /\ job[j] \in JobRow /\ job[j].status = "pending"
  BY WorkerShape, RowShape DEF SearchInv, Claimable, Active
<1>2. RowMoves(j, row)
  BY <1>1 DEF RowMoves, Becomes, JobRow, Active
<1>3. row.collection = job[j].collection
  OBVIOUS
<1> HIDE DEF row
<1>4. job'[j] = row
  BY <1>1, <1>2, RowMovesKeeps
<1>5. InHand' /\ worker' \in WorkerState
  <2>1. CASE worker' = Idle
    BY <2>1 DEF InHand, Idle, WorkerState
  <2>2. CASE /\ IsActive(job[j].collection)
             /\ worker' = [at |-> "searching", job |-> j, work |-> work[job[j].collection]]
    <3>1. work[job[j].collection] \in Works \cup {0}
      BY <1>1 DEF SearchInv, RowsOK, JobRow
    <3>2. work[job[j].collection] \in Works
      BY <1>1, <2>2 DEF SearchInv, WorksKnown, IsActive, JobRow
    <3> QED
      BY <1>1, <1>3, <1>4, <2>2, <3>2 DEF InHand, WorkerState, catalog
  <2> QED BY <2>1, <2>2
<1> QED BY <1>1, <1>2, <1>5, RowStep DEF catalog

LEMMA WorkerKeeps == SearchInv /\ (WorkerStep \/ Error) => SearchInv'
<1> SUFFICES ASSUME SearchInv, WorkerStep \/ Error PROVE SearchInv'
  OBVIOUS
<1> USE WorkerShape, RowShape DEF SearchInv
<1>1. CASE Choose
  <2>1. PICK j \in Jobs : worker' = [at |-> "chosen", job |-> j]
    BY <1>1 DEF Choose
  <2>2. worker' \in WorkerState /\ InHand'
    BY <2>1 DEF WorkerState, InHand
  <2> QED BY <1>1, <2>2, WorkerMovesOn DEF Choose
<1>2. CASE Start \/ StartBreaks
  BY <1>2, ClaimKeeps DEF Start, StartBreaks, catalog
<1>3. CASE StartFindsInactive
  <2> DEFINE row == [job[worker.job] EXCEPT !.status = "failed"]
  <2>1. RowMoves(worker.job, row)
    BY <1>3 DEF StartFindsInactive, Claimable, RowMoves, Becomes, JobRow, Active, Ended
  <2> HIDE DEF row
  <2>2. worker' \in WorkerState /\ InHand'
    BY <1>3 DEF StartFindsInactive, WorkerState, InHand, Idle
  <2> QED BY <1>3, <2>1, <2>2, RowStep DEF StartFindsInactive, Claimable, catalog
<1>4. CASE StartRefused \/ RequeueBreaks
  <2>1. worker' \in WorkerState /\ InHand'
    BY <1>4 DEF StartRefused, RequeueBreaks, WorkerState, InHand, Idle
  <2> QED BY <1>4, <2>1, WorkerMovesOn DEF StartRefused, RequeueBreaks
<1>5. CASE FinishAnswered
  <2>1. worker' \in WorkerState /\ InHand'
    BY <1>5 DEF FinishAnswered, Answered, WorkerState, InHand, Running, tables, catalog
  <2> QED BY <1>5, <2>1, WorkerMovesOn DEF FinishAnswered
<1>6. CASE FinishUnavailable \/ FinishBreaks
  <2>1. worker' \in WorkerState /\ InHand'
    BY <1>6 DEF FinishUnavailable, FinishBreaks, Saving, Answered, WorkerState, InHand
  <2> QED BY <1>6, <2>1, WorkerMovesOn DEF FinishUnavailable, FinishBreaks
<1>7. CASE FinishFindsInactive \/ FinishFailed
  BY <1>7, LetGo DEF FinishFindsInactive, FinishFailed, Answered
<1>8. CASE SaveCandidate
  <2> DEFINE c == job[worker.job].collection
  <2>1. /\ worker.at = "saving" /\ Running(worker.job) /\ work[c] = worker.work
        /\ job[worker.job] \in JobRow /\ c \in Collections
    BY <1>8 DEF SaveCandidate, Saving, InHand, Running, Active
  <2>2. /\ results' = [results EXCEPT ![c] = @ \cup {worker.work}]
        /\ worker' = [worker EXCEPT !.stored = TRUE]
        /\ UNCHANGED <<collection, job, work, born>>
    BY <1>8 DEF SaveCandidate, tables
  <2>3. worker' \in WorkerState
    BY <2>1, <2>2 DEF WorkerState
  <2>4. /\ worker'.at = worker.at /\ worker'.job = worker.job
        /\ worker'.work = worker.work
    BY <2>1, <2>2
  <2> HIDE DEF c
  <2>5. RowsOK'
    BY <2>1, <2>2, <2>3 DEF RowsOK
  <2>6. InHand'
    BY <2>1, <2>2, <2>4 DEF InHand, Running
  <2>7. NothingLeftBehind'
    <3>1. collection[c] # "unused"
      BY <2>1 DEF c, NothingLeftBehind
    <3> QED BY <2>1, <2>2, <3>1 DEF NothingLeftBehind, RowsOK
  <2>8. OneSearchPerCollection' /\ ResultsBelongToTheWork' /\ WorksKnown'
    BY <2>1, <2>2 DEF OneSearchPerCollection, ActiveJobs, JobsOf, JobOf, RowsOK,
       ResultsBelongToTheWork, WorksKnown
  <2> QED BY <2>5, <2>6, <2>7, <2>8
<1>9. CASE Conclude
  BY <1>9, LetGo DEF Conclude, Saving, InHand
<1>10. CASE Requeue
  <2>1. CASE Running(worker.job)
    BY <1>10, <2>1, LetGo DEF Requeue
  <2>2. CASE ~Running(worker.job)
    <3>1. worker' \in WorkerState /\ InHand'
      BY <1>10 DEF Requeue, WorkerState, InHand, Idle
    <3> QED BY <1>10, <2>2, <3>1, WorkerMovesOn DEF Requeue, tables
  <2> QED BY <2>1, <2>2
<1> QED
  BY <1>1, <1>2, <1>3, <1>4, <1>5, <1>6, <1>7, <1>8, <1>9, <1>10 DEF WorkerStep, Error

LEMMA ServiceKeeps ==
  SearchInv /\ (Shutdown \/ Stopped \/ Crash \/ Restart \/ \E j \in Jobs : RetryElapses(j))
    => SearchInv'
<1> SUFFICES ASSUME SearchInv,
                    Shutdown \/ Stopped \/ Crash \/ Restart \/ \E j \in Jobs : RetryElapses(j)
             PROVE  SearchInv'
  OBVIOUS
<1> USE DEF SearchInv
<1>1. CASE Shutdown \/ Stopped
  BY <1>1 DEF Shutdown, Stopped, tables, catalog, RowsOK, NothingLeftBehind, WorksKnown,
     InHand, Running, OneSearchPerCollection, ActiveJobs, JobsOf, JobOf, ResultsBelongToTheWork
<1>2. CASE Crash
  <2>1. worker' \in WorkerState /\ InHand'
    BY <1>2 DEF Crash, WorkerState, InHand, Idle
  <2> QED BY <1>2, <2>1, WorkerMovesOn DEF Crash
<1>3. CASE Restart
  <2>1. job' = [j \in Jobs |->
          IF Running(j) THEN [job[j] EXCEPT !.status = "pending"] ELSE job[j]]
    BY <1>3 DEF Restart
  <2>2. worker' = Idle /\ UNCHANGED <<collection, work, born, results>>
    BY <1>3 DEF Restart, catalog
  <2>3. ASSUME NEW j \in Jobs
        PROVE  /\ job'[j] \in JobRow \cup {Unused}
               /\ ~Running(j)'
               /\ job'[j] # Unused => job[j] # Unused /\ job'[j].collection = job[j].collection
               /\ job'[j].status \in Active => job[j].status \in Active
    <3>1. CASE Running(j)
      <4>1. job[j] \in JobRow /\ job[j] # Unused
        BY <3>1, RowShape DEF Running, Active
      <4> QED BY <2>1, <3>1, <4>1 DEF Running, JobRow, Active
    <3>2. CASE ~Running(j)
      BY <2>1, <3>2 DEF Running, RowsOK
    <3> QED BY <3>1, <3>2
  <2>4. RowsOK'
    BY <2>1, <2>2, <2>3 DEF RowsOK, WorkerState
  <2>5. NothingLeftBehind' /\ WorksKnown' /\ ResultsBelongToTheWork'
    BY <2>2, <2>3 DEF NothingLeftBehind, WorksKnown, ResultsBelongToTheWork
  <2>6. OneSearchPerCollection'
    <3>1. ASSUME NEW c \in Collections PROVE ActiveJobs(c)' \subseteq ActiveJobs(c)
      BY <2>3 DEF ActiveJobs, JobsOf, JobOf
    <3> QED BY <3>1 DEF OneSearchPerCollection
  <2>7. InHand'
    BY <2>2 DEF InHand, Idle
  <2> QED BY <2>4, <2>5, <2>6, <2>7
<1>4. ASSUME NEW j \in Jobs, RetryElapses(j) PROVE SearchInv'
  <2> DEFINE row == [job[j] EXCEPT !.waiting = FALSE]
  <2>1. job[j] \in JobRow
    BY <1>4, RowShape DEF RetryElapses
  <2>2. RowMoves(j, row)
    BY <1>4, <2>1 DEF RowMoves, RetryElapses, JobRow
  <2>3. row.status = job[j].status /\ row.collection = job[j].collection
    BY <2>1 DEF JobRow
  <2> HIDE DEF row
  <2>4. \A k \in Jobs : /\ job'[k].status = job[k].status
                        /\ job'[k].collection = job[k].collection
    BY <2>2, <2>3, RowMovesKeeps
  <2>5. worker' \in WorkerState /\ InHand'
    BY <1>4, <2>4, WorkerShape DEF RetryElapses, process, catalog, RowsOK, InHand, Running
  <2> QED BY <1>4, <2>2, <2>5, RowStep DEF RetryElapses, catalog
<1> QED BY <1>1, <1>2, <1>3, <1>4

LEMMA SearchStep == SearchInv /\ [Next]_vars => SearchInv'
<1> SUFFICES ASSUME SearchInv, [Next]_vars PROVE SearchInv'
  OBVIOUS
<1>1. CASE UNCHANGED vars
  BY <1>1 DEF vars, tables, process, catalog, SearchInv, RowsOK, NothingLeftBehind, WorksKnown,
     InHand, Running, OneSearchPerCollection, ActiveJobs, JobsOf, JobOf, ResultsBelongToTheWork
<1>2. CASE Next
  BY <1>2, RequestKeeps, WorkerKeeps, ServiceKeeps DEF Next
<1> QED BY <1>1, <1>2

(* A collection never has two searches under way, whatever errors, retries, *)
(* crashes and restarts its jobs go through.                                *)
THEOREM OneSearchAtATime == Spec => []OneSearchPerCollection
<1>1. SearchInv => OneSearchPerCollection
  BY DEF SearchInv
<1> QED BY <1>1, SearchInit, SearchStep, PTL DEF Spec

(* An answer is only ever stored for the work it was asked for.             *)
THEOREM AnswersStayWithTheWork == Spec => []ResultsBelongToTheWork
<1>1. SearchInv => ResultsBelongToTheWork
  BY DEF SearchInv
<1> QED BY <1>1, SearchInit, SearchStep, PTL DEF Spec

-----------------------------------------------------------------------------
(* What a shutdown and an acknowledgement rely on.                           *)

(* Without an unexpected error a claimed job has the worker at it, which     *)
(* leaves no job behind when it leaves its loop.  A crash takes the worker   *)
(* away; the start that follows puts its job back.                           *)
ClaimHasWorker ==
  mode # "down" /\ errors = 0 =>
    \A j \in Jobs : Running(j) => worker.at \in {"searching", "saving"} /\ worker.job = j

TidyInv ==
  /\ SearchInv
  /\ mode \in {"up", "stopping", "stopped", "down"}
  /\ mode = "stopped" => worker = Idle
  /\ errors \in Nat
  /\ acknowledged \subseteq Jobs
  /\ ClaimHasWorker
  /\ AcknowledgedHasEnded

(* Rows nobody claims: what runs afterwards ran before. *)
LEMMA NothingClaimed ==
  ASSUME TidyInv,
         \A j \in Jobs : Running(j)' => Running(j),
         mode' # "down" => mode # "down",
         errors' \in Nat, errors' = 0 => errors = 0,
         \/ worker' = worker
         \/ \A j \in Jobs : ~Running(j)'
         \/ errors' # 0 \/ mode' = "down"
         \/ /\ worker.job \in Jobs /\ worker'.job = worker.job
            /\ worker'.at \in {"searching", "saving"}
  PROVE  ClaimHasWorker'
BY DEF TidyInv, ClaimHasWorker, Running

(* Acknowledged rows that stay as they are. *)
LEMMA AcknowledgedStand ==
  ASSUME TidyInv, acknowledged' \subseteq acknowledged,
         \A j \in acknowledged' : job'[j].status = job[j].status
  PROVE  acknowledged' \subseteq Jobs /\ AcknowledgedHasEnded'
BY DEF TidyInv, AcknowledgedHasEnded

(* One row gets another status, which was open before or is not there yet. *)
LEMMA OpenRowMoves ==
  ASSUME TidyInv, NEW j \in Jobs, NEW row,
         job[j].status \notin {"partial", "failed"},
         job' = [job EXCEPT ![j] = row],
         UNCHANGED acknowledged
  PROVE  /\ job'[j] = row
         /\ \A k \in Jobs : k # j => job'[k] = job[k]
         /\ acknowledged' \subseteq Jobs /\ AcknowledgedHasEnded'
<1>1. job'[j] = row /\ \A k \in Jobs : k # j => job'[k] = job[k]
  BY DEF TidyInv, SearchInv, RowsOK
<1>2. j \notin acknowledged
  BY DEF TidyInv, AcknowledgedHasEnded
<1> QED BY <1>1, <1>2, AcknowledgedStand DEF TidyInv

LEMMA TidyInit == Init => TidyInv
BY SearchInit DEF Init, TidyInv, ClaimHasWorker, AcknowledgedHasEnded, Running, Unused

LEMMA RequestTidies ==
  TidyInv /\ Request => ClaimHasWorker' /\ acknowledged' \subseteq Jobs /\ AcknowledgedHasEnded'
<1> SUFFICES ASSUME TidyInv, Request
             PROVE  ClaimHasWorker' /\ acknowledged' \subseteq Jobs /\ AcknowledgedHasEnded'
  OBVIOUS
<1> USE DEF TidyInv
<1>1. ASSUME NEW c \in Collections, NEW j \in Jobs, Insert(c, j),
             UNCHANGED <<acknowledged, process, counts>>
      PROVE  ClaimHasWorker' /\ acknowledged' \subseteq Jobs /\ AcknowledgedHasEnded'
  <2> DEFINE row == [collection |-> c, status |-> "pending", waiting |-> FALSE]
  <2>1. /\ job[j] = Unused
        /\ row.status = "pending" /\ job' = [job EXCEPT ![j] = row]
    BY <1>1 DEF Insert, NextId, Jobs, UsedJobs
  <2> HIDE DEF row
  <2>a. job[j].status \notin {"partial", "failed"} /\ UNCHANGED acknowledged
    BY <1>1, <2>1 DEF Unused
  <2>2. /\ job'[j].status = "pending"
        /\ \A k \in Jobs : k # j => job'[k] = job[k]
        /\ acknowledged' \subseteq Jobs /\ AcknowledgedHasEnded'
    BY <2>1, <2>a, OpenRowMoves
  <2>3. \A k \in Jobs : Running(k)' => Running(k)
    BY <2>2 DEF Running
  <2> QED BY <1>1, <2>2, <2>3, NothingClaimed DEF process, counts
<1>2. ASSUME NEW c \in Collections, Enqueue(c)
      PROVE  ClaimHasWorker' /\ acknowledged' \subseteq Jobs /\ AcknowledgedHasEnded'
  BY <1>1, <1>2 DEF Enqueue
<1>3. ASSUME NEW c \in Collections, EnqueueInBatch(c)
      PROVE  ClaimHasWorker' /\ acknowledged' \subseteq Jobs /\ AcknowledgedHasEnded'
  <2> PICK j \in Jobs :
        IF ActiveJobs(c) = {} THEN Insert(c, j)
        ELSE j \in ActiveJobs(c) /\ UNCHANGED <<job, due>>
    BY <1>3 DEF EnqueueInBatch
  <2>1. CASE ActiveJobs(c) = {}
    BY <1>1, <1>3, <2>1 DEF EnqueueInBatch
  <2>2. CASE ActiveJobs(c) # {}
    BY <1>3, <2>2 DEF EnqueueInBatch, process, counts, ClaimHasWorker, Running,
       AcknowledgedHasEnded
  <2> QED BY <2>1, <2>2
<1>4. ASSUME NEW c \in Collections, HardDelete(c)
      PROVE  ClaimHasWorker' /\ acknowledged' \subseteq Jobs /\ AcknowledgedHasEnded'
  <2>1. \A j \in Jobs : job'[j] = IF JobOf(c, j) THEN Unused ELSE job[j]
    BY <1>4 DEF HardDelete
  <2>2. \A j \in Jobs : Running(j)' => Running(j)
    BY <2>1 DEF Running, Unused
  <2>3. acknowledged' = acknowledged \ JobsOf(c)
    BY <1>4 DEF HardDelete
  <2>4. acknowledged' \subseteq Jobs /\ AcknowledgedHasEnded'
    BY <2>1, <2>3, AcknowledgedStand DEF JobsOf
  <2> QED BY <1>4, <2>2, <2>4, NothingClaimed DEF HardDelete, process, counts
<1>5. ASSUME NEW c \in Collections,
             Ingest(c) \/ \E status \in {"active", "inactive"} : SetActive(c, status)
      PROVE  ClaimHasWorker' /\ acknowledged' \subseteq Jobs /\ AcknowledgedHasEnded'
  BY <1>5 DEF Ingest, SetActive, process, counts, ClaimHasWorker, Running, AcknowledgedHasEnded
<1>6. ASSUME NEW j \in Jobs, Acknowledge(j)
      PROVE  ClaimHasWorker' /\ acknowledged' \subseteq Jobs /\ AcknowledgedHasEnded'
  BY <1>6 DEF Acknowledge, process, counts, ClaimHasWorker, Running, AcknowledgedHasEnded
<1> QED BY <1>2, <1>3, <1>4, <1>5, <1>6 DEF Request

(* The worker lets go of a job it had claimed, or never claimed. *)
LEMMA LettingGo ==
  ASSUME TidyInv, worker.job \in Jobs, job[worker.job].status \notin {"partial", "failed"},
         \/ \E status \in {"pending", "succeeded", "partial", "failed"} :
              Becomes(worker.job, status)
         \/ RetryLater(worker.job),
         worker.at \in {"searching", "saving"} \/ \A j \in Jobs : j # worker.job => ~Running(j)
           \/ errors # 0 \/ mode = "down",
         UNCHANGED <<acknowledged, mode, errors>>
  PROVE  ClaimHasWorker' /\ acknowledged' \subseteq Jobs /\ AcknowledgedHasEnded'
<1> USE DEF TidyInv
<1>1. PICK row : job' = [job EXCEPT ![worker.job] = row] /\ row.status # "running"
  <2>1. job[worker.job] \in JobRow \cup {Unused}
    BY DEF SearchInv, RowsOK
  <2>2. ASSUME NEW status \in {"pending", "succeeded", "partial", "failed"},
               Becomes(worker.job, status)
        PROVE  \E row : job' = [job EXCEPT ![worker.job] = row] /\ row.status # "running"
    <3> DEFINE new == [job[worker.job] EXCEPT !.status = status]
    <3>1. job' = [job EXCEPT ![worker.job] = new] /\ new.status = status
      BY <2>1, <2>2 DEF Becomes, JobRow, Unused
    <3> QED BY <3>1
  <2>3. CASE RetryLater(worker.job)
    <3> DEFINE new == [job[worker.job] EXCEPT !.status = "pending", !.waiting = TRUE]
    <3>1. job' = [job EXCEPT ![worker.job] = new] /\ new.status = "pending"
      BY <2>1, <2>3 DEF RetryLater, JobRow, Unused
    <3> QED BY <3>1
  <2> QED BY <2>2, <2>3
<1>2. /\ job'[worker.job] = row
      /\ \A k \in Jobs : k # worker.job => job'[k] = job[k]
      /\ acknowledged' \subseteq Jobs /\ AcknowledgedHasEnded'
  BY <1>1, OpenRowMoves
<1>3. mode # "down" /\ errors = 0 => \A j \in Jobs : ~Running(j)'
  BY <1>1, <1>2 DEF ClaimHasWorker, Running
<1> QED BY <1>2, <1>3 DEF ClaimHasWorker

LEMMA WorkerTidies ==
  TidyInv /\ (WorkerStep \/ Error) =>
    ClaimHasWorker' /\ acknowledged' \subseteq Jobs /\ AcknowledgedHasEnded'
<1> SUFFICES ASSUME TidyInv, WorkerStep \/ Error
             PROVE  ClaimHasWorker' /\ acknowledged' \subseteq Jobs /\ AcknowledgedHasEnded'
  OBVIOUS
<1> USE DEF TidyInv
<1>0. SearchInv /\ RowsOK
  BY DEF SearchInv
<1> DEFINE Quiet == mode # "down" /\ errors = 0 => \A j \in Jobs : ~Running(j)
<1>a. worker.at \notin {"searching", "saving"} => Quiet
  BY DEF ClaimHasWorker
<1>b. ASSUME Quiet, UNCHANGED <<tables, mode>>,
             errors' = errors \/ errors' # 0
      PROVE  ClaimHasWorker' /\ acknowledged' \subseteq Jobs /\ AcknowledgedHasEnded'
  BY <1>b DEF tables, ClaimHasWorker, Running, AcknowledgedHasEnded
<1>c. ASSUME Claimable
      PROVE  worker.job \in Jobs /\ job[worker.job].status = "pending"
  BY <1>0, <1>c, WorkerShape DEF Claimable
<1>1. CASE Choose
  BY <1>0, <1>1, <1>a, <1>b, WorkerShape DEF Choose, Idle, counts
<1>2. CASE Start
  <2> DEFINE row == [job[worker.job] EXCEPT !.status = "running"]
  <2>1. Quiet
    BY <1>2, <1>a DEF Start, Claimable
  <2>2. job' = [job EXCEPT ![worker.job] = row]
    BY <1>2 DEF Start, Becomes
  <2> HIDE DEF row
  <2>3. /\ \A k \in Jobs : k # worker.job => job'[k] = job[k]
        /\ acknowledged' \subseteq Jobs /\ AcknowledgedHasEnded'
    BY <1>2, <1>c, <2>2, OpenRowMoves DEF Start
  <2>4. worker'.at = "searching" /\ worker'.job = worker.job
    BY <1>2 DEF Start
  <2> QED BY <1>2, <2>1, <2>3, <2>4 DEF Start, counts, ClaimHasWorker, Running
<1>3. CASE StartBreaks
  <2> DEFINE row == [job[worker.job] EXCEPT !.status = "running"]
  <2>1. job' = [job EXCEPT ![worker.job] = row]
    BY <1>3 DEF StartBreaks, Becomes
  <2> HIDE DEF row
  <2>2. acknowledged' \subseteq Jobs /\ AcknowledgedHasEnded'
    BY <1>3, <1>c, <2>1, OpenRowMoves DEF StartBreaks
  <2>3. errors' # 0
    BY <1>3 DEF StartBreaks, ErrorHappens
  <2> QED BY <2>2, <2>3 DEF ClaimHasWorker
<1>4. CASE StartFindsInactive
  BY <1>4, <1>a, <1>c, LettingGo DEF StartFindsInactive, Claimable, counts
<1>5. CASE StartRefused
  BY <1>5, <1>a, <1>b DEF StartRefused, counts
<1>6. CASE FinishAnswered
  BY <1>0, <1>6, WorkerShape DEF FinishAnswered, Answered, tables, counts, ClaimHasWorker, Running,
     AcknowledgedHasEnded
<1>7. CASE FinishFindsInactive \/ FinishFailed
  BY <1>0, <1>7, WorkerShape, LettingGo DEF FinishFindsInactive, FinishFailed, Answered, Running, counts
<1>8. CASE FinishUnavailable
  <2>1. Quiet
    BY <1>8 DEF FinishUnavailable, ClaimHasWorker
  <2> QED BY <1>8, <1>b, <2>1 DEF FinishUnavailable, counts
<1>9. CASE SaveCandidate
  BY <1>0, <1>9, WorkerShape DEF SaveCandidate, Saving, tables, counts, ClaimHasWorker, Running,
     AcknowledgedHasEnded
<1>10. CASE Conclude
  <2>1. worker.job \in Jobs /\ Running(worker.job)
    BY <1>0, <1>10, WorkerShape DEF Conclude, Saving, SearchInv, InHand
  <2> QED BY <1>10, <2>1, LettingGo DEF Conclude, Saving, Running, counts
<1>11. CASE FinishBreaks \/ RequeueBreaks
  <2>1. errors' # 0 /\ UNCHANGED tables
    BY <1>11 DEF FinishBreaks, RequeueBreaks, ErrorHappens
  <2> QED BY <2>1 DEF tables, ClaimHasWorker, AcknowledgedHasEnded
<1>12. CASE Requeue
  <2>1. worker.job \in Jobs /\ Quiet
    BY <1>0, <1>12, <1>a, WorkerShape DEF Requeue
  <2>2. CASE Running(worker.job)
    BY <1>12, <2>1, <2>2, LettingGo DEF Requeue, Running, counts
  <2>3. CASE ~Running(worker.job)
    BY <1>12, <1>b, <2>1, <2>3 DEF Requeue, tables, counts
  <2> QED BY <2>2, <2>3
<1> QED
  BY <1>1, <1>2, <1>3, <1>4, <1>5, <1>6, <1>7, <1>8, <1>9, <1>10, <1>11, <1>12
  DEF WorkerStep, Error

LEMMA ServiceTidies ==
  TidyInv /\ (Shutdown \/ Stopped \/ Crash \/ Restart \/ \E j \in Jobs : RetryElapses(j)) =>
    ClaimHasWorker' /\ acknowledged' \subseteq Jobs /\ AcknowledgedHasEnded'
<1> SUFFICES ASSUME TidyInv,
                    Shutdown \/ Stopped \/ Crash \/ Restart \/ \E j \in Jobs : RetryElapses(j)
             PROVE  ClaimHasWorker' /\ acknowledged' \subseteq Jobs /\ AcknowledgedHasEnded'
  OBVIOUS
<1> USE DEF TidyInv
<1>1. CASE Shutdown \/ Stopped
  BY <1>1 DEF Shutdown, Stopped, tables, counts, ClaimHasWorker, Running, AcknowledgedHasEnded
<1>2. CASE Crash
  BY <1>2 DEF Crash, tables, ClaimHasWorker, AcknowledgedHasEnded
<1>3. CASE Restart
  <2>1. \A j \in Jobs : job'[j] =
          IF Running(j) THEN [job[j] EXCEPT !.status = "pending"] ELSE job[j]
    BY <1>3 DEF Restart
  <2>2. ASSUME NEW j \in Jobs
        PROVE  ~Running(j)' /\ (~Running(j) => job'[j] = job[j])
    <3>1. job[j] \in JobRow \cup {Unused}
      BY DEF SearchInv, RowsOK
    <3> QED BY <2>1, <3>1 DEF Running, JobRow, Unused
  <2>3. acknowledged' \subseteq Jobs /\ AcknowledgedHasEnded'
    <3>1. \A j \in acknowledged : job'[j] = job[j]
      BY <2>2 DEF AcknowledgedHasEnded, Running
    <3> QED BY <1>3, <3>1, AcknowledgedStand DEF Restart
  <2> QED BY <2>2, <2>3 DEF ClaimHasWorker
<1>4. ASSUME NEW j \in Jobs, RetryElapses(j)
      PROVE  ClaimHasWorker' /\ acknowledged' \subseteq Jobs /\ AcknowledgedHasEnded'
  <2>1. job[j] \in JobRow
    BY <1>4, RowShape DEF SearchInv, RetryElapses
  <2>2. \A k \in Jobs : job'[k].status = job[k].status
    BY <1>4, <2>1 DEF RetryElapses, JobRow, SearchInv, RowsOK
  <2>3. acknowledged' \subseteq Jobs /\ AcknowledgedHasEnded'
    BY <1>4, <2>2, AcknowledgedStand DEF RetryElapses
  <2> QED BY <1>4, <2>2, <2>3, NothingClaimed DEF RetryElapses, process, counts, Running
<1> QED BY <1>1, <1>2, <1>3, <1>4

LEMMA TidyStep == TidyInv /\ [Next]_vars => TidyInv'
<1> SUFFICES ASSUME TidyInv, [Next]_vars PROVE TidyInv'
  OBVIOUS
<1>1. SearchInv'
  BY SearchStep DEF TidyInv
<1>2. /\ mode' \in {"up", "stopping", "stopped", "down"} /\ errors' \in Nat
      /\ mode' = "stopped" => worker' = Idle
  BY DEF TidyInv, Next, WorkerStep, Error, Request, vars, process, counts, ErrorHappens, Choose, Start,
     StartFindsInactive, StartRefused, FinishAnswered, FinishFindsInactive, FinishFailed,
     FinishUnavailable, SaveCandidate, Conclude, Requeue, StartBreaks, FinishBreaks, RequeueBreaks,
     Enqueue, EnqueueInBatch, HardDelete, Ingest, SetActive, Acknowledge, RetryElapses, Shutdown,
     Stopped, Crash, Restart, Up, Answered, Saving, Unlocked
<1>3. CASE UNCHANGED vars
  BY <1>1, <1>3 DEF TidyInv, vars, tables, process, counts, ClaimHasWorker, Running,
     AcknowledgedHasEnded
<1>4. CASE Next
  BY <1>1, <1>2, <1>4, RequestTidies, WorkerTidies, ServiceTidies DEF TidyInv, Next
<1> QED BY <1>3, <1>4

(* When the service has stopped no job is left running, as long as SQLite    *)
(* reported no unexpected error: the worker is joined with its job done.     *)
THEOREM ShutdownLeavesNothing == Spec => []ShutdownFinishesTheSearch
<1>1. TidyInv => ShutdownFinishesTheSearch
  <2> SUFFICES ASSUME TidyInv, mode = "stopped", errors = 0, NEW j \in Jobs
               PROVE  ~Running(j)
    BY DEF ShutdownFinishesTheSearch
  <2> QED BY DEF TidyInv, ClaimHasWorker, Idle
<1> QED BY <1>1, TidyInit, TidyStep, PTL DEF Spec
=============================================================================
