---------------------------- MODULE DuplicateScan ----------------------------
(***************************************************************************)
(* Duplicate detection: a scan job has an item for every active collection, *)
(* workers claim the items under the mutex, hash the files without it and   *)
(* record fingerprints under it again, while files change and collections   *)
(* leave the catalog; people judge pairs from a list they loaded earlier.   *)
(*                                                                         *)
(* Abstractions.  A step under the mutex is one action; the cached items of *)
(* one turn are steps of their own.  A file is a place and a content, which *)
(* its size and time tell apart (what is written is new each time); the     *)
(* content stands for every hash of it.  Any two fingerprints may make a    *)
(* candidate: the evidence that duplicate_candidates weighs (equal hashes,  *)
(* pages, identifiers, titles) is left to choice.                           *)
(***************************************************************************)
EXTENDS Naturals, FiniteSets

CONSTANTS
  Workers,         \* the threads of run_duplicate_worker
  MaxCollections,  \* bound on the collection ids
  MaxJobs,         \* bound on the job ids
  Limit,           \* DUPLICATE_WORKER_COUNT, the concurrency limit of a job
  MaxChanges,      \* bound on what happens to files and collections
  MaxTroubles,     \* bound on the crashes, unexpected errors and retries
  MaxDecisions,    \* bound on the lists people load to judge
  Unreadable,      \* the contents no fingerprint can be made of
  Null

Collections == 1 .. MaxCollections
Jobs        == 1 .. MaxJobs
Contents    == 0 .. MaxChanges
Places      == 0 .. MaxChanges

File        == [place : Places, content : Contents]
Fingerprint == [source : File, content : Contents]
Pairs       == {p \in Collections \X Collections : p[1] < p[2]}
Judgement   == [pair : Pairs, left : Fingerprint, right : Fingerprint]

ASSUME DuplicateBoundsAssumption ==
  /\ MaxCollections \in Nat /\ MaxJobs \in Nat /\ Limit \in Nat \ {0}
  /\ MaxChanges \in Nat /\ MaxTroubles \in Nat /\ MaxDecisions \in Nat
ASSUME DuplicateNullAssumption == Null \notin File \cup Fingerprint \cup Judgement

-----------------------------------------------------------------------------
VARIABLES
  file,         \* the file of a collection, or Null
  status,       \* active: it has a current location
  job,          \* duplicate_scan_jobs
  item,         \* duplicate_scan_items
  fingerprint,  \* duplicate_fingerprints
  judged,       \* duplicate_exclusions and duplicate_reviews, by decision
  list,         \* a pair of the candidates as a person loaded it, or Null
  worker,       \* what each worker has in hand
  up,           \* the service runs
  had,          \* observation: the files the collection of an id has had
  meant,        \* observation: the contents people judged, by decision
  lost,         \* observation: items whose claim broke off by an error
  changes, troubles, decisions  \* observation: how often each happened

library == <<file, status, had>>
tables  == <<job, item, fingerprint>>
people  == <<judged, list, meant, decisions>>
vars    == <<library, tables, people, worker, up, lost, changes, troubles>>

Decisions == {"excluded", "confirmed"}
Open      == {"pending", "running"}

Idle    == [at |-> "idle"]
Request == [at : {"claimed"}, job : Jobs, collection : Collections, place : Places]
Hashing == [at : {"identified"}, job : Jobs, collection : Collections, before : File]
Hashed  == [at : {"hashed"}, job : Jobs, collection : Collections, before : File,
            content : Contents]
Answer  == [at : {"done"}, job : Jobs, collection : Collections,
            result : Fingerprint \cup {Null}]

TypeOK ==
  /\ file \in [Collections -> File \cup {Null}]
  /\ status \in [Collections -> {"active", "away", "none"}]
  /\ job \in [Jobs -> {"none", "running", "completed", "completed_with_errors"}]
  /\ item \in [Jobs \X Collections -> {"none", "pending", "running", "processed", "failed"}]
  /\ fingerprint \in [Collections -> Fingerprint \cup {Null}]
  /\ judged \in [Decisions -> SUBSET Judgement]
  /\ list \in Judgement \cup {Null}
  /\ worker \in [Workers -> {Idle} \cup Request \cup Hashing \cup Hashed \cup Answer]
  /\ up \in BOOLEAN
  /\ had \in [Collections -> SUBSET File]
  /\ meant \in [Decisions -> SUBSET (Pairs \X Contents \X Contents)]
  /\ lost \subseteq Jobs \X Collections
  /\ changes \in 0 .. MaxChanges
  /\ troubles \in 0 .. MaxTroubles
  /\ decisions \in 0 .. MaxDecisions

Init ==
  /\ file = [c \in Collections |-> [place |-> 0, content |-> 0]]
  /\ status = [c \in Collections |-> "active"]
  /\ job = [j \in Jobs |-> "none"]
  /\ item = [i \in Jobs \X Collections |-> "none"]
  /\ fingerprint = [c \in Collections |-> Null]
  /\ judged = [d \in Decisions |-> {}]
  /\ list = Null
  /\ worker = [w \in Workers |-> Idle]
  /\ up = TRUE
  /\ had = [c \in Collections |-> {file[c]}]
  /\ meant = [d \in Decisions |-> {}]
  /\ lost = {}
  /\ changes = 0 /\ troubles = 0 /\ decisions = 0

-----------------------------------------------------------------------------
(* Files and collections, changed by people, scans and file operations.      *)

Change == changes < MaxChanges /\ changes' = changes + 1
Trouble == troubles < MaxTroubles /\ troubles' = troubles + 1

Becomes(c, f) ==
  /\ file' = [file EXCEPT ![c] = f]
  /\ had' = [had EXCEPT ![c] = @ \cup {f}]

Rewrite(c) ==
  /\ Change
  /\ file[c] # Null
  /\ Becomes(c, [file[c] EXCEPT !.content = changes'])
  /\ UNCHANGED <<status, tables, people, worker, up, lost, troubles>>

(* complete_pending_move: the catalog follows in the same step *)
Relocate(c) ==
  /\ up /\ Change
  /\ status[c] = "active" /\ file[c] # Null
  /\ Becomes(c, [file[c] EXCEPT !.place = changes'])
  /\ UNCHANGED <<status, tables, people, worker, up, lost, troubles>>

(* mark_collection_missing, complete_soft_delete, a consolidation *)
Leave(c) ==
  /\ up /\ Change
  /\ status[c] = "active"
  /\ status' = [status EXCEPT ![c] = "away"]
  /\ file' = [file EXCEPT ![c] = Null]
  /\ UNCHANGED <<had, tables, people, worker, up, lost, troubles>>

(* the foreign keys ON DELETE CASCADE of migration 0015 *)
Cascade(c) ==
  /\ item' = [i \in Jobs \X Collections |-> IF i[2] = c THEN "none" ELSE item[i]]
  /\ fingerprint' = [fingerprint EXCEPT ![c] = Null]
  /\ judged' = [d \in Decisions |->
       {r \in judged[d] : r.pair[1] # c /\ r.pair[2] # c}]
  /\ meant' = [d \in Decisions |-> {m \in meant[d] : m[1][1] # c /\ m[1][2] # c}]

(* complete_hard_delete: the row goes, and its id is free when it is the last *)
HardDelete(c) ==
  /\ up /\ Change
  /\ status[c] # "none"
  /\ status' = [status EXCEPT ![c] = "none"]
  /\ file' = [file EXCEPT ![c] = Null]
  /\ had' = [had EXCEPT ![c] = {}]
  /\ Cascade(c)
  /\ UNCHANGED <<job, list, decisions, worker, up, lost, troubles>>

(* ingest_one: a new file, and the next id after the highest *)
Ingest(c) ==
  /\ up /\ Change
  /\ status[c] = "none"
  /\ \A d \in Collections : d > c => status[d] = "none"
  /\ \A d \in Collections : d < c => status[d] # "none"
  /\ status' = [status EXCEPT ![c] = "active"]
  /\ Becomes(c, [place |-> changes', content |-> changes'])
  /\ UNCHANGED <<tables, people, worker, up, lost, troubles>>

-----------------------------------------------------------------------------
(* Jobs.                                                                     *)

NoneRunning == \A j \in Jobs : job[j] # "running"

(* create_duplicate_scan_job of all active collections *)
StartScan(j) ==
  LET S == {c \in Collections : status[c] = "active"} IN
  /\ up
  /\ NoneRunning
  /\ job[j] = "none" /\ \A k \in Jobs : k < j => job[k] # "none"
  /\ job' = [job EXCEPT ![j] = IF S = {} THEN "completed" ELSE "running"]
  /\ item' = [i \in Jobs \X Collections |->
       IF i[1] = j /\ i[2] \in S THEN "pending" ELSE item[i]]
  /\ UNCHANGED <<library, fingerprint, people, worker, up, lost, changes, troubles>>

(* finalize_job *)
Finalized(j, items) ==
  IF \E c \in Collections : items[<<j, c>>] \in Open THEN job[j]
  ELSE IF \E c \in Collections : items[<<j, c>>] = "failed" THEN "completed_with_errors"
  ELSE "completed"

(* retry_failed_duplicate_scan_items; duplicate_scan_jobs_one_running refuses *)
(* a second running job, and a refused transaction changes nothing            *)
RetryFailures(j) ==
  /\ up
  /\ Trouble
  /\ \E c \in Collections : item[<<j, c>>] = "failed"
  /\ \A k \in Jobs \ {j} : job[k] # "running"
  /\ item' = [i \in Jobs \X Collections |->
       IF i[1] = j /\ item[i] = "failed" THEN "pending" ELSE item[i]]
  /\ job' = [job EXCEPT ![j] = "running"]
  /\ UNCHANGED <<library, fingerprint, people, worker, up, lost, changes>>

-----------------------------------------------------------------------------
(* Workers.                                                                  *)

Running(j) == {c \in Collections : item[<<j, c>>] = "running"}

Claimable(j, c) ==
  /\ job[j] = "running"
  /\ item[<<j, c>>] = "pending"
  /\ status[c] = "active"
  /\ Cardinality(Running(j)) < Limit

First(j, c) ==
  /\ Claimable(j, c)
  /\ \A k \in Jobs, d \in Collections :
       (k < j \/ (k = j /\ d < c)) => ~Claimable(k, d)

(* cached_duplicate_fingerprint for the file as it is now *)
Cached(c) == file[c] # Null /\ fingerprint[c] # Null /\ fingerprint[c].source = file[c]

(* claim_duplicate_fingerprint: items whose fingerprint is cached are done with *)
(* one by one, in the same turn under the mutex; the last claim is the worker's *)
ClaimCached(w, j, c) ==
  /\ up /\ worker[w] = Idle
  /\ First(j, c)
  /\ Cached(c)
  /\ item' = [item EXCEPT ![<<j, c>>] = "processed"]
  /\ job' = [job EXCEPT ![j] = Finalized(j, item')]
  /\ UNCHANGED <<library, fingerprint, people, worker, up, lost, changes, troubles>>

Claimed(j, c) == [item EXCEPT ![<<j, c>>] = "running"]

Claim(w, j, c) ==
  /\ up /\ worker[w] = Idle
  /\ First(j, c)
  /\ ~Cached(c)
  /\ item' = Claimed(j, c)
  /\ worker' = [worker EXCEPT ![w] =
       [at |-> "claimed", job |-> j, collection |-> c,
        place |-> IF file[c] = Null THEN 0 ELSE file[c].place]]
  /\ UNCHANGED <<library, job, fingerprint, people, up, lost, changes, troubles>>

(* an error after the claim: the worker logs it and goes on without the item *)
ClaimBreaks(w, j, c) ==
  /\ up /\ worker[w] = Idle
  /\ Trouble
  /\ First(j, c)
  /\ item' = Claimed(j, c)
  /\ lost' = lost \cup {<<j, c>>}
  /\ UNCHANGED <<library, job, fingerprint, people, worker, up, changes>>

At(w, place) == up /\ worker[w].at = place

Stands(c, place) == file[c] # Null /\ file[c].place = place

Reply(w, result) ==
  worker' = [worker EXCEPT ![w] =
    [at |-> "done", job |-> worker[w].job, collection |-> worker[w].collection,
     result |-> result]]

(* calculate_zip_content_fingerprint: the identity, the bytes, the identity *)
(* again; the file may be another one each time                             *)
Identify(w) ==
  LET c == worker[w].collection IN
  /\ At(w, "claimed")
  /\ IF Stands(c, worker[w].place)
     THEN worker' = [worker EXCEPT ![w] =
            [at |-> "identified", job |-> worker[w].job, collection |-> c, before |-> file[c]]]
     ELSE Reply(w, Null)
  /\ UNCHANGED <<library, tables, people, up, lost, changes, troubles>>

Hash(w) ==
  LET c == worker[w].collection IN
  /\ At(w, "identified")
  /\ IF Stands(c, worker[w].before.place) /\ file[c].content \notin Unreadable
     THEN worker' = [worker EXCEPT ![w] =
            [at |-> "hashed", job |-> @.job, collection |-> c, before |-> @.before,
             content |-> file[c].content]]
     ELSE Reply(w, Null)
  /\ UNCHANGED <<library, tables, people, up, lost, changes, troubles>>

(* Mutant of Unchanged: that a file stands there is enough. *)
StillThere(w) == file[worker[w].collection] # Null

Unchanged(w) == file[worker[w].collection] = worker[w].before

IdentifyAgain(w) ==
  /\ At(w, "hashed")
  /\ Reply(w, IF Unchanged(w)
              THEN [source |-> worker[w].before, content |-> worker[w].content] ELSE Null)
  /\ UNCHANGED <<library, tables, people, up, lost, changes, troubles>>

(* the row complete_duplicate_scan_item and fail_duplicate_scan_item update *)
Answers(w) ==
  {i \in Jobs \X Collections :
     i = <<worker[w].job, worker[w].collection>> /\ item[i] = "running"}

(* finish_duplicate_fingerprint: without the row the answer is refused *)
Finish(w) ==
  LET c == worker[w].collection
      result == worker[w].result IN
  /\ At(w, "done")
  /\ worker' = [worker EXCEPT ![w] = Idle]
  /\ IF Answers(w) = {} THEN UNCHANGED tables
     ELSE \E i \in Answers(w) :
       /\ item' = [item EXCEPT ![i] = IF result = Null THEN "failed" ELSE "processed"]
       /\ fingerprint' = IF result = Null THEN fingerprint
                         ELSE [fingerprint EXCEPT ![c] = result]
       /\ job' = [job EXCEPT ![i[1]] = Finalized(i[1], item')]
  /\ UNCHANGED <<library, people, up, lost, changes, troubles>>

(* the answer cannot be recorded: the worker logs it, the row stays running *)
FinishBreaks(w) ==
  /\ At(w, "done")
  /\ Trouble
  /\ worker' = [worker EXCEPT ![w] = Idle]
  /\ lost' = lost \cup Answers(w)
  /\ UNCHANGED <<library, tables, people, up, changes>>

-----------------------------------------------------------------------------
(* The service stops and starts.                                             *)

Crash ==
  /\ up /\ Trouble
  /\ up' = FALSE
  /\ worker' = [w \in Workers |-> Idle]
  /\ UNCHANGED <<library, tables, people, lost, changes>>

(* Mutant of Recovered: what ran is left as it is. *)
NotRecovered(items) == items

Recovered(items) ==
  [i \in Jobs \X Collections |-> IF items[i] = "running" THEN "pending" ELSE items[i]]

(* recover_interrupted_duplicate_scan_items *)
Restart ==
  /\ ~up
  /\ up' = TRUE
  /\ item' = Recovered(item)
  /\ job' = [j \in Jobs |->
       IF \E c \in Collections : item'[<<j, c>>] = "pending" THEN "running" ELSE job[j]]
  /\ lost' = {}
  /\ UNCHANGED <<library, fingerprint, people, worker, changes, troubles>>

-----------------------------------------------------------------------------
(* People judge pairs.                                                       *)

Compared(p) == fingerprint[p[1]] # Null /\ fingerprint[p[2]] # Null

PairNow(p) == [pair |-> p, left |-> fingerprint[p[1]], right |-> fingerprint[p[2]]]

(* Mutant of Hidden: a decision is about two collections, whatever is in them. *)
HiddenForGood(r) == \E d \in judged["excluded"] : d.pair = r.pair

(* insert_pair: duplicate_pair_is_excluded by both identities *)
Hidden(r) == r \in judged["excluded"]

(* duplicate_candidates, one pair of the page a person looks at *)
LoadCandidates(p) ==
  /\ up
  /\ decisions < MaxDecisions /\ decisions' = decisions + 1
  /\ Compared(p) /\ status[p[1]] = "active" /\ status[p[2]] = "active"
  /\ ~Hidden(PairNow(p))
  /\ list' = PairNow(p)
  /\ UNCHANGED <<library, tables, judged, meant, worker, up, lost, changes, troubles>>

(* validate_current_duplicate_identities *)
StillAsSeen(r) == r.left = fingerprint[r.pair[1]] /\ r.right = fingerprint[r.pair[2]]

(* exclude_duplicate_pair, confirm_duplicate_pair *)
Decide(d) ==
  /\ up
  /\ list # Null
  /\ list' = Null
  /\ meant' = [meant EXCEPT ![d] = @ \cup {<<list.pair, list.left.content, list.right.content>>}]
  /\ judged' = IF StillAsSeen(list) THEN [judged EXCEPT ![d] = @ \cup {list}] ELSE judged
  /\ UNCHANGED <<library, tables, decisions, worker, up, lost, changes, troubles>>

-----------------------------------------------------------------------------
Live ==
  \/ \E w \in Workers, j \in Jobs, c \in Collections : ClaimCached(w, j, c) \/ Claim(w, j, c)
  \/ \E w \in Workers : Identify(w) \/ Hash(w) \/ IdentifyAgain(w) \/ Finish(w)

Troubled ==
  \/ \E w \in Workers, j \in Jobs, c \in Collections : ClaimBreaks(w, j, c)
  \/ \E w \in Workers : FinishBreaks(w)
  \/ Crash \/ Restart

Asked ==
  \/ \E j \in Jobs : StartScan(j) \/ RetryFailures(j)
  \/ \E p \in Pairs : LoadCandidates(p)
  \/ \E d \in Decisions : Decide(d)

Around ==
  \E c \in Collections :
    Rewrite(c) \/ Relocate(c) \/ Leave(c) \/ HardDelete(c) \/ Ingest(c)

Next == Live \/ Troubled \/ Asked \/ Around

Spec == Init /\ [][Next]_vars

(* A worker comes back to its poll, its hashing ends, and a stopped service is *)
(* started again.                                                              *)
FairSpec ==
  /\ Spec
  /\ WF_vars(Restart)
  /\ \A w \in Workers :
       /\ WF_vars(\E j \in Jobs, c \in Collections : ClaimCached(w, j, c) \/ Claim(w, j, c))
       /\ WF_vars(Identify(w)) /\ WF_vars(Hash(w))
       /\ WF_vars(IdentifyAgain(w)) /\ WF_vars(Finish(w))

-----------------------------------------------------------------------------
(* Properties.                                                               *)

(* A fingerprint was made of a file this very collection has had, and its hashes *)
(* are those of the file it names: neither a file that changes while it is hashed *)
(* nor an answer for an earlier collection of the same id gets into the cache.    *)
FingerprintIsOwn ==
  \A c \in Collections : fingerprint[c] # Null =>
    /\ fingerprint[c].source \in had[c]
    /\ fingerprint[c].source.content = fingerprint[c].content

(* A candidate is kept from the list only after a person excluded this pair with *)
(* these contents in view: a changed and hashed file brings the pair back.        *)
HiddenAsJudged ==
  \A p \in Pairs : Compared(p) /\ Hidden(PairNow(p)) =>
    <<p, fingerprint[p[1]].content, fingerprint[p[2]].content>> \in meant["excluded"]

(* What a running job may be left with for good: no open item (they went with   *)
(* their collections), one of a collection that left, or one an error took.      *)
Stranded(j) ==
  \/ \A c \in Collections : item[<<j, c>>] \notin Open
  \/ \E c \in Collections :
       \/ item[<<j, c>>] = "pending" /\ status[c] # "active"
       \/ <<j, c>> \in lost

(* A running job comes to its end over crashes and restarts, unless it is left    *)
(* with an item no worker can take: nothing else makes the service refuse scans.  *)
JobsEnd == \A j \in Jobs : job[j] = "running" ~> (job[j] # "running" \/ Stranded(j))
=============================================================================
