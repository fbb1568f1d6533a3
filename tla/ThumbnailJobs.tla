---------------------------- MODULE ThumbnailJobs ----------------------------
(***************************************************************************)
(* Thumbnails: requests put rows of thumbnail_states in a queue, two       *)
(* workers claim them under the mutex around ApplicationService, make and  *)
(* publish the image without it and record the outcome under it again,     *)
(* while settings, covers and files change and rows are queued anew.       *)
(*                                                                         *)
(* Abstractions.  A step under the mutex is one action.  A file is a place, *)
(* a version and what it holds; a cover is the number of a choice (0: none, *)
(* which takes the first page), an image what it was made from.  Delays     *)
(* pass, they have no length.  Counting attempts, the validation notes of   *)
(* covers and the percentages of a cache job are left out, as is priority   *)
(* 0, which nothing asks for in production.                                 *)
(***************************************************************************)
EXTENDS Naturals

CONSTANTS
  Workers,         \* the threads of run_thumbnail_worker
  MaxCollections,  \* bound on the collection ids
  Settings,        \* sizes and qualities
  Configured,      \* the settings of the configuration
  Asking,          \* the priorities a request for one thumbnail comes with
  MaxEdits,        \* bound on what people change: settings, covers, files, rebuilds
  MaxTroubles,     \* bound on the crashes and the unexpected errors of SQLite and the disk
  MaxWithErrors,   \* bound on the changes and crashes of a behaviour with an error
  Covers,          \* the choices of a cover
  Covered,         \* the collections that have a chosen cover at first
  Contents,        \* what files can hold
  Original,        \* what they hold at first
  Scopes,          \* what choices of roots hold: the collections of a cache job
  Nil

Collections == 1 .. MaxCollections

(* DEFAULT_THUMBNAIL_PRIORITY, BATCH_THUMBNAIL_PRIORITY *)
Default == 1
Batch   == 2

Priorities  == {Default, Batch} \cup Asking
Versions    == 0 .. MaxEdits

(* A ZIP or a folder: for which covers it can be told apart from an earlier  *)
(* one, and of which covers an image can be made.                            *)
Content == [folder : BOOLEAN, known : SUBSET Covers, images : SUBSET Covers]

File  == [place : Versions, version : Versions, content : Contents]
Look  == [file : File, cover : Covers, settings : Settings]
Image == [version : Versions, cover : Covers, settings : Settings]
CacheJob == [asked : SUBSET Collections, refused : SUBSET Collections]

ASSUME ThumbnailBoundsAssumption ==
  /\ MaxCollections \in Nat /\ Asking \subseteq Nat \ {0}
  /\ MaxEdits \in Nat /\ MaxTroubles \in Nat /\ MaxWithErrors \in Nat
ASSUME ThumbnailSettingsAssumption == Configured \in Settings
ASSUME ThumbnailCoversAssumption == 0 \in Covers /\ Covered \subseteq Collections
(* a cover in a ZIP is looked for when the image is made, not before         *)
ASSUME ThumbnailContentsAssumption ==
  /\ Contents \subseteq Content /\ Original \in Contents
  /\ \A k \in Contents : k.images \subseteq k.known /\ (~k.folder => k.known = Covers)
ASSUME ThumbnailScopesAssumption == Scopes \subseteq SUBSET Collections
ASSUME ThumbnailNilAssumption == Nil \notin File \cup Image \cup CacheJob \cup Versions

-----------------------------------------------------------------------------
VARIABLES
  file,      \* the file of a collection at its catalog path, or Nil
  operable,  \* the catalog lets the collection be operated on
  cover,     \* cover_selections
  settings,  \* the settings in effect
  row,       \* thumbnail_states, by collection
  earlier,   \* the order of requested_at
  cache,     \* the image under the cache path of a collection, or Nil
  worker,    \* what each worker has in hand
  up,        \* the service runs
  batch,     \* the cache job in memory: who was asked for and who could not be
  mixed,     \* observation: rows that were claimed for another look, or reset in hand
  edits, crashes, errors   \* observation: how often each happened

library == <<file, operable, cover>>
counts  == <<edits, crashes, errors>>
vars    == <<library, settings, row, earlier, cache, worker, up, batch, mixed, counts>>

NoRow == [status |-> "none"]
Row == [look : Look, status : {"pending", "running", "ready", "failed"},
        delay : BOOLEAN, priority : Priorities]

Idle == [at |-> "idle"]
Job  == [at : {"reading"}, collection : Collections, place : Versions \cup {Nil},
         cover : Covers, settings : Settings]
Made == [at : {"clearing", "placing"}, collection : Collections, image : Image]
Done == [at : {"done"}, collection : Collections, result : {"ok", "transient", "permanent"}]

TypeOK ==
  /\ file \in [Collections -> File \cup {Nil}]
  /\ operable \in [Collections -> BOOLEAN]
  /\ cover \in [Collections -> Covers]
  /\ settings \in Settings
  /\ row \in [Collections -> Row \cup {NoRow}]
  /\ earlier \subseteq Collections \X Collections
  /\ cache \in [Collections -> Image \cup {Nil}]
  /\ worker \in [Workers -> {Idle} \cup Job \cup Made \cup Done]
  /\ up \in BOOLEAN
  /\ batch \in CacheJob \cup {Nil}
  /\ mixed \subseteq Collections
  /\ edits \in 0 .. MaxEdits
  /\ crashes \in 0 .. MaxTroubles
  /\ errors \in 0 .. MaxTroubles

Init ==
  /\ file = [c \in Collections |-> [place |-> 0, version |-> 0, content |-> Original]]
  /\ operable = [c \in Collections |-> TRUE]
  /\ cover \in [Collections -> Original.images]
  /\ \A c \in Collections : cover[c] # 0 <=> c \in Covered
  /\ settings = Configured
  /\ row = [c \in Collections |-> NoRow]
  /\ earlier = {p \in Collections \X Collections : p[1] < p[2]}
  /\ cache = [c \in Collections |-> Nil]
  /\ worker = [w \in Workers |-> Idle]
  /\ up = TRUE
  /\ batch = Nil
  /\ mixed = {}
  /\ edits = 0 /\ crashes = 0 /\ errors = 0

-----------------------------------------------------------------------------
MoreEvents   == errors > 0 => edits + crashes < MaxWithErrors
MoreTroubles == crashes + errors < MaxTroubles

Change ==
  /\ MoreEvents /\ edits < MaxEdits
  /\ edits' = edits + 1 /\ UNCHANGED <<crashes, errors>>

ErrorHappens ==
  /\ MoreTroubles /\ edits + crashes <= MaxWithErrors
  /\ errors' = errors + 1 /\ UNCHANGED <<edits, crashes>>

At(w, place) == up /\ worker[w].at = place
InHand(c) == \E w \in Workers : worker[w].at # "idle" /\ worker[w].collection = c

Status(c) == row[c].status
Due(c) == Status(c) = "pending" /\ ~row[c].delay

(* due_thumbnails: by priority, then by the time of the request *)
First(c) ==
  /\ Due(c)
  /\ \A d \in Collections \ {c} : Due(d) =>
       \/ row[c].priority > row[d].priority
       \/ row[c].priority = row[d].priority /\ <<c, d>> \in earlier

-----------------------------------------------------------------------------
(* Queueing.  The rows of S are asked for one after the other.              *)

(* collection, active_collection_file_path and cover_source_fingerprint, which *)
(* looks for the cover in a folder                                             *)
Readable(c, k) == operable[c] /\ file[c] # Nil /\ k \in file[c].content.known
Requestable(c) == Readable(c, cover[c])

LookNow(c, s) == [file |-> file[c], cover |-> cover[c], settings |-> s]

(* insert_pending, reset_pending *)
Fresh(c, s, p) == [look |-> LookNow(c, s), status |-> "pending", delay |-> FALSE, priority |-> p]

Outdated(r, c, s) ==
  \/ r = NoRow
  \/ r.look # LookNow(c, s)
  \/ r.status = "ready" /\ cache[c] = Nil

(* request_thumbnail_with_priority *)
Asked(r, c, s, p) ==
  IF Outdated(r, c, s) THEN Fresh(c, s, p)
  ELSE IF r.status \in {"pending", "running"} /\ r.priority < p THEN [r EXCEPT !.priority = p]
  ELSE r

Later(S) == {p \in earlier : p[1] \notin S /\ p[2] \notin S}
              \cup ((Collections \ S) \X S)
              \cup {p \in S \X S : p[1] < p[2]}

(* which rows of S get a new requested_at *)
Touched(S, s, rows) ==
  {c \in S : Outdated(rows[c], c, s) \/ rows[c].status \in {"pending", "running"}}

(* rows queued again while a worker is at them *)
MixedBy(S) == (mixed \ S) \cup {c \in S : InHand(c)}

Request(c, p) ==
  /\ up
  /\ Requestable(c)
  /\ row' = [row EXCEPT ![c] = Asked(row[c], c, settings, p)]
  /\ earlier' = Later(Touched({c}, settings, row))
  /\ mixed' = IF Outdated(row[c], c, settings) THEN MixedBy({c}) ELSE mixed
  /\ UNCHANGED <<library, settings, cache, worker, up, batch, counts>>

(* thumbnail_cache_job_response: a job is over when each of its rows is      *)
(* ready or given up, whatever it was when the job began                     *)
CacheFailures(b) == b.refused \cup {c \in b.asked : Status(c) \in {"failed", "none"}}
CacheRunning(b)  == \E c \in b.asked : Status(c) \in {"pending", "running"}

(* thumbnail_cache_preflight and prepare_thumbnail_cache: S is what the roots *)
(* hold; one whose file cannot be looked at is a failure of the job           *)
PrepareCache(S) ==
  LET asked == {c \in S : Requestable(c)} IN
  /\ up
  /\ \A c \in S : operable[c]
  /\ row' = [c \in Collections |->
       IF c \in asked THEN Asked(row[c], c, settings, Batch) ELSE row[c]]
  /\ earlier' = Later(Touched(asked, settings, row))
  /\ mixed' = MixedBy({c \in asked : Outdated(row[c], c, settings)})
                \cup {c \in mixed : c \notin asked \/ ~Outdated(row[c], c, settings)}
  /\ batch' = [asked |-> asked, refused |-> S \ asked]
  /\ UNCHANGED <<library, settings, cache, worker, up, counts>>

StartCacheJob(S) ==
  /\ batch # Nil => ~CacheRunning(batch)
  /\ PrepareCache(S)

(* rebuild_thumbnail, for each of S *)
Rebuilt(S, p) ==
  /\ cache' = [c \in Collections |-> IF c \in S THEN Nil ELSE cache[c]]
  /\ row' = [c \in Collections |->
       IF c \in S THEN [Fresh(c, settings, p) EXCEPT !.look.cover = cover'[c]] ELSE row[c]]
  /\ earlier' = Later(S)
  /\ mixed' = MixedBy(S)

(* retry_thumbnails with the failures of the cache job *)
RetryFailed(S) ==
  LET asked == {c \in S : Requestable(c)} IN
  /\ UNCHANGED cover
  /\ Rebuilt(asked, Batch)
  /\ batch' = [asked |-> asked, refused |-> S \ asked]
  /\ UNCHANGED <<file, operable, settings, worker, up, counts>>

RetryCacheJob ==
  /\ up
  /\ batch # Nil
  /\ ~CacheRunning(batch) /\ CacheFailures(batch) # {}
  /\ RetryFailed(CacheFailures(batch))

Rebuild(c) ==
  /\ up /\ Change
  /\ Requestable(c)
  /\ UNCHANGED cover
  /\ Rebuilt({c}, Default)
  /\ UNCHANGED <<file, operable, settings, worker, up, batch>>

(* rebuild_all_thumbnails stops at the first active collection without file *)
RebuildAll ==
  /\ up /\ Change
  /\ UNCHANGED cover
  /\ \E n \in 0 .. MaxCollections :
       LET S == {c \in Collections : c <= n /\ operable[c]} IN
       /\ \A c \in S : Requestable(c)
       /\ n < MaxCollections => ~Requestable(n + 1)
       /\ Rebuilt(S, Default)
  /\ UNCHANGED <<file, operable, settings, worker, up, batch>>

(* the cached image is gone, the row could not be reset *)
RebuildBreaks(c) ==
  /\ up /\ ErrorHappens
  /\ Requestable(c)
  /\ cache' = [cache EXCEPT ![c] = Nil]
  /\ UNCHANGED <<library, settings, row, earlier, worker, up, batch, mixed>>

(* select_cover, of a page that can be shown, and clear_cover_selection *)
Choosable(c, k) == Readable(c, k) /\ (k # 0 => k \in file[c].content.images)

SelectCover(c, k) ==
  /\ up /\ Change
  /\ Choosable(c, k)
  /\ cover' = [cover EXCEPT ![c] = k]
  /\ Rebuilt({c}, Default)
  /\ UNCHANGED <<file, operable, settings, worker, up, batch>>

(* clear_cover_selection of a collection whose file cannot be looked at: no rebuild *)
ClearCoverOnly(c) ==
  /\ up
  /\ operable[c] /\ ~Readable(c, 0)
  /\ cover' = [cover EXCEPT ![c] = 0]
  /\ UNCHANGED <<file, operable, settings, row, earlier, cache, worker, up, batch, mixed, counts>>

(* the cover is recorded, the rebuild fails *)
SelectCoverBreaks(c, k) ==
  /\ up /\ ErrorHappens
  /\ Choosable(c, k)
  /\ cover' = [cover EXCEPT ![c] = k]
  /\ cache' \in {cache, [cache EXCEPT ![c] = Nil]}
  /\ UNCHANGED <<file, operable, settings, row, earlier, worker, up, batch, mixed>>

(* Mutant of Requeued: only the fingerprint changes. *)
Relabelled(r, s) == [r EXCEPT !.look.settings = s]

Requeued(r, s) == [r EXCEPT !.look.settings = s, !.status = "pending", !.delay = FALSE]

(* save_application_settings: every row of other settings is queued again, *)
(* also those of collections that are gone, and keeps its place in the queue *)
SaveSettings(s) ==
  LET S == {c \in Collections : row[c] # NoRow /\ row[c].look.settings # s} IN
  /\ up /\ Change
  /\ settings # s
  /\ settings' = s
  /\ row' = [c \in Collections |->
       IF c \in S THEN Requeued(row[c], s) ELSE row[c]]
  /\ mixed' = MixedBy(S)
  /\ UNCHANGED <<library, earlier, cache, worker, up, batch>>

-----------------------------------------------------------------------------
(* The workers.                                                             *)

Takes(w, job) == worker' = [worker EXCEPT ![w] = job]

Claimed(c) == row' = [row EXCEPT ![c].status = "running"]

(* claim_next_queued_thumbnail: only the first due row is looked at *)
Claim(w, c) ==
  /\ At(w, "idle")
  /\ First(c) /\ operable[c]
  /\ Claimed(c)
  /\ Takes(w, [at |-> "reading", collection |-> c,
               place |-> IF file[c] = Nil THEN Nil ELSE file[c].place,
               cover |-> cover[c], settings |-> settings])
  /\ mixed' = IF file[c] = Nil \/ row[c].look = LookNow(c, settings) THEN mixed
              ELSE mixed \cup {c}
  /\ UNCHANGED <<library, settings, earlier, cache, up, batch, counts>>

(* the row is claimed and its cover cannot be read *)
ClaimBreaks(w, c) ==
  /\ At(w, "idle")
  /\ First(c) /\ operable[c]
  /\ ErrorHappens
  /\ Claimed(c)
  /\ UNCHANGED <<library, settings, earlier, cache, worker, up, batch, mixed>>

Ends(w, result) ==
  Takes(w, [at |-> "done", collection |-> worker[w].collection, result |-> result])

Found(w) ==
  LET c == worker[w].collection IN file[c] # Nil /\ file[c].place = worker[w].place

(* generate_thumbnail reads the file as it is now, for the cover of the claim *)
Shown(w) == worker[w].cover \in file[worker[w].collection].content.images

Read(w) ==
  /\ At(w, "reading")
  /\ \/ /\ Found(w) /\ Shown(w)
        /\ Takes(w, [at |-> "clearing", collection |-> worker[w].collection,
                     image |-> [version |-> file[worker[w].collection].version,
                                cover |-> worker[w].cover, settings |-> worker[w].settings]])
     \/ /\ Found(w) /\ ~Shown(w)
        /\ Ends(w, "permanent")
     \/ /\ ~Found(w)
        /\ Ends(w, "transient")
  /\ UNCHANGED <<library, settings, row, earlier, cache, up, batch, mixed, counts>>

(* publish_cache *)
Clear(w) ==
  /\ At(w, "clearing")
  /\ cache' = [cache EXCEPT ![worker[w].collection] = Nil]
  /\ Takes(w, [worker[w] EXCEPT !.at = "placing"])
  /\ UNCHANGED <<library, settings, row, earlier, up, batch, mixed, counts>>

Place(w) ==
  /\ At(w, "placing")
  /\ cache' = [cache EXCEPT ![worker[w].collection] = worker[w].image]
  /\ Ends(w, "ok")
  /\ UNCHANGED <<library, settings, row, earlier, up, batch, mixed, counts>>

GenerationBreaks(w) ==
  /\ At(w, "reading") \/ At(w, "clearing") \/ At(w, "placing")
  /\ ErrorHappens
  /\ Ends(w, "transient")
  /\ UNCHANGED <<library, settings, row, earlier, cache, up, batch, mixed>>

(* Mutant of Recorded: every failure is for good. *)
RecordedWithoutRetry(r, result) ==
  IF result = "ok" THEN [r EXCEPT !.status = "ready"] ELSE [r EXCEPT !.status = "failed"]

(* complete_thumbnail, fail_thumbnail *)
Recorded(r, result) ==
  CASE result = "ok"        -> [r EXCEPT !.status = "ready"]
    [] result = "transient" -> [r EXCEPT !.status = "pending", !.delay = TRUE]
    [] result = "permanent" -> [r EXCEPT !.status = "failed"]

(* finish_thumbnail_generation: the outcome of a row that is not running is *)
(* dropped                                                                  *)
Finish(w) ==
  LET c == worker[w].collection IN
  /\ At(w, "done")
  /\ row' = [row EXCEPT ![c] =
       IF Status(c) = "running" THEN Recorded(row[c], worker[w].result) ELSE row[c]]
  /\ Takes(w, Idle)
  /\ UNCHANGED <<library, settings, earlier, cache, up, batch, mixed, counts>>

FinishBreaks(w) ==
  /\ At(w, "done")
  /\ ErrorHappens
  /\ Takes(w, Idle)
  /\ UNCHANGED <<library, settings, row, earlier, cache, up, batch, mixed>>

(* A delay of at least 30 seconds has passed; a worker that waits for work  *)
(* looks every second.                                                      *)
RetryElapses(c) ==
  /\ Status(c) = "pending" /\ row[c].delay
  /\ ~\E w \in Workers, d \in Collections : At(w, "idle") /\ First(d) /\ operable[d]
  /\ row' = [row EXCEPT ![c].delay = FALSE]
  /\ UNCHANGED <<library, settings, earlier, cache, worker, up, batch, mixed, counts>>

-----------------------------------------------------------------------------
(* The service ends and starts.                                             *)
Crash ==
  /\ up
  /\ MoreEvents /\ MoreTroubles /\ crashes' = crashes + 1
  /\ up' = FALSE
  /\ batch' = Nil
  /\ worker' = [w \in Workers |-> Idle]
  /\ UNCHANGED <<library, settings, row, earlier, cache, mixed, edits, errors>>

(* Mutant of Recovered: leaves the row as it is. *)
NotRecovered(r) == r

(* recover_interrupted_thumbnails *)
Recovered(r) ==
  IF r.status = "running" THEN [r EXCEPT !.status = "pending", !.delay = FALSE] ELSE r

(* run_service: recovery, then reconcile_thumbnail_settings, which asks for *)
(* every row up to the first that cannot be asked for; the settings may     *)
(* come from another configuration                                          *)
Restart(s) ==
  LET rows == [c \in Collections |-> Recovered(row[c])]
      reached == {c \in Collections :
        \A d \in Collections : d <= c /\ rows[d] # NoRow => Requestable(d)}
      asked == {c \in reached : rows[c] # NoRow}
      outdated == {c \in asked : Outdated(rows[c], c, s)}
  IN
  /\ ~up
  /\ up' = TRUE
  /\ IF s = settings THEN UNCHANGED counts ELSE Change
  /\ settings' = s
  /\ row' = [c \in Collections |-> IF c \in asked THEN Asked(rows[c], c, s, Default) ELSE rows[c]]
  /\ earlier' = Later(Touched(asked, s, rows))
  /\ mixed' = mixed \ outdated
  /\ UNCHANGED <<library, cache, worker, batch>>

-----------------------------------------------------------------------------
(* What happens to the collections meanwhile.                               *)

(* a request renames or moves the file; folders are not moved *)
FileMoves(c) ==
  /\ up /\ Change
  /\ operable[c] /\ file[c] # Nil /\ ~file[c].content.folder
  /\ file' = [file EXCEPT ![c].place = edits + 1]
  /\ UNCHANGED <<operable, cover, settings, row, earlier, cache, worker, up, batch, mixed>>

(* a deletion that keeps the row, a missed file, a root switched off *)
CollectionGoes(c) ==
  /\ up /\ Change
  /\ operable[c]
  /\ operable' = [operable EXCEPT ![c] = FALSE]
  /\ file' \in {file, [file EXCEPT ![c] = Nil]}
  /\ UNCHANGED <<cover, settings, row, earlier, cache, worker, up, batch, mixed>>

(* a permanent deletion; the cached image stays under the id *)
CollectionDeleted(c) ==
  /\ up /\ Change
  /\ operable[c]
  /\ operable' = [operable EXCEPT ![c] = FALSE]
  /\ file' = [file EXCEPT ![c] = Nil]
  /\ cover' = [cover EXCEPT ![c] = 0]
  /\ row' = [row EXCEPT ![c] = NoRow]
  /\ UNCHANGED <<settings, earlier, cache, worker, up, batch, mixed>>

(* a new collection gets the id of a deleted one *)
CollectionArrives(c) ==
  /\ up
  /\ ~operable[c] /\ file[c] = Nil /\ row[c] = NoRow
  /\ operable' = [operable EXCEPT ![c] = TRUE]
  /\ \E k \in Contents :
       file' = [file EXCEPT ![c] = [place |-> edits, version |-> edits, content |-> k]]
  /\ UNCHANGED <<cover, settings, row, earlier, cache, worker, up, batch, mixed, counts>>

(* the user replaces the file, or takes it away *)
FileReplaced(c) ==
  /\ Change
  /\ file[c] # Nil
  /\ \/ \E k \in Contents : file' = [file EXCEPT ![c].version = edits + 1, ![c].content = k]
     \/ file' = [file EXCEPT ![c] = Nil]
  /\ UNCHANGED <<operable, cover, settings, row, earlier, cache, worker, up, batch, mixed>>

-----------------------------------------------------------------------------
Ask ==
  \/ \E c \in Collections, p \in Asking : Request(c, p)
  \/ \E S \in Scopes : StartCacheJob(S)
  \/ RetryCacheJob
  \/ \E c \in Collections : Rebuild(c) \/ ClearCoverOnly(c)
  \/ RebuildAll
  \/ \E c \in Collections, k \in Covers : SelectCover(c, k)
  \/ \E s \in Settings : SaveSettings(s)

WorkerStep(w) ==
  \/ \E c \in Collections : Claim(w, c)
  \/ Read(w) \/ Clear(w) \/ Place(w) \/ Finish(w)

Error ==
  \/ \E c \in Collections : RebuildBreaks(c)
  \/ \E c \in Collections, k \in Covers : SelectCoverBreaks(c, k)
  \/ \E w \in Workers, c \in Collections : ClaimBreaks(w, c)
  \/ \E w \in Workers : GenerationBreaks(w) \/ FinishBreaks(w)

Outside ==
  \E c \in Collections :
    \/ FileMoves(c) \/ CollectionGoes(c) \/ CollectionDeleted(c) \/ CollectionArrives(c)
    \/ FileReplaced(c)

Next ==
  \/ Ask
  \/ \E w \in Workers : WorkerStep(w)
  \/ Error
  \/ \E c \in Collections : RetryElapses(c)
  \/ Crash \/ \E s \in Settings : Restart(s)
  \/ Outside

Spec == Init /\ [][Next]_vars

(* A worker loops as long as the service runs; somebody starts it again;    *)
(* time passes.                                                             *)
Fairness ==
  /\ \A w \in Workers : WF_vars(WorkerStep(w))
  /\ \A c \in Collections : SF_vars(RetryElapses(c))
  /\ WF_vars(\E s \in Settings : Restart(s))

FairSpec == Spec /\ Fairness

-----------------------------------------------------------------------------
(* Properties                                                               *)

(* what a request would take for up to date *)
Current(c) == row[c] # NoRow /\ Requestable(c) /\ row[c].look = LookNow(c, settings)

Shows(c) ==
  cache[c] = [version |-> file[c].version, cover |-> cover[c], settings |-> settings]

(* A thumbnail that is ready and that a request takes for up to date shows  *)
(* the file, the cover and the settings of now, unless its row was queued   *)
(* again while a worker was at it; a missing image is noticed.              *)
ReadyShowsWhatItSays ==
  \A c \in Collections :
    Status(c) = "ready" /\ Current(c) /\ c \notin mixed => cache[c] = Nil \/ Shows(c)

(* Generation is given up only when no image of the chosen cover, or of the *)
(* first page when none is chosen, can be made from the file as it is;      *)
(* errors that pass are tried again.  (A file that lost its chosen cover is *)
(* given up although its other pages could be shown.)                       *)
GivenUpForTheFile ==
  \A c \in Collections :
    Status(c) = "failed" /\ Current(c) /\ c \notin mixed =>
      cover[c] \notin file[c].content.images

(* a due row that cannot be claimed *)
Blocked == \E c \in Collections : Due(c) /\ ~operable[c]

(* A cache job, which refuses every other one while it runs, comes to its   *)
(* end, whatever is asked for or changed meanwhile and whichever thumbnails *)
(* are tried again and again: unless a row is left running by an error, a   *)
(* row was queued again while a worker was at it, a file of the job is      *)
(* away, or a row that cannot be claimed stands in the way.                 *)
CacheJobsEnd ==
  batch # Nil /\ CacheRunning(batch) ~>
    \/ batch = Nil \/ ~CacheRunning(batch) \/ \E c \in batch.asked : file[c] = Nil
    \/ errors > 0 \/ mixed # {} \/ Blocked

(* A thumbnail that is ready shows what its row says: late images of        *)
(* earlier settings, covers or files are dropped.                           *)
StaleIsDropped ==
  \A c \in Collections : Status(c) = "ready" /\ Current(c) => cache[c] = Nil \/ Shows(c)
=============================================================================
