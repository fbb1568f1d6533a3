--------------------------- MODULE ExportPackages ---------------------------
(***************************************************************************)
(* Exports: a request previews the files of some collections, records a    *)
(* job, and hands it to a thread nobody waits for.  The thread copies the   *)
(* files into <package>.partial without the mutex around                   *)
(* ApplicationService, takes it for each mark of progress, publishes the   *)
(* package by a hard link and records the outcome.                         *)
(*                                                                         *)
(* Abstractions.  There is one export root.  The bytes of a file are a     *)
(* version, its current path a place; an item is copied in one step and    *)
(* bytes are not counted.  Registering roots, the choice of entry names    *)
(* and the free space, which only refuse requests, are left out.           *)
(***************************************************************************)
EXTENDS Naturals, FiniteSets

CONSTANTS
  Packages,                 \* package file names in the export root
  MaxCollections, MaxJobs,  \* bounds on the row ids
  MaxChanges,               \* bound on what happens to the files of the collections
  MaxCrashes,               \* bound on crashes and shutdowns
  MaxErrors,                \* bound on unexpected errors of SQLite and the disk
  MaxRetries,               \* bound on the retries somebody asks for
  Null

Collections == 1 .. MaxCollections
Jobs        == 1 .. MaxJobs
Versions    == 0 .. MaxChanges
Places      == 0 .. MaxChanges

(* source_fingerprint: path, length and time of modification *)
Identity == [place : Places, version : Versions]

(* of a package or its partial file: whose it is, and the bytes of each entry *)
Content == [job : Jobs, entry : [Collections -> Versions \cup {Null}]]

ASSUME ExportBoundsAssumption ==
  /\ MaxCollections \in Nat /\ MaxJobs \in Nat
  /\ MaxChanges \in Nat /\ MaxCrashes \in Nat /\ MaxErrors \in Nat
  /\ MaxRetries \in Nat
ASSUME ExportNullAssumption == Null \notin Nat \cup Packages \cup Identity \cup Content

-----------------------------------------------------------------------------
VARIABLES
  source,      \* where and what the file of a collection is, Null when it is gone
  path,        \* where the catalog has it, Null unless it may be operated on
  rootActive,  \* export_roots.active
  job,         \* export_jobs with their export_job_items, by id
  partial,     \* the content of <package>.partial, or Null
  package,     \* the content of the package, or Null
  up,          \* the service runs
  thread,      \* the request, then the thread, that works on a job
  raced,       \* observation: jobs with a file replaced between its check and its copy
  stranded,    \* observation: jobs a crash or a failed removal interrupted
  changes, crashes, errors, retries   \* observation: how often each happened

disk   == <<partial, package>>
tables == <<rootActive, job>>
counts == <<changes, crashes, errors, retries>>
files  == <<source, path>>
vars   == <<files, disk, tables, up, thread, raced, stranded, counts>>

Unused == [status |-> "unused"]

JobRow == [package : Packages,
           expect : [Collections -> Identity \cup {Null}],
           status : {"pending", "running", "succeeded", "failed"},
           item : [Collections -> {"none", "pending", "running", "succeeded", "failed"}],
           processed : Nat, failed : Nat, current : Collections \cup {Null}]

NoThread == [at |-> "none"]
ThreadState ==
  {NoThread}
    \cup [at : {"created"}]
    \cup [at : {"prepared", "spawned", "next", "started", "checked", "copied",
                "written", "linked", "published"},
          place : [Collections -> Places \cup {Null}], item : Collections \cup {Null}]
    \cup [at : {"failing", "removed"}, item : Collections \cup {Null}]

TypeOK ==
  /\ source \in [Collections -> Identity \cup {Null}]
  /\ path \in [Collections -> Places \cup {Null}]
  /\ rootActive \in BOOLEAN
  /\ job \in [Jobs -> JobRow \cup {Unused}]
  /\ partial \in [Packages -> Content \cup {Null}]
  /\ package \in [Packages -> Content \cup {Null}]
  /\ up \in BOOLEAN
  /\ thread \in [Jobs -> ThreadState]
  /\ raced \subseteq Jobs
  /\ stranded \subseteq Jobs
  /\ changes \in 0 .. MaxChanges
  /\ crashes \in 0 .. MaxCrashes
  /\ errors \in 0 .. MaxErrors
  /\ retries \in 0 .. MaxRetries

Init ==
  /\ source = [c \in Collections |-> [place |-> 0, version |-> 0]]
  /\ path = [c \in Collections |-> 0]
  /\ rootActive = TRUE
  /\ job = [j \in Jobs |-> Unused]
  /\ partial = [n \in Packages |-> Null]
  /\ package = [n \in Packages |-> Null]
  /\ up = TRUE
  /\ thread = [j \in Jobs |-> NoThread]
  /\ raced = {} /\ stranded = {}
  /\ changes = 0 /\ crashes = 0 /\ errors = 0 /\ retries = 0

-----------------------------------------------------------------------------
Items(j) == {c \in Collections : job[j].expect[c] # Null}
Running(j) == job[j].status = "running"
At(j, place) == up /\ thread[j].at = place

(* A request holds the mutex from the creation of a job to its start. *)
Unlocked == up /\ \A j \in Jobs : thread[j].at # "created"

Goto(j, place) == thread' = [thread EXCEPT ![j].at = place]
Ends(j) == thread' = [thread EXCEPT ![j] = NoThread]

(* write_export_package returns an error, about an item or the whole *)
Fails(j, c) == thread' = [thread EXCEPT ![j] = [at |-> "failing", item |-> c]]

ErrorHappens ==
  errors < MaxErrors /\ errors' = errors + 1 /\ UNCHANGED <<changes, crashes, retries>>

-----------------------------------------------------------------------------
(* Requests.                                                                *)

(* export_preflight: every file is there and the name is free *)
Exportable(S, n) ==
  /\ rootActive
  /\ \A c \in S : path[c] # Null /\ source[c] # Null
  /\ package[n] = Null

(* enqueue_export and create_export_job *)
CreateExport(j, S, n) ==
  /\ Unlocked
  /\ \A k \in Jobs : k < j <=> job[k] # Unused
  /\ S # {} /\ Exportable(S, n)
  /\ job' = [job EXCEPT ![j] =
       [package |-> n, status |-> "pending",
        expect |-> [c \in Collections |-> IF c \in S THEN source[c] ELSE Null],
        item |-> [c \in Collections |-> IF c \in S THEN "pending" ELSE "none"],
        processed |-> 0, failed |-> 0, current |-> Null]]
  /\ thread' = [thread EXCEPT ![j] = [at |-> "created"]]
  /\ UNCHANGED <<files, rootActive, disk, up, raced, stranded, counts>>

RetryAsked(j) ==
  /\ Unlocked
  /\ retries < MaxRetries /\ retries' = retries + 1
  /\ job[j].status = "failed"
  /\ thread' = [thread EXCEPT ![j] = [at |-> "created"]]
  /\ UNCHANGED <<files, rootActive, disk, up, raced, stranded, changes, crashes, errors>>

(* retry_export_job *)
RetryExport(j) ==
  /\ RetryAsked(j)
  /\ job' = [job EXCEPT ![j] = [@ EXCEPT !.status = "pending",
       !.item = [c \in Collections |-> IF c \in Items(j) THEN "pending" ELSE "none"],
       !.processed = 0, !.failed = 0, !.current = Null]]

(* Mutant of Startable: the database takes a second running job. *)
StartableBesideOthers(j) == rootActive /\ \A c \in Items(j) : path[c] # Null

(* what prepare_export_execution reads again, and the unique index          *)
(* export_jobs_one_running                                                  *)
Startable(j) ==
  /\ rootActive
  /\ \A c \in Items(j) : path[c] # Null
  /\ \A k \in Jobs : ~Running(k)

(* prepare_export_execution: the paths are those of now, the identities    *)
(* those of the preview; as a path is part of an identity, an item that was *)
(* moved since will be refused                                              *)
Prepare(j) ==
  /\ At(j, "created")
  /\ Startable(j)
  /\ job' = [job EXCEPT ![j].status = "running"]
  /\ thread' = [thread EXCEPT ![j] =
       [at |-> "prepared", item |-> Null,
        place |-> [c \in Collections |-> IF c \in Items(j) THEN path[c] ELSE Null]]]
  /\ UNCHANGED <<files, rootActive, disk, up, raced, stranded, counts>>

(* fail_export_job: the whole, or the item c, which may not have begun *)
Failed(row, c) ==
  [row EXCEPT !.status = "failed", !.current = Null,
     !.failed = IF c = Null THEN row.failed ELSE row.failed + 1,
     !.item = [d \in Collections |-> IF d = c /\ row.item[d] \in {"pending", "running"}
                                       THEN "failed" ELSE row.item[d]]]

PrepareFails(j) ==
  /\ At(j, "created")
  /\ (~Startable(j) /\ UNCHANGED counts) \/ ErrorHappens
  /\ job' = [job EXCEPT ![j] = Failed(job[j], Null)]
  /\ Ends(j)
  /\ UNCHANGED <<files, rootActive, disk, up, raced, stranded>>

(* an error, and another one when the failure is recorded: nothing changes  *)
PrepareBreaks(j) ==
  /\ At(j, "created")
  /\ ErrorHappens
  /\ Ends(j)
  /\ UNCHANGED <<files, rootActive, job, disk, up, raced, stranded>>

(* The handler gives the mutex back, then spawns the thread.  Reading the   *)
(* answer may fail, or the client goes away: then there is no thread.       *)
Spawn(j) ==
  /\ At(j, "prepared")
  /\ Goto(j, "spawned")
  /\ UNCHANGED <<files, tables, disk, up, raced, stranded, counts>>

HandlerLost(j) ==
  /\ At(j, "prepared")
  /\ ErrorHappens
  /\ Ends(j)
  /\ UNCHANGED <<files, tables, disk, up, raced, stranded>>

SetRootActive(on) ==
  /\ Unlocked
  /\ rootActive # on
  /\ changes < MaxChanges /\ changes' = changes + 1
  /\ rootActive' = on
  /\ UNCHANGED <<files, job, disk, up, thread, raced, stranded, crashes, errors, retries>>

-----------------------------------------------------------------------------
(* The thread: write_export_package.                                        *)

Path(j) == job[j].package

(* the name must be free; an old partial is removed, a new one created *)
OpenPartial(j) ==
  /\ At(j, "spawned")
  /\ package[Path(j)] = Null
  /\ partial' = [partial EXCEPT ![Path(j)] =
       [job |-> j, entry |-> [c \in Collections |-> Null]]]
  /\ Goto(j, "next")
  /\ UNCHANGED <<files, tables, package, up, raced, stranded, counts>>

(* these two failures leave write_export_package before its own clean-up *)
NameTaken(j) ==
  /\ At(j, "spawned")
  /\ package[Path(j)] # Null
  /\ thread' = [thread EXCEPT ![j] = [at |-> "removed", item |-> Null]]
  /\ UNCHANGED <<files, tables, disk, up, raced, stranded, counts>>

OldPartialStays(j) ==
  /\ At(j, "spawned")
  /\ package[Path(j)] = Null /\ partial[Path(j)] # Null
  /\ ErrorHappens
  /\ thread' = [thread EXCEPT ![j] = [at |-> "removed", item |-> Null]]
  /\ UNCHANGED <<files, tables, disk, up, raced, stranded>>

(* the items in the order of their collections *)
Left(j) == {c \in Items(j) : partial[Path(j)].entry[c] = Null}

NextItem(j, c) == c \in Left(j) /\ \A d \in Left(j) : c <= d

StartItem(j, c) ==
  /\ At(j, "next") /\ Unlocked
  /\ NextItem(j, c)
  /\ Running(j) /\ job[j].item[c] = "pending"
  /\ job' = [job EXCEPT ![j] = [@ EXCEPT !.item[c] = "running", !.current = c]]
  /\ thread' = [thread EXCEPT ![j] = [@ EXCEPT !.at = "started", !.item = c]]
  /\ UNCHANGED <<files, rootActive, disk, up, raced, stranded, counts>>

There(j) ==
  LET c == thread[j].item IN source[c] # Null /\ source[c].place = thread[j].place[c]

AsPreviewed(j) ==
  LET c == thread[j].item IN There(j) /\ source[c] = job[j].expect[c]

(* Mutant of CheckSource: looks at the place only. *)
CheckPlace(j) ==
  /\ At(j, "started")
  /\ IF There(j) THEN Goto(j, "checked") ELSE Fails(j, thread[j].item)
  /\ UNCHANGED <<files, tables, disk, up, raced, stranded, counts>>

(* validate_unchanged_source *)
CheckSource(j) ==
  /\ At(j, "started")
  /\ IF AsPreviewed(j) THEN Goto(j, "checked") ELSE Fails(j, thread[j].item)
  /\ UNCHANGED <<files, tables, disk, up, raced, stranded, counts>>

CopyItem(j) ==
  /\ At(j, "checked")
  /\ There(j)
  /\ partial' = [partial EXCEPT ![Path(j)].entry[thread[j].item] = source[thread[j].item].version]
  /\ Goto(j, "copied")
  /\ UNCHANGED <<files, tables, package, up, raced, stranded, counts>>

(* the file is gone, or another one of a different length *)
CopyFindsChange(j) ==
  /\ At(j, "checked")
  /\ ~AsPreviewed(j)
  /\ Fails(j, thread[j].item)
  /\ UNCHANGED <<files, tables, disk, up, raced, stranded, counts>>

(* complete_export_job_item *)
Copied(row, c) ==
  [row EXCEPT !.item[c] = "succeeded", !.current = Null, !.processed = row.processed + 1]

CompleteItem(j) ==
  /\ At(j, "copied") /\ Unlocked
  /\ LET c == thread[j].item IN
     /\ job[j].item[c] = "running"
     /\ job' = [job EXCEPT ![j] = Copied(job[j], c)]
     /\ thread' = [thread EXCEPT ![j] =
          [@ EXCEPT !.at = IF Left(j) = {} THEN "written" ELSE "next", !.item = Null]]
  /\ UNCHANGED <<files, rootActive, disk, up, raced, stranded, counts>>

(* an error of the disk, or of SQLite before a mark of progress; the item    *)
(* whose start is not recorded is the one that fails                        *)
WriteBreaks(j) ==
  /\ ErrorHappens
  /\ \/ /\ \E place \in {"spawned", "started", "checked", "copied", "written"} : At(j, place)
        /\ At(j, "spawned") => package[Path(j)] = Null
        /\ Fails(j, thread[j].item)
     \/ /\ At(j, "next")
        /\ \E c \in Left(j) : NextItem(j, c) /\ Fails(j, c)
  /\ UNCHANGED <<files, tables, disk, up, raced, stranded>>

(* publish_partial_with *)
Publish(j) ==
  /\ At(j, "written")
  /\ package[Path(j)] = Null
  /\ package' = [package EXCEPT ![Path(j)] = partial[Path(j)]]
  /\ Goto(j, "linked")
  /\ UNCHANGED <<files, tables, partial, up, raced, stranded, counts>>

RemovePartial(j) ==
  /\ At(j, "linked")
  /\ partial' = [partial EXCEPT ![Path(j)] = Null]
  /\ Goto(j, "published")
  /\ UNCHANGED <<files, tables, package, up, raced, stranded, counts>>

(* the package is removed again, or the disk refuses and it stays *)
TakeBack(j) ==
  \/ package' = [package EXCEPT ![Path(j)] = Null] /\ UNCHANGED stranded
  \/ stranded' = stranded \cup {j} /\ UNCHANGED package

(* Mutant of RollBackPackage: the package stays. *)
RollBackNothing(j) ==
  /\ At(j, "linked")
  /\ ErrorHappens
  /\ Fails(j, Null)
  /\ UNCHANGED <<files, tables, disk, up, raced, stranded>>

(* the partial cannot be removed: the package goes again *)
RollBackPackage(j) ==
  /\ At(j, "linked")
  /\ ErrorHappens
  /\ TakeBack(j)
  /\ Fails(j, Null)
  /\ UNCHANGED <<files, tables, partial, up, raced>>

CleanUp(j) ==
  /\ At(j, "failing")
  /\ partial' = [partial EXCEPT ![Path(j)] = Null]
  /\ Goto(j, "removed")
  /\ UNCHANGED <<files, tables, package, up, raced, stranded, counts>>

CleanUpBreaks(j) ==
  /\ At(j, "failing")
  /\ ErrorHappens
  /\ Goto(j, "removed")
  /\ stranded' = stranded \cup {j}
  /\ UNCHANGED <<files, tables, disk, up, raced>>

-----------------------------------------------------------------------------
(* The outcome.                                                             *)

Complete(j) ==
  /\ At(j, "published") /\ Unlocked
  /\ Running(j) /\ job[j].processed = Cardinality(Items(j)) /\ job[j].failed = 0
  /\ job' = [job EXCEPT ![j].status = "succeeded"]
  /\ Ends(j)
  /\ UNCHANGED <<files, rootActive, disk, up, raced, stranded, counts>>

(* persist_completed_output: what cannot be recorded is taken back *)
CompleteBreaks(j) ==
  /\ At(j, "published") /\ Unlocked
  /\ ErrorHappens
  /\ TakeBack(j)
  /\ thread' = [thread EXCEPT ![j] = [at |-> "removed", item |-> Null]]
  /\ UNCHANGED <<files, tables, partial, up, raced>>

RecordFailure(j) ==
  /\ At(j, "removed") /\ Unlocked
  /\ job[j].status \in {"pending", "running"}
  /\ job' = [job EXCEPT ![j] = Failed(job[j], thread[j].item)]
  /\ Ends(j)
  /\ UNCHANGED <<files, rootActive, disk, up, raced, stranded, counts>>

RecordBreaks(j) ==
  /\ At(j, "removed") /\ Unlocked
  /\ ErrorHappens
  /\ Ends(j)
  /\ UNCHANGED <<files, tables, disk, up, raced, stranded>>

-----------------------------------------------------------------------------
(* The process ends: by a crash, or by a shutdown, which does not wait for  *)
(* the threads of exports.                                                  *)
Crash ==
  /\ up
  /\ crashes < MaxCrashes /\ crashes' = crashes + 1
  /\ up' = FALSE
  /\ thread' = [j \in Jobs |-> NoThread]
  /\ stranded' = stranded \cup {j \in Jobs : Running(j)}
  /\ UNCHANGED <<files, tables, disk, raced, changes, errors, retries>>

Latest(j) == job[j] # Unused /\ \A k \in Jobs : k > j => job[k] = Unused

(* recover_interrupted_export_jobs: the item a running job was at has failed *)
Interrupted(row) ==
  [row EXCEPT !.status = "failed", !.current = Null,
     !.failed = IF row.current = Null THEN row.failed ELSE row.failed + 1,
     !.item = [c \in Collections |-> IF row.item[c] = "running" THEN "failed" ELSE row.item[c]]]

(* Mutant of Restart: leaves the rows as they are. *)
RestartWithoutRecovery ==
  /\ ~up
  /\ up' = TRUE
  /\ UNCHANGED <<files, tables, disk, thread, raced, stranded, counts>>

(* recover_interrupted_exports, recover_interrupted_export_jobs *)
Restart ==
  /\ ~up
  /\ up' = TRUE
  /\ partial' = [n \in Packages |->
       IF \E j \in Jobs : Latest(j) /\ Running(j) /\ Path(j) = n THEN Null ELSE partial[n]]
  /\ job' = [j \in Jobs |-> IF Running(j) THEN Interrupted(job[j]) ELSE job[j]]
  /\ UNCHANGED <<files, rootActive, package, thread, raced, stranded, counts>>

-----------------------------------------------------------------------------
(* What happens to the files meanwhile.                                     *)

Change == changes < MaxChanges /\ changes' = changes + 1 /\ UNCHANGED <<crashes, errors, retries>>

(* a request renames or moves the file *)
SourceMoves(c) ==
  /\ Unlocked
  /\ path[c] # Null /\ source[c] # Null
  /\ Change
  /\ path' = [path EXCEPT ![c] = changes + 1]
  /\ source' = [source EXCEPT ![c].place = changes + 1]
  /\ UNCHANGED <<disk, tables, up, thread, raced, stranded>>

(* a request deletes it, a scan misses it, or its root is switched off *)
CollectionGoes(c) ==
  /\ Unlocked
  /\ path[c] # Null
  /\ Change
  /\ path' = [path EXCEPT ![c] = Null]
  /\ source' \in {source, [source EXCEPT ![c] = Null]}
  /\ UNCHANGED <<disk, tables, up, thread, raced, stranded>>

(* the user takes it away *)
SourceTaken(c) ==
  /\ source[c] # Null
  /\ Change
  /\ source' = [source EXCEPT ![c] = Null]
  /\ UNCHANGED <<path, disk, tables, up, thread, raced, stranded>>

(* the user replaces it *)
SourceReplaced(c) ==
  /\ source[c] # Null
  /\ Change
  /\ source' = [source EXCEPT ![c].version = changes + 1]
  /\ raced' = raced \cup {j \in Jobs : thread[j].at = "checked" /\ thread[j].item = c}
  /\ UNCHANGED <<path, disk, tables, up, thread, stranded>>

(* the user takes a package away *)
PackageTaken(n) ==
  /\ package[n] # Null
  /\ \A j \in Jobs : thread[j].at = "none"
  /\ Change
  /\ package' = [package EXCEPT ![n] = Null]
  /\ UNCHANGED <<files, partial, tables, up, thread, raced, stranded>>

-----------------------------------------------------------------------------
Request ==
  \/ \E j \in Jobs, S \in SUBSET Collections, n \in Packages : CreateExport(j, S, n)
  \/ \E j \in Jobs : RetryExport(j)
  \/ \E on \in BOOLEAN : SetRootActive(on)

Handler(j) == Prepare(j) \/ PrepareFails(j) \/ Spawn(j)

Write(j) ==
  \/ OpenPartial(j) \/ NameTaken(j)
  \/ \E c \in Collections : StartItem(j, c)
  \/ CheckSource(j) \/ CopyItem(j) \/ CopyFindsChange(j) \/ CompleteItem(j)
  \/ Publish(j) \/ RemovePartial(j)
  \/ CleanUp(j) \/ Complete(j) \/ RecordFailure(j)

Error(j) ==
  \/ PrepareBreaks(j) \/ HandlerLost(j) \/ OldPartialStays(j) \/ WriteBreaks(j)
  \/ RollBackPackage(j) \/ CleanUpBreaks(j) \/ CompleteBreaks(j) \/ RecordBreaks(j)

Outside ==
  \/ \E c \in Collections : 
       SourceMoves(c) \/ CollectionGoes(c) \/ SourceTaken(c) \/ SourceReplaced(c)
  \/ \E n \in Packages : PackageTaken(n)

Next ==
  \/ Request
  \/ \E j \in Jobs : Handler(j) \/ Write(j) \/ Error(j)
  \/ Crash \/ Restart
  \/ Outside

Spec == Init /\ [][Next]_vars

(* The runtime polls a handler and the system runs a thread; somebody       *)
(* starts the service again.                                                *)
Fairness ==
  /\ \A j \in Jobs : WF_vars(Handler(j)) /\ WF_vars(Write(j))
  /\ WF_vars(Restart)

FairSpec == Spec /\ Fairness

-----------------------------------------------------------------------------
(* Properties                                                               *)

(* Two threads never write packages at once, so that no thread removes or   *)
(* publishes the partial file of another one: whoever starts a job finds    *)
(* no other one running, and a running job has no thread but its own.       *)
OneWriter ==
  \A j, k \in Jobs :
    thread[j].at \notin {"none", "created"} /\ thread[k].at \notin {"none", "created"} => j = k

(* What stands under the name of a package is whole: every item of its job, *)
(* with the bytes the preview saw, unless the file was replaced just        *)
(* between its check and its copy.                                          *)
PublishedWhole ==
  \A n \in Packages : package[n] # Null =>
    LET k == package[n].job IN
    \A c \in Items(k) : \/ package[n].entry[c] = job[k].expect[c].version
                        \/ k \in raced /\ package[n].entry[c] # Null

(* A job that failed leaves neither package nor partial behind, unless the  *)
(* process ended or the disk refused in the middle of it.                   *)
FailedLeavesNothing ==
  \A j \in Jobs : job[j].status = "failed" /\ j \notin stranded =>
    \A n \in Packages :
      /\ package[n] # Null => package[n].job # j
      /\ partial[n] # Null => partial[n].job # j

(* Every running job ends, over crashes and changes of the files, as long   *)
(* as there is no unexpected error.                                         *)
ExportsEnd == \A j \in Jobs : Running(j) ~> (~Running(j) \/ errors > 0)

(* A start cleans up the partial file of every export it interrupts.        *)
RestartCleansPartials ==
  [][Restart => \A j \in Jobs : Running(j) => partial'[Path(j)] = Null]_vars
=============================================================================
