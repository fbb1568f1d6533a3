# doujin-tagger-rust: specifications

TLA+ models of the catalog service and of the programs around it: the file operations
with their journal, batches of them, library scans, the background searches, exports,
thumbnails and duplicate scans with their threads, metadata with its governance and
consolidation, the requests that only read, the E-Hentai session, the chain of metadata
providers, who runs the service, and the migration into its catalog. Each module is
translated from the Rust and SQL sources; `PROJECT.json` maps every definition to the
lines it stands for, lists the hazards of the code and says which property is about which.

## 1. The system

The program keeps a catalog of ZIP files and image folders (one collection each) in
SQLite and serves it to a browser on the loopback interface. Twelve crates; the ones with
logic of their own are `doujin-storage` (tables and transactions), `doujin-files` (file
system steps), `doujin-app` (`ApplicationService`, which joins both), `doujin-scanner`,
`doujin-thumbnails`, `doujin-parser`, two metadata providers, `doujin-http` (requests,
workers, start and stop), `doujin-launcher`, `doujin-desktop` and `doujin-migrate`.

There is one `Arc<Mutex<ApplicationService>>`. A request takes it for its whole
duration. The workers (one for external searches, two for thumbnails, several for
duplicate fingerprints, one detached thread per export) follow the same pattern:
claim a row under the mutex, do the slow work without it, write the result back
under it again. At the start, before the first request, `run_service` recovers
what a crash left: file operations, searches, thumbnails, fingerprints, exports.

| component | state | operations | what is hard | what makes it correct |
|---|---|---|---|---|
| file operations | `file_operations`, `collection_locations`, `collections`, the files | move, rename, recycle, erase, recover | crash between file step and record, two pending operations, users and scans at the same paths | no bytes lost, catalog tells where the file is, journal tells what happened |
| batches | what a page shows, metadata, roots, settings | preview, apply, move a selection | applied from a page that is old, items that depend on each other | what was shown or asked for is what happens, safe items succeed |
| external searches | `background_jobs`, resolutions, batches | enqueue, claim, search, save, retry, requeue, acknowledge | ids reused while the provider is asked, errors after a claim, shutdown | one search per collection, answers stored for the right work, every job gets its turn and ends |
| library scan | `scan_runs`, `collections`, links, the disk | preview, walk, rename, ingest, mark missing, link, conclude | roots that go away half way, crash, a disk that changes | only what is gone goes missing, the preview is true, a scan gets a result |
| metadata, vocabulary | assertions, selections, projection, aliases, exclusions, views | set, select, reject, clear, answer, merge, keep apart | answers after a decision, merges over values of any origin | choices of the user stand, the projection is current |
| consolidation | links, decisions, all that belongs to a collection | link, decide, consolidate | both sides have choices, searches under way | nothing the user chose is lost unasked |
| thumbnails, covers, settings | `thumbnail_states`, cache | request, claim, generate, retry, reset | reset while generating | a ready image shows what its row says, what is given up has no image under its cover |
| duplicates | scan jobs, items, fingerprints, judgements | start, claim, hash, finish, judge | files that change under the hash, ids that come back, judgements of an old list | fingerprints are the file's own, pairs hide as judged, jobs end |
| exports | export jobs, items, packages | prepare, write, publish, record | threads not joined, one running job for all, files that change meanwhile, crash between publication and record | a package is whole, a failed job leaves nothing, a running job ends |
| queries, views, home, statistics | tags, saved views, shelf composition | filter, sort, page, count, compose | stale compositions, ties and unknown values in orders, cases of letters | numbers and pages agree with the list |
| E-Hentai session, providers | the cookie in catalog, store and environment; the sites | save, clear, test, search, look up | two places written one after the other, sites that change between requests | the store follows the catalog, references name their site, a title alone chooses nothing |
| launcher, instance, desktop | `launcher.json`, `instance.json`, two locks, processes | open, restart, stop, serve, end | pids that are used again, claims that outlive a service | the claim of one service is not taken by another's end, commands end |
| migration | legacy catalog, target, report, audit | read, import, validate, audit | a source in use, two runs at one target | a completed migration is whole, an audit that passes is true |
| parser, frontend | - | text, the browser | - | - |

## 2. What is modelled

### FileOperations

Rows are functions from small ids to records, with `NextId` for SQLite's
`INTEGER PRIMARY KEY` without `AUTOINCREMENT` (deleting the newest row frees its
id). A path is a root and a name; the disk is a function from paths to contents.
A request is a sequence of actions, because a crash may come between any two:

    BeginMove | BeginRename | BeginDelete            insert the pending row
    HardLink, or CopyToPartial . PublishPartial . RemovePartial
    RemoveSource | RollBack | RollBackFails          doujin-files/src/lib.rs:1076-1208
    Recycle | Erase                                  delete_one
    FileStepFails . FailureIsCertain | FailureIsAmbiguous . RecordFailure
    CompleteRelocation | CompleteSoftDelete | CompleteHardDelete
    CompletionRefused | StorageError                 the row stays pending

`phase` and `running` are the program counter of the thread that holds the mutex.
`Crash`, `Restart`, `RestartRefused` and `RecoverApplied / Unapplied / Ambiguous`
are the start of the service (`run_service`, `recover_one`), which ends in
`FinishRecovery`. Between requests other writers of the tables act: `ScanIngests`
and `ScanMarksMissing` (two transactions of the library scan), `SetRootActive`,
and `OtherTableHolds` for the foreign keys that refuse to delete a collection. At
any moment the user handles files with other programs (`UserMoves`, `UserTakes`,
`UserReturns`); these are the environment.

The variables `outside`, `erased`, `touched`, `book`, `overlapped`, `contested` (collections
whose pending operation leads where a later one leads) and `disturbed` record history for the properties. No guard of the program reads them, except for
`UserReturns`, which puts back what was taken.

Left out: folders of images (every operation refuses them), folders below a root,
the reading of ZIP entries, previews and batches (they are in BatchPlans), the opening of
a reader, text of errors. A partial copy that a crash leaves on the disk is dropped:
its name holds the process id and a counter and nothing reads it again.
Consolidation also writes these tables - it hands locations and pending operations
of the merged collection to the survivor - and a scan may rename a percent-encoded file
before it ingests it: the results here hold as long as neither happens while an operation
is pending.

### LibraryShelf and FileOperationsRefinement

`LibraryShelf` is what a user may rely on: a collection stands at one place,
nobody else stands there, and it leaves the place because its file was missed or
because a recorded request was granted, once, from where the request found it. It
knows no files, links, phases or crashes. `FileOperationsRefinement` maps the
tables to it; `KeepsShelfPromise` says that every step of the tables is a step
of the shelf or leaves it alone. One entry of the promise is weak on purpose: a
permanent deletion is granted wherever the collection stands by then, as the code
does (see `DeletesOnlyWithoutFile` in section 4).

### ExternalSearchJobs

`due` is the result of the ordered query `due_external_search_jobs`, kept as a
sequence: a new row or one whose delay passed goes to its end, a requeued or
recovered row, whose `next_retry_at` is NULL and counts from its creation, to its
front. The worker's program counter is `worker`: idle, chosen, searching (the
mutex is free, anything may happen), saving (the mutex is held), broken (an error
after the search; the job is put back in another acquisition of the mutex).
`HardDelete` and `Ingest` let ids of collections and jobs come back under a
running search. `Shutdown` sets the flag, `Stopped` joins the worker, `Crash` and
`Restart` lose the worker and recover running jobs. `work`, `born` and `results`
are observations that tell works apart from the ids they happen to have. A batch
creates its jobs in separate transactions and reuses an active job
(`EnqueueInBatch`); its items keep `HardDelete` from deleting their jobs.

Left out: the content of requests and answers (an answer stores the work it is
about, or fails for good, or fails with a delay), the number of attempts and the
length of a delay, the transfer of results in a consolidation (it appears as
`SetActive`), a poisoned mutex.

### ExportPackages

The request and the thread of a job share the program counter `thread[j].at`:

    CreateExport | RetryExport                        mutex held ("created")
    Prepare | PrepareFails | PrepareBreaks            mutex given back ("prepared")
    Spawn | HandlerLost                               after spawn_blocking
    OpenPartial | NameTaken | OldPartialStays         write_export_package
    StartItem . CheckSource . CopyItem . CompleteItem per item, in order
    Publish . RemovePartial | RollBackPackage         publish_partial_with
    WriteBreaks, CopyFindsChange . CleanUp            the partial goes
    Complete | CompleteBreaks | RecordFailure | RecordBreaks

Only the steps that touch the tables wait for the mutex (`Unlocked`); everything
else of a thread interleaves with requests, the user and other threads. `source`
is what the disk has (a place and a version, which together are the identity
`source_fingerprint` computes), `path` what the catalog has. `Startable` holds the
unique index that lets one job run. `Restart` cleans the partial file of the newest
job if that one is running, and marks every running job as failed. `Crash` is also
a shutdown: nobody joins these threads. `raced` and `stranded` are observations:
a file replaced just between its check and its copy, a job whose process ended or
whose removal the disk refused.

Left out: adding roots and their validation (one root with its `active` flag stands
for all), entry names, manifest, free space, sizes and progress in bytes, the
opening of the location. An item is copied in one step; a file that changes in
the middle of the copy is one that changed before it and is either noticed
by its length (`CopyFindsChange`) or not (`CopyItem`).

### ThumbnailJobs

`row` is `thumbnail_states` by collection: the `look` (the fingerprints of source,
cover and settings), the status, a delay, the priority. `earlier` is the order of
`requested_at`, so that `First` is the `ORDER BY` of
`due_thumbnails_with_min_priority`. A worker holds the mutex to claim a row and to
finish it, and nothing in between:

    Claim | ClaimBreaks              claim_next_queued_thumbnail
    Read                             generate_thumbnail opens the file as it is now
    Clear . Place                    publish_cache: remove_file, then rename
    GenerationBreaks                 any failure of the disk
    Finish | FinishBreaks            finish_thumbnail_generation

`Request`, `PrepareCache`, `RetryFailed`, `Rebuild`, `RebuildAll`, `SelectCover`,
`ClearCoverOnly` and `SaveSettings` queue rows meanwhile; `RebuildBreaks` and
`SelectCoverBreaks` stop between the removal of the image or the recording of the
cover and the reset of the row, which are separate transactions. `FileMoves`,
`CollectionGoes`, `CollectionDeleted` and `CollectionArrives` stand for the requests
and scans that change collections, `FileReplaced` for the user. `Restart` recovers
rows, then asks for every known row again, up to the first that cannot be asked for
(`reconcile_thumbnail_settings` ends at its first error, the service starts
nevertheless).

A request also refreshes `requested_at` of a row that waits: a page that asks again
sends its own thumbnail behind the others of the same priority.

A file holds its `content`: of which covers an image can be made, and for which it can be
told apart from what was there before. A request looks for the chosen cover in a folder and
fails when it is not there (`Readable`); in a ZIP it is looked for only when the image is
made (`Shown`), and when it is missing the row fails for good, however good the other pages
are (`Read`, `Recorded`).

`mixed` is an observation: the rows that were queued again while a worker was at
them, or claimed when file, cover or settings no longer were what the row says. For
these rows the image and the row may disagree (`StaleIsDropped`, section 4), the others keep the
properties. A due row of a collection that is gone (`Blocked`) cannot be claimed and
stays first: as `claim_next_queued_thumbnail` looks at one row only, the queue then stops
until that collection is back or deleted for good, or requests of a higher priority pass
it by. `save_application_settings` queues such rows too. `batch` is the cache job of the
process (`PrepareCache`, `RetryCacheJob`); it is over when each of its rows is ready, given
up or gone, whoever queued the row meanwhile.

Left out: the number of attempts and the lengths of delays, the percentage and the time a
cache job shows, the validation status of a cover, the decoding of images, priority 0.

### DuplicateScan

`job` and `item` are the tables of a scan, `fingerprint` the cache, `judged` the
exclusions and reviews. A worker of `run_duplicate_worker` (the threads share one mutex)
goes through

    Claim | ClaimCached | ClaimBreaks     claim_next_duplicate_scan_item, one row under the mutex
    Identify . Hash . IdentifyAgain       prepare_duplicate_fingerprint, without it
    Finish | FinishBreaks                 the outcome, the fingerprint, the end of the job

while files are rewritten or moved, collections leave, are deleted for good and give their
ids to others (`Rewrite`, `Relocate`, `Leave`, `HardDelete`, `Ingest`). `Claim` holds the
limit of running rows, `Finish` the check that the row is still running for this job.
`LoadCandidates` and `Decide` stand for the list a person has on the screen and the
judgement that comes later, `Crash` and `Restart` for the recovery of running items. `had`,
`meant` and `lost` are observations. Left out: hashes, pages, titles and their weights (any
two fingerprints may make a candidate), the progress of a job, the removal of duplicates
(it is a deletion of FileOperations).

### LibraryScan

A scan holds the mutex from begin to end, so what interleaves with it is the disk:

    Preflight                         preflight_scan, the counts somebody looks at
    BeginScan | BeginBreaks           begin_scan_run refuses while a row is running
    ListRoot . Child . EndWalk        the walk, with the safe rename of an encoded name
    Ingest | IngestBreaks . EndIngest one transaction for each collection found
    ReconcileBreaks, Look . Mark      what is not found, looked for again, then marked
    LinkAll . Complete                candidate links, differences from the preview, the result

`PutFile`, `MoveFile`, `RemoveFile` and `ChangeAccess` change files and roots (a root may be
read whole, in part, or be gone) between any two of these steps; `Crash` leaves the row of the run as
it is, and no recovery looks at it. `Decide` answers a link between scans.

Roots may lie in each other (`Above`): nothing in doujin-storage/src/roots.rs forbids it. A
place is the innermost root of a path with the name below it; the walk of a root goes through
the roots below as well (`Listed`), so that a file is listed once for each of them, and what
one walk cannot read makes every root above unsafe (`Faults`, `Spoilt`). A path has two
identities: the walk looks for the exact one in the catalog (`Known`), the file system and the
ingestion take all spellings for one (`Spellings`, `There`, `InCatalog`). What is listed twice,
or known in another spelling, is therefore new to the walk and to the preview, and counts as known after
the ingestion; `ambiguous` observes at the begin of a scan whether there is such a file.

Left out: what a folder must hold to be a collection (hence that a walk of the outer root could
take the folder of an inner one for an image folder), the opening of archives, symbolic links, warnings
other than those that change what is ingested, spellings of a root's own path, letters whose
lower case differs between the file name comparison (ASCII) and `path_key` (Unicode). The file
system is the one of Windows, which ignores case.

### CollectionMetadata, Consolidation

`assertion` holds what filename, legacy catalog, provider and user say, `selection` which of
it counts and why, `shown` the projection the shelf is read from; `alias`, `apart` and `view`
are what governance and saved views know of names. `SetManual`, `SelectAssertion`,
`RejectAssertion` and `ClearManual` are the requests of the user
(doujin-storage/src/lib.rs), `Answer` what the save of a search does, `Merge` and
`RejectGroup` the governance of doujin-storage/src/vocabulary.rs with the collections and
views they rewrite. `Consolidation` extends it with `Link` and `Decide` and with
`Consolidate`: preflight, conflict of two choices, transfer and new projection in one
transaction, which must not meet a search under way (`jobs`). `chosen` is an observation.
One field stands for all; names are spellings that normalize to the same. Left out: tags,
covers and reading data that move along, the pending file operations that move to the
survivor, suggestions that compare names.

### BatchPlans

What somebody was shown (`previewed`, of any page left open; `fresh`, the last one as long
as nothing changed), and batches that are applied item by item: `Preview`, `ApplyRenames`
with `RenameOne`, `MoveBatch` with `MoveOne`, between which only the user's hands on the
files come (the mutex is held). `EditMetadata`, `SwitchRoot`, `SetCommercialRoot` and
`CollectionLeaves` happen between batches. An item is one step; FileOperations takes it
apart. `Plannable` and `Safe` are the checks of `plan_collection_rename` and
`mark_batch_collisions`, `Accepted` the second look of `apply_rename_preflight`.
Curation puts Consolidation and an instance of BatchPlans into one module, and MCConsolidation
runs them side by side (`side`): metadata reaches files only by way of a preview, which BatchPlans makes by itself.

### LibraryQueries

One step for each request: `AddTag`, `RemoveTag`, `Describe`, `Place` change the shelf,
`CreateView`, `UpdateView`, `DeleteView`, `ReadHome`, `WriteHome`, `ResetHome` the saved views
and the home page. The queries are operators over the state: conditions
(`PreparedConditions`), orders with unknown sizes and ties (`Before`), pages, the place of a
work (`PageOf`, which in the code is a second SQL statement over the same
`collection_order`), facets, statistics, the review queue. `COLLATE NOCASE` is kept: a text is letters
and case. Deleting a view cascades to its row of the composition and leaves a gap in the
positions.

### EhentaiSession, GalleryRules

The cookie in three places: the catalog (`saved`), the store the process uses (`store`) and
the environment (`env`), with the status of the last test (`last`). A request is a sequence
of steps because each place has its own lock: `Start`, then `Saves` or `SaveFails` and
`Applies` for a save or a removal, `Looks`, `Tests`, `Tells` for a test, `Searches`,
`SearchesAgain`, `Galleries` and `Refers` for what uses it. A client may leave between the steps of a
write (`Ends`); `Restart` reads the catalog, or the environment. GalleryRules is what the
provider takes a page for: status, body, whether it came whole.

### MetadataLookup

One lookup of `FallbackMetadataProvider`: E-Hentai, then DLsite for what is left, each by
the identifier of its site or else by the exact title, which takes a search and a fetch
(`AskEhentai`, `SearchEhentai`, `FetchEhentai`, and the same of DLsite), while the sites
change (`SiteChanges`). Answers keep the kinds of `ExternalSearchProviderError`, so that combining them and
what becomes of their issues is that of the code. CatalogRequests puts this module beside
instances of EhentaiSession and LibraryQueries, and MCRequests runs them: three parts that share nothing a property
could tell, one per behaviour (`side`).

### ServiceLaunch

`config` is launcher.json, `claim` instance.json, `service` the processes that serve,
`command` what each launcher does, `desktop` the shell. A command is

    Gives . Locks                              open selects its catalog before the launch lock
    LooksToOpen . Checks . Spawns . Waits      open_catalog, wait_for_service
    LooksToStop . Decides . Strikes . Awaits   stop_selected, stop_disposition, stop_process

and a service `Acquires` its lock, `Opens`, `Publishes` its claim, serves, closes and
`Removes` the claim, whosever it is by then. `Crashes` ends any process without its Drop;
`Reuses` gives a pid that is free to another program. The one assumption about the system is in `Free`: the pid of a process
that ends in the moment between the answer of a service and the blow is not given away in
that moment. Left out: status and diagnose, which change nothing; the browser, the window.

### Migration

Both catalogs are in WAL mode (the service sets it in doujin-storage/src/lib.rs:2218-2222, the
legacy catalog is in it in doujin-migrate/tests/rehearsal.rs:258-261), so that each has a main
file and sidecars: `source.history` is all the legacy program ever committed, `source.main`
what of it the main file holds; `target` has a `content` and a `main`. A commit goes to the
sidecar. `LegacyCheckpoints`, `ServiceCheckpoints` and the close of the last connection (`Shut`)
bring it to the main file; a service that crashes leaves its sidecars.

A run of doujin-migrate looks for sidecars once (`Start`) and hashes the main file; it reads
from that file first the roots and then the rows, refuses the
catalog whole for one fault (`Block`), takes a target that does not exist (`OpenTarget`),
imports in one transaction, validates rows by sample and by count, and hashes the main file of the source
again, without another look for sidecars (`SourceUnchanged`, `Finish`); any step may fail, and a run may be killed. The legacy program
saves and checkpoints meanwhile; two runs may be given one target. Later the new service and the user change
catalog and files, and the path audit looks for sidecars once, reads the main file, looks at the
paths and hashes again (`AuditStarts` to `AuditEnds`).
Left out: settings that are only reported, the text of the report, a main file that a
checkpoint has written in part when it is read (a read that fails is `LoadFails`).
## 3. Runs

Each configuration is named after its root module and its run. MCFileOperations, MCLibraryScan,
MCThumbnailJobs, MCMigration, MCConsolidation and MCRequests give constants values that a configuration cannot
write, and choose the part a behaviour belongs to; the other modules are roots themselves.

| run | question | what it shows |
|---|---|---|
| `user` | Does the catalog tell where each file is, are bytes lost, is the journal true, with a user who moves, takes or swaps files at any moment? | holds; `CatalogMatchesDisk` for collections whose file and places the user left alone, that never got overlapping operations and whose pending operation led where no later one led (`contested`), `ContentSurvives` and `OutcomeIsTrue` for all |
| `journal` | Two collections, three operations, overlapping, crashing, refused by foreign keys, recovered late | locations stay unique, one pass of the recovery is enough unless operations overlapped, only overlap makes a row unreadable, every step is one of LibraryShelf |
| `searches` | Do answers and claims stay where they belong, does every due job get its turn, does every claim end, does a shutdown wait? | holds, the turns and ends under fairness |
| `exports` | Is there one writer, are packages whole, do failures leave nothing, do running jobs end? | holds; the end under fairness and without unexpected errors |
| `thumbnails` | Does a ready thumbnail show what its row says, is generation given up only for a file without an image under the chosen cover, does a cache job end? | holds for rows that were not queued again in a worker's hands, the end with the limits named above |
| `duplicates` | Are fingerprints those of the file they are kept for, are pairs hidden only as judged, do scan jobs end? | holds; a job ends unless it is left with an item no worker can take |
| `scans` | Does only what is missing go missing, does a scan do what its preview showed, does it get a result? | holds; the preview but for the cases `PreviewHolds` names |
| `metadata` | Do choices of the user stand, is the projection current, do views survive a first merge; do batches do what was shown? | holds |
| `requests` | Does the store follow the catalog, does a title choose nothing, do numbers and pages agree with the list, can the home page be written back? | holds; the store unless two writes met or a client left one |
| `launch` | Does a stop strike its own service, does ending one leave the claims of others, do commands end? | holds, the end under fairness |
| `migration` | Does a completed migration carry one state of the source whole, does a target hold one snapshot, does an audit that passes speak for the catalog it began with? | holds; that nothing was committed since is not known while there are sidecars (section 4) |
| `refusals` | Is a scan refused only while one is being done? | violated: a crash leaves the row running for good (section 4) |

Every property of a passing run has a mutant in its module, a plausible slip in one
definition (`Mutant of ...`), with which TLC finds it violated.

**Bounds.** File operations need one download root and one archive, two names and two
contents: a path can then be free, taken by the same or by another collection, and a file
can be another one than expected. Two operations are the least that overlap, three let one
come between a crash and a late completion. `MaxLocations` covers one row per ingest and
one per relocation. Foreign keys (`Holdable`) and root switches (`Switchable`) only multiply
states where no operation is pending, so each run names those it needs. Searches need two
jobs for a queue, a third work so that an id can belong to another one, one crash or
shutdown and two errors. Exports need a package of two items, one copied when the other
fails, two jobs for one package name, and one change, error, retry and crash each.
Thumbnails need two workers at one row or at different ones, any one change by people
together with a crash, or one error alone (an error that passes leaves a row as a crash or a
failed image does; `MaxWithErrors` adds changes to it). Their files have two pages, one of which
one collection has chosen; a file is replaced by one that is whole, has lost the chosen page, has no image,
or is a folder without that page. Duplicates need a pair, two jobs so that
one refuses or follows the other, two changes (a file rewritten, its collection replaced) and
two troubles (an error and a crash, or two); the limit equals the workers, as in the code.
Scans have a root in the folder of another one; the outer one has room for a name in two spellings and for an
encoded name that decodes to it, the inner one for the same name, so that a file may be listed
twice, be known otherwise spelt, and be the candidate of a tombstone of either root. Four ids are
enough for a file that is known, missing, new under another id, and again; a behaviour starts with one ZIP at most in catalog
and on disk, has two scans, one change by others and one crash or failing statement. Metadata needs two collections and two spellings,
four assertions and three choices, which is one on either side and one that decides. Batches have two
ZIP files that can exchange names, one name that Windows refuses and one change. The session has two
whole cookies and one partial, two requests at a time and three in all; the lookup three
works, so that a title may be shared by two listed works and one that is cut off
(`MaxListed` is 2, 25 in the code); the library three kinds of texts, unknown
sizes, and pages of one to all. Services are two with two pids, so that a pid of the first
can be the second's or a stranger's; one catalog is damaged. Migration has two runs, two nested roots, a
sound catalog and five others, each with one thing changed or wrong, and two changes by the service or the user, which
are enough for a commit in the sidecar and a touched file.

`CHECK_DEADLOCK FALSE` stands where an idle system may really stop with all bounds used up. The two
file runs check deadlock. `Spellings` may be exchanged in `metadata` and runs in `migration`:
neither is ordered anywhere, and these runs check no liveness. In `metadata` and `requests` a behaviour belongs to one part
(`side`), which no property relates to another.

**Fairness.**

* ExternalSearchJobs: the worker is a thread that loops until the flag is set, providers are
  blocking clients with a timeout, the list of candidates ends (`Conclude` is fair,
  `SaveCandidate` need not happen), `stop_workers` joins, someone starts the service again,
  time passes. Requests, errors and crashes have none. A job that SQLite refuses on every turn
  would go to the front of the queue again and again, without a delay: errors are bounded.
* ExportPackages: the runtime polls a handler to its end, the system runs the thread of a job,
  someone starts the service again. Retries are bounded, as a std `Mutex` promises no order.
  `ExportsEnd` gives up after an unexpected error: a handler that fails after the start
  of a job, or a failure that cannot be recorded, leaves the row running until the next start.
* ThumbnailJobs: each worker loops and the decoding of an image ends (`WorkerStep`), someone starts
  the service again, time passes. `RetryElapses` waits while an idle worker can claim
  something (a delay is 30 seconds at least, a worker looks every second), and time does not
  stop for requests that come and go, so that its fairness is strong.
* DuplicateScan: each worker polls, identifies, hashes and finishes; someone starts the service again.
* LibraryScan: the thread that scans goes on (`ScanStep`). After a crash or an error nothing
  is promised.
* ServiceLaunch: the system runs launchers and each wait of theirs has a timeout (weak
  fairness of `Commands`); a lock that is free again and again is granted (strong fairness of
  `Locks`). Nothing is assumed of the services.

## 4. Where code and documents disagree

`refusals` is the run that shows one disagreement (the entry of `PROJECT.json` "findings"
quotes it). The following properties are stated in the modules, beside those of the runs;
TLC violates each under the constants of the module's run, `RefusedStayApart` with three
collections and three spellings instead of two.

| property | module | what the code does, and what is said of it |
|---|---|---|
| `StartsAgain` | FileOperations | A permanent deletion sets the collection of other pending rows of its collection to NULL; `pending_file_operations` (doujin-storage/src/lib.rs:2048) fails as a whole on such a row and no later start gets past it. docs/references/sqlite-storage-evaluation.md:122: pending operations are reconciled at the start, then requests are accepted |
| `DeletesOnlyWithoutFile` | FileOperations | A recovered permanent deletion (lib.rs:2734) looks at the path of its row only: after a later rename it deletes the collection whose file stands at the new path. The same document, line 113: an unclear state is not guessed |
| `DeletionsConclude` | FileOperations | The file is erased before foreign keys of exports, consolidations or batches refuse the DELETE (lib.rs:2735); the operation stays pending for ever. docs/bdd/proposed/03-scan-and-file-lifecycle.feature:115 |
| `OneErrorLeavesNoClaim` | ExternalSearchJobs | An error between the claim and the search (doujin-http/src/service.rs:653) is only logged, the job stays running until the next start. The same document, line 81: the claimed job is put back to pending |
| `RestartCleansPartials` | ExportPackages | Only the partial file of the newest job is removed (doujin-app/src/export.rs:444); a newer refused job hides the one that ran. doujin-http/src/service.rs:132: interrupted jobs are marked and partials cleaned up |
| `StaleIsDropped` | ThumbnailJobs | A late result of earlier settings is recorded when the row was claimed again meanwhile (doujin-app/src/lib.rs:1638). docs/references/pre-cutover-path-and-ui-acceptance-2026-08-12.md:50: a stale result is recognised and dropped |
| `DifferenceMeansChange` | LibraryScan | A new file that two roots list, one the catalog has in another spelling (the walk compares exact paths, doujin-scanner/src/lib.rs:405, the ingestion `path_key`; what it skips is added to the known, doujin-app/src/lib.rs:715), two encoded names of one file name, tombstones of earlier scans and names kept on purpose make a scan differ from its preview though nothing changed; doujin-app/src/lib.rs:1937-1947 reports the difference as a change |
| `ConsolidationKeepsChoices` | Consolidation | The choice of the collection that is merged becomes one by priority when only that side has one (doujin-storage/src/consolidation.rs:570-601), and a later answer may replace it. docs/bdd/proposed/13-tombstone-consolidation.feature with 10-metadata-assertion-decisions.feature: choices of the user are carried over and not replaced |
| `MergesKeepViews` | Consolidation | A merge to a name that an earlier merge made an alias goes to the entity of that alias (doujin-storage/src/vocabulary.rs:910-937), whose name the collections then show, while saved views are rewritten to the name that was asked for and list the collections no more. The preview of the merge counts the views as rewritten |
| `RefusedStayApart` | Consolidation | Names the user kept apart come back in one group by way of a third one (`candidate_components`, vocabulary.rs:708-739). docs/bdd/proposed/04-metadata-confidence-and-canonical.feature:111-116 |
| `HealthyServiceIsListed` | ServiceLaunch | A launcher that gets no answer in time removes the claim of a service that runs (doujin-launcher/src/lib.rs:225); README.md:125 says that a healthy service is used again |
| `NothingToTidyUp` | ServiceLaunch | The desktop gives up waiting while its service goes on to serve, and exits without a Drop; doujin-desktop/src/main.rs:358 says there is nothing to tidy up |
| `CompletedIsCurrent` | Migration | Sidecars are looked for once (doujin-migrate/src/lib.rs:247), the second hash is of the main file alone (lines 1250-1255): what the legacy program commits to its WAL in between is not carried over, and the report says completed with an unchanged source. docs/references/sqlite-storage-evaluation.md:129: sidecars are refused so that what is not checkpointed is not overlooked |
| `PassedAuditIsCurrent` | Migration | The same of the path audit (path_audit.rs:97, 154-157): it passes for a catalog the service has committed to meanwhile. path_audit.rs:395: a catalog with sidecars is no copy at rest |
| `CompletedTargetStays` | Migration | A second run that found no target, and fails, removes the target a first one has completed in between (doujin-migrate/src/lib.rs:317); README.md:169 says that an existing target is refused |

Seen while reading, without a property: more than 25 hits cut the listing
(doujin-provider-ehentai/src/lib.rs:386) before the exact title is looked for, against
docs/bdd/proposed/14-ehentai-gallery-provider.feature:36; a blank page and the one of the sad
panda are read as a listing without works (lib.rs:253-261), hence as "no match"; the rename
preview does not look whether the root is switched off, and the move preview does not
mark two items of one name; the top lists of the statistics group by exact spelling while
the filters they lead to ignore case; an id of a deleted saved view is given to the next
one, which a composition read before then names.

## 5. Theorems

Every safety property of a run is a theorem: the run shows it on a small instance, the
theorem for all values of the constants. The assumptions used are stated beside the
constants: natural bounds, `Null` or `Nil` is none of the data, roots are of one kind, finite
sets where the code counts (works, names, roots, rows of a legacy catalog), a root above one that is above
a third is above that one too, a decoded name is
not encoded, is of the same root, and every spelling of an encoded name is encoded, a file of which an image can be made for a cover can be told
apart for it, no two collections have one path at first, ids of legacy rows are their own. No bound
is used as a number: counters are bounded so that TLC ends, the proofs hold for any bound.

* **FileOperationsProofs.** `TypeCorrect`: `TypeInv` adds `JournalShape` to `TypeOK` - exactly the
  relocations have a target, and the process and its queue only hold ids of rows that
  exist. Without it a step on an unused row could not be shown to keep the types.
  `CurrentPathsNeverClash`, `StatusFollowsLocation`: `CurrentInv` is the conjunction of both
  and inductive on top of `TypeInv`; only the writers of the catalog matter
  (`CatalogWriters`), and each retires a location before or instead of adding one
  (`LocationRetired`). `JournalStaysReadable`: a permanent deletion clears the collection of
  every row that names it; `PendingApart` says that without overlap the pending rows belong
  to different collections. `BytesSurvive`: that the source may be removed has to be known from
  earlier steps; `CopyFaithful` says at each phase which of source, copy and target hold the
  same bytes, unless the user handled both. `CatalogTellsTheTruth`, `JournalTellsTheTruth`:
  `FilesInv` adds that rows refer to rows that exist (`References`), that the running row is
  the newest and starts at the current place of its collection (`LiveRow`), and that pending
  rows that meet are known as overlapping or contested (`Rivals`). On top of it, `ClaimsOf(c)` speaks of
  a collection nobody disturbed: with nothing pending it is `Settled` (its file is where it is
  listed, or in the recycle bin), with a row pending it is `UnderWay` (source and target hold
  its file or nothing, and what the phase says). Another collection's steps change files only
  at its own source and target, and the uniqueness of locations keeps these apart.
  `OnePassIsEnough`: a collection with one pending row stands at its source (`SourceStands`), and
  a visited row that is still pending was and stays undecidable (`Visited`). This proof
  corrected the property: without its hypothesis on overlap, a later row of one collection can make an
  earlier row of another decidable after its visit. `ShelfPromiseKept` is step by step:
  each action is one of LibraryShelf under the refinement mapping of
  FileOperationsRefinement, or a stutter.
* **MetadataProofs.** `MetadataTypes`, `UserChoiceStands`, `ShelfIsCurrent`: `MetadataInv` is the types
  (`SelectionValid`: what is selected is an assertion), the two properties, and that without a
  merge nothing has an alias or an entity (`Unmerged`). Most actions are shown to be a step on the values of one
  collection (`ValueOf`), and assertions never lose or change what they say (`RowsGrow`); a merge of names
  (`Governed`) and a consolidation touch several collections and have lemmas of their own.
  `FirstMergeTakesViewsAlong` follows from `Unmerged`. `PreviewedItemsSucceed`,
  `PathsAreAsked`: `BatchInv` says that no path is that of two collections (`PlacesApart`), that what
  is fresh is what a preview of now would show (`FreshIsShown`), that the rest of a promised
  batch is `Doable` item by item and has no two items for one destination (`PromiseKept`), and
  that what is to be done was shown. `BatchTypes` is the part of it that says what files, items and
  outcomes are.
* **ExternalSearchProofs.** `OneSearchAtATime`, `AnswersStayWithTheWork`: `SearchInv` adds that rows of
  deleted collections are gone with what was stored for them (`NothingLeftBehind`), that an
  id in use stands for a work (`WorksKnown`), and the heart of it, `InHand`: if the row the
  worker has in hand is running, it is still about the work it asked for. A row with a
  reused id cannot be running, because only the worker itself claims rows.
  `ShutdownLeavesNothing`: without errors a running row is the one in the worker's hands, and a
  worker that has been joined holds none.
* **ExportProofs.** `ExportTypesCorrect`, `WritersExclude`: `TypeInv` adds `ThreadsFit` - a thread past
  its start belongs to a running job, at most one job runs, and from the opening of the
  partial file on that file is the thread's own. `PackagesAreWhole`: `ContentsInv` says what
  is known before the publication - every entry is the previewed version or comes from a
  raced copy (`PartialsGood`, `PackagesGood`), and what a thread has checked is still so or
  raced (`Knows`). `FailuresLeaveNothing`: `TidyInv` says who still owns a partial file or a
  package: a thread that is on its way to remove it, or a job that is stranded.
* **DuplicateProofs.** `DuplicateTypesCorrect`, `FingerprintsAreOwn`: `OwnInv` says that files and
  contents in use are known to the collection that has or had them, that a collection which
  is gone has no rows, that only jobs that were made have items, and that what a worker has in hand is of such a file
  whenever its row is running (`HandsSound`). Ids come back, but rows of items go with their
  collection and a job makes its items once; what is written is new each time.
  `PairsHideAsJudged`: judgements are by fingerprints, those of a list a person loaded, so that what is hidden was in view.
* **LaunchProofs.** `LaunchTypesCorrect`, `EndingKeepsClaims`: `LaunchInv` is the types, what a command
  knows when it comes to a step (`Knows`), one holder of the service lock (`OneHolder`), and
  that a claim names a service that came to serve (`ClaimServed`). The service that ends
  still holds the lock, so a claim that runs can only be its own. `StopsStrikeTheirOwn`: `StopInv`
  adds that processes which run have pids of their own (`PidsApart`), and that claims and
  what commands found in them name a service by the pid it really has (`ClaimNames`,
  `FoundNames`); a service that has just answered runs, hence its pid is no other's.
  `MigrationIsWhole`, `SnapshotsStayApart`, `AuditsAreTrue` are about Migration, where the first
  catalog comes from: `MigrationInv` says that what a run has read is the
  state it hashed as long as the main file holds that state (`Reads`), that the target of a run
  that was alone holds what it made of that (`Fills`), that runs have ended when the target is
  in use, that without sidecars the main file holds what is committed, and what an audit knows
  of the catalog it has read if the main file has its version still (`HasSeen`).
  `PreparedCarries` is the heart: a catalog without issue or conflict loses nothing by
  `prepare_legacy`, and each row lands under the innermost root (`OwnerIs`). `MigrationTypesCorrect`: `MigrationTypesInv`
  adds the types of the disk, the catalog in use and the audit, and that what is carried over is
  of a known kind (`KindsCarried`).
* **ScanProofs.** `OnlyMissingAreMarked`: `ScanInv` says that a root is still to be read, is known
  to be unsafe with all above it, was changed during this scan or one above it was, or can be read (`Behind`), that the walk
  lists for a root what lies in its folder (`Filed`), that collections the
  scan has still to look at are active, and that what is to be marked is filed under a root that is
  not unsafe (`Aimed`). `PreviewIsTrue`: beside the state stands a snapshot `w` of access, disk and
  catalog when the scan began; the promise of the preview is a function of it (`Foreseen`).
  `Follows(w)` says of each stage what it has made of `w` so far: of the walk which
  names were moved, how many of each kind were counted and what is to be ingested, of the ingest the rows that came,
  of the reconciliation what is marked and what is left. Counts agree because what is walked is finite, a path is on the disk in one spelling (`Alone`), and what a new file becomes
  is one to one, unless two roots list a new file, the catalog has it in another spelling (`ambiguous`), or two encoded names mean the same (`OneName`). At the end only the number
  of links may differ, when earlier tombstones were there or a name was kept on purpose (`Concluded`).
  `ScanTypesCorrect`: what is walked and what is listed is finite, so that what a scan or a
  preview counts is a natural number (`TypesInv`).
* **LookupProofs.** `TitlesDecideNothing`, `TroubleStays`: `LookupInv` relates step, `found` and the answers of
  both providers. `LookupAssumption` says that works are finitely many and
  requests of the form the worker makes. `LookupTypes`, `SessionTypes`, `ThumbnailTypes` are the
  types of the three parts, inductive with the invariants named here. `SessionStands`: until two writes cross there is one writer,
  and the store lags behind the catalog only between its two steps (`StoreIsBehind`); `TaskOK`
  says what a request knows at each of its steps. `HomeCanBeWrittenBack`: the rows of the home
  page keep each built-in shelf, none twice, and no view that is gone (`RowsOK`).
  `NumbersAndPagesAgree`: orders are linear, so that the rank of a work is a bijection
  onto the places of the list; the sets a facet and its link count are the same, and tagged and untagged works are all.
  `ReadyImagesAreTrue`, `OnlyBadFilesAreGivenUp`: `ThumbnailInv` says of a collection whose
  row was not queued again in a worker's hands that one worker at most has it, that the row is
  then running, and that what the worker holds, like a ready image, `Fits` the look of the row or
  the file has been outrun by a newer one (`Faithful`). Each step leaves a
  collection `Untouched`, makes its row anew (`Reset`), or is a step of the worker who has it.

Only model-checked: liveness (`NoStarvation`, `ClaimsEnd`, `ExportsEnd`, `CacheJobsEnd`, `JobsEnd`,
`ScansConclude`, `CommandsEnd`), which is out of the prover's reach, as is ENABLED. One type
is not a theorem: ExternalSearchJobs' `TypeOK` says of the queue of due rows, which is
sorted and filtered with `SelectSeq`, that it is a sequence of ids, and the prover knows
nothing of `SelectSeq`. The theorems about the searches rest on the types of rows and worker (`RowsOK`).

## 6. Not modelled, and why

* The filename parser is a pure function of text, a grammar character by character; an
  abstraction of it would say nothing it does not assume. LibraryScan takes what an encoded
  name decodes to, CollectionMetadata what a name yields, as given.
* The frontend is a client of the HTTP interface; what it may send late or twice is left to
  choice in the modules of the service.
* Full-text search, layout and previews of shelves, the top lists of the statistics, the list of
  cover candidates, the reader: reads whose answers nothing else depends on.
* The pages of the providers are taken for what they say, not parsed; the pause between two
  requests is a length of time.
* Adding a library root or an export root, routing, static files.
* A panic under the mutex poisons it; every request and worker then ends with an error until
  the next start. No step of the models panics.
* Numbers of attempts and lengths of delays.

What could follow: Consolidation over the tables of FileOperations, so that a recovery
completes an operation for the survivor.
