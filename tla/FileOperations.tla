--------------------------- MODULE FileOperations ---------------------------
(***************************************************************************)
(* Moves, renames and deletions of the ZIP files of the library, with the  *)
(* journal (table file_operations) that lets them survive a crash.         *)
(*                                                                         *)
(* One request runs at a time: every HTTP handler and worker holds the     *)
(* mutex around ApplicationService, so a process phase is enough and no    *)
(* two requests interleave.  What does interleave with the steps of a      *)
(* request is a crash, an error of the file system or of SQLite, and the   *)
(* user, who handles the same files with other programs.                   *)
(*                                                                         *)
(* Abstractions.  A path is a root and a file name (one folder per root); a *)
(* file's bytes are one value of Contents; roots keep their kind and path. *)
(* Image folders, which every operation refuses, are left out.  A batch is *)
(* a sequence of single operations.                                        *)
(***************************************************************************)
EXTENDS Naturals

CONSTANTS
  Downloads,       \* library roots of kind downloads
  Archives,        \* library roots of kind archive
  Names,           \* file names
  Contents,        \* the bytes a file may hold
  InitialFiles,    \* [Paths -> Contents \cup {Null}]: the disk before the first scan
  Switchable,      \* the roots that are deactivated and reactivated (bounds a run)
  Holdable,        \* the collections that get into a batch or an export (bounds a run)
  Null,            \* SQL NULL, and the absence of a file
  MaxCollections, MaxLocations, MaxOperations,   \* bounds on the row ids
  MaxUserSteps     \* bound on the steps of the user outside the program

Roots == Downloads \cup Archives
Paths == Roots \X Names
Root(p) == p[1]
Name(p) == p[2]

Collections == 1 .. MaxCollections
Locations   == 1 .. MaxLocations
Operations  == 1 .. MaxOperations

ASSUME RootKindsAssumption == Downloads \cap Archives = {} /\ Switchable \subseteq Roots
ASSUME BoundsAssumption ==
  /\ MaxCollections \in Nat
  /\ MaxLocations \in Nat
  /\ MaxOperations \in Nat
  /\ MaxUserSteps \in Nat
ASSUME NullAssumption == Null \notin Contents \cup Paths \cup Nat
ASSUME InitialFilesAssumption == InitialFiles \in [Paths -> Contents \cup {Null}]

-----------------------------------------------------------------------------
VARIABLES
  \* the disk
  fs,          \* the content at each path, Null where there is no file
  partial,     \* the content of the .partial copy of the running move, or Null
  recycled,    \* contents in the recycle bin of the operating system
  \* the catalog (SQLite, every action one transaction)
  activeRoots, \* library_roots.active
  collection,  \* collections.status by id
  location,    \* collection_locations by id
  operation,   \* file_operations by id
  held,        \* collections that rows of other tables do not let go of
  \* the process
  mode,        \* what the service is doing
  phase,       \* how far the running file operation has come
  running,     \* the id of the running file operation, or Null
  queue,       \* ids that recover_pending read and has not yet visited
  \* observations, read by no guard except the bound on userSteps
  outside,     \* contents the user took out of the library
  erased,      \* contents a permanent deletion removed
  touched,     \* contents and paths the user handled outside the program
  book,        \* the content each collection was ingested with
  overlapped,  \* collections that got an operation while another one was pending
  contested,   \* collections whose pending operation leads where a later one leads
  disturbed,   \* a storage error or the user got between the steps of the recovery
  userSteps    \* number of user steps so far

disk    == <<fs, partial, recycled>>
catalog == <<activeRoots, collection, location, operation, held>>
process == <<mode, phase, running, queue>>
user    == <<outside, touched, userSteps>>
history == <<erased, book, overlapped, contested>>
vars    == <<disk, catalog, process, user, history, disturbed>>

-----------------------------------------------------------------------------
Kinds == {"rename", "move", "soft_delete", "hard_delete"}
Relocations == {"rename", "move"}

Unused == [status |-> "unused"]

LocationRow == [collection : Collections, path : Paths,
                status : {"current", "missing", "moved", "deleted"}]

OperationRow == [collection : Collections \cup {Null},
                 from_location : Locations \cup {Null},
                 kind : Kinds, from : Paths, to : Paths \cup {Null},
                 status : {"pending", "succeeded", "failed"}]

TypeOK ==
  /\ fs \in [Paths -> Contents \cup {Null}]
  /\ partial \in Contents \cup {Null}
  /\ recycled \subseteq Contents
  /\ activeRoots \subseteq Roots
  /\ collection \in [Collections -> {"unused", "active", "tombstone", "soft_deleted"}]
  /\ location \in [Locations -> LocationRow \cup {Unused}]
  /\ operation \in [Operations -> OperationRow \cup {Unused}]
  /\ held \subseteq Collections
  /\ mode \in {"serving", "recovering", "down", "refused"}
  /\ phase \in {"idle", "begun", "copied", "published", "linked",
                "applied", "failed", "failing"}
  /\ running \in Operations \cup {Null}
  /\ queue \subseteq Operations
  /\ outside \subseteq Contents
  /\ erased \subseteq Contents
  /\ touched \subseteq Contents \cup Paths
  /\ book \in [Collections -> Contents \cup {Null}]
  /\ overlapped \subseteq Collections
  /\ contested \subseteq Collections
  /\ disturbed \in BOOLEAN
  /\ userSteps \in 0 .. MaxUserSteps

-----------------------------------------------------------------------------
(* Reading the tables.                                                     *)

Exists(p) == fs[p] # Null

IsCurrent(l) == location[l].status = "current"
CurrentFor(l, c) == IsCurrent(l) /\ location[l].collection = c
IndexedAt(p, c) == \E l \in Locations : CurrentFor(l, c) /\ location[l].path = p

IsPending(o) == operation[o].status = "pending"
PendingOperations == {o \in Operations : IsPending(o)}

(* INTEGER PRIMARY KEY without AUTOINCREMENT: one more than the largest id  *)
(* in the table, so that deleting the newest row frees its id.              *)
NextId(i, used) ==
  /\ \A j \in used : j < i
  /\ i = 1 \/ i - 1 \in used

UsedCollections == {c \in Collections : collection[c] # "unused"}
UsedLocations   == {l \in Locations : location[l] # Unused}
UsedOperations  == {o \in Operations : operation[o] # Unused}

-----------------------------------------------------------------------------
Init ==
  /\ fs = InitialFiles
  /\ partial = Null
  /\ recycled = {}
  /\ activeRoots = Roots
  /\ collection = [c \in Collections |-> "unused"]
  /\ location = [l \in Locations |-> Unused]
  /\ operation = [o \in Operations |-> Unused]
  /\ held = {}
  /\ mode = "serving"
  /\ phase = "idle"
  /\ running = Null
  /\ queue = {}
  /\ outside = {}
  /\ erased = {}
  /\ touched = {}
  /\ book = [c \in Collections |-> Null]
  /\ overlapped = {}
  /\ contested = {}
  /\ disturbed = FALSE
  /\ userSteps = 0

Serving == mode = "serving" /\ phase = "idle"

-----------------------------------------------------------------------------
(* Requests.  Each begins by writing its pending row.                       *)

(* current_location_for_operation *)
Operable(c, l) ==
  /\ collection[c] = "active"
  /\ CurrentFor(l, c)
  /\ Root(location[l].path) \in activeRoots
  /\ Exists(location[l].path)

Record(c, l, kind, to) ==
  \E o \in Operations :
    /\ NextId(o, UsedOperations)
    /\ operation' = [operation EXCEPT ![o] =
         [collection |-> c, from_location |-> l, kind |-> kind,
          from |-> location[l].path, to |-> to, status |-> "pending"]]
    /\ running' = o
    /\ phase' = "begun"
    /\ overlapped' = IF \E other \in PendingOperations : operation[other].collection = c
                       THEN overlapped \cup {c} ELSE overlapped
    /\ contested' = contested \cup {d \in Collections :
         to # Null /\ \E other \in PendingOperations :
                          operation[other].to = to /\ operation[other].collection = d}

BeginMove(c, r) ==
  /\ Serving
  /\ \E l \in Locations :
       LET to == <<r, Name(location[l].path)>> IN
       /\ Operable(c, l)
       /\ Root(location[l].path) \in Downloads
       /\ r \in activeRoots
       /\ ~Exists(to)
       /\ \A d \in Collections : ~IndexedAt(to, d)
       /\ Record(c, l, "move", to)
  /\ UNCHANGED <<disk, activeRoots, held, collection, location, mode, queue, user, erased,
                 book, disturbed>>

BeginRename(c, n) ==
  /\ Serving
  /\ \E l \in Locations :
       LET to == <<Root(location[l].path), n>> IN
       /\ Operable(c, l)
       /\ ~Exists(to)
       /\ \A d \in Collections \ {c} : ~IndexedAt(to, d)
       /\ Record(c, l, "rename", to)
  /\ UNCHANGED <<disk, activeRoots, held, collection, location, mode, queue, user, erased,
                 book, disturbed>>

BeginDelete(c, kind) ==
  /\ Serving
  /\ \E l \in Locations : Operable(c, l) /\ Record(c, l, kind, Null)
  /\ UNCHANGED <<disk, activeRoots, held, collection, location, mode, queue, user, erased,
                 book, disturbed>>

-----------------------------------------------------------------------------
(* The file system steps of a relocation: a hard link that refuses to       *)
(* overwrite, or a verified copy that is published by such a link, and then *)
(* the removal of the source.                                               *)

Op   == operation[running]
At(ph) == running # Null /\ phase = ph
Goto(ph) == phase' = ph /\ UNCHANGED <<mode, running, queue>>

HardLink ==
  /\ At("begun")
  /\ Op.kind \in Relocations
  /\ Exists(Op.from)
  /\ ~Exists(Op.to)
  /\ fs' = [fs EXCEPT ![Op.to] = fs[Op.from]]
  /\ Goto("linked")
  /\ UNCHANGED <<partial, recycled, catalog, user, history, disturbed>>

(* Mutant of CopyToPartial: the source may go before the copy is published. *)
CopyWithoutPublishing ==
  /\ At("begun")
  /\ Op.kind \in Relocations
  /\ Exists(Op.from)
  /\ ~Exists(Op.to)
  /\ partial' = fs[Op.from]
  /\ Goto("linked")
  /\ UNCHANGED <<fs, recycled, catalog, user, history, disturbed>>

(* the volumes differ: copy, sync, compare size and digest *)
CopyToPartial ==
  /\ At("begun")
  /\ Op.kind \in Relocations
  /\ Exists(Op.from)
  /\ ~Exists(Op.to)
  /\ partial' = fs[Op.from]
  /\ Goto("copied")
  /\ UNCHANGED <<fs, recycled, catalog, user, history, disturbed>>

PublishPartial ==
  /\ At("copied")
  /\ ~Exists(Op.to)
  /\ fs' = [fs EXCEPT ![Op.to] = partial]
  /\ Goto("published")
  /\ UNCHANGED <<partial, recycled, catalog, user, history, disturbed>>

RemovePartial ==
  /\ At("published")
  /\ partial' = Null
  /\ Goto("linked")
  /\ UNCHANGED <<fs, recycled, catalog, user, history, disturbed>>

RemoveSource ==
  /\ At("linked")
  /\ Exists(Op.from)
  /\ fs' = [fs EXCEPT ![Op.from] = Null]
  /\ Goto("applied")
  /\ UNCHANGED <<partial, recycled, catalog, user, history, disturbed>>

(* the source cannot be removed: take the new file back *)
RollBack ==
  /\ At("linked")
  /\ Exists(Op.to)
  /\ fs' = [fs EXCEPT ![Op.to] = Null]
  /\ Goto("failed")
  /\ UNCHANGED <<partial, recycled, catalog, user, history, disturbed>>

RollBackFails ==
  /\ At("linked")
  /\ Goto("failed")
  /\ UNCHANGED <<disk, catalog, user, history, disturbed>>

(* The file system steps of a deletion. *)
Recycle ==
  /\ At("begun")
  /\ Op.kind = "soft_delete"
  /\ Exists(Op.from)
  /\ recycled' = recycled \cup {fs[Op.from]}
  /\ fs' = [fs EXCEPT ![Op.from] = Null]
  /\ Goto("applied")
  /\ UNCHANGED <<partial, catalog, user, history, disturbed>>

Erase ==
  /\ At("begun")
  /\ Op.kind = "hard_delete"
  /\ Exists(Op.from)
  /\ erased' = erased \cup {fs[Op.from]}
  /\ fs' = [fs EXCEPT ![Op.from] = Null]
  /\ Goto("applied")
  /\ UNCHANGED <<partial, recycled, catalog, user, book, overlapped, contested,
                 disturbed>>

(* An earlier step fails: the source is gone, the target is taken, or I/O;  *)
(* the guard of the partial file removes it.                                *)
FileStepFails ==
  /\ At("begun") \/ At("copied") \/ At("published")
  /\ partial' = Null
  /\ Goto("failed")
  /\ UNCHANGED <<fs, recycled, catalog, user, history, disturbed>>

-----------------------------------------------------------------------------
(* The end of an operation, live or recovered.                              *)

Stop == phase' = "idle" /\ running' = Null /\ UNCHANGED <<mode, queue>>
Settle(o, result) == operation' = [operation EXCEPT ![o].status = result]

(* handle_filesystem_failure: with the source in place and nothing at the   *)
(* target the operation certainly did not happen.                           *)
TargetTaken == Op.to # Null /\ Exists(Op.to)

(* Mutant of FailureIsCertain: looks at the source only. *)
FailureIsCertainBySource ==
  /\ At("failed")
  /\ Exists(Op.from)
  /\ Goto("failing")
  /\ UNCHANGED <<disk, catalog, user, history, disturbed>>

FailureIsCertain ==
  /\ At("failed")
  /\ Exists(Op.from) /\ ~TargetTaken
  /\ Goto("failing")
  /\ UNCHANGED <<disk, catalog, user, history, disturbed>>

FailureIsAmbiguous ==
  /\ At("failed")
  /\ ~Exists(Op.from) \/ TargetTaken
  /\ Stop
  /\ UNCHANGED <<disk, catalog, user, history, disturbed>>

(* fail_file_operation *)
RecordFailure ==
  /\ At("failing")
  /\ IsPending(running)
  /\ Settle(running, "failed")
  /\ Stop
  /\ UNCHANGED <<disk, activeRoots, held, collection, location, user, history, disturbed>>

(* Mutants of RelocationAllowed: what a scan wrote in the meantime at the   *)
(* target, or about the source, is not looked at.                           *)
RelocationAllowedUnchecked(o) ==
  LET row == operation[o] IN
  /\ row.collection # Null /\ row.from_location # Null
  /\ ~Exists(row.from)
  /\ Exists(row.to)
  /\ row.kind = "move" => Root(row.to) \in activeRoots
  /\ CurrentFor(row.from_location, row.collection)

RelocationAllowedFromAnywhere(o) ==
  LET row == operation[o] IN
  /\ row.collection # Null /\ row.from_location # Null
  /\ ~Exists(row.from)
  /\ Exists(row.to)
  /\ row.kind = "move" => Root(row.to) \in activeRoots
  /\ \A d \in Collections \ {row.collection} : ~IndexedAt(row.to, d)

(* complete_pending_move and complete_pending_rename up to the changes.  A  *)
(* stored archive root decides for a move; a rename never leaves its root.  *)
RelocationAllowed(o) ==
  LET row == operation[o] IN
  /\ row.collection # Null /\ row.from_location # Null
  /\ ~Exists(row.from)
  /\ Exists(row.to)
  /\ row.kind = "move" => Root(row.to) \in activeRoots
  /\ \A d \in Collections \ {row.collection} : ~IndexedAt(row.to, d)
  /\ CurrentFor(row.from_location, row.collection)

CompleteRelocation ==
  /\ At("applied")
  /\ IsPending(running) /\ Op.kind \in Relocations
  /\ RelocationAllowed(running)
  /\ \E l \in Locations :
       /\ NextId(l, UsedLocations)
       /\ location' = [location EXCEPT
            ![Op.from_location].status = "moved",
            ![l] = [collection |-> Op.collection, path |-> Op.to, status |-> "current"]]
  /\ collection' = IF Op.kind = "move"
                     THEN [collection EXCEPT ![Op.collection] = "active"]
                     ELSE collection
  /\ Settle(running, "succeeded")
  /\ Stop
  /\ UNCHANGED <<disk, activeRoots, held, user, history, disturbed>>

SoftDeletionAllowed(o) ==
  LET row == operation[o] IN
  /\ row.collection # Null /\ row.from_location # Null
  /\ ~Exists(row.from)
  /\ CurrentFor(row.from_location, row.collection)

CompleteSoftDelete ==
  /\ At("applied")
  /\ IsPending(running) /\ Op.kind = "soft_delete"
  /\ SoftDeletionAllowed(running)
  /\ location' = [location EXCEPT ![Op.from_location].status = "deleted"]
  /\ collection' = [collection EXCEPT ![Op.collection] = "soft_deleted"]
  /\ Settle(running, "succeeded")
  /\ Stop
  /\ UNCHANGED <<disk, activeRoots, held, user, history, disturbed>>

HardDeletionAllowed(o) ==
  LET row == operation[o] IN
  /\ row.collection # Null /\ row.from_location # Null
  /\ ~Exists(row.from)
  /\ row.collection \notin held

(* DELETE FROM collections: the locations go with the row (CASCADE), and    *)
(* the journal forgets which rows it spoke of (SET NULL).                   *)
Gone(l, c) == location[l] # Unused /\ location[l].collection = c

(* Mutant of JournalWithout: the operation that is done stays pending. *)
JournalWithoutOutcome(c, done) ==
  [o \in Operations |->
     IF operation[o] = Unused THEN Unused ELSE
     [operation[o] EXCEPT
        !.collection = IF @ = c THEN Null ELSE @,
        !.from_location = IF @ # Null /\ Gone(@, c) THEN Null ELSE @]]

JournalWithout(c, done) ==
  [o \in Operations |->
     IF operation[o] = Unused THEN Unused ELSE
     [operation[o] EXCEPT
        !.collection = IF @ = c THEN Null ELSE @,
        !.from_location = IF @ # Null /\ Gone(@, c) THEN Null ELSE @,
        !.status = IF o = done THEN "succeeded" ELSE @]]

CompleteHardDelete ==
  /\ At("applied")
  /\ IsPending(running) /\ Op.kind = "hard_delete"
  /\ HardDeletionAllowed(running)
  /\ LET c == Op.collection IN
     /\ collection' = [collection EXCEPT ![c] = "unused"]
     /\ location' = [l \in Locations |-> IF Gone(l, c) THEN Unused ELSE location[l]]
     /\ operation' = JournalWithout(c, running)
     /\ book' = [book EXCEPT ![c] = Null]
  /\ Stop
  /\ UNCHANGED <<disk, activeRoots, held, user, erased, overlapped, contested,
                 disturbed>>

CompletionAllowed(o) ==
  \/ operation[o].kind \in Relocations /\ RelocationAllowed(o)
  \/ operation[o].kind = "soft_delete" /\ SoftDeletionAllowed(o)
  \/ operation[o].kind = "hard_delete" /\ HardDeletionAllowed(o)

(* a check of complete_file_operation refuses: the row stays pending *)
CompletionRefused ==
  /\ At("applied")
  /\ ~CompletionAllowed(running)
  /\ Stop
  /\ UNCHANGED <<disk, catalog, user, history, disturbed>>

(* SQLite returns an error while the outcome is recorded: likewise *)
StorageError ==
  /\ At("applied") \/ At("failing")
  /\ Stop
  /\ disturbed' = TRUE
  /\ UNCHANGED <<disk, catalog, user, history>>

-----------------------------------------------------------------------------
(* Crash, restart and the recovery of the journal.                          *)

Crash ==
  /\ mode \in {"serving", "recovering"}
  /\ mode' = "down"
  /\ phase' = "idle" /\ running' = Null /\ queue' = {}
  /\ partial' = Null          \* the copy stays behind, but nothing reads it again
  /\ UNCHANGED <<fs, recycled, catalog, user, history, disturbed>>

(* pending_file_operations fails as a whole on a row without a collection *)
JournalReadable == \A o \in PendingOperations : operation[o].collection # Null

(* Mutant of Restart: only reads the relocations back. *)
RestartWithoutDeletions ==
  /\ mode \in {"down", "refused"}
  /\ JournalReadable
  /\ mode' = "recovering"
  /\ queue' = {o \in PendingOperations : operation[o].kind \in Relocations}
  /\ disturbed' = FALSE
  /\ UNCHANGED <<disk, catalog, phase, running, user, history>>

Restart ==
  /\ mode \in {"down", "refused"}
  /\ JournalReadable
  /\ mode' = "recovering"
  /\ queue' = PendingOperations
  /\ disturbed' = FALSE
  /\ UNCHANGED <<disk, catalog, phase, running, user, history>>

RestartRefused ==
  /\ mode \in {"down", "refused"}
  /\ ~JournalReadable
  /\ mode' = "refused"
  /\ UNCHANGED <<disk, catalog, phase, running, queue, user, history, disturbed>>

(* recover_one, in the order of the ids: what the two paths show decides.   *)
NextInQueue(o) == o \in queue /\ \A other \in queue : o <= other

TargetOf(o) == operation[o].to # Null /\ Exists(operation[o].to)
LooksApplied(o) ==
  /\ ~Exists(operation[o].from)
  /\ operation[o].kind \in Relocations => TargetOf(o)
(* Mutant of LooksUnapplied: looks at the target only. *)
LooksUnappliedByTarget(o) == operation[o].kind \in Relocations => ~TargetOf(o)
LooksUnapplied(o) ==
  /\ Exists(operation[o].from)
  /\ operation[o].kind \in Relocations => ~TargetOf(o)

Visit(o, ph) ==
  /\ mode = "recovering" /\ phase = "idle"
  /\ NextInQueue(o)
  /\ queue' = queue \ {o}
  /\ phase' = ph
  /\ running' = IF ph = "idle" THEN Null ELSE o
  /\ UNCHANGED <<disk, catalog, mode, user, history, disturbed>>

RecoverApplied(o)   == Visit(o, "applied") /\ LooksApplied(o)
RecoverUnapplied(o) == Visit(o, "failing") /\ LooksUnapplied(o)
RecoverAmbiguous(o) == Visit(o, "idle") /\ ~LooksApplied(o) /\ ~LooksUnapplied(o)

FinishRecovery ==
  /\ mode = "recovering" /\ phase = "idle" /\ queue = {}
  /\ mode' = "serving"
  /\ UNCHANGED <<disk, catalog, phase, running, queue, user, history, disturbed>>

-----------------------------------------------------------------------------
(* The other writers of the same tables: the library scan, of which only    *)
(* the two transactions on locations matter here, and the root settings.    *)

(* ingest_one *)
ScanIngests(p) ==
  /\ Serving
  /\ Root(p) \in activeRoots
  /\ Exists(p)
  /\ \A c \in Collections : ~IndexedAt(p, c)
  /\ \E c \in Collections, l \in Locations :
       /\ NextId(c, UsedCollections)
       /\ NextId(l, UsedLocations)
       /\ collection' = [collection EXCEPT ![c] = "active"]
       /\ location' = [location EXCEPT
            ![l] = [collection |-> c, path |-> p, status |-> "current"]]
       /\ book' = [book EXCEPT ![c] = fs[p]]
  /\ UNCHANGED <<disk, activeRoots, held, operation, process, user, erased, overlapped,
                 contested, disturbed>>

(* mark_collection_missing *)
ScanMarksMissing(c) ==
  /\ Serving
  /\ collection[c] = "active"
  /\ \E l \in Locations :
       /\ CurrentFor(l, c)
       /\ Root(location[l].path) \in activeRoots
       /\ ~Exists(location[l].path)
       /\ location' = [location EXCEPT ![l].status = "missing"]
  /\ collection' = [collection EXCEPT ![c] = "tombstone"]
  /\ UNCHANGED <<disk, activeRoots, held, operation, process, user, history, disturbed>>

(* deactivate_library_root, reactivate_library_root *)
SetRootActive(r, on) ==
  /\ Serving
  /\ activeRoots' = IF on THEN activeRoots \cup {r} ELSE activeRoots \ {r}
  /\ UNCHANGED <<disk, collection, location, operation, held, process, user, history,
                 disturbed>>

(* The foreign keys that refuse DELETE FROM collections: an export item      *)
(* restricts it, and so does an item of an external search batch, whose     *)
(* CHECK does not allow the SET NULL that follows the deletion of its job.  *)
OtherTableHolds(c) ==
  /\ Serving
  /\ collection[c] = "active"
  /\ held' = held \cup {c}
  /\ UNCHANGED <<disk, activeRoots, collection, location, operation, process, user, history,
                 disturbed>>

-----------------------------------------------------------------------------
(* The user handles the files with other programs, at any moment.           *)

UserStep(things) ==
  /\ userSteps < MaxUserSteps
  /\ userSteps' = userSteps + 1
  /\ touched' = touched \cup things
  /\ disturbed' = TRUE
  /\ UNCHANGED <<partial, catalog, process, history>>

UserMoves(p, q) ==
  /\ Exists(p) /\ ~Exists(q)
  /\ fs' = [fs EXCEPT ![p] = Null, ![q] = fs[p]]
  /\ UserStep({fs[p], p, q})
  /\ UNCHANGED <<recycled, outside>>

UserTakes(p) ==
  /\ Exists(p)
  /\ fs' = [fs EXCEPT ![p] = Null]
  /\ outside' = outside \cup {fs[p]}
  /\ UserStep({fs[p], p})
  /\ UNCHANGED recycled

(* puts back a file taken away earlier, or one from the recycle bin *)
UserReturns(x, p) ==
  /\ x \in outside \cup recycled
  /\ ~Exists(p)
  /\ fs' = [fs EXCEPT ![p] = x]
  /\ outside' = outside \ {x}
  /\ recycled' = recycled \ {x}
  /\ UserStep({x, p})

-----------------------------------------------------------------------------
Request ==
  \E c \in Collections :
    \/ \E r \in Archives : BeginMove(c, r)
    \/ \E n \in Names : BeginRename(c, n)
    \/ \E kind \in {"soft_delete", "hard_delete"} : BeginDelete(c, kind)

FileStep ==
  \/ HardLink \/ CopyToPartial \/ PublishPartial \/ RemovePartial
  \/ RemoveSource \/ RollBack \/ RollBackFails
  \/ Recycle \/ Erase \/ FileStepFails

Outcome ==
  \/ FailureIsCertain \/ FailureIsAmbiguous \/ RecordFailure
  \/ CompleteRelocation \/ CompleteSoftDelete \/ CompleteHardDelete
  \/ CompletionRefused \/ StorageError

Recovery ==
  \/ \E o \in Operations :
       RecoverApplied(o) \/ RecoverUnapplied(o) \/ RecoverAmbiguous(o)
  \/ FinishRecovery

OtherWriter ==
  \/ \E p \in Paths : ScanIngests(p)
  \/ \E c \in Collections : ScanMarksMissing(c)
  \/ \E c \in Holdable \cap Collections : OtherTableHolds(c)
  \/ \E r \in Switchable, on \in BOOLEAN : SetRootActive(r, on)

User ==
  \/ \E p, q \in Paths : UserMoves(p, q)
  \/ \E p \in Paths : UserTakes(p) \/ \E x \in Contents : UserReturns(x, p)

Next ==
  \/ Request \/ FileStep \/ Outcome
  \/ Crash \/ Restart \/ RestartRefused \/ Recovery
  \/ OtherWriter \/ User

Spec == Init /\ [][Next]_vars

-----------------------------------------------------------------------------
(* Properties                                                               *)

(* The service's own steps never destroy the bytes of a file nobody handled *)
(* outside the program, unless a permanent deletion was asked for them: not *)
(* by a crash between link and removal, not by a rollback, not by a copy.   *)
ContentSurvives ==
  \A x \in {InitialFiles[p] : p \in Paths} \ {Null} :
    \/ x \in touched \cup erased \cup recycled
    \/ \E p \in Paths : fs[p] = x

(* Nobody handled the file of c or a place of c outside the program, c      *)
(* never got an operation while an earlier one was still pending, and no    *)
(* later operation was sent to the target of a pending one of c: with three *)
(* collections the recovery would give c the file the later one brought.    *)
Untroubled(c) ==
  /\ c \notin overlapped \cup contested
  /\ book[c] \notin touched
  /\ \A l \in UsedLocations : location[l].collection = c => location[l].path \notin touched

(* When no operation of a collection is pending, the catalog tells where    *)
(* its file is, whatever crashed, failed or was recovered before.           *)
CatalogMatchesDisk ==
  \A c \in Collections :
    (/\ phase = "idle"
     /\ Untroubled(c)
     /\ \A o \in PendingOperations : operation[o].collection # c) =>
       /\ collection[c] = "active" =>
            \E l \in Locations : CurrentFor(l, c) /\ fs[location[l].path] = book[c]
       /\ collection[c] = "soft_deleted" => book[c] \in recycled

(* The outcome the journal records is what happened to the file, as long as *)
(* no other collection came to use the paths of the operation: a failure    *)
(* means it is still where it was, a success that it is where it was to go. *)
Undisputed(o) ==
  LET row    == operation[o]
      places == {row.from, row.to}
  IN
  /\ row.collection # Null /\ Untroubled(row.collection)
  /\ places \cap touched = {}
  /\ \A l \in UsedLocations :
       location[l].path \in places => location[l].collection = row.collection
  /\ \A other \in UsedOperations :
       operation[other].to \in places \ {Null} => operation[other].collection = row.collection

OutcomeIsTrue ==
  [][\A o \in PendingOperations :
       LET row == operation[o]
           x   == book[row.collection]
       IN
       Undisputed(o) =>
         /\ operation'[o].status = "failed" =>
              fs[row.from] = x /\ (row.to # Null => fs[row.to] = Null)
         /\ operation'[o].status = "succeeded" =>
              /\ fs[row.from] = Null
              /\ row.kind \in Relocations => fs[row.to] = x
              /\ row.kind = "soft_delete" => x \in recycled]_vars

(* Two collections never share a current path, and no collection has two:   *)
(* the checks before each INSERT make the unique indexes on                 *)
(* collection_locations impossible to hit, also when an operation recovered *)
(* late meets what a scan or a later request wrote in the meantime.         *)
CurrentLocationsUnique ==
  \A k, l \in Locations : IsCurrent(k) /\ IsCurrent(l) /\ k # l =>
    /\ location[k].path # location[l].path
    /\ location[k].collection # location[l].collection

(* A collection is active exactly as long as it has a current location.     *)
ActiveHasLocation ==
  \A c \in Collections :
    collection[c] = "active" <=> \E l \in Locations : CurrentFor(l, c)

(* When the recovery has visited every pending row once and neither SQLite  *)
(* nor the user got in between, no row is left that the recovery could have *)
(* decided: one pass in the order of the ids is enough.  With overlapping   *)
(* operations it is not: a row refused because another collection is        *)
(* indexed at its target can be free when a later row deletes that one.     *)
Decidable(o) ==
  \/ LooksUnapplied(o)
  \/ LooksApplied(o) /\ CompletionAllowed(o)

OnePassSuffices ==
  [][FinishRecovery /\ ~disturbed /\ overlapped = {} =>
       \A o \in PendingOperations : ~Decidable(o)]_vars

(* A permanent deletion takes the collection out of the catalog: when the   *)
(* recovery is over and the file is gone, the operation is not pending any  *)
(* more, unless a storage error or the user got in between.                 *)
DeletionsConclude ==
  [][FinishRecovery /\ ~disturbed =>
       \A o \in PendingOperations :
         operation[o].kind = "hard_delete" => ~LooksApplied(o)]_vars

(* A start is never refused because of what the journal holds: pending rows *)
(* are reconciled before the service accepts requests.                      *)
StartsAgain == mode # "refused"

(* Without overlapping operations on one collection no pending row ever     *)
(* loses its collection, so that every start can read the journal.          *)
OnlyOverlapBreaksTheJournal == overlapped = {} => JournalReadable

(* A collection is deleted from the catalog only when the file it is        *)
(* indexed at is gone: an outcome that is not certain is not guessed.       *)
DeletesOnlyWithoutFile ==
  [][\A c \in Collections, l \in Locations :
       CurrentFor(l, c) /\ collection'[c] = "unused" => ~Exists(location[l].path)]_vars
=============================================================================
