----------------------------- MODULE Migration -----------------------------
(***************************************************************************)
(* Moving into the new catalog.  doujin-migrate reads a legacy catalog     *)
(* without opening it for writing, refuses it whole when one thing in it   *)
(* cannot be carried over, and otherwise imports it into a target file     *)
(* that did not exist, validates what it made and says whether the source  *)
(* stayed the same.  The path audit then compares the paths of a catalog   *)
(* with the disk.  The legacy program may be used meanwhile, a run may be  *)
(* killed, several may be given the same target.                           *)
(*                                                                         *)
(* Both catalogs are in WAL mode: what is committed goes to a sidecar and  *)
(* reaches the main file at a checkpoint, at the latest when the last      *)
(* connection closes, which then removes the sidecars.  Runs and audits    *)
(* look for sidecars once, and then hash and read the main file alone.     *)
(*                                                                         *)
(* Abstractions.  A path is the sequence of its names as path_key makes    *)
(* them.  What can be wrong with a row by itself is its fault, and its     *)
(* descriptive fields are one value, meta.  The hash of a file is the      *)
(* version in it.  A failing system call ends a run; on Windows, where     *)
(* this runs, a file that is open is not removed.  The legacy settings     *)
(* that are only reported are left out.  The new service and the audit     *)
(* come when all runs have ended and the legacy program is closed.         *)
(***************************************************************************)
EXTENDS Naturals, FiniteSets, SequencesExt

CONSTANTS
  Runs,         \* invocations of doujin-migrate, all with the same source and target
  Legacy,       \* the contents the legacy catalog can have
  Paths,        \* paths of roots and of collections
  SampleLimit,  \* rows the validation compares field by field
  MaxEdits,     \* bound on what the legacy program does
  MaxTouches,   \* bound on what the new service and the user do
  Nil

RootSources == {"archive", "downloads"}
Kinds       == {"none", "file", "folder", "link"}

ASSUME PathsAssumption == Paths \subseteq Seq(STRING)
\* the tables of the legacy catalog: roots in an order, rows with an id of their own
ASSUME LegacyAssumption ==
  \A s \in Legacy :
    /\ s = [roots |-> s.roots, rows |-> s.rows, tags |-> s.tags, links |-> s.links]
    /\ s.roots \in Seq([path : Paths, source : STRING, label : BOOLEAN])
    /\ IsFiniteSet(s.rows) /\ \A row \in s.rows : row.path \in Paths /\ row.fault # "skipped"
    /\ \A row, other \in s.rows : row.id = other.id => row = other
ASSUME KindsAssumption == \A s \in Legacy : \A row \in s.rows : row.kind \in Kinds
ASSUME SampleLimitAssumption == SampleLimit \in Nat /\ SampleLimit > 1
ASSUME EditsAssumption == MaxEdits \in Nat /\ MaxTouches \in Nat

VARIABLES
  source,  \* the legacy catalog: all it ever held, what of that its main file holds (an index),
           \* and whether it has sidecars, as it has while it is in use and after a crash
  target,  \* the new catalog, or Nil: what is committed, what its main file holds, whether it
           \* has sidecars and the new service has it open
  run,     \* what each run has found so far
  disk,    \* what there is at each path
  audit,   \* the path audit
  edits, touches  \* number of things the legacy program and the others did

vars == <<source, target, run, disk, audit, edits, touches>>

-----------------------------------------------------------------------------
(* What prepare_legacy makes of a snapshot [roots, rows, tags, links]. *)

\* match_root: the deepest root of the settings that holds the path, the last one of these
Holding(path, roots) == {i \in DOMAIN roots : IsStrictPrefix(roots[i].path, path)}
Owner(path, roots)   == CHOOSE i \in Holding(path, roots) : \A j \in Holding(path, roots) :
                          \/ Len(roots[j].path) < Len(roots[i].path)
                          \/ Len(roots[j].path) = Len(roots[i].path) /\ j <= i

RootFault(i, roots) ==
  IF roots[i].source \notin RootSources THEN "invalid_root_source"
  ELSE IF ~ roots[i].label THEN "invalid_library_root"
  ELSE IF \E j \in 1 .. i - 1 : /\ roots[j].path = roots[i].path
                                /\ roots[j].source \in RootSources /\ roots[j].label
    THEN "duplicate_library_root"
  ELSE "none"

\* A row whose root has no valid source is passed over in silence: the root is the issue.
RowFault(row, roots) ==
  IF row.fault # "none" THEN row.fault
  ELSE IF Holding(row.path, roots) = {} THEN "path_outside_scan_roots"
  ELSE IF row.source \notin RootSources THEN "invalid_collection_source"
  ELSE LET owner == roots[Owner(row.path, roots)] IN
    IF owner.source \notin RootSources THEN "skipped"
    ELSE IF row.source # owner.source THEN "root_source_mismatch"
    ELSE "none"

TagFaults(s) ==
  {"invalid_tag" : t \in {t \in s.tags : ~ t.valid}}
    \cup {"duplicate_tag_name" : t \in {t \in s.tags : \E u \in s.tags : u # t /\ u.name = t.name}}
    \cup {"orphan_tag_link" : l \in {l \in s.links :
            ~ (\E row \in s.rows : row.id = l[1]) \/ ~ (\E t \in s.tags : t.id = l[2])}}

\* find_path_conflicts
Conflicts(s) == {row \in s.rows : /\ row.fault # "missing_filepath"
                                  /\ \E other \in s.rows : /\ other # row /\ other.path = row.path
                                                           /\ other.fault # "missing_filepath"}

\* mutant: roots nobody can use are dropped, and not an issue
IssuesOfRows(s) == ({RowFault(row, s.roots) : row \in s.rows} \cup TagFaults(s)) \ {"none", "skipped"}

Issues(s) ==
  ({RootFault(i, s.roots) : i \in DOMAIN s.roots}
    \cup {RowFault(row, s.roots) : row \in s.rows} \cup TagFaults(s)) \ {"none", "skipped"}

\* what run_migration asks before it makes anything
Clear(s) == Issues(s) = {} /\ Conflicts(s) = {}

Collection(row, roots) == [id |-> row.id, path |-> row.path, kind |-> row.kind,
                           root |-> roots[Owner(row.path, roots)].path, meta |-> row.meta]

\* prepare_legacy
Prepared(s) ==
  [roots |-> {[path |-> s.roots[i].path, source |-> s.roots[i].source, active |-> TRUE] :
               i \in {i \in DOMAIN s.roots : RootFault(i, s.roots) = "none"}},
   rows  |-> {Collection(row, s.roots) : row \in {row \in s.rows :
                                                    RowFault(row, s.roots) = "none"}},
   tags  |-> s.tags, links |-> s.links]

-----------------------------------------------------------------------------
(* What the target is compared with. *)

NoContent == [roots |-> {}, rows |-> {}, tags |-> {}, links |-> {}]

\* sample_indices: spread evenly over the rows in the order of their ids
Rank(row, rows) == Cardinality({other \in rows : other.id < row.id})
Sampled(rows) ==
  LET n == Cardinality(rows)
  IN IF n <= SampleLimit THEN rows
     ELSE {row \in rows : \E i \in 0 .. SampleLimit - 1 :
             Rank(row, rows) = (i * (n - 1)) \div (SampleLimit - 1)}

\* validate_target, validate_samples
Validates(made, wanted) ==
  /\ Cardinality(made.roots) = Cardinality(wanted.roots)
  /\ Cardinality(made.rows)  = Cardinality(wanted.rows)
  /\ made.tags = wanted.tags /\ made.links = wanted.links
  /\ \A row \in Sampled(wanted.rows) :
       \E made_ \in made.rows : made_.id = row.id /\ made_.meta = row.meta

\* import_legacy_catalog refuses a collection whose root is not imported, the schema two
\* collections at one path
Importable(p) == /\ \A row \in p.rows : \E root \in p.roots : root.path = row.root
                 /\ \A row, other \in p.rows : row.path = other.path => row = other

-----------------------------------------------------------------------------
(* State. *)

Ended    == {"done", "refused", "failed", "killed"}
Statuses == {"none", "blocked", "completed", "validation_failed"}
RunPhases   == {"off", "hashing", "roots", "rows", "blocked", "open", "import", "validate",
             "finish"} \cup Ended

\* what a run reports, and the file it makes
\* (since and alone: what was saved, and who else was there, when it looked for sidecars)
NoRun     == [phase |-> "off", status |-> "none", before |-> 0, since |-> 0, loaded |-> Nil,
              agrees |-> FALSE, alone |-> TRUE]
NewTarget == [content |-> NoContent, version |-> 0,
              main |-> [content |-> NoContent, version |-> 0], sidecars |-> TRUE, open |-> FALSE]
\* what a path audit reports: todo are the paths still to look at, right those that were as the
\* catalog says at some time since the audit read it, began the catalog when it looked for
\* sidecars
NoAudit   == [phase |-> "off", before |-> 0, sound |-> TRUE, todo |-> {}, right |-> {},
              began |-> NoContent]

Version == Len(source.history)
Current == source.history[Version]
InMain  == source.history[source.main]

\* SQLite: what is committed is moved to the main file; the last to close does so and removes
\* the sidecars
Checkpointed(t) == [t EXCEPT !.main = [content |-> t.content, version |-> t.version]]
Shut(t)         == [Checkpointed(t) EXCEPT !.sidecars = FALSE]

UnderWay(r) == run[r].phase \notin {"off"} \cup Ended
HasOpen(r)  == run[r].phase = "import"
Completed   == {r \in Runs : run[r].status = "completed"}

TypeOK ==
  /\ source.history \in Seq(Legacy) /\ source.open \in BOOLEAN /\ source.main \in 1 .. Version
  /\ target # Nil => /\ target.version \in Nat /\ target.open \in BOOLEAN
                     /\ target.main.version \in 0 .. target.version /\ target.sidecars \in BOOLEAN
  /\ \A r \in Runs :
       /\ run[r].phase \in RunPhases /\ run[r].status \in Statuses
       /\ run[r].before \in 0 .. Version /\ run[r].since \in 0 .. Version
       /\ run[r].agrees \in BOOLEAN /\ run[r].alone \in BOOLEAN
       /\ run[r].phase \in {"open", "import", "validate", "finish"} =>
            Issues(run[r].loaded) = {} /\ Conflicts(run[r].loaded) = {}
  /\ disk \in [Paths -> Kinds]
  /\ audit.phase \in {"off", "reading", "looking", "passed", "found", "refused"}
  /\ audit.sound \in BOOLEAN
  /\ edits \in 0 .. MaxEdits /\ touches \in 0 .. MaxTouches

\* Paths of collections hold at first what the rows say, the other ones are folders.
Init ==
  /\ source \in {[history |-> <<s>>, main |-> 1, open |-> FALSE] : s \in Legacy}
  /\ target = Nil /\ run = [r \in Runs |-> NoRun]
  /\ disk = [p \in Paths |->
       IF \E row \in Current.rows : row.path = p
       THEN (CHOOSE row \in Current.rows : row.path = p).kind
       ELSE IF \E i \in DOMAIN Current.roots : Current.roots[i].path = p THEN "folder" ELSE "none"]
  /\ audit = NoAudit /\ edits = 0 /\ touches = 0

-----------------------------------------------------------------------------
(* run_migration. *)

Enters(r, phase) == run' = [run EXCEPT ![r].phase = phase]
StopsAs(r, phase) == run' = [run EXCEPT ![r] = [NoRun EXCEPT !.phase = phase]]

\* reject_source_sidecars, reject_existing_target_artifacts
Start(r) ==
  /\ run[r].phase = "off"
  /\ run' = [q \in Runs |->
       CASE q = r       -> [NoRun EXCEPT !.phase = IF source.open \/ target # Nil
                                                    THEN "refused" ELSE "hashing",
                                         !.since = Version,
                                         !.alone = ~ \E o \in Runs : UnderWay(o)]
         [] UnderWay(q) -> [run[q] EXCEPT !.alone = FALSE]
         [] OTHER       -> run[q]]
  /\ UNCHANGED <<source, target, disk, audit, edits, touches>>

\* the first blake3_file, before anything is read
Hash(r) ==
  /\ run[r].phase = "hashing"
  /\ run' = [run EXCEPT ![r].phase = "roots", ![r].before = source.main]
  /\ UNCHANGED <<source, target, disk, audit, edits, touches>>

\* load_legacy reads the main file, which it takes for immutable, one query after the other.  It
\* fails on a schema that lacks a column, and a file that changes meanwhile may read as damaged.
LoadRoots(r) ==
  /\ run[r].phase = "roots"
  /\ run' = [run EXCEPT ![r].phase = "rows", ![r].loaded = InMain]
  /\ UNCHANGED <<source, target, disk, audit, edits, touches>>

LoadRows(r) ==
  /\ run[r].phase = "rows"
  /\ LET read == [InMain EXCEPT !.roots = run[r].loaded.roots]
     IN run' = [run EXCEPT ![r].loaded = read,
                           ![r].phase  = IF Clear(read)
                                         THEN "open" ELSE "blocked"]
  /\ UNCHANGED <<source, target, disk, audit, edits, touches>>

LoadFails(r) ==
  /\ run[r].phase \in {"roots", "rows"}
  /\ StopsAs(r, "failed") /\ UNCHANGED <<source, target, disk, audit, edits, touches>>

\* a blocked report: no target is made
Block(r) ==
  /\ run[r].phase = "blocked"
  /\ run' = [run EXCEPT ![r] = [NoRun EXCEPT !.phase = "done", !.status = "blocked"]]
  /\ UNCHANGED <<source, target, disk, audit, edits, touches>>

\* CatalogRepository::open, which makes the file when there is none, and its sidecars
OpenTarget(r) ==
  /\ run[r].phase = "open" /\ Enters(r, "import")
  /\ target' = IF target = Nil THEN NewTarget ELSE [target EXCEPT !.sidecars = TRUE]
  /\ UNCHANGED <<source, disk, audit, edits, touches>>

\* remove_new_target_artifacts, once the run has closed the target itself
Removed(r) == IF \E q \in Runs \ {r} : HasOpen(q) THEN target ELSE Nil

\* mutant: nothing looks whether the target is empty
ReadyForAny(r) == Importable(Prepared(run[r].loaded))

\* ensure_empty_target, and the roots the collections need
Ready(r) == target.content = NoContent /\ Importable(Prepared(run[r].loaded))

\* import_legacy_catalog: one transaction, after which the connection is closed
Import(r) ==
  /\ run[r].phase = "import" /\ Ready(r) /\ Enters(r, "validate")
  /\ LET filled == [target EXCEPT !.content = Prepared(run[r].loaded), !.version = @ + 1]
     IN target' = IF \E q \in Runs \ {r} : HasOpen(q) THEN filled ELSE Shut(filled)
  /\ UNCHANGED <<source, disk, audit, edits, touches>>

\* A target that could not be opened or filled is removed.
ImportFails(r) ==
  /\ run[r].phase \in {"open", "import"} /\ StopsAs(r, "failed") /\ target' = Removed(r)
  /\ UNCHANGED <<source, disk, audit, edits, touches>>

\* validate_target, on a connection of its own
Validate(r) ==
  /\ run[r].phase = "validate"
  /\ run' = IF target = Nil THEN [run EXCEPT ![r] = [NoRun EXCEPT !.phase = "failed"]]
            ELSE [run EXCEPT ![r].phase = "finish", ![r].agrees =
                    Validates(target.content, Prepared(run[r].loaded))]
  /\ UNCHANGED <<source, target, disk, audit, edits, touches>>

\* finish_source_fingerprint: the second blake3_file, of the main file.  Sidecars are not looked
\* for again.
SourceUnchanged(r) == run[r].before = source.main

Finish(r) ==
  /\ run[r].phase = "finish"
  /\ run' = [run EXCEPT ![r] = [NoRun EXCEPT !.phase = "done", !.status =
       IF run[r].agrees /\ SourceUnchanged(r) THEN "completed" ELSE "validation_failed"]]
  /\ UNCHANGED <<source, target, disk, audit, edits, touches>>

Kill(r) ==
  /\ UnderWay(r) /\ StopsAs(r, "killed") /\ UNCHANGED <<source, target, disk, audit, edits, touches>>

-----------------------------------------------------------------------------
(* What others do: the legacy program, the new service, the user. *)

Idle    == ~ source.open /\ \A r \in Runs : run[r].phase \in Ended
Another == edits < MaxEdits /\ edits' = edits + 1 /\ UNCHANGED touches
Touches == touches < MaxTouches /\ touches' = touches + 1 /\ UNCHANGED edits

LegacyOpens  == /\ Another /\ (\E r \in Runs : run[r].phase \notin Ended) /\ ~ source.open
                /\ source' = [source EXCEPT !.open = TRUE]
                /\ UNCHANGED <<target, run, disk, audit>>
LegacySaves  == /\ Another /\ source.open /\ (\E r \in Runs : UnderWay(r))
                /\ \E s \in Legacy \ {Current} :
                     source' = [source EXCEPT !.history = Append(@, s)]
                /\ UNCHANGED <<target, run, disk, audit>>
LegacyCheckpoints == /\ source.open /\ source' = [source EXCEPT !.main = Version]
                     /\ UNCHANGED <<target, run, disk, audit, edits, touches>>
LegacyCloses == /\ source.open /\ source' = [source EXCEPT !.main = Version, !.open = FALSE]
                /\ UNCHANGED <<target, run, disk, audit, edits, touches>>

\* the new service on a catalog that was completed
ServiceOpens  == /\ Idle /\ audit.phase \in {"off", "reading", "looking"}
                 /\ Completed # {} /\ target # Nil /\ ~ target.open
                 /\ target' = [target EXCEPT !.open = TRUE, !.sidecars = TRUE]
                 /\ UNCHANGED <<source, run, disk, audit, edits, touches>>
ServiceCheckpoints == /\ target # Nil /\ target.open /\ target' = Checkpointed(target)
                      /\ UNCHANGED <<source, run, disk, audit, edits, touches>>
\* it closes the catalog, or crashes and leaves the sidecars
ServiceCloses == /\ target # Nil /\ target.open
                 /\ LET closed == [target EXCEPT !.open = FALSE] IN target' \in {Shut(closed), closed}
                 /\ UNCHANGED <<source, run, disk, audit, edits, touches>>

\* what it commits goes to the sidecar
Saves(content) == target' = [target EXCEPT !.content = content, !.version = @ + 1]

\* what a path audit sees of a change of the disk
Notices == audit' = [audit EXCEPT !.right = @ \cup {row \in audit.todo : disk'[row.path] = row.kind}]

\* it moves a collection, perhaps to a place under no root
ServiceMoves == /\ Touches /\ target # Nil /\ target.open
                /\ \E row \in target.content.rows, p \in Paths, root \in target.content.roots :
                     /\ disk[row.path] = row.kind /\ disk[p] = "none"
                     /\ LET in == IF IsStrictPrefix(root.path, p) THEN root.path ELSE Nil
                        IN Saves([target.content EXCEPT !.rows = (@ \ {row}) \cup
                                    {[row EXCEPT !.path = p, !.root = in]}])
                     /\ disk' = [disk EXCEPT ![p] = row.kind, ![row.path] = "none"]
                /\ Notices /\ UNCHANGED <<source, run>>
\* it activates a root or stops using it
ServiceSwitches == /\ Touches /\ target # Nil /\ target.open
                   /\ \E root \in target.content.roots :
                        Saves([target.content EXCEPT !.roots = (@ \ {root}) \cup
                                 {[root EXCEPT !.active = ~ @]}])
                   /\ UNCHANGED <<source, run, disk, audit>>

UserTouches == /\ Touches /\ audit.phase \in {"reading", "looking"}
               /\ \E p \in Paths, kind \in Kinds : disk' = [disk EXCEPT ![p] = kind]
               /\ Notices /\ UNCHANGED <<source, target, run>>

-----------------------------------------------------------------------------
(* audit_v2_paths. *)

\* reject_catalog_sidecars, and the hash
AuditStarts ==
  /\ audit.phase = "off" /\ Idle /\ target # Nil /\ Completed # {}
  /\ audit' = IF target.sidecars THEN [audit EXCEPT !.phase = "refused"]
              ELSE [audit EXCEPT !.phase = "reading", !.before = target.main.version,
                                 !.began = target.content]
  /\ UNCHANGED <<source, target, run, disk, edits, touches>>

\* load_roots, load_current_paths, from the main file: a root has to be active, there, and a
\* folder one can list
AuditReads ==
  /\ audit.phase = "reading"
  /\ LET read == target.main.content
     IN audit' = [audit EXCEPT !.phase = "looking", !.todo = read.rows,
                    !.right = {row \in read.rows : disk[row.path] = row.kind},
                    !.sound = \A root \in read.roots :
                                root.active /\ disk[root.path] = "folder"]
  /\ UNCHANGED <<source, target, run, disk, edits, touches>>

\* audit_path_metadata: nothing but the path counts as valid
Sound(row) ==
  disk[row.path] = row.kind /\ row.root # Nil /\ IsStrictPrefix(row.root, row.path)

AuditLooks ==
  /\ audit.phase = "looking"
  /\ \E row \in audit.todo :
       audit' = [audit EXCEPT !.todo = @ \ {row}, !.sound = @ /\ Sound(row)]
  /\ UNCHANGED <<source, target, run, disk, edits, touches>>

\* mutant: the catalog is not hashed again
AuditEndsAtOnce ==
  /\ audit.phase = "looking" /\ audit.todo = {}
  /\ audit' = [audit EXCEPT !.phase = IF audit.sound THEN "passed" ELSE "found"]
  /\ UNCHANGED <<source, target, run, disk, edits, touches>>

\* the second hash, again of the main file alone, and the verdict
AuditEnds ==
  /\ audit.phase = "looking" /\ audit.todo = {}
  /\ audit' = [audit EXCEPT !.phase = IF audit.before # target.main.version
                                      THEN "refused"
                                      ELSE IF audit.sound THEN "passed" ELSE "found"]
  /\ UNCHANGED <<source, target, run, disk, edits, touches>>

-----------------------------------------------------------------------------
Step(r) ==
  \/ Start(r) \/ Hash(r) \/ LoadRoots(r) \/ LoadRows(r) \/ LoadFails(r) \/ Block(r)
  \/ OpenTarget(r) \/ Import(r) \/ ImportFails(r) \/ Validate(r) \/ Finish(r) \/ Kill(r)

Next ==
  \/ \E r \in Runs : Step(r)
  \/ LegacyOpens \/ LegacySaves \/ LegacyCheckpoints \/ LegacyCloses
  \/ ServiceOpens \/ ServiceCheckpoints \/ ServiceCloses \/ ServiceMoves \/ ServiceSwitches \/ UserTouches
  \/ AuditStarts \/ AuditReads \/ AuditLooks \/ AuditEnds

Spec == Init /\ [][Next]_vars

-----------------------------------------------------------------------------
(* Properties. *)

\* the innermost of the usable roots that hold a path
Innermost(path, root, roots) ==
  /\ IsStrictPrefix(root.path, path)
  /\ \A other \in roots : IsStrictPrefix(other.path, path) => Len(other.path) <= Len(root.path)

\* A migration that nobody else interfered with and that reports itself completed leaves
\* nothing out of what it took the source to be: the target has every row of one state of the
\* source, at its path, under the innermost of the roots, which is of the row's kind, with its
\* fields, its tags and its links, and nothing else.  That state is no older than the one the
\* source had when the run looked for sidecars, and the newest one if the source has no sidecars
\* when the report is made (run_migration, prepare_legacy, validate_target,
\* finish_source_fingerprint).  What the legacy program saves during the run and does not
\* checkpoint is not there, and the run does not notice: see CompletedIsCurrent.
Carries(content, s) ==
  /\ {[id |-> c.id, path |-> c.path, kind |-> c.kind, meta |-> c.meta] : c \in content.rows}
       = {[id |-> row.id, path |-> row.path, kind |-> row.kind, meta |-> row.meta] : row \in s.rows}
  /\ Cardinality(content.rows) = Cardinality(s.rows)
  /\ content.tags = s.tags /\ content.links = s.links
  /\ {<<root.path, root.source>> : root \in content.roots}
       = {<<s.roots[i].path, s.roots[i].source>> : i \in DOMAIN s.roots}
  /\ \A row \in s.rows, c \in content.rows : row.id = c.id =>
       \E root \in content.roots : /\ root.path = c.root /\ root.source = row.source
                                   /\ Innermost(row.path, root, content.roots)
CompletedIsWhole ==
  [][\A r \in Runs : r \in Completed' \ Completed /\ run[r].alone =>
       /\ target # Nil /\ Carries(target.content, source.history[run[r].before])
       /\ run[r].before >= run[r].since
       /\ ~ source.open => run[r].before = Version]_vars

\* However many runs are given one target, it never holds more than one snapshot: what one run
\* imported stays as it is until the new service takes it over, or is removed whole
\* (reject_existing_target_artifacts, ensure_empty_target, remove_new_target_artifacts).
OneSnapshot ==
  [][target # Nil /\ target.content # NoContent /\ ~ target.open =>
       target' = Nil \/ target'.content = target.content]_vars

\* A path audit that passes speaks for every collection of the catalog as it was when the audit
\* looked for sidecars: each lies under a root in use, and its path has been there, of its kind,
\* at some time since the audit read the catalog.  If the catalog has no sidecars when the audit
\* ends it still is what it was (audit_v2_paths, audit_path_metadata, PathAuditCounts::passed).
\* A service that opened it meanwhile may have committed something else: see
\* PassedAuditIsCurrent.
PassedAuditIsTrue ==
  [][audit.phase = "looking" /\ audit'.phase = "passed" =>
       /\ \A row \in audit.began.rows :
            /\ row \in audit.right
            /\ \E root \in audit.began.roots :
                 root.active /\ root.path = row.root /\ IsStrictPrefix(root.path, row.path)
       /\ ~ target.sidecars => target.content = audit.began]_vars

\* What refusing sidecars is for (docs/references/sqlite-storage-evaluation.md:129): what a
\* completed migration brought over is all that the source held, and a catalog whose audit
\* passes is what was audited.
CompletedIsCurrent ==
  [][\A r \in Runs : r \in Completed' \ Completed => run[r].before = Version]_vars
PassedAuditIsCurrent ==
  [][audit.phase = "looking" /\ audit'.phase = "passed" => target.content = audit.began]_vars

\* What the documentation of run_migration says: a run can only create a target that did not
\* exist, so that the target of a completed migration is still there when others have ended.
CompletedTargetStays == Completed # {} => target # Nil

=============================================================================
