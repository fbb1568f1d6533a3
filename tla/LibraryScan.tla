----------------------------- MODULE LibraryScan -----------------------------
(***************************************************************************)
(* A library scan, step by step, against a disk that changes under it: the  *)
(* walk through the roots with its safe renames, the ingestion of what is    *)
(* new, the tombstones of what is gone, the links between the two, and the  *)
(* row in scan_runs that outlives the process.                              *)
(*                                                                         *)
(* Abstractions.  The scan holds the mutex from begin to end, so that of    *)
(* this service nothing but its own steps happens meanwhile.  A place is    *)
(* the innermost root a path lies in and a filename.  The file system finds  *)
(* a file whatever the case of its name, as Windows does, and so does the    *)
(* ingestion (path_key); the walk looks for the exact path.  A name stands   *)
(* for the spelling of the whole path below the root.  Decoded is what a     *)
(* percent-encoded name decodes to, a name whose structure parses.  The      *)
(* subfolders of a root that are not roots are one: it can be read or not.   *)
(* What a folder must hold to be a collection is abstracted: a place holds   *)
(* a collection or nothing.  Orders between paths matter to nothing here but *)
(* the order of one path listed under several roots.                         *)
(***************************************************************************)
EXTENDS Naturals, FiniteSets

CONSTANTS
  Places,      \* where files can be: <<root, filename>>
  Above,       \* the roots whose folders contain that of a root
  Lower,       \* a filename in lower case
  Decoded,     \* the place an encoded filename decodes to
  Files,       \* files and folders
  Folders,     \* those of them that are image folders
  MaxIds,      \* bound on the collection ids
  MaxRuns,     \* bound on the rows of scan_runs
  MaxChanges,  \* bound on the changes of the disk
  MaxTroubles, \* bound on crashes and failing statements
  Null

Roots == {p[1] : p \in Places}
Ids   == 1 .. MaxIds
Runs  == 1 .. MaxRuns
Kinds == {"zip", "folder"}
Modes == {"apply_safe_renames", "no_rename"}

(* A root and those above it; the places that path_key takes for one. *)
Up(r)        == {r} \cup Above[r]
Spellings == [p \in Places |-> {q \in Places : q[1] = p[1] /\ Lower[q[2]] = Lower[p[2]]}]

ASSUME ScanPlacesAssumption ==
  /\ Above \in [Roots -> SUBSET Roots] /\ \A r \in Roots : \A q \in Above[r] : Above[q] \subseteq Above[r]
  /\ DOMAIN Lower = {p[2] : p \in Places}
  /\ DOMAIN Decoded \subseteq Places
  /\ \A p \in DOMAIN Decoded : /\ Decoded[p] \in Places \ DOMAIN Decoded /\ Decoded[p][1] = p[1]
                              /\ Spellings[p] \subseteq DOMAIN Decoded
  /\ Folders \subseteq Files /\ IsFiniteSet(Places) /\ Null \notin Files \cup Kinds
ASSUME ScanBoundsAssumption ==
  /\ MaxIds \in Nat /\ MaxRuns \in Nat /\ MaxChanges \in Nat /\ MaxTroubles \in Nat

Kind(f)  == IF f \in Folders THEN "folder" ELSE "zip"
Found    == Places \X Kinds \X Roots  \* a child, and the root whose walk lists it
None     == [status |-> "none"]
Row      == {None} \cup {c \in [status : {"active", "tombstone"}, place : Places,
                               kind : Kinds, root : Roots] : c.root \in Up(c.place[1])}
Counts   == {"discovered", "new", "known", "renamed", "warned", "gone", "links"}
Idle     == [at |-> "idle"]
AFile    == Null  \* what changed, when it is not the access to a root

-----------------------------------------------------------------------------
VARIABLES
  disk,        \* what is at a place
  access,      \* a root can be read whole, in part, or is gone
  collection,  \* collections, with their only location and the root it is filed under
  link,        \* tombstone_candidates, <<tombstone, candidate>> to decision
  runs,        \* scan_runs
  scan,        \* the run in progress in this process
  preview,     \* the answer of preflight_scan somebody looks at, while it is true
  changes, troubles

world   == <<disk, access, changes>>
catalog == <<collection, link>>
vars    == <<world, catalog, runs, scan, preview, troubles>>

RunStates == {"none", "running", "succeeded", "partial", "failed"}

TypeOK ==
  /\ disk \in [Places -> Files \cup {Null}]
  /\ access \in [Roots -> {"whole", "partly", "gone"}]
  /\ collection \in [Ids -> Row]
  /\ link \in [Ids \X Ids -> {"none", "pending", "confirmed", "rejected"}]
  /\ runs \in [Runs -> RunStates]
  /\ scan.at \in {"idle", "walk", "ingest", "reconcile", "mark", "complete"}
  /\ scan.at # "idle" =>
       /\ scan.run \in Runs /\ scan.mode \in Modes
       /\ scan.roots \subseteq Roots /\ scan.unsafe \subseteq Roots
       /\ scan.children \subseteq Found
       /\ scan.known \in [Places -> Kinds \cup {Null}]
       /\ scan.pending \subseteq Found
       /\ scan.left \subseteq Ids /\ scan.invalid \subseteq Ids
       /\ scan.target \in Ids \cup {Null}
       /\ scan.issues \in BOOLEAN
       /\ scan.count \in [Counts -> Nat]
       /\ scan.expected = Null \/ scan.expected \in [Counts -> Nat]
       /\ scan.shaken \subseteq Roots \cup {AFile}
       /\ scan.ambiguous \in BOOLEAN
  /\ preview = Null \/ preview \in [Counts -> Nat]
  /\ changes \in 0 .. MaxChanges
  /\ troubles \in 0 .. MaxTroubles

(* An empty catalog, or one ZIP an earlier scan left; a ZIP or nothing there. *)
Init ==
  /\ disk \in {[p \in Places |-> Null]} \cup
              {[p \in Places |-> IF p = q THEN f ELSE Null] : q \in Places, f \in Files \ Folders}
  /\ access = [r \in Roots |-> "whole"]
  /\ \E first \in {c \in Row : c = None \/ c.kind = "zip"} :
       collection = [i \in Ids |-> IF i = 1 THEN first ELSE None]
  /\ link = [l \in Ids \X Ids |-> "none"]
  /\ runs = [r \in Runs |-> "none"]
  /\ scan = Idle
  /\ preview = Null
  /\ changes = 0 /\ troubles = 0

-----------------------------------------------------------------------------
(* What the file system answers now. *)

There(p)      == \E q \in Spellings[p] : disk[q] # Null
IsDir(r)      == \A q \in Up(r) : access[q] # "gone"
Reached(r)    == IsDir(r) /\ access[r] = "whole"
Seen(p)       == Reached(p[1]) /\ There(p)
Matches(p, k) == Reached(p[1]) /\ \E q \in Spellings[p] : disk[q] # Null /\ Kind(disk[q]) = k

(* scan_directory of a root goes through the roots below it as well: what it  *)
(* finds, and the roots whose paths its issues carry.                        *)
Listed(r) == {<<p, Kind(disk[p]), r>> :
                p \in {q \in Places : r \in Up(q[1]) /\ Reached(q[1]) /\ disk[q] # Null}}
Faults(r) == IF IsDir(r) THEN {q \in Roots : r \in Up(q) /\ IsDir(q) /\ access[q] = "partly"}
             ELSE {r}
Spoilt(faults) == UNION {Up(q) : q \in faults}  \* the path of an issue starts with that of the root

(* current_paths, active_collection_locations *)
Active == {i \in Ids : collection[i].status = "active"}
Gone   == {i \in Ids : collection[i].status = "tombstone"}

Known  == [p \in Places |->
             LET here == {i \in Active : collection[i].place = p}
             IN  IF here = {} THEN Null ELSE collection[CHOOSE i \in here : TRUE].kind]

SameName(i, p, k) == Lower[collection[i].place[2]] = Lower[p[2]] /\ collection[i].kind = k

(* What becomes of the name of a child that the catalog does not know. *)
Target(p, k, known) ==
  IF k = "zip" /\ p \in DOMAIN Decoded /\ known[Decoded[p]] = Null /\ ~Seen(Decoded[p])
  THEN Decoded[p] ELSE p
Keeps(p, k, known) == k = "zip" /\ p \in DOMAIN Decoded /\ Target(p, k, known) = p

-----------------------------------------------------------------------------
(* The disk, changed by anybody at any time. *)

Change == changes < MaxChanges /\ changes' = changes + 1
Trouble == troubles < MaxTroubles /\ troubles' = troubles + 1

Shake(what) ==
  /\ scan' = IF scan.at = "idle" THEN scan
             ELSE [scan EXCEPT !.shaken = @ \cup {what}, !.expected = Null]
  /\ preview' = Null
  /\ UNCHANGED <<catalog, runs, troubles>>

PutFile(p, f) ==
  /\ Change /\ Shake(AFile)
  /\ ~There(p)
  /\ disk' = [disk EXCEPT ![p] = f]
  /\ UNCHANGED access

(* A name may change but in its case. *)
MoveFile(p, q) ==
  /\ Change /\ Shake(AFile)
  /\ disk[p] # Null /\ p # q
  /\ \A s \in Spellings[q] : s = p \/ disk[s] = Null
  /\ disk' = [disk EXCEPT ![q] = disk[p], ![p] = Null]
  /\ UNCHANGED access

RemoveFile(p) ==
  /\ Change /\ Shake(AFile)
  /\ disk[p] # Null
  /\ disk' = [disk EXCEPT ![p] = Null]
  /\ UNCHANGED access

(* A drive is plugged off or on, a folder loses its permissions. *)
ChangeAccess(r, a) ==
  /\ Change /\ Shake(r)
  /\ access[r] # a
  /\ access' = [access EXCEPT ![r] = a]
  /\ UNCHANGED disk

(* Mutant: the preview forgets the renames it announces. *)
AnticipatedAsFound(c) == c

-----------------------------------------------------------------------------
(* Preview and begin. *)

Anticipated(c) == <<Target(c[1], c[2], Known), c[2], c[3]>>

AllFound == UNION {Listed(r) : r \in Roots}
AllNew   == {c \in AllFound : Known[c[1]] = Null}

(* The walk takes for new what the ingestion will find in the catalog: a new  *)
(* file that two roots list, or one the catalog knows in another spelling.   *)
Ambiguous ==
  \/ \E c, d \in AllNew : c # d /\ c[1] = d[1]
  \/ \E c \in AllNew, i \in Active :
       collection[i].place \in Spellings[c[1]] \cup Spellings[Anticipated(c)[1]]

(* preflight_scan: a walk in DryRun mode, and the guesses made from it *)
Expectation ==
  LET safe  == Roots \ Spoilt({r \in Roots : ~Reached(r)})
      found == AllFound
      new   == AllNew
      gone  == {i \in Active : collection[i].root \in safe /\ ~Seen(collection[i].place)}
      there == {l \in gone \X Active :
                  LET c == collection[l[2]]
                  IN  l[1] # l[2] /\ Matches(c.place, c.kind) /\ SameName(l[1], c.place, c.kind)}
      soon  == {l \in gone \X new :
                  SameName(l[1], Anticipated(l[2])[1], l[2][2])}
  IN  [discovered |-> Cardinality(found),
       new |-> Cardinality(new),
       known |-> Cardinality({c \in found : Known[c[1]] = c[2]}),
       renamed |-> Cardinality({c \in new : Target(c[1], c[2], Known) # c[1]}),
       warned |-> Cardinality({c \in new : Keeps(c[1], c[2], Known)}),
       gone |-> Cardinality(gone),
       links |-> Cardinality(there) + Cardinality(soon)]

Preflight ==
  /\ scan.at = "idle"
  /\ preview = Null
  /\ preview' = Expectation
  /\ UNCHANGED <<world, catalog, runs, scan, troubles>>

(* start_scan, begin_scan_run, current_paths *)
BeginScan(mode) ==
  /\ scan.at = "idle"
  /\ \A r \in Runs : runs[r] # "running"
  /\ \E r \in Runs :
       /\ runs[r] = "none" /\ \A q \in 1 .. r - 1 : runs[q] # "none"
       /\ runs' = [runs EXCEPT ![r] = "running"]
       /\ scan' = [at |-> "walk", run |-> r, mode |-> mode, roots |-> Roots,
                   unsafe |-> {}, known |-> Known, children |-> {}, pending |-> {},
                   left |-> {}, target |-> Null, invalid |-> {}, issues |-> FALSE,
                   count |-> [n \in Counts |-> 0], expected |-> preview, shaken |-> {},
                   ambiguous |-> Ambiguous]
  /\ preview' = Null
  /\ UNCHANGED <<world, catalog, troubles>>

(* fail_started_scan *)
BeginBreaks ==
  /\ scan.at = "idle" /\ Trouble
  /\ \A r \in Runs : runs[r] # "running"
  /\ \E r \in Runs :
       /\ runs[r] = "none" /\ \A q \in 1 .. r - 1 : runs[q] # "none"
       /\ runs' = [runs EXCEPT ![r] = "failed"]
  /\ preview' = Null
  /\ UNCHANGED <<world, catalog, scan>>

-----------------------------------------------------------------------------
(* The walk. *)

ListRoot(r) ==
  /\ scan.at = "walk" /\ scan.children = {}
  /\ r \in scan.roots /\ \A q \in scan.roots : r <= q
  /\ scan' = [scan EXCEPT !.roots = @ \ {r}, !.children = Listed(r),
                          !.unsafe = @ \cup Spoilt(Faults(r)),
                          !.issues = @ \/ Faults(r) # {}]
  /\ UNCHANGED <<world, catalog, runs, preview, troubles>>

(* process_zip, push_image_folder, normalize_new_collection_zip *)
Child(p, k, r) ==
  LET after  == [scan EXCEPT !.children = @ \ {<<p, k, r>>}, !.count.discovered = @ + 1]
      target == Target(p, k, scan.known)
      keep   == [after EXCEPT !.pending = @ \cup {<<p, k, r>>},
                              !.count.new = @ + 1,
                              !.count.warned = @ + (IF Keeps(p, k, scan.known) THEN 1 ELSE 0)]
  IN  /\ scan.at = "walk" /\ <<p, k, r>> \in scan.children
      /\ \/ /\ scan.known[p] = k
            /\ scan' = [after EXCEPT !.count.known = @ + 1]
            /\ UNCHANGED <<disk, troubles>>
         \/ /\ scan.known[p] \in Kinds \ {k}
            /\ scan' = [after EXCEPT !.issues = TRUE]
            /\ UNCHANGED <<disk, troubles>>
         \/ /\ scan.known[p] = Null
            /\ target = p \/ scan.mode = "no_rename"
            /\ scan' = keep
            /\ UNCHANGED <<disk, troubles>>
         \/ /\ scan.known[p] = Null /\ target # p /\ scan.mode = "apply_safe_renames"
            /\ \/ /\ Seen(p)
                  /\ \E q \in Spellings[p] :
                       disk[q] # Null /\ disk' = [disk EXCEPT ![target] = disk[q], ![q] = Null]
                  /\ scan' = [after EXCEPT !.pending = @ \cup {<<target, k, r>>},
                                           !.count.new = @ + 1, !.count.renamed = @ + 1]
                  /\ UNCHANGED troubles
               \/ (* no link can be made; or the old name stays, and perhaps both *)
                  /\ IF Seen(p) THEN Trouble ELSE UNCHANGED troubles
                  /\ \/ disk' = disk
                     \/ /\ Seen(p)
                        /\ \E q \in Spellings[p] :
                             disk[q] # Null /\ disk' = [disk EXCEPT ![target] = disk[q]]
                  /\ scan' = [keep EXCEPT !.count.warned = @ + 1,
                                          !.shaken = @ \cup {AFile}, !.expected = Null]
      /\ UNCHANGED <<access, changes, catalog, runs, preview>>

(* Mutant: a root that could not be read ends the walk. *)
EndWalkIfWhole ==
  /\ scan.at = "walk" /\ scan.roots = {} /\ scan.children = {} /\ scan.unsafe = {}
  /\ scan' = [scan EXCEPT !.at = "ingest", !.unsafe = {r \in Roots : ~IsDir(r)}]
  /\ UNCHANGED <<world, catalog, runs, preview, troubles>>

(* safely_scanned_root_paths *)
EndWalk ==
  /\ scan.at = "walk" /\ scan.roots = {} /\ scan.children = {}
  /\ scan' = [scan EXCEPT !.at = "ingest", !.unsafe = @ \cup {r \in Roots : ~IsDir(r)}]
  /\ UNCHANGED <<world, catalog, runs, preview, troubles>>

-----------------------------------------------------------------------------
(* Ingestion, each collection in a transaction of its own. *)

NewLinks(pairs) == {l \in pairs : link[l] = "none"}
Linked(pairs)   == [l \in Ids \X Ids |-> IF l \in NewLinks(pairs) THEN "pending" ELSE link[l]]

(* ingest_one with link_matching_tombstones; what is in the catalog by then, in    *)
(* whatever spelling, is skipped and counts as known                             *)
InCatalog(p) == \E i \in Active : collection[i].place \in Spellings[p]

(* The pending of one path stay in the order of their roots. *)
IsNext(p, k, r) ==
  <<p, k, r>> \in scan.pending /\ \A c \in scan.pending : c[1] = p => r <= c[3]

Ingest(p, k, r) ==
  LET after == [scan EXCEPT !.pending = @ \ {<<p, k, r>>}]
  IN  /\ scan.at = "ingest" /\ IsNext(p, k, r)
      /\ \/ /\ InCatalog(p)
            /\ scan' = [after EXCEPT !.count.known = @ + 1]
            /\ UNCHANGED catalog
         \/ /\ ~InCatalog(p)
            /\ \E i \in Ids :
                 /\ collection[i] = None /\ \A j \in 1 .. i - 1 : collection[j] # None
                 /\ LET pairs == {<<t, i>> : t \in {g \in Gone : SameName(g, p, k)}}
                    IN  /\ link' = Linked(pairs)
                        /\ scan' = [after EXCEPT !.count.links = @ + Cardinality(NewLinks(pairs))]
                 /\ collection' = [collection EXCEPT
                      ![i] = [status |-> "active", place |-> p, kind |-> k, root |-> r]]
      /\ UNCHANGED <<world, runs, preview, troubles>>

(* A statement fails: the item, or the step, becomes an issue of the run. *)
IngestBreaks(p, k, r) ==
  /\ scan.at = "ingest" /\ IsNext(p, k, r) /\ Trouble
  /\ scan' = [scan EXCEPT !.pending = @ \ {<<p, k, r>>}, !.issues = TRUE, !.expected = Null]
  /\ UNCHANGED <<world, catalog, runs, preview>>

EndIngest ==
  /\ scan.at = "ingest" /\ scan.pending = {}
  /\ scan' = IF scan.unsafe = Roots THEN [scan EXCEPT !.at = "complete"]
             ELSE [scan EXCEPT !.at = "reconcile", !.left = Active,
                     !.invalid = {i \in Active : ~Matches(collection[i].place, collection[i].kind)}]
  /\ UNCHANGED <<world, catalog, runs, preview, troubles>>

-----------------------------------------------------------------------------
(* Reconciliation. *)

(* Mutant: roots that could not be read whole are looked at as well. *)
MissingAnywhere(i) == ~Seen(collection[i].place)

(* is_dir and exists, of one location *)
Missing(i) ==
  LET c == collection[i]
  IN  c.root \notin scan.unsafe /\ IsDir(c.root) /\ ~Seen(c.place)

Look(i) ==
  /\ scan.at = "reconcile"
  /\ i \in scan.left /\ \A j \in scan.left : i <= j
  /\ scan' = IF Missing(i)
             THEN [scan EXCEPT !.at = "mark", !.left = @ \ {i}, !.target = i]
             ELSE [scan EXCEPT !.left = @ \ {i}]
  /\ UNCHANGED <<world, catalog, runs, preview, troubles>>

(* mark_collection_missing, which looks once more *)
Mark ==
  LET i     == scan.target
      after == [scan EXCEPT !.at = "reconcile", !.target = Null]
  IN  /\ scan.at = "mark"
      /\ \/ /\ ~Seen(collection[i].place)
            /\ collection' = [collection EXCEPT ![i].status = "tombstone"]
            /\ scan' = [after EXCEPT !.count.gone = @ + 1]
            /\ UNCHANGED troubles
         \/ /\ Seen(collection[i].place)
            /\ scan' = after
            /\ UNCHANGED <<collection, troubles>>
         \/ /\ ~Seen(collection[i].place) /\ Trouble
            /\ scan' = [after EXCEPT !.issues = TRUE, !.expected = Null]
            /\ UNCHANGED collection
      /\ UNCHANGED <<world, link, runs, preview>>

(* active_collection_locations fails *)
ReconcileBreaks ==
  /\ scan.at = "ingest" /\ scan.pending = {} /\ scan.unsafe # Roots /\ Trouble
  /\ scan' = [scan EXCEPT !.at = "reconcile", !.issues = TRUE, !.expected = Null]
  /\ UNCHANGED <<world, catalog, runs, preview>>

(* link_tombstones_to_active_same_filename *)
SameNamePairs ==
  {l \in Gone \X (Active \ scan.invalid) :
     SameName(l[1], collection[l[2]].place, collection[l[2]].kind)}

LinkAll ==
  /\ scan.at = "reconcile" /\ scan.left = {}
  /\ \/ /\ link' = Linked(SameNamePairs)
        /\ scan' = [scan EXCEPT !.at = "complete",
                                !.count.links = @ + Cardinality(NewLinks(SameNamePairs))]
        /\ UNCHANGED troubles
     \/ /\ Trouble
        /\ scan' = [scan EXCEPT !.at = "complete", !.issues = TRUE, !.expected = Null]
        /\ UNCHANGED link
  /\ UNCHANGED <<world, collection, runs, preview>>

Verdict == IF scan.issues THEN "partial" ELSE "succeeded"

(* complete_scan_run; when it fails, the caller gets an error and that is all *)
Complete ==
  /\ scan.at = "complete"
  /\ \/ /\ runs' = [runs EXCEPT ![scan.run] = Verdict]
        /\ UNCHANGED troubles
     \/ Trouble /\ UNCHANGED runs
  /\ scan' = Idle
  /\ UNCHANGED <<world, catalog, preview>>

(* The process ends and starts again: no part of the start reads scan_runs. *)
Crash ==
  /\ scan.at # "idle" /\ Trouble
  /\ scan' = Idle
  /\ UNCHANGED <<world, catalog, runs, preview>>

(* decide_tombstone_candidate *)
Decide(l, decision) ==
  /\ scan.at = "idle"
  /\ link[l] \notin {"none", decision}
  /\ link' = [link EXCEPT ![l] = decision]
  /\ UNCHANGED <<world, collection, runs, scan, preview, troubles>>

-----------------------------------------------------------------------------
Disk ==
  \/ \E p \in Places, f \in Files : PutFile(p, f)
  \/ \E p, q \in Places : MoveFile(p, q)
  \/ \E p \in Places : RemoveFile(p)
  \/ \E r \in Roots, a \in {"whole", "partly", "gone"} : ChangeAccess(r, a)

ScanStep ==
  \/ \E r \in Roots : ListRoot(r)
  \/ \E c \in Found : Child(c[1], c[2], c[3])
  \/ EndWalk
  \/ \E c \in Found : Ingest(c[1], c[2], c[3])
  \/ \E c \in Found : IngestBreaks(c[1], c[2], c[3])
  \/ EndIngest
  \/ ReconcileBreaks
  \/ \E i \in Ids : Look(i)
  \/ Mark
  \/ LinkAll
  \/ Complete

Next ==
  \/ Disk
  \/ Preflight
  \/ \E m \in Modes : BeginScan(m)
  \/ BeginBreaks
  \/ ScanStep
  \/ Crash
  \/ \E l \in Ids \X Ids, d \in {"confirmed", "rejected"} : Decide(l, d)

Spec == Init /\ [][Next]_vars

(* A thread that scans goes on until it is done. *)
FairSpec == Spec /\ WF_vars(ScanStep)

-----------------------------------------------------------------------------
(* Properties *)

(* A collection becomes a tombstone while its file is where it was only     *)
(* when the access to a root it lies in changed during this very scan: a    *)
(* root that is away or cannot be read whole costs nothing, neither what is  *)
(* filed under it nor what is filed under a root above it.                  *)
OnlyTheMissing ==
  [][\A i \in Ids :
       collection[i].status = "active" /\ collection'[i].status = "tombstone"
         /\ There(collection[i].place)
       => Up(collection[i].place[1]) \cap scan.shaken # {}]_vars

(* record_preflight_difference *)
Differences ==
  LET expected == IF scan.mode = "no_rename" THEN [scan.expected EXCEPT !.renamed = 0]
                  ELSE scan.expected
  IN  {n \in Counts : expected[n] # scan.count[n]}

(* As Differences is shown: what changed since the preview.  With a         *)
(* tombstone of earlier scans, with names that decode to one, with names    *)
(* kept on purpose, counts differ though nothing changed.                   *)
DifferenceMeansChange ==
  scan.at = "complete" /\ scan.expected # Null => Differences = {}

(* But for these cases, a scan over a disk nobody touched since the preview *)
(* does what the preview said: the differences it reports are real ones.    *)
(* A new file under two roots, or one the catalog has in another spelling,   *)
(* is new to the walk and known to the ingestion; two encoded names may mean *)
(* one; a link that an earlier tombstone or a name kept on purpose makes or  *)
(* misses is not foreseen.                                                  *)
PreviewHolds ==
  scan.at = "complete" /\ scan.expected # Null /\ Differences # {} =>
    \/ scan.ambiguous
    \/ \E p, q \in DOMAIN Decoded :
         q \notin Spellings[p] /\ Decoded[q] \in Spellings[Decoded[p]]
    \/ Differences = {"links"} /\ Cardinality(Gone) > scan.count.gone
    \/ Differences = {"links"} /\ scan.mode = "no_rename"
         /\ \E i \in Active : collection[i].place \in DOMAIN Decoded

(* A started scan gets its result, unless something broke.                  *)
ScansConclude ==
  (\E r \in Runs : runs[r] = "running") /\ troubles = 0
    ~> (\A r \in Runs : runs[r] # "running") \/ troubles > 0

(* The service refuses a scan only while one really runs.                   *)
RefusedOnlyWhileScanning ==
  (\E r \in Runs : runs[r] = "running") => scan.at # "idle"
=============================================================================
