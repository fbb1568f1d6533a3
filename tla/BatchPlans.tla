----------------------------- MODULE BatchPlans -----------------------------
(***************************************************************************)
(* Batches of renames and moves to an archive: the user is shown what a    *)
(* template makes of a selection, metadata, roots and files change, and a  *)
(* request applies what was shown, now or from a page that was left open.  *)
(*                                                                         *)
(* Abstractions.  A batch holds the mutex around ApplicationService until  *)
(* its last item, so that only the user's own hands on the files come in   *)
(* between; one item is one step (FileOperations takes it apart).  A       *)
(* rendered template is the name in the metadata, an event and the         *)
(* sanitized folder of it are one value.  Items are applied in any order.  *)
(***************************************************************************)
EXTENDS Naturals

CONSTANTS
  Collections, ImageFolders,  \* the second is a subset: not ZIPs
  Downloads, Archives,        \* one root of downloads, and the roots of archives
  Folders,                    \* of events, in an archive
  Names, Illegal,             \* what templates make, and which Windows does not take
  FirstName, Found, Configured,  \* names, what may be known of them, and the setting, at first
  MaxChanges,                 \* bound on what changes beside the batches
  Null

Dirs  == [root : {Downloads}, folder : {Null}] \cup [root : Archives, folder : Folders \cup {Null}]
Paths == [dir : Dirs, name : Names]
Item  == [collection : Collections, source : Paths, destination : Paths]
Metadata == [name : Names \cup {Null}, folder : Folders, commercial : BOOLEAN]

VARIABLES
  place,           \* the current path of a collection in the catalog, or Null
  disk,            \* whose file stands at a path: a collection's, another, or none
  metadata,        \* of each collection
  active,          \* the roots that are switched on
  commercialRoot,  \* the archive of commercial works in the settings, or Null
  previewed,       \* every item that some page shows as safe
  fresh,           \* those of the last preview, as long as nothing changes
  todo,            \* the renames of the batch that are still to be done
  failed,          \* the renames of the batch that failed
  promised,        \* the batch, when it is of the last preview and nothing changed
  moving,          \* the collections of the batch that are still to be moved
  target,          \* the archive the request names
  changes

catalog  == <<metadata, active, commercialRoot>>
renaming == <<todo, failed, promised>>
batchVars == <<place, disk, catalog, previewed, fresh, renaming, moving, target, changes>>

Busy == todo \cup moving # {}

PlansTypeOK ==
  /\ place \in [Collections -> Paths \cup {Null}]
  /\ disk \in [Paths -> Collections \cup {"other", Null}]
  /\ metadata \in [Collections -> Metadata]
  /\ active \subseteq {Downloads} \cup Archives
  /\ commercialRoot \in Archives \cup {Null}
  /\ previewed \cup fresh \cup todo \cup failed \cup promised \subseteq Item
  /\ moving \subseteq Collections /\ target \in Archives
  /\ changes \in 0 .. MaxChanges

PlansInit ==
  /\ place = [c \in Collections |->
       [dir |-> [root |-> Downloads, folder |-> Null], name |-> FirstName[c]]]
  /\ disk = [p \in Paths |-> IF \E c \in Collections : place[c] = p
                             THEN CHOOSE c \in Collections : place[c] = p ELSE Null]
  /\ metadata \in Found
  /\ active = {Downloads} \cup Archives
  /\ commercialRoot = Configured
  /\ previewed = {} /\ fresh = {} /\ todo = {} /\ failed = {} /\ promised = {}
  /\ moving = {} /\ changes = 0
  /\ target = CHOOSE r \in Archives : TRUE

-----------------------------------------------------------------------------
Indexed(p) == \E d \in Collections : place[d] = p
Free(p)    == disk[p] = Null /\ ~Indexed(p)

(* A file is moved where nothing stands. *)
Relocate(c, to) ==
  /\ disk'  = [disk EXCEPT ![place[c]] = Null, ![to] = disk[place[c]]]
  /\ place' = [place EXCEPT ![c] = to]

-----------------------------------------------------------------------------
(* Renames.                                                                 *)
(* render_template *)
Destination(c) == [place[c] EXCEPT !.name = metadata[c].name]

(* something was rendered, and validate_windows_destination takes it *)
Nameable(c) == metadata[c].name \notin Illegal \cup {Null}

(* plan_collection_rename *)
Plannable(c) ==
  /\ c \notin ImageFolders
  /\ disk[place[c]] # Null
  /\ Nameable(c)
  /\ Destination(c) # place[c]
  /\ Free(Destination(c))

(* Mutant of Safe: does not see that two of the batch want one name. *)
SafeAlone(S) == {c \in S : Plannable(c)}

(* mark_batch_collisions *)
Safe(S) ==
  {c \in S : Plannable(c) /\ \A d \in S \ {c} : Plannable(d) => Destination(d) # Destination(c)}

Plan(S) == {[collection |-> c, source |-> place[c], destination |-> Destination(c)] : c \in Safe(S)}

Preview(S) ==
  /\ ~Busy
  /\ S # {} /\ \A c \in S : place[c] # Null
  /\ previewed' = previewed \cup Plan(S)
  /\ fresh' = Plan(S)
  /\ UNCHANGED <<place, disk, catalog, renaming, moving, target, changes>>

Of(E) == {e.collection : e \in E}

(* Mutant of Accepted: what is safe now is done, whatever was shown. *)
AcceptedAsPlanned(E) == Plan(Of(E))

(* apply_rename_preflight: what would no longer become of it what was shown *)
(* is refused                                                               *)
Accepted(E) == E \cap Plan(Of(E))

ApplyRenames(E) ==
  /\ ~Busy
  /\ E # {} /\ \A e, f \in E : e.collection = f.collection => e = f
  /\ \A e \in E : place[e.collection] # Null
  /\ todo' = Accepted(E)
  /\ failed' = E \ Accepted(E)
  /\ promised' = IF E \subseteq fresh THEN E ELSE {}
  /\ fresh' = {}
  /\ UNCHANGED <<place, disk, catalog, previewed, moving, target, changes>>

(* rename_one *)
RenameOne(e) ==
  /\ e \in todo
  /\ todo' = todo \ {e}
  /\ \/ /\ place[e.collection] = e.source /\ e.source.dir.root \in active
        /\ disk[e.source] # Null /\ disk[e.destination] = Null
        /\ \A d \in Collections \ {e.collection} : place[d] # e.destination
        /\ Relocate(e.collection, e.destination)
        /\ UNCHANGED failed
     \/ /\ \/ place[e.collection] # e.source \/ e.source.dir.root \notin active
           \/ disk[e.source] = Null \/ disk[e.destination] # Null
           \/ \E d \in Collections \ {e.collection} : place[d] = e.destination
        /\ failed' = failed \cup {e}
        /\ UNCHANGED <<place, disk>>
  /\ UNCHANGED <<catalog, previewed, fresh, promised, moving, target, changes>>

-----------------------------------------------------------------------------
(* Moves.  Their preview is shown and not sent back.                        *)
MoveBatch(S, r) ==
  /\ ~Busy
  /\ S # {}
  /\ moving' = S /\ target' = r
  /\ fresh' = {} /\ promised' = {} /\ failed' = {}
  /\ UNCHANGED <<place, disk, catalog, previewed, todo, changes>>

(* commercial_archive_root: set and not usable, it still stands *)
Redirected(c) == metadata[c].commercial /\ commercialRoot # Null

ArchiveDir(c) ==
  IF Redirected(c) THEN [root |-> commercialRoot, folder |-> Null]
  ELSE [root |-> target, folder |-> metadata[c].folder]

(* plan_archive_move, archive_move_request *)
Movable(c) ==
  LET to == [dir |-> ArchiveDir(c), name |-> place[c].name] IN
  /\ place[c] # Null
  /\ place[c].dir.root = Downloads /\ c \notin ImageFolders
  /\ {Downloads, target, to.dir.root} \subseteq active
  /\ disk[place[c]] # Null /\ Free(to)

(* move_to_archive_batch *)
MoveOne(c) ==
  /\ c \in moving
  /\ moving' = moving \ {c}
  /\ IF Movable(c) THEN Relocate(c, [dir |-> ArchiveDir(c), name |-> place[c].name])
     ELSE UNCHANGED <<place, disk>>
  /\ UNCHANGED <<catalog, previewed, fresh, renaming, target, changes>>

-----------------------------------------------------------------------------
(* What changes: other requests between batches, the user's files any time. *)
Change ==
  /\ changes < MaxChanges /\ changes' = changes + 1
  /\ fresh' = {} /\ promised' = {}
  /\ UNCHANGED <<previewed, todo, failed, moving, target>>

EditMetadata(c, m) ==
  /\ ~Busy /\ Change
  /\ metadata' = [metadata EXCEPT ![c] = m]
  /\ UNCHANGED <<place, disk, active, commercialRoot>>

SwitchRoot(r) ==
  /\ ~Busy /\ Change
  /\ active' = IF r \in active THEN active \ {r} ELSE active \cup {r}
  /\ UNCHANGED <<place, disk, metadata, commercialRoot>>

SetCommercialRoot(r) ==
  /\ ~Busy /\ Change
  /\ commercialRoot' = r
  /\ UNCHANGED <<place, disk, metadata, active>>

(* a deletion, a consolidation *)
CollectionLeaves(c) ==
  /\ ~Busy /\ Change
  /\ place' = [place EXCEPT ![c] = Null]
  /\ disk' = IF place[c] = Null THEN disk ELSE [disk EXCEPT ![place[c]] = Null]
  /\ UNCHANGED catalog

UserPuts(p) ==
  /\ Change
  /\ disk[p] = Null
  /\ disk' = [disk EXCEPT ![p] = "other"]
  /\ UNCHANGED <<place, catalog>>

UserTakes(p) ==
  /\ Change
  /\ disk[p] # Null
  /\ disk' = [disk EXCEPT ![p] = Null]
  /\ UNCHANGED <<place, catalog>>

PlansNext ==
  \/ \E S \in SUBSET Collections : Preview(S)
  \/ \E E \in SUBSET previewed : ApplyRenames(E)
  \/ \E e \in todo : RenameOne(e)
  \/ \E S \in SUBSET Collections, r \in Archives : MoveBatch(S, r)
  \/ \E c \in Collections : MoveOne(c) \/ CollectionLeaves(c)
  \/ \E c \in Collections, m \in Metadata : EditMetadata(c, m)
  \/ \E r \in {Downloads} \cup Archives : SwitchRoot(r)
  \/ \E r \in Archives \cup {Null} : SetCommercialRoot(r)
  \/ \E p \in Paths : UserPuts(p) \/ UserTakes(p)

PlansSpec == PlansInit /\ [][PlansNext]_batchVars

-----------------------------------------------------------------------------
(* A collection gets a new path only as somebody was shown, or, in a move   *)
(* they asked for, where its classification of that moment belongs: a       *)
(* commercial work never falls back to another archive.                     *)
AppliedAsAsked ==
  [][\A c \in Collections : place'[c] \notin {place[c], Null} =>
       \/ [collection |-> c, source |-> place[c], destination |-> place'[c]] \in previewed
       \/ /\ c \in moving /\ place[c].dir.root = Downloads
          /\ place'[c].dir.root = IF metadata[c].commercial /\ commercialRoot # Null
                                  THEN commercialRoot ELSE target]_batchVars

(* Of a preview that is applied before anything changes, or in part, every  *)
(* item it calls safe succeeds, in whatever order; but for a root that is   *)
(* switched off, which the preview does not look at.                        *)
SafeItemsSucceed ==
  \A e \in failed \cap promised : e.source.dir.root \notin active
=============================================================================
