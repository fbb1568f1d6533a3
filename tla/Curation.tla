------------------------------- MODULE Curation -------------------------------
(***************************************************************************)
(* What is known of the collections, and what is done with their files by  *)
(* it.  Metadata reaches the files only through a preview and an edit      *)
(* between two batches, which BatchPlans makes by itself: a behaviour is   *)
(* either one of Consolidation or one of BatchPlans.                       *)
(***************************************************************************)
EXTENDS Consolidation

CONSTANTS
  Batched, ImageFolders, Downloads, Archives, Folders,  \* of BatchPlans; Batched are its
  FileNames, Illegal, FirstName, Found, Configured,     \* collections, FileNames its names
  MaxChanges

VARIABLES place, disk, metadata, active, commercialRoot, previewed, fresh, todo, failed,
          promised, moving, target, changes

Plans == INSTANCE BatchPlans WITH Collections <- Batched, Names <- FileNames

\* two collections have no path in common: the unique index of current locations
ASSUME BatchAssumption ==
  /\ FirstName \in [Batched -> FileNames]
  /\ \A c, d \in Batched : FirstName[c] = FirstName[d] => c = d
  /\ Found \subseteq [Batched -> Plans!Metadata]
  /\ Archives # {} /\ Configured \in Archives \cup {Null}
  /\ Null \notin Plans!Paths /\ MaxChanges \in Nat

plans == <<place, disk, metadata, active, commercialRoot, previewed, fresh, todo, failed,
           promised, moving, target, changes>>

\* See BatchPlans: a path changes only as somebody was shown or asked for.
AppliedAsAsked == Plans!AppliedAsAsked

\* See BatchPlans: what a preview calls safe succeeds when nothing changes.
SafeItemsSucceed == Plans!SafeItemsSucceed
=============================================================================
