---------------------- MODULE FileOperationsRefinement ----------------------
(* FileOperations keeps the promise of LibraryShelf: the catalog tables,    *)
(* read as places and requests, only ever change by the abstract steps,     *)
(* however links, copies, crashes and recoveries are interleaved.           *)
EXTENDS FileOperations

(* the path of the current location, else what the status says *)
CurrentPath(c) == location[CHOOSE l \in Locations : CurrentFor(l, c)].path

Place(c) ==
  CASE collection[c] = "unused"       -> [state |-> "none"]
    [] collection[c] = "tombstone"    -> [state |-> "missing"]
    [] collection[c] = "soft_deleted" -> [state |-> "recycled"]
    [] collection[c] = "active"       -> [state |-> "standing", path |-> CurrentPath(c)]

Answer(status) ==
  CASE status = "pending"   -> "asked"
    [] status = "succeeded" -> "granted"
    [] status = "failed"    -> "denied"

RequestOf(o) ==
  IF operation[o] = Unused THEN [state |-> "none"]
  ELSE [collection |-> operation[o].collection, kind |-> operation[o].kind,
        from |-> operation[o].from, to |-> operation[o].to,
        state |-> Answer(operation[o].status)]

Shelf == INSTANCE LibraryShelf WITH
  Requests <- Operations,
  shelf    <- [c \in Collections |-> Place(c)],
  request  <- [o \in Operations |-> RequestOf(o)]

(* A collection's place changes only by a scan or by a recorded request     *)
(* that is granted once, from where the request found the collection, to a  *)
(* place nobody else has.                                                   *)
KeepsShelfPromise == Shelf!Spec
=============================================================================
