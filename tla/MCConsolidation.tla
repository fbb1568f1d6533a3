---------------------------- MODULE MCConsolidation ----------------------------
(* A small catalog for Curation: two ZIP files that can exchange names.     *)
EXTENDS Curation, TLC

CONSTANTS
  c1, c2, na1, nb1, nc1, nd1,   \* collections and file names
  inbox, shelf, magazines, event

VARIABLE side  \* which of the two parts a behaviour is of

both == <<allVars, plans, side>>

About(n, b) == [name |-> n, folder |-> event, commercial |-> b]

ZipNames == c1 :> na1 @@ c2 :> nb1
ZipFacts == {c1 :> About(nc1, TRUE) @@ c2 :> About(n, FALSE) : n \in {nc1, nd1}}

(* Spellings may change places: nothing but the user's choice tells them    *)
(* apart.                                                                   *)
Spellings == Permutations(Names)

BothInit ==
  /\ IdInit /\ Plans!PlansInit
  /\ side \in {"metadata", "batches"}
  /\ side = "metadata" => metadata[c2].name = nc1
  /\ side = "batches" =>
       \A c \in Collections : shown[c] = shown[1] /\ assertion[c].source = "filename"

BothNext ==
  /\ UNCHANGED side
  /\ \/ side = "metadata" /\ IdNext /\ UNCHANGED plans
     \/ side = "batches" /\ Plans!PlansNext /\ UNCHANGED allVars

BothSpec == BothInit /\ [][BothNext]_both
=============================================================================
