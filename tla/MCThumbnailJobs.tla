-------------------------- MODULE MCThumbnailJobs --------------------------
(* What the files of ThumbnailJobs hold: two pages, the second of which is chosen as a cover. *)
EXTENDS ThumbnailJobs

Pages       == {0, 1}
Whole       == [folder |-> FALSE, known |-> Pages, images |-> Pages]
CoverLost   == [folder |-> FALSE, known |-> Pages, images |-> {0}]
Damaged     == [folder |-> FALSE, known |-> Pages, images |-> {}]
CoverlessFolder == [folder |-> TRUE, known |-> {0}, images |-> {0}]

Held == {Whole, CoverLost, Damaged, CoverlessFolder}
=============================================================================
