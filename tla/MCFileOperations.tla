-------------------------- MODULE MCFileOperations --------------------------
(* Small libraries for FileOperations: one download root, one archive.      *)
EXTENDS FileOperationsRefinement

CONSTANTS dl, ar, a, b, x1, y1

(* two works in the download root *)
TwoDownloads == [p \in Paths |->
  CASE p = <<dl, a>> -> x1 [] p = <<dl, b>> -> y1 [] OTHER -> Null]
=============================================================================
