---------------------------- MODULE MCLibraryScan ----------------------------
(* A small library for LibraryScan: a root that holds a name in two         *)
(* spellings and a percent-encoded one that decodes to it, and in its folder *)
(* another root with the plain name.                                        *)
EXTENDS LibraryScan

CONSTANTS zip, folder

TwoRoots == {<<1, "plain">>, <<1, "PLAIN">>, <<1, "encoded">>, <<2, "plain">>}
Nested   == [r \in {1, 2} |-> {1} \ {r}]
ToLower  == [n \in {"plain", "PLAIN", "encoded"} |-> IF n = "PLAIN" THEN "plain" ELSE n]
ToPlain  == [p \in {<<1, "encoded">>} |-> <<1, "plain">>]
=============================================================================
