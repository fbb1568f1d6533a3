---------------------------- MODULE MCMigration ----------------------------
(* Legacy catalogs for Migration: two nested roots, two collections. *)
EXTENDS Migration

lib == <<"lib">>
sub == <<"lib", "sub">>
one == <<"lib", "one">>
two == <<"lib", "sub", "two">>

AllPaths == {lib, sub, one, two, <<"out">>}

Lib == [path |-> lib, source |-> "archive", label |-> TRUE]
Sub == [path |-> sub, source |-> "downloads", label |-> TRUE]

One == [id |-> 1, path |-> one, kind |-> "file", source |-> "archive", fault |-> "none", meta |-> 1]
Two == [id |-> 2, path |-> two, kind |-> "folder", source |-> "downloads", fault |-> "none",
        meta |-> 1]
Tag == [id |-> 1, name |-> "t", valid |-> TRUE]

Good == [roots |-> <<Lib, Sub>>, rows |-> {One, Two}, tags |-> {Tag}, links |-> {<<2, 1>>}]

\* the sound catalog, ones the user made of it, and ones with something wrong
Snapshots ==
  {Good,
   [Good EXCEPT !.rows = {[One EXCEPT !.meta = 2]}, !.links = {}],
   [Good EXCEPT !.roots = <<Lib, [Sub EXCEPT !.source = "other"]>>],
   [Good EXCEPT !.roots = <<Lib, Sub, [Sub EXCEPT !.source = "archive"]>>],
   [Good EXCEPT !.rows = {One, [One EXCEPT !.id = 2]}, !.links = {}],
   [Good EXCEPT !.rows = {[One EXCEPT !.fault = "missing_title"], Two}]}

Swaps == Permutations(Runs)
=============================================================================
