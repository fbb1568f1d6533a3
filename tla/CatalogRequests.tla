--------------------------- MODULE CatalogRequests ---------------------------
(***************************************************************************)
(* Requests that do not touch files: those of the session, the lookups of  *)
(* the metadata worker, and those of the library.  The first two share the *)
(* cookie of one request and nothing else, and the library shares nothing  *)
(* with them, so that a behaviour is one of MetadataLookup, EhentaiSession *)
(* or LibraryQueries.                                                      *)
(***************************************************************************)
EXTENDS MetadataLookup

CONSTANTS
  Threads, Whole, Partial, MaxCalls, MaxRestarts, Sealed,    \* of EhentaiSession
  Shelved, Texts, Roots, Sizes, AuthorLists, Queries, Saved, \* of LibraryQueries
  MaxPerPage, MaxViews

VARIABLES
  saved, env, store, last, task, calls, restarts, crossed,   \* EhentaiSession
  shelf, tagged, tags, views, home, held                     \* LibraryQueries

Session == INSTANCE EhentaiSession

Library == INSTANCE LibraryQueries WITH
  Works <- Shelved, Names <- Texts, Requests <- Queries

\* a cookie is neither the lack of one nor a value that cannot be decrypted
ASSUME SessionAssumption ==
  /\ Null \notin Whole \cup Partial /\ Sealed \notin Whole \cup Partial \cup {Null}
  /\ MaxCalls \in Nat /\ MaxRestarts \in Nat

\* works are numbered, a text is its letters and its case, and a sort key is one of two
ASSUME LibraryAssumption ==
  /\ Shelved \subseteq Nat /\ IsFiniteSet(Shelved)
  /\ Texts \subseteq Nat \X Nat /\ Sizes \subseteq Nat
  /\ \A authors \in AuthorLists : \A i \in DOMAIN authors : authors[i] \in Texts
  /\ Library!Gone \notin Roots /\ Library!Nowhere \notin Roots
  /\ \A q \in Queries : q.sort \in {"created", "size"}
  /\ MaxPerPage \in Nat \ {0} /\ MaxViews \in Nat

sessionVars == <<saved, env, store, last, task, calls, restarts, crossed>>
libraryVars == <<shelf, tagged, tags, views, home, held>>

\* See EhentaiSession: the store follows the catalog, references name the site they are from.
SessionHolds == Session!SessionHolds

\* See LibraryQueries: facets, statistics and pages agree with the list they are about.
AnswersAgree == Library!AnswersAgree

\* See LibraryQueries: what the home page is told it can write back.
HomeReadsBack == Library!HomeReadsBack

=============================================================================
