--------------------------- MODULE LibraryQueries ---------------------------
(***************************************************************************)
(* What the library shows: the list of works under a query, its pages, the *)
(* place of one work in it, the facets and the statistics whose numbers    *)
(* lead to such lists, the tags, the saved views and the shelves of the    *)
(* home page.  Every request runs under the application mutex, so that it  *)
(* is one step; what a client read before is stale when it sends it back.  *)
(*                                                                         *)
(* Abstractions.  A text is a pair <<letters, case>>: COLLATE NOCASE       *)
(* compares the letters, everything else the pair.  Circle stands for      *)
(* every field with one value, size for the sort keys that may be unknown. *)
(* Texts are trimmed where they are stored.  Full-text search is left out. *)
(***************************************************************************)
EXTENDS Integers, FiniteSets, SequencesExt

CONSTANTS
  Works,       \* collections, numbered in the order of their creation
  Names,       \* texts: pairs of letters and case
  Roots,       \* source kinds of the library roots
  Sizes,       \* file sizes
  AuthorLists, \* lists of authors a work may have
  Requests,    \* the queries clients use, out of Parsed
  Saved,       \* those of them that are saved as a view
  MaxPerPage,  \* 200 in the code
  MaxViews     \* bound on the ids of saved views

Blank    == <<>>                    \* a missing text
Unknown  == -1                      \* a size that was never read
Unset    == <<"any">>               \* a filter that is not set
Gone     == "gone"                  \* not active
Nowhere  == "nowhere"               \* active, without a current location
BuiltIns == {"recent", "featured", "event"}
Shelf(kind)  == [kind |-> kind, view |-> 0]
ViewShelf(v) == [kind |-> "saved_view", view |-> v]

VARIABLES
  shelf,   \* [at, size, circle, authors] of each work: its effective metadata
  tagged,  \* collection_tags: pairs of a work and a tag
  tags,    \* tags: the names
  views,   \* saved_views: the query of each id
  home,    \* shelf_configuration: the shelf at each position that has a row
  held     \* the composition a client read last

shelfVars == <<shelf, tagged, tags>>
homeVars  == <<views, home, held>>

SameText(a, b) == a # Blank /\ b # Blank /\ a[1] = b[1]

-----------------------------------------------------------------------------
(* Queries *)

\* a query that asks for nothing in particular: a scalar is given once, any number of tags
Everything == [circle |-> Unset, author |-> Unset, tag |-> {}, untagged |-> FALSE,
               missing |-> FALSE, source |-> Unset, sort |-> "created", asc |-> FALSE]

OnShelf(w)  == shelf[w].at \in Roots
Authors(w)  == {shelf[w].authors[i] : i \in DOMAIN shelf[w].authors}
TagsOf(w)   == {n \in Names : <<w, n>> \in tagged}
Missing(w)  == shelf[w].circle = Blank \/ shelf[w].authors = <<>>

Matches(w, q) ==
  /\ OnShelf(w)
  /\ q.circle # Unset => SameText(shelf[w].circle, q.circle)
  /\ q.author # Unset => \E a \in Authors(w) : SameText(a, q.author)
  /\ \A t \in q.tag : \E n \in TagsOf(w) : SameText(n, t)
  /\ q.untagged => TagsOf(w) = {}
  /\ q.missing => Missing(w)
  /\ q.source # Unset => shelf[w].at = q.source

\* collection_order: unknown sizes last, ties by id
Before(q, v, w) ==
  LET x == shelf[v].size
      y == shelf[w].size
  IN \/ q.sort = "created" /\ IF q.asc THEN v < w ELSE v > w
     \/ q.sort = "size" /\ x # Unknown /\ y = Unknown
     \/ q.sort = "size" /\ x # Unknown /\ y # Unknown /\ IF q.asc THEN x < y ELSE x > y
     \/ q.sort = "size" /\ x = y /\ v > w

Results(q) == {w \in Works : Matches(w, q)}
Total(q)   == Cardinality(Results(q))
PerPage(n) == IF n < 1 THEN 1 ELSE IF n > MaxPerPage THEN MaxPerPage ELSE n

\* ORDER BY collection_order
Listing(q) == CHOOSE s \in SetToSeqs(Results(q)) :
                \A i, j \in DOMAIN s : i < j => Before(q, s[i], s[j])

Page(q, page, perPage) ==
  LET listed == Listing(q)
      first  == (IF page < 1 THEN 0 ELSE page - 1) * PerPage(perPage)
      last   == IF first + PerPage(perPage) < Len(listed) THEN first + PerPage(perPage)
                ELSE Len(listed)
  IN SubSeq(listed, first + 1, last)

\* locate_collection: row_number() of a work among the results, and its page
PositionOf(w, q) == 1 + Cardinality({v \in Results(q) : Before(q, v, w)})
PageOf(w, q, perPage) == ((PositionOf(w, q) - 1) \div PerPage(perPage)) + 1

-----------------------------------------------------------------------------
(* Facets and statistics *)

\* the rows a facet is grouped from
FacetRows(field) ==
  CASE field = "circle" -> {<<shelf[w].circle, w>> : w \in {v \in Works : shelf[v].circle # Blank}}
    [] field = "author" -> UNION {{<<a, w>> : a \in Authors(w)} : w \in Works}
    [] OTHER            -> {<<p[2], p[1]>> : p \in tagged}

\* the facets as they would be without DISTINCT
FacetsOfRows(field) ==
  LET rows == {r \in FacetRows(field) : OnShelf(r[2])}
  IN {[name  |-> CHOOSE n \in {r[1] : r \in {s \in rows : s[1][1] = x}} :
                   \A r \in rows : r[1][1] = x => n[2] <= r[1][2],
       count |-> Cardinality({s \in rows : s[1][1] = x})]
      : x \in {r[1][1] : r \in rows}}

\* groups by letters; a group has its least spelling, and counts each work once
Facets(field) ==
  LET rows == {r \in FacetRows(field) : OnShelf(r[2])}
  IN {[name  |-> CHOOSE n \in {r[1] : r \in {s \in rows : s[1][1] = x}} :
                   \A r \in rows : r[1][1] = x => n[2] <= r[1][2],
       count |-> Cardinality({r[2] : r \in {s \in rows : s[1][1] = x}})]
      : x \in {r[1][1] : r \in rows}}

Statistics ==
  [total   |-> Cardinality({w \in Works : OnShelf(w)}),
   tagged  |-> Cardinality({p[1] : p \in {s \in tagged : OnShelf(s[1])}}),
   missing |-> Cardinality({w \in Works : OnShelf(w) /\ Missing(w)})]

\* the review queue of works with missing fields
ReviewQueue == {w \in Works : OnShelf(w) /\ Missing(w)}

-----------------------------------------------------------------------------
(* Tags, and what the rest of the program does to the works *)

AddTag(w, n) ==
  /\ tags' = tags \cup {n} /\ tagged' = tagged \cup {<<w, n>>}
  /\ UNCHANGED <<shelf, homeVars>>

\* the tag goes with its last use
RemoveTag(w, n) ==
  /\ n \in tags
  /\ tagged' = tagged \ {<<w, n>>}
  /\ tags' = IF <<w, n>> \in tagged /\ \A v \in Works \ {w} : <<v, n>> \notin tagged
             THEN tags \ {n} ELSE tags
  /\ UNCHANGED <<shelf, homeVars>>

\* rebuild_projection after a change of the metadata (see CollectionMetadata)
Describe(w, circle, authors) ==
  /\ shelf' = [shelf EXCEPT ![w].circle = circle, ![w].authors = authors]
  /\ UNCHANGED <<tagged, tags, homeVars>>

\* a scan, a file operation or a consolidation (see FileOperations, LibraryScan)
Place(w, at, size) ==
  /\ shelf' = [shelf EXCEPT ![w].at = at, ![w].size = size]
  /\ UNCHANGED <<tagged, tags, homeVars>>

-----------------------------------------------------------------------------
(* Saved views and the home page *)

\* saved_view_query, encode_query: the filters and the order, not the page
Stored(request) == [f \in DOMAIN Everything |-> request[f]]

NewViewId == IF DOMAIN views = {} THEN 1 ELSE 1 + Max(DOMAIN views)

CreateView(request) ==
  /\ NewViewId <= MaxViews
  /\ views' = [v \in DOMAIN views \cup {NewViewId} |->
                 IF v = NewViewId THEN Stored(request) ELSE views[v]]
  /\ UNCHANGED <<home, held, shelfVars>>

UpdateView(v, request) ==
  /\ v \in DOMAIN views
  /\ views' = [views EXCEPT ![v] = Stored(request)]
  /\ UNCHANGED <<home, held, shelfVars>>

\* ON DELETE CASCADE takes the shelf of the view with it, and leaves its position empty
DeleteView(v) ==
  /\ v \in DOMAIN views
  /\ views' = [u \in DOMAIN views \ {v} |-> views[u]]
  /\ home' = [p \in {r \in DOMAIN home : home[r] # ViewShelf(v)} |-> home[p]]
  /\ UNCHANGED <<held, shelfVars>>

DefaultHome == [p \in 0 .. 2 |-> Shelf(<<"recent", "featured", "event">>[p + 1])]

\* ORDER BY position
HomeOrder == CHOOSE s \in SetToSeqs(DOMAIN home) : \A i, j \in DOMAIN s : i < j => s[i] < s[j]

\* the rows with the positions they are stored under
CompositionAsStored ==
  LET order == HomeOrder
  IN [i \in 1 .. Len(order) |-> [position |-> order[i], shelf |-> home[order[i]]]]

\* shelf_configuration: the rows in order, renumbered
Composition ==
  LET order == HomeOrder
  IN [i \in 1 .. Len(order) |-> [position |-> i - 1, shelf |-> home[order[i]]]]

\* validate_items, and that every view exists
Accepted(items) ==
  /\ \A i \in DOMAIN items : items[i].position = i - 1
  /\ \A i, j \in DOMAIN items : items[i].shelf = items[j].shelf => i = j
  /\ \A b \in BuiltIns : \E i \in DOMAIN items : items[i].shelf = Shelf(b)
  /\ \A i \in DOMAIN items :
       items[i].shelf.kind = "saved_view" => items[i].shelf.view \in DOMAIN views

ReadHome == held' = Composition /\ UNCHANGED <<views, home, shelfVars>>

Renumbered(items) == [i \in DOMAIN items |-> [items[i] EXCEPT !.position = i - 1]]

Exchanged(items, i, j) ==
  [items EXCEPT ![i].shelf = items[j].shelf, ![j].shelf = items[i].shelf]

WithView(items, v) == Append(items, [position |-> Len(items), shelf |-> ViewShelf(v)])

\* a client sends its composition back with two shelves exchanged, with a view put at its
\* end, or without one of its shelves, numbered anew or not
Edits ==
  {held}
  \cup {Exchanged(held, i, j) : i, j \in DOMAIN held} \cup {WithView(held, v) : v \in 1 .. MaxViews}
  \cup {RemoveAt(held, i) : i \in DOMAIN held} \cup {Renumbered(RemoveAt(held, i)) : i \in DOMAIN held}

WriteHome(items) ==
  /\ Accepted(items)
  /\ home' = [p \in 0 .. Len(items) - 1 |-> items[p + 1].shelf]
  /\ held' = items
  /\ UNCHANGED <<views, shelfVars>>

ResetHome ==
  /\ home' = DefaultHome
  /\ held' = [i \in 1 .. 3 |-> [position |-> i - 1, shelf |-> DefaultHome[i - 1]]]
  /\ UNCHANGED <<views, shelfVars>>

-----------------------------------------------------------------------------
LibraryInit ==
  /\ shelf = [w \in Works |-> [at |-> Nowhere, size |-> Unknown, circle |-> Blank,
                               authors |-> <<>>]]
  /\ tagged = {} /\ tags = {}
  /\ views = <<>> /\ home = DefaultHome /\ held = Composition

ShelfNext == \E w \in Works :
  \/ \E n \in Names : AddTag(w, n) \/ RemoveTag(w, n)
  \/ \E c \in Names \cup {Blank}, s \in AuthorLists : Describe(w, c, s)
  \/ \E at \in Roots, size \in Sizes \cup {Unknown} : Place(w, at, size)
  \/ \E at \in {Gone, Nowhere} : Place(w, at, Unknown)

HomeNext ==
  \/ \E q \in Saved :
       CreateView(q) \/ \E v \in DOMAIN views : UpdateView(v, q)
  \/ \E v \in DOMAIN views : DeleteView(v)
  \/ ReadHome \/ ResetHome \/ \E items \in Edits : WriteHome(items)

LibrarySpec == LibraryInit /\ [][ShelfNext \/ HomeNext]_<<shelfVars, homeVars>>

-----------------------------------------------------------------------------
\* The number beside an item is the number of works its link lists: a facet counts what the
\* query with that facet finds, in whatever case the texts are written, and the statistics
\* count what the query, the review queue and the untagged filter find
\* (statistics.rs collection_facets, collection_statistics against PreparedConditions).
NumbersAgree ==
  /\ \A f \in Facets("circle") : f.count = Total([Everything EXCEPT !.circle = f.name])
  /\ \A f \in Facets("author") : f.count = Total([Everything EXCEPT !.author = f.name])
  /\ \A f \in Facets("tag") : f.count = Total([Everything EXCEPT !.tag = {f.name}])
  /\ Statistics.total = Total(Everything)
  /\ Statistics.missing = Total([Everything EXCEPT !.missing = TRUE])
  /\ Statistics.missing = Cardinality(ReviewQueue)
  /\ Statistics.tagged + Total([Everything EXCEPT !.untagged = TRUE]) = Statistics.total

\* The page that locate_collection names holds the work, for every order, ties and unknown
\* sizes included, and for every number of works on a page.
LocatedIsOnItsPage ==
  \A q \in Requests, n \in 0 .. MaxPerPage + 1 : \A w \in Results(q) :
    w \in ToSet(Page(q, PageOf(w, q, n), n))

\* Whatever is asked about the shelf is true of the list a reader gets from it.
AnswersAgree == NumbersAgree /\ LocatedIsOnItsPage

\* What the home page is told it can write back, whatever views were deleted since it was
\* composed and whatever the ids of new views are (shelf_composition.rs).
HomeReadsBack == Accepted(Composition)

=============================================================================
