-------------------------- MODULE CollectionMetadata --------------------------
(***************************************************************************)
(* What the catalog says about a collection and why: assertions from the     *)
(* filename, the legacy catalog, a provider or the user, the one of them     *)
(* that is selected, the projection the shelf is read from, and the           *)
(* governance of names that rewrites projections and saved views.            *)
(*                                                                         *)
(* Abstractions.  One field stands for each (fields do not meet in the       *)
(* code), with one value per assertion.  Names are spellings that             *)
(* normalize_vocabulary_name makes equal.  A canonical entity is its name:   *)
(* the service never renames or deletes one.  What identifies an answer of   *)
(* a provider (its reference and all its confidence) is its Evidence; an     *)
(* answer below 0.75 only leaves a row nothing decides upon.                 *)
(***************************************************************************)
EXTENDS Naturals, FiniteSets

CONSTANTS
  Total,       \* number of collections
  Names,       \* spellings of one name
  MaxIds,      \* bound on the assertions
  MaxChoices,  \* bound on what the user asks for
  MaxMissing,  \* bound on the collections that are not current
  Null

ASSUME MetadataAssumption ==
  /\ MaxIds \in Nat /\ MaxChoices \in Nat /\ MaxMissing \in Nat /\ Null \notin Names
  /\ Total \in 1 .. MaxIds

Collections == 1 .. Total
Ids      == 1 .. MaxIds
Sources  == {"filename", "legacy", "external", "manual"}
Evidence == {"exact", "likely"}  \* an exact identifier and 0.95, or less
None     == [status |-> "none"]

VARIABLES
  status,     \* collections.status
  assertion,  \* metadata_assertions, each with its row of assertion_entities
  selection,  \* metadata_selections
  shown,      \* effective_metadata
  alias,      \* vocabulary_aliases, to the name of the entity
  apart,      \* vocabulary_exclusions
  view,       \* what a saved view asks for
  jobs,       \* collections with an external search under way
  chosen,     \* what the user last chose and did not take back (history)
  choices, merges

values   == <<assertion, selection, shown, chosen>>
evidence == <<values, choices>>
names    == <<alias, apart, view, merges>>
vars     == <<status, evidence, names, jobs>>

TypeOK ==
  /\ status \in [Collections -> {"active", "tombstone"}]
  /\ assertion \in [Ids -> {None} \cup
       [of : Collections, value : Names, source : Sources, evidence : Evidence \cup {"none"},
        status : {"candidate", "accepted", "rejected", "obsolete"}, entity : Names \cup {Null}]]
  /\ selection \in [Collections -> {None} \cup
       [id : Ids, by : {"priority", "migration", "manual"}]]
  /\ shown \in [Collections -> Names \cup {Null}]
  /\ alias \in [Names -> Names \cup {Null}]
  /\ \A pair \in apart : pair \subseteq Names /\ Cardinality(pair) = 2
  /\ view \in Names \cup {Null}
  /\ jobs \subseteq Collections
  /\ chosen \in [Collections -> Names \cup {Null}]
  /\ choices \in 0 .. MaxChoices
  /\ merges \in 0 .. MaxChoices

Claim(c, v, source, ev, st) ==
  [of |-> c, value |-> v, source |-> source, evidence |-> ev, status |-> st, entity |-> Null]

(* Every collection was scanned, or imported from the legacy catalog. *)
Init ==
  \E first \in [Collections -> Names], source \in [Collections -> {"filename", "legacy"}] :
    /\ status = [c \in Collections |-> "active"]
    /\ assertion = [i \in Ids |-> IF i \in Collections
                                  THEN Claim(i, first[i], source[i], "none", "accepted") ELSE None]
    /\ selection = [c \in Collections |->
         [id |-> c, by |-> IF source[c] = "legacy" THEN "migration" ELSE "priority"]]
    /\ shown = first
    /\ alias = [n \in Names |-> Null]
    /\ apart = {} /\ view = Null /\ jobs = {}
    /\ chosen = [c \in Collections |-> Null]
    /\ choices = 0 /\ merges = 0

-----------------------------------------------------------------------------
(* Selection and projection, as functions of the tables they read. *)

Own(as, c) == {i \in Ids : as[i] # None /\ as[i].of = c}

Priority(source) ==
  CASE source = "manual" -> 400 [] source = "legacy" -> 350
    [] source = "external" -> 300 [] source = "filename" -> 200

Before(as, i, j) ==
  \/ Priority(as[i].source) > Priority(as[j].source)
  \/ Priority(as[i].source) = Priority(as[j].source) /\ i >= j

Accepted(as, c) == {i \in Own(as, c) : as[i].status = "accepted"}

Best(as, c) ==
  IF Accepted(as, c) = {} THEN None
  ELSE [id |-> CHOOSE i \in Accepted(as, c) : \A j \in Accepted(as, c) : Before(as, i, j),
        by |-> "priority"]

Reselected(as, sel, c, preserve) ==
  IF preserve /\ sel[c] # None /\ sel[c].by \in {"manual", "migration"} THEN sel
  ELSE [sel EXCEPT ![c] = Best(as, c)]

Protected(c) ==
  selection[c] # None /\ (\/ selection[c].by \in {"manual", "migration"}
                          \/ assertion[selection[c].id].source \in {"manual", "legacy"})

ByHand(sel, as, c) ==
  sel[c] # None /\ (sel[c].by = "manual" \/ as[sel[c].id].source = "manual")

CanonicalName(a, al) ==
  CASE a.entity # Null -> a.entity
    [] a.entity = Null /\ a.source # "manual" /\ al[a.value] # Null -> al[a.value]
    [] OTHER -> a.value

Projected(as, sel, al, c) == IF sel[c] = None THEN Null ELSE CanonicalName(as[sel[c].id], al)

Rebuilt(as, sel, al, cs) ==
  [c \in Collections |-> IF c \in cs THEN Projected(as, sel, al, c) ELSE shown[c]]

Fresh(i) == assertion[i] = None /\ \A j \in 1 .. i - 1 : assertion[j] # None

Active == {c \in Collections : status[c] = "active"}

-----------------------------------------------------------------------------
(* What the user does with the values of a collection. *)

Choose == choices < MaxChoices /\ choices' = choices + 1

SetManual(c, v) ==
  /\ Choose /\ c \in Active
  /\ \E n \in Ids :
       /\ Fresh(n)
       /\ assertion' = [i \in Ids |->
            CASE i = n -> Claim(c, v, "manual", "none", "accepted")
              [] i \in Accepted(assertion, c) /\ assertion[i].source = "manual" ->
                   [assertion[i] EXCEPT !.status = "obsolete"]
              [] OTHER -> assertion[i]]
       /\ selection' = [selection EXCEPT ![c] = [id |-> n, by |-> "manual"]]
  /\ shown' = Rebuilt(assertion', selection', alias, {c})
  /\ chosen' = [chosen EXCEPT ![c] = v]
  /\ UNCHANGED <<status, names, jobs>>

SelectAssertion(c, i) ==
  /\ Choose /\ c \in Active /\ i \in Own(assertion, c)
  /\ assertion[i].status \in {"candidate", "accepted"}
  /\ assertion' = [assertion EXCEPT ![i].status = "accepted"]
  /\ selection' = [selection EXCEPT ![c] = [id |-> i, by |-> "manual"]]
  /\ shown' = Rebuilt(assertion', selection', alias, {c})
  /\ chosen' = [chosen EXCEPT ![c] = assertion[i].value]
  /\ UNCHANGED <<status, names, jobs>>

RejectAssertion(c, i) ==
  LET selected == selection[c] # None /\ selection[c].id = i
  IN  /\ Choose /\ c \in Active /\ i \in Own(assertion, c)
      /\ assertion[i].status \in {"candidate", "accepted"}
      /\ assertion' = [assertion EXCEPT ![i].status = "rejected"]
      /\ selection' = IF selected THEN Reselected(assertion', selection, c, FALSE)
                      ELSE selection
      /\ shown' = IF selected THEN Rebuilt(assertion', selection', alias, {c}) ELSE shown
      /\ chosen' = IF selected THEN [chosen EXCEPT ![c] = Null] ELSE chosen
      /\ UNCHANGED <<status, names, jobs>>

ClearManual(c) ==
  LET manual   == {i \in Own(assertion, c) : assertion[i].source = "manual"
                                             /\ assertion[i].status \in {"candidate", "accepted"}}
      selected == selection[c] # None /\ assertion[selection[c].id].source = "manual"
  IN  /\ Choose /\ c \in Active /\ manual # {}
      /\ assertion' = [i \in Ids |-> IF i \in manual
                                     THEN [assertion[i] EXCEPT !.status = "obsolete"]
                                     ELSE assertion[i]]
      /\ selection' = IF selected THEN Reselected(assertion', selection, c, FALSE)
                      ELSE selection
      /\ shown' = IF selected THEN Rebuilt(assertion', selection', alias, {c}) ELSE shown
      /\ chosen' = IF selected THEN [chosen EXCEPT ![c] = Null] ELSE chosen
      /\ UNCHANGED <<status, names, jobs>>

-----------------------------------------------------------------------------
(* External searches: queued for a current collection, answered at any time *)
(* after, when it may have gone missing or the user may have decided.        *)

QueueSearch(c) ==
  /\ Choose /\ c \in Active \ jobs
  /\ jobs' = jobs \cup {c}
  /\ UNCHANGED <<status, values, names>>

(* It failed, or what it found is known already. *)
EndSearch(c) ==
  /\ c \in jobs
  /\ jobs' = jobs \ {c}
  /\ UNCHANGED <<status, evidence, names>>

Rank(i) ==
  LET st == CASE assertion[i].status = "accepted" -> 4 [] assertion[i].status = "candidate" -> 3
              [] assertion[i].status = "rejected" -> 2 [] OTHER -> 1
  IN  (IF \E c \in Collections : selection[c] # None /\ selection[c].id = i THEN 10 ELSE 0) + st

Same(c, v, e) == {i \in Own(assertion, c) : /\ assertion[i].source = "external"
                                            /\ assertion[i].value = v
                                            /\ assertion[i].evidence = e}

Matching(c, v, e) ==
  LET same == Same(c, v, e)
  IN  IF same = {} THEN Null
      ELSE CHOOSE i \in same : \A j \in same : Rank(i) > Rank(j) \/ (Rank(i) = Rank(j) /\ i >= j)

(* save_external_candidate *)
Answer(c, v, e) ==
  LET auto == e = "exact" /\ ~Protected(c)
      m    == Matching(c, v, e)
      adopt(as) == /\ assertion' = as
                   /\ selection' = IF auto THEN Reselected(as, selection, c, TRUE) ELSE selection
                   /\ shown' = IF auto THEN Rebuilt(as, selection', alias, {c}) ELSE shown
  IN  /\ c \in jobs
      /\ \/ /\ m = Null
            /\ \E n \in Ids : Fresh(n) /\ adopt([assertion EXCEPT
                 ![n] = Claim(c, v, "external", e, IF auto THEN "accepted" ELSE "candidate")])
         \/ /\ m # Null /\ auto
            /\ assertion[m].status \in {"candidate", "accepted"}
            /\ adopt([assertion EXCEPT ![m].status = "accepted"])
      /\ jobs' = jobs \ {c}
      /\ UNCHANGED <<status, chosen, choices, names>>

(* mark_collection_missing, of a scan *)
GoMissing(c) ==
  /\ c \in Active /\ Cardinality(Collections \ Active) < MaxMissing
  /\ status' = [status EXCEPT ![c] = "tombstone"]
  /\ UNCHANGED <<evidence, names, jobs>>

-----------------------------------------------------------------------------
(* Governance of names. *)

Selected(c) == IF selection[c] = None THEN Null ELSE assertion[selection[c].id].value
InUse       == {Selected(c) : c \in {d \in Active : selection[d] # None}}

(* vocabulary_candidates: the connected parts of the names in use, two of    *)
(* them joined unless they were told apart, that are not yet one entity      *)
Separate(S) == \A u \in S, v \in InUse \ S : {u, v} \in apart
Groups ==
  {S \in SUBSET InUse :
     /\ Cardinality(S) > 1 /\ Separate(S)
     /\ \A T \in SUBSET S \ {{}, S} : ~Separate(T)
     /\ ~(\E e \in Names : \A n \in S : alias[n] = e)}

RejectGroup(S) ==
  /\ Choose /\ S \in Groups
  /\ apart' = apart \cup {pair \in SUBSET S : Cardinality(pair) = 2}
  /\ UNCHANGED <<status, values, alias, view, merges, jobs>>

(* ensure_vocabulary_entity *)
EntityOf(canonical) == IF alias[canonical] # Null THEN alias[canonical] ELSE canonical

(* Mutant: saved views keep the spelling they were saved with. *)
ViewAsSaved(canonical, variants) == view

Rewritten(canonical, variants) == IF view \in variants THEN canonical ELSE view

(* Mutant: only collections without a value of the user are rebuilt. *)
UserValuesStay(variants) ==
  {c \in Active : selection[c] # None /\ Selected(c) \in variants /\ ~ByHand(selection, assertion, c)}

Affected(variants) == {c \in Active : selection[c] # None /\ Selected(c) \in variants}

Merge(canonical, variants) ==
  LET entity == EntityOf(canonical)
      here   == Affected(variants)
  IN  /\ Choose /\ Cardinality(variants) >= 2
      /\ alias' = [n \in Names |-> IF n \in variants THEN entity ELSE alias[n]]
      /\ assertion' = [i \in Ids |-> IF \E c \in Active : Selected(c) \in variants /\ selection[c].id = i
                                     THEN [assertion[i] EXCEPT !.entity = entity]
                                     ELSE assertion[i]]
      /\ view' = Rewritten(canonical, variants)
      /\ shown' = Rebuilt(assertion', selection, alias', here)
      /\ merges' = merges + 1
      /\ UNCHANGED <<status, selection, chosen, apart, jobs>>

SaveView(v) ==
  /\ Choose /\ view = Null /\ v \in {shown[c] : c \in Active} \ {Null}
  /\ view' = v
  /\ UNCHANGED <<status, values, alias, apart, merges, jobs>>

-----------------------------------------------------------------------------
UserStep ==
  \/ \E c \in Collections, v \in Names : SetManual(c, v)
  \/ \E c \in Collections, i \in Ids : SelectAssertion(c, i)
  \/ \E c \in Collections, i \in Ids : RejectAssertion(c, i)
  \/ \E c \in Collections : ClearManual(c)

GovernanceStep ==
  \/ \E S \in SUBSET Names : RejectGroup(S)
  \/ \E n \in Names, S \in SUBSET Names : Merge(n, S)
  \/ \E v \in Names : SaveView(v)

SearchStep ==
  \/ \E c \in Collections : QueueSearch(c)
  \/ \E c \in Collections, v \in Names, e \in Evidence : Answer(c, v, e)
  \/ \E c \in Collections : EndSearch(c)

Next ==
  \/ UserStep
  \/ GovernanceStep
  \/ SearchStep
  \/ \E c \in Collections : GoMissing(c)

Spec == Init /\ [][Next]_vars
=============================================================================
