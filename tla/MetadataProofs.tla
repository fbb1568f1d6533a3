--------------------------- MODULE MetadataProofs ---------------------------
(* Theorems about the values of collections and their consolidation, for    *)
(* every number of collections and every set of names.                      *)
EXTENDS Curation, WellFoundedInduction, TLAPS

-----------------------------------------------------------------------------
(* Rows and the absence of one.                                             *)
AssertionRow == [of : Collections, value : Names, source : Sources,
                 evidence : Evidence \cup {"none"},
                 status : {"candidate", "accepted", "rejected", "obsolete"},
                 entity : Names \cup {Null}]

SelectionRow == [id : Ids, by : {"priority", "migration", "manual"}]

LEMMA RowsAreSomething ==
  /\ \A row \in AssertionRow : row # None
  /\ \A row \in SelectionRow : row # None
<1>1. \A row \in AssertionRow : row.status # None.status
  BY DEF AssertionRow, None
<1>2. \A row \in SelectionRow : DOMAIN row # DOMAIN None
  <2>1. DOMAIN None = {"status"}
    BY DEF None
  <2>2. \A row \in SelectionRow : "id" \in DOMAIN row
    BY DEF SelectionRow
  <2> QED BY <2>1, <2>2
<1> QED BY <1>1, <1>2

LEMMA CollectionsAreIds == Collections \subseteq Ids /\ Collections \subseteq Nat
BY MetadataAssumption DEF Collections, Ids

(* Among the accepted values of a collection there is a best one: the       *)
(* highest priority, and of those with it the latest.                       *)
LEMMA LatestId ==
  ASSUME NEW S, S \subseteq Ids, S # {}
  PROVE  \E i \in S : \A j \in S : i >= j
<1> DEFINE Ages == {MaxIds - i : i \in S}
<1>1. Ages \subseteq Nat /\ Ages # {}
  BY MetadataAssumption DEF Ids
<1>2. PICK m \in Ages : \A k \in Ages : <<k, m>> \notin OpToRel(<, Nat)
  BY <1>1, WFMin, NatLessThanWellFounded
<1>3. \A k \in Ages : ~(k < m)
  BY <1>1, <1>2, Zenon DEF OpToRel
<1>4. PICK i \in S : m = MaxIds - i
  OBVIOUS
<1>5. ASSUME NEW j \in S PROVE i >= j
  <2>1. MaxIds - j \in Ages
    OBVIOUS
  <2>2. ~(MaxIds - j < MaxIds - i)
    BY <1>3, <1>4, <2>1
  <2> QED BY <2>2, MetadataAssumption DEF Ids
<1> QED BY <1>5

LEMMA PriorityValues ==
  /\ Priority("manual") = 400 /\ Priority("legacy") = 350
  /\ Priority("external") = 300 /\ Priority("filename") = 200
BY DEF Priority

LEMMA PriorityOrder ==
  /\ \A s \in Sources : s = "manual" \/ Priority("manual") > Priority(s)
  /\ \A s \in Sources \ {"manual"} : s = "legacy" \/ Priority("legacy") > Priority(s)
  /\ Priority("external") > Priority("filename")
<1> USE PriorityValues
<1>1. 400 > 350 /\ 400 > 300 /\ 400 > 200 /\ 350 > 300 /\ 350 > 200 /\ 300 > 200
  OBVIOUS
<1>2. /\ Priority("manual") > Priority("legacy") /\ Priority("manual") > Priority("external")
      /\ Priority("manual") > Priority("filename") /\ Priority("legacy") > Priority("external")
      /\ Priority("legacy") > Priority("filename") /\ Priority("external") > Priority("filename")
  BY <1>1
<1> QED BY <1>2 DEF Sources

LEMMA HighestPriority ==
  ASSUME NEW as, NEW S, S \subseteq Ids, S # {}, \A i \in S : as[i].source \in Sources
  PROVE  \E i \in S : \A j \in S : Before(as, i, j)
<1>1. ASSUME NEW p \in Sources, NEW k \in S, as[k].source = p,
             \A j \in S : as[j].source = p \/ Priority(p) > Priority(as[j].source)
      PROVE  \E i \in S : \A j \in S : Before(as, i, j)
  <2> DEFINE T == {j \in S : as[j].source = p}
  <2>1. T \subseteq Ids /\ T # {}
    BY <1>1
  <2> HIDE DEF T
  <2>2. PICK i \in T : \A j \in T : i >= j
    BY <2>1, LatestId
  <2>3. i \in S /\ as[i].source = p
    BY DEF T
  <2>4. ASSUME NEW j \in S PROVE Before(as, i, j)
    <3>1. CASE as[j].source = p
      BY <2>2, <2>3, <3>1 DEF T, Before
    <3>2. CASE Priority(p) > Priority(as[j].source)
      BY <2>3, <3>2 DEF Before
    <3> QED BY <1>1, <3>1, <3>2
  <2> QED BY <2>3, <2>4
<1> USE PriorityOrder DEF Sources
<1>2. CASE \E k \in S : as[k].source = "manual"
  BY <1>1, <1>2
<1>3. CASE (\A k \in S : as[k].source # "manual") /\ \E k \in S : as[k].source = "legacy"
  BY <1>1, <1>3
<1>4. CASE /\ \A k \in S : as[k].source \notin {"manual", "legacy"}
           /\ \E k \in S : as[k].source = "external"
  BY <1>1, <1>4
<1>5. CASE \A k \in S : as[k].source = "filename"
  BY <1>1, <1>5
<1> QED BY <1>2, <1>3, <1>4, <1>5

LEMMA BestAccepted ==
  ASSUME NEW as, NEW c, Accepted(as, c) # {},
         \A i \in Accepted(as, c) : as[i].source \in Sources
  PROVE  Best(as, c).id \in Accepted(as, c) /\ Best(as, c) \in SelectionRow
<1> DEFINE best == CHOOSE i \in Accepted(as, c) : \A j \in Accepted(as, c) : Before(as, i, j)
<1>1. Accepted(as, c) \subseteq Ids
  BY DEF Accepted, Own
<1>2. best \in Accepted(as, c)
  BY <1>1, HighestPriority
<1>3. Best(as, c) = [id |-> best, by |-> "priority"]
  BY DEF Best
<1> HIDE DEF best
<1>4. best \in Ids
  BY <1>1, <1>2
<1>5. [id |-> best, by |-> "priority"] \in SelectionRow
  BY <1>4 DEF SelectionRow
<1>6. [id |-> best, by |-> "priority"].id = best
  OBVIOUS
<1> QED BY <1>2, <1>3, <1>5, <1>6

-----------------------------------------------------------------------------
(* Types.  A selection names an assertion that is there, and every merge of *)
(* names was a choice of the user.                                          *)
SelectionValid ==
  \A c \in Collections : selection[c] # None => assertion[selection[c].id] # None

TypeInv == IdTypeOK /\ merges <= choices /\ SelectionValid

Rows       == [Ids -> {None} \cup AssertionRow]
Selections == [Collections -> {None} \cup SelectionRow]

LEMMA TableTypes ==
  ASSUME TypeInv
  PROVE  /\ assertion \in Rows /\ selection \in Selections
         /\ shown \in [Collections -> Names \cup {Null}]
         /\ chosen \in [Collections -> Names \cup {Null}]
         /\ alias \in [Names -> Names \cup {Null}]
BY DEF TypeInv, IdTypeOK, TypeOK, Rows, Selections, AssertionRow, SelectionRow

(* What is shown is a name, or nothing. *)
LEMMA ProjectedName ==
  ASSUME NEW as \in Rows, NEW sel \in Selections, NEW al \in [Names -> Names \cup {Null}],
         NEW c \in Collections, sel[c] # None => as[sel[c].id] # None
  PROVE  Projected(as, sel, al, c) \in Names \cup {Null}
<1>1. CASE sel[c] = None
  BY <1>1 DEF Projected
<1>2. CASE sel[c] # None
  <2>1. sel[c] \in SelectionRow /\ sel[c].id \in Ids
    BY <1>2 DEF Selections, SelectionRow
  <2>2. as[sel[c].id] \in AssertionRow
    BY <1>2, <2>1 DEF Rows
  <2> PICK a \in AssertionRow : a = as[sel[c].id]
    BY <2>2
  <2>3. CanonicalName(a, al) \in Names \cup {Null}
    <3>1. a.value \in Names /\ a.entity \in Names \cup {Null}
      BY DEF AssertionRow
    <3>2. al[a.value] \in Names \cup {Null}
      BY <3>1
    <3> QED BY <3>1, <3>2 DEF CanonicalName
  <2> QED BY <1>2, <2>3 DEF Projected
<1> QED BY <1>1, <1>2

(* The best accepted value of a collection, or no selection. *)
LEMMA BestValid ==
  ASSUME NEW as \in Rows, NEW c \in Collections
  PROVE  /\ Best(as, c) \in {None} \cup SelectionRow
         /\ Best(as, c) # None => Best(as, c).id \in Own(as, c) /\ as[Best(as, c).id] # None
<1>1. CASE Accepted(as, c) = {}
  BY <1>1 DEF Best
<1>2. CASE Accepted(as, c) # {}
  <2>1. \A i \in Accepted(as, c) : i \in Own(as, c) /\ as[i] \in AssertionRow /\ as[i] # None
    BY DEF Accepted, Own, Rows
  <2>2. \A i \in Accepted(as, c) : as[i].source \in Sources
    BY <2>1 DEF AssertionRow
  <2>3. Best(as, c).id \in Accepted(as, c) /\ Best(as, c) \in SelectionRow
    BY <1>2, <2>2, BestAccepted
  <2> QED BY <2>1, <2>3
<1> QED BY <1>1, <1>2

LEMMA NewClaim ==
  ASSUME NEW c \in Collections, NEW v \in Names, NEW source \in Sources,
         NEW ev \in Evidence \cup {"none"}, NEW st \in {"candidate", "accepted"}
  PROVE  /\ Claim(c, v, source, ev, st) \in AssertionRow
         /\ Claim(c, v, source, ev, st) # None
         /\ Claim(c, v, source, ev, st).value = v /\ Claim(c, v, source, ev, st).source = source
         /\ Claim(c, v, source, ev, st).entity = Null
<1>1. Claim(c, v, source, ev, st) \in AssertionRow
  BY DEF Claim, AssertionRow
<1> QED BY <1>1, RowsAreSomething DEF Claim

(* Assertions stay with their value, whatever becomes of their status. *)
RowsGrow ==
  /\ assertion' \in Rows
  /\ \A i \in Ids : assertion[i] # None =>
       /\ assertion'[i] # None
       /\ assertion'[i].value = assertion[i].value
       /\ assertion'[i].source = assertion[i].source
       /\ assertion'[i].entity = assertion[i].entity
  /\ \A i \in Ids : assertion[i] = None => assertion'[i] = None \/ assertion'[i].entity = Null

(* What a step on the values of one collection may do: it keeps what is     *)
(* selected there, or selects and shows anew.                               *)
ValueOf(c) ==
  /\ RowsGrow
  /\ selection' \in Selections
  /\ chosen' \in [Collections -> Names \cup {Null}]
  /\ \A d \in Collections \ {c} :
       selection'[d] = selection[d] /\ shown'[d] = shown[d] /\ chosen'[d] = chosen[d]
  /\ selection'[c] # None => assertion'[selection'[c].id] # None
  /\ DOMAIN shown' = Collections /\ shown' = [d \in Collections |-> shown'[d]]
  /\ \/ /\ selection'[c] = selection[c] /\ shown'[c] = shown[c]
        /\ chosen'[c] = chosen[c]
     \/ /\ shown'[c] = Projected(assertion', selection', alias, c)
        /\ chosen'[c] # Null =>
             /\ selection'[c] # None /\ selection'[c].by = "manual"
             /\ assertion'[selection'[c].id].value = chosen'[c]
  /\ UNCHANGED <<status, names, idVars>>
  /\ jobs' \subseteq Collections
  /\ choices' \in Nat /\ choices <= choices' /\ choices' <= MaxChoices

(* A new status in a row. *)
LEMMA StatusRow ==
  ASSUME NEW row \in AssertionRow,
         NEW st \in {"candidate", "accepted", "rejected", "obsolete"}
  PROVE  /\ [row EXCEPT !.status = st] \in AssertionRow
         /\ [row EXCEPT !.status = st] # None
         /\ [row EXCEPT !.status = st].value = row.value
         /\ [row EXCEPT !.status = st].source = row.source
         /\ [row EXCEPT !.status = st].entity = row.entity
         /\ [row EXCEPT !.status = st].of = row.of
<1>1. [row EXCEPT !.status = st] \in AssertionRow
  BY DEF AssertionRow
<1> QED BY <1>1, RowsAreSomething DEF AssertionRow

LEMMA ChoiceCounted ==
  ASSUME TypeInv, Choose
  PROVE  choices' \in Nat /\ choices <= choices' /\ choices' <= MaxChoices
BY MetadataAssumption DEF TypeInv, IdTypeOK, TypeOK, Choose

LEMMA ShownUntouched ==
  ASSUME TypeInv, UNCHANGED shown
  PROVE  /\ DOMAIN shown' = Collections /\ shown' = [d \in Collections |-> shown'[d]]
         /\ \A d \in Collections : shown'[d] = shown[d]
BY DEF TypeInv, IdTypeOK, TypeOK

LEMMA ManualSet ==
  ASSUME TypeInv, NEW c \in Collections, NEW v \in Names, SetManual(c, v), UNCHANGED idVars
  PROVE  ValueOf(c)
<1>p. PICK n \in Ids :
        /\ Fresh(n)
        /\ assertion' = [i \in Ids |->
            CASE i = n -> Claim(c, v, "manual", "none", "accepted")
              [] i \in Accepted(assertion, c) /\ assertion[i].source = "manual" ->
                   [assertion[i] EXCEPT !.status = "obsolete"]
              [] OTHER -> assertion[i]]
        /\ selection' = [selection EXCEPT ![c] = [id |-> n, by |-> "manual"]]
  BY DEF SetManual
<1> DEFINE new == Claim(c, v, "manual", "none", "accepted")
<1>1. new \in AssertionRow /\ new # None /\ new.value = v /\ new.entity = Null
  BY NewClaim DEF Sources
<1> HIDE DEF new
<1>2. assertion \in Rows /\ selection \in Selections /\ chosen \in [Collections -> Names \cup {Null}]
  BY TableTypes
<1>3. ASSUME NEW i \in Ids
      PROVE  /\ assertion'[i] \in {None} \cup AssertionRow
             /\ assertion[i] # None => /\ assertion'[i] # None
                                       /\ assertion'[i].value = assertion[i].value
                                       /\ assertion'[i].source = assertion[i].source
                                       /\ assertion'[i].entity = assertion[i].entity
             /\ assertion[i] = None => assertion'[i] = None \/ assertion'[i].entity = Null
  <2>1. CASE i = n
    <3>1. assertion[i] = None /\ assertion'[i] = new
      BY <1>p, <2>1 DEF Fresh, Accepted, Own, new
    <3> QED BY <1>1, <3>1
  <2>2. CASE i # n /\ i \in Accepted(assertion, c) /\ assertion[i].source = "manual"
    <3>0. assertion[i] # None
      BY <2>2 DEF Accepted, Own
    <3>1. assertion'[i] = [assertion[i] EXCEPT !.status = "obsolete"]
      BY <1>p, <2>2
    <3>2. assertion[i] \in AssertionRow
      BY <1>2, <2>2 DEF Accepted, Own, Rows
    <3> QED BY <3>0, <3>1, <3>2, StatusRow
  <2>3. CASE i # n /\ ~(i \in Accepted(assertion, c) /\ assertion[i].source = "manual")
    <3>1. assertion'[i] = assertion[i]
      BY <1>p, <2>3
    <3> QED BY <1>2, <3>1 DEF Rows
  <2> QED BY <2>1, <2>2, <2>3
<1>4. RowsGrow
  BY <1>p, <1>3 DEF RowsGrow, Rows
<1>5. assertion'[n] = new
  BY <1>p DEF Fresh, Accepted, Own, new
<1>6. [id |-> n, by |-> "manual"] \in SelectionRow
  BY DEF SelectionRow
<1>7. /\ selection' \in Selections
      /\ \A d \in Collections \ {c} : selection'[d] = selection[d]
      /\ selection'[c] = [id |-> n, by |-> "manual"]
  BY <1>2, <1>6, <1>p DEF Selections
<1>8. selection'[c] # None /\ selection'[c].id = n /\ selection'[c].by = "manual"
  BY <1>6, <1>7, RowsAreSomething
<1>9. /\ chosen' \in [Collections -> Names \cup {Null}] /\ chosen'[c] = v
      /\ \A d \in Collections \ {c} : chosen'[d] = chosen[d]
  BY <1>2 DEF SetManual
<1>10. shown' = Rebuilt(assertion', selection', alias, {c}) /\ Choose
       /\ UNCHANGED <<status, names, jobs>>
  BY DEF SetManual
<1>11. shown'[c] = Projected(assertion', selection', alias, c)
       /\ DOMAIN shown' = Collections /\ shown' = [d \in Collections |-> shown'[d]]
       /\ \A d \in Collections \ {c} : shown'[d] = shown[d]
  BY <1>10 DEF Rebuilt
<1>12. jobs \subseteq Collections
  BY DEF TypeInv, IdTypeOK, TypeOK
<1> QED BY <1>1, <1>4, <1>5, <1>7, <1>8, <1>9, <1>10, <1>11, <1>12, ChoiceCounted DEF ValueOf

(* The status of some assertions of a collection changes. *)
LEMMA StatusesChange ==
  ASSUME TypeInv, NEW S \in SUBSET Ids, \A i \in S : assertion[i] # None,
         NEW st \in {"candidate", "accepted", "rejected", "obsolete"},
         assertion' = [i \in Ids |-> IF i \in S THEN [assertion[i] EXCEPT !.status = st]
                                                ELSE assertion[i]]
  PROVE  RowsGrow
<1>1. assertion \in Rows
  BY TableTypes
<1>2. ASSUME NEW i \in Ids
      PROVE  /\ assertion'[i] \in {None} \cup AssertionRow
             /\ assertion[i] # None => /\ assertion'[i] # None
                                       /\ assertion'[i].value = assertion[i].value
                                       /\ assertion'[i].source = assertion[i].source
                                       /\ assertion'[i].entity = assertion[i].entity
             /\ assertion[i] = None => assertion'[i] = None \/ assertion'[i].entity = Null
  <2>1. CASE i \in S
    <3>1. assertion[i] \in AssertionRow
      BY <1>1, <2>1 DEF Rows
    <3>2. assertion'[i] = [assertion[i] EXCEPT !.status = st]
      BY <2>1
    <3> QED BY <3>1, <3>2, StatusRow
  <2>2. CASE i \notin S
    <3>1. assertion'[i] = assertion[i]
      BY <2>2
    <3> QED BY <1>1, <3>1 DEF Rows
  <2> QED BY <2>1, <2>2
<1> QED BY <1>2 DEF RowsGrow, Rows

LEMMA StatusChanges ==
  ASSUME TypeInv, NEW m \in Ids, assertion[m] # None,
         NEW st \in {"candidate", "accepted", "rejected", "obsolete"},
         assertion' = [assertion EXCEPT ![m].status = st]
  PROVE  RowsGrow
<1>1. assertion \in [Ids -> {None} \cup AssertionRow]
  BY TableTypes DEF Rows
<1>2. assertion' = [i \in Ids |-> IF i \in {m} THEN [assertion[i] EXCEPT !.status = st]
                                               ELSE assertion[i]]
  BY <1>1
<1> DEFINE S == {m}
<1>3. S \in SUBSET Ids /\ \A i \in S : assertion[i] # None
  OBVIOUS
<1>4. assertion' = [i \in Ids |-> IF i \in S THEN [assertion[i] EXCEPT !.status = st]
                                             ELSE assertion[i]]
  BY <1>2
<1> HIDE DEF S
<1> QED BY <1>3, <1>4, StatusesChange

LEMMA AssertionSelected ==
  ASSUME TypeInv, NEW c \in Collections, NEW i \in Ids, SelectAssertion(c, i), UNCHANGED idVars
  PROVE  ValueOf(c)
<1>1. /\ Choose /\ assertion[i] # None
      /\ assertion' = [assertion EXCEPT ![i].status = "accepted"]
      /\ selection' = [selection EXCEPT ![c] = [id |-> i, by |-> "manual"]]
      /\ shown' = Rebuilt(assertion', selection', alias, {c})
      /\ chosen' = [chosen EXCEPT ![c] = assertion[i].value]
      /\ UNCHANGED <<status, names, jobs>>
  BY DEF SelectAssertion, Own
<1>2. RowsGrow
  BY <1>1, StatusChanges
<1>3. assertion \in Rows /\ selection \in Selections /\ chosen \in [Collections -> Names \cup {Null}]
  BY TableTypes
<1>4. assertion[i].value \in Names
  BY <1>1, <1>3 DEF Rows, AssertionRow
<1>5. [id |-> i, by |-> "manual"] \in SelectionRow
  BY DEF SelectionRow
<1>6. /\ selection' \in Selections
      /\ \A d \in Collections \ {c} : selection'[d] = selection[d]
      /\ selection'[c] = [id |-> i, by |-> "manual"]
  BY <1>1, <1>3, <1>5 DEF Selections
<1>7. selection'[c] # None /\ selection'[c].id = i /\ selection'[c].by = "manual"
  BY <1>5, <1>6, RowsAreSomething
<1>8. /\ chosen' \in [Collections -> Names \cup {Null}] /\ chosen'[c] = assertion[i].value
      /\ \A d \in Collections \ {c} : chosen'[d] = chosen[d]
  BY <1>1, <1>3, <1>4
<1>9. assertion'[i] # None /\ assertion'[i].value = assertion[i].value
  BY <1>1, <1>2 DEF RowsGrow
<1>10. shown'[c] = Projected(assertion', selection', alias, c)
       /\ DOMAIN shown' = Collections /\ shown' = [d \in Collections |-> shown'[d]]
       /\ \A d \in Collections \ {c} : shown'[d] = shown[d]
  BY <1>1 DEF Rebuilt
<1>11. jobs \subseteq Collections
  BY DEF TypeInv, IdTypeOK, TypeOK
<1> QED BY <1>1, <1>2, <1>6, <1>7, <1>8, <1>9, <1>10, <1>11, ChoiceCounted DEF ValueOf

(* Selecting anew what the priorities say. *)
LEMMA BestSelected ==
  ASSUME TypeInv, RowsGrow, NEW c \in Collections,
         selection' = [selection EXCEPT ![c] = Best(assertion', c)],
         shown' = Rebuilt(assertion', selection', alias, {c}),
         chosen' \in [Collections -> Names \cup {Null}], chosen'[c] = Null,
         \A d \in Collections \ {c} : chosen'[d] = chosen[d],
         UNCHANGED <<status, names, idVars>>, jobs' \subseteq Collections,
         choices' \in Nat, choices <= choices', choices' <= MaxChoices
  PROVE  ValueOf(c)
<1>1. assertion' \in Rows /\ selection \in Selections
  BY TableTypes DEF RowsGrow
<1> PICK as \in Rows : as = assertion'
  BY <1>1
<1> PICK best : best = Best(assertion', c)
  OBVIOUS
<1>2. /\ best \in {None} \cup SelectionRow
      /\ best # None => as[best.id] # None
  BY BestValid
<1>3. /\ selection' \in Selections /\ selection'[c] = best
      /\ \A d \in Collections \ {c} : selection'[d] = selection[d]
  BY <1>1, <1>2 DEF Selections
<1>4. shown'[c] = Projected(assertion', selection', alias, c)
      /\ DOMAIN shown' = Collections /\ shown' = [d \in Collections |-> shown'[d]]
      /\ \A d \in Collections \ {c} : shown'[d] = shown[d]
  BY DEF Rebuilt
<1> QED BY <1>2, <1>3, <1>4 DEF ValueOf

(* Nothing of what is selected changes. *)
LEMMA NothingSelected ==
  ASSUME TypeInv, RowsGrow, NEW c \in Collections,
         UNCHANGED <<selection, shown, chosen, status, names, idVars>>, jobs' \subseteq Collections,
         choices' \in Nat, choices <= choices', choices' <= MaxChoices
  PROVE  ValueOf(c)
<1>1. /\ selection \in Selections /\ shown \in [Collections -> Names \cup {Null}]
      /\ chosen \in [Collections -> Names \cup {Null}]
  BY TableTypes
<1>2. selection[c] # None => assertion'[selection[c].id] # None
  <2>1. selection[c] # None => selection[c].id \in Ids
    BY <1>1 DEF Selections, SelectionRow
  <2> QED BY <2>1 DEF TypeInv, SelectionValid, RowsGrow
<1> QED BY <1>1, <1>2 DEF ValueOf

LEMMA AssertionRejected ==
  ASSUME TypeInv, NEW c \in Collections, NEW i \in Ids, RejectAssertion(c, i), UNCHANGED idVars
  PROVE  ValueOf(c)
<1> DEFINE selected == selection[c] # None /\ selection[c].id = i
<1>1. /\ Choose /\ assertion[i] # None
      /\ assertion' = [assertion EXCEPT ![i].status = "rejected"]
      /\ selection' = IF selected THEN Reselected(assertion', selection, c, FALSE) ELSE selection
      /\ shown' = IF selected THEN Rebuilt(assertion', selection', alias, {c}) ELSE shown
      /\ chosen' = IF selected THEN [chosen EXCEPT ![c] = Null] ELSE chosen
      /\ UNCHANGED <<status, names, jobs>>
  BY DEF RejectAssertion, Own
<1>2. RowsGrow
  BY <1>1, StatusChanges
<1>3. jobs' \subseteq Collections /\ choices' \in Nat /\ choices <= choices' /\ choices' <= MaxChoices
  BY <1>1, ChoiceCounted DEF TypeInv, IdTypeOK, TypeOK
<1>4. CASE selected
  <2>1. selection' = [selection EXCEPT ![c] = Best(assertion', c)]
    BY <1>1, <1>4 DEF Reselected
  <2>2. /\ chosen' \in [Collections -> Names \cup {Null}] /\ chosen'[c] = Null
        /\ \A d \in Collections \ {c} : chosen'[d] = chosen[d]
    BY <1>1, <1>4, TableTypes
  <2>3. shown' = Rebuilt(assertion', selection', alias, {c})
    BY <1>1, <1>4
  <2> QED BY <1>1, <1>2, <1>3, <2>1, <2>2, <2>3, BestSelected
<1>5. CASE ~selected
  <2>1. UNCHANGED <<selection, shown, chosen>>
    BY <1>1, <1>5
  <2> QED BY <1>1, <1>2, <1>3, <2>1, NothingSelected
<1> QED BY <1>4, <1>5

LEMMA ManualCleared ==
  ASSUME TypeInv, NEW c \in Collections, ClearManual(c), UNCHANGED idVars
  PROVE  ValueOf(c)
<1> DEFINE manual == {i \in Own(assertion, c) : assertion[i].source = "manual"
                                                /\ assertion[i].status \in {"candidate", "accepted"}}
           selected == selection[c] # None /\ assertion[selection[c].id].source = "manual"
<1>1. /\ Choose
      /\ assertion' = [i \in Ids |-> IF i \in manual
                                     THEN [assertion[i] EXCEPT !.status = "obsolete"]
                                     ELSE assertion[i]]
      /\ selection' = IF selected THEN Reselected(assertion', selection, c, FALSE) ELSE selection
      /\ shown' = IF selected THEN Rebuilt(assertion', selection', alias, {c}) ELSE shown
      /\ chosen' = IF selected THEN [chosen EXCEPT ![c] = Null] ELSE chosen
      /\ UNCHANGED <<status, names, jobs>>
  BY DEF ClearManual
<1>a. manual \in SUBSET Ids /\ \A i \in manual : assertion[i] # None
  BY DEF Own
<1> HIDE DEF manual
<1>2. RowsGrow
  BY <1>1, <1>a, StatusesChange
<1>3. jobs' \subseteq Collections /\ choices' \in Nat /\ choices <= choices' /\ choices' <= MaxChoices
  BY <1>1, ChoiceCounted DEF TypeInv, IdTypeOK, TypeOK
<1>4. CASE selected
  <2>1. selection' = [selection EXCEPT ![c] = Best(assertion', c)]
    BY <1>1, <1>4 DEF Reselected
  <2>2. /\ chosen' \in [Collections -> Names \cup {Null}] /\ chosen'[c] = Null
        /\ \A d \in Collections \ {c} : chosen'[d] = chosen[d]
    BY <1>1, <1>4, TableTypes
  <2>3. shown' = Rebuilt(assertion', selection', alias, {c})
    BY <1>1, <1>4
  <2> QED BY <1>1, <1>2, <1>3, <2>1, <2>2, <2>3, BestSelected
<1>5. CASE ~selected
  <2>1. UNCHANGED <<selection, shown, chosen>>
    BY <1>1, <1>5
  <2> QED BY <1>1, <1>2, <1>3, <2>1, NothingSelected
<1> QED BY <1>4, <1>5

(* An answer only replaces what nobody chose. *)
LEMMA AnswerTaken ==
  ASSUME TypeInv, ChoiceStands, NEW c \in Collections, NEW v \in Names, NEW e \in Evidence,
         Answer(c, v, e), UNCHANGED idVars
  PROVE  ValueOf(c)
<1> DEFINE auto == e = "exact" /\ ~Protected(c)
           st   == IF auto THEN "accepted" ELSE "candidate"
           m    == Matching(c, v, e)
<1>1. PICK as :
        /\ \/ \E n \in Ids : Fresh(n) /\ as = [assertion EXCEPT ![n] = Claim(c, v, "external", e, st)]
           \/ /\ m # Null /\ assertion[m].status \in {"candidate", "accepted"}
              /\ as = [assertion EXCEPT ![m].status = "accepted"]
        /\ assertion' = as
        /\ selection' = IF auto THEN Reselected(as, selection, c, TRUE) ELSE selection
        /\ shown' = IF auto THEN Rebuilt(as, selection', alias, {c}) ELSE shown
  BY DEF Answer
<1>2. jobs' = jobs \ {c} /\ UNCHANGED <<status, chosen, choices, names>>
  BY DEF Answer
<1>3. assertion \in Rows /\ selection \in Selections /\ chosen \in [Collections -> Names \cup {Null}]
  BY TableTypes
<1> HIDE DEF m
<1>4. RowsGrow
  <2>1. ASSUME NEW n \in Ids, Fresh(n),
               as = [assertion EXCEPT ![n] = Claim(c, v, "external", e, st)]
        PROVE  RowsGrow
    <3>1. /\ Claim(c, v, "external", e, st) \in AssertionRow
          /\ Claim(c, v, "external", e, st).entity = Null
      BY NewClaim DEF Sources
    <3>2. assertion[n] = None
      BY <2>1 DEF Fresh
    <3> PICK new \in AssertionRow : new = Claim(c, v, "external", e, st)
      BY <3>1
    <3>3. assertion' = [assertion EXCEPT ![n] = new]
      BY <1>1, <2>1
    <3>4. new.entity = Null
      BY <3>1
    <3> QED BY <1>3, <3>2, <3>3, <3>4 DEF RowsGrow, Rows
  <2>2. ASSUME assertion[m].status \in {"candidate", "accepted"},
               as = [assertion EXCEPT ![m].status = "accepted"]
        PROVE  RowsGrow
    <3>0. assertion[m].status \in {"candidate", "accepted"}
      BY <2>2
    <3>1. CASE m \in Ids
      <4>0. None.status = "none"
        BY DEF None
      <4>1. assertion[m] # None
        <5> SUFFICES ASSUME assertion[m] = None PROVE FALSE
          OBVIOUS
        <5>1. assertion[m].status = "none"
          BY <4>0
        <5> QED BY <3>0, <5>1
      <4>2. assertion' = [assertion EXCEPT ![m].status = "accepted"]
        BY <1>1, <2>2
      <4> QED BY <3>1, <4>1, <4>2, StatusChanges
    <3>2. CASE m \notin Ids
      <4>1. assertion' = assertion
        BY <1>1, <1>3, <2>2, <3>2 DEF Rows
      <4> QED BY <1>3, <4>1 DEF RowsGrow
    <3> QED BY <3>1, <3>2
  <2> HIDE DEF st, auto
  <2> QED BY <1>1, <2>1, <2>2
<1>5. jobs' \subseteq Collections /\ choices' \in Nat /\ choices <= choices' /\ choices' <= MaxChoices
  BY <1>2 DEF TypeInv, IdTypeOK, TypeOK
<1>6. CASE auto
  <2>1. ~Protected(c)
    BY <1>6
  <2>2. chosen[c] = Null
    BY <2>1 DEF Protected, ChoiceStands, ByHand
  <2>3. ~(selection[c] # None /\ selection[c].by \in {"manual", "migration"})
    BY <2>1 DEF Protected
  <2>4. selection' = [selection EXCEPT ![c] = Best(assertion', c)]
    BY <1>1, <1>6, <2>3 DEF Reselected
  <2>5. shown' = Rebuilt(assertion', selection', alias, {c})
    BY <1>1, <1>6
  <2> QED BY <1>2, <1>3, <1>4, <1>5, <2>2, <2>4, <2>5, BestSelected
<1>7. CASE ~auto
  <2>1. UNCHANGED <<selection, shown>>
    BY <1>1, <1>7
  <2> QED BY <1>2, <1>4, <1>5, <2>1, NothingSelected
<1> QED BY <1>6, <1>7

-----------------------------------------------------------------------------
(* The invariants under a step on the values of one collection.  Before any *)
(* merge of names, no name has an alias and no value an entity.             *)
Unmerged ==
  merges = 0 => /\ \A n \in Names : alias[n] = Null
                /\ \A i \in Ids : assertion[i] # None => assertion[i].entity = Null

MetadataInv == TypeInv /\ ChoiceStands /\ ProjectionIsCurrent /\ Unmerged

LEMMA SelectedRow ==
  ASSUME TypeInv, NEW c \in Collections, selection[c] # None
  PROVE  /\ selection[c].id \in Ids /\ selection[c] \in SelectionRow
         /\ assertion[selection[c].id] # None /\ assertion[selection[c].id] \in AssertionRow
         /\ assertion[selection[c].id].value \in Names
BY TableTypes DEF TypeInv, SelectionValid, Selections, SelectionRow, Rows, AssertionRow

(* The projection reads the value, the source and the entity of one row. *)
LEMMA SameProjection ==
  ASSUME TypeInv, RowsGrow, NEW d \in Collections, selection'[d] = selection[d],
         UNCHANGED alias
  PROVE  /\ Projected(assertion', selection', alias', d) = Projected(assertion, selection, alias, d)
         /\ ByHand(selection, assertion, d) <=> ByHand(selection', assertion', d)
         /\ Selected(d)' = Selected(d)
         /\ selection'[d] # None => assertion'[selection'[d].id] # None
<1>1. CASE selection[d] = None
  BY <1>1 DEF Projected, ByHand, Selected
<1>2. CASE selection[d] # None
  <2> PICK i \in Ids : i = selection[d].id
    BY <1>2, SelectedRow
  <2>1. /\ assertion'[i].value = assertion[i].value /\ assertion'[i].source = assertion[i].source
        /\ assertion'[i].entity = assertion[i].entity /\ assertion'[i] # None
    BY <1>2, SelectedRow DEF RowsGrow
  <2>2. CanonicalName(assertion'[i], alias') = CanonicalName(assertion[i], alias)
    BY <2>1 DEF CanonicalName
  <2> QED BY <1>2, <2>1, <2>2 DEF Projected, ByHand, Selected
<1> QED BY <1>1, <1>2

LEMMA RowsKeepUnmerged ==
  ASSUME TypeInv, Unmerged, RowsGrow, UNCHANGED <<alias, merges>>
  PROVE  Unmerged'
<1>1. ASSUME NEW i \in Ids, merges = 0, assertion'[i] # None
      PROVE  assertion'[i].entity = Null
  BY <1>1 DEF Unmerged, RowsGrow
<1> QED BY <1>1 DEF Unmerged

LEMMA TypesOfValues ==
  ASSUME TypeInv, NEW c \in Collections, ValueOf(c)
  PROVE  TypeInv'
<1>1. SelectionValid'
  <2>1. ASSUME NEW d \in Collections, selection'[d] # None
        PROVE  assertion'[selection'[d].id] # None
    <3>1. CASE d = c
      BY <2>1, <3>1 DEF ValueOf
    <3>2. CASE d # c
      <4>1. selection'[d] = selection[d] /\ RowsGrow /\ UNCHANGED alias
        BY <3>2 DEF ValueOf, names
      <4> QED BY <2>1, <4>1, SameProjection
    <3> QED BY <3>1, <3>2
  <2> QED BY <2>1 DEF SelectionValid
<1>2. shown' \in [Collections -> Names \cup {Null}]
  <2>1. ASSUME NEW d \in Collections PROVE shown'[d] \in Names \cup {Null}
    <3>1. CASE shown'[d] = shown[d]
      BY <3>1, TableTypes
    <3>2. CASE d = c /\ shown'[c] = Projected(assertion', selection', alias, c)
      <4>1. /\ assertion' \in Rows /\ selection' \in Selections
            /\ selection'[c] # None => assertion'[selection'[c].id] # None
        BY DEF ValueOf, RowsGrow
      <4> PICK as \in Rows : as = assertion'
        BY <4>1
      <4> PICK sel \in Selections : sel = selection'
        BY <4>1
      <4>2. Projected(as, sel, alias, c) \in Names \cup {Null}
        BY <4>1, ProjectedName, TableTypes
      <4> QED BY <3>2, <4>2
    <3> QED BY <3>1, <3>2 DEF ValueOf
  <2>2. shown' = [d \in Collections |-> shown'[d]]
    BY DEF ValueOf
  <2> HIDE DEF ValueOf
  <2> QED BY <2>1, <2>2
<1>3. assertion' \in Rows /\ selection' \in Selections
  BY DEF ValueOf, RowsGrow
<1>4. TypeOK'
  BY <1>2, <1>3 DEF ValueOf, TypeInv, IdTypeOK, TypeOK, names, Rows, Selections, AssertionRow,
                    SelectionRow
<1>5. merges' <= choices'
  BY DEF ValueOf, TypeInv, IdTypeOK, TypeOK, names
<1> QED BY <1>1, <1>4, <1>5 DEF ValueOf, TypeInv, IdTypeOK, idVars

LEMMA ValuesKeep ==
  ASSUME MetadataInv, NEW c \in Collections, ValueOf(c)
  PROVE  MetadataInv' /\ merges' = merges
<1> USE DEF MetadataInv
<1>1. TypeInv'
  BY TypesOfValues
<1>2. /\ RowsGrow
      /\ UNCHANGED <<status, alias, merges>>
      /\ \A d \in Collections \ {c} : /\ selection'[d] = selection[d] /\ shown'[d] = shown[d]
                                      /\ chosen'[d] = chosen[d]
  BY DEF ValueOf, names
<1>3. Unmerged'
  BY <1>2, RowsKeepUnmerged
<1>4. ASSUME NEW d \in Collections, selection'[d] = selection[d], shown'[d] = shown[d],
             chosen'[d] = chosen[d]
      PROVE  /\ chosen'[d] # Null =>
                  ByHand(selection', assertion', d) /\ Selected(d)' = chosen'[d]
             /\ status'[d] = "active" => shown'[d] = Projected(assertion', selection', alias', d)
  BY <1>2, <1>4, SameProjection DEF ChoiceStands, ProjectionIsCurrent, Active
<1>5. ASSUME shown'[c] = Projected(assertion', selection', alias, c),
             chosen'[c] # Null =>
               /\ selection'[c] # None /\ selection'[c].by = "manual"
               /\ assertion'[selection'[c].id].value = chosen'[c]
      PROVE  /\ chosen'[c] # Null =>
                  ByHand(selection', assertion', c) /\ Selected(c)' = chosen'[c]
             /\ shown'[c] = Projected(assertion', selection', alias', c)
  BY <1>2, <1>5 DEF ByHand, Selected
<1>6. \A d \in Collections :
        /\ chosen'[d] # Null => ByHand(selection', assertion', d) /\ Selected(d)' = chosen'[d]
        /\ status'[d] = "active" => shown'[d] = Projected(assertion', selection', alias', d)
  BY <1>2, <1>4, <1>5 DEF ValueOf
<1>7. ChoiceStands'
  BY <1>6 DEF ChoiceStands
<1>8. ProjectionIsCurrent'
  BY <1>6 DEF ProjectionIsCurrent, Active
<1> QED BY <1>1, <1>2, <1>3, <1>7, <1>8

-----------------------------------------------------------------------------
(* A merge of names.                                                        *)

(* A new entity in a row. *)
LEMMA EntityRow ==
  ASSUME NEW row \in AssertionRow, NEW e \in Names
  PROVE  /\ [row EXCEPT !.entity = e] \in AssertionRow
         /\ [row EXCEPT !.entity = e] # None
         /\ [row EXCEPT !.entity = e].value = row.value
         /\ [row EXCEPT !.entity = e].source = row.source
         /\ [row EXCEPT !.entity = e].entity = e
<1>1. [row EXCEPT !.entity = e] \in AssertionRow
  BY DEF AssertionRow
<1> QED BY <1>1, RowsAreSomething DEF AssertionRow

(* What a merge does: the rows selected for one of the names get the entity, *)
(* the names its alias, and the collections that show them are rebuilt.      *)
Governed(canonical, variants, entity, rows) ==
  /\ entity \in Names /\ entity = EntityOf(canonical)
  /\ alias' = [n \in Names |-> IF n \in variants THEN entity ELSE alias[n]]
  /\ rows \subseteq Ids
  /\ \A i \in rows : assertion[i] \in AssertionRow /\ assertion[i].value \in variants
  /\ \A c \in Affected(variants) : selection[c].id \in rows
  /\ assertion' \in Rows
  /\ \A i \in rows : /\ assertion'[i] # None /\ assertion'[i].entity = entity
                     /\ assertion'[i].value = assertion[i].value
                     /\ assertion'[i].source = assertion[i].source
  /\ \A i \in Ids \ rows : assertion'[i] = assertion[i]
  /\ view' = Rewritten(canonical, variants)
  /\ DOMAIN shown' = Collections /\ shown' = [c \in Collections |-> shown'[c]]
  /\ \A c \in Affected(variants) : shown'[c] = Projected(assertion', selection, alias', c)
  /\ \A c \in Collections \ Affected(variants) : shown'[c] = shown[c]
  /\ merges' = merges + 1 /\ choices' = choices + 1 /\ choices < MaxChoices
  /\ UNCHANGED <<status, selection, chosen, apart, jobs, idVars>>

LEMMA EntityNamed ==
  ASSUME TypeInv, NEW canonical \in Names
  PROVE  EntityOf(canonical) \in Names
<1>1. alias[canonical] \in Names \cup {Null}
  BY TableTypes
<1> QED BY <1>1 DEF EntityOf

LEMMA MergeGoverns ==
  ASSUME TypeInv, NEW canonical \in Names, NEW variants \in SUBSET Names,
         Merge(canonical, variants), UNCHANGED idVars
  PROVE  \E rows : Governed(canonical, variants, EntityOf(canonical), rows)
<1> DEFINE rows == {i \in Ids : \E c \in Active : Selected(c) \in variants /\ selection[c].id = i}
<1> PICK entity \in Names : entity = EntityOf(canonical)
  BY EntityNamed
<1>1. /\ Choose
      /\ alias' = [n \in Names |-> IF n \in variants THEN entity ELSE alias[n]]
      /\ assertion' = [i \in Ids |-> IF \E c \in Active : Selected(c) \in variants /\ selection[c].id = i
                                     THEN [assertion[i] EXCEPT !.entity = entity]
                                     ELSE assertion[i]]
      /\ view' = Rewritten(canonical, variants)
      /\ shown' = Rebuilt(assertion', selection, alias', Affected(variants))
      /\ merges' = merges + 1
      /\ UNCHANGED <<status, selection, chosen, apart, jobs>>
  BY DEF Merge
<1>2. assertion' = [i \in Ids |-> IF i \in rows THEN [assertion[i] EXCEPT !.entity = entity]
                                                ELSE assertion[i]]
  BY <1>1
<1>3. ASSUME NEW i \in rows
      PROVE  assertion[i] \in AssertionRow /\ assertion[i].value \in variants
  <2>1. PICK c \in Active : Selected(c) \in variants /\ selection[c].id = i
    OBVIOUS
  <2>2. c \in Collections /\ selection[c] # None
    BY <2>1, MetadataAssumption DEF Selected, Active
  <2> QED BY <2>1, <2>2, SelectedRow DEF Selected
<1>4. \A c \in Affected(variants) : selection[c].id \in rows
  <2>1. ASSUME NEW c \in Affected(variants) PROVE selection[c].id \in rows
    <3>1. c \in Active /\ c \in Collections /\ selection[c] # None /\ Selected(c) \in variants
      BY DEF Affected, Active
    <3> QED BY <3>1, SelectedRow
  <2> QED BY <2>1
<1>5. rows \subseteq Ids
  OBVIOUS
<1> HIDE DEF rows
<1>6. ASSUME NEW i \in rows
      PROVE  /\ assertion'[i] \in AssertionRow
             /\ assertion'[i] # None /\ assertion'[i].entity = entity
             /\ assertion'[i].value = assertion[i].value
             /\ assertion'[i].source = assertion[i].source
  <2>1. assertion'[i] = [assertion[i] EXCEPT !.entity = entity]
    BY <1>2, <1>5
  <2> QED BY <1>3, <2>1, EntityRow
<1>7. \A i \in Ids \ rows : assertion'[i] = assertion[i]
  BY <1>2
<1>8. assertion' \in Rows
  <2>1. assertion' = [i \in Ids |-> assertion'[i]]
    BY <1>2
  <2>2. \A i \in Ids : assertion'[i] \in {None} \cup AssertionRow
    BY <1>6, <1>7, TableTypes DEF Rows
  <2> QED BY <2>1, <2>2 DEF Rows
<1>9. /\ DOMAIN shown' = Collections /\ shown' = [c \in Collections |-> shown'[c]]
      /\ \A c \in Affected(variants) : shown'[c] = Projected(assertion', selection, alias', c)
      /\ \A c \in Collections \ Affected(variants) : shown'[c] = shown[c]
  BY <1>1 DEF Rebuilt, Affected, Active
<1>10. Governed(canonical, variants, entity, rows)
  BY <1>1, <1>3, <1>4, <1>5, <1>6, <1>7, <1>8, <1>9 DEF Governed, Choose
<1> QED BY <1>10

LEMMA MergeKeeps ==
  ASSUME MetadataInv, NEW canonical \in Names, NEW variants \in SUBSET Names,
         NEW entity, NEW rows, Governed(canonical, variants, entity, rows)
  PROVE  MetadataInv'
<1> USE DEF MetadataInv
<1>1. /\ entity \in Names
      /\ alias' = [n \in Names |-> IF n \in variants THEN entity ELSE alias[n]]
      /\ \A c \in Affected(variants) : shown'[c] = Projected(assertion', selection, alias', c)
      /\ \A c \in Collections \ Affected(variants) : shown'[c] = shown[c]
      /\ assertion' \in Rows /\ shown' = [c \in Collections |-> shown'[c]]
      /\ merges' = merges + 1 /\ choices' = choices + 1 /\ choices < MaxChoices
      /\ UNCHANGED <<status, selection, chosen, apart, jobs, idVars>>
  BY DEF Governed
<1>2. ASSUME NEW i \in Ids, assertion[i] # None
      PROVE  /\ assertion'[i] # None
             /\ assertion'[i].value = assertion[i].value
             /\ assertion'[i].source = assertion[i].source
  BY <1>2 DEF Governed
<1>3. alias' \in [Names -> Names \cup {Null}]
  BY <1>1, TableTypes
<1>4. view' \in Names \cup {Null}
  BY DEF Governed, Rewritten, TypeInv, IdTypeOK, TypeOK
<1>5. SelectionValid'
  <2>1. ASSUME NEW c \in Collections, selection[c] # None PROVE assertion'[selection[c].id] # None
    BY <1>2, <2>1, SelectedRow
  <2> QED BY <1>1, <2>1 DEF SelectionValid
<1>6. shown' \in [Collections -> Names \cup {Null}]
  <2>1. ASSUME NEW c \in Collections PROVE shown'[c] \in Names \cup {Null}
    <3>1. CASE c \notin Affected(variants)
      BY <1>1, <3>1, TableTypes
    <3>2. CASE c \in Affected(variants)
      <4> PICK as \in Rows : as = assertion'
        BY <1>1
      <4> PICK al \in [Names -> Names \cup {Null}] : al = alias'
        BY <1>3
      <4>1. selection \in Selections
        BY TableTypes
      <4>2. selection[c] # None => as[selection[c].id] # None
        BY <1>1, <1>5 DEF SelectionValid
      <4>3. Projected(as, selection, al, c) \in Names \cup {Null}
        BY <4>1, <4>2, ProjectedName
      <4> QED BY <1>1, <3>2, <4>3
    <3> QED BY <3>1, <3>2
  <2> QED BY <1>1, <2>1
<1>7. merges' \in 0 .. MaxChoices /\ choices' \in 0 .. MaxChoices /\ merges' <= choices'
  <2>1. /\ choices \in Nat /\ merges \in Nat /\ merges <= choices
    BY MetadataAssumption DEF TypeInv, IdTypeOK, TypeOK
  <2> QED BY <1>1, <2>1, MetadataAssumption
<1>8. TypeInv'
  <2>1. /\ status' \in [Collections -> {"active", "tombstone"}]
        /\ selection' \in Selections
        /\ \A pair \in apart' : pair \subseteq Names /\ Cardinality(pair) = 2
        /\ jobs' \subseteq Collections
        /\ chosen' \in [Collections -> Names \cup {Null}]
    BY <1>1, TableTypes DEF TypeInv, IdTypeOK, TypeOK
  <2>2. TypeOK'
    BY <1>1, <1>3, <1>4, <1>6, <1>7, <2>1 DEF TypeOK, Rows, Selections, AssertionRow, SelectionRow
  <2> QED BY <1>1, <1>5, <1>7, <2>2 DEF TypeInv, IdTypeOK, idVars
<1>9. ChoiceStands'
  <2>1. ASSUME NEW c \in Collections, chosen[c] # Null
        PROVE  ByHand(selection, assertion', c) /\ Selected(c)' = chosen[c]
    <3>1. ByHand(selection, assertion, c) /\ Selected(c) = chosen[c] /\ selection[c] # None
      BY <2>1 DEF ChoiceStands, ByHand
    <3> PICK i \in Ids : i = selection[c].id
      BY <3>1, SelectedRow
    <3>2. assertion'[i].value = assertion[i].value /\ assertion'[i].source = assertion[i].source
      BY <1>2, <3>1, SelectedRow
    <3> QED BY <1>1, <3>1, <3>2 DEF ByHand, Selected
  <2> QED BY <1>1, <2>1 DEF ChoiceStands
<1>10. ProjectionIsCurrent'
  <2>1. ASSUME NEW c \in Active
        PROVE  shown'[c] = Projected(assertion', selection, alias', c)
    <3>a. c \in Collections
      BY DEF Active
    <3>1. CASE c \in Affected(variants)
      BY <1>1, <3>1
    <3>2. CASE c \notin Affected(variants) /\ selection[c] = None
      BY <1>1, <3>2, <3>a DEF ProjectionIsCurrent, Projected
    <3>3. CASE c \notin Affected(variants) /\ selection[c] # None
      <4> PICK i \in Ids : i = selection[c].id
        BY <3>3, <3>a, SelectedRow
      <4>1. assertion[i].value \notin variants
        BY <3>3 DEF Affected, Selected
      <4>2. assertion'[i] = assertion[i]
        BY <4>1 DEF Governed
      <4>3. assertion[i].value \in Names
        BY <3>3, <3>a, SelectedRow
      <4>4. alias'[assertion[i].value] = alias[assertion[i].value]
        BY <1>1, <4>1, <4>3
      <4>5. CanonicalName(assertion'[i], alias') = CanonicalName(assertion[i], alias)
        BY <4>2, <4>4 DEF CanonicalName
      <4>6. shown[c] = CanonicalName(assertion[i], alias)
        BY <3>3 DEF ProjectionIsCurrent, Projected
      <4> QED BY <1>1, <3>3, <3>a, <4>5, <4>6 DEF Projected
    <3> QED BY <3>1, <3>2, <3>3
  <2> QED BY <1>1, <2>1 DEF ProjectionIsCurrent, Active
<1>11. Unmerged'
  BY <1>1 DEF TypeInv, IdTypeOK, TypeOK, Unmerged
<1> QED BY <1>8, <1>9, <1>10, <1>11

(* The first merge of names. *)
LEMMA FirstMergeFollowsView ==
  ASSUME MetadataInv, NEW canonical \in Names, NEW variants \in SUBSET Names,
         NEW entity, NEW rows, Governed(canonical, variants, entity, rows),
         merges = 0, NEW c \in Active, shown[c] = view
  PROVE  shown'[c] = view'
<1> USE DEF MetadataInv
<1>1. c \in Collections /\ shown[c] = Projected(assertion, selection, alias, c)
  BY DEF Active, ProjectionIsCurrent
<1>2. shown[c] = Selected(c)
  <2>1. CASE selection[c] = None
    BY <1>1, <2>1 DEF Projected, Selected
  <2>2. CASE selection[c] # None
    <3> PICK i \in Ids : i = selection[c].id /\ assertion[i] # None /\ assertion[i].value \in Names
      BY <1>1, <2>2, SelectedRow
    <3>1. assertion[i].entity = Null /\ alias[assertion[i].value] = Null
      BY DEF Unmerged
    <3>2. CanonicalName(assertion[i], alias) = assertion[i].value
      BY <3>1 DEF CanonicalName
    <3> QED BY <1>1, <2>2, <3>2 DEF Projected, Selected
  <2> QED BY <2>1, <2>2
<1>3. view' = IF view \in variants THEN canonical ELSE view
  BY DEF Governed, Rewritten
<1>4. CASE view \in variants
  <2>1. Selected(c) \in variants /\ selection[c] # None
    BY <1>2, <1>4, MetadataAssumption DEF Selected
  <2>2. c \in Affected(variants)
    BY <2>1 DEF Affected
  <2>3. entity = canonical /\ entity # Null
    BY MetadataAssumption DEF Governed, EntityOf, Unmerged
  <2>4. assertion'[selection[c].id].entity = entity
    BY <2>2 DEF Governed
  <2>5. CanonicalName(assertion'[selection[c].id], alias') = entity
    BY <2>3, <2>4 DEF CanonicalName
  <2>6. shown'[c] = Projected(assertion', selection, alias', c)
    BY <2>2 DEF Governed
  <2> QED BY <1>3, <1>4, <2>1, <2>3, <2>5, <2>6 DEF Projected
<1>5. CASE view \notin variants
  <2>1. c \notin Affected(variants)
    BY <1>2, <1>5 DEF Affected
  <2>2. shown'[c] = shown[c]
    BY <1>1, <2>1 DEF Governed
  <2> QED BY <1>3, <1>5, <2>2
<1> QED BY <1>4, <1>5

-----------------------------------------------------------------------------
(* A consolidation moves rows from one collection to the other.             *)
LEMMA TransferredRows ==
  ASSUME TypeInv, NEW t \in Collections, NEW c \in Collections,
         assertion' = Transferred(t, c)
  PROVE  RowsGrow
<1>1. assertion \in Rows
  BY TableTypes
<1>2. ASSUME NEW i \in Ids
      PROVE  /\ assertion'[i] \in {None} \cup AssertionRow
             /\ assertion[i] # None => /\ assertion'[i] # None
                                       /\ assertion'[i].value = assertion[i].value
                                       /\ assertion'[i].source = assertion[i].source
                                       /\ assertion'[i].entity = assertion[i].entity
             /\ assertion[i] = None => assertion'[i] = None \/ assertion'[i].entity = Null
  <2>1. CASE i \in Own(assertion, c)
    <3>1. assertion'[i] = [assertion[i] EXCEPT !.of = t]
      BY <2>1 DEF Transferred
    <3>2. assertion[i] \in AssertionRow /\ assertion[i] # None
      BY <1>1, <2>1 DEF Own, Rows
    <3> PICK row \in AssertionRow : row = assertion[i]
      BY <3>2
    <3>3. [row EXCEPT !.of = t] \in AssertionRow
      BY DEF AssertionRow
    <3>4. /\ [row EXCEPT !.of = t].value = row.value
          /\ [row EXCEPT !.of = t].source = row.source
          /\ [row EXCEPT !.of = t].entity = row.entity
      BY DEF AssertionRow
    <3> QED BY <3>1, <3>2, <3>3, <3>4, RowsAreSomething
  <2>2. CASE i \notin Own(assertion, c)
    <3>1. assertion'[i] = assertion[i]
      BY <2>2 DEF Transferred
    <3> QED BY <1>1, <3>1 DEF Rows
  <2> QED BY <2>1, <2>2
<1>3. assertion' = [i \in Ids |-> assertion'[i]]
  BY DEF Transferred
<1> QED BY <1>2, <1>3 DEF RowsGrow, Rows

(* What a consolidation leaves selected, and what the user chose of it.     *)
Kept(t, c, kept) ==
  /\ kept \in {None} \cup SelectionRow
  /\ kept # None => assertion'[kept.id] # None
  /\ chosen'[t] # Null =>
       /\ kept # None
       /\ kept.by = "manual" \/ assertion'[kept.id].source = "manual"
       /\ assertion'[kept.id].value = chosen'[t]
  /\ chosen'[t] \in Names \cup {Null}

LEMMA ConsolidationKept ==
  ASSUME MetadataInv, NEW t \in Collections, NEW c \in Collections, NEW winner \in {t, c},
         assertion' = Transferred(t, c),
         chosen'[t] = IF Conflict(t, c) THEN Selected(winner) ELSE chosen[t]
  PROVE  Kept(t, c, IF Conflict(t, c) THEN [id |-> selection[winner].id, by |-> "manual"]
                                      ELSE Preserved(t, c, Transferred(t, c)))
<1> USE DEF MetadataInv
<1>1. RowsGrow
  BY TransferredRows
<1>2. CASE Conflict(t, c)
  <2>1. selection[winner] # None
    BY <1>2 DEF Conflict, ByHand
  <2> PICK i \in Ids : i = selection[winner].id /\ assertion[i] # None /\ assertion[i].value \in Names
    BY <2>1, SelectedRow
  <2>2. assertion'[i] # None /\ assertion'[i].value = assertion[i].value
    BY <1>1 DEF RowsGrow
  <2>3. Selected(winner) = assertion[i].value
    BY <2>1 DEF Selected
  <2>4. [id |-> i, by |-> "manual"] \in SelectionRow
    BY DEF SelectionRow
  <2>5. [id |-> i, by |-> "manual"] # None
    BY <2>4, RowsAreSomething
  <2>6. Kept(t, c, [id |-> i, by |-> "manual"])
    BY <1>2, <2>2, <2>3, <2>4, <2>5 DEF Kept
  <2> QED BY <1>2, <2>6
<1>3. CASE ~Conflict(t, c)
  <2> DEFINE same == selection[t] # None /\ (ByHand(selection, assertion, c) =>
                       ByHand(selection, assertion, t) /\ Selected(t) = Selected(c))
  <2>0. chosen'[t] = chosen[t] /\ chosen[t] \in Names \cup {Null}
    BY <1>3, TableTypes
  <2>1. CASE same
    <3>1. selection[t] # None /\ Preserved(t, c, Transferred(t, c)) = selection[t]
      BY <2>1 DEF Preserved
    <3> PICK i \in Ids : i = selection[t].id /\ assertion[i] # None
      BY <3>1, SelectedRow
    <3>2. /\ assertion'[i] # None /\ assertion'[i].value = assertion[i].value
          /\ assertion'[i].source = assertion[i].source
      BY <1>1 DEF RowsGrow
    <3>3. chosen[t] # Null => /\ selection[t].by = "manual" \/ assertion[i].source = "manual"
                              /\ assertion[i].value = chosen[t]
      BY <3>1 DEF ChoiceStands, ByHand, Selected
    <3>4. selection[t] \in SelectionRow
      BY <3>1, SelectedRow
    <3>5. Kept(t, c, selection[t])
      BY <2>0, <3>1, <3>2, <3>3, <3>4 DEF Kept
    <3> QED BY <1>3, <3>1, <3>5
  <2>2. CASE ~same
    <3>1. Preserved(t, c, Transferred(t, c)) = Best(Transferred(t, c), t)
      BY <2>2 DEF Preserved
    <3>2. chosen[t] = Null
      BY <1>3, <2>2 DEF ChoiceStands, Conflict, ByHand
    <3> PICK as \in Rows : as = assertion'
      BY <1>1 DEF RowsGrow
    <3>3. /\ Best(as, t) \in {None} \cup SelectionRow
          /\ Best(as, t) # None => as[Best(as, t).id] # None
      BY BestValid
    <3>4. Kept(t, c, Best(as, t))
      BY <2>0, <3>2, <3>3 DEF Kept
    <3> QED BY <1>3, <3>1, <3>4
  <2> QED BY <2>1, <2>2
<1> QED BY <1>2, <1>3

(* The two collections after a consolidation, and all the others. *)
LEMMA ConsolidationEffect ==
  ASSUME MetadataInv, NEW t \in Collections, NEW c \in Collections, t # c,
         NEW winner \in Collections, Consolidate(t, c, winner)
  PROVE  /\ RowsGrow /\ Kept(t, c, selection'[t]) /\ selection'[c] = None
         /\ selection' \in Selections
         /\ \A d \in Collections \ {t, c} : selection'[d] = selection[d]
         /\ shown' = [d \in Collections |-> shown'[d]]
         /\ shown'[t] = Projected(assertion', selection', alias, t) /\ shown'[c] = Null
         /\ \A d \in Collections \ {t, c} : shown'[d] = shown[d]
         /\ status' = [status EXCEPT ![t] = "active", ![c] = "tombstone"]
         /\ chosen' \in [Collections -> Names \cup {Null}] /\ chosen'[c] = Null
         /\ \A d \in Collections \ {t, c} : chosen'[d] = chosen[d]
         /\ merged' = [merged EXCEPT ![c] = t]
         /\ UNCHANGED <<names, choices, jobs, link>>
<1> USE DEF MetadataInv
<1>1. PICK as, kept :
        /\ as = Transferred(t, c)
        /\ kept = IF Conflict(t, c) THEN [id |-> selection[winner].id, by |-> "manual"]
                  ELSE Preserved(t, c, as)
        /\ winner \in IF Conflict(t, c) THEN {t, c} ELSE {t}
        /\ merged' = [merged EXCEPT ![c] = t]
        /\ assertion' = as
        /\ selection' = [selection EXCEPT ![t] = kept, ![c] = None]
        /\ shown' = [Rebuilt(as, selection', alias, {t}) EXCEPT ![c] = Null]
        /\ status' = [status EXCEPT ![t] = "active", ![c] = "tombstone"]
        /\ chosen' = [chosen EXCEPT ![c] = Null,
                                    ![t] = IF Conflict(t, c) THEN Selected(winner) ELSE chosen[t]]
        /\ UNCHANGED <<names, choices, jobs, link>>
  BY DEF Consolidate
<1>2. /\ selection \in Selections /\ chosen \in [Collections -> Names \cup {Null}]
  BY TableTypes
<1>3. /\ chosen'[t] = IF Conflict(t, c) THEN Selected(winner) ELSE chosen[t]
      /\ chosen'[c] = Null
      /\ \A d \in Collections \ {t, c} : chosen'[d] = chosen[d]
      /\ chosen' = [d \in Collections |-> chosen'[d]]
  BY <1>1, <1>2
<1>4. RowsGrow
  BY <1>1, TransferredRows
<1>5. Kept(t, c, kept)
  <2>1. winner \in {t, c} /\ assertion' = Transferred(t, c)
    BY <1>1
  <2>2. Kept(t, c, IF Conflict(t, c) THEN [id |-> selection[winner].id, by |-> "manual"]
                                     ELSE Preserved(t, c, Transferred(t, c)))
    BY <1>3, <2>1, ConsolidationKept
  <2> QED BY <1>1, <2>2
<1>6. /\ selection'[t] = kept /\ selection'[c] = None /\ selection' \in Selections
      /\ \A d \in Collections \ {t, c} : selection'[d] = selection[d]
  <2>1. kept \in {None} \cup SelectionRow
    BY <1>5 DEF Kept
  <2> QED BY <1>1, <1>2, <2>1 DEF Selections
<1>7. chosen' \in [Collections -> Names \cup {Null}]
  <2>1. chosen'[t] \in Names \cup {Null}
    BY <1>5 DEF Kept
  <2> QED BY <1>2, <1>3, <2>1
<1>8. /\ shown' = [d \in Collections |-> shown'[d]]
      /\ shown'[t] = Projected(assertion', selection', alias, t) /\ shown'[c] = Null
      /\ \A d \in Collections \ {t, c} : shown'[d] = shown[d]
  BY <1>1 DEF Rebuilt
<1> QED BY <1>1, <1>3, <1>4, <1>5, <1>6, <1>7, <1>8

LEMMA ConsolidationKeeps ==
  ASSUME MetadataInv, NEW t \in Collections, NEW c \in Collections, t # c,
         NEW winner \in Collections, Consolidate(t, c, winner)
  PROVE  MetadataInv'
<1> USE DEF MetadataInv
<1>e. /\ RowsGrow /\ Kept(t, c, selection'[t]) /\ selection'[c] = None
      /\ selection' \in Selections
      /\ \A d \in Collections \ {t, c} : selection'[d] = selection[d]
      /\ shown' = [d \in Collections |-> shown'[d]]
      /\ shown'[t] = Projected(assertion', selection', alias, t) /\ shown'[c] = Null
      /\ \A d \in Collections \ {t, c} : shown'[d] = shown[d]
      /\ status' = [status EXCEPT ![t] = "active", ![c] = "tombstone"]
      /\ chosen' \in [Collections -> Names \cup {Null}] /\ chosen'[c] = Null
      /\ \A d \in Collections \ {t, c} : chosen'[d] = chosen[d]
      /\ merged' = [merged EXCEPT ![c] = t]
      /\ UNCHANGED <<names, choices, jobs, link>>
  BY ConsolidationEffect
<1>1. UNCHANGED <<alias, merges>>
  BY <1>e DEF names
<1>2. status \in [Collections -> {"active", "tombstone"}]
  BY DEF TypeInv, IdTypeOK, TypeOK
<1>3. /\ status' \in [Collections -> {"active", "tombstone"}]
      /\ status'[c] = "tombstone"
      /\ \A d \in Collections \ {t, c} : status'[d] = status[d]
  BY <1>2, <1>e
<1>4. SelectionValid'
  <2>1. ASSUME NEW d \in Collections, selection'[d] # None PROVE assertion'[selection'[d].id] # None
    <3>1. CASE d = t
      BY <1>e, <2>1, <3>1 DEF Kept
    <3>2. CASE d = c
      BY <1>e, <2>1, <3>2
    <3>3. CASE d \notin {t, c}
      BY <1>1, <1>e, <2>1, <3>3, SameProjection
    <3> QED BY <3>1, <3>2, <3>3
  <2> QED BY <2>1 DEF SelectionValid
<1>5. shown' \in [Collections -> Names \cup {Null}]
  <2>1. ASSUME NEW d \in Collections PROVE shown'[d] \in Names \cup {Null}
    <3>1. CASE d = t
      <4> PICK as \in Rows : as = assertion'
        BY <1>e DEF RowsGrow
      <4> PICK sel \in Selections : sel = selection'
        BY <1>e
      <4>1. sel[t] # None => as[sel[t].id] # None
        BY <1>e DEF Kept
      <4>2. Projected(as, sel, alias, t) \in Names \cup {Null}
        BY <4>1, ProjectedName, TableTypes
      <4> QED BY <1>e, <3>1, <4>2
    <3>2. CASE d # t
      BY <1>e, <3>2, TableTypes
    <3> QED BY <3>1, <3>2
  <2> QED BY <1>e, <2>1
<1>6. TypeInv'
  <2>1. assertion' \in Rows
    BY <1>e DEF RowsGrow
  <2>2. TypeOK'
    BY <1>3, <1>5, <1>e, <2>1 DEF TypeInv, IdTypeOK, TypeOK, names, Rows, Selections, AssertionRow,
                                  SelectionRow
  <2>3. merged' \in [Collections -> Collections \cup {Null}]
    BY <1>e DEF TypeInv, IdTypeOK
  <2> QED BY <1>1, <1>4, <1>e, <2>2, <2>3 DEF TypeInv, IdTypeOK
<1>7. Unmerged'
  BY <1>1, <1>e, RowsKeepUnmerged
<1>8. ASSUME NEW d \in Collections \ {t, c}
      PROVE  /\ chosen'[d] # Null =>
                  ByHand(selection', assertion', d) /\ Selected(d)' = chosen'[d]
             /\ status'[d] = "active" => shown'[d] = Projected(assertion', selection', alias', d)
  BY <1>1, <1>3, <1>e, SameProjection DEF ChoiceStands, ProjectionIsCurrent, Active
<1>9. chosen'[t] # Null => ByHand(selection', assertion', t) /\ Selected(t)' = chosen'[t]
  BY <1>e DEF Kept, ByHand, Selected
<1>10. ChoiceStands'
  BY <1>8, <1>9, <1>e DEF ChoiceStands
<1>11. ProjectionIsCurrent'
  <2>1. ASSUME NEW d \in Collections, status'[d] = "active"
        PROVE  shown'[d] = Projected(assertion', selection', alias', d)
    BY <1>1, <1>3, <1>8, <1>e, <2>1
  <2> QED BY <2>1 DEF ProjectionIsCurrent, Active
<1> QED BY <1>6, <1>7, <1>10, <1>11

-----------------------------------------------------------------------------
(* The first state, and the steps that touch no value.                      *)
LEMMA MetadataInit ==
  ASSUME IdInit
  PROVE  MetadataInv
<1>1. PICK first \in [Collections -> Names], source \in [Collections -> {"filename", "legacy"}] :
        /\ status = [c \in Collections |-> "active"]
        /\ assertion = [i \in Ids |-> IF i \in Collections
                                      THEN Claim(i, first[i], source[i], "none", "accepted") ELSE None]
        /\ selection = [c \in Collections |->
             [id |-> c, by |-> IF source[c] = "legacy" THEN "migration" ELSE "priority"]]
        /\ shown = first
        /\ alias = [n \in Names |-> Null]
        /\ apart = {} /\ view = Null /\ jobs = {}
        /\ chosen = [c \in Collections |-> Null]
        /\ choices = 0 /\ merges = 0
  BY DEF IdInit, Init
<1>2. ASSUME NEW c \in Collections
      PROVE  /\ assertion[c] \in AssertionRow /\ assertion[c] # None
             /\ assertion[c].entity = Null /\ assertion[c].value = first[c]
  <2>1. source[c] \in Sources /\ first[c] \in Names /\ c \in Ids
    BY CollectionsAreIds DEF Sources
  <2>2. assertion[c] = Claim(c, first[c], source[c], "none", "accepted")
    BY <1>1, <2>1
  <2> QED BY <2>1, <2>2, NewClaim
<1>3. \A i \in Ids \ Collections : assertion[i] = None
  BY <1>1
<1>4. assertion \in Rows
  <2>1. \A i \in Ids : assertion[i] \in {None} \cup AssertionRow
    BY <1>2, <1>3
  <2>2. assertion = [i \in Ids |-> assertion[i]]
    BY <1>1
  <2> QED BY <2>1, <2>2 DEF Rows
<1>5. ASSUME NEW c \in Collections
      PROVE  selection[c] \in SelectionRow /\ selection[c].id = c /\ selection[c] # None
  <2>1. selection[c] = [id |-> c, by |-> IF source[c] = "legacy" THEN "migration" ELSE "priority"]
    BY <1>1
  <2>2. selection[c] \in SelectionRow
    BY <2>1, CollectionsAreIds DEF SelectionRow
  <2> QED BY <2>1, <2>2, RowsAreSomething
<1>6. selection \in Selections
  BY <1>1, <1>5 DEF Selections
<1>7. SelectionValid
  BY <1>2, <1>5 DEF SelectionValid
<1>8. TypeInv
  <2>1. 0 \in 0 .. MaxChoices
    BY MetadataAssumption
  <2>2. /\ status \in [Collections -> {"active", "tombstone"}]
        /\ shown \in [Collections -> Names \cup {Null}]
        /\ chosen \in [Collections -> Names \cup {Null}]
        /\ alias \in [Names -> Names \cup {Null}]
    BY <1>1
  <2>3. TypeOK
    BY <1>1, <1>4, <1>6, <2>1, <2>2 DEF TypeOK, Rows, Selections, AssertionRow, SelectionRow
  <2>4. 0 <= 0
    OBVIOUS
  <2> QED BY <1>1, <1>7, <2>3, <2>4 DEF TypeInv, IdTypeOK, IdInit
<1>9. ChoiceStands
  BY <1>1 DEF ChoiceStands
<1>10. ProjectionIsCurrent
  <2>1. ASSUME NEW c \in Collections PROVE shown[c] = Projected(assertion, selection, alias, c)
    <3>1. alias[first[c]] = Null
      BY <1>1
    <3>2. CanonicalName(assertion[c], alias) = first[c]
      BY <1>2, <3>1 DEF CanonicalName
    <3> QED BY <1>1, <1>5, <3>2 DEF Projected
  <2> QED BY <2>1 DEF ProjectionIsCurrent, Active
<1>11. Unmerged
  BY <1>1, <1>2, <1>3 DEF Unmerged
<1> QED BY <1>8, <1>9, <1>10, <1>11 DEF MetadataInv

(* No value, name or status changes but that a collection may go missing. *)
StillValues ==
  /\ UNCHANGED <<values, alias, merges>>
  /\ status' \in [Collections -> {"active", "tombstone"}]
  /\ \A c \in Collections : status'[c] = "active" => status[c] = "active"
  /\ \A pair \in apart' : pair \subseteq Names /\ Cardinality(pair) = 2
  /\ view' \in Names \cup {Null} /\ jobs' \subseteq Collections
  /\ choices' \in 0 .. MaxChoices /\ choices <= choices'
  /\ link' \in [Pairs -> {"none", "pending", "confirmed", "rejected"}]
  /\ merged' \in [Collections -> Collections \cup {Null}]

LEMMA StillKeeps ==
  ASSUME MetadataInv, StillValues
  PROVE  MetadataInv'
<1> USE DEF MetadataInv
<1>1. UNCHANGED <<assertion, selection, shown, chosen, alias, merges>>
  BY DEF StillValues, values
<1>2. TypeInv'
  <2>1. merges' <= choices'
    BY <1>1, MetadataAssumption DEF StillValues, TypeInv, IdTypeOK, TypeOK
  <2> QED BY <1>1, <2>1 DEF StillValues, TypeInv, IdTypeOK, TypeOK, SelectionValid
<1>3. ChoiceStands'
  BY <1>1 DEF ChoiceStands, ByHand, Selected
<1>4. ProjectionIsCurrent'
  BY <1>1 DEF ProjectionIsCurrent, Projected, Active, StillValues
<1>5. Unmerged'
  BY <1>1 DEF Unmerged
<1> QED BY <1>2, <1>3, <1>4, <1>5

LEMMA ChosenOnce ==
  ASSUME TypeInv, Choose
  PROVE  choices' \in 0 .. MaxChoices /\ choices <= choices'
BY MetadataAssumption DEF TypeInv, IdTypeOK, TypeOK, Choose

LEMMA StillSteps ==
  ASSUME TypeInv, UNCHANGED idVars,
         \/ \E S \in SUBSET Names : RejectGroup(S)
         \/ \E v \in Names : SaveView(v)
         \/ \E c \in Collections : QueueSearch(c)
         \/ \E c \in Collections : EndSearch(c)
         \/ \E c \in Collections : GoMissing(c)
  PROVE  StillValues
<1> USE DEF TypeInv, IdTypeOK, TypeOK, names, evidence, values, idVars
<1>0. choices <= choices
  BY MetadataAssumption
<1>1. ASSUME NEW S \in SUBSET Names, RejectGroup(S) PROVE StillValues
  <2>1. Choose /\ apart' = apart \cup {pair \in SUBSET S : Cardinality(pair) = 2}
        /\ UNCHANGED <<status, values, alias, view, merges, jobs>>
    BY <1>1 DEF RejectGroup
  <2>2. \A pair \in apart' : pair \subseteq Names /\ Cardinality(pair) = 2
    BY <2>1
  <2> QED BY <2>1, <2>2, ChosenOnce DEF StillValues
<1>2. ASSUME NEW v \in Names, SaveView(v) PROVE StillValues
  BY <1>2, ChosenOnce DEF SaveView, StillValues
<1>3. ASSUME NEW c \in Collections, QueueSearch(c) PROVE StillValues
  BY <1>3, ChosenOnce DEF QueueSearch, StillValues
<1>4. ASSUME NEW c \in Collections, EndSearch(c) PROVE StillValues
  BY <1>0, <1>4 DEF EndSearch, StillValues
<1>5. ASSUME NEW c \in Collections, GoMissing(c) PROVE StillValues
  BY <1>0, <1>5 DEF GoMissing, StillValues
<1> QED BY <1>1, <1>2, <1>3, <1>4, <1>5

LEMMA LinkSteps ==
  ASSUME TypeInv,
         \/ \E p \in Pairs : Link(p[1], p[2])
         \/ \E p \in Pairs, d \in {"confirmed", "rejected"} : Decide(p[1], p[2], d)
  PROVE  StillValues
<1> USE DEF TypeInv, IdTypeOK, TypeOK, vars, names, evidence, values
<1>0. choices <= choices
  BY MetadataAssumption
<1>1. ASSUME NEW p \in Pairs, Link(p[1], p[2]) PROVE StillValues
  <2>1. link' \in [Pairs -> {"none", "pending", "confirmed", "rejected"}]
    BY <1>1 DEF Link
  <2> QED BY <1>0, <1>1, <2>1 DEF Link, StillValues
<1>2. ASSUME NEW p \in Pairs, NEW d \in {"confirmed", "rejected"}, Decide(p[1], p[2], d)
      PROVE  StillValues
  <2>1. link' \in [Pairs -> {"none", "pending", "confirmed", "rejected"}]
    BY <1>2 DEF Decide
  <2> QED BY <1>0, <1>2, <2>1 DEF Decide, StillValues
<1> QED BY <1>1, <1>2

-----------------------------------------------------------------------------
(* Every step is on the values of one collection, a merge of names, a       *)
(* consolidation, or touches no value.                                      *)
LEMMA StepKinds ==
  ASSUME MetadataInv, [IdNext]_allVars
  PROVE  \/ \E c \in Collections : ValueOf(c)
         \/ \E n \in Names, S \in SUBSET Names : Merge(n, S) /\ UNCHANGED idVars
         \/ \E p \in Pairs, w \in Collections : Consolidate(p[1], p[2], w)
         \/ StillValues
<1> USE DEF MetadataInv
<1>1. CASE UNCHANGED allVars
  <2>1. choices <= choices
    BY MetadataAssumption DEF TypeInv, IdTypeOK, TypeOK
  <2> QED BY <1>1, <2>1 DEF allVars, vars, idVars, names, evidence, values, StillValues, TypeInv,
                            IdTypeOK, TypeOK
<1>2. CASE Next /\ UNCHANGED idVars
  <2>1. CASE UserStep
    BY <1>2, <2>1, ManualSet, AssertionSelected, AssertionRejected, ManualCleared DEF UserStep
  <2>2. CASE \E c \in Collections, v \in Names, e \in Evidence : Answer(c, v, e)
    BY <1>2, <2>2, AnswerTaken
  <2>3. CASE \E n \in Names, S \in SUBSET Names : Merge(n, S)
    BY <1>2, <2>3
  <2>4. CASE \/ \E S \in SUBSET Names : RejectGroup(S)
             \/ \E v \in Names : SaveView(v)
             \/ \E c \in Collections : QueueSearch(c)
             \/ \E c \in Collections : EndSearch(c)
             \/ \E c \in Collections : GoMissing(c)
    BY <1>2, <2>4, StillSteps
  <2> QED BY <1>2, <2>1, <2>2, <2>3, <2>4 DEF Next, GovernanceStep, SearchStep
<1>3. CASE IdStep
  BY <1>3, LinkSteps DEF IdStep
<1> QED BY <1>1, <1>2, <1>3 DEF IdNext

LEMMA MetadataStep ==
  ASSUME MetadataInv, [IdNext]_allVars
  PROVE  MetadataInv'
<1>1. ASSUME NEW n \in Names, NEW S \in SUBSET Names, Merge(n, S), UNCHANGED idVars
      PROVE  MetadataInv'
  <2>1. PICK rows : Governed(n, S, EntityOf(n), rows)
    BY <1>1, MergeGoverns DEF MetadataInv
  <2> QED BY <2>1, MergeKeeps
<1>2. ASSUME NEW p \in Pairs, NEW w \in Collections, Consolidate(p[1], p[2], w)
      PROVE  MetadataInv'
  <2>1. p[1] \in Collections /\ p[2] \in Collections /\ p[1] # p[2]
    BY DEF Pairs
  <2> QED BY <1>2, <2>1, ConsolidationKeeps
<1> QED BY <1>1, <1>2, StepKinds, ValuesKeep, StillKeeps

(* A merge of names is the only step that counts one. *)
LEMMA FirstMerge ==
  ASSUME MetadataInv, [IdNext]_allVars, merges' # merges, merges = 0,
         NEW c \in Active, shown[c] = view
  PROVE  shown'[c] = view'
<1>1. PICK n \in Names, S \in SUBSET Names : Merge(n, S) /\ UNCHANGED idVars
  <2>1. \A p \in Pairs, w \in Collections : Consolidate(p[1], p[2], w) => merges' = merges
    BY DEF Consolidate, names
  <2>2. StillValues => merges' = merges
    BY DEF StillValues
  <2>3. \A d \in Collections : ValueOf(d) => merges' = merges
    BY DEF ValueOf, names
  <2> QED BY <2>1, <2>2, <2>3, StepKinds
<1>2. PICK rows : Governed(n, S, EntityOf(n), rows)
  BY <1>1, MergeGoverns DEF MetadataInv
<1> QED BY <1>2, FirstMergeFollowsView

LEMMA MetadataHolds == IdSpec => []MetadataInv
<1>1. IdInit => MetadataInv
  BY MetadataInit
<1>2. MetadataInv /\ [IdNext]_allVars => MetadataInv'
  BY MetadataStep
<1> QED BY <1>1, <1>2, PTL DEF IdSpec

(* Every variable of the metadata and of the consolidation keeps its type.  *)
THEOREM MetadataTypes == IdSpec => []IdTypeOK
<1>1. MetadataInv => IdTypeOK
  BY DEF MetadataInv, TypeInv
<1> QED BY <1>1, MetadataHolds, PTL

(* What the user chose for a collection stays its value until the user      *)
(* takes it back: no answer of a provider, no rejection elsewhere, no merge *)
(* of names and no consolidation replaces it.                               *)
THEOREM UserChoiceStands == IdSpec => []ChoiceStands
<1>1. MetadataInv => ChoiceStands
  BY DEF MetadataInv
<1> QED BY <1>1, MetadataHolds, PTL

(* The shelf is read from a projection of the assertions; whatever changes  *)
(* them, a selection or an alias rebuilds every projection that reads it.   *)
THEOREM ShelfIsCurrent == IdSpec => []ProjectionIsCurrent
<1>1. MetadataInv => ProjectionIsCurrent
  BY DEF MetadataInv
<1> QED BY <1>1, MetadataHolds, PTL

(* The first merge of names takes the saved view along with the collections *)
(* it lists.                                                                *)
THEOREM FirstMergeTakesViewsAlong == IdSpec => FirstMergeKeepsViews
<1>1. MetadataInv /\ [IdNext]_allVars
        => [merges' # merges /\ merges = 0 =>
              \A c \in Active : shown[c] = view => shown'[c] = view']_allVars
  BY FirstMerge
<1> QED BY <1>1, MetadataHolds, PTL DEF IdSpec, FirstMergeKeepsViews

-----------------------------------------------------------------------------
(* Batches of renames and moves.  Items are what Plan shows of a selection. *)

\* no path is that of two collections
PlacesApart == \A c, d \in Batched : place[c] # Null /\ place[c] = place[d] => c = d

\* one item for each collection and for each destination
Apart(items) ==
  \A e, f \in items : e.collection = f.collection \/ e.destination = f.destination => e = f

\* an item that RenameOne will do when its root is in use
Doable(e) ==
  /\ place[e.collection] = e.source
  /\ disk[e.source] # Null /\ disk[e.destination] = Null
  /\ \A d \in Batched \ {e.collection} : place[d] # e.destination

\* What is fresh is what a preview of now would show of the same collections.
FreshIsShown ==
  \/ fresh = {}
  \/ /\ ~Plans!Busy
     /\ \E S \in SUBSET Batched : (\A c \in S : place[c] # Null) /\ fresh = Plans!Plan(S)

\* The rest of a promised batch can be done, and what failed was switched off.
PromiseKept ==
  promised # {} => /\ moving = {}
                   /\ Apart(todo) /\ \A e \in todo : Doable(e)
                   /\ \A e \in failed \cap promised : e.source.dir.root \notin active

TodoIsShown == todo \subseteq previewed

BatchInv == Plans!PlansTypeOK /\ PlacesApart /\ FreshIsShown /\ PromiseKept /\ TodoIsShown

LEMMA PlanItems ==
  ASSUME Plans!PlansTypeOK, NEW S \in SUBSET Batched, \A c \in S : place[c] # Null,
         NEW e \in Plans!Plan(S)
  PROVE  /\ e \in Plans!Item /\ e.collection \in Plans!Safe(S)
         /\ e.source = place[e.collection] /\ e.destination = Plans!Destination(e.collection)
         /\ e = [collection |-> e.collection, source |-> place[e.collection],
                 destination |-> Plans!Destination(e.collection)]
<1>1. PICK c \in Plans!Safe(S) :
        e = [collection |-> c, source |-> place[c], destination |-> Plans!Destination(c)]
  BY DEF Plans!Plan
<1>2. c \in Batched /\ Plans!Nameable(c) /\ place[c] # Null
  BY DEF Plans!Safe, Plans!Plannable
<1>3. place[c] \in Plans!Paths /\ metadata[c] \in Plans!Metadata
  BY <1>2 DEF Plans!PlansTypeOK
<1>4. metadata[c].name \in FileNames
  BY <1>2, <1>3 DEF Plans!Metadata, Plans!Nameable
<1>5. Plans!Destination(c) \in Plans!Paths
  BY <1>3, <1>4 DEF Plans!Destination, Plans!Paths
<1> QED BY <1>1, <1>2, <1>3, <1>5 DEF Plans!Item

(* What a preview calls safe is still safe when only a part of it is applied. *)
LEMMA PartIsSafe ==
  ASSUME Plans!PlansTypeOK, NEW S \in SUBSET Batched, \A c \in S : place[c] # Null,
         NEW E \in SUBSET Plans!Plan(S)
  PROVE  Plans!Accepted(E) = E
<1>1. ASSUME NEW e \in E PROVE e \in Plans!Plan(Plans!Of(E))
  <2>1. \A f \in E : f.collection \in Plans!Safe(S)
    BY PlanItems
  <2>2. /\ e = [collection |-> e.collection, source |-> place[e.collection],
                destination |-> Plans!Destination(e.collection)]
    BY PlanItems
  <2>3. Plans!Of(E) \subseteq Plans!Safe(S) /\ e.collection \in Plans!Of(E)
    BY <2>1 DEF Plans!Of
  <2>4. e.collection \in Plans!Safe(Plans!Of(E))
    BY <2>3 DEF Plans!Safe
  <2> QED BY <2>2, <2>4 DEF Plans!Plan
<1> QED BY <1>1 DEF Plans!Accepted

(* The items of a plan can all be done, in any order. *)
LEMMA PlanDoable ==
  ASSUME Plans!PlansTypeOK, NEW S \in SUBSET Batched, \A c \in S : place[c] # Null
  PROVE  Apart(Plans!Plan(S)) /\ \A e \in Plans!Plan(S) : Doable(e)
<1>1. ASSUME NEW e \in Plans!Plan(S), NEW f \in Plans!Plan(S),
             e.collection = f.collection \/ e.destination = f.destination
      PROVE  e = f
  <2>1. /\ e.collection \in Plans!Safe(S) /\ f.collection \in Plans!Safe(S)
        /\ e.destination = Plans!Destination(e.collection)
        /\ f.destination = Plans!Destination(f.collection)
        /\ e = [collection |-> e.collection, source |-> place[e.collection],
                destination |-> Plans!Destination(e.collection)]
        /\ f = [collection |-> f.collection, source |-> place[f.collection],
                destination |-> Plans!Destination(f.collection)]
    BY PlanItems
  <2>2. e.collection = f.collection
    BY <1>1, <2>1 DEF Plans!Safe
  <2> QED BY <2>1, <2>2
<1>2. ASSUME NEW e \in Plans!Plan(S) PROVE Doable(e)
  <2>1. /\ e.collection \in Plans!Safe(S)
        /\ e.source = place[e.collection] /\ e.destination = Plans!Destination(e.collection)
    BY PlanItems
  <2>2. Plans!Plannable(e.collection)
    BY <2>1 DEF Plans!Safe
  <2> QED BY <2>1, <2>2 DEF Doable, Plans!Plannable, Plans!Free, Plans!Indexed
<1> QED BY <1>1, <1>2 DEF Apart

-----------------------------------------------------------------------------
(* A file that is moved to a free path.                                     *)
LEMMA Relocated ==
  ASSUME Plans!PlansTypeOK, PlacesApart, NEW c \in Batched, NEW to \in Plans!Paths,
         place[c] # Null, \A d \in Batched \ {c} : place[d] # to, Plans!Relocate(c, to)
  PROVE  /\ place' \in [Batched -> Plans!Paths \cup {Null}] /\ place'[c] = to
         /\ \A d \in Batched \ {c} : place'[d] = place[d]
         /\ disk' \in [Plans!Paths -> Batched \cup {"other", Null}]
         /\ \A p \in Plans!Paths \ {place[c], to} : disk'[p] = disk[p]
         /\ PlacesApart'
<1>1. /\ place \in [Batched -> Plans!Paths \cup {Null}] /\ place[c] \in Plans!Paths
      /\ disk \in [Plans!Paths -> Batched \cup {"other", Null}]
  BY DEF Plans!PlansTypeOK
<1>2. /\ place' \in [Batched -> Plans!Paths \cup {Null}] /\ place'[c] = to
      /\ \A d \in Batched \ {c} : place'[d] = place[d]
  BY <1>1 DEF Plans!Relocate
<1>3. /\ disk' \in [Plans!Paths -> Batched \cup {"other", Null}]
      /\ \A p \in Plans!Paths \ {place[c], to} : disk'[p] = disk[p]
  BY <1>1 DEF Plans!Relocate
<1>4. PlacesApart'
  BY <1>2 DEF PlacesApart
<1> QED BY <1>2, <1>3, <1>4

(* A new path is one that was shown, or one a move was asked for. *)
PathsAsked ==
  \A c \in Batched : place'[c] \notin {place[c], Null} =>
    \/ [collection |-> c, source |-> place[c], destination |-> place'[c]] \in previewed
    \/ /\ c \in moving /\ place[c].dir.root = Downloads
       /\ place'[c].dir.root = IF metadata[c].commercial /\ commercialRoot # Null
                               THEN commercialRoot ELSE target

LEMMA RenameKeeps ==
  ASSUME BatchInv, NEW e \in todo, Plans!RenameOne(e)
  PROVE  BatchInv' /\ PathsAsked
<1> USE DEF BatchInv
<1>1. /\ e \in Plans!Item /\ e \in previewed /\ fresh = {}
      /\ todo \subseteq Plans!Item
  BY DEF Plans!PlansTypeOK, TodoIsShown, FreshIsShown, Plans!Busy
<1> PICK c \in Batched : c = e.collection
  BY <1>1 DEF Plans!Item
<1>2. /\ e.source \in Plans!Paths /\ e.destination \in Plans!Paths
      /\ e = [collection |-> c, source |-> e.source, destination |-> e.destination]
  BY <1>1 DEF Plans!Item
<1>3. /\ todo' = todo \ {e}
      /\ UNCHANGED <<metadata, active, commercialRoot, previewed, fresh, promised, moving, target,
                     changes>>
  BY DEF Plans!RenameOne, Plans!catalog
<1>4. TodoIsShown' /\ FreshIsShown'
  BY <1>1, <1>3 DEF TodoIsShown, FreshIsShown
<1>5. CASE /\ place[c] = e.source
           /\ \A d \in Batched \ {c} : place[d] # e.destination
           /\ Plans!Relocate(c, e.destination) /\ UNCHANGED failed
  <2>1. place[c] # Null \/ place[c] = Null
    OBVIOUS
  <2>a. CASE place[c] # Null
    <3>1. /\ place' \in [Batched -> Plans!Paths \cup {Null}] /\ place'[c] = e.destination
          /\ \A d \in Batched \ {c} : place'[d] = place[d]
          /\ disk' \in [Plans!Paths -> Batched \cup {"other", Null}]
          /\ \A p \in Plans!Paths \ {place[c], e.destination} : disk'[p] = disk[p]
          /\ PlacesApart'
      BY <1>2, <1>5, <2>a, Relocated
    <3>2. Plans!PlansTypeOK'
      BY <1>3, <1>5, <3>1 DEF Plans!PlansTypeOK
    <3>3. PathsAsked
      <4>1. ASSUME NEW d \in Batched, place'[d] # place[d]
            PROVE  [collection |-> d, source |-> place[d], destination |-> place'[d]] \in previewed
        <5>1. d = c
          BY <3>1, <4>1
        <5> QED BY <1>1, <1>2, <1>5, <3>1, <5>1
      <4> QED BY <4>1 DEF PathsAsked
    <3>4. PromiseKept'
      <4> SUFFICES ASSUME promised # {} PROVE PromiseKept'
        BY <1>3 DEF PromiseKept
      <4>1. /\ moving = {} /\ Apart(todo) /\ \A f \in todo : Doable(f)
            /\ \A f \in failed \cap promised : f.source.dir.root \notin active
        BY DEF PromiseKept
      <4>2. ASSUME NEW f \in todo, f # e PROVE Doable(f)'
        <5>1. /\ f.collection # c /\ f.destination # e.destination
          BY <4>1, <4>2 DEF Apart
        <5>2. f.source \in Plans!Paths /\ f.destination \in Plans!Paths /\ f.collection \in Batched
          BY <1>1 DEF Plans!Item
        <5>3. /\ place[f.collection] = f.source
              /\ disk[f.source] # Null /\ disk[f.destination] = Null
              /\ \A d \in Batched \ {f.collection} : place[d] # f.destination
              /\ disk[e.source] # Null /\ disk[e.destination] = Null
          BY <4>1 DEF Doable
        <5>4. f.source # e.source
          BY <1>5, <2>a, <5>1, <5>2, <5>3 DEF PlacesApart
        <5>5. f.source # e.destination /\ f.destination # e.source
          BY <5>3
        <5>6. disk'[f.source] = disk[f.source] /\ disk'[f.destination] = disk[f.destination]
          BY <1>5, <3>1, <5>1, <5>2, <5>4, <5>5
        <5>7. \A d \in Batched \ {f.collection} : place'[d] # f.destination
          BY <3>1, <5>1, <5>3
        <5> QED BY <3>1, <5>1, <5>2, <5>3, <5>6, <5>7 DEF Doable
      <4>3. Apart(todo)'
        BY <1>3, <4>1 DEF Apart
      <4> QED BY <1>3, <1>5, <4>1, <4>2, <4>3 DEF PromiseKept
    <3> QED BY <1>4, <3>1, <3>2, <3>3, <3>4
  <2>b. CASE place[c] = Null
    <3>1. Null \in Plans!Paths
      BY <1>2, <1>5, <2>b
    <3> QED BY <3>1, BatchAssumption
  <2> QED BY <2>a, <2>b
<1>6. CASE /\ \/ place[c] # e.source \/ e.source.dir.root \notin active
              \/ disk[e.source] = Null \/ disk[e.destination] # Null
              \/ \E d \in Batched \ {c} : place[d] = e.destination
           /\ failed' = failed \cup {e}
           /\ UNCHANGED <<place, disk>>
  <2>1. Plans!PlansTypeOK'
    BY <1>1, <1>3, <1>6 DEF Plans!PlansTypeOK
  <2>2. PromiseKept'
    <3> SUFFICES ASSUME promised # {} PROVE PromiseKept'
      BY <1>3 DEF PromiseKept
    <3>1. e.source.dir.root \notin active
      BY <1>6 DEF PromiseKept, Doable
    <3> QED BY <1>3, <1>6, <3>1 DEF PromiseKept, Apart, Doable
  <2>3. PlacesApart' /\ PathsAsked
    BY <1>6 DEF PlacesApart, PathsAsked
  <2> QED BY <1>4, <2>1, <2>2, <2>3
<1> QED BY <1>5, <1>6 DEF Plans!RenameOne

LEMMA MoveKeeps ==
  ASSUME BatchInv, NEW c \in Batched, Plans!MoveOne(c)
  PROVE  BatchInv' /\ PathsAsked
<1> USE DEF BatchInv
<1> DEFINE to == [dir |-> Plans!ArchiveDir(c), name |-> place[c].name]
<1>1. /\ c \in moving /\ moving' = moving \ {c}
      /\ UNCHANGED <<metadata, active, commercialRoot, previewed, fresh, todo, failed, promised,
                     target, changes>>
      /\ IF Plans!Movable(c) THEN Plans!Relocate(c, to) ELSE UNCHANGED <<place, disk>>
  BY DEF Plans!MoveOne, Plans!catalog, Plans!renaming
<1>2. promised = {} /\ fresh = {}
  BY <1>1 DEF PromiseKept, FreshIsShown, Plans!Busy
<1>3. TodoIsShown' /\ FreshIsShown' /\ PromiseKept'
  BY <1>1, <1>2 DEF TodoIsShown, FreshIsShown, PromiseKept
<1>4. CASE Plans!Movable(c)
  <2>1. /\ place[c] # Null /\ place[c].dir.root = Downloads /\ Plans!Free(to)
    BY <1>4 DEF Plans!Movable
  <2>2. to \in Plans!Paths
    <3>1. /\ place[c].name \in FileNames /\ metadata[c] \in Plans!Metadata
          /\ target \in Archives /\ commercialRoot \in Archives \cup {Null}
      BY <2>1 DEF Plans!PlansTypeOK, Plans!Paths
    <3>2. Plans!ArchiveDir(c) \in Plans!Dirs
      BY <3>1 DEF Plans!ArchiveDir, Plans!Redirected, Plans!Metadata, Plans!Dirs
    <3> QED BY <3>1, <3>2 DEF Plans!Paths
  <2>3. to.dir.root = IF metadata[c].commercial /\ commercialRoot # Null
                      THEN commercialRoot ELSE target
    BY DEF Plans!ArchiveDir, Plans!Redirected
  <2>4. \A d \in Batched \ {c} : place[d] # to
    BY <2>1 DEF Plans!Free, Plans!Indexed
  <2>5. Plans!Relocate(c, to)
    BY <1>1, <1>4
  <2> HIDE DEF to
  <2>6. /\ place' \in [Batched -> Plans!Paths \cup {Null}] /\ place'[c] = to
        /\ \A d \in Batched \ {c} : place'[d] = place[d]
        /\ disk' \in [Plans!Paths -> Batched \cup {"other", Null}]
        /\ PlacesApart'
    BY <2>1, <2>2, <2>4, <2>5, Relocated
  <2>7. Plans!PlansTypeOK'
    BY <1>1, <2>6 DEF Plans!PlansTypeOK
  <2>8. PathsAsked
    BY <1>1, <2>1, <2>3, <2>6 DEF PathsAsked
  <2> QED BY <1>3, <2>6, <2>7, <2>8
<1>5. CASE ~Plans!Movable(c)
  <2>1. UNCHANGED <<place, disk>>
    BY <1>1, <1>5
  <2>2. Plans!PlansTypeOK'
    BY <1>1, <2>1 DEF Plans!PlansTypeOK
  <2> QED BY <1>3, <2>1, <2>2 DEF PlacesApart, PathsAsked
<1> QED BY <1>4, <1>5

LEMMA PreviewKeeps ==
  ASSUME BatchInv, NEW S \in SUBSET Batched, Plans!Preview(S)
  PROVE  BatchInv' /\ PathsAsked
<1> USE DEF BatchInv
<1>1. /\ ~Plans!Busy /\ \A c \in S : place[c] # Null
      /\ previewed' = previewed \cup Plans!Plan(S) /\ fresh' = Plans!Plan(S)
      /\ UNCHANGED <<place, disk, metadata, active, commercialRoot, todo, failed, promised, moving,
                     target, changes>>
  BY DEF Plans!Preview, Plans!catalog, Plans!renaming
<1>2. Plans!Plan(S) \subseteq Plans!Item
  BY <1>1, PlanItems
<1>3. Plans!PlansTypeOK'
  BY <1>1, <1>2 DEF Plans!PlansTypeOK
<1>4. FreshIsShown'
  <2>1. Plans!Plan(S)' = Plans!Plan(S)
    BY <1>1 DEF Plans!Plan, Plans!Safe, Plans!Plannable, Plans!Destination, Plans!Nameable,
                Plans!Free, Plans!Indexed
  <2> QED BY <1>1, <2>1 DEF FreshIsShown, Plans!Busy
<1>5. PromiseKept' /\ TodoIsShown' /\ PlacesApart' /\ PathsAsked
  BY <1>1 DEF PromiseKept, Apart, Doable, TodoIsShown, PlacesApart, PathsAsked
<1> QED BY <1>3, <1>4, <1>5

LEMMA ApplyKeeps ==
  ASSUME BatchInv, NEW E \in SUBSET previewed, Plans!ApplyRenames(E)
  PROVE  BatchInv' /\ PathsAsked
<1> USE DEF BatchInv
<1>1. /\ ~Plans!Busy /\ E # {}
      /\ todo' = Plans!Accepted(E) /\ failed' = E \ Plans!Accepted(E)
      /\ promised' = IF E \subseteq fresh THEN E ELSE {}
      /\ fresh' = {}
      /\ UNCHANGED <<place, disk, metadata, active, commercialRoot, previewed, moving, target, changes>>
  BY DEF Plans!ApplyRenames, Plans!catalog
<1>2. E \subseteq Plans!Item /\ Plans!Accepted(E) \subseteq E /\ moving = {}
  BY <1>1 DEF Plans!PlansTypeOK, Plans!Accepted, Plans!Busy
<1>3. Plans!PlansTypeOK'
  BY <1>1, <1>2 DEF Plans!PlansTypeOK
<1>4. TodoIsShown' /\ FreshIsShown' /\ PlacesApart' /\ PathsAsked
  BY <1>1, <1>2 DEF TodoIsShown, FreshIsShown, PlacesApart, PathsAsked
<1>5. PromiseKept'
  <2> SUFFICES ASSUME promised' # {} PROVE PromiseKept'
    BY DEF PromiseKept
  <2>1. E \subseteq fresh
    BY <1>1
  <2>2. PICK S \in SUBSET Batched : (\A c \in S : place[c] # Null) /\ fresh = Plans!Plan(S)
    BY <1>1, <2>1 DEF FreshIsShown
  <2>3. todo' = E /\ failed' = {}
    BY <1>1, <2>1, <2>2, PartIsSafe
  <2>4. Apart(E) /\ \A e \in E : Doable(e)
    BY <2>1, <2>2, PlanDoable DEF Apart
  <2>5. Apart(todo') /\ \A e \in todo' : Doable(e)'
    BY <1>1, <2>3, <2>4 DEF Doable
  <2> QED BY <1>1, <1>2, <2>3, <2>5 DEF PromiseKept, Apart
<1> QED BY <1>3, <1>4, <1>5

(* Whatever changes beside the batches ends what a preview promised. *)
LEMMA ChangesKeep ==
  ASSUME BatchInv, fresh' = {}, promised' = {}, UNCHANGED <<previewed, todo, target>>,
         moving' \subseteq Batched, failed' \subseteq Plans!Item,
         metadata' \in [Batched -> Plans!Metadata], active' \subseteq {Downloads} \cup Archives,
         commercialRoot' \in Archives \cup {Null}, changes' \in 0 .. MaxChanges,
         disk' \in [Plans!Paths -> Batched \cup {"other", Null}],
         place' \in [Batched -> Plans!Paths \cup {Null}],
         \A c \in Batched : place'[c] \in {place[c], Null}
  PROVE  BatchInv' /\ PathsAsked
<1> USE DEF BatchInv
<1>1. Plans!PlansTypeOK'
  BY DEF Plans!PlansTypeOK
<1>2. PlacesApart' /\ PathsAsked
  BY DEF PlacesApart, PathsAsked
<1> QED BY <1>1, <1>2 DEF FreshIsShown, PromiseKept, TodoIsShown

LEMMA Changed ==
  ASSUME BatchInv, Plans!Change
  PROVE  /\ changes' \in 0 .. MaxChanges /\ fresh' = {} /\ promised' = {}
         /\ UNCHANGED <<previewed, todo, failed, moving, target>>
         /\ moving' \subseteq Batched /\ failed' \subseteq Plans!Item
BY BatchAssumption DEF BatchInv, Plans!PlansTypeOK, Plans!Change

LEMMA BatchTables ==
  ASSUME BatchInv
  PROVE  /\ place \in [Batched -> Plans!Paths \cup {Null}]
         /\ disk \in [Plans!Paths -> Batched \cup {"other", Null}]
         /\ metadata \in [Batched -> Plans!Metadata]
         /\ active \subseteq {Downloads} \cup Archives
         /\ commercialRoot \in Archives \cup {Null} /\ target \in Archives
         /\ changes \in 0 .. MaxChanges
BY DEF BatchInv, Plans!PlansTypeOK

LEMMA OthersChange ==
  ASSUME BatchInv,
         \/ \E S \in SUBSET Batched, r \in Archives : Plans!MoveBatch(S, r)
         \/ \E c \in Batched : Plans!CollectionLeaves(c)
         \/ \E c \in Batched, m \in Plans!Metadata : Plans!EditMetadata(c, m)
         \/ \E r \in {Downloads} \cup Archives : Plans!SwitchRoot(r)
         \/ \E r \in Archives \cup {Null} : Plans!SetCommercialRoot(r)
         \/ \E p \in Plans!Paths : Plans!UserPuts(p) \/ Plans!UserTakes(p)
  PROVE  BatchInv' /\ PathsAsked
<1>1. ASSUME NEW S \in SUBSET Batched, NEW r \in Archives, Plans!MoveBatch(S, r)
      PROVE  BatchInv' /\ PathsAsked
  <2>1. /\ todo = {} /\ moving' = S /\ target' = r
        /\ fresh' = {} /\ promised' = {} /\ failed' = {}
        /\ UNCHANGED <<place, disk, metadata, active, commercialRoot, previewed, todo, changes>>
    BY <1>1 DEF Plans!MoveBatch, Plans!Busy, Plans!catalog
  <2>2. Plans!PlansTypeOK'
    BY <2>1 DEF BatchInv, Plans!PlansTypeOK
  <2> QED BY <2>1, <2>2 DEF BatchInv, PlacesApart, FreshIsShown, PromiseKept, TodoIsShown,
                            PathsAsked
<1>2. ASSUME NEW c \in Batched, Plans!CollectionLeaves(c)
      PROVE  BatchInv' /\ PathsAsked
  <2>1. /\ Plans!Change /\ place' = [place EXCEPT ![c] = Null]
        /\ disk' = IF place[c] = Null THEN disk ELSE [disk EXCEPT ![place[c]] = Null]
        /\ UNCHANGED <<metadata, active, commercialRoot>>
    BY <1>2 DEF Plans!CollectionLeaves, Plans!catalog
  <2>2. /\ place' \in [Batched -> Plans!Paths \cup {Null}]
        /\ disk' \in [Plans!Paths -> Batched \cup {"other", Null}]
        /\ \A d \in Batched : place'[d] \in {place[d], Null}
    BY <2>1, BatchTables
  <2> QED BY <2>1, <2>2, BatchTables, Changed, ChangesKeep
<1>3. ASSUME NEW c \in Batched, NEW m \in Plans!Metadata, Plans!EditMetadata(c, m)
      PROVE  BatchInv' /\ PathsAsked
  <2>1. /\ Plans!Change /\ metadata' = [metadata EXCEPT ![c] = m]
        /\ UNCHANGED <<place, disk, active, commercialRoot>>
    BY <1>3 DEF Plans!EditMetadata
  <2> QED BY <2>1, BatchTables, Changed, ChangesKeep
<1>4. ASSUME NEW r \in {Downloads} \cup Archives, Plans!SwitchRoot(r)
      PROVE  BatchInv' /\ PathsAsked
  <2>1. /\ Plans!Change
        /\ active' = IF r \in active THEN active \ {r} ELSE active \cup {r}
        /\ UNCHANGED <<place, disk, metadata, commercialRoot>>
    BY <1>4 DEF Plans!SwitchRoot
  <2> QED BY <2>1, BatchTables, Changed, ChangesKeep
<1>5. ASSUME NEW r \in Archives \cup {Null}, Plans!SetCommercialRoot(r)
      PROVE  BatchInv' /\ PathsAsked
  <2>1. Plans!Change /\ commercialRoot' = r /\ UNCHANGED <<place, disk, metadata, active>>
    BY <1>5 DEF Plans!SetCommercialRoot
  <2> QED BY <2>1, BatchTables, Changed, ChangesKeep
<1>6. ASSUME NEW p \in Plans!Paths, Plans!UserPuts(p) \/ Plans!UserTakes(p)
      PROVE  BatchInv' /\ PathsAsked
  <2>1. /\ Plans!Change /\ \E x \in {"other", Null} : disk' = [disk EXCEPT ![p] = x]
        /\ UNCHANGED <<place, metadata, active, commercialRoot>>
    BY <1>6 DEF Plans!UserPuts, Plans!UserTakes, Plans!catalog
  <2>2. disk' \in [Plans!Paths -> Batched \cup {"other", Null}]
    BY <2>1, BatchTables
  <2> QED BY <2>1, <2>2, BatchTables, Changed, ChangesKeep
<1> QED BY <1>1, <1>2, <1>3, <1>4, <1>5, <1>6

LEMMA BatchStep ==
  ASSUME BatchInv, [Plans!PlansNext]_(Plans!batchVars)
  PROVE  BatchInv' /\ PathsAsked
<1>1. CASE UNCHANGED Plans!batchVars
  <2>1. UNCHANGED <<place, disk, metadata, active, commercialRoot, previewed, fresh, todo, failed,
                    promised, moving, target, changes>>
    BY <1>1 DEF Plans!batchVars, Plans!catalog, Plans!renaming
  <2>2. Plans!PlansTypeOK'
    BY <2>1 DEF BatchInv, Plans!PlansTypeOK
  <2>3. FreshIsShown'
    <3>1. \A S \in SUBSET Batched : Plans!Plan(S)' = Plans!Plan(S)
      BY <2>1 DEF Plans!Plan, Plans!Safe, Plans!Plannable, Plans!Destination, Plans!Nameable,
                  Plans!Free, Plans!Indexed
    <3> QED BY <2>1, <3>1 DEF BatchInv, FreshIsShown, Plans!Busy
  <2>4. PromiseKept' /\ TodoIsShown' /\ PlacesApart' /\ PathsAsked
    BY <2>1 DEF BatchInv, PromiseKept, Apart, Doable, TodoIsShown, PlacesApart, PathsAsked
  <2> QED BY <2>2, <2>3, <2>4 DEF BatchInv
<1>2. CASE Plans!PlansNext
  BY <1>2, RenameKeeps, MoveKeeps, PreviewKeeps, ApplyKeeps, OthersChange DEF Plans!PlansNext
<1> QED BY <1>1, <1>2

LEMMA BatchBegins ==
  ASSUME Plans!PlansInit
  PROVE  BatchInv
<1> DEFINE At(c) == [dir |-> [root |-> Downloads, folder |-> Null], name |-> FirstName[c]]
<1>1. place = [c \in Batched |-> At(c)]
  BY DEF Plans!PlansInit
<1>2. \A c \in Batched : At(c) \in Plans!Paths
  BY BatchAssumption DEF Plans!Paths, Plans!Dirs
<1>3. \A c, d \in Batched : At(c) = At(d) => c = d
  <2>1. ASSUME NEW c \in Batched, NEW d \in Batched, At(c) = At(d) PROVE c = d
    <3>1. At(c).name = At(d).name
      BY <2>1
    <3> QED BY <3>1, BatchAssumption
  <2> QED BY <2>1
<1>4. PlacesApart
  BY <1>1, <1>3 DEF PlacesApart
<1>5. disk \in [Plans!Paths -> Batched \cup {"other", Null}]
  <2>1. ASSUME NEW p \in Plans!Paths
        PROVE  (IF \E c \in Batched : place[c] = p
                THEN CHOOSE c \in Batched : place[c] = p ELSE Null) \in Batched \cup {"other", Null}
    OBVIOUS
  <2> QED BY <2>1 DEF Plans!PlansInit
<1>6. target \in Archives
  BY BatchAssumption DEF Plans!PlansInit
<1>7. Plans!PlansTypeOK
  BY <1>1, <1>2, <1>5, <1>6, BatchAssumption DEF Plans!PlansInit, Plans!PlansTypeOK
<1>8. FreshIsShown /\ PromiseKept /\ TodoIsShown
  BY DEF Plans!PlansInit, FreshIsShown, PromiseKept, TodoIsShown
<1> QED BY <1>4, <1>7, <1>8 DEF BatchInv

(* The tables of the batches: what is previewed, still to do, failed or     *)
(* promised are items of the plan, and a path holds a collection, another    *)
(* file or nothing.                                                         *)
THEOREM BatchTypes == Plans!PlansSpec => []Plans!PlansTypeOK
<1>1. BatchInv /\ [Plans!PlansNext]_(Plans!batchVars) => BatchInv'
  BY BatchStep
<1>2. BatchInv => Plans!PlansTypeOK
  BY DEF BatchInv
<1>3. Plans!PlansInit => BatchInv
  BY BatchBegins
<1> QED BY <1>1, <1>2, <1>3, PTL DEF Plans!PlansSpec

(* Every item that the last preview called safe succeeds when nothing has   *)
(* changed, whatever part of it is applied and in whatever order, but for a *)
(* root that is switched off (mark_batch_collisions, rename_one).           *)
THEOREM PreviewedItemsSucceed == Plans!PlansSpec => []SafeItemsSucceed
<1>1. BatchInv /\ [Plans!PlansNext]_(Plans!batchVars) => BatchInv'
  BY BatchStep
<1>2. BatchInv => SafeItemsSucceed
  BY DEF BatchInv, PromiseKept, SafeItemsSucceed, Plans!SafeItemsSucceed
<1>3. Plans!PlansInit => BatchInv
  BY BatchBegins
<1> QED BY <1>1, <1>2, <1>3, PTL DEF Plans!PlansSpec

(* A collection gets no path but one somebody was shown as safe, or, in a   *)
(* move, one in the archive its classification of that moment calls for.    *)
THEOREM PathsAreAsked == Plans!PlansSpec => AppliedAsAsked
<1>1. BatchInv /\ [Plans!PlansNext]_(Plans!batchVars) => BatchInv' /\ PathsAsked
  BY BatchStep
<1>2. Plans!PlansInit => BatchInv
  BY BatchBegins
<1>3. PathsAsked => [\A c \in Batched : place'[c] \notin {place[c], Null} =>
        \/ [collection |-> c, source |-> place[c], destination |-> place'[c]] \in previewed
        \/ /\ c \in moving /\ place[c].dir.root = Downloads
           /\ place'[c].dir.root = IF metadata[c].commercial /\ commercialRoot # Null
                                   THEN commercialRoot ELSE target]_(Plans!batchVars)
  BY DEF PathsAsked
<1> QED BY <1>1, <1>2, <1>3, PTL DEF Plans!PlansSpec, AppliedAsAsked, Plans!AppliedAsAsked
=============================================================================
