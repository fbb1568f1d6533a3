---------------------------- MODULE Consolidation ----------------------------
(***************************************************************************)
(* The identity of a collection that went missing and came back under        *)
(* another id: candidate links, their decisions, and the consolidation that  *)
(* gives the older id all the younger one has.  It composes with the values  *)
(* of CollectionMetadata, which it moves, and with the searches under way,   *)
(* which it must not meet.                                                   *)
(***************************************************************************)
EXTENDS CollectionMetadata

VARIABLES
  link,   \* tombstone_candidates, <<tombstone, candidate>> to decision
  merged  \* collection_consolidations, merged to survivor

idVars  == <<link, merged>>
allVars == <<vars, idVars>>

Pairs == {p \in Collections \X Collections : p[1] # p[2]}

IdTypeOK ==
  /\ TypeOK
  /\ link \in [Pairs -> {"none", "pending", "confirmed", "rejected"}]
  /\ merged \in [Collections -> Collections \cup {Null}]

IdInit ==
  /\ Init
  /\ link = [p \in Pairs |-> "none"]
  /\ merged = [c \in Collections |-> Null]

(* link_matching_tombstones, of a scan *)
Link(t, c) ==
  /\ link[<<t, c>>] = "none" /\ merged[t] = Null
  /\ status[t] = "tombstone" /\ c \in Active
  /\ link' = [link EXCEPT ![<<t, c>>] = "pending"]
  /\ UNCHANGED <<vars, merged>>

Decide(t, c, decision) ==
  /\ link[<<t, c>>] \notin {"none", decision} /\ merged[c] = Null
  /\ link' = [link EXCEPT ![<<t, c>>] = decision]
  /\ UNCHANGED <<vars, merged>>

(* build_preflight: no blocker *)
Ready(t, c) ==
  /\ merged[c] = Null
  /\ status[t] = "tombstone" /\ c \in Active
  /\ {d \in Collections \ {t} : link[<<t, d>>] = "confirmed"} = {c}
  /\ \A d \in Collections \ {t} : link[<<t, d>>] # "pending"
  /\ {t, c} \cap jobs = {}

(* Mutant: only values the user typed can conflict. *)
ConflictOfTyped(t, c) ==
  /\ ByHand(selection, assertion, t) /\ ByHand(selection, assertion, c)
  /\ \A d \in {t, c} : assertion[selection[d].id].source = "manual"
  /\ Selected(t) # Selected(c)

Conflict(t, c) ==
  /\ ByHand(selection, assertion, t) /\ ByHand(selection, assertion, c)
  /\ Selected(t) # Selected(c)

(* preserve_tombstone_selections, over what reselect_by_priority took *)
Preserved(t, c, as) ==
  IF selection[t] # None /\ (ByHand(selection, assertion, c) =>
        ByHand(selection, assertion, t) /\ Selected(t) = Selected(c))
  THEN selection[t] ELSE Best(as, t)

Transferred(t, c) ==
  [i \in Ids |-> IF i \in Own(assertion, c) THEN [assertion[i] EXCEPT !.of = t] ELSE assertion[i]]

(* consolidate_tombstone_candidate; winner is the side chosen for a conflict *)
Consolidate(t, c, winner) ==
  LET as   == Transferred(t, c)
      kept == IF Conflict(t, c) THEN [id |-> selection[winner].id, by |-> "manual"]
              ELSE Preserved(t, c, as)
  IN  /\ Ready(t, c)
      /\ winner \in IF Conflict(t, c) THEN {t, c} ELSE {t}
      /\ merged' = [merged EXCEPT ![c] = t]
      /\ assertion' = as
      /\ selection' = [selection EXCEPT ![t] = kept, ![c] = None]
      /\ shown' = [Rebuilt(as, selection', alias, {t}) EXCEPT ![c] = Null]
      /\ status' = [status EXCEPT ![t] = "active", ![c] = "tombstone"]
      /\ chosen' = [chosen EXCEPT ![c] = Null,
                                  ![t] = IF Conflict(t, c) THEN Selected(winner) ELSE chosen[t]]
      /\ UNCHANGED <<names, choices, jobs, link>>

IdStep ==
  \/ \E p \in Pairs : Link(p[1], p[2])
  \/ \E p \in Pairs, d \in {"confirmed", "rejected"} : Decide(p[1], p[2], d)
  \/ \E p \in Pairs, w \in Collections : Consolidate(p[1], p[2], w)

IdNext == (Next /\ UNCHANGED idVars) \/ IdStep

IdSpec == IdInit /\ [][IdNext]_allVars

-----------------------------------------------------------------------------
(* Properties *)

(* What the user chose stays chosen until the user takes it back, whatever   *)
(* answers arrive and whatever is merged into the collection.                *)
ChoiceStands ==
  \A c \in Collections : chosen[c] # Null =>
    ByHand(selection, assertion, c) /\ Selected(c) = chosen[c]

(* The shelf shows what is selected now, under the name governance gave it:  *)
(* no merge of names leaves a current collection behind.                     *)
ProjectionIsCurrent ==
  \A c \in Active : shown[c] = Projected(assertion, selection, alias, c)

(* A first merge of names leaves every collection a saved view lists in that *)
(* view.                                                                     *)
FirstMergeKeepsViews ==
  [][merges' # merges /\ merges = 0 =>
       \A c \in Active : shown[c] = view => shown'[c] = view']_allVars

(* What consolidation-v2-003 and metadata-v2-025 say together: a choice of   *)
(* the user on either side is still a choice of the user afterwards, which   *)
(* no automatic result may replace.                                          *)
ConsolidationKeepsChoices ==
  [][\A p \in Pairs :
       /\ merged[p[2]] = Null /\ merged'[p[2]] = p[1]
       /\ ByHand(selection, assertion, p[1]) \/ ByHand(selection, assertion, p[2])
       => ByHand(selection', assertion', p[1])]_allVars

(* What canonical-v2-003 says: names the user refused to merge are not       *)
(* offered in one group again.                                               *)
RefusedStayApart == \A pair \in apart : \A S \in Groups : ~(pair \subseteq S)

(* The preview of a merge counts the saved views it rewrites: what a view    *)
(* listed before, it lists after.                                            *)
MergesKeepViews ==
  [][merges' # merges => \A c \in Active : shown[c] = view => shown'[c] = view']_allVars
=============================================================================
