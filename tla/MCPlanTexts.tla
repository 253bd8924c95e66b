---------------------------- MODULE MCPlanTexts ----------------------------
(***************************************************************************)
(* The conditions of PlanTexts for the three query sets: the theorems of   *)
(* PlansProofs are about all plans but the named ones.                     *)
(***************************************************************************)
EXTENDS MCPlans, PlanTexts

\* The variables of these plans are those of their texts.
Same == [v \in Variable |-> v]

ASSUME TextsAreFollowed ==
    \A name \in DOMAIN Catalogue : FollowsText(name) <=> name \notin MCMayInvent

ASSUME TextsAreKeptTo ==
    \A name \in DOMAIN Catalogue : KeepsToText(name, Same) <=> name \notin MCMayLose

ASSUME ProvenanceIsShown ==
    \A name \in {n \in DOMAIN Catalogue : Catalogue[n].shows} :
        ShowsAll(name) <=> name \notin MCMayHide \cup {"btc_q04", "wdc_q04"}
============================================================================
