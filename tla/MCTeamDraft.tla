----------------------------- MODULE MCTeamDraft -----------------------------
(***************************************************************************)
(* Five people, so that a draft has three picks, where the snake and the   *)
(* alternate order part ways, in sessions with and without room for        *)
(* everybody's minimum.  Nobody proposes a division.                       *)
(***************************************************************************)
EXTENDS TeamFormation, TLC

CONSTANTS ann, ben, cat, dan, eve

MCUsers == {ann, ben, cat, dan, eve}
MCRequesters == {ben}
MCTeamSetups == {[count |-> 2, min |-> 1], [count |-> 2, min |-> 2]}
MCPickOrders == {"snake", "alternate"}
MCCaptainPairs == {<<ann, ben>>}
MCDivisions == {}
MCSymmetry == Permutations({cat, dan, eve})
=============================================================================
