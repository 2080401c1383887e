---------------------------- MODULE MCTeamVoting ----------------------------
(***************************************************************************)
(* Three people, and enough divisions for two of them to be the same with  *)
(* the teams swapped, and one to leave somebody out who joins later.  One  *)
(* request may be rejected late.                                           *)
(***************************************************************************)
EXTENDS TeamFormation

CONSTANTS ann, ben, cat

MCUsers == {ann, ben, cat}
MCRequesters == {cat}
MCTeamSetups == {[count |-> 2, min |-> 1]}
MCPickOrders == {"snake"}
MCCaptainPairs == {<<ann, cat>>}
MCDivisions ==
  {<<{ann, ben}, {cat}>>, <<{cat}, {ann, ben}>>, <<{ann}, {ben}>>}
=============================================================================
