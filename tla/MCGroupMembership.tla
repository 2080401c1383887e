------------------------- MODULE MCGroupMembership -------------------------
(***************************************************************************)
(* A group of two besides its creator, with one spot for them; two requests *)
(* at a time and the account deletion of ann.  One approval fills the group,*)
(* so two at once fight over the last spot, and one invite overfills it.    *)
(***************************************************************************)
EXTENDS GroupMembership, TLC

CONSTANTS creator, ann, ben, w1, w2

MCUsers == {creator, ann, ben}
MCWorkers == {w1, w2}
MCTargets == MCUsers
MCDeletable == {}
MCSymmetry == Permutations(MCWorkers)
=============================================================================
