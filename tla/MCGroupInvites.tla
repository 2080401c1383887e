--------------------------- MODULE MCGroupInvites --------------------------
(***************************************************************************)
(* One user who is invited, asks to join and leaves, or whose account is   *)
(* deleted, while two requests are under way: two invites, so that one can *)
(* follow the other, or race it.                                           *)
(***************************************************************************)
EXTENDS GroupMembership, TLC

CONSTANTS creator, ann, w1, w2

MCUsers == {creator, ann}
MCWorkers == {w1, w2}
MCTargets == {ann}
MCDeletable == {ann}
MCSymmetry == Permutations(MCWorkers)
=============================================================================
