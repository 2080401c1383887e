-------------------------- MODULE MCSessionInvites --------------------------
(***************************************************************************)
(* A standalone session with one spot, its creator's at first, and ann,    *)
(* who is invited and whose account may be deleted, with two requests      *)
(* under way.                                                              *)
(***************************************************************************)
EXTENDS SessionInvites, TLC

CONSTANTS creator, ann, w1, w2

MCUsers == {creator, ann}
MCMembers == {}
MCInvitees == {ann}
MCWorkers == {w1, w2}
MCCapacities == {1}
MCSymmetry == Permutations(MCWorkers)
=============================================================================
