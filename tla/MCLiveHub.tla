------------------------------ MODULE MCLiveHub ------------------------------
(***************************************************************************)
(* Two streams, of the creator or of ann, on one instance.                 *)
(***************************************************************************)
EXTENDS LiveHub, TLC

CONSTANTS c1, c2, owner, ann

MCStreams == {c1, c2}
MCUsers == {owner, ann}
MCSymmetry == Permutations(MCStreams)
=============================================================================
