-------------------------- MODULE MCIdentityAccount --------------------------
(***************************************************************************)
(* Three requests at a time, with two codes and three tokens: a login      *)
(* whose token is exchanged twice, or two of which one is exchanged.       *)
(***************************************************************************)
EXTENDS IdentityAccount, TLC

CONSTANTS p1, p2, p3, c1, c2, t1, t2, t3

MCRequests == {p1, p2, p3}
MCCodes == {c1, c2}
MCTokens == {t1, t2, t3}
MCLockTiers == {2, 3}
MCSymmetry == Permutations(MCRequests) \cup Permutations(MCCodes) \cup Permutations(MCTokens)
=============================================================================
