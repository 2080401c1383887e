------------------------ MODULE MCSessionAttendance ------------------------
(***************************************************************************)
(* A session with three people, and one spot or as many as want to come:   *)
(* enough for a leaver with two people behind them on the waitlist, and    *)
(* for a capacity cut that leaves more people going than there are spots.  *)
(* All are members of the group, when the session has one; a standalone    *)
(* session lets in only its invitees, or everybody while it is public.     *)
(***************************************************************************)
EXTENDS SessionAttendance, TLC

CONSTANTS creator, ann, ben

MCUsers == {creator, ann, ben}
MCCapacities == {NoLimit, 1}
MCSymmetry == Permutations({ann, ben})
=============================================================================
