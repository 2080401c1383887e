------------------------- MODULE MCNotificationFeed -------------------------
(***************************************************************************)
(* Two instances, and two messages of a topic.  Either a vote that cid has *)
(* closed, which ann and bob are told while ann may leave, and a message   *)
(* nobody can read; or a verification code for ann, and the welcome of an  *)
(* address nobody has confirmed.                                           *)
(***************************************************************************)
EXTENDS NotificationFeed, TLC

CONSTANTS m1, m2, i1, i2, ann, bob, cid, nil

MCMessages == {m1, m2}
MCInstances == {i1, i2}
MCAccounts == {ann, bob, cid}
MCLeaving == {ann}

Event(topic, listed, subject, actor, muted, garbled) ==
  [topic |-> topic, listed |-> listed, subject |-> subject, inviter |-> nil,
   actor |-> actor, muted |-> muted, garbled |-> garbled]

MCHistories == {
  (m1 :> Event("voting", {ann, bob, cid, nil}, nil, cid, FALSE, FALSE)
   @@ m2 :> Event("voting", {}, nil, nil, FALSE, TRUE)),
  (m1 :> Event("identity", {}, ann, nil, FALSE, FALSE)
   @@ m2 :> Event("identity", {}, bob, nil, TRUE, FALSE))}
MCSymmetry == Permutations(MCInstances)
=============================================================================
