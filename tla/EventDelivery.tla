---------------------------- MODULE EventDelivery ----------------------------
(***************************************************************************)
(* What the outbox promises to whoever raises an event: once the           *)
(* transaction that raised it has committed, the event gets onto the       *)
(* stream, or the publisher gives it up - one of the two, and sometime.    *)
(***************************************************************************)
CONSTANT Events  \* the events that may be raised

VARIABLE fate  \* fate[e]: "none" (not raised), "owed", "sent" or "given_up"

Init == fate = [e \in Events |-> "none"]

Raise(e) ==
  /\ fate[e] = "none"
  /\ fate' = [fate EXCEPT ![e] = "owed"]

Settle(e) ==
  /\ fate[e] = "owed"
  /\ fate' \in {[fate EXCEPT ![e] = "sent"], [fate EXCEPT ![e] = "given_up"]}

\* Several events may be given up at once, at the end of one batch.
SettleAll ==
  \E f \in [Events -> {"none", "owed", "sent", "given_up"}] :
    /\ \A e \in Events : f[e] = fate[e] \/ (fate[e] = "owed" /\ f[e] = "given_up")
    /\ fate' = f

Next == SettleAll \/ \E e \in Events : Raise(e) \/ Settle(e)

Spec ==
  /\ Init
  /\ [][Next]_fate
  /\ \A e \in Events : WF_fate(Settle(e))
=============================================================================
