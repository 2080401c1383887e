---------------------------- MODULE EventConsumer ----------------------------
(***************************************************************************)
(* A service's durable consumer of one topic: the instances of the service *)
(* share it, pull messages into a buffer of their own and handle them one  *)
(* at a time (Subscribe, consumeMessages, processMessage, deadLetter).     *)
(*                                                                         *)
(* The server side is JetStream: a message is delivered at most MaxDeliver *)
(* times, again after a nak or when nothing was heard of it for AckWait,   *)
(* which runs while the message still waits in an instance's buffer.       *)
(***************************************************************************)
EXTENDS Integers, FiniteSets, Sequences, SequencesExt

CONSTANTS
  Messages,    \* the messages of the topic
  Instances,   \* the instances of the service
  MaxDeliver,  \* maxDeliver
  Prefetch,    \* PullMaxMessages
  MaxFaults    \* bound: crashes, stops, lost answers to the server

ASSUME ConsumerAssumption ==
  /\ IsFiniteSet(Messages) /\ IsFiniteSet(Instances) /\ "none" \notin Messages
  /\ MaxDeliver \in Nat \ {0} /\ Prefetch \in Nat \ {0} /\ MaxFaults \in Nat

VARIABLES
  server,       \* server[m]: "waiting", "out" (awaiting an ack), "acked", "terminated"
                \*            or "exhausted" (no answer to the last delivery)
  delivered,    \* delivered[m]: how often m was delivered
  buffer,       \* buffer[i]: the deliveries i has pulled, <<m, NumDelivered>>
  current,      \* current[i]: the delivery i is handling, and how far
  consuming,    \* the instances whose consumeMessages goroutine runs
  handled,      \* messages a handler has succeeded with
  deadLetters,  \* messages in the DLQ stream
  dropped,      \* messages terminated although the DLQ refused them
  cutShort,     \* messages an instance lost with a delivery unfinished
  faults

consumerVars == <<server, delivered, buffer, current, consuming, handled, deadLetters,
          dropped, cutShort, faults>>

outcome == <<handled, deadLetters, dropped>>

Free == [msg |-> "none", n |-> 0, stage |-> "free"]
Stages == {"free", "handling", "succeeded", "failed", "permanent", "giving_up"}

\* What an instance has of the topic's messages.
Held(i) == {buffer[i][k][1] : k \in DOMAIN buffer[i]} \cup ({current[i].msg} \ {"none"})

Fault == faults < MaxFaults /\ faults' = faults + 1

ConsumerInit ==
  /\ server = [m \in Messages |-> "waiting"]
  /\ delivered = [m \in Messages |-> 0]
  /\ buffer = [i \in Instances |-> <<>>]
  /\ current = [i \in Instances |-> Free]
  /\ consuming = Instances
  /\ handled = {} /\ deadLetters = {} /\ dropped = {} /\ cutShort = {}
  /\ faults = 0

-----------------------------------------------------------------------------
(***************************************************************************)
(* The server.                                                             *)
(***************************************************************************)

Deliver(i, m) ==
  /\ i \in consuming
  /\ Len(buffer[i]) < Prefetch
  /\ server[m] = "waiting"
  /\ server' = [server EXCEPT ![m] = "out"]
  /\ delivered' = [delivered EXCEPT ![m] = @ + 1]
  /\ buffer' = [buffer EXCEPT ![i] = Append(@, <<m, delivered[m] + 1>>)]
  /\ UNCHANGED <<current, consuming, outcome, cutShort, faults>>

\* Where a message goes that was not answered, or answered with a nak.
Redelivered(m) == IF delivered[m] < MaxDeliver THEN "waiting" ELSE "exhausted"

\* Whoever has the message may still be busy with it.
AckWaitExpires(m) ==
  /\ server[m] = "out"
  /\ server' = [server EXCEPT ![m] = Redelivered(m)]
  /\ UNCHANGED <<delivered, buffer, current, consuming, outcome, cutShort, faults>>

\* An answer counts unless the server is done with the message.
Answered(m, st) ==
  server' = IF server[m] \in {"waiting", "out"} THEN [server EXCEPT ![m] = st] ELSE server

-----------------------------------------------------------------------------
(***************************************************************************)
(* An instance.                                                            *)
(***************************************************************************)

NextMessage(i) ==
  /\ i \in consuming
  /\ current[i] = Free
  /\ buffer[i] # <<>>
  /\ LET d == Head(buffer[i])
     IN current' = [current EXCEPT ![i] = [msg |-> d[1], n |-> d[2], stage |-> "handling"]]
  /\ buffer' = [buffer EXCEPT ![i] = Tail(@)]
  /\ UNCHANGED <<server, delivered, consuming, outcome, cutShort, faults>>

\* The handler's transaction commits.
HandlerSucceeds(i) ==
  /\ current[i].stage = "handling"
  /\ current' = [current EXCEPT ![i].stage = "succeeded"]
  /\ handled' = handled \cup {current[i].msg}
  /\ UNCHANGED <<server, delivered, buffer, consuming, deadLetters, dropped, cutShort, faults>>

HandlerFails(i, stage) ==
  /\ current[i].stage = "handling"
  /\ stage \in {"failed", "permanent"}
  /\ current' = [current EXCEPT ![i].stage = stage]
  /\ UNCHANGED <<server, delivered, buffer, consuming, outcome, cutShort, faults>>

\* The answer arrives, or is lost.
Answer(i, st) ==
  /\ current' = [current EXCEPT ![i] = Free]
  /\ \/ Answered(current[i].msg, st) /\ UNCHANGED faults
     \/ Fault /\ UNCHANGED server

Ack(i) ==
  /\ current[i].stage = "succeeded"
  /\ Answer(i, "acked")
  /\ UNCHANGED <<delivered, buffer, consuming, outcome, cutShort>>

\* Faulty variant: one delivery too many is asked for.
LastChanceLate(n) == n > MaxDeliver

LastChance(n) == n >= MaxDeliver

\* NakWithDelay.
Nak(i) ==
  /\ current[i].stage = "failed"
  /\ ~LastChance(current[i].n)
  /\ Answer(i, Redelivered(current[i].msg))
  /\ UNCHANGED <<delivered, buffer, consuming, outcome, cutShort>>

\* A DLQ that cannot take the message does not keep it from being terminated.
DeadLetter(i) ==
  /\ \/ current[i].stage = "failed" /\ LastChance(current[i].n)
     \/ current[i].stage = "permanent"
  /\ current' = [current EXCEPT ![i].stage = "giving_up"]
  /\ \/ deadLetters' = deadLetters \cup {current[i].msg} /\ UNCHANGED <<dropped, faults>>
     \/ dropped' = dropped \cup {current[i].msg} /\ Fault /\ UNCHANGED deadLetters
  /\ UNCHANGED <<server, delivered, buffer, consuming, handled, cutShort>>

Term(i) ==
  /\ current[i].stage = "giving_up"
  /\ Answer(i, "terminated")
  /\ UNCHANGED <<delivered, buffer, consuming, outcome, cutShort>>

\* The instance loses what it has.
Loses(i) ==
  /\ Fault
  /\ cutShort' = cutShort \cup Held(i)
  /\ buffer' = [buffer EXCEPT ![i] = <<>>]
  /\ current' = [current EXCEPT ![i] = Free]
  /\ UNCHANGED <<server, delivered, outcome>>

\* The process dies, and subscribes again when it is back.
Crash(i) ==
  /\ Loses(i)
  /\ consuming' = consuming \cup {i}

\* Next returns an error: the goroutine is over, the process goes on without it.
StopConsuming(i) ==
  /\ i \in consuming
  /\ current[i] = Free
  /\ Loses(i)
  /\ consuming' = consuming \ {i}

\* What the server and the goroutines do whatever the handlers are.
ConsumerStep ==
  \/ \E m \in Messages : AckWaitExpires(m) \/ \E i \in Instances : Deliver(i, m)
  \/ \E i \in Instances : Ack(i) \/ Nak(i) \/ DeadLetter(i) \/ Term(i)

-----------------------------------------------------------------------------
(***************************************************************************)
(* Properties.                                                             *)
(***************************************************************************)

\* Every variable has its type, and nobody holds what was never delivered.
ConsumerTypeOK ==
  /\ server \in [Messages -> {"waiting", "out", "acked", "terminated", "exhausted"}]
  /\ delivered \in [Messages -> 0 .. MaxDeliver]
  /\ \A i \in Instances :
       /\ Len(buffer[i]) <= Prefetch
       /\ current[i].stage \in Stages
       /\ current[i].stage = "free" <=> current[i] = Free
       /\ i \notin consuming => Held(i) = {}
       /\ \A m \in Held(i) : m \in Messages /\ delivered[m] > 0
  /\ consuming \subseteq Instances
  /\ handled \cup deadLetters \cup dropped \cup cutShort \subseteq Messages
  /\ faults \in 0 .. MaxFaults

\* The server will not deliver m again, nobody is busy with it, and it was
\* neither handled nor kept for inspection.
Vanished(m) ==
  /\ server[m] \in {"terminated", "exhausted"}
  /\ m \notin handled \cup deadLetters
  /\ \A i \in Instances : m \notin Held(i)

\* A message nobody could handle is in the DLQ stream - unless the DLQ refused
\* it, or an instance went down with one of its deliveries (deadLetter).
VanishesOnlyWhenCutShort ==
  \A m \in Messages : Vanished(m) => m \in dropped \cup cutShort
=============================================================================
