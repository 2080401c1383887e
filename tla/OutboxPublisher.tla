--------------------------- MODULE OutboxPublisher ---------------------------
(***************************************************************************)
(* The transactional outbox: services insert events into the event_outbox  *)
(* table of their schema in the transaction that raises them, and the      *)
(* replicas of the outbox worker put them onto the event stream.           *)
(*                                                                         *)
(* A replica publishes a batch of one schema in one transaction: the rows  *)
(* it read stay locked, and what it marks becomes visible, when the        *)
(* transaction commits.  A message on the stream cannot be rolled back.    *)
(* It passes over the schemas when Postgres notifies it of a commit, or    *)
(* when nothing did for the poll interval: every turn of Start's loop      *)
(* starts that interval anew.                                              *)
(***************************************************************************)
EXTENDS Integers, FiniteSets, Sequences, SequencesExt

CONSTANTS
  Events,        \* a set of numbers: the events in the order of their created_at
  Schema,        \* Schema[e]: the schema of event e
  SchemaOrder,   \* OUTBOX_SCHEMAS
  Publishers,    \* the replicas of the worker
  ReadLimit,     \* OUTBOX_READ_LIMIT
  MaxRetries,    \* OUTBOX_MAX_RETRIES
  WakeupBuffer,  \* how many notifications can wait for a publisher
  MaxFaults      \* bound: rollbacks, crashes, lost acks and lost connections

ASSUME OutboxAssumption ==
  /\ IsFiniteSet(Events) /\ Events \subseteq Nat
  /\ SchemaOrder \in Seq(STRING)
  /\ Schema \in [Events -> {SchemaOrder[i] : i \in DOMAIN SchemaOrder}]
  /\ ReadLimit \in Nat \ {0} /\ MaxRetries \in Nat \ {0} /\ WakeupBuffer \in Nat \ {0}
  /\ MaxFaults \in Nat

VARIABLES
  row,        \* row[e]: "none", "pending", "published", "dead" (failed_at set) or "purged"
  retries,    \* retries[e]: retry_count
  copies,     \* copies[e]: how often e is on the stream
  wakeups,    \* wakeups[p]: the notifications waiting for p
  listening,  \* the publishers connected to LISTEN
  pass,       \* pass[p]: the schemas p has yet to publish, and whether it was woken
  tx,         \* tx[p]: p's open transaction
  faults

vars == <<row, retries, copies, wakeups, listening, pass, tx, faults>>

Everything == "every schema"
NoTx == [open |-> FALSE, left |-> <<>>, sent |-> {}, failed |-> {}]
FullPass == [todo |-> SchemaOrder, woken |-> FALSE]

Idle(p) == pass[p].todo = <<>>
Working(p) == tx[p].open
Locked(p) == tx[p].sent \cup tx[p].failed \cup ToSet(tx[p].left)

Fault == faults < MaxFaults /\ faults' = faults + 1

-----------------------------------------------------------------------------
Init ==
  /\ row = [e \in Events |-> "none"]
  /\ retries = [e \in Events |-> 0]
  /\ copies = [e \in Events |-> 0]
  /\ wakeups = [p \in Publishers |-> <<>>]
  /\ listening = {}
  /\ pass = [p \in Publishers |-> FullPass]
  /\ tx = [p \in Publishers |-> NoTx]
  /\ faults = 0

\* wake: a full buffer drops the notification.
Woken(w, schema) == IF Len(w) < WakeupBuffer THEN Append(w, schema) ELSE w

(***************************************************************************)
(* Events come in, and notifications with them.                            *)
(***************************************************************************)

\* The transaction that raised e commits; the trigger notifies the listeners.
\* Transactions commit in any order, whatever created_at they wrote.
Raise(e) ==
  /\ row[e] = "none"
  /\ row' = [row EXCEPT ![e] = "pending"]
  /\ wakeups' = [p \in Publishers |->
                   IF p \in listening THEN Woken(wakeups[p], Schema[e]) ELSE wakeups[p]]
  /\ UNCHANGED <<retries, copies, listening, pass, tx, faults>>

\* After every connect the listener asks for a pass over every schema.
Connect(p) ==
  /\ p \notin listening
  /\ listening' = listening \cup {p}
  /\ wakeups' = [wakeups EXCEPT ![p] = Woken(@, Everything)]
  /\ UNCHANGED <<row, retries, copies, pass, tx, faults>>

\* Nothing is notified while the connection is down.
Disconnect(p) ==
  /\ p \in listening
  /\ Fault
  /\ listening' = listening \ {p}
  /\ UNCHANGED <<row, retries, copies, wakeups, pass, tx>>

(***************************************************************************)
(* A publisher starts a pass.                                              *)
(***************************************************************************)

\* publishWoken takes everything that waits.
PublishWoken(p) ==
  /\ Idle(p)
  /\ wakeups[p] # <<>>
  /\ LET woken == ToSet(wakeups[p])
     IN pass' = [pass EXCEPT ![p] =
                   [todo |-> SelectSeq(SchemaOrder, LAMBDA s : {s, Everything} \cap woken # {}),
                    woken |-> TRUE]]
  /\ wakeups' = [wakeups EXCEPT ![p] = <<>>]
  /\ UNCHANGED <<row, retries, copies, listening, tx, faults>>

Poll(p) ==
  /\ Idle(p)
  /\ pass' = [pass EXCEPT ![p] = FullPass]
  /\ UNCHANGED <<row, retries, copies, wakeups, listening, tx, faults>>

(***************************************************************************)
(* A batch: publishFromSchema.                                             *)
(***************************************************************************)

\* Faulty variant: FOR UPDATE of nothing.
ReadableUnlocked(p) ==
  {e \in Events : row[e] = "pending" /\ Schema[e] = Head(pass[p].todo)}

\* FOR UPDATE SKIP LOCKED.
Readable(p) ==
  {e \in Events : /\ row[e] = "pending"
                  /\ Schema[e] = Head(pass[p].todo)
                  /\ \A q \in Publishers : e \notin Locked(q)}

\* ORDER BY created_at LIMIT ReadLimit.
Oldest(rows) ==
  {batch \in BoundedSeq(rows, ReadLimit) :
     /\ \A i, j \in DOMAIN batch : i < j => batch[i] < batch[j]
     /\ \A e \in rows \ ToSet(batch) :
          Len(batch) = ReadLimit /\ \A i \in DOMAIN batch : batch[i] < e}

NextSchema(p) == pass' = [pass EXCEPT ![p].todo = Tail(@)]

\* With nothing to publish the transaction ends as it began.
ReadEvents(p) ==
  /\ ~Idle(p)
  /\ ~Working(p)
  /\ IF Readable(p) = {}
     THEN NextSchema(p) /\ UNCHANGED tx
     ELSE /\ \E batch \in Oldest(Readable(p)) :
               tx' = [tx EXCEPT ![p] = [NoTx EXCEPT !.open = TRUE, !.left = batch]]
          /\ UNCHANGED pass
  /\ UNCHANGED <<row, retries, copies, wakeups, listening, faults>>

Sent(p, e) ==
  tx' = [tx EXCEPT ![p].left = Tail(@), ![p].sent = @ \cup {e}]

Failed(p, e) ==
  tx' = [tx EXCEPT ![p].left = Tail(@), ![p].failed = @ \cup {e}]

Publish(p) ==
  /\ tx[p].left # <<>>
  /\ LET e == Head(tx[p].left)
     IN copies' = [copies EXCEPT ![e] = @ + 1] /\ Sent(p, e)
  /\ UNCHANGED <<row, retries, wakeups, listening, pass, faults>>

PublishFails(p) ==
  /\ tx[p].left # <<>>
  /\ Failed(p, Head(tx[p].left))
  /\ UNCHANGED <<row, retries, copies, wakeups, listening, pass, faults>>

\* The event is on the stream, and the acknowledgement is lost.
PublishUnacknowledged(p) ==
  /\ tx[p].left # <<>>
  /\ Fault
  /\ LET e == Head(tx[p].left)
     IN copies' = [copies EXCEPT ![e] = @ + 1] /\ Failed(p, e)
  /\ UNCHANGED <<row, retries, wakeups, listening, pass>>

\* Faulty variant: a failed attempt leaves no trace.
MarkAsFailedUncounted(p) == UNCHANGED retries

MarkAsFailed(p) ==
  retries' = [e \in Events |-> IF e \in tx[p].failed THEN retries[e] + 1 ELSE retries[e]]

\* Faulty variant: one retry too many.
GivenUpLate(count) == count > MaxRetries

\* MarkEventAsFailed sets failed_at once retry_count has reached the limit.
GivenUp(count) == count >= MaxRetries

\* A woken publisher goes on with the schema while batches come back full, and
\* stops at a failure (publishSchemaBacklog); a poll takes one batch of each.
Commit(p) ==
  /\ Working(p)
  /\ tx[p].left = <<>>
  /\ MarkAsFailed(p)
  /\ row' = [e \in Events |->
               IF e \in tx[p].sent THEN "published"
               ELSE IF e \in tx[p].failed /\ GivenUp(retries'[e]) THEN "dead"
               ELSE row[e]]
  /\ IF pass[p].woken /\ tx[p].failed = {} /\ Cardinality(tx[p].sent) = ReadLimit
     THEN UNCHANGED pass
     ELSE NextSchema(p)
  /\ tx' = [tx EXCEPT ![p] = NoTx]
  /\ UNCHANGED <<copies, wakeups, listening, faults>>

\* Reading, marking or committing fails; what was published stays published.
Rollback(p) ==
  /\ Working(p)
  /\ Fault
  /\ tx' = [tx EXCEPT ![p] = NoTx]
  /\ NextSchema(p)
  /\ UNCHANGED <<row, retries, copies, wakeups, listening>>

\* The worker dies and is started again: one pass before anything else.
Crash(p) ==
  /\ Fault
  /\ tx' = [tx EXCEPT ![p] = NoTx]
  /\ pass' = [pass EXCEPT ![p] = FullPass]
  /\ wakeups' = [wakeups EXCEPT ![p] = <<>>]
  /\ listening' = listening \ {p}
  /\ UNCHANGED <<row, retries, copies>>

\* Rows published or dead-lettered longer ago than their retention.
Purge(e) ==
  /\ row[e] \in {"published", "dead"}
  /\ row' = [row EXCEPT ![e] = "purged"]
  /\ UNCHANGED <<retries, copies, wakeups, listening, pass, tx, faults>>

Batch(p) ==
  \/ ReadEvents(p)
  \/ Publish(p) \/ PublishFails(p)
  \/ Commit(p)

Next ==
  \/ \E e \in Events : Raise(e) \/ Purge(e)
  \/ \E p \in Publishers :
       \/ Connect(p) \/ Disconnect(p)
       \/ PublishWoken(p) \/ Poll(p)
       \/ Batch(p)
       \/ PublishUnacknowledged(p) \/ Rollback(p) \/ Crash(p)

\* A running worker goes on: with the batch it has, with what woke it, and with
\* a poll when nothing wakes it.  Nothing says that it ever listens, or purges.
Fairness ==
  \A p \in Publishers :
    WF_vars(Batch(p)) /\ WF_vars(PublishWoken(p)) /\ WF_vars(Poll(p))

Spec == Init /\ [][Next]_vars /\ Fairness

-----------------------------------------------------------------------------
(***************************************************************************)
(* Properties.                                                             *)
(***************************************************************************)

\* Every variable has its type.
TypeOK ==
  /\ row \in [Events -> {"none", "pending", "published", "dead", "purged"}]
  /\ retries \in [Events -> 0 .. MaxRetries]
  /\ copies \in [Events -> Nat]
  /\ \A p \in Publishers : Len(wakeups[p]) <= WakeupBuffer
  /\ listening \subseteq Publishers
  /\ \A p \in Publishers : /\ pass[p].woken \in BOOLEAN
                           /\ Locked(p) \subseteq {e \in Events : row[e] = "pending"}
                           /\ Working(p) => ~Idle(p)
                           /\ ~Working(p) => tx[p] = NoTx
  /\ faults \in 0 .. MaxFaults

\* However many replicas work on a schema, an event is put onto the stream a
\* second time only because a rollback, a crash or a lost acknowledgement made
\* it necessary (FOR UPDATE SKIP LOCKED in ReadEvents).
NoNeedlessDuplicates == \A e \in Events : copies[e] <= 1 + faults

Fate(e) ==
  IF copies[e] > 0 THEN "sent"
  ELSE IF row[e] = "published" \/ (row[e] = "purged" /\ retries[e] < MaxRetries) THEN "lost"
  ELSE IF row[e] \in {"dead", "purged"} THEN "given_up"
  ELSE IF row[e] = "pending" THEN "owed"
  ELSE "none"

Delivery == INSTANCE EventDelivery WITH fate <- [e \in Events |-> Fate(e)]

\* Every event that was raised is put onto the stream or given up after the
\* retries, whatever fails, crashes or is not notified on the way; a row marked
\* published is on the stream, and no row is purged before it is settled.
ImplementsEventDelivery == Delivery!Spec
=============================================================================
