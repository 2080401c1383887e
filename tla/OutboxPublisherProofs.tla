------------------------ MODULE OutboxPublisherProofs ------------------------
(***************************************************************************)
(* Proofs about OutboxPublisher, for any events, schemas, replicas of the  *)
(* worker, limits and number of faults.                                    *)
(***************************************************************************)
EXTENDS OutboxPublisher, SequenceTheorems, FiniteSetTheorems, TLAPS

-----------------------------------------------------------------------------
(***************************************************************************)
(* The inductive invariant.                                                *)
(***************************************************************************)

Transactions ==
  [open : BOOLEAN, left : Seq(Events), sent : SUBSET Events, failed : SUBSET Events]

\* What a notification can say.
Notices == {SchemaOrder[i] : i \in DOMAIN SchemaOrder} \cup {Everything}

\* The types that TypeOK leaves to the reader.
Shapes ==
  /\ wakeups \in [Publishers -> Seq(Notices)]
  /\ pass = [p \in Publishers |-> [todo |-> pass[p].todo, woken |-> pass[p].woken]]
  /\ tx \in [Publishers -> Transactions]

\* A transaction attempts every row it has read once.
AttemptedOnce ==
  \A p \in Publishers :
    /\ \A i, j \in DOMAIN tx[p].left : i # j => tx[p].left[i] # tx[p].left[j]
    /\ ToSet(tx[p].left) \cap (tx[p].sent \cup tx[p].failed) = {}
    /\ tx[p].sent \cap tx[p].failed = {}

\* A row is locked by one transaction at a time (FOR UPDATE SKIP LOCKED).
LockedOnce == \A p, q \in Publishers : p # q => Locked(p) \cap Locked(q) = {}

Sending(e) == \E p \in Publishers : e \in tx[p].sent

\* An event that is not about to be marked, or marked, is on the stream once
\* for every fault at most.
CopiesCounted ==
  \A e \in Events :
    copies[e] <= faults + (IF row[e] \in {"published", "purged"} \/ Sending(e) THEN 1 ELSE 0)

\* What a row's status says about the stream and the retries.
RowsSettled ==
  \A e \in Events :
    /\ row[e] = "none" => copies[e] = 0 /\ retries[e] = 0
    /\ row[e] = "pending" => retries[e] < MaxRetries
    /\ row[e] = "dead" => retries[e] = MaxRetries
    /\ row[e] = "published" \/ Sending(e) => copies[e] > 0
    /\ row[e] = "purged" => copies[e] > 0 \/ retries[e] = MaxRetries

IInv ==
  /\ TypeOK
  /\ Shapes
  /\ AttemptedOnce
  /\ LockedOnce
  /\ CopiesCounted
  /\ RowsSettled

-----------------------------------------------------------------------------
(***************************************************************************)
(* Lemmas about batches.                                                   *)
(***************************************************************************)

\* What a publisher reads is a sequence of rows it may read, each of them once.
LEMMA BatchOfRows ==
  ASSUME NEW rows \in SUBSET Events, NEW b \in Oldest(rows)
  PROVE  /\ b \in Seq(Events)
         /\ ToSet(b) \subseteq rows
         /\ \A i, j \in DOMAIN b : i # j => b[i] # b[j]
<1>1. PICK n \in Nat : b \in [1..n -> rows]
  <2>1. PICK m \in 0..ReadLimit : b \in [1..m -> rows]
    BY DEF Oldest, BoundedSeq, SeqOf
  <2>. QED  BY <2>1, OutboxAssumption
<1>2. b \in Seq(Events)
  BY <1>1, SeqDef
<1>3. ToSet(b) \subseteq rows
  BY <1>1 DEF ToSet
<1>4. \A i, j \in DOMAIN b : i # j => b[i] # b[j]
  <2>1. \A i, j \in DOMAIN b : i < j => b[i] < b[j]
    BY DEF Oldest
  <2>2. DOMAIN b \subseteq Int /\ \A i \in DOMAIN b : b[i] \in rows
    BY <1>1
  <2>3. rows \subseteq Int
    BY OutboxAssumption
  <2>4. ASSUME NEW i \in DOMAIN b, NEW j \in DOMAIN b, i # j
        PROVE  b[i] # b[j]
    <3>1. i \in Int /\ j \in Int /\ b[i] \in Int /\ b[j] \in Int
      BY <2>2, <2>3
    <3>. QED  BY <2>1, <2>4, <3>1
  <2>. QED  BY <2>4
<1>. QED  BY <1>2, <1>3, <1>4

\* The event that is attempted is the first of the batch, and is in it once.
LEMMA FirstOfBatch ==
  ASSUME NEW b \in Seq(Events), b # <<>>,
         \A i, j \in DOMAIN b : i # j => b[i] # b[j]
  PROVE  /\ Head(b) \in Events
         /\ Tail(b) \in Seq(Events)
         /\ Head(b) \in ToSet(b)
         /\ ToSet(Tail(b)) = ToSet(b) \ {Head(b)}
         /\ \A i, j \in DOMAIN Tail(b) : i # j => Tail(b)[i] # Tail(b)[j]
<1>1. /\ Len(b) \in Nat \ {0} /\ DOMAIN b = 1..Len(b) /\ Head(b) = b[1]
      /\ \A i \in DOMAIN b : b[i] \in Events
  OBVIOUS
<1>2. /\ Tail(b) \in Seq(Events) /\ DOMAIN Tail(b) = 1..(Len(b) - 1)
      /\ \A i \in DOMAIN Tail(b) : Tail(b)[i] = b[i + 1]
  OBVIOUS
<1>3. ToSet(Tail(b)) = ToSet(b) \ {Head(b)}
  <2>1. ASSUME NEW e \in ToSet(Tail(b))
        PROVE  e \in ToSet(b) \ {Head(b)}
    BY <1>1, <1>2 DEF ToSet
  <2>2. ASSUME NEW e \in ToSet(b) \ {Head(b)}
        PROVE  e \in ToSet(Tail(b))
    <3>1. PICK i \in DOMAIN b : e = b[i]
      BY DEF ToSet
    <3>2. i - 1 \in DOMAIN Tail(b) /\ Tail(b)[i - 1] = e
      BY <1>1, <1>2, <2>2, <3>1
    <3>. QED  BY <3>2 DEF ToSet
  <2>. QED  BY <2>1, <2>2
<1>. QED  BY <1>1, <1>2, <1>3 DEF ToSet

\* What is attempted next is a pending row that only this transaction has.
LEMMA NextAttempt ==
  ASSUME IInv, NEW p \in Publishers, tx[p].left # <<>>
  PROVE  LET e == Head(tx[p].left)
         IN /\ e \in Events /\ e \in Locked(p) /\ e \notin tx[p].sent \cup tx[p].failed
            /\ row[e] = "pending" /\ Working(p)
            /\ Tail(tx[p].left) \in Seq(Events)
            /\ ToSet(Tail(tx[p].left)) = ToSet(tx[p].left) \ {e}
            /\ \A i, j \in DOMAIN Tail(tx[p].left) :
                 i # j => Tail(tx[p].left)[i] # Tail(tx[p].left)[j]
            /\ ~Sending(e)
<1> DEFINE left == tx[p].left
           e == Head(left)
<1>1. /\ left \in Seq(Events) /\ left # <<>>
      /\ \A i, j \in DOMAIN left : i # j => left[i] # left[j]
  BY DEF IInv, Shapes, Transactions, AttemptedOnce
<1>2. /\ e \in Events /\ Tail(left) \in Seq(Events) /\ e \in ToSet(left)
      /\ ToSet(Tail(left)) = ToSet(left) \ {e}
      /\ \A i, j \in DOMAIN Tail(left) : i # j => Tail(left)[i] # Tail(left)[j]
  BY <1>1, FirstOfBatch
<1>3. e \in Locked(p) /\ row[e] = "pending"
  BY <1>2 DEF Locked, IInv, TypeOK
<1>4. e \notin tx[p].sent \cup tx[p].failed
  BY <1>2 DEF IInv, AttemptedOnce
<1>5. Working(p)
  BY DEF IInv, TypeOK, NoTx
<1>6. ~Sending(e)
  <2>1. ASSUME NEW q \in Publishers, q # p
        PROVE  e \notin tx[q].sent
    BY <1>3, <2>1 DEF Locked, IInv, LockedOnce
  <2>. QED  BY <1>4, <2>1 DEF Sending
<1>. QED  BY <1>2, <1>3, <1>4, <1>5, <1>6

-----------------------------------------------------------------------------
(***************************************************************************)
(* Every step keeps the invariant.                                         *)
(***************************************************************************)

\* A notification that is dropped leaves the queue as it is.
LEMMA WokenType ==
  ASSUME NEW w \in Seq(Notices), Len(w) <= WakeupBuffer, NEW s \in Notices
  PROVE  Woken(w, s) \in Seq(Notices) /\ Len(Woken(w, s)) <= WakeupBuffer
<1>1. Len(w) \in Int /\ WakeupBuffer \in Int
  <2>1. Len(w) \in Nat
    BY LenProperties
  <2>. QED  BY <2>1, OutboxAssumption
<1>2. Append(w, s) \in Seq(Notices) /\ Len(Append(w, s)) = Len(w) + 1
  BY AppendProperties
<1>3. CASE Len(w) < WakeupBuffer
  <2>1. Woken(w, s) = Append(w, s)
    BY <1>3 DEF Woken
  <2>2. Len(w) + 1 <= WakeupBuffer
    BY <1>1, <1>3
  <2>. QED  BY <1>2, <2>1, <2>2
<1>4. CASE ~(Len(w) < WakeupBuffer)
  <2>1. Woken(w, s) = w
    BY <1>4 DEF Woken
  <2>. QED  BY <2>1
<1>. QED  BY <1>3, <1>4

\* Rows come and go: nothing that is locked, and no copy, changes.
LEMMA RowsKeepIInv ==
  ASSUME IInv, NEW e \in Events, Raise(e) \/ Purge(e)
  PROVE  IInv'
<1>. USE DEF IInv
<1>1. UNCHANGED <<retries, copies, listening, pass, tx, faults>>
  BY DEF Raise, Purge
<1>2. wakeups' \in [Publishers -> Seq(Notices)] /\ \A p \in Publishers : Len(wakeups'[p]) <= WakeupBuffer
  <2>1. CASE Raise(e)
    <3>1. Schema[e] \in Notices
      BY OutboxAssumption DEF Notices
    <3>2. \A p \in Publishers : /\ wakeups[p] \in Seq(Notices) /\ Len(wakeups[p]) <= WakeupBuffer
                                /\ wakeups'[p] \in {wakeups[p], Woken(wakeups[p], Schema[e])}
      BY <2>1 DEF Raise, Shapes, TypeOK
    <3>3. \A p \in Publishers : wakeups'[p] \in Seq(Notices) /\ Len(wakeups'[p]) <= WakeupBuffer
      BY <3>1, <3>2, WokenType
    <3>. QED  BY <2>1, <3>3 DEF Raise
  <2>2. CASE Purge(e)
    BY <2>2 DEF Purge, Shapes, TypeOK
  <2>. QED  BY <2>1, <2>2
<1>3. \A p \in Publishers : e \notin Locked(p) \/ row[e] = "pending"
  BY DEF TypeOK
<1>4. \A p \in Publishers : Locked(p)' = Locked(p)
  BY <1>1 DEF Locked
<1>5. /\ row' \in [Events -> {"none", "pending", "published", "dead", "purged"}]
      /\ \A f \in Events : f # e => row'[f] = row[f]
      /\ row[e] # "pending"
      /\ \/ row[e] = "none" /\ row'[e] = "pending"
         \/ row[e] \in {"published", "dead"} /\ row'[e] = "purged"
  BY DEF Raise, Purge, TypeOK
<1>6. TypeOK'
  BY <1>1, <1>2, <1>3, <1>4, <1>5 DEF TypeOK, Working, Idle
<1>7. Shapes' /\ AttemptedOnce'
  BY <1>1, <1>2 DEF Shapes, AttemptedOnce
<1>8. LockedOnce'
  BY <1>4 DEF LockedOnce
<1>9. CopiesCounted' /\ RowsSettled'
  <2>1. \A f \in Events : Sending(f)' = Sending(f)
    BY <1>1 DEF Sending
  <2>2. \A f \in Events : copies[f] \in Nat /\ retries[f] \in Nat
    BY DEF TypeOK
  <2>3. faults \in Nat /\ MaxRetries \in Nat \ {0}
    BY OutboxAssumption DEF TypeOK
  <2>4. CopiesCounted'
    BY <1>1, <1>5, <2>1, <2>2, <2>3 DEF CopiesCounted
  <2>5. ~Sending(e)
    BY <1>3, <1>5 DEF Sending, Locked
  <2>6. RowsSettled'
    BY <1>1, <1>5, <2>1, <2>2, <2>3, <2>5 DEF RowsSettled
  <2>. QED  BY <2>4, <2>6
<1>. QED  BY <1>6, <1>7, <1>8, <1>9

\* A pass that begins, or goes on to its next schema.
LEMMA PassChanged ==
  ASSUME IInv, NEW p \in Publishers,
         \/ \E t : \E w \in BOOLEAN : pass' = [pass EXCEPT ![p] = [todo |-> t, woken |-> w]]
         \/ NextSchema(p)
  PROVE  /\ pass' = [q \in Publishers |-> [todo |-> pass'[q].todo, woken |-> pass'[q].woken]]
         /\ \A q \in Publishers : pass'[q].woken \in BOOLEAN /\ (pass'[q] = pass[q] \/ q = p)
<1>1. /\ pass = [q \in Publishers |-> [todo |-> pass[q].todo, woken |-> pass[q].woken]]
      /\ \A q \in Publishers : pass[q].woken \in BOOLEAN
  BY DEF IInv, Shapes, TypeOK
<1>2. PICK t : \E w \in BOOLEAN : pass' = [pass EXCEPT ![p] = [todo |-> t, woken |-> w]]
  <2>1. CASE NextSchema(p)
    <3>1. PICK t, w : pass[p] = [todo |-> t, woken |-> w] /\ w \in BOOLEAN
      BY <1>1
    <3>2. \A n : [pass[p] EXCEPT !.todo = n] = [todo |-> n, woken |-> w]
      BY <3>1
    <3>3. pass' = [pass EXCEPT ![p] = [todo |-> Tail(t), woken |-> w]]
      <4>1. pass[p].todo = t
        BY <3>1
      <4>. QED  BY <2>1, <3>2, <4>1 DEF NextSchema
    <3>. QED  BY <3>1, <3>3
  <2>. QED  BY <2>1
<1>3. PICK w \in BOOLEAN : pass' = [pass EXCEPT ![p] = [todo |-> t, woken |-> w]]
  BY <1>2
<1>4. /\ DOMAIN pass' = Publishers /\ pass'[p] = [todo |-> t, woken |-> w]
      /\ \A q \in Publishers : q # p => pass'[q] = pass[q]
  BY <1>1, <1>3
<1>5. pass' = [q \in Publishers |-> pass'[q]]
  BY <1>1, <1>3
<1>6. \A q \in Publishers : /\ pass'[q] = [todo |-> pass'[q].todo, woken |-> pass'[q].woken]
                            /\ pass'[q].woken \in BOOLEAN
  BY <1>1, <1>4
<1>. QED  BY <1>4, <1>5, <1>6

\* What waits for a publisher, and what it has yet to pass over, holds nothing.
LEMMA PassesKeepIInv ==
  ASSUME IInv, NEW p \in Publishers,
         Connect(p) \/ Disconnect(p) \/ PublishWoken(p) \/ Poll(p)
  PROVE  IInv'
<1>. USE DEF IInv
<1>1. UNCHANGED <<row, retries, copies, tx>>
  BY DEF Connect, Disconnect, PublishWoken, Poll
<1>2. /\ faults' \in 0..MaxFaults /\ faults <= faults' /\ faults \in Nat
      /\ listening' \subseteq Publishers
  BY OutboxAssumption DEF Connect, Disconnect, PublishWoken, Poll, Fault, TypeOK
<1>3. wakeups' \in [Publishers -> Seq(Notices)] /\ \A q \in Publishers : Len(wakeups'[q]) <= WakeupBuffer
  <2>1. Woken(wakeups[p], Everything) \in Seq(Notices) /\ Len(Woken(wakeups[p], Everything)) <= WakeupBuffer
    <3>1. wakeups[p] \in Seq(Notices) /\ Len(wakeups[p]) <= WakeupBuffer /\ Everything \in Notices
      <4>1. Everything \in Notices
        BY DEF Notices
      <4>. QED  BY <4>1 DEF Shapes, TypeOK
    <3>. QED  BY <3>1, WokenType
  <2>2. <<>> \in Seq(Notices) /\ Len(<<>>) <= WakeupBuffer
    BY OutboxAssumption
  <2>3. wakeups' \in {wakeups, [wakeups EXCEPT ![p] = Woken(@, Everything)], [wakeups EXCEPT ![p] = <<>>]}
    BY DEF Connect, Disconnect, PublishWoken, Poll
  <2>. QED  BY <2>1, <2>2, <2>3 DEF Shapes, TypeOK
<1>4. /\ pass' = [q \in Publishers |-> [todo |-> pass'[q].todo, woken |-> pass'[q].woken]]
      /\ \A q \in Publishers : pass'[q].woken \in BOOLEAN /\ (pass'[q] = pass[q] \/ Idle(q))
  <2>1. CASE UNCHANGED pass
    BY <2>1 DEF Shapes, TypeOK
  <2>2. CASE PublishWoken(p) \/ Poll(p)
    <3>1. Idle(p) /\ \E t : \E w \in BOOLEAN : pass' = [pass EXCEPT ![p] = [todo |-> t, woken |-> w]]
      BY <2>2 DEF PublishWoken, Poll, FullPass
    <3>. QED  BY <3>1, PassChanged
  <2>. QED  BY <2>1, <2>2 DEF Connect, Disconnect
<1>5. TypeOK'
  BY <1>1, <1>2, <1>3, <1>4 DEF TypeOK, Locked, Working, Idle
<1>6. Shapes' /\ AttemptedOnce' /\ LockedOnce'
  <2>1. Shapes'
    BY <1>1, <1>3, <1>4 DEF Shapes
  <2>2. \A q \in Publishers : Locked(q)' = Locked(q)
    BY <1>1 DEF Locked
  <2>. QED  BY <1>1, <2>1, <2>2 DEF AttemptedOnce, LockedOnce
<1>7. CopiesCounted' /\ RowsSettled'
  <2>1. \A e \in Events : Sending(e)' = Sending(e)
    BY <1>1 DEF Sending
  <2>2. \A e \in Events : copies[e] \in Nat
    BY DEF TypeOK
  <2>. QED  BY <1>1, <1>2, <2>1, <2>2 DEF CopiesCounted, RowsSettled
<1>. QED  BY <1>5, <1>6, <1>7

\* A batch takes rows that nobody holds.
LEMMA ReadKeepsIInv ==
  ASSUME IInv, NEW p \in Publishers, ReadEvents(p)
  PROVE  IInv'
<1>. USE DEF IInv
<1>1. /\ UNCHANGED <<row, retries, copies, wakeups, listening, faults>>
      /\ ~Idle(p) /\ tx[p] = NoTx
  BY DEF ReadEvents, TypeOK
<1>2. CASE Readable(p) = {}
  <2>1. UNCHANGED tx /\ NextSchema(p)
    BY <1>2 DEF ReadEvents
  <2>2. /\ pass' = [q \in Publishers |-> [todo |-> pass'[q].todo, woken |-> pass'[q].woken]]
        /\ \A q \in Publishers : pass'[q].woken \in BOOLEAN /\ (pass'[q] = pass[q] \/ q = p)
    BY <2>1, PassChanged
  <2>3. ~Working(p)
    BY DEF ReadEvents
  <2>4. TypeOK'
    BY <1>1, <2>1, <2>2, <2>3 DEF TypeOK, Locked, Working, Idle
  <2>5. Shapes'
    BY <1>1, <2>1, <2>2 DEF Shapes
  <2>6. \A q \in Publishers : Locked(q)' = Locked(q)
    BY <2>1 DEF Locked
  <2>7. \A e \in Events : Sending(e)' = Sending(e)
    BY <2>1 DEF Sending
  <2>8. AttemptedOnce' /\ LockedOnce' /\ CopiesCounted' /\ RowsSettled'
    BY <1>1, <2>1, <2>6, <2>7 DEF AttemptedOnce, LockedOnce, CopiesCounted, RowsSettled
  <2>. QED  BY <2>4, <2>5, <2>8
<1>3. ASSUME NEW b \in Oldest(Readable(p)), UNCHANGED pass,
             tx' = [tx EXCEPT ![p] = [NoTx EXCEPT !.open = TRUE, !.left = b]]
      PROVE  IInv'
  <2>1. /\ b \in Seq(Events) /\ ToSet(b) \subseteq Readable(p)
        /\ \A i, j \in DOMAIN b : i # j => b[i] # b[j]
    BY BatchOfRows DEF Readable
  <2>2. /\ tx' \in [Publishers -> Transactions]
        /\ tx'[p] = [open |-> TRUE, left |-> b, sent |-> {}, failed |-> {}]
        /\ \A q \in Publishers : q # p => tx'[q] = tx[q]
    BY <1>3, <2>1 DEF Shapes, Transactions, NoTx
  <2>3. /\ Locked(p)' = ToSet(b) /\ tx[p].sent = {}
        /\ \A q \in Publishers : q # p => Locked(q)' = Locked(q) /\ Working(q)' = Working(q)
    BY <1>1, <2>2 DEF Locked, NoTx, Working
  <2>4. \A e \in ToSet(b) : row[e] = "pending" /\ \A q \in Publishers : e \notin Locked(q)
    BY <2>1 DEF Readable
  <2>5. TypeOK'
    <3>1. ToSet(b) \subseteq Events
      BY <2>1 DEF Readable
    <3>2. \A q \in Publishers : Locked(q)' \subseteq {e \in Events : row'[e] = "pending"}
      BY <1>1, <2>3, <2>4, <3>1 DEF TypeOK
    <3>3. \A q \in Publishers : Idle(q)' = Idle(q) /\ pass'[q].woken \in BOOLEAN
      BY <1>3 DEF Idle, TypeOK
    <3>4. Working(p)'
      BY <2>2 DEF Working
    <3>. QED  BY <1>1, <2>2, <2>3, <3>2, <3>3, <3>4 DEF TypeOK, Idle
  <2>6. Shapes'
    BY <1>1, <1>3, <2>2 DEF Shapes
  <2>7. AttemptedOnce'
    BY <2>1, <2>2 DEF AttemptedOnce
  <2>8. LockedOnce'
    BY <2>3, <2>4 DEF LockedOnce
  <2>9. CopiesCounted' /\ RowsSettled'
    <3>1. \A e \in Events : Sending(e)' = Sending(e)
      BY <2>2, <2>3 DEF Sending
    <3>. QED  BY <1>1, <3>1 DEF CopiesCounted, RowsSettled
  <2>. QED  BY <2>5, <2>6, <2>7, <2>8, <2>9
<1>4. ~(Readable(p) = {}) => \E b \in Oldest(Readable(p)) :
        UNCHANGED pass /\ tx' = [tx EXCEPT ![p] = [NoTx EXCEPT !.open = TRUE, !.left = b]]
  BY DEF ReadEvents
<1>. QED  BY <1>2, <1>3, <1>4

\* An attempt moves the first event of the batch; it is counted when it got
\* onto the stream, and a lost acknowledgement is a fault.
LEMMA AttemptKeepsIInv ==
  ASSUME IInv, NEW p \in Publishers,
         Publish(p) \/ PublishFails(p) \/ PublishUnacknowledged(p)
  PROVE  IInv'
<1>. USE DEF IInv
<1>1. PICK e \in Events, rest \in Seq(Events) :
        /\ e = Head(tx[p].left) /\ rest = Tail(tx[p].left)
        /\ e \in Locked(p) /\ e \notin tx[p].sent \cup tx[p].failed
        /\ row[e] = "pending" /\ Working(p) /\ ~Sending(e)
        /\ ToSet(rest) = ToSet(tx[p].left) \ {e}
        /\ \A i, j \in DOMAIN rest : i # j => rest[i] # rest[j]
  <2>1. tx[p].left # <<>>
    BY DEF Publish, PublishFails, PublishUnacknowledged
  <2>. QED  BY <2>1, NextAttempt
<1> DEFINE nowSent == [tx[p] EXCEPT !.left = rest, !.sent = @ \cup {e}]
           nowFailed == [tx[p] EXCEPT !.left = rest, !.failed = @ \cup {e}]
<1>2. /\ UNCHANGED <<row, retries, wakeups, listening, pass>>
      /\ faults \in Nat /\ faults' \in 0..MaxFaults
      /\ \/ /\ tx' = [tx EXCEPT ![p] = nowSent]
            /\ faults' = faults /\ copies' = [copies EXCEPT ![e] = @ + 1]
         \/ /\ tx' = [tx EXCEPT ![p] = nowFailed]
            /\ \/ faults' = faults /\ copies' = copies
               \/ faults' = faults + 1 /\ copies' = [copies EXCEPT ![e] = @ + 1]
  <2>1. faults \in Nat /\ faults \in 0..MaxFaults /\ MaxFaults \in Nat
    BY OutboxAssumption DEF TypeOK
  <2>2. CASE Publish(p)
    BY <1>1, <2>1, <2>2 DEF Publish, Sent
  <2>3. CASE PublishFails(p)
    BY <1>1, <2>1, <2>3 DEF PublishFails, Failed
  <2>4. CASE PublishUnacknowledged(p)
    <3>1. faults' = faults + 1 /\ faults' \in 0..MaxFaults
      BY <2>1, <2>4 DEF PublishUnacknowledged, Fault
    <3>2. tx' = [tx EXCEPT ![p] = nowFailed] /\ copies' = [copies EXCEPT ![e] = @ + 1]
      BY <1>1, <2>4 DEF PublishUnacknowledged, Failed
    <3>3. UNCHANGED <<row, retries, wakeups, listening, pass>>
      BY <2>4 DEF PublishUnacknowledged
    <3>. QED  BY <2>1, <3>1, <3>2, <3>3
  <2>. QED  BY <2>2, <2>3, <2>4
<1>3. /\ copies' \in [Events -> Nat]
      /\ \A f \in Events : copies[f] \in Nat /\ (f # e => copies'[f] = copies[f])
  <2>1. copies \in [Events -> Nat]
    BY DEF TypeOK
  <2>2. copies' = copies \/ copies' = [copies EXCEPT ![e] = @ + 1]
    BY <1>2
  <2>. QED  BY <2>1, <2>2
<1>4. /\ nowSent \in Transactions /\ nowSent.open = tx[p].open /\ nowSent.left = rest
      /\ nowSent.sent = tx[p].sent \cup {e} /\ nowSent.failed = tx[p].failed
      /\ nowFailed \in Transactions /\ nowFailed.open = tx[p].open /\ nowFailed.left = rest
      /\ nowFailed.sent = tx[p].sent /\ nowFailed.failed = tx[p].failed \cup {e}
  <2>1. tx[p] \in Transactions
    BY DEF Shapes
  <2>. QED  BY <1>1, <2>1 DEF Transactions
<1>. HIDE DEF nowSent, nowFailed
<1>5. /\ tx' \in [Publishers -> Transactions]
      /\ tx'[p].open = tx[p].open /\ tx'[p].left = rest
      /\ \/ /\ tx'[p].sent = tx[p].sent \cup {e} /\ tx'[p].failed = tx[p].failed
            /\ faults' = faults /\ copies' = [copies EXCEPT ![e] = @ + 1]
         \/ /\ tx'[p].sent = tx[p].sent /\ tx'[p].failed = tx[p].failed \cup {e}
            /\ \/ faults' = faults /\ copies' = copies
               \/ faults' = faults + 1 /\ copies' = [copies EXCEPT ![e] = @ + 1]
      /\ \A q \in Publishers : q # p => tx'[q] = tx[q]
  BY <1>2, <1>4 DEF Shapes
<1>6. e \in ToSet(tx[p].left)
  BY <1>1 DEF Locked
<1>7. \A q \in Publishers : Locked(q)' = Locked(q) /\ (Working(q)' <=> Working(q))
  <2>1. Locked(p)' = Locked(p) /\ (Working(p)' <=> Working(p))
    <3>1. Locked(p)' = tx'[p].sent \cup tx'[p].failed \cup (ToSet(tx[p].left) \ {e})
      BY <1>1, <1>5 DEF Locked
    <3>. QED  BY <1>5, <1>6, <3>1 DEF Locked, Working
  <2>2. ASSUME NEW q \in Publishers, q # p
        PROVE  Locked(q)' = Locked(q) /\ (Working(q)' <=> Working(q))
    BY <1>5, <2>2 DEF Locked, Working
  <2>. QED  BY <2>1, <2>2
<1>8. TypeOK'
  BY <1>1, <1>2, <1>3, <1>5, <1>7 DEF TypeOK, Idle
<1>9. Shapes'
  BY <1>2, <1>5 DEF Shapes
<1>10. AttemptedOnce'
  <2>1. /\ \A i, j \in DOMAIN tx'[p].left : i # j => tx'[p].left[i] # tx'[p].left[j]
        /\ ToSet(tx'[p].left) = ToSet(tx[p].left) \ {e}
    BY <1>1, <1>5
  <2>2. ToSet(tx'[p].left) \cap (tx'[p].sent \cup tx'[p].failed) = {}
    <3>1. ToSet(tx[p].left) \cap (tx[p].sent \cup tx[p].failed) = {}
      BY DEF AttemptedOnce
    <3>. QED  BY <1>5, <2>1, <3>1
  <2>3. tx'[p].sent \cap tx'[p].failed = {}
    <3>1. tx[p].sent \cap tx[p].failed = {}
      BY DEF AttemptedOnce
    <3>. QED  BY <1>1, <1>5, <3>1
  <2>4. ASSUME NEW q \in Publishers, q # p
        PROVE  /\ \A i, j \in DOMAIN tx'[q].left : i # j => tx'[q].left[i] # tx'[q].left[j]
               /\ ToSet(tx'[q].left) \cap (tx'[q].sent \cup tx'[q].failed) = {}
               /\ tx'[q].sent \cap tx'[q].failed = {}
    BY <1>5, <2>4 DEF AttemptedOnce
  <2>. QED  BY <2>1, <2>2, <2>3, <2>4 DEF AttemptedOnce
<1>11. LockedOnce'
  BY <1>7 DEF LockedOnce
<1>12. \A f \in Events \ {e} : Sending(f)' <=> Sending(f)
  <2>1. ASSUME NEW f \in Events \ {e}, NEW q \in Publishers
        PROVE  f \in tx'[q].sent <=> f \in tx[q].sent
    BY <1>5
  <2>. QED  BY <2>1 DEF Sending
<1>13. \/ Sending(e)' /\ faults' = faults /\ copies'[e] = copies[e] + 1
       \/ /\ ~Sending(e)'
          /\ \/ faults' = faults /\ copies'[e] = copies[e]
             \/ faults' = faults + 1 /\ copies'[e] = copies[e] + 1
  <2>1. \A k : copies' = [copies EXCEPT ![e] = k] => copies'[e] = k
    BY <1>1 DEF TypeOK
  <2>2. CASE tx'[p].sent = tx[p].sent \cup {e} /\ tx'[p].failed = tx[p].failed
    <3>1. Sending(e)'
      BY <2>2 DEF Sending
    <3>2. tx'[p].failed # tx[p].failed \cup {e}
      BY <1>1, <2>2
    <3>. QED  BY <1>5, <2>1, <3>1, <3>2
  <2>3. CASE tx'[p].sent = tx[p].sent /\ tx'[p].failed = tx[p].failed \cup {e}
    <3>1. \A q \in Publishers : e \notin tx'[q].sent
      BY <1>1, <1>5, <2>3 DEF Sending
    <3>2. tx'[p].sent # tx[p].sent \cup {e}
      BY <1>1, <2>3
    <3>. QED  BY <1>5, <2>1, <3>1, <3>2 DEF Sending
  <2>. QED  BY <1>5, <2>2, <2>3
<1>14. CopiesCounted'
  <2>1. ASSUME NEW f \in Events \ {e}
        PROVE  copies'[f] <= faults' + (IF row'[f] \in {"published", "purged"} \/ Sending(f)' THEN 1 ELSE 0)
    <3>1. faults \in Nat /\ faults <= faults' /\ faults' \in Nat
      BY <1>2
    <3>2. row'[f] = row[f] /\ copies'[f] = copies[f] /\ (Sending(f)' <=> Sending(f))
      BY <1>2, <1>3, <1>12
    <3>3. copies[f] \in Nat /\ copies[f] <= faults + (IF row[f] \in {"published", "purged"} \/ Sending(f) THEN 1 ELSE 0)
      BY <1>3 DEF CopiesCounted
    <3>. QED  BY <1>3, <3>1, <3>2, <3>3
  <2>2. copies[e] <= faults
    <3>1. ~(row[e] \in {"published", "purged"} \/ Sending(e))
      BY <1>1
    <3>2. copies[e] <= faults + (IF row[e] \in {"published", "purged"} \/ Sending(e) THEN 1 ELSE 0)
      BY DEF CopiesCounted
    <3>. QED  BY <1>2, <3>1, <3>2
  <2>3. copies'[e] <= faults' + (IF row'[e] \in {"published", "purged"} \/ Sending(e)' THEN 1 ELSE 0)
    BY <1>1, <1>2, <1>3, <1>13, <2>2
  <2>4. ASSUME NEW f \in Events
        PROVE  copies'[f] <= faults' + (IF row'[f] \in {"published", "purged"} \/ Sending(f)' THEN 1 ELSE 0)
    BY <2>1, <2>3
  <2>. QED  BY <2>4 DEF CopiesCounted
<1>15. RowsSettled'
  <2>1. UNCHANGED <<row, retries>> /\ \A f \in Events : f # e => copies'[f] = copies[f]
    BY <1>2, <1>3
  <2>2. copies'[e] \in Nat /\ (Sending(e)' => copies'[e] > 0)
    BY <1>1, <1>3, <1>13
  <2>3. ASSUME NEW f \in Events, f # e
        PROVE  (row'[f] = row[f]) /\ (retries'[f] = retries[f]) /\ (copies'[f] = copies[f]) /\ (Sending(f)' <=> Sending(f))
    BY <1>12, <2>1, <2>3
  <2>4. row'[e] = "pending" /\ retries'[e] = retries[e]
    BY <1>1, <2>1
  <2>. QED  BY <1>1, <2>2, <2>3, <2>4 DEF RowsSettled
<1>. QED  BY <1>8, <1>9, <1>10, <1>11, <1>14, <1>15

\* What was published without being marked is counted as a fault.
LEMMA AbortKeepsIInv ==
  ASSUME IInv, NEW p \in Publishers, Rollback(p) \/ Crash(p)
  PROVE  IInv'
<1>. USE DEF IInv
<1>1. /\ UNCHANGED <<row, retries, copies>> /\ tx' = [tx EXCEPT ![p] = NoTx]
      /\ faults' = faults + 1 /\ faults \in Nat /\ faults' \in 0..MaxFaults
  BY OutboxAssumption DEF Rollback, Crash, Fault, TypeOK
<1>2. /\ tx' \in [Publishers -> Transactions] /\ tx'[p] = NoTx
      /\ \A q \in Publishers : q # p => tx'[q] = tx[q]
  <2>1. NoTx \in Transactions
    BY DEF NoTx, Transactions
  <2>. QED  BY <1>1, <2>1 DEF Shapes
<1>3. ~Working(p)' /\ Locked(p)' = {} /\ \A q \in Publishers : q # p => Locked(q)' = Locked(q)
  BY <1>2 DEF Working, Locked, NoTx, ToSet
<1>4. /\ pass' = [q \in Publishers |-> [todo |-> pass'[q].todo, woken |-> pass'[q].woken]]
      /\ \A q \in Publishers : pass'[q].woken \in BOOLEAN /\ (pass'[q] = pass[q] \/ q = p)
  <2>1. \/ NextSchema(p)
        \/ \E t : \E w \in BOOLEAN : pass' = [pass EXCEPT ![p] = [todo |-> t, woken |-> w]]
    BY DEF Rollback, Crash, FullPass
  <2>. QED  BY <2>1, PassChanged
<1>5. /\ wakeups' \in [Publishers -> Seq(Notices)] /\ listening' \subseteq Publishers
      /\ \A q \in Publishers : Len(wakeups'[q]) <= WakeupBuffer
  <2>1. <<>> \in Seq(Notices) /\ Len(<<>>) <= WakeupBuffer
    BY OutboxAssumption
  <2>2. wakeups' \in {wakeups, [wakeups EXCEPT ![p] = <<>>]}
    BY DEF Rollback, Crash
  <2>3. listening' \subseteq Publishers
    BY DEF Rollback, Crash, TypeOK
  <2>. QED  BY <2>1, <2>2, <2>3 DEF Shapes, TypeOK
<1>6. TypeOK'
  BY <1>1, <1>2, <1>3, <1>4, <1>5 DEF TypeOK, Working, Idle
<1>7. Shapes'
  BY <1>2, <1>4, <1>5 DEF Shapes
<1>8. AttemptedOnce'
  <2>1. tx'[p].left = <<>> /\ tx'[p].sent = {} /\ tx'[p].failed = {} /\ ToSet(<<>>) = {}
    BY <1>2 DEF NoTx, ToSet
  <2>. QED  BY <1>2, <2>1 DEF AttemptedOnce
<1>9. LockedOnce'
  BY <1>3 DEF LockedOnce
<1>10. \A e \in Events : Sending(e)' => Sending(e)
  BY <1>2 DEF Sending, NoTx
<1>11. CopiesCounted' /\ RowsSettled'
  <2>1. \A e \in Events : copies[e] \in Nat /\ copies[e] <= faults + 1
    BY <1>1 DEF TypeOK, CopiesCounted
  <2>2. CopiesCounted'
    BY <1>1, <2>1 DEF CopiesCounted
  <2>. QED  BY <1>1, <1>10, <2>2 DEF RowsSettled
<1>. QED  BY <1>6, <1>7, <1>8, <1>9, <1>11

\* A commit marks what is locked, and what it marks as published is on the stream.
LEMMA CommitKeepsIInv ==
  ASSUME IInv, NEW p \in Publishers, Commit(p)
  PROVE  IInv'
<1>. USE DEF IInv
<1>1. /\ UNCHANGED <<copies, wakeups, listening, faults>> /\ tx' = [tx EXCEPT ![p] = NoTx]
      /\ faults \in Nat /\ MaxRetries \in Nat
  BY OutboxAssumption DEF Commit, TypeOK
<1>2. /\ tx' \in [Publishers -> Transactions] /\ tx'[p] = NoTx
      /\ \A q \in Publishers : q # p => tx'[q] = tx[q]
  <2>1. NoTx \in Transactions
    BY DEF NoTx, Transactions
  <2>. QED  BY <1>1, <2>1 DEF Shapes
<1>3. ~Working(p)' /\ Locked(p)' = {} /\ \A q \in Publishers : q # p => Locked(q)' = Locked(q)
  BY <1>2 DEF Working, Locked, NoTx, ToSet
<1>4. /\ pass' = [q \in Publishers |-> [todo |-> pass'[q].todo, woken |-> pass'[q].woken]]
      /\ \A q \in Publishers : pass'[q].woken \in BOOLEAN /\ (pass'[q] = pass[q] \/ q = p)
  <2>1. CASE UNCHANGED pass
    BY <2>1 DEF Shapes, TypeOK
  <2>2. CASE NextSchema(p)
    BY <2>2, PassChanged
  <2>. QED  BY <2>1, <2>2 DEF Commit
<1>5. \A e \in Events :
        /\ retries[e] \in 0..MaxRetries /\ copies[e] \in Nat
        /\ e \in tx[p].sent \cup tx[p].failed => row[e] = "pending" /\ retries[e] < MaxRetries
        /\ e \in tx[p].sent => e \notin tx[p].failed /\ copies[e] > 0
  BY DEF TypeOK, RowsSettled, AttemptedOnce, Locked, Sending
<1>6. \A e \in Events :
        /\ retries'[e] = IF e \in tx[p].failed THEN retries[e] + 1 ELSE retries[e]
        /\ row'[e] = IF e \in tx[p].sent THEN "published"
                     ELSE IF e \in tx[p].failed /\ retries'[e] >= MaxRetries THEN "dead"
                     ELSE row[e]
  BY DEF Commit, MarkAsFailed, GivenUp
<1>7. /\ retries' \in [Events -> 0..MaxRetries]
      /\ row' \in [Events -> {"none", "pending", "published", "dead", "purged"}]
  <2>1. \A e \in Events : retries'[e] \in 0..MaxRetries
    BY <1>1, <1>5, <1>6
  <2>2. /\ retries' = [e \in Events |-> retries'[e]]
        /\ row' = [e \in Events |-> row'[e]]
    BY DEF Commit, MarkAsFailed
  <2>3. \A e \in Events : row'[e] \in {"none", "pending", "published", "dead", "purged"}
    BY <1>6 DEF TypeOK
  <2>. QED  BY <2>1, <2>2, <2>3
<1>8. \A q \in Publishers : Locked(q)' \subseteq {e \in Events : row'[e] = "pending"}
  <2>1. ASSUME NEW q \in Publishers, q # p, NEW e \in Locked(q)
        PROVE  e \in Events /\ row'[e] = "pending"
    <3>1. e \in Events /\ row[e] = "pending"
      BY DEF TypeOK
    <3>2. e \notin tx[p].sent \cup tx[p].failed
      BY <2>1 DEF LockedOnce, Locked
    <3>. QED  BY <1>6, <3>1, <3>2
  <2>. QED  BY <1>3, <2>1
<1>9. TypeOK'
  BY <1>1, <1>2, <1>3, <1>4, <1>7, <1>8 DEF TypeOK, Working, Idle
<1>10. Shapes'
  BY <1>1, <1>2, <1>4 DEF Shapes
<1>11. AttemptedOnce'
  <2>1. tx'[p].left = <<>> /\ tx'[p].sent = {} /\ tx'[p].failed = {} /\ ToSet(<<>>) = {}
    BY <1>2 DEF NoTx, ToSet
  <2>. QED  BY <1>2, <2>1 DEF AttemptedOnce
<1>12. LockedOnce'
  BY <1>3 DEF LockedOnce
<1>13. \A e \in Events : /\ Sending(e)' => Sending(e)
                         /\ Sending(e) => Sending(e)' \/ e \in tx[p].sent
  BY <1>2 DEF Sending, NoTx
<1>14. CopiesCounted'
  BY <1>1, <1>5, <1>6, <1>13 DEF CopiesCounted
<1>15. RowsSettled'
  <2>1. ASSUME NEW e \in Events, e \in tx[p].sent
        PROVE  row'[e] = "published" /\ copies'[e] > 0
    BY <1>1, <1>5, <1>6, <2>1
  <2>2. ASSUME NEW e \in Events, e \in tx[p].failed
        PROVE  /\ \/ row'[e] = "dead" /\ retries'[e] = MaxRetries
                  \/ row'[e] = "pending" /\ retries'[e] < MaxRetries
               /\ ~Sending(e)'
    <3>1. ~Sending(e)
      BY <2>2 DEF Sending, LockedOnce, Locked, AttemptedOnce
    <3>. QED  BY <1>1, <1>5, <1>6, <1>13, <2>2, <3>1
  <2>3. ASSUME NEW e \in Events, e \notin tx[p].sent \cup tx[p].failed
        PROVE  /\ row'[e] = row[e] /\ retries'[e] = retries[e] /\ copies'[e] = copies[e]
               /\ Sending(e)' => Sending(e)
    BY <1>1, <1>6, <1>13, <2>3
  <2>. QED  BY <2>1, <2>2, <2>3 DEF RowsSettled
<1>. QED  BY <1>9, <1>10, <1>11, <1>12, <1>14, <1>15

\* The invariant holds, for any number of replicas and faults.
LEMMA InvariantHolds == Spec => []IInv
<1>1. Init => IInv
  <2>. SUFFICES ASSUME Init PROVE IInv
    OBVIOUS
  <2>1. \A p \in Publishers : tx[p] = NoTx /\ Locked(p) = {} /\ wakeups[p] = <<>> /\ pass[p] = FullPass
    BY DEF Init, Locked, NoTx, ToSet
  <2>2. NoTx \in Transactions /\ ToSet(<<>>) = {} /\ <<>> \in Seq(Notices) /\ Len(<<>>) = 0
    BY DEF NoTx, Transactions, ToSet
  <2>3. TypeOK
    <3>1. MaxRetries \in Nat /\ WakeupBuffer \in Nat /\ MaxFaults \in Nat
      BY OutboxAssumption
    <3>2. /\ row \in [Events -> {"none", "pending", "published", "dead", "purged"}]
          /\ retries \in [Events -> 0 .. MaxRetries] /\ copies \in [Events -> Nat]
          /\ listening \subseteq Publishers /\ faults \in 0 .. MaxFaults
      BY <3>1 DEF Init
    <3>3. \A p \in Publishers : Len(wakeups[p]) <= WakeupBuffer
      BY <2>1, <2>2, <3>1
    <3>4. \A p \in Publishers : pass[p].woken \in BOOLEAN /\ ~Working(p)
      <4>1. NoTx.open = FALSE /\ FullPass.woken = FALSE
        BY DEF FullPass, NoTx
      <4>. QED  BY <2>1, <4>1 DEF Working
    <3>. QED  BY <2>1, <3>2, <3>3, <3>4 DEF TypeOK
  <2>4. Shapes
    BY <2>2 DEF Init, Shapes, FullPass
  <2>5. AttemptedOnce /\ LockedOnce
    BY <2>1, <2>2 DEF AttemptedOnce, LockedOnce, NoTx
  <2>6. CopiesCounted /\ RowsSettled
    BY <2>1, OutboxAssumption DEF Init, CopiesCounted, RowsSettled, Sending, NoTx
  <2>. QED  BY <2>3, <2>4, <2>5, <2>6 DEF IInv
<1>2. IInv /\ [Next]_vars => IInv'
  <2>. SUFFICES ASSUME IInv, [Next]_vars PROVE IInv'
    OBVIOUS
  <2>1. CASE UNCHANGED vars
    <3>1. UNCHANGED <<row, retries, copies, wakeups, listening, pass, tx, faults>>
      BY <2>1 DEF vars
    <3>2. /\ \A p \in Publishers : Locked(p)' = Locked(p) /\ (Working(p)' <=> Working(p)) /\ (Idle(p)' <=> Idle(p))
          /\ \A e \in Events : Sending(e)' <=> Sending(e)
      BY <3>1 DEF Locked, Working, Idle, Sending
    <3>3. TypeOK'
      BY <3>1, <3>2 DEF IInv, TypeOK
    <3>4. Shapes' /\ AttemptedOnce'
      BY <3>1 DEF IInv, Shapes, AttemptedOnce
    <3>5. LockedOnce'
      BY <3>2 DEF IInv, LockedOnce
    <3>6. CopiesCounted' /\ RowsSettled'
      BY <3>1, <3>2 DEF IInv, CopiesCounted, RowsSettled
    <3>. QED  BY <3>3, <3>4, <3>5, <3>6 DEF IInv
  <2>2. CASE Next
    BY <2>2, RowsKeepIInv, PassesKeepIInv, ReadKeepsIInv, AttemptKeepsIInv,
       CommitKeepsIInv, AbortKeepsIInv DEF Next, Batch
  <2>. QED  BY <2>1, <2>2
<1>. QED  BY <1>1, <1>2, PTL DEF Spec

-----------------------------------------------------------------------------
(***************************************************************************)
(* What follows.                                                           *)
(***************************************************************************)

\* Every variable keeps its type: in particular no more waits for a publisher
\* than its buffer holds, no retry count passes OUTBOX_MAX_RETRIES, and what a
\* transaction holds is pending until it commits.
THEOREM TypeCorrect == Spec => []TypeOK
<1>1. IInv => TypeOK
  BY DEF IInv
<1>. QED  BY <1>1, InvariantHolds, PTL

\* An event is on the stream more than once only because of a rollback, a crash
\* or a lost acknowledgement, and then no oftener than there were of them: the
\* lock that FOR UPDATE SKIP LOCKED takes keeps the replicas apart.
THEOREM DuplicatesOnlyAfterFaults == Spec => []NoNeedlessDuplicates
<1>1. IInv => NoNeedlessDuplicates
  <2>. SUFFICES ASSUME IInv, NEW e \in Events PROVE copies[e] <= 1 + faults
    BY DEF NoNeedlessDuplicates
  <2>1. copies[e] \in Nat /\ faults \in Nat
    BY OutboxAssumption DEF IInv, TypeOK
  <2>2. copies[e] <= faults + (IF row[e] \in {"published", "purged"} \/ Sending(e) THEN 1 ELSE 0)
    BY DEF IInv, CopiesCounted
  <2>. QED  BY <2>1, <2>2
<1>. QED  BY <1>1, InvariantHolds, PTL

-----------------------------------------------------------------------------
(***************************************************************************)
(* The outbox takes the steps of EventDelivery.                            *)
(***************************************************************************)

\* The fates of the events, as EventDelivery sees them.
Fates == [e \in Events |-> Fate(e)]

\* A fate depends on the row and on what is on the stream.
FateTable ==
  \A e \in Events :
    /\ Fate(e) \in {"none", "owed", "sent", "given_up"}
    /\ Fate(e) = "none" <=> row[e] = "none"
    /\ Fate(e) = "sent" <=> copies[e] > 0
    /\ Fate(e) = "owed" <=> row[e] = "pending" /\ copies[e] = 0
    /\ Fate(e) = "given_up" <=> row[e] \in {"dead", "purged"} /\ copies[e] = 0

LEMMA FateOf == IInv => FateTable
<1>. SUFFICES ASSUME IInv, NEW e \in Events
     PROVE  /\ Fate(e) \in {"none", "owed", "sent", "given_up"}
            /\ Fate(e) = "none" <=> row[e] = "none"
            /\ Fate(e) = "sent" <=> copies[e] > 0
            /\ Fate(e) = "owed" <=> row[e] = "pending" /\ copies[e] = 0
            /\ Fate(e) = "given_up" <=> row[e] \in {"dead", "purged"} /\ copies[e] = 0
  BY DEF FateTable
<1>1. /\ row[e] \in {"none", "pending", "published", "dead", "purged"}
      /\ copies[e] \in Nat /\ retries[e] \in 0..MaxRetries /\ MaxRetries \in Nat
  BY OutboxAssumption DEF IInv, TypeOK
<1>2. /\ row[e] = "none" => copies[e] = 0
      /\ row[e] = "published" => copies[e] > 0
      /\ row[e] = "purged" => copies[e] > 0 \/ retries[e] = MaxRetries
  BY DEF IInv, RowsSettled
<1>. QED  BY <1>1, <1>2 DEF Fate

\* In a step an event is raised, or some are settled, or nothing happens: an
\* event that was raised is neither lost nor taken back, and a settled one
\* stays what it is.
LEMMA StepsOfDelivery == IInv /\ IInv' /\ [Next]_vars => [Delivery!Next]_Fates
<1>. SUFFICES ASSUME IInv, IInv', [Next]_vars
     PROVE  Delivery!Next \/ Fates' = Fates
  OBVIOUS
<1>1. FateTable /\ FateTable'
  <2>1. IInv' => FateTable'
    BY FateOf, PTL
  <2>. QED  BY <2>1, FateOf
<1>2. Fates' = [e \in Events |-> Fate(e)']
  BY DEF Fates
<1>3. (\A e \in Events : Fate(e)' = Fate(e)) => Fates' = Fates
  BY <1>2 DEF Fates
<1>4. \A e \in Events : /\ Fates[e] = Fate(e) /\ Fates'[e] = Fate(e)'
                        /\ copies[e] \in Nat /\ copies'[e] \in Nat
  BY <1>2 DEF Fates, IInv, TypeOK
<1>5. ASSUME NEW e \in Events, Raise(e)
      PROVE  Delivery!Next
  <2>1. /\ row[e] = "none" /\ row'[e] = "pending" /\ copies' = copies
        /\ \A f \in Events : f # e => row'[f] = row[f]
    BY <1>5 DEF Raise, IInv, TypeOK
  <2>2. Fate(e) = "none" /\ Fate(e)' = "owed"
    BY <1>1, <1>4, <2>1 DEF FateTable
  <2>3. ASSUME NEW f \in Events, f # e
        PROVE  Fate(f)' = Fate(f)
    BY <1>1, <1>4, <2>1, <2>3 DEF FateTable
  <2>4. Delivery!Raise(e)
    <3>1. Fates' = [Fates EXCEPT ![e] = "owed"]
      BY <1>2, <2>2, <2>3 DEF Fates
    <3>. QED  BY <1>4, <2>2, <3>1 DEF Delivery!Raise, Fates
  <2>. QED  BY <2>4 DEF Delivery!Next
<1>6. ASSUME NEW e \in Events, Purge(e)
      PROVE  Fates' = Fates
  <2>1. /\ row[e] \in {"published", "dead"} /\ row'[e] = "purged" /\ copies' = copies
        /\ \A f \in Events : f # e => row'[f] = row[f]
    BY <1>6 DEF Purge, IInv, TypeOK
  <2>2. ASSUME NEW f \in Events
        PROVE  Fate(f)' = Fate(f)
    BY <1>1, <1>4, <2>1, <2>2 DEF FateTable
  <2>. QED  BY <1>3, <2>2
<1>7. ASSUME UNCHANGED <<row, copies>>
      PROVE  Fates' = Fates
  <2>1. ASSUME NEW f \in Events
        PROVE  Fate(f)' = Fate(f)
    BY <1>1, <1>4, <1>7, <2>1 DEF FateTable
  <2>. QED  BY <1>3, <2>1
<1>8. ASSUME NEW p \in Publishers, Publish(p) \/ PublishUnacknowledged(p)
      PROVE  Delivery!Next \/ Fates' = Fates
  <2>1. PICK e \in Events : row[e] = "pending" /\ e = Head(tx[p].left)
    <3>1. tx[p].left # <<>>
      BY <1>8 DEF Publish, PublishUnacknowledged
    <3>. QED  BY <3>1, NextAttempt
  <2>2. /\ row' = row /\ copies'[e] = copies[e] + 1
        /\ \A f \in Events : f # e => copies'[f] = copies[f]
    BY <1>8, <2>1 DEF Publish, PublishUnacknowledged, IInv, TypeOK
  <2>3. Fate(e)' = "sent" /\ Fate(e) \in {"owed", "sent"}
    BY <1>1, <1>4, <2>1, <2>2 DEF FateTable
  <2>4. ASSUME NEW f \in Events, f # e
        PROVE  Fate(f)' = Fate(f)
    BY <1>1, <1>4, <2>2, <2>4 DEF FateTable
  <2>5. CASE Fate(e) = "sent"
    BY <1>3, <2>3, <2>4, <2>5
  <2>6. CASE Fate(e) = "owed"
    <3>1. Fates' = [Fates EXCEPT ![e] = "sent"]
      BY <1>2, <2>3, <2>4 DEF Fates
    <3>. QED  BY <1>4, <2>6, <3>1 DEF Delivery!Next, Delivery!Settle, Fates
  <2>. QED  BY <2>3, <2>5, <2>6
<1>9. ASSUME NEW p \in Publishers, Commit(p)
      PROVE  Delivery!Next
  <2>1. copies' = copies
    BY <1>9 DEF Commit
  <2>2. \A e \in Events :
          /\ e \in tx[p].sent \cup tx[p].failed => row[e] = "pending"
          /\ e \in tx[p].sent => copies[e] > 0
    BY DEF IInv, TypeOK, Locked, RowsSettled, Sending
  <2>3. \A e \in Events :
          \/ row'[e] = row[e]
          \/ e \in tx[p].sent /\ row'[e] = "published"
          \/ e \in tx[p].failed /\ row'[e] = "dead"
    BY <1>9 DEF Commit
  <2>4. ASSUME NEW e \in Events
        PROVE  Fate(e)' = Fate(e) \/ (Fate(e) = "owed" /\ Fate(e)' = "given_up")
    BY <1>1, <1>4, <2>1, <2>2, <2>3, <2>4 DEF FateTable
  <2>5. Fates' \in [Events -> {"none", "owed", "sent", "given_up"}]
    BY <1>1, <1>2 DEF FateTable
  <2>. QED  BY <1>4, <2>4, <2>5 DEF Delivery!Next, Delivery!SettleAll, Fates
<1>10. CASE UNCHANGED vars
  BY <1>7, <1>10 DEF vars
<1>11. CASE Next
  <2>1. ASSUME NEW p \in Publishers,
               \/ Connect(p) \/ Disconnect(p) \/ PublishWoken(p) \/ Poll(p)
               \/ ReadEvents(p) \/ PublishFails(p) \/ Rollback(p) \/ Crash(p)
        PROVE  Fates' = Fates
    BY <1>7, <2>1 DEF Connect, Disconnect, PublishWoken, Poll, ReadEvents, PublishFails,
                      Rollback, Crash
  <2>. QED  BY <1>5, <1>6, <1>8, <1>9, <1>11, <2>1 DEF Next, Batch
<1>. QED  BY <1>10, <1>11

\* The safety half of ImplementsEventDelivery: an event goes from none to owed
\* when it is raised, from there to the stream or, at a commit, to the given
\* up, and never anywhere else, whatever fails, crashes or is purged.  That it
\* gets out of owed at all rests on the fairness of Spec.
THEOREM TakesStepsOfEventDelivery == Spec => Delivery!Init /\ [][Delivery!Next]_Fates
<1>1. Init => Delivery!Init
  BY OutboxAssumption DEF Init, Delivery!Init, Fate
<1>2. IInv /\ IInv' /\ [Next]_vars => [Delivery!Next]_Fates
  BY StepsOfDelivery
<1>. QED  BY <1>1, <1>2, InvariantHolds, PTL DEF Spec
==============================================================================
