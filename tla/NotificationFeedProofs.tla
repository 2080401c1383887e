----------------------- MODULE NotificationFeedProofs -----------------------
(***************************************************************************)
(* Proofs about EventConsumer and the NotificationFeed that runs on it,    *)
(* for any messages, instances, accounts, limits and number of faults.     *)
(***************************************************************************)
EXTENDS NotificationFeed, SequenceTheorems, FiniteSetTheorems, TLAPS

-----------------------------------------------------------------------------
(***************************************************************************)
(* The consumer: its invariant.                                            *)
(***************************************************************************)

Deliveries == Messages \X (1 .. MaxDeliver)
Busy == [msg : Messages, n : 1 .. MaxDeliver, stage : Stages \ {"free"}]

ConsumerShapes ==
  /\ server \in [Messages -> {"waiting", "out", "acked", "terminated", "exhausted"}]
  /\ delivered \in [Messages -> 0 .. MaxDeliver]
  /\ consuming \subseteq Instances
  /\ handled \cup deadLetters \cup dropped \cup cutShort \subseteq Messages
  /\ faults \in 0 .. MaxFaults
  /\ buffer \in [Instances -> Seq(Deliveries)]
  /\ current \in [Instances -> {Free} \cup Busy]
  /\ \A i \in Instances : Len(buffer[i]) <= Prefetch
  /\ \A i \in Instances \ consuming : buffer[i] = <<>> /\ current[i] = Free

Handling(i, m, n) == current[i].msg = m /\ current[i].n = n

\* i has the n-th delivery of m, in its buffer or at work.
Holds(i, m, n) == <<m, n>> \in ToSet(buffer[i]) \/ Handling(i, m, n)

\* A delivery is one that was made, and is in one place.
DeliveredOnce ==
  /\ \A i \in Instances :
       /\ \A k, l \in DOMAIN buffer[i] : k # l => buffer[i][k] # buffer[i][l]
       /\ \A m \in Messages, n \in 1 .. MaxDeliver :
            ~(<<m, n>> \in ToSet(buffer[i]) /\ Handling(i, m, n))
  /\ \A i, j \in Instances, m \in Messages, n \in 1 .. MaxDeliver :
       Holds(i, m, n) => n <= delivered[m] /\ (i # j => ~Holds(j, m, n))

\* What the server and the instances know of a message.
StatusSays ==
  /\ \A m \in Messages :
       /\ server[m] = "waiting" => delivered[m] < MaxDeliver
       /\ server[m] = "exhausted" => delivered[m] = MaxDeliver
       /\ server[m] = "terminated" => m \in deadLetters \cup dropped
  /\ \A i \in Instances :
       /\ current[i].stage = "succeeded" => current[i].msg \in handled
       /\ current[i].stage = "giving_up" => current[i].msg \in deadLetters \cup dropped

\* As long as nothing has become of a message, somebody has its last delivery.
LastDeliveryHeld ==
  \A m \in Messages :
    delivered[m] = MaxDeliver /\ m \notin handled \cup deadLetters \cup dropped \cup cutShort =>
      \E i \in Instances : Holds(i, m, MaxDeliver)

ConsumerIInv ==
  /\ ConsumerShapes
  /\ DeliveredOnce
  /\ StatusSays
  /\ LastDeliveryHeld

-----------------------------------------------------------------------------
(***************************************************************************)
(* The feed: its invariant.                                                *)
(***************************************************************************)

Gone == deletedAccount \cup erasedAccount

FeedShapes ==
  /\ event \in Histories
  /\ feed \in [Messages -> [Accounts -> Rows]]
  /\ deletedAccount \cup erasedAccount \subseteq Leaving
  /\ told \in [Messages -> [Accounts -> Nat]]
  /\ late \subseteq Messages \X Accounts
  /\ todo \in [Instances -> SUBSET Accounts]
  /\ checked \in [Instances -> [to : Accounts \cup {Nobody}, erased : {FALSE}]]

\* What a handler has yet to do, and what it has done.
OnItsWay(i) ==
  /\ checked[i] # None => checked[i].to \in todo[i]
  /\ todo[i] # {} => current[i].stage = "handling"
  /\ todo[i] # {} => ~event[current[i].msg].garbled /\ todo[i] \subseteq Audience(event[current[i].msg])
  /\ current[i].stage = "succeeded" => ~event[current[i].msg].garbled
  /\ /\ current[i].stage \in {"handling", "succeeded"}
     /\ ~event[current[i].msg].garbled
     => \A a \in Audience(event[current[i].msg]) \ (todo[i] \cup Gone) : told[current[i].msg][a] > 0

HandlersOnTheirWay == \A i \in Instances : OnItsWay(i)

\* What was told, and what there is to show for it.
RowsOf ==
  \A m \in Messages, a \in Accounts :
    /\ told[m][a] > 0 => ~event[m].garbled /\ a \in Audience(event[m])
    /\ feed[m][a] # "none" => told[m][a] > 0
    /\ ~IsMail(m) /\ <<m, a>> \notin late =>
         /\ told[m][a] <= 1
         /\ told[m][a] > 0 => feed[m][a] # "none" \/ a \in erasedAccount \/ Settled(m)
    /\ server[m] = "acked" /\ a \in Audience(event[m]) \ Gone => told[m][a] > 0

\* The deliveries of m that may yet tell a.
Pending(m, a) ==
  {n \in 1 .. MaxDeliver : \E i \in Instances :
     <<m, n>> \in ToSet(buffer[i]) \/ (Handling(i, m, n) /\ a \in todo[i])}

\* A delivery tells a recipient once.
OncePerDelivery ==
  \A m \in Messages, a \in Accounts :
    told[m][a] + Cardinality(Pending(m, a)) <= delivered[m]

IInv ==
  /\ ConsumerIInv
  /\ FeedShapes
  /\ HandlersOnTheirWay
  /\ RowsOf
  /\ ErasedFeedGone
  /\ OncePerDelivery

-----------------------------------------------------------------------------
(***************************************************************************)
(* Every step of the consumer keeps its invariant.                         *)
(***************************************************************************)

\* What an instance is doing, by its stage.
LEMMA AtWork ==
  ASSUME ConsumerIInv, NEW i \in Instances
  PROVE  /\ current[i].stage = "free" => current[i] = Free
         /\ current[i].stage # "free" => current[i] \in Busy
         /\ current[i] = Free => \A m \in Messages, n \in Int : ~Handling(i, m, n)
<1>1. current[i] \in {Free} \cup Busy
  BY DEF ConsumerIInv, ConsumerShapes
<1>2. Free.stage = "free" /\ Free.msg = "none"
  BY DEF Free
<1>3. \A b \in Busy : b.stage # "free"
  BY DEF Busy
<1>. QED  BY <1>1, <1>2, <1>3, ConsumerAssumption DEF Handling

\* A message is held if one of its deliveries is.
LEMMA HeldIsDelivered ==
  ASSUME ConsumerShapes, NEW i \in Instances, NEW m
  PROVE  m \in Held(i) <=> m \in Messages /\ \E n \in 1 .. MaxDeliver : Holds(i, m, n)
<1>1. /\ buffer[i] \in Seq(Deliveries)
      /\ current[i] \in {Free} \cup Busy
  BY DEF ConsumerShapes
<1>2. \A k \in DOMAIN buffer[i] : buffer[i][k] \in Deliveries
  BY <1>1
<1>3. \A d \in Deliveries : d = <<d[1], d[2]>> /\ d[1] \in Messages /\ d[2] \in 1 .. MaxDeliver
  BY DEF Deliveries
<1>4. m \in {buffer[i][k][1] : k \in DOMAIN buffer[i]}
        <=> m \in Messages /\ \E n \in 1 .. MaxDeliver : <<m, n>> \in ToSet(buffer[i])
  BY <1>2, <1>3 DEF ToSet
<1>5. m \in {current[i].msg} \ {"none"}
        <=> m \in Messages /\ \E n \in 1 .. MaxDeliver : Handling(i, m, n)
  <2>1. CASE current[i] = Free
    BY <2>1, ConsumerAssumption DEF Free, Handling
  <2>2. CASE current[i] \in Busy
    BY <2>2, ConsumerAssumption DEF Busy, Handling
  <2>. QED  BY <1>1, <2>1, <2>2
<1>. QED  BY <1>4, <1>5 DEF Held, Holds

\* The first of a queue whose members differ.
LEMMA FirstOfQueue ==
  ASSUME NEW S, NEW b \in Seq(S), b # <<>>, \A k, l \in DOMAIN b : k # l => b[k] # b[l]
  PROVE  /\ Head(b) \in S
         /\ Tail(b) \in Seq(S) /\ Len(Tail(b)) = Len(b) - 1
         /\ Head(b) \in ToSet(b)
         /\ ToSet(Tail(b)) = ToSet(b) \ {Head(b)}
         /\ \A k, l \in DOMAIN Tail(b) : k # l => Tail(b)[k] # Tail(b)[l]
<1>1. /\ Len(b) \in Nat \ {0} /\ DOMAIN b = 1..Len(b) /\ Head(b) = b[1]
      /\ \A k \in DOMAIN b : b[k] \in S
  OBVIOUS
<1>2. /\ Tail(b) \in Seq(S) /\ DOMAIN Tail(b) = 1..(Len(b) - 1) /\ Len(Tail(b)) = Len(b) - 1
      /\ \A k \in DOMAIN Tail(b) : Tail(b)[k] = b[k + 1]
  OBVIOUS
<1>3. ToSet(Tail(b)) = ToSet(b) \ {Head(b)}
  <2>1. ASSUME NEW e \in ToSet(Tail(b))
        PROVE  e \in ToSet(b) \ {Head(b)}
    BY <1>1, <1>2 DEF ToSet
  <2>2. ASSUME NEW e \in ToSet(b) \ {Head(b)}
        PROVE  e \in ToSet(Tail(b))
    <3>1. PICK k \in DOMAIN b : e = b[k]
      BY DEF ToSet
    <3>2. k - 1 \in DOMAIN Tail(b) /\ Tail(b)[k - 1] = e
      BY <1>1, <1>2, <2>2, <3>1
    <3>. QED  BY <3>2 DEF ToSet
  <2>. QED  BY <2>1, <2>2
<1>. QED  BY <1>1, <1>2, <1>3 DEF ToSet

\* One more at the end of a queue that does not have it.
LEMMA EndOfQueue ==
  ASSUME NEW S, NEW b \in Seq(S), NEW d \in S, d \notin ToSet(b),
         \A k, l \in DOMAIN b : k # l => b[k] # b[l]
  PROVE  /\ Append(b, d) \in Seq(S) /\ Len(Append(b, d)) = Len(b) + 1 /\ Len(b) \in Nat
         /\ ToSet(Append(b, d)) = ToSet(b) \cup {d}
         /\ \A k, l \in DOMAIN Append(b, d) : k # l => Append(b, d)[k] # Append(b, d)[l]
<1>1. /\ Len(b) \in Nat /\ DOMAIN b = 1..Len(b) /\ \A k \in DOMAIN b : b[k] \in ToSet(b)
  BY DEF ToSet
<1>2. /\ Append(b, d) \in Seq(S) /\ Len(Append(b, d)) = Len(b) + 1
      /\ DOMAIN Append(b, d) = 1..(Len(b) + 1) /\ Append(b, d)[Len(b) + 1] = d
      /\ \A k \in 1..Len(b) : Append(b, d)[k] = b[k]
  OBVIOUS
<1>3. \A k \in DOMAIN Append(b, d) : k \in DOMAIN b \/ k = Len(b) + 1
  BY <1>1, <1>2
<1>4. ToSet(Append(b, d)) = ToSet(b) \cup {d}
  <2>1. \A e \in ToSet(Append(b, d)) : e \in ToSet(b) \cup {d}
    BY <1>1, <1>2, <1>3 DEF ToSet
  <2>2. ASSUME NEW e \in ToSet(b)
        PROVE  e \in ToSet(Append(b, d))
    <3>1. PICK k \in DOMAIN b : e = b[k]
      BY DEF ToSet
    <3>2. k \in DOMAIN Append(b, d) /\ Append(b, d)[k] = e
      BY <1>1, <1>2, <3>1
    <3>. QED  BY <3>2 DEF ToSet
  <2>3. d \in ToSet(Append(b, d))
    <3>1. Len(b) + 1 \in DOMAIN Append(b, d)
      BY <1>1, <1>2
    <3>. QED  BY <1>2, <3>1 DEF ToSet
  <2>. QED  BY <2>1, <2>2, <2>3
<1>5. ASSUME NEW k \in DOMAIN Append(b, d), NEW l \in DOMAIN Append(b, d), k # l
      PROVE  Append(b, d)[k] # Append(b, d)[l]
  <2>1. CASE k \in DOMAIN b /\ l \in DOMAIN b
    BY <1>1, <1>2, <1>5, <2>1
  <2>2. CASE k = Len(b) + 1 /\ l \in DOMAIN b
    BY <1>1, <1>2, <2>2
  <2>3. CASE k \in DOMAIN b /\ l = Len(b) + 1
    BY <1>1, <1>2, <2>3
  <2>. QED  BY <1>3, <1>5, <2>1, <2>2, <2>3
<1>. QED  BY <1>2, <1>1, <1>4, <1>5

\* What does not deliver, and takes up nothing, leaves the deliveries in one place.
LEMMA FewerHeld ==
  ASSUME ConsumerIInv, UNCHANGED delivered,
         \A i \in Instances : buffer'[i] = buffer[i] \/ buffer'[i] = <<>>,
         \A i \in Instances, m \in Messages, n \in Int : Handling(i, m, n)' => Handling(i, m, n)
  PROVE  /\ DeliveredOnce'
         /\ \A i \in Instances, m \in Messages, n \in Int : Holds(i, m, n)' => Holds(i, m, n)
<1>1. \A d : d \notin ToSet(<<>>)
  BY DEF ToSet
<1>2. \A i \in Instances : \A d : d \in ToSet(buffer'[i]) => d \in ToSet(buffer[i])
  BY <1>1
<1>3. \A i \in Instances, m \in Messages, n \in Int : Holds(i, m, n)' => Holds(i, m, n)
  BY <1>2 DEF Holds
<1>4. \A i \in Instances :
        /\ \A k, l \in DOMAIN buffer'[i] : k # l => buffer'[i][k] # buffer'[i][l]
        /\ \A m \in Messages, n \in 1 .. MaxDeliver :
             ~(<<m, n>> \in ToSet(buffer'[i]) /\ Handling(i, m, n)')
  BY <1>2 DEF ConsumerIInv, DeliveredOnce
<1>5. \A i, j \in Instances, m \in Messages, n \in 1 .. MaxDeliver :
        Holds(i, m, n)' => n <= delivered'[m] /\ (i # j => ~Holds(j, m, n)')
  BY <1>3 DEF ConsumerIInv, DeliveredOnce
<1>. QED  BY <1>3, <1>4, <1>5 DEF DeliveredOnce

\* A delivery the server makes has a number of its own.
LEMMA DeliverKeeps ==
  ASSUME ConsumerIInv, NEW i \in Instances, NEW m \in Messages, Deliver(i, m)
  PROVE  /\ ConsumerIInv'
         /\ delivered' = [delivered EXCEPT ![m] = @ + 1]
         /\ \A j \in Instances, o \in Messages, n \in 1 .. MaxDeliver :
              <<o, n>> \in ToSet(buffer'[j]) =>
                <<o, n>> \in ToSet(buffer[j]) \/ (o = m /\ n = delivered'[m])
<1> DEFINE x == delivered[m] + 1
           d == <<m, x>>
<1>. USE DEF ConsumerIInv
<1>1. /\ UNCHANGED <<current, consuming, handled, deadLetters, dropped, cutShort, faults>>
      /\ i \in consuming /\ Len(buffer[i]) < Prefetch /\ server[m] = "waiting"
      /\ server' = [server EXCEPT ![m] = "out"] /\ delivered' = [delivered EXCEPT ![m] = x]
      /\ buffer' = [buffer EXCEPT ![i] = Append(buffer[i], d)]
  BY DEF Deliver, outcome
<1>2. delivered[m] \in Nat /\ x \in 1 .. MaxDeliver /\ d \in Deliveries
  <2>1. delivered[m] \in 0 .. MaxDeliver /\ delivered[m] < MaxDeliver
    BY <1>1 DEF ConsumerShapes, StatusSays
  <2>2. x \in 1 .. MaxDeliver
    BY <2>1, ConsumerAssumption
  <2>. QED  BY <2>1, <2>2 DEF Deliveries
<1>. HIDE DEF x
<1>3. \A j \in Instances, n \in 1 .. MaxDeliver : Holds(j, m, n) => n # x
  BY <1>2 DEF DeliveredOnce, x
<1>4. /\ buffer[i] \in Seq(Deliveries) /\ d \notin ToSet(buffer[i]) /\ Len(buffer[i]) \in Nat
      /\ \A k, l \in DOMAIN buffer[i] : k # l => buffer[i][k] # buffer[i][l]
  <2>1. buffer[i] \in Seq(Deliveries)
    BY DEF ConsumerShapes
  <2>. QED  BY <1>2, <1>3, <2>1 DEF DeliveredOnce, Holds
<1>. HIDE DEF d
<1>5. /\ buffer'[i] \in Seq(Deliveries) /\ Len(buffer'[i]) = Len(buffer[i]) + 1
      /\ ToSet(buffer'[i]) = ToSet(buffer[i]) \cup {d}
      /\ \A k, l \in DOMAIN buffer'[i] : k # l => buffer'[i][k] # buffer'[i][l]
  <2>1. buffer'[i] = Append(buffer[i], d)
    BY <1>1 DEF ConsumerShapes
  <2>. QED  BY <1>2, <1>4, <2>1, EndOfQueue
<1>6. /\ \A j \in Instances : j # i => buffer'[j] = buffer[j]
      /\ buffer' \in [Instances -> Seq(Deliveries)]
  <2>1. buffer' = [buffer EXCEPT ![i] = buffer'[i]]
    BY <1>1 DEF ConsumerShapes
  <2>. QED  BY <1>5, <2>1 DEF ConsumerShapes
<1>7. /\ delivered'[m] = x /\ \A o \in Messages : o # m => delivered'[o] = delivered[o]
      /\ delivered' \in [Messages -> 0 .. MaxDeliver]
      /\ server' \in [Messages -> {"waiting", "out", "acked", "terminated", "exhausted"}]
      /\ server'[m] = "out" /\ \A o \in Messages : o # m => server'[o] = server[o]
  BY <1>1, <1>2 DEF ConsumerShapes
<1>8. ConsumerShapes'
  <2>1. \A j \in Instances : Len(buffer'[j]) <= Prefetch
    BY <1>1, <1>4, <1>5, <1>6, ConsumerAssumption DEF ConsumerShapes
  <2>. QED  BY <1>1, <1>6, <1>7, <2>1 DEF ConsumerShapes
<1>9. \A j \in Instances, o \in Messages, n \in 1 .. MaxDeliver :
        /\ Handling(j, o, n)' <=> Handling(j, o, n)
        /\ Holds(j, o, n)' <=> Holds(j, o, n) \/ (j = i /\ o = m /\ n = x)
  BY <1>1, <1>5, <1>6 DEF Holds, Handling, d
<1>10. DeliveredOnce'
  <2>1. \A j \in Instances : \A k, l \in DOMAIN buffer'[j] : k # l => buffer'[j][k] # buffer'[j][l]
    BY <1>5, <1>6 DEF DeliveredOnce
  <2>2. \A j \in Instances, o \in Messages, n \in 1 .. MaxDeliver :
          ~(<<o, n>> \in ToSet(buffer'[j]) /\ Handling(j, o, n)')
    <3>1. ASSUME NEW j \in Instances, NEW o \in Messages, NEW n \in 1 .. MaxDeliver,
                 <<o, n>> \in ToSet(buffer'[j]), Handling(j, o, n)
          PROVE  FALSE
      <4>1. <<o, n>> \notin ToSet(buffer[j])
        BY <3>1 DEF DeliveredOnce
      <4>2. j = i /\ <<o, n>> = d
        BY <1>5, <1>6, <3>1, <4>1
      <4>3. Holds(i, m, n) /\ n = x
        BY <3>1, <4>2 DEF Holds, d
      <4>. QED  BY <1>3, <4>3
    <3>. QED  BY <1>9, <3>1
  <2>3. \A j, h \in Instances, o \in Messages, n \in 1 .. MaxDeliver :
          Holds(j, o, n)' => n <= delivered'[o] /\ (j # h => ~Holds(h, o, n)')
    <3>1. ASSUME NEW j \in Instances, NEW h \in Instances, NEW o \in Messages,
                 NEW n \in 1 .. MaxDeliver, Holds(j, o, n)'
          PROVE  n <= delivered'[o] /\ (j # h => ~Holds(h, o, n)')
      <4>1. CASE o = m /\ n = x
        BY <1>2, <1>3, <1>7, <1>9, <3>1, <4>1
      <4>2. CASE o # m
        BY <1>7, <1>9, <3>1, <4>2 DEF DeliveredOnce
      <4>3. CASE o = m /\ n # x
        <5>1. n <= delivered[m] /\ (j # h => ~Holds(h, m, n))
          BY <1>9, <3>1, <4>3 DEF DeliveredOnce
        <5>. QED  BY <1>2, <1>7, <1>9, <4>3, <5>1 DEF x
      <4>. QED  BY <4>1, <4>2, <4>3
    <3>. QED  BY <3>1
  <2>. QED  BY <2>1, <2>2, <2>3 DEF DeliveredOnce
<1>11. StatusSays'
  BY <1>1, <1>7 DEF StatusSays
<1>12. LastDeliveryHeld'
  BY <1>1, <1>2, <1>7, <1>9 DEF LastDeliveryHeld
<1>13. \A j \in Instances, o \in Messages, n \in 1 .. MaxDeliver :
         <<o, n>> \in ToSet(buffer'[j]) =>
           <<o, n>> \in ToSet(buffer[j]) \/ (o = m /\ n = delivered'[m])
  <2>1. \A o \in Messages, n \in 1 .. MaxDeliver : <<o, n>> = d => o = m /\ n = delivered'[m]
    BY <1>7 DEF d
  <2>. QED  BY <1>5, <1>6, <2>1
<1>14. delivered' = [delivered EXCEPT ![m] = @ + 1]
  BY DEF Deliver
<1>. QED  BY <1>8, <1>10, <1>11, <1>12, <1>13, <1>14

\* The server's wait, and an answer that reaches it, change the state of a
\* message the server is not done with.
LEMMA ServerSays ==
  ASSUME ConsumerIInv, NEW m \in Messages, NEW st,
         \/ st = Redelivered(m)
         \/ st = "acked"
         \/ st = "terminated" /\ m \in deadLetters' \cup dropped',
         \/ Answered(m, st)
         \/ server' = [server EXCEPT ![m] = st]
         \/ server' = server,
         deadLetters \subseteq deadLetters', dropped \subseteq dropped', UNCHANGED delivered
  PROVE  /\ server' \in [Messages -> {"waiting", "out", "acked", "terminated", "exhausted"}]
         /\ \A o \in Messages : /\ server'[o] = "waiting" => delivered'[o] < MaxDeliver
                                /\ server'[o] = "exhausted" => delivered'[o] = MaxDeliver
                                /\ server'[o] = "terminated" => o \in deadLetters' \cup dropped'
<1>. USE DEF ConsumerIInv
<1>1. /\ server \in [Messages -> {"waiting", "out", "acked", "terminated", "exhausted"}]
      /\ delivered[m] \in 0 .. MaxDeliver /\ MaxDeliver \in Nat
  BY ConsumerAssumption DEF ConsumerShapes
<1>2. /\ st \in {"waiting", "exhausted", "acked", "terminated"}
      /\ st = "waiting" => delivered[m] < MaxDeliver
      /\ st = "exhausted" => delivered[m] = MaxDeliver
      /\ st = "terminated" => m \in deadLetters' \cup dropped'
  BY <1>1 DEF Redelivered
<1>3. server' = server \/ server' = [server EXCEPT ![m] = st]
  BY DEF Answered
<1>. QED  BY <1>1, <1>2, <1>3 DEF StatusSays

LEMMA AckWaitKeeps ==
  ASSUME ConsumerIInv, NEW m \in Messages, AckWaitExpires(m)
  PROVE  ConsumerIInv'
<1>1. UNCHANGED <<delivered, buffer, current, consuming, handled, deadLetters, dropped, cutShort, faults>>
  BY DEF AckWaitExpires, outcome
<1>2. /\ server' \in [Messages -> {"waiting", "out", "acked", "terminated", "exhausted"}]
      /\ \A o \in Messages : /\ server'[o] = "waiting" => delivered'[o] < MaxDeliver
                             /\ server'[o] = "exhausted" => delivered'[o] = MaxDeliver
                             /\ server'[o] = "terminated" => o \in deadLetters' \cup dropped'
  <2>1. server' = [server EXCEPT ![m] = Redelivered(m)]
    BY DEF AckWaitExpires
  <2>. QED  BY <1>1, <2>1, ServerSays
<1>3. ConsumerShapes'
  BY <1>1, <1>2 DEF ConsumerIInv, ConsumerShapes
<1>4. DeliveredOnce' /\ LastDeliveryHeld'
  BY <1>1 DEF ConsumerIInv, DeliveredOnce, LastDeliveryHeld, Holds, Handling
<1>5. \A i \in Instances :
        /\ current'[i].stage = "succeeded" => current'[i].msg \in handled'
        /\ current'[i].stage = "giving_up" => current'[i].msg \in deadLetters' \cup dropped'
  BY <1>1 DEF ConsumerIInv, StatusSays
<1>6. StatusSays'
  BY <1>2, <1>5 DEF StatusSays
<1>. QED  BY <1>3, <1>4, <1>6 DEF ConsumerIInv

\* The first delivery of the buffer is taken up.
LEMMA NextMessageKeeps ==
  ASSUME ConsumerIInv, NEW i \in Instances, NextMessage(i)
  PROVE  /\ ConsumerIInv'
         /\ \A j \in Instances, m \in Messages, n \in 1 .. MaxDeliver :
              /\ Holds(j, m, n)' <=> Holds(j, m, n)
              /\ j # i => (Handling(j, m, n)' <=> Handling(j, m, n))
         /\ Head(buffer[i]) \in Deliveries
         /\ current' = [current EXCEPT ![i] = [msg |-> Head(buffer[i])[1], n |-> Head(buffer[i])[2],
                                              stage |-> "handling"]]
         /\ \A j \in Instances : \A d : d \in ToSet(buffer'[j]) => d \in ToSet(buffer[j])
<1>. USE DEF ConsumerIInv
<1>1. /\ UNCHANGED <<server, delivered, consuming, handled, deadLetters, dropped, cutShort, faults>>
      /\ i \in consuming /\ current[i] = Free /\ buffer[i] # <<>>
      /\ buffer' = [buffer EXCEPT ![i] = Tail(buffer[i])]
      /\ current' = [current EXCEPT ![i] = [msg |-> Head(buffer[i])[1], n |-> Head(buffer[i])[2],
                                           stage |-> "handling"]]
  BY DEF NextMessage, outcome
<1>2. /\ buffer[i] \in Seq(Deliveries)
      /\ \A k, l \in DOMAIN buffer[i] : k # l => buffer[i][k] # buffer[i][l]
  BY DEF ConsumerShapes, DeliveredOnce
<1> DEFINE rest == Tail(buffer[i])
           first == Head(buffer[i])
<1>3. /\ rest \in Seq(Deliveries) /\ Len(rest) = Len(buffer[i]) - 1
      /\ ToSet(rest) = ToSet(buffer[i]) \ {first}
      /\ \A k, l \in DOMAIN rest : k # l => rest[k] # rest[l]
      /\ first \in Deliveries /\ first \in ToSet(buffer[i])
  BY <1>1, <1>2, FirstOfQueue
<1>4. Len(buffer[i]) \in Nat
  BY <1>2, LenProperties
<1>5. /\ buffer' = [buffer EXCEPT ![i] = rest]
      /\ current' = [current EXCEPT ![i] = [msg |-> first[1], n |-> first[2], stage |-> "handling"]]
  BY <1>1
<1>. HIDE DEF rest, first
<1>a. PICK o \in Messages, x \in 1 .. MaxDeliver : first = <<o, x>>
  BY <1>3 DEF Deliveries
<1>b. first[1] = o /\ first[2] = x
  BY <1>a
<1>c. /\ ToSet(rest) = ToSet(buffer[i]) \ {<<o, x>>} /\ <<o, x>> \in ToSet(buffer[i])
      /\ current' = [current EXCEPT ![i] = [msg |-> o, n |-> x, stage |-> "handling"]]
  BY <1>3, <1>5, <1>a, <1>b
<1>6. /\ current'[i] = [msg |-> o, n |-> x, stage |-> "handling"] /\ buffer'[i] = rest
      /\ current' \in [Instances -> {Free} \cup Busy] /\ buffer' \in [Instances -> Seq(Deliveries)]
      /\ \A j \in Instances : j # i => current'[j] = current[j] /\ buffer'[j] = buffer[j]
  <2>1. [msg |-> o, n |-> x, stage |-> "handling"] \in Busy
    BY DEF Busy, Stages
  <2>. QED  BY <1>3, <1>5, <1>c, <2>1 DEF ConsumerShapes
<1>7. ConsumerShapes'
  <2>1. \A j \in Instances : Len(buffer'[j]) <= Prefetch
    <3>1. Len(buffer[i]) <= Prefetch /\ Len(buffer'[i]) = Len(buffer[i]) - 1
      BY <1>3, <1>6 DEF ConsumerShapes
    <3>2. Len(buffer'[i]) <= Prefetch
      BY <1>4, <3>1, ConsumerAssumption
    <3>. QED  BY <1>6, <3>2 DEF ConsumerShapes
  <2>. QED  BY <1>1, <1>6, <2>1 DEF ConsumerShapes
<1>8. \A m \in Messages, n \in 1 .. MaxDeliver :
        /\ ~Handling(i, m, n)
        /\ Handling(i, m, n)' <=> m = o /\ n = x
        /\ <<m, n>> \in ToSet(buffer'[i]) <=> <<m, n>> \in ToSet(buffer[i]) /\ ~(m = o /\ n = x)
  <2>1. current[i] = Free /\ current'[i].msg = o /\ current'[i].n = x
    BY <1>1, <1>6
  <2>2. ToSet(buffer'[i]) = ToSet(buffer[i]) \ {<<o, x>>}
    BY <1>c, <1>6
  <2>3. \A m \in Messages, n \in 1 .. MaxDeliver : ~Handling(i, m, n)
    BY <2>1, AtWork
  <2>4. \A m \in Messages, n \in 1 .. MaxDeliver : Handling(i, m, n)' <=> m = o /\ n = x
    BY <2>1 DEF Handling
  <2>. QED  BY <2>2, <2>3, <2>4
<1>9. \A j \in Instances, m \in Messages, n \in 1 .. MaxDeliver :
        /\ Holds(j, m, n)' <=> Holds(j, m, n)
        /\ j # i => (Handling(j, m, n)' <=> Handling(j, m, n))
  <2>1. \A j \in Instances, m \in Messages, n \in 1 .. MaxDeliver :
          j # i => (Handling(j, m, n)' <=> Handling(j, m, n)) /\ (Holds(j, m, n)' <=> Holds(j, m, n))
    BY <1>6 DEF Holds, Handling
  <2>2. \A m \in Messages, n \in 1 .. MaxDeliver : Holds(i, m, n)' <=> Holds(i, m, n)
    BY <1>8, <1>c DEF Holds
  <2>. QED  BY <2>1, <2>2
<1>10. DeliveredOnce'
  <2>1. \A j \in Instances : \A k, l \in DOMAIN buffer'[j] : k # l => buffer'[j][k] # buffer'[j][l]
    <3>1. \A k, l \in DOMAIN buffer'[i] : k # l => buffer'[i][k] # buffer'[i][l]
      BY <1>3, <1>6
    <3>. QED  BY <1>6, <3>1 DEF DeliveredOnce
  <2>2. \A j \in Instances, m \in Messages, n \in 1 .. MaxDeliver :
          ~(<<m, n>> \in ToSet(buffer'[j]) /\ Handling(j, m, n)')
    <3>1. \A j \in Instances, m \in Messages, n \in 1 .. MaxDeliver :
            j # i => ~(<<m, n>> \in ToSet(buffer'[j]) /\ Handling(j, m, n)')
      BY <1>6, <1>9 DEF DeliveredOnce
    <3>. QED  BY <1>8, <3>1
  <2>3. \A j, h \in Instances, m \in Messages, n \in 1 .. MaxDeliver :
          Holds(j, m, n)' => n <= delivered'[m] /\ (j # h => ~Holds(h, m, n)')
    BY <1>1, <1>9 DEF DeliveredOnce
  <2>. QED  BY <2>1, <2>2, <2>3 DEF DeliveredOnce
<1>11. StatusSays'
  BY <1>1, <1>6 DEF StatusSays
<1>12. LastDeliveryHeld'
  <2>1. MaxDeliver \in 1 .. MaxDeliver
    BY ConsumerAssumption
  <2>. QED  BY <1>1, <1>9, <2>1 DEF LastDeliveryHeld
<1>13. \A j \in Instances : \A d : d \in ToSet(buffer'[j]) => d \in ToSet(buffer[j])
  BY <1>c, <1>6
<1>d. first \in Deliveries /\ first = Head(buffer[i])
  BY <1>3 DEF first
<1>. QED  BY <1>1, <1>d, <1>7, <1>9, <1>10, <1>11, <1>12, <1>13

\* An instance goes on to the next stage with the delivery it has.
LEMMA StageKeeps ==
  ASSUME ConsumerIInv, NEW i \in Instances, NEW st \in Stages \ {"free"}, current[i].stage # "free",
         current' = [current EXCEPT ![i].stage = st],
         UNCHANGED <<server, delivered, buffer, consuming, cutShort>>,
         handled \subseteq handled', deadLetters \subseteq deadLetters', dropped \subseteq dropped',
         handled' \cup deadLetters' \cup dropped' \subseteq Messages, faults' \in 0 .. MaxFaults,
         st = "succeeded" => current[i].msg \in handled',
         st = "giving_up" => current[i].msg \in deadLetters' \cup dropped'
  PROVE  /\ ConsumerIInv'
         /\ current'[i].stage = st /\ current'[i].msg = current[i].msg
         /\ \A j \in Instances : j # i => current'[j] = current[j]
         /\ \A j \in Instances, m \in Messages, n \in Int : Handling(j, m, n)' <=> Handling(j, m, n)
<1>. USE DEF ConsumerIInv
<1>1. current[i] \in Busy
  BY AtWork
<1>2. PICK m \in Messages, n \in 1 .. MaxDeliver, t \in Stages :
        current[i] = [msg |-> m, n |-> n, stage |-> t]
  BY <1>1 DEF Busy
<1>3. current' = [current EXCEPT ![i] = [msg |-> m, n |-> n, stage |-> st]]
  <2>1. [current[i] EXCEPT !.stage = st] = [msg |-> m, n |-> n, stage |-> st]
    BY <1>2
  <2>. QED  BY <2>1
<1>4. /\ current' \in [Instances -> {Free} \cup Busy]
      /\ current'[i] = [msg |-> m, n |-> n, stage |-> st]
      /\ \A j \in Instances : j # i => current'[j] = current[j]
  <2>1. [msg |-> m, n |-> n, stage |-> st] \in Busy
    BY DEF Busy
  <2>. QED  BY <1>3, <2>1 DEF ConsumerShapes
<1>5. current'[i].stage = st /\ current'[i].msg = current[i].msg /\ current'[i].n = current[i].n
  BY <1>2, <1>4
<1>6. \A j \in Instances, o \in Messages, x \in Int : Handling(j, o, x)' <=> Handling(j, o, x)
  BY <1>4, <1>5 DEF Handling
<1>7. DeliveredOnce' /\ \A j \in Instances, o \in Messages, x \in Int : Holds(j, o, x)' <=> Holds(j, o, x)
  <2>1. DeliveredOnce'
    BY <1>6, FewerHeld
  <2>. QED  BY <1>6, <2>1 DEF Holds
<1>8. i \in consuming
  BY <1>1, AtWork DEF ConsumerShapes, Free
<1>9. ConsumerShapes'
  BY <1>4, <1>8 DEF ConsumerShapes
<1>10. StatusSays'
  BY <1>4, <1>5 DEF StatusSays
<1>11. LastDeliveryHeld'
  <2>1. MaxDeliver \in Int
    BY ConsumerAssumption
  <2>. QED  BY <1>7, <2>1 DEF LastDeliveryHeld
<1>. QED  BY <1>4, <1>5, <1>6, <1>7, <1>9, <1>10, <1>11

LEMMA HandlerKeeps ==
  ASSUME ConsumerIInv, NEW i \in Instances,
         HandlerSucceeds(i) \/ (\E st \in {"failed", "permanent"} : HandlerFails(i, st)) \/ DeadLetter(i)
  PROVE  /\ ConsumerIInv'
         /\ UNCHANGED <<server, delivered, buffer>>
         /\ current[i] \in Busy
         /\ current'[i].msg = current[i].msg
         /\ current'[i].stage # "handling" /\ (current'[i].stage = "succeeded" => HandlerSucceeds(i))
         /\ \A j \in Instances : j # i => current'[j] = current[j]
         /\ \A j \in Instances, m \in Messages, n \in Int : Handling(j, m, n)' <=> Handling(j, m, n)
<1>. USE DEF ConsumerIInv
<1>1. current[i].stage \in Stages \ {"free"} /\ current[i].msg \in Messages /\ current[i] \in Busy
  <2>1. current[i].stage # "free"
    BY DEF HandlerSucceeds, HandlerFails, DeadLetter
  <2>2. current[i] \in Busy
    BY <2>1, AtWork
  <2>. QED  BY <2>2 DEF Busy
<1>2. faults \in 0 .. MaxFaults /\ MaxFaults \in Nat
  BY ConsumerAssumption DEF ConsumerShapes
<1>3. PICK st \in Stages \ {"free"} :
        /\ current' = [current EXCEPT ![i].stage = st] /\ st # "handling"
        /\ st = "succeeded" => HandlerSucceeds(i) /\ current[i].msg \in handled'
        /\ st = "giving_up" => current[i].msg \in deadLetters' \cup dropped'
  BY DEF HandlerSucceeds, HandlerFails, DeadLetter, Stages
<1>4. /\ UNCHANGED <<server, delivered, buffer, consuming, cutShort>>
      /\ handled \subseteq handled' /\ deadLetters \subseteq deadLetters' /\ dropped \subseteq dropped'
      /\ handled' \cup deadLetters' \cup dropped' \subseteq Messages
  BY <1>1 DEF HandlerSucceeds, HandlerFails, DeadLetter, outcome, ConsumerShapes
<1>5. faults' \in 0 .. MaxFaults
  BY <1>2 DEF HandlerSucceeds, HandlerFails, DeadLetter, outcome, Fault
<1>. QED  BY <1>1, <1>3, <1>4, <1>5, StageKeeps

\* What the instance has is over, for the instance.
LEMMA FreedKeeps ==
  ASSUME ConsumerIInv, NEW i \in Instances,
         current' = [current EXCEPT ![i] = Free],
         buffer' = buffer \/ buffer' = [buffer EXCEPT ![i] = <<>>]
  PROVE  /\ buffer' \in [Instances -> Seq(Deliveries)] /\ current' \in [Instances -> {Free} \cup Busy]
         /\ current'[i] = Free
         /\ \A j \in Instances : /\ Len(buffer'[j]) <= Prefetch
                                 /\ buffer'[j] = buffer[j] \/ buffer'[j] = <<>>
                                 /\ j # i => buffer'[j] = buffer[j] /\ current'[j] = current[j]
         /\ \A j \in Instances, m \in Messages, n \in Int :
              /\ Handling(j, m, n)' => j # i /\ Handling(j, m, n)
              /\ j # i => (Holds(j, m, n)' <=> Holds(j, m, n))
<1>. USE DEF ConsumerIInv
<1>1. <<>> \in Seq(Deliveries) /\ Len(<<>>) <= Prefetch
  BY ConsumerAssumption
<1>2. /\ buffer' \in [Instances -> Seq(Deliveries)] /\ current' \in [Instances -> {Free} \cup Busy]
      /\ current'[i] = Free
      /\ \A j \in Instances : j # i => buffer'[j] = buffer[j] /\ current'[j] = current[j]
  BY <1>1 DEF ConsumerShapes
<1>3. \A j \in Instances : /\ Len(buffer'[j]) <= Prefetch
                           /\ buffer'[j] = buffer[j] \/ buffer'[j] = <<>>
  BY <1>1, <1>2 DEF ConsumerShapes
<1>4. \A j \in Instances, m \in Messages, n \in Int :
        /\ Handling(j, m, n)' => j # i /\ Handling(j, m, n)
        /\ j # i => (Holds(j, m, n)' <=> Holds(j, m, n))
  BY <1>2, ConsumerAssumption DEF Handling, Holds, Free
<1>. QED  BY <1>2, <1>3, <1>4

\* An answer ends the work on a delivery; a nak is not for the last one.
LEMMA AnswerKeeps ==
  ASSUME ConsumerIInv, NEW i \in Instances, Ack(i) \/ Nak(i) \/ Term(i)
  PROVE  /\ ConsumerIInv' /\ UNCHANGED <<delivered, buffer>>
         /\ current' = [current EXCEPT ![i] = Free]
         /\ current[i] \in Busy /\ current[i].stage # "handling"
         /\ \A m \in Messages :
              server'[m] = "acked" => server[m] = "acked" \/ (m = current[i].msg /\ current[i].stage = "succeeded")
         /\ \A m \in Messages : server[m] \in {"acked", "terminated", "exhausted"} => server'[m] = server[m]
<1>. USE DEF ConsumerIInv
<1>1. /\ current[i].stage \in {"succeeded", "failed", "giving_up"}
      /\ current' = [current EXCEPT ![i] = Free]
      /\ UNCHANGED <<delivered, buffer, consuming, handled, deadLetters, dropped, cutShort>>
  BY DEF Ack, Nak, Term, Answer, outcome
<1>2. current[i] \in Busy
  BY <1>1, AtWork
<1>3. PICK m \in Messages, x \in 1 .. MaxDeliver : current[i].msg = m /\ current[i].n = x
  BY <1>2 DEF Busy
<1>4. PICK st : /\ Answered(m, st) \/ server' = server
                /\ \/ st = Redelivered(m) /\ x < MaxDeliver
                   \/ st = "acked" /\ current[i].stage = "succeeded"
                   \/ st = "terminated" /\ current[i].stage = "giving_up"
  <2>1. CASE Ack(i)
    BY <1>3, <2>1 DEF Ack, Answer
  <2>2. CASE Term(i)
    BY <1>3, <2>2 DEF Term, Answer
  <2>3. CASE Nak(i)
    <3>1. x < MaxDeliver
      BY <1>3, <2>3, ConsumerAssumption DEF Nak, LastChance
    <3>. QED  BY <1>3, <2>3, <3>1 DEF Nak, Answer
  <2>. QED  BY <2>1, <2>2, <2>3
<1>5. /\ current[i].stage = "succeeded" => m \in handled
      /\ current[i].stage = "giving_up" => m \in deadLetters \cup dropped
  BY <1>3 DEF StatusSays
<1>6. /\ server' \in [Messages -> {"waiting", "out", "acked", "terminated", "exhausted"}]
      /\ \A o \in Messages :
           /\ server'[o] = "waiting" => delivered'[o] < MaxDeliver
           /\ server'[o] = "exhausted" => delivered'[o] = MaxDeliver
           /\ server'[o] = "terminated" => o \in deadLetters' \cup dropped'
  <2>1. \/ st = Redelivered(m)
        \/ st = "acked"
        \/ st = "terminated" /\ m \in deadLetters' \cup dropped'
    BY <1>1, <1>4, <1>5
  <2>2. \/ Answered(m, st)
        \/ server' = [server EXCEPT ![m] = st]
        \/ server' = server
    BY <1>4
  <2>3. deadLetters \subseteq deadLetters' /\ dropped \subseteq dropped' /\ UNCHANGED delivered
    BY <1>1
  <2>. QED  BY <2>1, <2>2, <2>3, ServerSays
<1>7. faults' \in 0 .. MaxFaults
  <2>1. faults \in 0 .. MaxFaults /\ MaxFaults \in Nat
    BY ConsumerAssumption DEF ConsumerShapes
  <2>. QED  BY <2>1 DEF Ack, Nak, Term, Answer, Fault
<1>8. ConsumerShapes'
  <2>1. \A j \in Instances \ consuming : buffer'[j] = <<>> /\ current'[j] = Free
    BY <1>1, FreedKeeps DEF ConsumerShapes
  <2>. QED  BY <1>1, <1>6, <1>7, <2>1, FreedKeeps DEF ConsumerShapes
<1>9. DeliveredOnce'
  BY <1>1, FreedKeeps, FewerHeld
<1>10. StatusSays'
  <2>1. \A j \in Instances :
          /\ current'[j].stage = "succeeded" => current'[j].msg \in handled'
          /\ current'[j].stage = "giving_up" => current'[j].msg \in deadLetters' \cup dropped'
    BY <1>1, FreedKeeps DEF StatusSays, Free
  <2>. QED  BY <1>6, <2>1 DEF StatusSays
<1>11. LastDeliveryHeld'
  <2>. SUFFICES ASSUME NEW o \in Messages, delivered[o] = MaxDeliver,
                       o \notin handled \cup deadLetters \cup dropped \cup cutShort
                PROVE  \E j \in Instances : Holds(j, o, MaxDeliver)'
    BY <1>1 DEF LastDeliveryHeld
  <2>1. PICK j \in Instances : Holds(j, o, MaxDeliver)
    BY DEF LastDeliveryHeld
  <2>2. MaxDeliver \in Int /\ ~Handling(i, o, MaxDeliver)
    BY <1>1, <1>3, <1>4, <1>5, ConsumerAssumption DEF Handling, Nak
  <2>3. CASE j = i
    BY <1>1, <2>1, <2>2, <2>3 DEF Holds
  <2>4. CASE j # i
    BY <1>1, <2>1, <2>2, <2>4, FreedKeeps
  <2>. QED  BY <2>3, <2>4
<1>12. \A o \in Messages :
         /\ server'[o] = "acked" => server[o] = "acked" \/ (o = m /\ current[i].stage = "succeeded")
         /\ server[o] \in {"acked", "terminated", "exhausted"} => server'[o] = server[o]
  <2>1. server' = server \/ (server[m] \in {"waiting", "out"} /\ server' = [server EXCEPT ![m] = st])
    BY <1>4 DEF Answered
  <2>2. st = "acked" => current[i].stage = "succeeded"
    BY <1>4 DEF Redelivered
  <2>. QED  BY <2>1, <2>2 DEF ConsumerShapes
<1>. QED  BY <1>1, <1>2, <1>3, <1>8, <1>9, <1>10, <1>11, <1>12

\* What an instance loses is remembered.
LEMMA LosesKeeps ==
  ASSUME ConsumerIInv, NEW i \in Instances, Crash(i) \/ StopConsuming(i)
  PROVE  /\ ConsumerIInv' /\ UNCHANGED <<server, delivered>>
         /\ current' = [current EXCEPT ![i] = Free] /\ buffer' = [buffer EXCEPT ![i] = <<>>]
<1>. USE DEF ConsumerIInv
<1>1. /\ UNCHANGED <<server, delivered, handled, deadLetters, dropped>>
      /\ current' = [current EXCEPT ![i] = Free] /\ buffer' = [buffer EXCEPT ![i] = <<>>]
      /\ cutShort' = cutShort \cup Held(i) /\ consuming' \in {consuming \cup {i}, consuming \ {i}}
  BY DEF Crash, StopConsuming, Loses, outcome
<1>2. faults' \in 0 .. MaxFaults
  <2>1. faults \in 0 .. MaxFaults /\ MaxFaults \in Nat
    BY ConsumerAssumption DEF ConsumerShapes
  <2>. QED  BY <2>1 DEF Crash, StopConsuming, Loses, Fault
<1>3. \A m : m \in Held(i) <=> m \in Messages /\ \E n \in 1 .. MaxDeliver : Holds(i, m, n)
  BY HeldIsDelivered
<1>4. buffer'[i] = <<>> /\ current'[i] = Free
  BY <1>1 DEF ConsumerShapes
<1>5. ConsumerShapes'
  <2>1. \A j \in Instances \ consuming' : buffer'[j] = <<>> /\ current'[j] = Free
    BY <1>1, <1>4, FreedKeeps DEF ConsumerShapes
  <2>2. cutShort' \subseteq Messages /\ consuming' \subseteq Instances
    BY <1>1, <1>3 DEF ConsumerShapes
  <2>. QED  BY <1>1, <1>2, <2>1, <2>2, FreedKeeps DEF ConsumerShapes
<1>6. DeliveredOnce'
  BY <1>1, FreedKeeps, FewerHeld
<1>7. StatusSays'
  BY <1>1, FreedKeeps DEF StatusSays, Free
<1>8. LastDeliveryHeld'
  <2>. SUFFICES ASSUME NEW o \in Messages, delivered[o] = MaxDeliver, o \notin Held(i),
                       o \notin handled \cup deadLetters \cup dropped \cup cutShort
                PROVE  \E j \in Instances : Holds(j, o, MaxDeliver)'
    BY <1>1 DEF LastDeliveryHeld
  <2>1. PICK j \in Instances : Holds(j, o, MaxDeliver)
    BY DEF LastDeliveryHeld
  <2>2. MaxDeliver \in 1 .. MaxDeliver
    BY ConsumerAssumption
  <2>3. j # i /\ MaxDeliver \in Int
    BY <1>3, <2>1, <2>2
  <2>4. Holds(j, o, MaxDeliver)' <=> Holds(j, o, MaxDeliver)
    BY <1>1, <2>3, FreedKeeps
  <2>. QED  BY <2>1, <2>4
<1>. QED  BY <1>1, <1>5, <1>6, <1>7, <1>8

LEMMA ConsumerStarts ==
  ASSUME ConsumerInit
  PROVE  ConsumerIInv /\ \A m \in Messages, a \in Accounts : Pending(m, a) = {}
<1>. USE DEF ConsumerInit
<1>1. <<>> \in Seq(Deliveries) /\ Len(<<>>) <= Prefetch /\ \A d : d \notin ToSet(<<>>)
  BY ConsumerAssumption DEF ToSet
<1>2. ConsumerShapes
  BY <1>1, ConsumerAssumption DEF ConsumerShapes
<1>3. \A i \in Instances, m \in Messages, n \in Int : ~Handling(i, m, n) /\ ~Holds(i, m, n)
  BY <1>1, ConsumerAssumption DEF Handling, Holds, Free
<1>4. DeliveredOnce
  BY <1>1, <1>3 DEF DeliveredOnce
<1>5. StatusSays
  BY ConsumerAssumption DEF StatusSays, Free
<1>6. LastDeliveryHeld
  BY ConsumerAssumption DEF LastDeliveryHeld
<1>7. \A m \in Messages, a \in Accounts : Pending(m, a) = {}
  BY <1>1, <1>3 DEF Pending
<1>. QED  BY <1>2, <1>4, <1>5, <1>6, <1>7 DEF ConsumerIInv

\* What the invariant says of the consumer.
LEMMA ConsumerFacts ==
  ASSUME ConsumerIInv
  PROVE  ConsumerTypeOK /\ VanishesOnlyWhenCutShort
<1>. USE DEF ConsumerIInv
<1>1. ASSUME NEW i \in Instances
      PROVE  /\ current[i].stage \in Stages
             /\ current[i].stage = "free" <=> current[i] = Free
  <2>1. current[i] = Free \/ current[i] \in Busy
    BY DEF ConsumerShapes
  <2>. QED  BY <2>1 DEF Free, Busy, Stages
<1>2. ASSUME NEW i \in Instances, NEW m \in Held(i)
      PROVE  m \in Messages /\ delivered[m] > 0
  <2>1. PICK n \in 1 .. MaxDeliver : m \in Messages /\ Holds(i, m, n)
    BY HeldIsDelivered
  <2>2. n <= delivered[m] /\ delivered[m] \in 0 .. MaxDeliver
    BY <2>1 DEF DeliveredOnce, ConsumerShapes
  <2>. QED  BY <2>1, <2>2, ConsumerAssumption
<1>3. ASSUME NEW i \in Instances, i \notin consuming
      PROVE  Held(i) = {}
  BY <1>3 DEF ConsumerShapes, Held, Free
<1>4. ConsumerTypeOK
  BY <1>1, <1>2, <1>3 DEF ConsumerTypeOK, ConsumerShapes
<1>5. VanishesOnlyWhenCutShort
  <2>. SUFFICES ASSUME NEW m \in Messages, Vanished(m), m \notin dropped \cup cutShort
                PROVE  FALSE
    BY DEF VanishesOnlyWhenCutShort
  <2>1. server[m] = "exhausted" /\ m \notin handled \cup deadLetters
    BY DEF Vanished, StatusSays
  <2>2. PICK i \in Instances : Holds(i, m, MaxDeliver)
    BY <2>1 DEF StatusSays, LastDeliveryHeld
  <2>3. m \in Held(i)
    BY <2>2, HeldIsDelivered, ConsumerAssumption
  <2>. QED  BY <2>3 DEF Vanished
<1>. QED  BY <1>4, <1>5

-----------------------------------------------------------------------------
(***************************************************************************)
(* The feed: what the steps have in common.                                *)
(***************************************************************************)

LEMMA HeldMessages ==
  ConsumerShapes => \A i \in Instances, o \in Messages :
    (o \in Held(i) <=> \E n \in 1 .. MaxDeliver : Holds(i, o, n))
BY HeldIsDelivered

\* A message that is settled stays so: only who waits is delivered.
LEMMA SettledStays ==
  ASSUME ConsumerIInv, ConsumerIInv', NEW m \in Messages, Settled(m),
         server'[m] = server[m],
         \A i \in Instances, n \in 1 .. MaxDeliver : Holds(i, m, n)' => Holds(i, m, n)
  PROVE  Settled(m)'
<1>1. \A i \in Instances, n \in 1 .. MaxDeliver : ~Holds(i, m, n)'
  BY HeldIsDelivered DEF Settled, ConsumerIInv
<1>2. \A i \in Instances : (m \in Held(i) <=> \E n \in 1 .. MaxDeliver : Holds(i, m, n))'
  <2>2. (ConsumerShapes => \A i \in Instances, o \in Messages :
          (o \in Held(i) <=> \E n \in 1 .. MaxDeliver : Holds(i, o, n)))'
    BY HeldMessages, PTL
  <2>. QED  BY <2>2 DEF ConsumerIInv
<1>. QED  BY <1>1, <1>2 DEF Settled

\* The rows stand when nothing is told and no account is erased.
LEMMA RowsStand ==
  ASSUME RowsOf, UNCHANGED <<event, feed, told, late, erasedAccount>>,
         deletedAccount \subseteq deletedAccount',
         \A m \in Messages : Settled(m) => Settled(m)',
         \A m \in Messages : server'[m] = "acked" =>
           server[m] = "acked" \/ \A a \in Audience(event[m]) \ Gone : told[m][a] > 0
  PROVE  RowsOf'
BY DEF RowsOf, IsMail, Gone

\* A handler nobody disturbs.
LEMMA StaysOnItsWay ==
  ASSUME NEW i, OnItsWay(i), UNCHANGED event, Gone \subseteq Gone',
         current'[i] = current[i], todo'[i] = todo[i], checked'[i] = checked[i],
         \A a \in todo[i] \cup Audience(event[current[i].msg]) :
           told[current[i].msg][a] > 0 => told'[current[i].msg][a] > 0
  PROVE  OnItsWay(i)'
BY DEF OnItsWay

\* An instance with nothing to tell.
LEMMA NothingToTell ==
  ASSUME NEW i, todo'[i] = {}, checked'[i] = None,
         current'[i].stage \notin {"handling", "succeeded"}
  PROVE  OnItsWay(i)'
BY DEF OnItsWay

LEMMA PendingIsFinite ==
  ASSUME NEW m, NEW a
  PROVE  IsFiniteSet(Pending(m, a)) /\ Cardinality(Pending(m, a)) \in Nat
<1>1. Pending(m, a) \subseteq 1 .. MaxDeliver
  BY DEF Pending
<1>2. IsFiniteSet(1 .. MaxDeliver)
  BY ConsumerAssumption, FS_Interval
<1>. QED  BY <1>1, <1>2, FS_Subset, FS_CardinalityType

\* Nothing is told and nothing delivered.
LEMMA NoMorePending ==
  ASSUME OncePerDelivery, UNCHANGED delivered,
         NEW m \in Messages, NEW a \in Accounts, told'[m][a] = told[m][a],
         told[m][a] \in Nat, delivered[m] \in Nat,
         Pending(m, a)' \subseteq Pending(m, a)
  PROVE  told'[m][a] + Cardinality(Pending(m, a)') <= delivered'[m]
<1>1. Cardinality(Pending(m, a)') <= Cardinality(Pending(m, a)) /\ Cardinality(Pending(m, a)') \in Nat
  BY PendingIsFinite, FS_Subset, FS_CardinalityType
<1>2. told[m][a] + Cardinality(Pending(m, a)) <= delivered[m] /\ Cardinality(Pending(m, a)) \in Nat
  BY PendingIsFinite DEF OncePerDelivery
<1>. QED  BY <1>1, <1>2

\* Nothing of the feed changes, and nothing more can be told.
LEMMA QuietStep ==
  ASSUME IInv, ConsumerIInv', HandlersOnTheirWay', UNCHANGED <<feedVars, delivered>>,
         todo' \in [Instances -> SUBSET Accounts],
         checked' \in [Instances -> [to : Accounts \cup {Nobody}, erased : {FALSE}]],
         \A m \in Messages :
           /\ server[m] \in {"acked", "terminated", "exhausted"} => server'[m] = server[m]
           /\ server'[m] = "acked" =>
                server[m] = "acked" \/ \A a \in Audience(event[m]) \ Gone : told[m][a] > 0,
         \A j \in Instances, m \in Messages, n \in 1 .. MaxDeliver :
           /\ Holds(j, m, n)' => Holds(j, m, n)
           /\ <<m, n>> \in ToSet(buffer'[j]) => <<m, n>> \in ToSet(buffer[j])
           /\ Handling(j, m, n)' => \A a \in todo'[j] :
                <<m, n>> \in ToSet(buffer[j]) \/ (Handling(j, m, n) /\ a \in todo[j])
  PROVE  IInv'
<1>. USE DEF IInv, feedVars
<1>1. FeedShapes'
  BY DEF FeedShapes
<1>2. \A m \in Messages : Settled(m) => Settled(m)'
  <2>. SUFFICES ASSUME NEW m \in Messages, Settled(m)
                PROVE  Settled(m)'
    OBVIOUS
  <2>1. server'[m] = server[m]
    BY DEF Settled
  <2>. QED  BY <2>1, SettledStays
<1>3. RowsOf'
  BY <1>2, RowsStand
<1>4. ErasedFeedGone'
  BY DEF ErasedFeedGone
<1>5. OncePerDelivery'
  <2>. SUFFICES ASSUME NEW m \in Messages, NEW a \in Accounts
                PROVE  told'[m][a] + Cardinality(Pending(m, a)') <= delivered'[m]
    BY DEF OncePerDelivery
  <2>1. Pending(m, a)' \subseteq Pending(m, a)
    BY DEF Pending
  <2>2. told[m][a] \in Nat /\ delivered[m] \in Nat
    BY ConsumerAssumption DEF FeedShapes, ConsumerIInv, ConsumerShapes
  <2>. QED  BY <2>1, <2>2, NoMorePending
<1>. QED  BY <1>1, <1>3, <1>4, <1>5

-----------------------------------------------------------------------------
(***************************************************************************)
(* Every step of the feed keeps the invariant.                             *)
(***************************************************************************)

LEMMA AckWaitStep ==
  ASSUME IInv, NEW m \in Messages, AckWaitExpires(m), UNCHANGED <<feedVars, todo, checked>>
  PROVE  IInv'
<1>1. ConsumerIInv'
  BY AckWaitKeeps DEF IInv
<1>2. UNCHANGED <<delivered, buffer, current>> /\ server[m] = "out" /\ server' = [server EXCEPT ![m] = Redelivered(m)]
  BY DEF AckWaitExpires
<1>3. HandlersOnTheirWay'
  BY <1>2 DEF IInv, HandlersOnTheirWay, OnItsWay, Gone, feedVars
<1>4. \A o \in Messages :
        /\ server[o] \in {"acked", "terminated", "exhausted"} => server'[o] = server[o]
        /\ server'[o] = "acked" => server[o] = "acked"
  BY <1>2 DEF IInv, ConsumerIInv, ConsumerShapes, Redelivered
<1>5. \A j \in Instances, o \in Messages, n \in 1 .. MaxDeliver :
        /\ Holds(j, o, n)' => Holds(j, o, n)
        /\ Handling(j, o, n)' => Handling(j, o, n)
  BY <1>2 DEF Holds, Handling
<1>6. /\ todo' \in [Instances -> SUBSET Accounts]
      /\ checked' \in [Instances -> [to : Accounts \cup {Nobody}, erased : {FALSE}]]
  BY DEF IInv, FeedShapes
<1>. QED  BY <1>1, <1>2, <1>3, <1>4, <1>5, <1>6, QuietStep

LEMMA DeliverStep ==
  ASSUME IInv, NEW i \in Instances, NEW m \in Messages, Deliver(i, m),
         UNCHANGED <<feedVars, todo, checked>>
  PROVE  IInv'
<1>. USE DEF IInv, feedVars
<1>1. /\ ConsumerIInv'
      /\ delivered' = [delivered EXCEPT ![m] = @ + 1]
      /\ \A j \in Instances, o \in Messages, n \in 1 .. MaxDeliver :
           <<o, n>> \in ToSet(buffer'[j]) =>
             <<o, n>> \in ToSet(buffer[j]) \/ (o = m /\ n = delivered'[m])
  BY DeliverKeeps
<1>2. UNCHANGED current /\ server[m] = "waiting" /\ server' = [server EXCEPT ![m] = "out"]
  BY DEF Deliver
<1>3. FeedShapes' /\ ErasedFeedGone'
  BY DEF FeedShapes, ErasedFeedGone
<1>4. HandlersOnTheirWay'
  BY <1>2 DEF HandlersOnTheirWay, OnItsWay, Gone
<1>5. \A o \in Messages : o # m => server'[o] = server[o]
  BY <1>2 DEF ConsumerIInv, ConsumerShapes
<1>6. server'[m] = "out"
  BY <1>2 DEF ConsumerIInv, ConsumerShapes
<1>7. \A o \in Messages : Settled(o) => Settled(o)'
  <2>. SUFFICES ASSUME NEW o \in Messages, Settled(o)
                PROVE  Settled(o)'
    OBVIOUS
  <2>1. o # m
    BY <1>2 DEF Settled
  <2>2. \A j \in Instances, n \in 1 .. MaxDeliver : Holds(j, o, n)' => Holds(j, o, n)
    BY <1>1, <1>2, <2>1 DEF Holds, Handling
  <2>. QED  BY <1>1, <1>5, <2>1, <2>2, SettledStays
<1>8. RowsOf'
  BY <1>5, <1>6, <1>7, RowsStand
<1>9. OncePerDelivery'
  <2>. SUFFICES ASSUME NEW o \in Messages, NEW a \in Accounts
                PROVE  told'[o][a] + Cardinality(Pending(o, a)') <= delivered'[o]
    BY DEF OncePerDelivery
  <2>1. /\ told[o][a] \in Nat /\ delivered[o] \in Nat /\ told'[o][a] = told[o][a]
        /\ delivered'[m] = delivered[m] + 1 /\ delivered'[m] \in Nat
        /\ o # m => delivered'[o] = delivered[o]
    BY <1>1, ConsumerAssumption DEF FeedShapes, ConsumerIInv, ConsumerShapes
  <2>2. Pending(o, a)' \subseteq IF o = m THEN Pending(o, a) \cup {delivered'[m]} ELSE Pending(o, a)
    BY <1>1, <1>2 DEF Pending, Handling
  <2>3. /\ IsFiniteSet(Pending(o, a)) /\ Cardinality(Pending(o, a)) \in Nat
        /\ told[o][a] + Cardinality(Pending(o, a)) <= delivered[o]
    BY PendingIsFinite DEF OncePerDelivery
  <2>4. CASE o # m
    <3>1. Cardinality(Pending(o, a)') <= Cardinality(Pending(o, a)) /\ Cardinality(Pending(o, a)') \in Nat
      BY <2>2, <2>3, <2>4, FS_Subset, FS_CardinalityType
    <3>. QED  BY <2>1, <2>3, <2>4, <3>1
  <2>5. CASE o = m
    <3>1. /\ IsFiniteSet(Pending(o, a) \cup {delivered'[m]})
          /\ Cardinality(Pending(o, a) \cup {delivered'[m]}) <= Cardinality(Pending(o, a)) + 1
      <4>1. PICK x : x = delivered'[m]
        OBVIOUS
      <4>2. /\ IsFiniteSet(Pending(o, a) \cup {x})
            /\ \/ Cardinality(Pending(o, a) \cup {x}) = Cardinality(Pending(o, a))
               \/ Cardinality(Pending(o, a) \cup {x}) = Cardinality(Pending(o, a)) + 1
        BY <2>3, FS_AddElement
      <4>. QED  BY <2>3, <4>1, <4>2
    <3>2. /\ Cardinality(Pending(o, a)') <= Cardinality(Pending(o, a) \cup {delivered'[m]})
          /\ Cardinality(Pending(o, a)') \in Nat
          /\ Cardinality(Pending(o, a) \cup {delivered'[m]}) \in Nat
      BY <2>2, <2>5, <3>1, FS_Subset, FS_CardinalityType
    <3>. QED  BY <2>1, <2>3, <2>5, <3>1, <3>2
  <2>. QED  BY <2>4, <2>5
<1>. QED  BY <1>1, <1>3, <1>4, <1>8, <1>9

\* Who is not handling a message has nobody to tell.
LEMMA IdleTellsNobody ==
  ASSUME IInv, NEW i \in Instances, current[i].stage # "handling"
  PROVE  todo[i] = {} /\ checked[i] = None
BY DEF IInv, HandlersOnTheirWay, OnItsWay

\* The handlers of the other instances.
LEMMA OthersOnTheirWay ==
  ASSUME IInv, NEW i \in Instances, UNCHANGED <<event, deletedAccount, erasedAccount, told>>,
         \A j \in Instances : j # i =>
           current'[j] = current[j] /\ todo'[j] = todo[j] /\ checked'[j] = checked[j],
         OnItsWay(i)'
  PROVE  HandlersOnTheirWay'
BY StaysOnItsWay DEF IInv, HandlersOnTheirWay, Gone

LEMMA AnswerStep ==
  ASSUME IInv, NEW i \in Instances, Ack(i) \/ Nak(i) \/ Term(i),
         UNCHANGED <<feedVars, todo, checked>>
  PROVE  IInv'
<1>1. /\ ConsumerIInv' /\ UNCHANGED <<delivered, buffer>>
      /\ current' = [current EXCEPT ![i] = Free]
      /\ current[i] \in Busy /\ current[i].stage # "handling"
      /\ \A m \in Messages :
           server'[m] = "acked" => server[m] = "acked" \/ (m = current[i].msg /\ current[i].stage = "succeeded")
      /\ \A m \in Messages : server[m] \in {"acked", "terminated", "exhausted"} => server'[m] = server[m]
  BY AnswerKeeps DEF IInv
<1>2. todo[i] = {} /\ checked[i] = None
  BY <1>1, IdleTellsNobody
<1>3. /\ current'[i] = Free
      /\ \A j \in Instances : j # i => current'[j] = current[j]
      /\ \A j \in Instances, m \in Messages, n \in Int :
           /\ Handling(j, m, n)' => j # i /\ Handling(j, m, n)
           /\ j # i => (Holds(j, m, n)' <=> Holds(j, m, n))
  BY <1>1, FreedKeeps DEF IInv
<1>4. HandlersOnTheirWay'
  <2>1. OnItsWay(i)'
    BY <1>2, <1>3, NothingToTell DEF Free
  <2>. QED  BY <1>3, <2>1, OthersOnTheirWay DEF feedVars
<1>5. \A m \in Messages : server'[m] = "acked" =>
        server[m] = "acked" \/ \A a \in Audience(event[m]) \ Gone : told[m][a] > 0
  BY <1>1, <1>2 DEF IInv, HandlersOnTheirWay, OnItsWay
<1>6. \A j \in Instances, m \in Messages, n \in 1 .. MaxDeliver :
        /\ Holds(j, m, n)' => Holds(j, m, n)
        /\ <<m, n>> \in ToSet(buffer'[j]) => <<m, n>> \in ToSet(buffer[j])
        /\ Handling(j, m, n)' => Handling(j, m, n)
  <2>1. \A j \in Instances, m \in Messages, n \in 1 .. MaxDeliver :
          Handling(j, m, n)' => Handling(j, m, n)
    BY <1>3
  <2>. QED  BY <1>1, <2>1 DEF Holds
<1>7. /\ todo' \in [Instances -> SUBSET Accounts]
      /\ checked' \in [Instances -> [to : Accounts \cup {Nobody}, erased : {FALSE}]]
  BY DEF IInv, FeedShapes
<1>. QED  BY <1>1, <1>4, <1>5, <1>6, <1>7, QuietStep

\* i has nothing to tell any more.
LEMMA EmptiedShapes ==
  ASSUME IInv, NEW i \in Instances,
         todo' = [todo EXCEPT ![i] = {}], checked' = [checked EXCEPT ![i] = None]
  PROVE  /\ todo' \in [Instances -> SUBSET Accounts]
         /\ checked' \in [Instances -> [to : Accounts \cup {Nobody}, erased : {FALSE}]]
         /\ todo'[i] = {} /\ checked'[i] = None
         /\ \A j \in Instances : j # i => todo'[j] = todo[j] /\ checked'[j] = checked[j]
<1>1. None \in [to : Accounts \cup {Nobody}, erased : {FALSE}]
  BY DEF None
<1>. QED  BY <1>1 DEF IInv, FeedShapes

LEMMA HandlerStep ==
  ASSUME IInv, NEW i \in Instances, UNCHANGED feedVars,
         HandlerSucceeds(i) \/ (\E st \in {"failed", "permanent"} : HandlerFails(i, st)) \/ DeadLetter(i),
         HandlerSucceeds(i) => todo[i] = {} /\ ~event[current[i].msg].garbled,
         todo' = [todo EXCEPT ![i] = {}], checked' = [checked EXCEPT ![i] = None]
  PROVE  IInv'
<1>1. /\ ConsumerIInv'
      /\ UNCHANGED <<server, delivered, buffer>>
      /\ current'[i].msg = current[i].msg
      /\ current'[i].stage # "handling" /\ (current'[i].stage = "succeeded" => HandlerSucceeds(i))
      /\ \A j \in Instances : j # i => current'[j] = current[j]
      /\ \A j \in Instances, m \in Messages, n \in Int : Handling(j, m, n)' <=> Handling(j, m, n)
  BY HandlerKeeps DEF IInv
<1>2. /\ todo' \in [Instances -> SUBSET Accounts]
      /\ checked' \in [Instances -> [to : Accounts \cup {Nobody}, erased : {FALSE}]]
      /\ todo'[i] = {} /\ checked'[i] = None
      /\ \A j \in Instances : j # i => todo'[j] = todo[j] /\ checked'[j] = checked[j]
  BY EmptiedShapes
<1>3. OnItsWay(i)'
  <2>1. CASE current'[i].stage = "succeeded"
    <3>1. current[i].stage = "handling" /\ todo[i] = {} /\ ~event[current[i].msg].garbled
      BY <1>1, <2>1 DEF HandlerSucceeds
    <3>2. \A a \in Audience(event[current[i].msg]) \ Gone : told[current[i].msg][a] > 0
      BY <3>1 DEF IInv, HandlersOnTheirWay, OnItsWay
    <3>. QED  BY <1>1, <1>2, <3>1, <3>2 DEF OnItsWay, feedVars, Gone
  <2>2. CASE current'[i].stage # "succeeded"
    BY <1>1, <1>2, <2>2, NothingToTell
  <2>. QED  BY <2>1, <2>2
<1>4. HandlersOnTheirWay'
  BY <1>1, <1>2, <1>3, OthersOnTheirWay DEF feedVars
<1>5. \A j \in Instances, m \in Messages, n \in 1 .. MaxDeliver :
        /\ Holds(j, m, n)' => Holds(j, m, n)
        /\ <<m, n>> \in ToSet(buffer'[j]) => <<m, n>> \in ToSet(buffer[j])
        /\ Handling(j, m, n)' => \A a \in todo'[j] :
             <<m, n>> \in ToSet(buffer[j]) \/ (Handling(j, m, n) /\ a \in todo[j])
  BY <1>1, <1>2 DEF Holds
<1>. QED  BY <1>1, <1>2, <1>4, <1>5, QuietStep

LEMMA DeadLetterStep ==
  ASSUME IInv, NEW i \in Instances, DeadLetter(i), UNCHANGED <<feedVars, todo, checked>>
  PROVE  IInv'
<1>1. current[i].stage # "handling"
  BY DEF DeadLetter
<1>2. todo[i] = {} /\ checked[i] = None
  BY <1>1, IdleTellsNobody
<1>3. todo' = [todo EXCEPT ![i] = {}] /\ checked' = [checked EXCEPT ![i] = None]
  BY <1>2 DEF IInv, FeedShapes
<1>4. ~HandlerSucceeds(i)
  BY <1>1 DEF HandlerSucceeds
<1>. QED  BY <1>3, <1>4, HandlerStep

LEMMA HandledStep ==
  ASSUME IInv, NEW i \in Instances, Handled(i)
  PROVE  IInv'
<1>1. HandlerSucceeds(i) /\ todo[i] = {} /\ ~event[current[i].msg].garbled
  BY DEF Handled
<1>2. checked[i] = None
  BY <1>1 DEF IInv, HandlersOnTheirWay, OnItsWay
<1>3. /\ todo' = [todo EXCEPT ![i] = {}] /\ checked' = [checked EXCEPT ![i] = None]
      /\ UNCHANGED feedVars
  BY <1>1, <1>2 DEF IInv, FeedShapes, Handled
<1>. QED  BY <1>1, <1>3, HandlerStep

LEMMA FailsStep ==
  ASSUME IInv, NEW i \in Instances, Fails(i)
  PROVE  IInv'
<1>1. \E st \in {"failed", "permanent"} : HandlerFails(i, st)
  BY DEF Fails, HandlerFails
<1>2. /\ todo' = [todo EXCEPT ![i] = {}] /\ checked' = [checked EXCEPT ![i] = None]
      /\ UNCHANGED feedVars
  BY DEF Fails
<1>3. ~HandlerSucceeds(i)
  <2>1. current[i].stage = "handling"
    BY DEF Fails
  <2>2. current[i] \in Busy
    BY <2>1, AtWork DEF IInv
  <2>3. PICK st \in {"failed", "permanent"} : current' = [current EXCEPT ![i].stage = st]
    BY <1>1 DEF HandlerFails
  <2>4. current'[i].stage = st
    BY <2>2, <2>3 DEF Busy, IInv, ConsumerIInv, ConsumerShapes
  <2>5. HandlerSucceeds(i) => current'[i].stage = "succeeded"
    BY <2>2 DEF HandlerSucceeds, Busy, IInv, ConsumerIInv, ConsumerShapes
  <2>. QED  BY <2>4, <2>5
<1>. QED  BY <1>1, <1>2, <1>3, HandlerStep

LEMMA DownStep ==
  ASSUME IInv, NEW i \in Instances, GoesDown(i)
  PROVE  IInv'
<1>1. /\ (Crash(i) \/ StopConsuming(i)) /\ UNCHANGED feedVars
      /\ todo' = [todo EXCEPT ![i] = {}] /\ checked' = [checked EXCEPT ![i] = None]
  BY DEF GoesDown
<1>2. /\ ConsumerIInv' /\ UNCHANGED <<server, delivered>>
      /\ current' = [current EXCEPT ![i] = Free] /\ buffer' = [buffer EXCEPT ![i] = <<>>]
  BY <1>1, LosesKeeps DEF IInv
<1>3. /\ current'[i] = Free
      /\ \A j \in Instances :
           /\ buffer'[j] = buffer[j] \/ buffer'[j] = <<>>
           /\ j # i => current'[j] = current[j]
      /\ \A j \in Instances, m \in Messages, n \in Int :
           Handling(j, m, n)' => j # i /\ Handling(j, m, n)
  BY <1>2, FreedKeeps DEF IInv
<1>4. /\ todo' \in [Instances -> SUBSET Accounts]
      /\ checked' \in [Instances -> [to : Accounts \cup {Nobody}, erased : {FALSE}]]
      /\ todo'[i] = {} /\ checked'[i] = None
      /\ \A j \in Instances : j # i => todo'[j] = todo[j] /\ checked'[j] = checked[j]
  BY <1>1, EmptiedShapes
<1>5. HandlersOnTheirWay'
  <2>1. OnItsWay(i)'
    BY <1>3, <1>4, NothingToTell DEF Free
  <2>. QED  BY <1>1, <1>3, <1>4, <2>1, OthersOnTheirWay DEF feedVars
<1>6. \A d : d \notin ToSet(<<>>)
  BY DEF ToSet
<1>7. \A j \in Instances, m \in Messages, n \in 1 .. MaxDeliver :
        /\ Holds(j, m, n)' => Holds(j, m, n)
        /\ <<m, n>> \in ToSet(buffer'[j]) => <<m, n>> \in ToSet(buffer[j])
        /\ Handling(j, m, n)' => \A a \in todo'[j] :
             <<m, n>> \in ToSet(buffer[j]) \/ (Handling(j, m, n) /\ a \in todo[j])
  BY <1>3, <1>4, <1>6 DEF Holds
<1>. QED  BY <1>1, <1>2, <1>4, <1>5, <1>7, QuietStep

\* Nothing of the consumer changes.
LEMMA ConsumerStands ==
  ASSUME IInv, UNCHANGED consumerVars
  PROVE  /\ ConsumerIInv'
         /\ UNCHANGED <<server, delivered, buffer, current>>
         /\ \A j \in Instances, m \in Messages, n \in 1 .. MaxDeliver :
              /\ Holds(j, m, n)' <=> Holds(j, m, n)
              /\ Handling(j, m, n)' <=> Handling(j, m, n)
         /\ \A m \in Messages : Settled(m)' <=> Settled(m)
<1>1. ConsumerIInv'
  BY DEF IInv, consumerVars, ConsumerIInv, ConsumerShapes, DeliveredOnce, StatusSays,
         LastDeliveryHeld, Holds, Handling
<1>. QED  BY <1>1 DEF consumerVars, Holds, Handling, Settled, Held

LEMMA StartStep ==
  ASSUME IInv, NEW i \in Instances, StartHandling(i)
  PROVE  IInv'
<1>1. NextMessage(i) /\ UNCHANGED <<event, feed, deletedAccount, erasedAccount, told, late, checked>>
  BY DEF StartHandling, feedVars
<1>2. /\ ConsumerIInv'
      /\ \A j \in Instances, m \in Messages, n \in 1 .. MaxDeliver :
           /\ Holds(j, m, n)' <=> Holds(j, m, n)
           /\ j # i => (Handling(j, m, n)' <=> Handling(j, m, n))
      /\ Head(buffer[i]) \in Deliveries
      /\ current' = [current EXCEPT ![i] = [msg |-> Head(buffer[i])[1], n |-> Head(buffer[i])[2],
                                           stage |-> "handling"]]
      /\ \A j \in Instances : \A d : d \in ToSet(buffer'[j]) => d \in ToSet(buffer[j])
  BY <1>1, NextMessageKeeps DEF IInv
<1>3. UNCHANGED <<server, delivered>> /\ current[i] = Free
  BY <1>1 DEF NextMessage
<1>4. PICK o \in Messages : o = Head(buffer[i])[1]
  BY <1>2 DEF Deliveries
<1>5. PICK T : T = IF event[o].garbled THEN {} ELSE Audience(event[o])
  OBVIOUS
<1>6. todo' = [todo EXCEPT ![i] = T]
  BY <1>4, <1>5 DEF StartHandling
<1>7. T \subseteq Accounts
  BY <1>5, RecipientsAssumption DEF IInv, FeedShapes
<1>8. /\ todo' \in [Instances -> SUBSET Accounts] /\ todo'[i] = T
      /\ \A j \in Instances : j # i => todo'[j] = todo[j]
  BY <1>6, <1>7 DEF IInv, FeedShapes
<1>9. /\ current'[i].stage = "handling" /\ current'[i].msg = o
      /\ \A j \in Instances : j # i => current'[j] = current[j]
  <2>1. current \in [Instances -> {Free} \cup Busy]
    BY DEF IInv, ConsumerIInv, ConsumerShapes
  <2>. QED  BY <1>2, <1>4, <2>1
<1>10. checked[i] = None
  BY <1>3, IdleTellsNobody DEF Free
<1>11. HandlersOnTheirWay'
  <2>1. OnItsWay(i)'
    BY <1>1, <1>5, <1>8, <1>9, <1>10 DEF OnItsWay
  <2>. QED  BY <1>1, <1>8, <1>9, <2>1, OthersOnTheirWay
<1>12. \A j \in Instances, m \in Messages, n \in 1 .. MaxDeliver :
         Handling(j, m, n)' => \A a \in todo'[j] :
           <<m, n>> \in ToSet(buffer[j]) \/ (Handling(j, m, n) /\ a \in todo[j])
  <2>1. ASSUME NEW m \in Messages, NEW n \in 1 .. MaxDeliver, Handling(i, m, n)'
        PROVE  <<m, n>> \in ToSet(buffer[i])
    <3>1. Holds(i, m, n)
      BY <1>2, <2>1 DEF Holds
    <3>2. ~Handling(i, m, n)
      BY <1>3, AtWork DEF IInv
    <3>. QED  BY <3>1, <3>2 DEF Holds
  <2>. QED  BY <1>2, <1>8, <2>1
<1>13. checked' \in [Instances -> [to : Accounts \cup {Nobody}, erased : {FALSE}]]
  BY <1>1 DEF IInv, FeedShapes
<1>. QED  BY <1>1, <1>2, <1>3, <1>8, <1>11, <1>12, <1>13, QuietStep DEF feedVars

LEMMA CheckStep ==
  ASSUME IInv, NEW i \in Instances, NEW a \in Accounts, CheckRecipient(i, a)
  PROVE  IInv'
<1>1. /\ current[i].stage = "handling" /\ checked[i] = None /\ a \in todo[i]
      /\ UNCHANGED <<consumerVars, feedVars>>
  BY DEF CheckRecipient
<1>2. /\ ConsumerIInv'
      /\ UNCHANGED <<server, delivered, buffer, current>>
      /\ \A j \in Instances, m \in Messages, n \in 1 .. MaxDeliver :
           /\ Holds(j, m, n)' <=> Holds(j, m, n)
           /\ Handling(j, m, n)' <=> Handling(j, m, n)
  BY <1>1, ConsumerStands
<1>3. /\ todo \in [Instances -> SUBSET Accounts]
      /\ checked \in [Instances -> [to : Accounts \cup {Nobody}, erased : {FALSE}]]
      /\ OnItsWay(i)
  BY DEF IInv, FeedShapes, HandlersOnTheirWay
<1>4. CASE IsInactive(a)
  <2>1. todo' = [todo EXCEPT ![i] = @ \ {a}] /\ checked' = checked /\ a \in Gone
    BY <1>4 DEF CheckRecipient, IsInactive, Gone
  <2>2. /\ todo'[i] = todo[i] \ {a} /\ todo' \in [Instances -> SUBSET Accounts]
        /\ \A j \in Instances : j # i => todo'[j] = todo[j]
    BY <1>3, <2>1
  <2>3. OnItsWay(i)'
    BY <1>1, <1>2, <1>3, <2>1, <2>2 DEF OnItsWay, feedVars, Gone
  <2>4. HandlersOnTheirWay'
    BY <1>1, <1>2, <2>1, <2>2, <2>3, OthersOnTheirWay DEF feedVars
  <2>5. \A j \in Instances : todo'[j] \subseteq todo[j]
    BY <2>2
  <2>. QED  BY <1>1, <1>2, <1>3, <2>1, <2>2, <2>4, <2>5, QuietStep
<1>5. CASE ~IsInactive(a)
  <2>1. /\ checked' = [checked EXCEPT ![i] = [to |-> a, erased |-> a \in erasedAccount]]
        /\ todo' = todo
    BY <1>5 DEF CheckRecipient
  <2>2. (a \in erasedAccount) = FALSE
    BY <1>5 DEF IsInactive
  <2>3. checked' = [checked EXCEPT ![i] = [to |-> a, erased |-> FALSE]]
    BY <2>1, <2>2
  <2>4. /\ checked'[i].to = a
        /\ checked' \in [Instances -> [to : Accounts \cup {Nobody}, erased : {FALSE}]]
        /\ \A j \in Instances : j # i => checked'[j] = checked[j]
    BY <1>3, <2>3
  <2>5. OnItsWay(i)'
    BY <1>1, <1>2, <1>3, <2>1, <2>4 DEF OnItsWay, feedVars, Gone
  <2>6. HandlersOnTheirWay'
    BY <1>1, <1>2, <2>1, <2>4, <2>5, OthersOnTheirWay DEF feedVars
  <2>. QED  BY <1>1, <1>2, <1>3, <2>1, <2>4, <2>6, QuietStep
<1>. QED  BY <1>4, <1>5

\* What one row or mail is to the others.
LEMMA CreateEffect ==
  ASSUME IInv, NEW i \in Instances, CreateNotification(i)
  PROVE  \E m \in Messages, a \in Accounts :
           /\ current[i].msg = m /\ current[i].stage = "handling" /\ current[i] \in Busy
           /\ a \in todo[i] /\ ~event[m].garbled /\ a \in Audience(event[m])
           /\ todo' = [todo EXCEPT ![i] = @ \ {a}] /\ checked' = [checked EXCEPT ![i] = None]
           /\ late' = IF a \in erasedAccount THEN late \cup {<<m, a>>} ELSE late
           /\ \/ IsMail(m) /\ UNCHANGED feed /\ told' = [told EXCEPT ![m][a] = @ + 1]
              \/ /\ ~IsMail(m) /\ feed[m][a] = "none"
                 /\ feed' = [feed EXCEPT ![m][a] = "unread"] /\ told' = [told EXCEPT ![m][a] = @ + 1]
              \/ ~IsMail(m) /\ feed[m][a] # "none" /\ UNCHANGED <<feed, told>>
<1>1. PICK a : a = checked[i].to
  OBVIOUS
<1>2. PICK m : m = current[i].msg
  OBVIOUS
<1>3. a \in todo[i] /\ current[i].stage = "handling" /\ ~event[m].garbled /\ a \in Audience(event[m])
  BY <1>1, <1>2 DEF IInv, HandlersOnTheirWay, OnItsWay, CreateNotification
<1>4. current[i] \in Busy
  BY <1>3, AtWork DEF IInv
<1>5. m \in Messages /\ a \in Accounts /\ ~checked[i].erased
  BY <1>2, <1>3, <1>4 DEF Busy, IInv, FeedShapes
<1>6. /\ todo' = [todo EXCEPT ![i] = @ \ {a}] /\ checked' = [checked EXCEPT ![i] = None]
      /\ late' = IF a \in erasedAccount THEN late \cup {<<m, a>>} ELSE late
  BY <1>1, <1>2, <1>5 DEF CreateNotification
<1>7. IF IsMail(m) THEN Mail(m, a) ELSE Create(m, a)
  BY <1>1, <1>2 DEF CreateNotification
<1>8. \/ IsMail(m) /\ UNCHANGED feed /\ told' = [told EXCEPT ![m][a] = @ + 1]
      \/ /\ ~IsMail(m) /\ feed[m][a] = "none"
         /\ feed' = [feed EXCEPT ![m][a] = "unread"] /\ told' = [told EXCEPT ![m][a] = @ + 1]
      \/ ~IsMail(m) /\ feed[m][a] # "none" /\ UNCHANGED <<feed, told>>
  BY <1>7 DEF Mail, Create, Tell
<1>. QED  BY <1>2, <1>3, <1>4, <1>5, <1>6, <1>8

LEMMA CreateStep ==
  ASSUME IInv, NEW i \in Instances, CreateNotification(i)
  PROVE  IInv'
<1>1. PICK m \in Messages, a \in Accounts :
        /\ current[i].msg = m /\ current[i].stage = "handling" /\ current[i] \in Busy
        /\ a \in todo[i] /\ ~event[m].garbled /\ a \in Audience(event[m])
        /\ todo' = [todo EXCEPT ![i] = @ \ {a}] /\ checked' = [checked EXCEPT ![i] = None]
        /\ late' = IF a \in erasedAccount THEN late \cup {<<m, a>>} ELSE late
        /\ \/ IsMail(m) /\ UNCHANGED feed /\ told' = [told EXCEPT ![m][a] = @ + 1]
           \/ /\ ~IsMail(m) /\ feed[m][a] = "none"
              /\ feed' = [feed EXCEPT ![m][a] = "unread"] /\ told' = [told EXCEPT ![m][a] = @ + 1]
           \/ ~IsMail(m) /\ feed[m][a] # "none" /\ UNCHANGED <<feed, told>>
  BY CreateEffect
<1>2. UNCHANGED <<consumerVars, event, deletedAccount, erasedAccount>>
  BY DEF CreateNotification
<1>3. /\ ConsumerIInv'
      /\ UNCHANGED <<server, delivered, buffer, current>>
      /\ \A j \in Instances, o \in Messages, n \in 1 .. MaxDeliver :
           /\ Holds(j, o, n)' <=> Holds(j, o, n)
           /\ Handling(j, o, n)' <=> Handling(j, o, n)
      /\ \A o \in Messages : Settled(o)' <=> Settled(o)
  BY <1>2, ConsumerStands
<1>4. /\ feed \in [Messages -> [Accounts -> Rows]] /\ told \in [Messages -> [Accounts -> Nat]]
      /\ todo \in [Instances -> SUBSET Accounts] /\ late \subseteq Messages \X Accounts
      /\ checked \in [Instances -> [to : Accounts \cup {Nobody}, erased : {FALSE}]]
  BY DEF IInv, FeedShapes
<1>a. told' = [told EXCEPT ![m][a] = @ + 1] =>
        /\ told' \in [Messages -> [Accounts -> Nat]] /\ told'[m][a] = told[m][a] + 1
        /\ \A o \in Messages, b \in Accounts : o # m \/ b # a => told'[o][b] = told[o][b]
  <2>. SUFFICES ASSUME told' = [told EXCEPT ![m][a] = @ + 1]
                PROVE  /\ told' \in [Messages -> [Accounts -> Nat]] /\ told'[m][a] = told[m][a] + 1
                       /\ \A o \in Messages, b \in Accounts : o # m \/ b # a => told'[o][b] = told[o][b]
    OBVIOUS
  <2>1. PICK row : row = [told[m] EXCEPT ![a] = @ + 1]
    OBVIOUS
  <2>2. /\ row \in [Accounts -> Nat] /\ row[a] = told[m][a] + 1
        /\ \A b \in Accounts : b # a => row[b] = told[m][b]
    BY <1>4, <2>1
  <2>3. told' = [told EXCEPT ![m] = row]
    BY <2>1
  <2>. QED  BY <1>4, <2>2, <2>3
<1>b. feed' = [feed EXCEPT ![m][a] = "unread"] =>
        /\ feed' \in [Messages -> [Accounts -> Rows]] /\ feed'[m][a] = "unread"
        /\ \A o \in Messages, b \in Accounts : o # m \/ b # a => feed'[o][b] = feed[o][b]
  <2>. SUFFICES ASSUME feed' = [feed EXCEPT ![m][a] = "unread"]
                PROVE  /\ feed' \in [Messages -> [Accounts -> Rows]] /\ feed'[m][a] = "unread"
                       /\ \A o \in Messages, b \in Accounts : o # m \/ b # a => feed'[o][b] = feed[o][b]
    OBVIOUS
  <2>1. PICK row : row = [feed[m] EXCEPT ![a] = "unread"]
    OBVIOUS
  <2>2. /\ row \in [Accounts -> Rows] /\ row[a] = "unread"
        /\ \A b \in Accounts : b # a => row[b] = feed[m][b]
    BY <1>4, <2>1 DEF Rows
  <2>3. feed' = [feed EXCEPT ![m] = row]
    BY <2>1
  <2>. QED  BY <1>4, <2>2, <2>3
<1>5. /\ feed' \in [Messages -> [Accounts -> Rows]] /\ told' \in [Messages -> [Accounts -> Nat]]
      /\ \A o \in Messages, b \in Accounts :
           o # m \/ b # a => told'[o][b] = told[o][b] /\ feed'[o][b] = feed[o][b]
  BY <1>1, <1>4, <1>a, <1>b
<1>6. /\ \/ /\ told'[m][a] = told[m][a] + 1
            /\ IsMail(m) \/ (feed[m][a] = "none" /\ feed'[m][a] = "unread")
         \/ told'[m][a] = told[m][a] /\ feed'[m][a] = feed[m][a] /\ feed[m][a] # "none" /\ ~IsMail(m)
      /\ IsMail(m) => feed'[m][a] = feed[m][a]
      /\ told[m][a] \in Nat
  <2>1. told[m][a] \in Nat
    BY <1>4
  <2>. QED  BY <1>1, <1>a, <1>b, <2>1
<1>7. /\ late \subseteq late' /\ late' \subseteq Messages \X Accounts
      /\ a \in erasedAccount => <<m, a>> \in late'
  BY <1>1, <1>4
<1>8. /\ todo' \in [Instances -> SUBSET Accounts]
      /\ checked' \in [Instances -> [to : Accounts \cup {Nobody}, erased : {FALSE}]]
      /\ todo'[i] = todo[i] \ {a} /\ checked'[i] = None
      /\ \A j \in Instances : j # i => todo'[j] = todo[j] /\ checked'[j] = checked[j]
  <2>1. None \in [to : Accounts \cup {Nobody}, erased : {FALSE}]
    BY DEF None
  <2>. QED  BY <1>1, <1>4, <2>1
<1>9. told'[m][a] > 0 /\ \A o \in Messages, b \in Accounts : told[o][b] > 0 => told'[o][b] > 0
  <2>1. feed[m][a] # "none" => told[m][a] > 0
    BY DEF IInv, RowsOf
  <2>2. told'[m][a] > 0
    BY <1>6, <2>1
  <2>. QED  BY <1>5, <2>2
<1>10. FeedShapes'
  BY <1>2, <1>5, <1>7, <1>8 DEF IInv, FeedShapes
<1>11. HandlersOnTheirWay'
  <2>1. \A j \in Instances : OnItsWay(j)
    BY DEF IInv, HandlersOnTheirWay
  <2>2. \A o \in Messages : Audience(event[o]) \subseteq Accounts \/ event[o].garbled
    BY RecipientsAssumption DEF IInv, FeedShapes
  <2>3. OnItsWay(i)'
    <3>1. \A b \in Audience(event[m]) \ ((todo[i] \ {a}) \cup Gone) : told'[m][b] > 0
      <4>1. \A b \in Audience(event[m]) \ (todo[i] \cup Gone) : told[m][b] > 0
        BY <1>1, <2>1 DEF OnItsWay
      <4>2. Audience(event[m]) \subseteq Accounts
        BY <1>1, <2>2
      <4>. QED  BY <1>9, <4>1, <4>2
    <3>2. todo[i] \subseteq Audience(event[m])
      BY <1>1, <2>1 DEF OnItsWay
    <3>. QED  BY <1>1, <1>2, <1>3, <1>8, <3>1, <3>2 DEF OnItsWay, Gone
  <2>4. ASSUME NEW j \in Instances, j # i
        PROVE  OnItsWay(j)'
    <3>1. OnItsWay(j) /\ UNCHANGED <<event, Gone>>
      BY <1>2, <2>1 DEF Gone
    <3>2. current'[j] = current[j] /\ todo'[j] = todo[j] /\ checked'[j] = checked[j]
      BY <1>3, <1>8, <2>4
    <3>3. CASE current[j].stage \in {"handling", "succeeded"} /\ ~event[current[j].msg].garbled
      <4>1. current[j] \in Busy
        BY <3>3, AtWork DEF IInv
      <4>2. current[j].msg \in Messages
        BY <4>1 DEF Busy
      <4>3. Audience(event[current[j].msg]) \subseteq Accounts /\ todo[j] \subseteq Accounts
        BY <1>4, <2>2, <3>3, <4>2
      <4>4. \A b \in Accounts : told[current[j].msg][b] > 0 => told'[current[j].msg][b] > 0
        BY <1>9, <4>2
      <4>. QED  BY <3>1, <3>2, <4>3, <4>4 DEF OnItsWay, Gone
    <3>4. CASE ~(current[j].stage \in {"handling", "succeeded"} /\ ~event[current[j].msg].garbled)
      BY <3>1, <3>2, <3>4 DEF OnItsWay
    <3>. QED  BY <3>3, <3>4
  <2>. QED  BY <2>3, <2>4 DEF HandlersOnTheirWay
<1>12. RowsOf'
  <2>. SUFFICES ASSUME NEW o \in Messages, NEW b \in Accounts
                PROVE  /\ told'[o][b] > 0 => ~event[o].garbled /\ b \in Audience(event[o])
                       /\ feed'[o][b] # "none" => told'[o][b] > 0
                       /\ ~IsMail(o) /\ <<o, b>> \notin late' =>
                            /\ told'[o][b] <= 1
                            /\ told'[o][b] > 0 => feed'[o][b] # "none" \/ b \in erasedAccount \/ Settled(o)
                       /\ server[o] = "acked" /\ b \in Audience(event[o]) \ Gone => told'[o][b] > 0
    BY <1>2, <1>3 DEF RowsOf, IsMail, Gone
  <2>1. /\ told[o][b] > 0 => ~event[o].garbled /\ b \in Audience(event[o])
        /\ feed[o][b] # "none" => told[o][b] > 0
        /\ ~IsMail(o) /\ <<o, b>> \notin late =>
             /\ told[o][b] <= 1
             /\ told[o][b] > 0 => feed[o][b] # "none" \/ b \in erasedAccount \/ Settled(o)
        /\ server[o] = "acked" /\ b \in Audience(event[o]) \ Gone => told[o][b] > 0
    BY DEF IInv, RowsOf
  <2>2. CASE o # m \/ b # a
    BY <1>5, <1>7, <2>1, <2>2
  <2>3. CASE o = m /\ b = a
    <3>1. ~Settled(m)
      <4>1. m \in Held(i)
        BY <1>1, ConsumerAssumption DEF Held
      <4>. QED  BY <4>1 DEF Settled
    <3>2. ~IsMail(m) /\ <<m, a>> \notin late' =>
            /\ told'[m][a] <= 1
            /\ feed'[m][a] # "none"
      BY <1>6, <1>7, <2>1, <2>3, <3>1
    <3>. QED  BY <1>1, <1>9, <2>3, <3>2
  <2>. QED  BY <2>2, <2>3
<1>13. ErasedFeedGone'
  <2>. SUFFICES ASSUME NEW b \in erasedAccount, NEW o \in Messages, feed'[o][b] # "none"
                PROVE  <<o, b>> \in late'
    BY <1>2 DEF ErasedFeedGone
  <2>1. b \in Accounts
    BY FeedAssumption DEF IInv, FeedShapes
  <2>2. feed[o][b] # "none" => <<o, b>> \in late
    BY DEF IInv, ErasedFeedGone
  <2>. QED  BY <1>5, <1>7, <2>1, <2>2
<1>14. OncePerDelivery'
  <2>. SUFFICES ASSUME NEW o \in Messages, NEW b \in Accounts
                PROVE  told'[o][b] + Cardinality(Pending(o, b)') <= delivered'[o]
    BY DEF OncePerDelivery
  <2>1. told[o][b] \in Nat /\ delivered[o] \in Nat /\ delivered'[o] = delivered[o]
    BY <1>3, <1>4, ConsumerAssumption DEF IInv, ConsumerIInv, ConsumerShapes
  <2>2. Pending(o, b)' \subseteq Pending(o, b)
    BY <1>3, <1>8 DEF Pending, Handling
  <2>3. CASE o # m \/ b # a
    BY <1>3, <1>5, <2>1, <2>2, <2>3, NoMorePending DEF IInv
  <2>4. CASE o = m /\ b = a
    <3>1. PICK n \in 1 .. MaxDeliver : current[i].n = n
      BY <1>1 DEF Busy
    <3>2. Handling(i, m, n) /\ n \in Pending(m, a)
      BY <1>1, <3>1 DEF Handling, Pending
    <3>3. \A j \in Instances : /\ <<m, n>> \notin ToSet(buffer[j])
                               /\ j # i => ~Handling(j, m, n)
      <4>1. Holds(i, m, n) /\ <<m, n>> \notin ToSet(buffer[i])
        BY <3>2 DEF Holds, IInv, ConsumerIInv, DeliveredOnce
      <4>2. \A j \in Instances : j # i => ~Holds(j, m, n)
        BY <4>1 DEF IInv, ConsumerIInv, DeliveredOnce
      <4>. QED  BY <4>1, <4>2 DEF Holds
    <3>4. n \notin Pending(m, a)'
      BY <1>3, <1>8, <3>3 DEF Pending, Handling
    <3>5. Pending(m, a)' \subseteq Pending(m, a) \ {n}
      BY <2>2, <2>4, <3>4
    <3>6. /\ IsFiniteSet(Pending(m, a)) /\ Cardinality(Pending(m, a)) \in Nat
          /\ told[m][a] + Cardinality(Pending(m, a)) <= delivered[m]
      BY PendingIsFinite DEF IInv, OncePerDelivery
    <3>7. /\ IsFiniteSet(Pending(m, a) \ {n})
          /\ Cardinality(Pending(m, a) \ {n}) = Cardinality(Pending(m, a)) - 1
      BY <3>2, <3>6, FS_RemoveElement
    <3>8. /\ Cardinality(Pending(m, a)') <= Cardinality(Pending(m, a) \ {n})
          /\ Cardinality(Pending(m, a)') \in Nat
      BY <3>5, <3>7, FS_Subset, FS_CardinalityType
    <3>. QED  BY <1>6, <2>1, <2>4, <3>6, <3>7, <3>8
  <2>. QED  BY <2>3, <2>4
<1>. QED  BY <1>3, <1>10, <1>11, <1>12, <1>13, <1>14 DEF IInv

\* What touches rows and accounts only.
LEMMA OwnersStep ==
  ASSUME IInv, UNCHANGED <<consumerVars, event, todo, checked, told, late>>,
         feed' \in [Messages -> [Accounts -> Rows]],
         deletedAccount \subseteq deletedAccount', erasedAccount \subseteq erasedAccount',
         deletedAccount' \cup erasedAccount' \subseteq Leaving,
         \A m \in Messages, a \in Accounts :
           /\ feed'[m][a] # "none" => feed[m][a] # "none" /\ (a \in erasedAccount' => a \in erasedAccount)
           /\ feed[m][a] # "none" => feed'[m][a] # "none" \/ a \in erasedAccount' \/ Settled(m)
  PROVE  IInv'
<1>1. /\ ConsumerIInv'
      /\ UNCHANGED <<server, delivered, buffer, current>>
      /\ \A j \in Instances, o \in Messages, n \in 1 .. MaxDeliver :
           Handling(j, o, n)' <=> Handling(j, o, n)
      /\ \A o \in Messages : Settled(o)' <=> Settled(o)
  BY ConsumerStands
<1>2. FeedShapes'
  BY DEF IInv, FeedShapes
<1>3. HandlersOnTheirWay'
  <2>1. \A j \in Instances : OnItsWay(j)'
    BY <1>1 DEF IInv, HandlersOnTheirWay, OnItsWay, Gone
  <2>. QED  BY <2>1 DEF HandlersOnTheirWay
<1>4. RowsOf'
  <2>. SUFFICES ASSUME NEW o \in Messages, NEW b \in Accounts
                PROVE  /\ told[o][b] > 0 => ~event[o].garbled /\ b \in Audience(event[o])
                       /\ feed'[o][b] # "none" => told[o][b] > 0
                       /\ ~IsMail(o) /\ <<o, b>> \notin late =>
                            /\ told[o][b] <= 1
                            /\ told[o][b] > 0 => feed'[o][b] # "none" \/ b \in erasedAccount' \/ Settled(o)
                       /\ server[o] = "acked" /\ b \in Audience(event[o]) \ Gone' => told[o][b] > 0
    BY <1>1 DEF RowsOf, IsMail, Gone
  <2>1. /\ told[o][b] > 0 => ~event[o].garbled /\ b \in Audience(event[o])
        /\ feed[o][b] # "none" => told[o][b] > 0
        /\ ~IsMail(o) /\ <<o, b>> \notin late =>
             /\ told[o][b] <= 1
             /\ told[o][b] > 0 => feed[o][b] # "none" \/ b \in erasedAccount \/ Settled(o)
        /\ server[o] = "acked" /\ b \in Audience(event[o]) \ Gone => told[o][b] > 0
    BY DEF IInv, RowsOf
  <2>2. Gone \subseteq Gone'
    BY DEF Gone
  <2>. QED  BY <2>1, <2>2
<1>5. ErasedFeedGone'
  <2>. SUFFICES ASSUME NEW b \in erasedAccount', NEW o \in Messages, feed'[o][b] # "none"
                PROVE  <<o, b>> \in late
    BY DEF ErasedFeedGone
  <2>1. b \in Accounts
    BY FeedAssumption
  <2>. QED  BY <2>1 DEF IInv, ErasedFeedGone
<1>6. OncePerDelivery'
  <2>. SUFFICES ASSUME NEW o \in Messages, NEW b \in Accounts
                PROVE  told'[o][b] + Cardinality(Pending(o, b)') <= delivered'[o]
    BY DEF OncePerDelivery
  <2>1. told[o][b] \in Nat /\ delivered[o] \in Nat
    BY ConsumerAssumption DEF IInv, FeedShapes, ConsumerIInv, ConsumerShapes
  <2>2. Pending(o, b)' \subseteq Pending(o, b)
    BY <1>1 DEF Pending
  <2>. QED  BY <1>1, <2>1, <2>2, NoMorePending DEF IInv
<1>. QED  BY <1>1, <1>2, <1>3, <1>4, <1>5, <1>6 DEF IInv

LEMMA MarkAsReadStep ==
  ASSUME IInv, NEW m \in Messages, NEW a \in Accounts, MarkAsRead(m, a)
  PROVE  IInv'
<1>1. feed[m][a] = "unread" /\ feed' = [feed EXCEPT ![m][a] = "read"]
  BY DEF MarkAsRead, MarkRead
<1>2. feed \in [Messages -> [Accounts -> Rows]]
  BY DEF IInv, FeedShapes
<1>3. PICK row : row = [feed[m] EXCEPT ![a] = "read"]
  OBVIOUS
<1>4. /\ row \in [Accounts -> Rows] /\ row[a] = "read"
      /\ \A b \in Accounts : b # a => row[b] = feed[m][b]
  BY <1>2, <1>3 DEF Rows
<1>5. feed' = [feed EXCEPT ![m] = row]
  BY <1>1, <1>3
<1>6. /\ feed' \in [Messages -> [Accounts -> Rows]]
      /\ \A o \in Messages, b \in Accounts : feed'[o][b] # "none" <=> feed[o][b] # "none"
  BY <1>1, <1>2, <1>4, <1>5
<1>7. deletedAccount \cup erasedAccount \subseteq Leaving
  BY DEF IInv, FeedShapes
<1>. QED  BY <1>6, <1>7, OwnersStep DEF MarkAsRead

LEMMA MarkDeletedStep ==
  ASSUME IInv, NEW a \in Leaving, MarkDeleted(a)
  PROVE  IInv'
<1>1. /\ feed' \in [Messages -> [Accounts -> Rows]]
      /\ deletedAccount' = deletedAccount \cup {a} /\ deletedAccount' \cup erasedAccount \subseteq Leaving
  BY DEF MarkDeleted, IInv, FeedShapes
<1>2. UNCHANGED <<consumerVars, event, feed, erasedAccount, todo, checked, told, late>>
  BY DEF MarkDeleted
<1>. QED  BY <1>1, <1>2, OwnersStep

LEMMA EraseStep ==
  ASSUME IInv, NEW a \in Leaving, Erase(a)
  PROVE  IInv'
<1>1. /\ feed' = [o \in Messages |-> [feed[o] EXCEPT ![a] = "none"]]
      /\ erasedAccount' = erasedAccount \cup {a}
      /\ UNCHANGED <<consumerVars, event, deletedAccount, todo, checked, told, late>>
  BY DEF Erase
<1>2. feed \in [Messages -> [Accounts -> Rows]] /\ a \in Accounts
  BY FeedAssumption DEF IInv, FeedShapes
<1>3. \A o \in Messages : /\ feed'[o] \in [Accounts -> Rows]
                          /\ feed'[o][a] = "none"
                          /\ \A b \in Accounts : b # a => feed'[o][b] = feed[o][b]
  BY <1>1, <1>2 DEF Rows
<1>4. feed' \in [Messages -> [Accounts -> Rows]]
  BY <1>1, <1>3
<1>5. deletedAccount \cup erasedAccount' \subseteq Leaving
  BY <1>1 DEF IInv, FeedShapes
<1>6. \A o \in Messages, b \in Accounts :
        /\ feed'[o][b] # "none" => feed[o][b] # "none" /\ (b \in erasedAccount' => b \in erasedAccount)
        /\ feed[o][b] # "none" => feed'[o][b] # "none" \/ b \in erasedAccount'
  BY <1>1, <1>3
<1>. QED  BY <1>1, <1>4, <1>5, <1>6, OwnersStep

LEMMA DeleteExpiredStep ==
  ASSUME IInv, NEW m \in Messages, NEW unread \in BOOLEAN, DeleteExpired(m, unread)
  PROVE  IInv'
<1>1. /\ Settled(m)
      /\ UNCHANGED <<consumerVars, event, deletedAccount, erasedAccount, todo, checked, told, late>>
  BY DEF DeleteExpired
<1>2. feed \in [Messages -> [Accounts -> Rows]]
  BY DEF IInv, FeedShapes
<1>3. PICK row : row = [a \in Accounts |->
                         IF feed[m][a] = "unread" /\ ~unread THEN "unread" ELSE "none"]
  OBVIOUS
<1>4. feed' = [feed EXCEPT ![m] = row]
  BY <1>3 DEF DeleteExpired
<1>5. row \in [Accounts -> Rows] /\ \A a \in Accounts : row[a] # "none" => feed[m][a] # "none"
  BY <1>3 DEF Rows
<1>6. /\ feed' \in [Messages -> [Accounts -> Rows]]
      /\ \A o \in Messages, b \in Accounts :
           /\ feed'[o][b] # "none" => feed[o][b] # "none"
           /\ o # m => feed'[o][b] = feed[o][b]
  BY <1>2, <1>4, <1>5
<1>7. deletedAccount \cup erasedAccount \subseteq Leaving
  BY DEF IInv, FeedShapes
<1>. QED  BY <1>1, <1>6, <1>7, OwnersStep

-----------------------------------------------------------------------------
(***************************************************************************)
(* The theorems.                                                           *)
(***************************************************************************)

LEMMA InvariantStarts == Init => IInv
<1>. SUFFICES ASSUME Init
              PROVE  IInv
  OBVIOUS
<1>1. ConsumerIInv /\ \A m \in Messages, a \in Accounts : Pending(m, a) = {}
  BY ConsumerStarts DEF Init
<1>2. None \in [to : Accounts \cup {Nobody}, erased : {FALSE}]
  BY DEF None
<1>3. FeedShapes
  BY <1>2 DEF Init, FeedShapes, Rows
<1>4. HandlersOnTheirWay
  BY DEF Init, ConsumerInit, HandlersOnTheirWay, OnItsWay, Free
<1>5. RowsOf /\ ErasedFeedGone
  BY DEF Init, ConsumerInit, RowsOf, ErasedFeedGone
<1>6. OncePerDelivery
  <2>1. Cardinality({}) = 0
    BY FS_EmptySet
  <2>2. \A m \in Messages, a \in Accounts : Cardinality(Pending(m, a)) = 0
    BY <1>1, <2>1
  <2>. QED  BY <2>2 DEF OncePerDelivery, Init, ConsumerInit
<1>. QED  BY <1>1, <1>3, <1>4, <1>5, <1>6 DEF IInv

LEMMA InvariantKept == IInv /\ [Next]_vars => IInv'
<1>. SUFFICES ASSUME IInv, [Next]_vars
              PROVE  IInv'
  OBVIOUS
<1>1. ASSUME ConsumerStep, UNCHANGED <<feedVars, todo, checked>>
      PROVE  IInv'
  BY <1>1, AckWaitStep, DeliverStep, AnswerStep, DeadLetterStep DEF ConsumerStep
<1>2. ASSUME NEW i \in Instances,
             \/ StartHandling(i) \/ Handled(i) \/ Fails(i) \/ GoesDown(i)
             \/ CreateNotification(i)
             \/ \E a \in Accounts : CheckRecipient(i, a)
      PROVE  IInv'
  BY <1>2, StartStep, HandledStep, FailsStep, DownStep, CreateStep, CheckStep
<1>3. ASSUME NEW a \in Leaving, MarkDeleted(a) \/ Erase(a)
      PROVE  IInv'
  BY <1>3, MarkDeletedStep, EraseStep
<1>4. ASSUME NEW m \in Messages,
             \/ \E a \in Accounts : MarkAsRead(m, a)
             \/ \E unread \in BOOLEAN : DeleteExpired(m, unread)
      PROVE  IInv'
  BY <1>4, MarkAsReadStep, DeleteExpiredStep
<1>5. CASE UNCHANGED vars
  <2>1. /\ UNCHANGED <<consumerVars, event, todo, checked, told, late>>
        /\ UNCHANGED <<feed, deletedAccount, erasedAccount>>
    BY <1>5 DEF vars, feedVars
  <2>2. /\ feed' \in [Messages -> [Accounts -> Rows]]
        /\ deletedAccount \cup erasedAccount \subseteq Leaving
    BY <2>1 DEF IInv, FeedShapes
  <2>. QED  BY <2>1, <2>2, OwnersStep
<1>. QED  BY <1>1, <1>2, <1>3, <1>4, <1>5 DEF Next

LEMMA InvariantHolds == Spec => []IInv
BY InvariantStarts, InvariantKept, PTL DEF Spec

\* What the invariant says of who was told, and of the feeds.
LEMMA FeedFacts ==
  IInv => ToldOnce /\ FeedOK /\ VanishesOnlyWhenCutShort
<1>. SUFFICES ASSUME IInv
              PROVE  ToldOnce /\ FeedOK /\ VanishesOnlyWhenCutShort
  OBVIOUS
<1>1. ConsumerTypeOK /\ VanishesOnlyWhenCutShort
  BY ConsumerFacts DEF IInv
<1>2. ASSUME NEW m \in Messages, NEW a \in Accounts
      PROVE  /\ told[m][a] \in Nat /\ told[m][a] <= delivered[m]
             /\ told[m][a] \in 0 .. MaxDeliver
  <2>1. told[m][a] \in Nat /\ delivered[m] \in 0 .. MaxDeliver /\ MaxDeliver \in Nat
    BY ConsumerAssumption DEF IInv, FeedShapes, ConsumerIInv, ConsumerShapes
  <2>2. told[m][a] + Cardinality(Pending(m, a)) <= delivered[m] /\ Cardinality(Pending(m, a)) \in Nat
    BY PendingIsFinite DEF IInv, OncePerDelivery
  <2>. QED  BY <2>1, <2>2
<1>3. TypeOK
  <2>1. told \in [Messages -> [Accounts -> 0 .. MaxDeliver]]
    BY <1>2 DEF IInv, FeedShapes
  <2>2. ASSUME NEW i \in Instances
        PROVE  /\ todo[i] \subseteq Accounts
               /\ checked[i].to \in todo[i] \cup {Nobody}
               /\ current[i].stage # "handling" => todo[i] = {}
    BY DEF IInv, FeedShapes, HandlersOnTheirWay, OnItsWay, None
  <2>. QED  BY <1>1, <2>1, <2>2 DEF TypeOK, IInv, FeedShapes
<1>4. ToldOnce
  <2>. SUFFICES ASSUME NEW m \in Messages, NEW a \in Accounts
                PROVE  /\ ~IsMail(m) /\ <<m, a>> \notin late => told[m][a] <= 1
                       /\ IsMail(m) => told[m][a] <= delivered[m]
                       /\ event[m].topic \in {"draft", "voting", "teams_reset"} /\ a = event[m].actor
                            => told[m][a] = 0
                       /\ /\ server[m] = "acked"
                          /\ a \in Audience(event[m]) \ (deletedAccount \cup erasedAccount)
                          => told[m][a] > 0
    BY DEF ToldOnce
  <2>1. /\ told[m][a] > 0 => a \in Audience(event[m])
        /\ ~IsMail(m) /\ <<m, a>> \notin late => told[m][a] <= 1
        /\ server[m] = "acked" /\ a \in Audience(event[m]) \ Gone => told[m][a] > 0
    BY DEF IInv, RowsOf
  <2>2. event[m].topic \in {"draft", "voting", "teams_reset"} => event[m].actor \notin Audience(event[m])
    BY DEF Audience, Draft, Voting, TeamsReset, NotifyEach
  <2>3. a = event[m].actor /\ event[m].topic \in {"draft", "voting", "teams_reset"} => ~(told[m][a] > 0)
    BY <2>1, <2>2
  <2>. QED  BY <1>2, <2>1, <2>3 DEF Gone
<1>. QED  BY <1>1, <1>3, <1>4 DEF FeedOK, IInv

\* However often, on whatever instance and next to whatever deletion an event is
\* handled, each recipient finds one notification of it at most, who caused it
\* none, and once it is acked everybody still there has been told.
THEOREM ToldOncePerEvent == Spec => []ToldOnce
BY InvariantHolds, FeedFacts, PTL

\* The feeds, and what the handlers have before them, keep their types, and an
\* erased account's feed holds only what was checked before the erasure.
THEOREM FeedsCorrect == Spec => []FeedOK
BY InvariantHolds, FeedFacts, PTL

\* A message that is gone from the topic was handled or is in the DLQ stream,
\* but for a DLQ that refused it and an instance that went down with it.
THEOREM NothingVanishesUnseen == Spec => []VanishesOnlyWhenCutShort
BY InvariantHolds, FeedFacts, PTL
=============================================================================
