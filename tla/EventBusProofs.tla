--------------------------- MODULE EventBusProofs ---------------------------
(***************************************************************************)
(* Proofs about the broker for any number of requests and streams and any  *)
(* capacity: type correctness, that no send meets a closed channel, that   *)
(* every event is accounted for on every stream, and that the broker       *)
(* implements the broadcast of Fanout.                                     *)
(***************************************************************************)
EXTENDS EventBus, FiniteSetTheorems, SequenceTheorems, TLAPS

\* The variables hold values of their types in every reachable state.
THEOREM TypeCorrect == Spec => []TypeOK
<1>1. Init => TypeOK
  BY CapacityAssumption DEF Init, TypeOK, RequestState, StreamState
<1>2. TypeOK /\ [Next]_vars => TypeOK'
  <2> SUFFICES ASSUME TypeOK, [Next]_vars
               PROVE  TypeOK'
    OBVIOUS
  <2> USE DEF TypeOK, RequestState, StreamState
  <2>1. ASSUME NEW r \in Requests, RLock(r)
        PROVE  TypeOK'
    BY <2>1 DEF RLock
  <2>2. ASSUME NEW r \in Requests, NEW s \in Streams, Send(r, s)
        PROVE  TypeOK'
    <3>1. todo' \in [Requests -> SUBSET Streams]
      BY <2>2 DEF Send
    <3>2. CASE /\ queue' = [queue EXCEPT ![s] = Append(@, r)]
               /\ UNCHANGED dropped
      <4>1. /\ Append(queue[s], r) \in Seq(Requests)
            /\ Len(Append(queue[s], r)) = Len(queue[s]) + 1
        OBVIOUS
      <4>2. Len(queue[s]) < Capacity
        BY <2>2, <3>2, <4>1 DEF Send
      <4>3. queue' \in [Streams -> Seq(Requests)]
        BY <3>2, <4>1
      <4>4. \A z \in Streams : Len(queue'[z]) <= Capacity
        BY <3>2, <4>1, <4>2, CapacityAssumption
      <4> QED
        BY <2>2, <3>1, <3>2, <4>3, <4>4 DEF Send
    <3>3. CASE /\ dropped' = [dropped EXCEPT ![s] = @ \cup {r}]
               /\ UNCHANGED queue
      BY <2>2, <3>1, <3>3 DEF Send
    <3> QED
      BY <2>2, <3>2, <3>3 DEF Send
  <2>3. ASSUME NEW r \in Requests, RUnlock(r)
        PROVE  TypeOK'
    BY <2>3 DEF RUnlock
  <2>4. ASSUME NEW s \in Streams, Connect(s)
        PROVE  TypeOK'
    BY <2>4 DEF Connect
  <2>5. ASSUME NEW s \in Streams, Announce(s)
        PROVE  TypeOK'
    BY <2>5 DEF Announce
  <2>6. ASSUME NEW s \in Streams, Subscribe(s)
        PROVE  TypeOK'
    BY <2>6 DEF Subscribe, Unlock
  <2>7. ASSUME NEW s \in Streams, Unsubscribe(s)
        PROVE  TypeOK'
    BY <2>7 DEF Unsubscribe, Unlock
  <2>8. ASSUME NEW s \in Streams, Disconnect(s)
        PROVE  TypeOK'
    BY <2>8 DEF Disconnect
  <2>9. ASSUME NEW s \in Streams, Receive(s)
        PROVE  TypeOK'
    <3>1. /\ Tail(queue[s]) \in Seq(Requests)
          /\ Len(Tail(queue[s])) = Len(queue[s]) - 1
          /\ Head(queue[s]) \in Requests
      BY <2>9 DEF Receive
    <3>2. Append(taken[s], Head(queue[s])) \in Seq(Requests)
      BY <3>1
    <3>3. \A z \in Streams : Len(queue'[z]) <= Capacity
      BY <2>9, <3>1, CapacityAssumption DEF Receive
    <3> QED
      BY <2>9, <3>1, <3>2, <3>3 DEF Receive
  <2>10. ASSUME NEW s \in Streams, Write(s)
         PROVE  TypeOK'
    BY <2>10 DEF Write
  <2>11. ASSUME NEW s \in Streams, Return(s)
         PROVE  TypeOK'
    BY <2>11 DEF Return
  <2>12. CASE UNCHANGED vars
    BY <2>12 DEF vars
  <2>13. CASE Quiescent
    BY <2>12, <2>13 DEF Quiescent
  <2> QED
    BY <2>1, <2>2, <2>3, <2>4, <2>5, <2>6, <2>7, <2>8, <2>9, <2>10, <2>11,
       <2>12, <2>13 DEF Next, PublishStep, LockStep
<1> QED
  BY <1>1, <1>2, PTL DEF Spec

-----------------------------------------------------------------------------
(***************************************************************************)
(* Why a send never meets a closed channel.  A channel is in the map from  *)
(* Subscribe until unsubscribe, which closes it, so the map and the closed *)
(* channels are disjoint; and while a publisher is in its loop the map     *)
(* cannot change, because a writer enters only when there are no readers,  *)
(* so what the loop has still to visit stays in the map.                   *)
(***************************************************************************)
MapIsOpen ==
    /\ subscribers =
         {s \in Streams : stream[s] \in {"streaming", "writing", "unsubscribing"}}
    /\ closed = {s \in Streams : stream[s] = "over"}

LoopInsideMap ==
    \A r \in Requests : request[r] = "publishing" => todo[r] \subseteq subscribers

SendInv == TypeOK /\ MapIsOpen /\ LoopInsideMap

\* The map and its closed channels stay disjoint, and loops stay inside it.
LEMMA SendInvariant == Spec => []SendInv
<1>1. Init => SendInv
  BY CapacityAssumption
     DEF Init, SendInv, TypeOK, RequestState, StreamState, MapIsOpen,
         LoopInsideMap
<1>2. SendInv /\ TypeOK' /\ [Next]_vars => SendInv'
  <2> SUFFICES ASSUME SendInv, TypeOK', [Next]_vars
               PROVE  MapIsOpen' /\ LoopInsideMap'
    BY DEF SendInv
  <2> USE DEF SendInv, MapIsOpen, LoopInsideMap
  <2>1. ASSUME NEW r \in Requests, RLock(r)
        PROVE  MapIsOpen' /\ LoopInsideMap'
    <3>1. MapIsOpen'
      BY <2>1 DEF RLock
    <3>2. CASE writer = NoStream
      <4>1. /\ request' = [request EXCEPT ![r] = "publishing"]
            /\ todo' = [todo EXCEPT ![r] = subscribers]
            /\ subscribers' = subscribers
        BY <2>1, <3>2 DEF RLock
      <4> QED
        BY <3>1, <4>1 DEF TypeOK
    <3>3. CASE writer # NoStream
      <4>1. /\ request' = [request EXCEPT ![r] = "blocked"]
            /\ todo' = todo
            /\ subscribers' = subscribers
        BY <2>1, <3>3 DEF RLock
      <4> QED
        BY <3>1, <4>1 DEF TypeOK
    <3> QED
      BY <3>2, <3>3
  <2>2. ASSUME NEW r \in Requests, NEW s \in Streams, Send(r, s)
        PROVE  MapIsOpen' /\ LoopInsideMap'
    <3>1. /\ todo' = [todo EXCEPT ![r] = @ \ {s}]
          /\ UNCHANGED <<request, stream, subscribers, closed>>
      BY <2>2 DEF Send
    <3>2. MapIsOpen'
      BY <3>1
    <3>3. LoopInsideMap'
      BY <3>1 DEF TypeOK
    <3> QED
      BY <3>2, <3>3
  <2>3. ASSUME NEW r \in Requests, RUnlock(r)
        PROVE  MapIsOpen' /\ LoopInsideMap'
    BY <2>3 DEF RUnlock, TypeOK
  <2>4. ASSUME NEW s \in Streams, Connect(s)
        PROVE  MapIsOpen' /\ LoopInsideMap'
    BY <2>4 DEF Connect, TypeOK
  <2>5. ASSUME NEW s \in Streams, Announce(s)
        PROVE  MapIsOpen' /\ LoopInsideMap'
    BY <2>5 DEF Announce, TypeOK
  <2>6. ASSUME NEW s \in Streams, Subscribe(s)
        PROVE  MapIsOpen' /\ LoopInsideMap'
    <3>1. MapIsOpen'
      BY <2>6 DEF Subscribe, TypeOK
    <3>2. LoopInsideMap'
      BY <2>6 DEF Subscribe, Unlock, WriterEnters, Readers, TypeOK
    <3> QED
      BY <3>1, <3>2
  <2>7. ASSUME NEW s \in Streams, Unsubscribe(s)
        PROVE  MapIsOpen' /\ LoopInsideMap'
    <3>1. MapIsOpen'
      BY <2>7 DEF Unsubscribe, TypeOK
    <3>2. LoopInsideMap'
      BY <2>7 DEF Unsubscribe, Unlock, WriterEnters, Readers, TypeOK
    <3> QED
      BY <3>1, <3>2
  <2>8. ASSUME NEW s \in Streams, Disconnect(s)
        PROVE  MapIsOpen' /\ LoopInsideMap'
    BY <2>8 DEF Disconnect, TypeOK
  <2>9. ASSUME NEW s \in Streams, Receive(s)
        PROVE  MapIsOpen' /\ LoopInsideMap'
    BY <2>9 DEF Receive, TypeOK
  <2>10. ASSUME NEW s \in Streams, Write(s)
         PROVE  MapIsOpen' /\ LoopInsideMap'
    BY <2>10 DEF Write, TypeOK
  <2>11. ASSUME NEW s \in Streams, Return(s)
         PROVE  MapIsOpen' /\ LoopInsideMap'
    BY <2>11 DEF Return, TypeOK
  <2>12. CASE UNCHANGED vars
    BY <2>12 DEF vars
  <2>13. CASE Quiescent
    BY <2>12, <2>13 DEF Quiescent
  <2> QED
    BY <2>1, <2>2, <2>3, <2>4, <2>5, <2>6, <2>7, <2>8, <2>9, <2>10, <2>11,
       <2>12, <2>13 DEF Next, PublishStep, LockStep
<1> QED
  BY <1>1, <1>2, TypeCorrect, PTL DEF Spec

\* No publisher ever has a closed channel left to visit: Publish cannot panic.
THEOREM SendSafety == Spec => []NoSendOnClosed
<1>1. SendInv => NoSendOnClosed
  BY DEF SendInv, TypeOK, MapIsOpen, LoopInsideMap, NoSendOnClosed
<1> QED
  BY <1>1, SendInvariant, PTL

-----------------------------------------------------------------------------
(***************************************************************************)
(* Why every event is accounted for.  The count of an event on a channel   *)
(* is 0 or 1 because a channel never holds an event twice; and the loop of *)
(* a publisher visits a subscriber once: what it has still to visit is     *)
(* part of its audience and has not been given the event, all others of    *)
(* its audience have it or have lost it, and nobody else ever gets it.     *)
(***************************************************************************)
Given(r, s) == \E i \in DOMAIN Sent(s) : Sent(s)[i] = r

GivenOnce ==
    \A s \in Streams : \A i, j \in DOMAIN Sent(s) :
        Sent(s)[i] = Sent(s)[j] => i = j

GivenOrLost ==
    \A r \in Requests, s \in Streams :
        /\ Given(r, s) \/ r \in dropped[s] <=> s \in audience[r] \ todo[r]
        /\ ~(Given(r, s) /\ r \in dropped[s])

\* A loop visits members of its audience, and begins with all of them.
LoopInsideAudience ==
    \A r \in Requests :
        /\ todo[r] \subseteq audience[r]
        /\ request[r] \in {"new", "blocked"} => audience[r] = {}

AccountInv ==
    /\ SendInv
    /\ GivenOnce
    /\ GivenOrLost
    /\ LoopInsideAudience

\* What a stream was sent is a sequence of events.
LEMMA SentType ==
    ASSUME TypeOK, NEW s \in Streams
    PROVE  Sent(s) \in Seq(Requests)
BY DEF TypeOK, Sent

\* Two facts about sequences: the head of one may as well be the end of the
\* other, and what is appended to the second is appended to both.
LEMMA HeadMoved ==
    ASSUME NEW t \in Seq(Requests), NEW q \in Seq(Requests), q # << >>
    PROVE  Append(t, Head(q)) \o Tail(q) = t \o q
<1> DEFINE new == Append(t, Head(q)) \o Tail(q)
           old == t \o q
<1>1. /\ Tail(q) \in Seq(Requests) /\ Len(Tail(q)) = Len(q) - 1
      /\ \A i \in 1..(Len(q) - 1) : Tail(q)[i] = q[i + 1]
      /\ Head(q) = q[1] /\ Head(q) \in Requests
      /\ Len(q) \in Nat \ {0} /\ Len(t) \in Nat
  OBVIOUS
<1>2. /\ Append(t, Head(q)) \in Seq(Requests)
      /\ Len(Append(t, Head(q))) = Len(t) + 1
      /\ \A i \in 1..(Len(t) + 1) :
           Append(t, Head(q))[i] = IF i <= Len(t) THEN t[i] ELSE Head(q)
  BY <1>1
<1>3. /\ new \in Seq(Requests) /\ Len(new) = Len(t) + Len(q)
      /\ \A i \in 1..(Len(t) + Len(q)) :
           new[i] = IF i <= Len(t) + 1 THEN Append(t, Head(q))[i]
                    ELSE Tail(q)[i - (Len(t) + 1)]
  BY <1>1, <1>2
<1>4. /\ old \in Seq(Requests) /\ Len(old) = Len(t) + Len(q)
      /\ \A i \in 1..(Len(t) + Len(q)) :
           old[i] = IF i <= Len(t) THEN t[i] ELSE q[i - Len(t)]
  BY <1>1
<1>5. \A i \in 1..(Len(t) + Len(q)) : new[i] = old[i]
  <2> SUFFICES ASSUME NEW i \in 1..(Len(t) + Len(q))
               PROVE  new[i] = old[i]
    OBVIOUS
  <2> HIDE DEF new, old
  <2>1. CASE i <= Len(t)
    BY <1>1, <1>2, <1>3, <1>4, <2>1
  <2>2. CASE i = Len(t) + 1
    BY <1>1, <1>2, <1>3, <1>4, <2>2
  <2>3. CASE i > Len(t) + 1
    <3>1. new[i] = Tail(q)[i - (Len(t) + 1)] /\ old[i] = q[i - Len(t)]
      BY <1>1, <1>3, <1>4, <2>3
    <3>2. /\ i - (Len(t) + 1) \in 1..(Len(q) - 1)
          /\ (i - (Len(t) + 1)) + 1 = i - Len(t)
      BY <1>1, <2>3
    <3> QED
      BY <1>1, <3>1, <3>2
  <2> QED
    BY <1>1, <2>1, <2>2, <2>3
<1> HIDE DEF new, old
<1>6. new = old
  BY <1>3, <1>4, <1>5
<1> QED
  BY <1>6 DEF new, old

LEMMA AppendMoved ==
    ASSUME NEW t \in Seq(Requests), NEW q \in Seq(Requests), NEW r \in Requests
    PROVE  t \o Append(q, r) = Append(t \o q, r)
<1> DEFINE last == <<r>>
           both == t \o q
<1>1. last \in Seq(Requests)
  OBVIOUS
<1>2. both \in Seq(Requests)
  BY ConcatProperties
<1>3. Append(q, r) = q \o last
  BY AppendIsConcat, Zenon
<1>4. Append(both, r) = both \o last
  BY <1>2, AppendIsConcat, Zenon
<1> HIDE DEF last
<1>5. (t \o q) \o last = t \o (q \o last)
  BY <1>1
<1> QED
  BY <1>3, <1>4, <1>5

\* A receive takes nothing away from what the stream was sent.
LEMMA ReceiveKeepsSent ==
    ASSUME TypeOK, NEW s \in Streams, Receive(s), NEW z \in Streams
    PROVE  Sent(z)' = Sent(z)
<1>1. CASE z = s
  <2>1. queue[s] \in Seq(Requests) /\ taken[s] \in Seq(Requests)
    BY DEF TypeOK
  <2>2. /\ taken'[s] = Append(taken[s], Head(queue[s]))
        /\ queue'[s] = Tail(queue[s])
        /\ queue[s] # << >>
    BY DEF Receive, TypeOK
  <2> QED
    BY <1>1, <2>1, <2>2, HeadMoved DEF Sent
<1>2. CASE z # s
  BY <1>2 DEF Receive, TypeOK, Sent
<1> QED
  BY <1>1, <1>2

\* A send that finds room adds the event at the end, to its channel only.
LEMMA SendExtendsSent ==
    ASSUME TypeOK, NEW r \in Requests, NEW s \in Streams, NEW z \in Streams,
           taken' = taken, queue' = [queue EXCEPT ![s] = Append(@, r)]
    PROVE  Sent(z)' = IF z = s THEN Append(Sent(z), r) ELSE Sent(z)
<1>1. queue[s] \in Seq(Requests) /\ taken[s] \in Seq(Requests)
  BY DEF TypeOK
<1>2. queue'[z] = IF z = s THEN Append(queue[z], r) ELSE queue[z]
  BY DEF TypeOK
<1>3. taken[s] \o Append(queue[s], r) = Append(taken[s] \o queue[s], r)
  BY <1>1, AppendMoved
<1>4. CASE z = s
  BY <1>2, <1>3, <1>4 DEF Sent
<1>5. CASE z # s
  <2>1. queue'[z] = queue[z] /\ taken'[z] = taken[z]
    BY <1>2, <1>5
  <2>2. Sent(z)' = Sent(z)
    BY <2>1 DEF Sent
  <2> QED
    BY <1>5, <2>2
<1> QED
  BY <1>4, <1>5

\* The steps that send nothing and take nothing leave all of it alone.
LEMMA AccountStutter ==
    ASSUME AccountInv, SendInv',
           \A s \in Streams : Sent(s)' = Sent(s),
           UNCHANGED <<todo, dropped, audience>>,
           \A r \in Requests :
             request'[r] \in {"new", "blocked"}
               => request[r] \in {"new", "blocked"}
    PROVE  AccountInv'
BY DEF AccountInv, GivenOnce, GivenOrLost, Given, LoopInsideAudience

\* A publisher that gets the lock has its whole audience still to visit.
LEMMA AccountEnter ==
    ASSUME AccountInv, SendInv', NEW R \in SUBSET Requests, NEW subs,
           \A r \in R : audience[r] = {},
           UNCHANGED <<queue, taken, dropped>>,
           todo' = [r \in Requests |-> IF r \in R THEN subs ELSE todo[r]],
           audience' =
             [r \in Requests |-> IF r \in R THEN subs ELSE audience[r]],
           \A r \in Requests :
             request'[r] \in {"new", "blocked"}
               => r \notin R /\ request[r] \in {"new", "blocked"}
    PROVE  AccountInv'
<1>1. \A s \in Streams : Sent(s)' = Sent(s)
  BY DEF Sent
<1>2. \A r \in Requests, s \in Streams :
        (s \in audience'[r] \ todo'[r]) = (s \in audience[r] \ todo[r])
  <2> SUFFICES ASSUME NEW r \in Requests, NEW s \in Streams
               PROVE  (s \in audience'[r] \ todo'[r])
                        = (s \in audience[r] \ todo[r])
    OBVIOUS
  <2>1. CASE r \in R
    BY <2>1
  <2>2. CASE r \notin R
    BY <2>2
  <2> QED
    BY <2>1, <2>2
<1>3. GivenOnce'
  BY <1>1 DEF AccountInv, GivenOnce
<1>4. GivenOrLost'
  BY <1>1, <1>2 DEF AccountInv, GivenOrLost, Given
<1>5. LoopInsideAudience'
  BY DEF AccountInv, LoopInsideAudience
<1> QED
  BY <1>3, <1>4, <1>5 DEF AccountInv

\* One turn of the loop: the channel gets the event it has not had yet, or
\* loses it.
LEMMA AccountSend ==
    ASSUME AccountInv, SendInv', NEW r \in Requests, NEW s \in Streams,
           Send(r, s)
    PROVE  AccountInv'
<1>1. TypeOK /\ s \in todo[r] /\ s \in audience[r]
  BY DEF AccountInv, SendInv, LoopInsideAudience, Send
<1>2. ~Given(r, s) /\ r \notin dropped[s]
  BY <1>1 DEF AccountInv, GivenOrLost
<1>3. /\ todo' = [todo EXCEPT ![r] = @ \ {s}]
      /\ UNCHANGED <<request, taken, audience>>
  BY DEF Send
<1>4. LoopInsideAudience'
  BY <1>1, <1>3 DEF AccountInv, LoopInsideAudience, TypeOK
<1>5. \A q \in Requests, z \in Streams :
        z \in audience'[q] \ todo'[q]
          <=> z \in audience[q] \ todo[q] \/ (q = r /\ z = s)
  <2> SUFFICES ASSUME NEW q \in Requests, NEW z \in Streams
               PROVE  z \in audience'[q] \ todo'[q]
                        <=> z \in audience[q] \ todo[q] \/ (q = r /\ z = s)
    OBVIOUS
  <2>1. todo'[q] = IF q = r THEN todo[q] \ {s} ELSE todo[q]
    BY <1>1, <1>3 DEF TypeOK
  <2>2. CASE q = r
    BY <1>1, <1>3, <2>1, <2>2
  <2>3. CASE q # r
    BY <1>3, <2>1, <2>3
  <2> QED
    BY <2>2, <2>3
<1>6. CASE queue' = [queue EXCEPT ![s] = Append(@, r)] /\ UNCHANGED dropped
  <2>1. \A z \in Streams :
          Sent(z)' = IF z = s THEN Append(Sent(z), r) ELSE Sent(z)
    BY <1>1, <1>3, <1>6, SendExtendsSent
  <2>2. \A z \in Streams : Sent(z) \in Seq(Requests)
    BY <1>1, SentType
  <2>3. GivenOnce'
    <3> SUFFICES ASSUME NEW z \in Streams,
                        NEW i \in DOMAIN Sent(z)', NEW j \in DOMAIN Sent(z)',
                        Sent(z)'[i] = Sent(z)'[j]
                 PROVE  i = j
      BY DEF GivenOnce
    <3>1. CASE z # s
      BY <2>1, <3>1 DEF AccountInv, GivenOnce
    <3>2. CASE z = s
      <4> DEFINE old == Sent(s)
                 n   == Len(old) + 1
      <4>1. old \in Seq(Requests) /\ Sent(z)' = Append(old, r)
        BY <2>1, <2>2, <3>2
      <4>2. /\ DOMAIN Sent(z)' = 1..n
            /\ \A k \in 1..n :
                 Sent(z)'[k] = IF k = n THEN r ELSE old[k]
        BY <4>1
      <4>3. \A k \in DOMAIN old : old[k] # r
        BY <1>2 DEF Given
      <4>4. \A k, m \in DOMAIN old : old[k] = old[m] => k = m
        BY DEF AccountInv, GivenOnce
      <4>5. DOMAIN old = 1..(n - 1) /\ n \in Nat
        BY <4>1
      <4> HIDE DEF old, n
      <4> QED
        BY <4>2, <4>3, <4>4, <4>5
    <3> QED
      BY <3>1, <3>2
  <2>4. \A q \in Requests, z \in Streams :
          Given(q, z)' <=> Given(q, z) \/ (q = r /\ z = s)
    <3> SUFFICES ASSUME NEW q \in Requests, NEW z \in Streams
                 PROVE  Given(q, z)' <=> Given(q, z) \/ (q = r /\ z = s)
      OBVIOUS
    <3>1. CASE z # s
      <4>1. Sent(z)' = Sent(z)
        BY <2>1, <3>1
      <4> QED
        BY <3>1, <4>1 DEF Given
    <3>2. CASE z = s
      <4> DEFINE old == Sent(z)
                 n   == Len(old) + 1
      <4>1. old \in Seq(Requests) /\ Sent(z)' = Append(old, r)
        BY <2>1, <2>2, <3>2
      <4>2. /\ DOMAIN Sent(z)' = 1..n
            /\ \A k \in 1..n :
                 Sent(z)'[k] = IF k = n THEN r ELSE old[k]
        BY <4>1
      <4>3. DOMAIN old = 1..(n - 1) /\ n \in Nat \ {0}
        BY <4>1
      <4>4. Given(q, z) <=> \E k \in DOMAIN old : old[k] = q
        BY DEF Given
      <4>5. Given(q, z)' <=> \E k \in 1..n : Sent(z)'[k] = q
        BY <4>2 DEF Given
      <4> HIDE DEF old, n
      <4>6. ASSUME Given(q, z)'
            PROVE  Given(q, z) \/ q = r
        BY <4>2, <4>3, <4>4, <4>5, <4>6
      <4>7. ASSUME Given(q, z)
            PROVE  Given(q, z)'
        <5>1. PICK k \in DOMAIN old : old[k] = q
          BY <4>4, <4>7
        <5>2. k \in 1..n /\ k # n
          BY <4>3
        <5> QED
          BY <4>2, <4>5, <5>1, <5>2
      <4>8. ASSUME q = r
            PROVE  Given(q, z)'
        <5>1. n \in 1..n
          BY <4>3
        <5> QED
          BY <4>2, <4>5, <4>8, <5>1
      <4> QED
        BY <3>2, <4>6, <4>7, <4>8
    <3> QED
      BY <3>1, <3>2
  <2>5. GivenOrLost'
    <3>1. \A q \in Requests, z \in Streams :
            /\ Given(q, z) \/ q \in dropped[z] <=> z \in audience[q] \ todo[q]
            /\ ~(Given(q, z) /\ q \in dropped[z])
      BY DEF AccountInv, GivenOrLost
    <3>2. \A q \in Requests, z \in Streams :
            /\ Given(q, z)' \/ q \in dropped'[z]
                 <=> z \in audience'[q] \ todo'[q]
            /\ ~(Given(q, z)' /\ q \in dropped'[z])
      <4> QED
        BY <1>2, <1>5, <1>6, <2>4, <3>1
    <3> QED
      BY <3>2 DEF GivenOrLost
  <2> QED
    BY <1>4, <2>3, <2>5 DEF AccountInv
<1>7. CASE /\ dropped' = [dropped EXCEPT ![s] = @ \cup {r}]
           /\ UNCHANGED queue
  <2>1. \A z \in Streams : Sent(z)' = Sent(z)
    BY <1>3, <1>7 DEF Sent
  <2>2. GivenOnce'
    BY <2>1 DEF AccountInv, GivenOnce
  <2>3. \A q \in Requests, z \in Streams :
          /\ Given(q, z)' <=> Given(q, z)
          /\ q \in dropped'[z] <=> q \in dropped[z] \/ (q = r /\ z = s)
    <3>1. \A q \in Requests, z \in Streams : Given(q, z)' <=> Given(q, z)
      BY <2>1 DEF Given
    <3>2. \A z \in Streams :
            dropped'[z] = IF z = s THEN dropped[z] \cup {r} ELSE dropped[z]
      BY <1>1, <1>7 DEF TypeOK
    <3> QED
      BY <3>1, <3>2
  <2>4. GivenOrLost'
    <3>1. \A q \in Requests, z \in Streams :
            /\ Given(q, z) \/ q \in dropped[z] <=> z \in audience[q] \ todo[q]
            /\ ~(Given(q, z) /\ q \in dropped[z])
      BY DEF AccountInv, GivenOrLost
    <3>2. \A q \in Requests, z \in Streams :
            /\ Given(q, z)' \/ q \in dropped'[z]
                 <=> z \in audience'[q] \ todo'[q]
            /\ ~(Given(q, z)' /\ q \in dropped'[z])
      BY <1>2, <1>5, <2>3, <3>1
    <3> QED
      BY <3>2 DEF GivenOrLost
  <2> QED
    BY <1>4, <2>2, <2>4 DEF AccountInv
<1> QED
  BY <1>6, <1>7 DEF Send

\* Where an event is counted does not change behind anybody's back.
LEMMA AccountStep ==
    ASSUME AccountInv, SendInv', [Next]_vars
    PROVE  AccountInv'
<1>0. TypeOK /\ LoopInsideAudience
  BY DEF AccountInv, SendInv
<1>1. ASSUME NEW r \in Requests, RLock(r)
      PROVE  AccountInv'
  <2>1. CASE writer = NoStream
    <3>1. /\ request[r] = "new"
          /\ request' = [request EXCEPT ![r] = "publishing"]
          /\ todo' = [todo EXCEPT ![r] = subscribers]
          /\ audience' = [audience EXCEPT ![r] = subscribers]
          /\ UNCHANGED <<queue, taken, dropped>>
      BY <1>1, <2>1 DEF RLock
    <3>2. audience[r] = {}
      BY <1>0, <3>1 DEF LoopInsideAudience
    <3>3. /\ todo' = [q \in Requests |->
                        IF q \in {r} THEN subscribers ELSE todo[q]]
          /\ audience' = [q \in Requests |->
                            IF q \in {r} THEN subscribers ELSE audience[q]]
      BY <1>0, <3>1 DEF TypeOK
    <3>4. \A q \in Requests :
            request'[q] \in {"new", "blocked"}
              => q \notin {r} /\ request[q] \in {"new", "blocked"}
      BY <1>0, <3>1 DEF TypeOK
    <3> DEFINE R == {r}
    <3>5. R \in SUBSET Requests /\ \A q \in R : audience[q] = {}
      BY <3>2
    <3>6. /\ todo' = [q \in Requests |->
                        IF q \in R THEN subscribers ELSE todo[q]]
          /\ audience' = [q \in Requests |->
                            IF q \in R THEN subscribers ELSE audience[q]]
      BY <3>3
    <3>7. \A q \in Requests :
            request'[q] \in {"new", "blocked"}
              => q \notin R /\ request[q] \in {"new", "blocked"}
      BY <3>4
    <3>8. UNCHANGED <<queue, taken, dropped>>
      BY <3>1
    <3> HIDE DEF R
    <3> QED
      BY <3>5, <3>6, <3>7, <3>8, AccountEnter
  <2>2. CASE writer # NoStream
    <3>1. /\ request[r] = "new"
          /\ request' = [request EXCEPT ![r] = "blocked"]
          /\ UNCHANGED <<todo, audience, queue, taken, dropped>>
      BY <1>1, <2>2 DEF RLock
    <3>2. \A q \in Requests :
            request'[q] \in {"new", "blocked"}
              => request[q] \in {"new", "blocked"}
      BY <1>0, <3>1 DEF TypeOK
    <3> QED
      BY <3>1, <3>2, AccountStutter DEF Sent
  <2> QED
    BY <2>1, <2>2
<1>2. ASSUME NEW r \in Requests, NEW s \in Streams, Send(r, s)
      PROVE  AccountInv'
  BY <1>2, AccountSend
<1>3. ASSUME NEW r \in Requests, RUnlock(r)
      PROVE  AccountInv'
  BY <1>0, <1>3, AccountStutter DEF RUnlock, TypeOK, Sent
<1>4. ASSUME NEW s \in Streams, Connect(s) \/ Announce(s) \/ Disconnect(s)
                                  \/ Write(s) \/ Return(s)
      PROVE  AccountInv'
  BY <1>4, AccountStutter
  DEF Connect, Announce, Disconnect, Write, Return, Sent
<1>5. ASSUME NEW s \in Streams, Subscribe(s) \/ Unsubscribe(s)
      PROVE  AccountInv'
  <2> DEFINE R == {r \in Requests : request[r] = "blocked"}
  <2>1. /\ UNCHANGED <<queue, taken, dropped>>
        /\ Unlock(subscribers')
    BY <1>5 DEF Subscribe, Unsubscribe
  <2>2. /\ todo' = [r \in Requests |->
                      IF r \in R THEN subscribers' ELSE todo[r]]
        /\ audience' = [r \in Requests |->
                          IF r \in R THEN subscribers' ELSE audience[r]]
        /\ request' = [r \in Requests |->
                         IF r \in R THEN "publishing" ELSE request[r]]
    BY <2>1 DEF Unlock
  <2>3. R \in SUBSET Requests /\ \A r \in R : audience[r] = {}
    BY <1>0 DEF LoopInsideAudience
  <2>4. \A r \in Requests :
          request'[r] \in {"new", "blocked"}
            => r \notin R /\ request[r] \in {"new", "blocked"}
    BY <2>2
  <2> HIDE DEF R
  <2> QED
    BY <2>1, <2>2, <2>3, <2>4, AccountEnter
<1>6. ASSUME NEW s \in Streams, Receive(s)
      PROVE  AccountInv'
  <2>1. \A z \in Streams : Sent(z)' = Sent(z)
    BY <1>0, <1>6, ReceiveKeepsSent
  <2> QED
    BY <1>6, <2>1, AccountStutter DEF Receive
<1>7. CASE UNCHANGED vars
  BY <1>7, AccountStutter DEF vars, Sent
<1>8. CASE Quiescent
  BY <1>7, <1>8 DEF Quiescent
<1> QED
  BY <1>1, <1>2, <1>3, <1>4, <1>5, <1>6, <1>7, <1>8
  DEF Next, PublishStep, LockStep

\* The invariant holds from the start.
LEMMA AccountInvariant == Spec => []AccountInv
<1>1. Init => GivenOnce /\ GivenOrLost /\ LoopInsideAudience
  <2> SUFFICES ASSUME Init
               PROVE  GivenOnce /\ GivenOrLost /\ LoopInsideAudience
    OBVIOUS
  <2>1. \A s \in Streams : Sent(s) = << >> /\ DOMAIN Sent(s) = {}
    <3>1. << >> \o << >> = << >> /\ DOMAIN << >> = {}
      OBVIOUS
    <3> QED
      BY <3>1 DEF Init, Sent
  <2> QED
    BY <2>1 DEF Init, GivenOnce, GivenOrLost, Given, LoopInsideAudience
<1>2. AccountInv /\ SendInv' /\ [Next]_vars => AccountInv'
  BY AccountStep
<1>3. Init /\ SendInv => AccountInv
  BY <1>1 DEF AccountInv
<1> QED
  BY <1>2, <1>3, SendInvariant, PTL DEF Spec

(***************************************************************************)
(* However publishers and streams overlap, a stream that was in the map    *)
(* when an event was published gets it once or loses it to a full channel  *)
(* and never both, and no other stream ever sees it.                       *)
(***************************************************************************)
THEOREM EventAccounting == Spec => []EveryEventAccountedFor
<1>1. AccountInv => EveryEventAccountedFor
  <2> SUFFICES ASSUME AccountInv, NEW r \in Requests, NEW s \in Streams
               PROVE  LET copies ==
                            Cardinality({i \in DOMAIN Sent(s) : Sent(s)[i] = r})
                          lost == IF r \in dropped[s] THEN 1 ELSE 0
                      IN  copies + lost =
                            IF s \in audience[r] \ todo[r] THEN 1 ELSE 0
    BY DEF EveryEventAccountedFor
  <2> DEFINE places == {i \in DOMAIN Sent(s) : Sent(s)[i] = r}
  <2>1. /\ Given(r, s) \/ r \in dropped[s] <=> s \in audience[r] \ todo[r]
        /\ ~(Given(r, s) /\ r \in dropped[s])
    BY DEF AccountInv, GivenOrLost
  <2>2. CASE Given(r, s)
    <3>1. PICK i \in DOMAIN Sent(s) : Sent(s)[i] = r
      BY <2>2 DEF Given
    <3>2. places = {i}
      BY <3>1 DEF AccountInv, GivenOnce
    <3>3. Cardinality(places) = 1
      BY <3>2, FS_Singleton
    <3> QED
      BY <2>1, <2>2, <3>3
  <2>3. CASE ~Given(r, s)
    <3>1. places = {}
      BY <2>3 DEF Given
    <3>2. Cardinality(places) = 0
      BY <3>1, FS_EmptySet
    <3> QED
      BY <2>1, <2>3, <3>2
  <2> QED
    BY <2>2, <2>3
<1> QED
  BY <1>1, AccountInvariant, PTL

-----------------------------------------------------------------------------
(***************************************************************************)
(* The refinement.  A publication begins when Publish asks for the lock,   *)
(* whether it gets it or waits, and ends with RUnlock; a stream joins and  *)
(* leaves in the critical sections of Subscribe and unsubscribe; a send    *)
(* that finds room posts.  All other steps stutter: dropping an event,     *)
(* announcing a writer, and the handler's own steps.                       *)
(***************************************************************************)
LEMMA FanoutStutter ==
    ASSUME \A r \in Requests : PhaseOf(r)' = PhaseOf(r),
           \A s \in Streams : Sent(s)' = Sent(s),
           subscribers' = subscribers
    PROVE  UNCHANGED Abstract!vars
BY DEF Abstract!vars

\* The phase of a call is a matter of its own state.
LEMMA PhaseChange ==
    ASSUME NEW r \in Requests, NEW p, TypeOK, request' = [request EXCEPT ![r] = p]
    PROVE  \A q \in Requests :
             /\ q # r => PhaseOf(q)' = PhaseOf(q)
             /\ q = r /\ p \in {"publishing", "blocked"} => PhaseOf(q)' = "begun"
             /\ q = r /\ p = "done" => PhaseOf(q)' = "ended"
<1> SUFFICES ASSUME NEW q \in Requests
             PROVE  /\ q # r => PhaseOf(q)' = PhaseOf(q)
                    /\ q = r /\ p \in {"publishing", "blocked"}
                         => PhaseOf(q)' = "begun"
                    /\ q = r /\ p = "done" => PhaseOf(q)' = "ended"
  OBVIOUS
<1>1. request'[q] = IF q = r THEN p ELSE request[q]
  BY DEF TypeOK
<1>2. CASE q = r
  BY <1>1, <1>2 DEF PhaseOf
<1>3. CASE q # r
  BY <1>1, <1>3 DEF PhaseOf
<1> QED
  BY <1>2, <1>3

LEMMA FanoutStep ==
    ASSUME AccountInv, [Next]_vars
    PROVE  [Abstract!Next]_(Abstract!vars)
<1> DEFINE phase == [r \in Requests |-> PhaseOf(r)]
           inbox == [s \in Streams |-> Sent(s)]
<1>0. TypeOK /\ MapIsOpen /\ LoopInsideMap
  BY DEF AccountInv, SendInv
<1>1. ASSUME NEW r \in Requests, RLock(r)
      PROVE  Abstract!Begin(r)
  <2>1. /\ request[r] = "new"
        /\ \E p \in {"publishing", "blocked"} :
             request' = [request EXCEPT ![r] = p]
        /\ UNCHANGED <<subscribers, queue, taken>>
    BY <1>1 DEF RLock
  <2>2. phase[r] = "idle"
    BY <2>1 DEF PhaseOf
  <2>3. \A q \in Requests :
          PhaseOf(q)' = IF q = r THEN "begun" ELSE PhaseOf(q)
    <3>1. PICK p \in {"publishing", "blocked"} :
            request' = [request EXCEPT ![r] = p]
      BY <2>1
    <3> QED
      BY <1>0, <3>1, PhaseChange
  <2>4. phase' = [phase EXCEPT ![r] = "begun"]
    BY <2>3
  <2>5. inbox' = inbox
    BY <2>1 DEF Sent
  <2> QED
    BY <2>1, <2>2, <2>4, <2>5 DEF Abstract!Begin
<1>2. ASSUME NEW r \in Requests, RUnlock(r)
      PROVE  Abstract!End(r)
  <2>1. /\ request[r] = "publishing"
        /\ request' = [request EXCEPT ![r] = "done"]
        /\ UNCHANGED <<subscribers, queue, taken>>
    BY <1>2 DEF RUnlock
  <2>2. phase[r] = "begun"
    BY <2>1 DEF PhaseOf
  <2>3. \A q \in Requests :
          PhaseOf(q)' = IF q = r THEN "ended" ELSE PhaseOf(q)
    BY <1>0, <2>1, PhaseChange
  <2>4. phase' = [phase EXCEPT ![r] = "ended"]
    BY <2>3
  <2>5. inbox' = inbox
    BY <2>1 DEF Sent
  <2> QED
    BY <2>1, <2>2, <2>4, <2>5 DEF Abstract!End
<1>3. ASSUME NEW r \in Requests, NEW s \in Streams, Send(r, s)
      PROVE  Abstract!Post(r, s) \/ UNCHANGED Abstract!vars
  <2>1. /\ request[r] = "publishing" /\ s \in todo[r]
        /\ UNCHANGED <<request, subscribers, taken>>
    BY <1>3 DEF Send
  <2>2. phase[r] = "begun" /\ s \in subscribers /\ phase' = phase
    BY <1>0, <2>1 DEF PhaseOf, LoopInsideMap
  <2>3. CASE queue' = [queue EXCEPT ![s] = Append(@, r)]
    <3>1. \A z \in Streams :
            Sent(z)' = IF z = s THEN Append(Sent(z), r) ELSE Sent(z)
      BY <1>0, <2>1, <2>3, SendExtendsSent
    <3>2. inbox' = [inbox EXCEPT ![s] = Append(@, r)]
      BY <3>1
    <3>3. \A i \in DOMAIN inbox[s] : inbox[s][i] # r
      BY <2>1 DEF AccountInv, GivenOrLost, Given
    <3> QED
      BY <2>1, <2>2, <3>2, <3>3 DEF Abstract!Post
  <2>4. CASE queue' = queue
    <3>1. inbox' = inbox
      BY <2>1, <2>4 DEF Sent
    <3> QED
      BY <2>1, <2>2, <3>1 DEF Abstract!vars
  <2> QED
    BY <1>3, <2>3, <2>4 DEF Send
<1>4. ASSUME NEW s \in Streams, Subscribe(s) \/ Unsubscribe(s)
      PROVE  Abstract!Join(s) \/ Abstract!Leave(s)
  <2>1. /\ \A r \in Requests : request'[r] =
             IF request[r] = "blocked" THEN "publishing" ELSE request[r]
        /\ UNCHANGED <<queue, taken>>
    BY <1>4 DEF Subscribe, Unsubscribe, Unlock
  <2>2. inbox' = inbox
    BY <2>1 DEF Sent
  <2>3. \A r \in Requests : PhaseOf(r)' = PhaseOf(r)
    BY <2>1 DEF PhaseOf
  <2>4. phase' = phase
    BY <2>3
  <2>5. CASE Subscribe(s)
    <3>1. s \notin subscribers /\ subscribers' = subscribers \cup {s}
      BY <1>0, <2>5 DEF Subscribe, MapIsOpen
    <3> QED
      BY <2>2, <2>4, <3>1 DEF Abstract!Join
  <2>6. CASE Unsubscribe(s)
    <3>1. s \in subscribers /\ subscribers' = subscribers \ {s}
      BY <1>0, <2>6 DEF Unsubscribe, MapIsOpen
    <3> QED
      BY <2>2, <2>4, <3>1 DEF Abstract!Leave
  <2> QED
    BY <1>4, <2>5, <2>6
<1>5. ASSUME NEW s \in Streams, Receive(s)
      PROVE  UNCHANGED Abstract!vars
  <2>1. \A z \in Streams : Sent(z)' = Sent(z)
    BY <1>0, <1>5, ReceiveKeepsSent
  <2>2. \A r \in Requests : PhaseOf(r)' = PhaseOf(r)
    BY <1>5 DEF Receive, PhaseOf
  <2> QED
    BY <1>5, <2>1, <2>2, FanoutStutter DEF Receive
<1>6. ASSUME NEW s \in Streams, Connect(s) \/ Announce(s) \/ Disconnect(s)
                                  \/ Write(s) \/ Return(s)
      PROVE  UNCHANGED Abstract!vars
  <2>1. UNCHANGED <<request, subscribers, queue, taken>>
    BY <1>6 DEF Connect, Announce, Disconnect, Write, Return
  <2> QED
    BY <2>1, FanoutStutter DEF PhaseOf, Sent
<1>7. CASE UNCHANGED vars
  BY <1>7, FanoutStutter DEF vars, PhaseOf, Sent
<1>8. CASE Quiescent
  BY <1>7, <1>8 DEF Quiescent
<1> HIDE DEF phase, inbox
<1> QED
  BY <1>1, <1>2, <1>3, <1>4, <1>5, <1>6, <1>7, <1>8
  DEF Next, PublishStep, LockStep, Abstract!Next

\* The broker with its lock, its channels and its drops is a broadcast:
\* inboxes grow at their end, by events being published, once each, and only
\* those of members.
THEOREM Broadcasts == Spec => ImplementsFanout
<1>1. Init => Abstract!Init
  <2> SUFFICES ASSUME Init PROVE Abstract!Init
    OBVIOUS
  <2>1. \A r \in Requests : PhaseOf(r) = "idle"
    BY DEF Init, PhaseOf
  <2>2. \A s \in Streams : Sent(s) = << >>
    <3>1. << >> \o << >> = << >>
      OBVIOUS
    <3> QED
      BY <3>1 DEF Init, Sent
  <2>3. subscribers = {}
    BY DEF Init
  <2> QED
    BY <2>1, <2>2, <2>3 DEF Abstract!Init
<1>2. AccountInv /\ [Next]_vars => [Abstract!Next]_(Abstract!vars)
  BY FanoutStep
<1> QED
  BY <1>1, <1>2, AccountInvariant, PTL DEF Spec, ImplementsFanout, Abstract!Spec

=============================================================================
