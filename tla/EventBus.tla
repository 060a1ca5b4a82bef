------------------------------ MODULE EventBus ------------------------------
(***************************************************************************)
(* The fan-out broker of the web UI (simpanan/internal/webui/eventbus.go)  *)
(* and the Server-Sent-Events handler that drains it (sse.go).             *)
(*                                                                         *)
(* Every HTTP request that changes the workspace runs in a goroutine of    *)
(* its own and publishes exactly one event, so a request also names its    *)
(* event.  Every open event stream runs in a goroutine too: it subscribes, *)
(* forwards the events of its channel to the browser and unsubscribes when *)
(* the client is gone.  The broker's map of channels is guarded by a       *)
(* sync.RWMutex: publishers hold it for reading, Subscribe and unsubscribe *)
(* for writing.  The lock is Go's: an announced writer holds back new      *)
(* readers, and its Unlock lets every reader that waited in before the     *)
(* next writer is announced.                                               *)
(***************************************************************************)
EXTENDS Naturals, Sequences, FiniteSets

CONSTANTS
    Requests,   \* requests that publish, one event each
    Streams,    \* event streams, each a channel that is subscribed once
    Capacity,   \* buffer of a channel: 16 in Subscribe
    NoStream    \* "no writer is announced"

ASSUME CapacityAssumption == Capacity \in Nat \ {0}
ASSUME NoStreamAssumption == NoStream \notin Streams
ASSUME FiniteAssumption == IsFiniteSet(Requests) /\ IsFiniteSet(Streams)

VARIABLES
    request,      \* where each Publish call is
    todo,         \* the channels its range loop has still to visit
    stream,       \* where each handleEvents call is
    clients,      \* streams whose browser is still connected
    writer,       \* the stream whose Lock() is announced or held
    subscribers,  \* EventBus.subscribers
    closed,       \* channels that close() was called on
    queue,        \* buffered events of each channel
    taken,        \* history: events the stream received from its channel
    dropped,      \* history: events dropped for a slow stream
    audience      \* history: the subscribers when the publisher got the lock

vars == <<request, todo, stream, clients, writer, subscribers, closed, queue,
          taken, dropped, audience>>

RequestState == {"new", "blocked", "publishing", "done"}
StreamState  == {"new", "subscribing", "streaming", "writing",
                 "unsubscribing", "over"}

TypeOK ==
    /\ request \in [Requests -> RequestState]
    /\ todo \in [Requests -> SUBSET Streams]
    /\ stream \in [Streams -> StreamState]
    /\ clients \subseteq Streams
    /\ writer \in Streams \cup {NoStream}
    /\ subscribers \subseteq Streams
    /\ closed \subseteq Streams
    /\ queue \in [Streams -> Seq(Requests)]
    /\ \A s \in Streams : Len(queue[s]) <= Capacity
    /\ taken \in [Streams -> Seq(Requests)]
    /\ dropped \in [Streams -> SUBSET Requests]
    /\ audience \in [Requests -> SUBSET Streams]

Init ==
    /\ request = [r \in Requests |-> "new"]
    /\ todo = [r \in Requests |-> {}]
    /\ stream = [s \in Streams |-> "new"]
    /\ clients = {}
    /\ writer = NoStream
    /\ subscribers = {}
    /\ closed = {}
    /\ queue = [s \in Streams |-> << >>]
    /\ taken = [s \in Streams |-> << >>]
    /\ dropped = [s \in Streams |-> {}]
    /\ audience = [r \in Requests |-> {}]

-----------------------------------------------------------------------------
(* The RWMutex. *)

Readers == {r \in Requests : request[r] = "publishing"}

\* The writer may enter once every reader it found has left.
WriterEnters(s) == writer = s /\ Readers = {}

\* Unlock: the readers that were held back enter, and see the map subs.
Unlock(subs) ==
    LET Admitted(r) == request[r] = "blocked" IN
    /\ writer' = NoStream
    /\ request' = [r \in Requests |->
                     IF Admitted(r) THEN "publishing" ELSE request[r]]
    /\ todo' = [r \in Requests |-> IF Admitted(r) THEN subs ELSE todo[r]]
    /\ audience' = [r \in Requests |->
                     IF Admitted(r) THEN subs ELSE audience[r]]

-----------------------------------------------------------------------------
(* Publish *)

\* Publish is called and asks for the read lock.
RLock(r) ==
    /\ request[r] = "new"
    /\ \/ /\ writer = NoStream
          /\ request' = [request EXCEPT ![r] = "publishing"]
          /\ todo' = [todo EXCEPT ![r] = subscribers]
          /\ audience' = [audience EXCEPT ![r] = subscribers]
       \/ /\ writer # NoStream
          /\ request' = [request EXCEPT ![r] = "blocked"]
          /\ UNCHANGED <<todo, audience>>
    /\ UNCHANGED <<stream, clients, writer, subscribers, closed, queue,
                   taken, dropped>>

\* Mutant: the channel is taken to have room for one event more.
SendOneMore(r, s) ==
    /\ request[r] = "publishing"
    /\ s \in todo[r]
    /\ todo' = [todo EXCEPT ![r] = @ \ {s}]
    /\ \/ /\ Len(queue[s]) <= Capacity
          /\ queue' = [queue EXCEPT ![s] = Append(@, r)]
          /\ UNCHANGED dropped
       \/ /\ Len(queue[s]) > Capacity
          /\ dropped' = [dropped EXCEPT ![s] = @ \cup {r}]
          /\ UNCHANGED queue
    /\ UNCHANGED <<request, stream, clients, writer, subscribers, closed,
                   taken, audience>>

\* Mutant: a full channel ends the loop instead of this one turn of it.
SendOrGiveUp(r, s) ==
    /\ request[r] = "publishing"
    /\ s \in todo[r]
    /\ \/ /\ Len(queue[s]) < Capacity
          /\ queue' = [queue EXCEPT ![s] = Append(@, r)]
          /\ todo' = [todo EXCEPT ![r] = @ \ {s}]
          /\ UNCHANGED dropped
       \/ /\ Len(queue[s]) >= Capacity
          /\ dropped' = [dropped EXCEPT ![s] = @ \cup {r}]
          /\ todo' = [todo EXCEPT ![r] = {}]
          /\ UNCHANGED queue
    /\ UNCHANGED <<request, stream, clients, writer, subscribers, closed,
                   taken, audience>>

\* Mutant: the send blocks until the channel has room.
SendBlocking(r, s) ==
    /\ request[r] = "publishing"
    /\ s \in todo[r]
    /\ Len(queue[s]) < Capacity
    /\ todo' = [todo EXCEPT ![r] = @ \ {s}]
    /\ queue' = [queue EXCEPT ![s] = Append(@, r)]
    /\ UNCHANGED <<request, stream, clients, writer, subscribers, closed,
                   taken, dropped, audience>>

\* Mutant: a full channel gives up its oldest event for the new one.
SendReplacing(r, s) ==
    /\ request[r] = "publishing"
    /\ s \in todo[r]
    /\ todo' = [todo EXCEPT ![r] = @ \ {s}]
    /\ queue' = [queue EXCEPT ![s] =
                   Append(IF Len(@) < Capacity THEN @ ELSE Tail(@), r)]
    /\ UNCHANGED <<request, stream, clients, writer, subscribers, closed,
                   taken, dropped, audience>>

\* One turn of the range loop: a non-blocking send, or a drop when full.
Send(r, s) ==
    /\ request[r] = "publishing"
    /\ s \in todo[r]
    /\ todo' = [todo EXCEPT ![r] = @ \ {s}]
    /\ \/ /\ Len(queue[s]) < Capacity
          /\ queue' = [queue EXCEPT ![s] = Append(@, r)]
          /\ UNCHANGED dropped
       \/ /\ Len(queue[s]) >= Capacity
          /\ dropped' = [dropped EXCEPT ![s] = @ \cup {r}]
          /\ UNCHANGED queue
    /\ UNCHANGED <<request, stream, clients, writer, subscribers, closed,
                   taken, audience>>

\* The loop is over: the deferred RUnlock runs and Publish returns.
RUnlock(r) ==
    /\ request[r] = "publishing"
    /\ todo[r] = {}
    /\ request' = [request EXCEPT ![r] = "done"]
    /\ UNCHANGED <<todo, stream, clients, writer, subscribers, closed, queue,
                   taken, dropped, audience>>

-----------------------------------------------------------------------------
(* handleEvents *)

\* The browser opens /api/events and Subscribe is called.
Connect(s) ==
    /\ stream[s] = "new"
    /\ stream' = [stream EXCEPT ![s] = "subscribing"]
    /\ clients' = clients \cup {s}
    /\ UNCHANGED <<request, todo, writer, subscribers, closed, queue, taken,
                   dropped, audience>>

\* Lock: one writer at a time is announced, and new readers then wait.
Announce(s) ==
    /\ stream[s] \in {"subscribing", "unsubscribing"}
    /\ writer = NoStream
    /\ writer' = s
    /\ UNCHANGED <<request, todo, stream, clients, subscribers, closed, queue,
                   taken, dropped, audience>>

\* The critical section of Subscribe.
Subscribe(s) ==
    /\ stream[s] = "subscribing"
    /\ WriterEnters(s)
    /\ subscribers' = subscribers \cup {s}
    /\ stream' = [stream EXCEPT ![s] = "streaming"]
    /\ Unlock(subscribers')
    /\ UNCHANGED <<clients, closed, queue, taken, dropped>>

\* Mutant: unsubscribe takes the lock as one more reader.
UnsubscribeAsReader(s) ==
    /\ stream[s] = "unsubscribing"
    /\ writer = s
    /\ subscribers' = subscribers \ {s}
    /\ closed' = IF s \in subscribers THEN closed \cup {s} ELSE closed
    /\ stream' = [stream EXCEPT ![s] = "over"]
    /\ Unlock(subscribers')
    /\ UNCHANGED <<clients, queue, taken, dropped>>

\* The critical section of unsubscribe.
Unsubscribe(s) ==
    /\ stream[s] = "unsubscribing"
    /\ WriterEnters(s)
    /\ subscribers' = subscribers \ {s}
    /\ closed' = IF s \in subscribers THEN closed \cup {s} ELSE closed
    /\ stream' = [stream EXCEPT ![s] = "over"]
    /\ Unlock(subscribers')
    /\ UNCHANGED <<clients, queue, taken, dropped>>

\* The select takes an event from the channel.
Receive(s) ==
    /\ stream[s] = "streaming"
    /\ queue[s] # << >>
    /\ taken' = [taken EXCEPT ![s] = Append(@, Head(queue[s]))]
    /\ queue' = [queue EXCEPT ![s] = Tail(@)]
    /\ stream' = [stream EXCEPT ![s] = "writing"]
    /\ UNCHANGED <<request, todo, clients, writer, subscribers, closed,
                   dropped, audience>>

\* The write and the flush succeed.
Write(s) ==
    /\ stream[s] = "writing"
    /\ stream' = [stream EXCEPT ![s] = "streaming"]
    /\ UNCHANGED <<request, todo, clients, writer, subscribers, closed, queue,
                   taken, dropped, audience>>

\* Mutant: the handler does not watch ctx.Done().
ReturnOnWriteError(s) ==
    /\ stream[s] = "writing"
    /\ s \notin clients
    /\ stream' = [stream EXCEPT ![s] = "unsubscribing"]
    /\ UNCHANGED <<request, todo, clients, writer, subscribers, closed, queue,
                   taken, dropped, audience>>

\* The handler returns, by ctx.Done() or by a failed write.
Return(s) ==
    /\ stream[s] \in {"streaming", "writing"}
    /\ s \notin clients
    /\ stream' = [stream EXCEPT ![s] = "unsubscribing"]
    /\ UNCHANGED <<request, todo, clients, writer, subscribers, closed, queue,
                   taken, dropped, audience>>

\* The tab is closed or the connection breaks.
Disconnect(s) ==
    /\ s \in clients
    /\ clients' = clients \ {s}
    /\ UNCHANGED <<request, todo, stream, writer, subscribers, closed, queue,
                   taken, dropped, audience>>

-----------------------------------------------------------------------------
PublishStep(r) == RLock(r) \/ (\E s \in Streams : Send(r, s)) \/ RUnlock(r)

LockStep(s) == Announce(s) \/ Subscribe(s) \/ Unsubscribe(s)

\* Everything has ended; only a stopped server looks like this.
Quiescent ==
    /\ \A r \in Requests : request[r] = "done"
    /\ \A s \in Streams : stream[s] = "over"
    /\ UNCHANGED vars

Next ==
    \/ \E r \in Requests : PublishStep(r)
    \/ \E s \in Streams :
         \/ Connect(s) \/ LockStep(s) \/ Disconnect(s)
         \/ Receive(s) \/ Write(s) \/ Return(s)
    \/ Quiescent

(***************************************************************************)
(* The Go scheduler runs every runnable goroutine: a Publish call that has *)
(* begun proceeds, and so do the lock operations and a handler whose       *)
(* client is gone.  Nothing obliges a browser to read: Receive and Write   *)
(* are not fair, so a stalled tab is a behaviour of the model.             *)
(***************************************************************************)
Fairness ==
    /\ \A r \in Requests :
         WF_vars((\E s \in Streams : Send(r, s)) \/ RUnlock(r))
    /\ \A s \in Streams : WF_vars(LockStep(s)) /\ WF_vars(Return(s))

Spec == Init /\ [][Next]_vars /\ Fairness

-----------------------------------------------------------------------------
(* Properties *)

\* Every event the channel of s was sent, whether or not it was read yet.
Sent(s) == taken[s] \o queue[s]

(***************************************************************************)
(* unsubscribe closes the channel while publishers may be sending, and a   *)
(* send on a closed channel panics and kills the server.  No publisher has *)
(* a closed channel left to visit.                                         *)
(***************************************************************************)
NoSendOnClosed ==
    \A r \in Requests : request[r] = "publishing" => todo[r] \cap closed = {}

(***************************************************************************)
(* "every accepted edit produces exactly one notification to every other   *)
(* tab": a stream that was subscribed when the event was published got it  *)
(* once, or lost it to a full buffer, and one that was not got nothing.    *)
(***************************************************************************)
EveryEventAccountedFor ==
    \A r \in Requests, s \in Streams :
        LET copies == Cardinality({i \in DOMAIN Sent(s) : Sent(s)[i] = r})
            lost   == IF r \in dropped[s] THEN 1 ELSE 0
        IN  copies + lost = IF s \in audience[r] \ todo[r] THEN 1 ELSE 0

(***************************************************************************)
(* The locked, buffered broker is a broadcast: inboxes grow at their end,  *)
(* by events being published, once each, and for members only.             *)
(***************************************************************************)
PhaseOf(r) == CASE request[r] = "new"  -> "idle"
                [] request[r] = "done" -> "ended"
                [] OTHER               -> "begun"

Abstract == INSTANCE Fanout WITH
    Events  <- Requests,
    Members <- Streams,
    phase   <- [r \in Requests |-> PhaseOf(r)],
    members <- subscribers,
    inbox   <- [s \in Streams |-> Sent(s)]

ImplementsFanout == Abstract!Spec

\* A stalled tab never stalls the server: a Publish call that began returns.
PublishCompletes ==
    \A r \in Requests :
        request[r] \in {"blocked", "publishing"} ~> request[r] = "done"

\* A handler whose browser is gone unsubscribes and ends: no stream leaks.
StreamsEnd ==
    \A s \in Streams :
        (stream[s] # "new" /\ s \notin clients) ~> stream[s] = "over"

=============================================================================
