------------------------------- MODULE Stream -------------------------------
(***************************************************************************)
(* The way of an event to the browser: EventBus.publish calls WSBridge,    *)
(* which publishes to WSBroker, which puts the message in the queue of     *)
(* every subscribed client; the WebSocket and SSE endpoints take messages  *)
(* out and send them.  From the event to the queues there is no await, so  *)
(* a publication is one step.                                              *)
(*                                                                         *)
(* A WebSocket endpoint is three coroutines: the endpoint itself, which    *)
(* greets the client with a snapshot and then gathers the other two; a     *)
(* receiver; and a sender.  When one of the two raises, gather ends the    *)
(* endpoint and leaves the other one running.  All of them share the event *)
(* loop with the bots, the feeds and the resolver.                         *)
(*                                                                         *)
(* A client is one connection: ids are never used again.                   *)
(***************************************************************************)
EXTENDS Integers, Sequences, FiniteSets

CONSTANTS
  Sockets,      \* WebSocket connections
  Listeners,    \* SSE connections
  NoOne,        \* nobody holds the event loop
  Channels,     \* CHANNELS
  MaxQueue,     \* MAX_QUEUE
  MaxMessages   \* bound: how many messages a behaviour publishes

Clients == Sockets \cup Listeners

ASSUME StreamAssumption ==
  /\ Sockets \cap Listeners = {} /\ NoOne \notin Clients
  /\ MaxQueue \in Nat \ {0} /\ MaxMessages \in Nat

VARIABLES
  count,    \* how many messages have been published; messages are numbered
  latest,   \* _snapshot: the last message of each channel, or 0
  known,    \* the keys of _clients and _queues
  client,   \* client[c]: the connection's coroutines, queue and history
  hog       \* the client whose sender spins without ever awaiting, or NoOne

vars == <<count, latest, known, client, hog>>

Conns   == {"new", "request", "greet", "live", "over"}
Senders == {"off", "wait", "send", "spin"}

(* snap is the snapshot, seen what the client has received after it, due   *)
(* (a history variable) every message put in its queue.                    *)
Client == [conn: Conns, subs: SUBSET Channels, queue: Seq(Nat),
           snap: SUBSET Nat, sender: Senders, held: Nat, seen: Seq(Nat),
           due: SUBSET Nat]

New == [conn |-> "new", subs |-> Channels, queue |-> <<>>, snap |-> {},
        sender |-> "off", held |-> 0, seen |-> <<>>, due |-> {}]

Init ==
  /\ count = 0
  /\ latest = [ch \in Channels |-> 0]
  /\ known = {}
  /\ client = [c \in Clients |-> New]
  /\ hog = NoOne

(* The endpoint of c goes on with record r.                                *)
Becomes(c, r) == client' = [client EXCEPT ![c] = r]

(* get_snapshot: the latest message of each channel that has one.          *)
Snapshot == {latest[ch] : ch \in Channels} \ {0}

-----------------------------------------------------------------------------
(* The broker                                                              *)

(* Mutated: the queue has no maximal size.                                 *)
OfferUnbounded(q, n) == Append(q, n)

(* Mutated: the new message takes the place of the oldest.                 *)
OfferInPlace(q, n) ==
  IF Len(q) < MaxQueue THEN Append(q, n) ELSE <<n>> \o Tail(q)

(* Mutated: a full queue is drained, not shortened.                        *)
OfferDraining(q, n) == IF Len(q) < MaxQueue THEN Append(q, n) ELSE <<n>>

(* put_nowait, and on QueueFull again after the oldest has been dropped.   *)
Offer(q, n) ==
  IF Len(q) < MaxQueue THEN Append(q, n) ELSE Append(Tail(q), n)

Publish(ch) ==
  LET n == count + 1 IN
  /\ hog = NoOne
  /\ count < MaxMessages
  /\ count' = n
  /\ latest' = [latest EXCEPT ![ch] = n]
  /\ client' = [c \in Clients |->
                  IF c \in known /\ ch \in client[c].subs
                  THEN [client[c] EXCEPT !.queue = Offer(@, n),
                                         !.due = @ \cup {n}]
                  ELSE client[c]]
  /\ UNCHANGED <<known, hog>>

-----------------------------------------------------------------------------
(* Connecting                                                              *)

(* The record of a client that is greeted with s: an empty snapshot is not *)
(* sent.                                                                   *)
GreetedWith(r, s) ==
  IF s = {} THEN [r EXCEPT !.conn = "live", !.sender = "wait"]
  ELSE [r EXCEPT !.conn = "greet", !.snap = s]

(* websocket_stream: from add_client to get_snapshot without an await.     *)
Connect(c) ==
  /\ hog = NoOne
  /\ client[c].conn = "new"
  /\ known' = known \cup {c}
  /\ Becomes(c, GreetedWith(client[c], Snapshot))
  /\ UNCHANGED <<count, latest, hog>>

(* sse_stream: the client is added when the response is created ...        *)
Request(c) ==
  /\ hog = NoOne
  /\ client[c].conn = "new"
  /\ known' = known \cup {c}
  /\ Becomes(c, [client[c] EXCEPT !.conn = "request"])
  /\ UNCHANGED <<count, latest, hog>>

(* ... and the snapshot is read when its generator starts to run.          *)
Start(c) ==
  /\ hog = NoOne
  /\ client[c].conn = "request"
  /\ Becomes(c, GreetedWith(client[c], Snapshot))
  /\ UNCHANGED <<count, latest, known, hog>>

(* Mutated: the snapshot is read when it has been possible to send it.     *)
GreetedLate(c) ==
  /\ hog = NoOne
  /\ client[c].conn = "greet"
  /\ Becomes(c, [client[c] EXCEPT !.conn = "live",
                                 !.sender = "wait",
                                 !.snap = Snapshot])
  /\ UNCHANGED <<count, latest, known, hog>>

Greeted(c) ==
  /\ hog = NoOne
  /\ client[c].conn = "greet"
  /\ Becomes(c, [client[c] EXCEPT !.conn = "live", !.sender = "wait"])
  /\ UNCHANGED <<count, latest, known, hog>>

(* Sending the snapshot raises before the endpoint's try, or a response is *)
(* abandoned before its generator has started: the client is not removed.  *)
GreetingFails(c) ==
  /\ hog = NoOne
  /\ client[c].conn = IF c \in Sockets THEN "greet" ELSE "request"
  /\ Becomes(c, [client[c] EXCEPT !.conn = "over"])
  /\ UNCHANGED <<count, latest, known, hog>>

-----------------------------------------------------------------------------
(* The receiver of a WebSocket                                             *)

Subscribe(c, chs) ==
  /\ hog = NoOne
  /\ client[c].conn = "live"
  /\ Becomes(c, [client[c] EXCEPT !.subs = @ \cup chs])
  /\ UNCHANGED <<count, latest, known, hog>>

Unsubscribe(c, chs) ==
  /\ hog = NoOne
  /\ client[c].conn = "live"
  /\ Becomes(c, [client[c] EXCEPT !.subs = @ \ chs])
  /\ UNCHANGED <<count, latest, known, hog>>

(* The client disconnects, or sends what the receiver cannot handle: the   *)
(* endpoint removes the client and returns.  The sender is not cancelled.  *)
ReceiverEnds(c) ==
  /\ hog = NoOne
  /\ client[c].conn = "live"
  /\ known' = known \ {c}
  /\ Becomes(c, [client[c] EXCEPT !.conn = "over"])
  /\ UNCHANGED <<count, latest, hog>>

-----------------------------------------------------------------------------
(* The sender: _ws_sender, or the loop in event_generator                  *)

(* get_message returns the oldest message.                                 *)
Take(c) ==
  /\ hog = NoOne
  /\ client[c].sender = "wait"
  /\ client[c].queue # <<>>
  /\ Becomes(c, [client[c] EXCEPT !.sender = "send",
                                 !.held = Head(client[c].queue),
                                 !.queue = Tail(@)])
  /\ UNCHANGED <<count, latest, known, hog>>

Sent(c) ==
  /\ hog = NoOne
  /\ client[c].conn = "live"
  /\ client[c].sender = "send"
  /\ Becomes(c, [client[c] EXCEPT !.sender = "wait",
                                 !.seen = Append(@, client[c].held)])
  /\ UNCHANGED <<count, latest, known, hog>>

(* Sending a message raises, as it does on a closed socket, or sending a   *)
(* heartbeat, which may be due after any get_message: the sender is over,  *)
(* and with it the endpoint if it is not already.  A heartbeat that is     *)
(* sent changes nothing.                                                   *)
SenderFails(c) ==
  /\ hog = NoOne
  /\ client[c].sender \in {"wait", "send"}
  /\ known' = known \ {c}
  /\ Becomes(c, [client[c] EXCEPT !.conn = "over", !.sender = "off"])
  /\ UNCHANGED <<count, latest, hog>>

(* The client has been removed: when the sender's get_message has timed    *)
(* out, or the send in flight has still succeeded, the next get_message    *)
(* finds no queue and returns without suspending, and so does every call   *)
(* the loop makes after it.                                                *)
Spin(c) ==
  /\ hog = NoOne
  /\ c \notin known
  /\ \/ client[c].sender = "wait" /\ client[c].queue = <<>>
     \/ client[c].sender = "send"
  /\ hog' = c
  /\ Becomes(c, [client[c] EXCEPT !.sender = "spin"])
  /\ UNCHANGED <<count, latest, known>>

(* Mutated: heartbeats are sent along with messages only.                  *)
SpinEndOnMessage(c) ==
  /\ client[c].sender = "spin"
  /\ client[c].queue # <<>>
  /\ hog' = NoOne
  /\ Becomes(c, [client[c] EXCEPT !.sender = "off"])
  /\ UNCHANGED <<count, latest, known>>

(* Until HEARTBEAT_INTERVAL has passed: the heartbeat is sent to the       *)
(* closed socket and raises.                                               *)
SpinEnd(c) ==
  /\ client[c].sender = "spin"
  /\ hog' = NoOne
  /\ Becomes(c, [client[c] EXCEPT !.sender = "off"])
  /\ UNCHANGED <<count, latest, known>>

(* An SSE response ends, and its generator's finally removes the client.   *)
ListenerEnds(c) ==
  /\ hog = NoOne
  /\ client[c].conn \in {"greet", "live"}
  /\ known' = known \ {c}
  /\ Becomes(c, [client[c] EXCEPT !.conn = "over", !.sender = "off"])
  /\ UNCHANGED <<count, latest, hog>>

-----------------------------------------------------------------------------
Sending(c) ==
  \/ Take(c) \/ Sent(c)
  \/ c \in Sockets /\ (SenderFails(c) \/ Spin(c) \/ SpinEnd(c))

Next ==
  \/ \E ch \in Channels : Publish(ch)
  \/ \E c \in Sockets :
       \/ Connect(c) \/ ReceiverEnds(c)
       \/ \E chs \in SUBSET Channels : Subscribe(c, chs) \/ Unsubscribe(c, chs)
  \/ \E c \in Listeners : Request(c) \/ Start(c) \/ ListenerEnds(c)
  \/ \E c \in Clients : Greeted(c) \/ GreetingFails(c) \/ Sending(c)

Spec == Init /\ [][Next]_vars

(* asyncio runs every coroutine that is ready, get_message times out after *)
(* a second and HEARTBEAT_INTERVAL passes.                                 *)
Fairness == \A c \in Clients : WF_vars(Sending(c))

FairSpec == Spec /\ Fairness

-----------------------------------------------------------------------------
(* Properties                                                              *)

(* Every field has its type, no queue is longer than MAX_QUEUE, also that  *)
(* of a client nobody reads for, and the loop is held by a spinning sender.*)
TypeOK ==
  /\ count \in 0 .. MaxMessages
  /\ latest \in [Channels -> 0 .. count]
  /\ known \subseteq Clients
  /\ client \in [Clients -> Client]
  /\ \A c \in Clients : /\ Len(client[c].queue) <= MaxQueue
                        /\ client[c].sender = "spin" <=> hog = c
  /\ hog \in Clients \cup {NoOne}

(* What has been, is being and will be sent to c after its snapshot.       *)
Line(c) ==
  client[c].seen
    \o (IF client[c].sender = "send" THEN <<client[c].held>> ELSE <<>>)
    \o client[c].queue

Increasing(s) == \A i, j \in DOMAIN s : i < j => s[i] < s[j]

(* A client gets messages in the order of their publication, each at most  *)
(* once, although full queues are shortened at one end while the sender    *)
(* works at it.                                                            *)
InOrder == \A c \in Clients : LET line == Line(c) IN Increasing(line)

(* Nothing follows the snapshot of a WebSocket that is older than it: the  *)
(* queue exists when the snapshot is read, and is empty then.              *)
StreamAfterSnapshot ==
  \A c \in Sockets :
    LET line == Line(c)
    IN  \A m \in client[c].snap, i \in DOMAIN line : m < line[i]

(* As long as a client is connected, a message put in its queue is only    *)
(* ever lost to MAX_QUEUE newer ones.                                      *)
OnlyOverflowLoses ==
  \A c \in known :
    LET line == Line(c)
    IN  \A m \in client[c].due :
          \/ \E i \in DOMAIN line : line[i] = m
          \/ Cardinality({d \in client[c].due : d > m}) >= MaxQueue

(* The sender that gather leaves behind ends: the heartbeat brings it down.*)
ZombiesEnd ==
  \A c \in Sockets : client[c].conn = "over" ~> client[c].sender = "off"
=============================================================================
