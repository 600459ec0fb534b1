---------------------------- MODULE StreamProofs ----------------------------
(***************************************************************************)
(* Type correctness of the stream, that every client sees a line of        *)
(* messages in the order of their publication, all newer than its          *)
(* snapshot, and that only a full queue loses a message.  The inductive    *)
(* invariant takes the line apart into what has been received, what is     *)
(* being sent and what is queued, because every action moves a message     *)
(* from one part to the next or shortens the last.                         *)
(***************************************************************************)
EXTENDS Stream, FiniteSetTheorems, TLAPS

-----------------------------------------------------------------------------
(* Queues and lines                                                        *)

(* A queue that is offered a message newer than all in it stays in order,  *)
(* and holds no message it did not hold before but the new one.            *)
LEMMA OfferAppends ==
  ASSUME NEW q \in Seq(Nat), NEW n \in Nat, MaxQueue \in Nat \ {0},
         Increasing(q), \A j \in DOMAIN q : q[j] <= n
  PROVE  /\ Offer(q, n + 1) \in Seq(Nat)
         /\ Increasing(Offer(q, n + 1))
         /\ \A j \in DOMAIN Offer(q, n + 1) :
              \/ Offer(q, n + 1)[j] = n + 1
              \/ \E k \in DOMAIN q : Offer(q, n + 1)[j] = q[k]
<1>1. CASE Len(q) < MaxQueue
  <2>1. Offer(q, n + 1) = Append(q, n + 1)
    BY <1>1 DEF Offer
  <2>2. /\ Append(q, n + 1) \in Seq(Nat)
        /\ DOMAIN Append(q, n + 1) = 1 .. Len(q) + 1 /\ Len(q) \in Nat
        /\ \A j \in 1 .. Len(q) : Append(q, n + 1)[j] = q[j] /\ j \in DOMAIN q
        /\ Append(q, n + 1)[Len(q) + 1] = n + 1
    OBVIOUS
  <2>3. \A j \in 1 .. Len(q) : q[j] \in Nat /\ q[j] < n + 1
    BY <2>2
  <2>4. Increasing(Append(q, n + 1))
    BY <2>2, <2>3 DEF Increasing
  <2>5. \A j \in DOMAIN Append(q, n + 1) :
          \/ Append(q, n + 1)[j] = n + 1
          \/ \E k \in DOMAIN q : Append(q, n + 1)[j] = q[k]
    BY <2>2
  <2> QED BY <2>1, <2>2, <2>4, <2>5
<1>2. CASE ~(Len(q) < MaxQueue)
  <2>1. /\ Offer(q, n + 1) = Append(Tail(q), n + 1)
        /\ Len(q) \in Nat \ {0}
    BY <1>2 DEF Offer
  <2>2. /\ Tail(q) \in Seq(Nat) /\ Len(Tail(q)) = Len(q) - 1
        /\ \A j \in 1 .. Len(q) - 1 : Tail(q)[j] = q[j + 1] /\ j + 1 \in DOMAIN q
    BY <2>1
  <2> DEFINE p == Append(Tail(q), n + 1)
  <2>3. /\ p \in Seq(Nat) /\ DOMAIN p = 1 .. Len(q)
        /\ p[Len(q)] = n + 1
        /\ \A j \in 1 .. Len(q) - 1 : p[j] = q[j + 1]
    BY <2>1, <2>2
  <2>4. /\ \A j \in 1 .. Len(q) - 1 : j + 1 \in DOMAIN q
        /\ \A j \in DOMAIN q : q[j] \in Nat /\ q[j] < n + 1
        /\ \A j \in 1 .. Len(q) : j = Len(q) \/ j \in 1 .. Len(q) - 1
    BY <2>1
  <2>5. Increasing(p)
    <3> SUFFICES ASSUME NEW i \in 1 .. Len(q), NEW j \in 1 .. Len(q), i < j
                 PROVE  p[i] < p[j]
      BY <2>3 DEF Increasing
    <3>1. i \in 1 .. Len(q) - 1 /\ i + 1 < j + 1
      BY <2>1
    <3>2. CASE j = Len(q)
      BY <2>3, <2>4, <3>1, <3>2
    <3>3. CASE j \in 1 .. Len(q) - 1
      BY <2>3, <2>4, <3>1, <3>3 DEF Increasing
    <3> QED BY <2>4, <3>2, <3>3
  <2>6. \A j \in DOMAIN p : p[j] = n + 1 \/ \E k \in DOMAIN q : p[j] = q[k]
    BY <2>3, <2>4
  <2> HIDE DEF p
  <2>7. p = Offer(q, n + 1)
    BY <2>1 DEF p
  <2> QED BY <2>3, <2>5, <2>6, <2>7
<1> QED BY <1>1, <1>2

LEMMA OfferFits ==
  ASSUME NEW q \in Seq(Nat), NEW n \in Nat, MaxQueue \in Nat \ {0},
         Len(q) <= MaxQueue
  PROVE  Offer(q, n) \in Seq(Nat) /\ Len(Offer(q, n)) <= MaxQueue
  BY DEF Offer

(* Two increasing sequences make one if the first ends before the second.  *)
LEMMA IncreasingJoin ==
  ASSUME NEW s \in Seq(Nat), NEW t \in Seq(Nat), Increasing(s), Increasing(t),
         \A i \in DOMAIN s, j \in DOMAIN t : s[i] < t[j]
  PROVE  /\ s \o t \in Seq(Nat) /\ Increasing(s \o t)
         /\ \A k \in DOMAIN (s \o t) :
              \/ \E i \in DOMAIN s : (s \o t)[k] = s[i]
              \/ \E j \in DOMAIN t : (s \o t)[k] = t[j]
<1>1. /\ s \o t \in Seq(Nat) /\ DOMAIN (s \o t) = 1 .. Len(s) + Len(t)
      /\ \A k \in 1 .. Len(s) : (s \o t)[k] = s[k] /\ k \in DOMAIN s
      /\ \A k \in Len(s) + 1 .. Len(s) + Len(t) :
           (s \o t)[k] = t[k - Len(s)] /\ k - Len(s) \in DOMAIN t
  OBVIOUS
<1>2. \A k \in DOMAIN (s \o t) :
        k \in 1 .. Len(s) \/ k \in Len(s) + 1 .. Len(s) + Len(t)
  BY <1>1
<1>3. ASSUME NEW i \in DOMAIN (s \o t), NEW j \in DOMAIN (s \o t), i < j
      PROVE  (s \o t)[i] < (s \o t)[j]
  <2>1. CASE i \in 1 .. Len(s) /\ j \in 1 .. Len(s)
    BY <1>1, <1>3, <2>1 DEF Increasing
  <2>2. CASE i \in 1 .. Len(s) /\ j \in Len(s) + 1 .. Len(s) + Len(t)
    BY <1>1, <2>2
  <2>3. CASE /\ i \in Len(s) + 1 .. Len(s) + Len(t)
             /\ j \in Len(s) + 1 .. Len(s) + Len(t)
    <3>1. i - Len(s) < j - Len(s)
      BY <1>3, <2>3
    <3> QED BY <1>1, <2>3, <3>1 DEF Increasing
  <2>4. ~(i \in Len(s) + 1 .. Len(s) + Len(t) /\ j \in 1 .. Len(s))
    BY <1>3
  <2> QED BY <1>2, <2>1, <2>2, <2>3, <2>4
<1> QED BY <1>1, <1>2, <1>3 DEF Increasing

-----------------------------------------------------------------------------
(* Types                                                                   *)

LEMMA SnapshotTyped ==
  ASSUME TypeOK, StreamAssumption
  PROVE  Snapshot \in SUBSET Nat /\ \A m \in Snapshot : m <= count
  BY DEF TypeOK, Snapshot, StreamAssumption

LEMMA GreetedTyped ==
  ASSUME NEW r \in Client, NEW s \in SUBSET Nat
  PROVE  /\ GreetedWith(r, s) \in Client
         /\ GreetedWith(r, s).queue = r.queue
         /\ GreetedWith(r, s).seen = r.seen
         /\ GreetedWith(r, s).sender \in {"wait", r.sender}
         /\ GreetedWith(r, s).snap \in {r.snap, s}
         /\ GreetedWith(r, s).conn # "new"
  BY DEF GreetedWith, Client, Conns, Senders

(* A step of the endpoint of one client, which may take the loop or give   *)
(* it back, keeps the types if the client's new record is right.           *)
LEMMA OneClientTyped ==
  ASSUME TypeOK, NEW c \in Clients, NEW r \in Client, Becomes(c, r),
         Len(r.queue) <= MaxQueue, r.sender = "spin" <=> hog' = c,
         hog' \in {hog, c, NoOne}, hog \in {c, NoOne} \/ hog' = hog,
         NoOne \notin Clients, known' \subseteq Clients,
         UNCHANGED <<count, latest>>
  PROVE  TypeOK'
<1>1. client' \in [Clients -> Client] /\ hog' \in Clients \cup {NoOne}
  BY DEF TypeOK, Becomes
<1>2. ASSUME NEW d \in Clients
      PROVE  /\ Len(client'[d].queue) <= MaxQueue
             /\ client'[d].sender = "spin" <=> hog' = d
  <2>1. CASE d = c
    BY <2>1 DEF TypeOK, Becomes
  <2>2. CASE d # c
    <3>1. client'[d] = client[d]
      BY <2>2 DEF TypeOK, Becomes
    <3> QED BY <2>2, <3>1 DEF TypeOK
  <2> QED BY <2>1, <2>2
<1> QED BY <1>1, <1>2 DEF TypeOK

LEMMA TypedInit == StreamAssumption /\ Init => TypeOK
  BY DEF StreamAssumption, Init, TypeOK, New, Client, Clients, Conns, Senders

LEMMA TypedStep ==
  ASSUME StreamAssumption, TypeOK, [Next]_vars
  PROVE  TypeOK'
<1> USE DEF StreamAssumption
<1>0. /\ client \in [Clients -> Client] /\ count \in Nat
      /\ \A c \in Clients : /\ client[c] \in Client
                            /\ Len(client[c].queue) <= MaxQueue
                            /\ client[c].sender = "spin" <=> hog = c
      /\ \A c \in Sockets \cup Listeners : c \in Clients /\ c # NoOne
  BY DEF TypeOK, Clients
<1>1. ASSUME NEW ch \in Channels, Publish(ch) PROVE TypeOK'
  <2>1. ASSUME NEW c \in Clients
        PROVE  /\ client'[c] \in Client
               /\ Len(client'[c].queue) <= MaxQueue
               /\ client'[c].sender = client[c].sender
    <3>1. /\ Offer(client[c].queue, count + 1) \in Seq(Nat)
          /\ Len(Offer(client[c].queue, count + 1)) <= MaxQueue
      BY <1>0, OfferFits DEF Client
    <3>2. client'[c] = IF c \in known /\ ch \in client[c].subs
                       THEN [client[c] EXCEPT
                               !.queue = Offer(client[c].queue, count + 1),
                               !.due = @ \cup {count + 1}]
                       ELSE client[c]
      BY <1>1 DEF Publish
    <3>3. CASE c \in known /\ ch \in client[c].subs
      <4>1. count + 1 \in Nat /\ client[c].due \cup {count + 1} \in SUBSET Nat
        BY <1>0 DEF Client
      <4> QED BY <1>0, <3>1, <3>2, <3>3, <4>1 DEF Client
    <3>4. CASE ~(c \in known /\ ch \in client[c].subs)
      BY <1>0, <3>2, <3>4
    <3> QED BY <3>3, <3>4
  <2>2. count' \in 0 .. MaxMessages /\ latest' \in [Channels -> 0 .. count']
    <3>1. count' = count + 1 /\ latest' = [latest EXCEPT ![ch] = count + 1]
      BY <1>1 DEF Publish
    <3>0. count < MaxMessages /\ MaxMessages \in Nat
      BY <1>1 DEF Publish
    <3>2. count + 1 \in 0 .. MaxMessages /\ latest \in [Channels -> 0 .. count]
      BY <1>0, <3>0 DEF TypeOK
    <3>3. 0 .. count \subseteq 0 .. count + 1 /\ count + 1 \in 0 .. count + 1
      BY <1>0
    <3>4. latest \in [Channels -> 0 .. count + 1]
      BY <3>2, <3>3
    <3>5. latest' \in [Channels -> 0 .. count + 1]
      BY <3>1, <3>3, <3>4
    <3> QED BY <3>1, <3>2, <3>5
  <2>3. client' \in [Clients -> Client]
    BY <1>1, <2>1 DEF Publish
  <2> QED BY <1>0, <1>1, <2>1, <2>2, <2>3 DEF Publish, TypeOK
<1>2. ASSUME NEW c \in Sockets, Connect(c)
      PROVE  TypeOK'
  <2> DEFINE r == GreetedWith(client[c], Snapshot)
  <2>1. /\ client[c].sender # "spin" /\ hog = NoOne /\ hog' = hog
        /\ Becomes(c, r) /\ known' \subseteq Clients
        /\ UNCHANGED <<count, latest>>
    BY <1>0, <1>2 DEF Connect, TypeOK
  <2>2. /\ r \in Client /\ r.queue = client[c].queue
        /\ r.sender \in {"wait", client[c].sender}
    BY <1>0, SnapshotTyped, GreetedTyped
  <2> HIDE DEF r
  <2> QED BY <1>0, <2>1, <2>2, OneClientTyped
<1>3. ASSUME NEW c \in Listeners, Request(c)
      PROVE  TypeOK'
  <2> DEFINE r == [client[c] EXCEPT !.conn = "request"]
  <2>1. r \in Client /\ Len(r.queue) <= MaxQueue
    BY ZenonT(40), <1>0, <1>3 DEF Request, Client, Conns, Senders
  <2>2. /\ Becomes(c, r) /\ (r.sender = "spin" <=> hog' = c)
        /\ hog' \in {hog, c, NoOne} /\ (hog \in {c, NoOne} \/ hog' = hog)
        /\ known' \subseteq Clients /\ UNCHANGED <<count, latest>>
    BY <1>0, <1>3 DEF Request, TypeOK, Client
  <2> HIDE DEF r
  <2> QED BY <1>0, <2>1, <2>2, OneClientTyped
<1>4. ASSUME NEW c \in Listeners, Start(c)
      PROVE  TypeOK'
  <2> DEFINE r == GreetedWith(client[c], Snapshot)
  <2>1. /\ client[c].sender # "spin" /\ hog = NoOne /\ hog' = hog
        /\ Becomes(c, r) /\ known' \subseteq Clients
        /\ UNCHANGED <<count, latest>>
    BY <1>0, <1>4 DEF Start, TypeOK
  <2>2. /\ r \in Client /\ r.queue = client[c].queue
        /\ r.sender \in {"wait", client[c].sender}
    BY <1>0, SnapshotTyped, GreetedTyped
  <2> HIDE DEF r
  <2> QED BY <1>0, <2>1, <2>2, OneClientTyped
<1>5. ASSUME NEW c \in Clients, Greeted(c)
      PROVE  TypeOK'
  <2> DEFINE r == [client[c] EXCEPT !.conn = "live", !.sender = "wait"]
  <2>1. r \in Client /\ Len(r.queue) <= MaxQueue
    BY ZenonT(40), <1>0, <1>5 DEF Greeted, Client, Conns, Senders
  <2>2. /\ Becomes(c, r) /\ (r.sender = "spin" <=> hog' = c)
        /\ hog' \in {hog, c, NoOne} /\ (hog \in {c, NoOne} \/ hog' = hog)
        /\ known' \subseteq Clients /\ UNCHANGED <<count, latest>>
    BY <1>0, <1>5 DEF Greeted, TypeOK, Client
  <2> HIDE DEF r
  <2> QED BY <1>0, <2>1, <2>2, OneClientTyped
<1>6. ASSUME NEW c \in Clients, GreetingFails(c)
      PROVE  TypeOK'
  <2> DEFINE r == [client[c] EXCEPT !.conn = "over"]
  <2>1. r \in Client /\ Len(r.queue) <= MaxQueue
    BY <1>0, <1>6 DEF GreetingFails, Client, Conns, Senders
  <2>2. /\ Becomes(c, r) /\ (r.sender = "spin" <=> hog' = c)
        /\ hog' \in {hog, c, NoOne} /\ (hog \in {c, NoOne} \/ hog' = hog)
        /\ known' \subseteq Clients /\ UNCHANGED <<count, latest>>
    BY <1>0, <1>6 DEF GreetingFails, TypeOK, Client
  <2> HIDE DEF r
  <2> QED BY <1>0, <2>1, <2>2, OneClientTyped
<1>7. ASSUME NEW c \in Sockets, NEW chs \in SUBSET Channels, Subscribe(c, chs)
      PROVE  TypeOK'
  <2> DEFINE r == [client[c] EXCEPT !.subs = @ \cup chs]
  <2>1. r \in Client /\ Len(r.queue) <= MaxQueue
    BY <1>0, <1>7 DEF Subscribe, Client, Conns, Senders
  <2>2. /\ Becomes(c, r) /\ (r.sender = "spin" <=> hog' = c)
        /\ hog' \in {hog, c, NoOne} /\ (hog \in {c, NoOne} \/ hog' = hog)
        /\ known' \subseteq Clients /\ UNCHANGED <<count, latest>>
    BY <1>0, <1>7 DEF Subscribe, TypeOK, Client
  <2> HIDE DEF r
  <2> QED BY <1>0, <2>1, <2>2, OneClientTyped
<1>8. ASSUME NEW c \in Sockets, NEW chs \in SUBSET Channels, Unsubscribe(c, chs)
      PROVE  TypeOK'
  <2> DEFINE r == [client[c] EXCEPT !.subs = @ \ chs]
  <2>1. r \in Client /\ Len(r.queue) <= MaxQueue
    BY ZenonT(40), <1>0, <1>8 DEF Unsubscribe, Client, Conns, Senders
  <2>2. /\ Becomes(c, r) /\ (r.sender = "spin" <=> hog' = c)
        /\ hog' \in {hog, c, NoOne} /\ (hog \in {c, NoOne} \/ hog' = hog)
        /\ known' \subseteq Clients /\ UNCHANGED <<count, latest>>
    BY <1>0, <1>8 DEF Unsubscribe, TypeOK, Client
  <2> HIDE DEF r
  <2> QED BY <1>0, <2>1, <2>2, OneClientTyped
<1>9. ASSUME NEW c \in Sockets, ReceiverEnds(c)
      PROVE  TypeOK'
  <2> DEFINE r == [client[c] EXCEPT !.conn = "over"]
  <2>1. r \in Client /\ Len(r.queue) <= MaxQueue
    BY <1>0, <1>9 DEF ReceiverEnds, Client, Conns, Senders
  <2>2. /\ Becomes(c, r) /\ (r.sender = "spin" <=> hog' = c)
        /\ hog' \in {hog, c, NoOne} /\ (hog \in {c, NoOne} \/ hog' = hog)
        /\ known' \subseteq Clients /\ UNCHANGED <<count, latest>>
    BY <1>0, <1>9 DEF ReceiverEnds, TypeOK, Client
  <2> HIDE DEF r
  <2> QED BY <1>0, <2>1, <2>2, OneClientTyped
<1>10. ASSUME NEW c \in Listeners, ListenerEnds(c)
      PROVE  TypeOK'
  <2> DEFINE r == [client[c] EXCEPT !.conn = "over", !.sender = "off"]
  <2>1. r \in Client /\ Len(r.queue) <= MaxQueue
    BY ZenonT(40), <1>0, <1>10 DEF ListenerEnds, Client, Conns, Senders
  <2>2. /\ Becomes(c, r) /\ (r.sender = "spin" <=> hog' = c)
        /\ hog' \in {hog, c, NoOne} /\ (hog \in {c, NoOne} \/ hog' = hog)
        /\ known' \subseteq Clients /\ UNCHANGED <<count, latest>>
    BY <1>0, <1>10 DEF ListenerEnds, TypeOK, Client
  <2> HIDE DEF r
  <2> QED BY <1>0, <2>1, <2>2, OneClientTyped
<1>11. ASSUME NEW c \in Clients, Take(c)
      PROVE  TypeOK'
  <2> DEFINE r == [client[c] EXCEPT !.sender = "send",
                                   !.held = Head(client[c].queue),
                                   !.queue = Tail(@)]
  <2>0. /\ Tail(client[c].queue) \in Seq(Nat) /\ Head(client[c].queue) \in Nat
        /\ Len(Tail(client[c].queue)) <= MaxQueue
    BY <1>0, <1>11 DEF Take, Client
  <2>1. r \in Client /\ Len(r.queue) <= MaxQueue
    BY <1>0, <1>11, <2>0 DEF Take, Client, Conns, Senders
  <2>2. /\ Becomes(c, r) /\ (r.sender = "spin" <=> hog' = c)
        /\ hog' \in {hog, c, NoOne} /\ (hog \in {c, NoOne} \/ hog' = hog)
        /\ known' \subseteq Clients /\ UNCHANGED <<count, latest>>
    BY <1>0, <1>11, <2>0 DEF Take, TypeOK, Client
  <2> HIDE DEF r
  <2> QED BY <1>0, <2>1, <2>2, OneClientTyped
<1>12. ASSUME NEW c \in Clients, Sent(c)
      PROVE  TypeOK'
  <2> DEFINE r == [client[c] EXCEPT !.sender = "wait",
                                   !.seen = Append(@, client[c].held)]
  <2>0. Append(client[c].seen, client[c].held) \in Seq(Nat)
    BY <1>0 DEF Client
  <2>1. r \in Client /\ Len(r.queue) <= MaxQueue
    BY <1>0, <1>12, <2>0 DEF Sent, Client, Conns, Senders
  <2>2. /\ Becomes(c, r) /\ (r.sender = "spin" <=> hog' = c)
        /\ hog' \in {hog, c, NoOne} /\ (hog \in {c, NoOne} \/ hog' = hog)
        /\ known' \subseteq Clients /\ UNCHANGED <<count, latest>>
    BY <1>0, <1>12, <2>0 DEF Sent, TypeOK, Client
  <2> HIDE DEF r
  <2> QED BY <1>0, <2>1, <2>2, OneClientTyped
<1>13. ASSUME NEW c \in Clients, SenderFails(c)
      PROVE  TypeOK'
  <2> DEFINE r == [client[c] EXCEPT !.conn = "over", !.sender = "off"]
  <2>1. r \in Client /\ Len(r.queue) <= MaxQueue
    BY <1>0, <1>13 DEF SenderFails, Client, Conns, Senders
  <2>2. /\ Becomes(c, r) /\ (r.sender = "spin" <=> hog' = c)
        /\ hog' \in {hog, c, NoOne} /\ (hog \in {c, NoOne} \/ hog' = hog)
        /\ known' \subseteq Clients /\ UNCHANGED <<count, latest>>
    BY <1>0, <1>13 DEF SenderFails, TypeOK, Client
  <2> HIDE DEF r
  <2> QED BY <1>0, <2>1, <2>2, OneClientTyped
<1>14. ASSUME NEW c \in Clients, Spin(c)
      PROVE  TypeOK'
  <2> DEFINE r == [client[c] EXCEPT !.sender = "spin"]
  <2>1. r \in Client /\ Len(r.queue) <= MaxQueue
    BY <1>0, <1>14 DEF Spin, Client, Conns, Senders
  <2>2. /\ Becomes(c, r) /\ (r.sender = "spin" <=> hog' = c)
        /\ hog' \in {hog, c, NoOne} /\ (hog \in {c, NoOne} \/ hog' = hog)
        /\ known' \subseteq Clients /\ UNCHANGED <<count, latest>>
    BY <1>0, <1>14 DEF Spin, TypeOK, Client
  <2> HIDE DEF r
  <2> QED BY <1>0, <2>1, <2>2, OneClientTyped
<1>15. ASSUME NEW c \in Clients, SpinEnd(c)
      PROVE  TypeOK'
  <2> DEFINE r == [client[c] EXCEPT !.sender = "off"]
  <2>1. r \in Client /\ Len(r.queue) <= MaxQueue
    BY <1>0, <1>15 DEF SpinEnd, Client, Conns, Senders
  <2>2. /\ Becomes(c, r) /\ (r.sender = "spin" <=> hog' = c)
        /\ hog' \in {hog, c, NoOne} /\ (hog \in {c, NoOne} \/ hog' = hog)
        /\ known' \subseteq Clients /\ UNCHANGED <<count, latest>>
    BY <1>0, <1>15 DEF SpinEnd, TypeOK, Client
  <2> HIDE DEF r
  <2> QED BY <1>0, <2>1, <2>2, OneClientTyped
<1>16. CASE UNCHANGED vars
  BY <1>16 DEF vars, TypeOK
<1> QED
  BY <1>1, <1>2, <1>3, <1>4, <1>5, <1>6, <1>7, <1>8, <1>9, <1>10, <1>11, <1>12,
     <1>13, <1>14, <1>15, <1>16 DEF Next, Sending, Clients

(* Type correctness of broker and endpoints, with queues that never exceed *)
(* MAX_QUEUE, for any number of clients, channels and messages.            *)
THEOREM StreamTyped == Spec => []TypeOK
<1>1. StreamAssumption
  BY StreamAssumption
<1> QED BY <1>1, TypedInit, TypedStep, PTL DEF Spec

-----------------------------------------------------------------------------
(* Order                                                                   *)

(* What r has received, has in hand and has queued increases along the     *)
(* line and is at most n; the parts of the line are apart.                 *)
Ordered(r, n) ==
  /\ Increasing(r.seen) /\ Increasing(r.queue)
  /\ \A i \in DOMAIN r.seen : r.seen[i] <= n
  /\ \A j \in DOMAIN r.queue : r.queue[j] <= n
  /\ \A i \in DOMAIN r.seen, j \in DOMAIN r.queue : r.seen[i] < r.queue[j]
  /\ r.sender = "send" =>
       /\ r.held <= n
       /\ \A i \in DOMAIN r.seen : r.seen[i] < r.held
       /\ \A j \in DOMAIN r.queue : r.held < r.queue[j]

(* All of r's line is newer than its snapshot, which is not newer than n.  *)
Fresh(r, n) ==
  \A m \in r.snap :
    /\ m <= n
    /\ \A i \in DOMAIN r.seen : m < r.seen[i]
    /\ \A j \in DOMAIN r.queue : m < r.queue[j]
    /\ r.sender = "send" => m < r.held

(* Nothing has happened to a client that has not connected.                *)
Untouched(c) ==
  client[c].conn = "new" =>
    /\ client[c].queue = <<>> /\ client[c].seen = <<>>
    /\ client[c].sender = "off" /\ c \notin known

LineInv ==
  /\ \A c \in Clients : Ordered(client[c], count) /\ Untouched(c)
  /\ \A c \in Sockets : Fresh(client[c], count)

(* The parts of an ordered record join to an increasing line ...           *)
LEMMA OrderedLine ==
  ASSUME NEW c \in Clients, NEW n \in Nat, client[c] \in Client,
         Ordered(client[c], n)
  PROVE  /\ Increasing(Line(c))
         /\ \A k \in DOMAIN Line(c) :
              \/ \E i \in DOMAIN client[c].seen : Line(c)[k] = client[c].seen[i]
              \/ client[c].sender = "send" /\ Line(c)[k] = client[c].held
              \/ \E j \in DOMAIN client[c].queue : Line(c)[k] = client[c].queue[j]
<1> DEFINE r == client[c]
           h == IF r.sender = "send" THEN <<r.held>> ELSE <<>>
<1>1. r.seen \in Seq(Nat) /\ r.queue \in Seq(Nat) /\ r.held \in Nat
  BY DEF Client
<1>2. /\ h \in Seq(Nat) /\ Increasing(h)
      /\ \A i \in DOMAIN h : r.sender = "send" /\ h[i] = r.held
  <2>1. CASE r.sender = "send"
    <3>1. h = <<r.held>>
      BY <2>1
    <3> QED BY <1>1, <2>1, <3>1 DEF Increasing
  <2>2. CASE r.sender # "send"
    <3>1. h = <<>>
      BY <2>2
    <3> QED BY <3>1 DEF Increasing
  <2> QED BY <2>1, <2>2
<1>3. /\ Increasing(r.seen) /\ Increasing(r.queue)
      /\ \A i \in DOMAIN r.seen, j \in DOMAIN h : r.seen[i] < h[j]
      /\ \A i \in DOMAIN h, j \in DOMAIN r.queue : h[i] < r.queue[j]
      /\ \A i \in DOMAIN r.seen, j \in DOMAIN r.queue : r.seen[i] < r.queue[j]
  BY <1>2 DEF Ordered
<1>4. Line(c) = (r.seen \o h) \o r.queue
  BY DEF Line
<1> HIDE DEF r, h
<1>5. /\ r.seen \o h \in Seq(Nat) /\ Increasing(r.seen \o h)
      /\ \A k \in DOMAIN (r.seen \o h) :
           \/ \E i \in DOMAIN r.seen : (r.seen \o h)[k] = r.seen[i]
           \/ \E j \in DOMAIN h : (r.seen \o h)[k] = h[j]
  BY <1>1, <1>2, <1>3, IncreasingJoin
<1>6. \A k \in DOMAIN (r.seen \o h), j \in DOMAIN r.queue :
        (r.seen \o h)[k] < r.queue[j]
  BY <1>3, <1>5
<1> DEFINE s == r.seen \o h
<1>7. s \in Seq(Nat) /\ Increasing(s)
  BY <1>5
<1>8. \A k \in DOMAIN s, j \in DOMAIN r.queue : s[k] < r.queue[j]
  BY <1>6
<1>9. \A k \in DOMAIN s :
        \/ \E i \in DOMAIN r.seen : s[k] = r.seen[i]
        \/ r.sender = "send" /\ s[k] = r.held
  BY <1>2, <1>5
<1>10. Line(c) = s \o r.queue
  BY <1>4
<1> HIDE DEF s
<1>11. /\ Increasing(s \o r.queue)
       /\ \A k \in DOMAIN (s \o r.queue) :
            \/ \E i \in DOMAIN s : (s \o r.queue)[k] = s[i]
            \/ \E j \in DOMAIN r.queue : (s \o r.queue)[k] = r.queue[j]
  BY <1>1, <1>3, <1>7, <1>8, IncreasingJoin
<1>12. /\ Increasing(Line(c))
       /\ \A k \in DOMAIN Line(c) :
            \/ \E i \in DOMAIN r.seen : Line(c)[k] = r.seen[i]
            \/ r.sender = "send" /\ Line(c)[k] = r.held
            \/ \E j \in DOMAIN r.queue : Line(c)[k] = r.queue[j]
  BY <1>9, <1>10, <1>11
<1> QED BY <1>12 DEF r

(* A step of one client's endpoint keeps the invariant if its new record   *)
(* is in order.                                                            *)
LEMMA OneClientOrdered ==
  ASSUME TypeOK, LineInv, NEW c \in Clients, NEW r, Becomes(c, r),
         Ordered(r, count), c \in Sockets => Fresh(r, count),
         r.conn # "new",
         known' \subseteq known \cup {c}, UNCHANGED count
  PROVE  LineInv'
<1>1. \A d \in Clients : client'[d] = IF d = c THEN r ELSE client[d]
  BY DEF TypeOK, Becomes
<1>2. ASSUME NEW d \in Clients
      PROVE  Ordered(client'[d], count') /\ Untouched(d)'
  BY <1>1 DEF LineInv, Untouched
<1>3. ASSUME NEW d \in Sockets PROVE Fresh(client'[d], count')
  BY <1>1 DEF LineInv, Clients
<1> QED BY <1>2, <1>3 DEF LineInv

(* An endpoint that only changes its coroutines, subscriptions or held     *)
(* message, and is not sending, leaves its line in order.                  *)
LEMMA SameLine ==
  ASSUME NEW r, NEW s, NEW n,
         s.seen = r.seen, s.queue = r.queue, s.snap = r.snap,
         s.sender = "send" => r.sender = "send" /\ s.held = r.held
  PROVE  /\ Ordered(r, n) => Ordered(s, n)
         /\ Fresh(r, n) => Fresh(s, n)
  BY DEF Ordered, Fresh

LEMMA LineInit == StreamAssumption /\ Init => LineInv
  BY DEF Init, LineInv, Untouched, Ordered, Fresh, Increasing, New, Clients

(* A later number bounds all that an earlier one bounds.                   *)
LEMMA OrderedLater ==
  ASSUME NEW r \in Client, NEW n \in Nat
  PROVE  /\ Ordered(r, n) => Ordered(r, n + 1)
         /\ Fresh(r, n) => Fresh(r, n + 1)
  BY DEF Ordered, Fresh, Client

(* The message after n joins the end of the line.                          *)
LEMMA OfferedOrdered ==
  ASSUME NEW r \in Client, NEW n \in Nat, NEW s \in Client, StreamAssumption,
         Ordered(r, n), s.queue = Offer(r.queue, n + 1),
         s.seen = r.seen, s.snap = r.snap, s.sender = r.sender, s.held = r.held
  PROVE  /\ Ordered(s, n + 1)
         /\ Fresh(r, n) => Fresh(s, n + 1)
<1>1. /\ r.queue \in Seq(Nat) /\ r.seen \in Seq(Nat) /\ r.held \in Nat
      /\ r.snap \subseteq Nat /\ MaxQueue \in Nat \ {0}
  BY DEF Client, StreamAssumption
<1>2. /\ Increasing(s.queue)
      /\ \A j \in DOMAIN s.queue :
           s.queue[j] = n + 1 \/ \E k \in DOMAIN r.queue : s.queue[j] = r.queue[k]
  BY <1>1, OfferAppends DEF Ordered
<1>3. \A x \in Nat :
        (/\ x <= n
         /\ \A k \in DOMAIN r.queue : x < r.queue[k])
        => \A j \in DOMAIN s.queue : x < s.queue[j]
  BY <1>2
<1>4. /\ \A i \in DOMAIN r.seen : r.seen[i] \in Nat
      /\ \A k \in DOMAIN r.queue : r.queue[k] \in Nat
  BY <1>1
<1>5. \A j \in DOMAIN s.queue : s.queue[j] <= n + 1
  BY <1>2, <1>4 DEF Ordered
<1>6. \A i \in DOMAIN s.seen, j \in DOMAIN s.queue : s.seen[i] < s.queue[j]
  BY <1>3, <1>4 DEF Ordered
<1>7. s.sender = "send" => \A j \in DOMAIN s.queue : s.held < s.queue[j]
  BY <1>1, <1>3 DEF Ordered
<1>8. Ordered(s, n + 1)
  BY <1>1, <1>2, <1>4, <1>5, <1>6, <1>7 DEF Ordered
<1>9. ASSUME Fresh(r, n) PROVE Fresh(s, n + 1)
  BY <1>1, <1>3, <1>9 DEF Fresh
<1> QED BY <1>8, <1>9

(* The head of the queue is taken in hand ...                              *)
LEMMA TakenOrdered ==
  ASSUME NEW r \in Client, NEW n \in Nat, NEW s, Ordered(r, n),
         r.queue # <<>>, s.queue = Tail(r.queue), s.held = Head(r.queue),
         s.seen = r.seen, s.snap = r.snap
  PROVE  Ordered(s, n) /\ (Fresh(r, n) => Fresh(s, n))
<1>1. /\ r.queue \in Seq(Nat) /\ Len(r.queue) \in Nat \ {0}
      /\ 1 \in DOMAIN r.queue /\ s.held = r.queue[1]
      /\ DOMAIN s.queue = 1 .. Len(r.queue) - 1
  BY DEF Client
<1>2. \A j \in DOMAIN s.queue : /\ s.queue[j] = r.queue[j + 1]
                               /\ j + 1 \in DOMAIN r.queue /\ 1 < j + 1
                               /\ j \in Int
  BY <1>1
<1>3. Increasing(s.queue)
  BY <1>2 DEF Ordered, Increasing
<1>4. Ordered(s, n)
  BY <1>1, <1>2, <1>3 DEF Ordered, Increasing
<1>5. Fresh(r, n) => Fresh(s, n)
  BY <1>1, <1>2 DEF Fresh
<1> QED BY <1>4, <1>5

(* ... and joins what has been received.                                   *)
LEMMA SentOrdered ==
  ASSUME NEW r \in Client, NEW n \in Nat, NEW s, Ordered(r, n),
         r.sender = "send", s.sender = "wait",
         s.seen = Append(r.seen, r.held), s.queue = r.queue, s.snap = r.snap
  PROVE  Ordered(s, n) /\ (Fresh(r, n) => Fresh(s, n))
<1>1. /\ r.seen \in Seq(Nat) /\ r.held \in Nat /\ Len(r.seen) \in Nat
      /\ DOMAIN s.seen = 1 .. Len(r.seen) + 1
      /\ s.seen[Len(r.seen) + 1] = r.held
      /\ \A i \in 1 .. Len(r.seen) : s.seen[i] = r.seen[i] /\ i \in DOMAIN r.seen
      /\ DOMAIN r.seen = 1 .. Len(r.seen)
  BY DEF Client
<1>2. \A i \in DOMAIN s.seen : i = Len(r.seen) + 1 \/ i \in 1 .. Len(r.seen)
  BY <1>1
<1>3. \A i \in 1 .. Len(r.seen) : r.seen[i] < r.held
  BY <1>1 DEF Ordered
<1>4. Increasing(s.seen)
  BY <1>1, <1>2, <1>3 DEF Ordered, Increasing
<1>5. Ordered(s, n)
  BY <1>1, <1>2, <1>4 DEF Ordered
<1>6. Fresh(r, n) => Fresh(s, n)
  BY <1>1, <1>2 DEF Fresh
<1> QED BY <1>5, <1>6

LEMMA LineStep ==
  ASSUME StreamAssumption, TypeOK, LineInv, [Next]_vars
  PROVE  LineInv'
<1>0. /\ client \in [Clients -> Client] /\ count \in Nat /\ known \subseteq Clients
      /\ \A c \in Clients : /\ client[c] \in Client /\ Ordered(client[c], count)
                            /\ Untouched(c)
                            /\ c \in Sockets => Fresh(client[c], count)
      /\ \A c \in Sockets \cup Listeners : c \in Clients
      /\ Sockets \cap Listeners = {}
  BY DEF TypeOK, LineInv, Clients, StreamAssumption
<1>1. ASSUME NEW ch \in Channels, Publish(ch) PROVE LineInv'
  <2>1. count' = count + 1 /\ known' = known
    BY <1>1 DEF Publish
  <2>2. ASSUME NEW c \in Clients
        PROVE  /\ Ordered(client'[c], count + 1) /\ Untouched(c)'
               /\ c \in Sockets => Fresh(client'[c], count + 1)
    <3>1. client'[c] = IF c \in known /\ ch \in client[c].subs
                       THEN [client[c] EXCEPT
                               !.queue = Offer(client[c].queue, count + 1),
                               !.due = @ \cup {count + 1}]
                       ELSE client[c]
      BY <1>1 DEF Publish
    <3>2. CASE c \in known /\ ch \in client[c].subs
      <4>1. client'[c] \in Client
        BY <1>0, TypedStep DEF TypeOK
      <4>2. /\ client'[c].queue = Offer(client[c].queue, count + 1)
            /\ client'[c].seen = client[c].seen /\ client'[c].snap = client[c].snap
            /\ client'[c].sender = client[c].sender
            /\ client'[c].held = client[c].held /\ client'[c].conn = client[c].conn
        BY <1>0, <3>1, <3>2 DEF Client
      <4>3. Untouched(c)'
        BY <1>0, <3>2, <4>2 DEF Untouched
      <4> QED BY <1>0, <4>1, <4>2, <4>3, OfferedOrdered
    <3>3. CASE ~(c \in known /\ ch \in client[c].subs)
      <4>1. client'[c] = client[c]
        BY <3>1, <3>3
      <4>2. Untouched(c)'
        BY <1>0, <2>1, <4>1 DEF Untouched
      <4> QED BY <1>0, <4>1, <4>2, OrderedLater
    <3> QED BY <3>2, <3>3
  <2> QED BY <1>0, <2>1, <2>2 DEF LineInv
<1>2. ASSUME NEW c \in Sockets, Connect(c)
      PROVE  LineInv'
  <2> DEFINE r == GreetedWith(client[c], Snapshot)
  <2>1. /\ client[c].conn = "new" /\ Becomes(c, r)
        /\ known' \subseteq known \cup {c} /\ UNCHANGED count
    BY <1>2 DEF Connect
  <2>2. /\ client[c].queue = <<>> /\ client[c].seen = <<>>
        /\ client[c].sender = "off"
    BY <1>0, <2>1 DEF Untouched
  <2>3. /\ r.queue = <<>> /\ r.seen = <<>> /\ r.sender # "send" /\ r.conn # "new"
        /\ \A m \in r.snap : m <= count
    BY <1>0, <2>2, SnapshotTyped, GreetedTyped DEF Fresh
  <2> HIDE DEF r
  <2>4. Ordered(r, count) /\ Fresh(r, count)
    BY <2>3 DEF Ordered, Fresh, Increasing
  <2> QED BY <1>0, <2>1, <2>3, <2>4, OneClientOrdered
<1>3. ASSUME NEW c \in Listeners, Request(c)
      PROVE  LineInv'
  <2> DEFINE r == [client[c] EXCEPT !.conn = "request"]
  <2>1. /\ r.seen = client[c].seen /\ r.queue = client[c].queue
        /\ r.snap = client[c].snap
        /\ r.sender = "send" => /\ client[c].sender = "send"
                               /\ r.held = client[c].held
    BY <1>0 DEF Client
  <2>2. r.conn # "new"
    BY <1>0, <1>3 DEF Request, Client
  <2>3. /\ Becomes(c, r) /\ known' \subseteq known \cup {c} /\ UNCHANGED count
    BY <1>3 DEF Request
  <2> HIDE DEF r
  <2>4. Ordered(r, count) /\ (c \in Sockets => Fresh(r, count))
    BY <1>0, <2>1, SameLine
  <2> QED BY <1>0, <2>2, <2>3, <2>4, OneClientOrdered
<1>4. ASSUME NEW c \in Listeners, Start(c)
      PROVE  LineInv'
  <2> DEFINE r == GreetedWith(client[c], Snapshot)
  <2>1. /\ Becomes(c, r) /\ known' \subseteq known \cup {c} /\ UNCHANGED count
    BY <1>4 DEF Start
  <2>2. /\ r.queue = client[c].queue /\ r.seen = client[c].seen
        /\ r.sender \in {"wait", client[c].sender} /\ r.held = client[c].held
        /\ r.conn # "new"
    BY <1>0, SnapshotTyped, GreetedTyped DEF GreetedWith, Client
  <2> HIDE DEF r
  <2>3. Ordered(r, count) /\ c \notin Sockets
    BY <1>0, <2>2 DEF Ordered
  <2> QED BY <1>0, <2>1, <2>2, <2>3, OneClientOrdered
<1>5. ASSUME NEW c \in Clients, Greeted(c)
      PROVE  LineInv'
  <2> DEFINE r == [client[c] EXCEPT !.conn = "live", !.sender = "wait"]
  <2>1. /\ r.seen = client[c].seen /\ r.queue = client[c].queue
        /\ r.snap = client[c].snap
        /\ r.sender = "send" => /\ client[c].sender = "send"
                               /\ r.held = client[c].held
    BY <1>0 DEF Client
  <2>2. r.conn # "new"
    BY <1>0, <1>5 DEF Greeted, Client
  <2>3. /\ Becomes(c, r) /\ known' \subseteq known \cup {c} /\ UNCHANGED count
    BY <1>5 DEF Greeted
  <2> HIDE DEF r
  <2>4. Ordered(r, count) /\ (c \in Sockets => Fresh(r, count))
    BY <1>0, <2>1, SameLine
  <2> QED BY <1>0, <2>2, <2>3, <2>4, OneClientOrdered
<1>6. ASSUME NEW c \in Clients, GreetingFails(c)
      PROVE  LineInv'
  <2> DEFINE r == [client[c] EXCEPT !.conn = "over"]
  <2>1. /\ r.seen = client[c].seen /\ r.queue = client[c].queue
        /\ r.snap = client[c].snap
        /\ r.sender = "send" => /\ client[c].sender = "send"
                               /\ r.held = client[c].held
    BY <1>0 DEF Client
  <2>2. r.conn # "new"
    BY <1>0, <1>6 DEF GreetingFails, Client
  <2>3. /\ Becomes(c, r) /\ known' \subseteq known \cup {c} /\ UNCHANGED count
    BY <1>6 DEF GreetingFails
  <2> HIDE DEF r
  <2>4. Ordered(r, count) /\ (c \in Sockets => Fresh(r, count))
    BY <1>0, <2>1, SameLine
  <2> QED BY <1>0, <2>2, <2>3, <2>4, OneClientOrdered
<1>7. ASSUME NEW c \in Sockets, NEW chs \in SUBSET Channels, Subscribe(c, chs)
      PROVE  LineInv'
  <2> DEFINE r == [client[c] EXCEPT !.subs = @ \cup chs]
  <2>1. /\ r.seen = client[c].seen /\ r.queue = client[c].queue
        /\ r.snap = client[c].snap
        /\ r.sender = "send" => /\ client[c].sender = "send"
                               /\ r.held = client[c].held
    BY <1>0 DEF Client
  <2>2. r.conn # "new"
    BY <1>0, <1>7 DEF Subscribe, Client
  <2>3. /\ Becomes(c, r) /\ known' \subseteq known \cup {c} /\ UNCHANGED count
    BY <1>7 DEF Subscribe
  <2> HIDE DEF r
  <2>4. Ordered(r, count) /\ (c \in Sockets => Fresh(r, count))
    BY <1>0, <2>1, SameLine
  <2> QED BY <1>0, <2>2, <2>3, <2>4, OneClientOrdered
<1>8. ASSUME NEW c \in Sockets, NEW chs \in SUBSET Channels, Unsubscribe(c, chs)
      PROVE  LineInv'
  <2> DEFINE r == [client[c] EXCEPT !.subs = @ \ chs]
  <2>1. /\ r.seen = client[c].seen /\ r.queue = client[c].queue
        /\ r.snap = client[c].snap
        /\ r.sender = "send" => /\ client[c].sender = "send"
                               /\ r.held = client[c].held
    BY <1>0 DEF Client
  <2>2. r.conn # "new"
    BY <1>0, <1>8 DEF Unsubscribe, Client
  <2>3. /\ Becomes(c, r) /\ known' \subseteq known \cup {c} /\ UNCHANGED count
    BY <1>8 DEF Unsubscribe
  <2> HIDE DEF r
  <2>4. Ordered(r, count) /\ (c \in Sockets => Fresh(r, count))
    BY <1>0, <2>1, SameLine
  <2> QED BY <1>0, <2>2, <2>3, <2>4, OneClientOrdered
<1>9. ASSUME NEW c \in Sockets, ReceiverEnds(c)
      PROVE  LineInv'
  <2> DEFINE r == [client[c] EXCEPT !.conn = "over"]
  <2>1. /\ r.seen = client[c].seen /\ r.queue = client[c].queue
        /\ r.snap = client[c].snap
        /\ r.sender = "send" => /\ client[c].sender = "send"
                               /\ r.held = client[c].held
    BY <1>0 DEF Client
  <2>2. r.conn # "new"
    BY <1>0, <1>9 DEF ReceiverEnds, Client
  <2>3. /\ Becomes(c, r) /\ known' \subseteq known \cup {c} /\ UNCHANGED count
    BY <1>9 DEF ReceiverEnds
  <2> HIDE DEF r
  <2>4. Ordered(r, count) /\ (c \in Sockets => Fresh(r, count))
    BY <1>0, <2>1, SameLine
  <2> QED BY <1>0, <2>2, <2>3, <2>4, OneClientOrdered
<1>10. ASSUME NEW c \in Listeners, ListenerEnds(c)
      PROVE  LineInv'
  <2> DEFINE r == [client[c] EXCEPT !.conn = "over", !.sender = "off"]
  <2>1. /\ r.seen = client[c].seen /\ r.queue = client[c].queue
        /\ r.snap = client[c].snap
        /\ r.sender = "send" => /\ client[c].sender = "send"
                               /\ r.held = client[c].held
    BY <1>0 DEF Client
  <2>2. r.conn # "new"
    BY <1>0, <1>10 DEF ListenerEnds, Client
  <2>3. /\ Becomes(c, r) /\ known' \subseteq known \cup {c} /\ UNCHANGED count
    BY <1>10 DEF ListenerEnds
  <2> HIDE DEF r
  <2>4. Ordered(r, count) /\ (c \in Sockets => Fresh(r, count))
    BY <1>0, <2>1, SameLine
  <2> QED BY <1>0, <2>2, <2>3, <2>4, OneClientOrdered
<1>11. ASSUME NEW c \in Clients, Take(c)
      PROVE  LineInv'
  <2> DEFINE r == [client[c] EXCEPT !.sender = "send",
                                   !.held = Head(client[c].queue),
                                   !.queue = Tail(@)]
  <2>1. /\ r.queue = Tail(client[c].queue) /\ r.held = Head(client[c].queue)
        /\ r.seen = client[c].seen /\ r.snap = client[c].snap
        /\ r.conn = client[c].conn
    BY <1>0 DEF Client
  <2>2. /\ client[c].queue # <<>> /\ Becomes(c, r)
        /\ known' \subseteq known \cup {c} /\ UNCHANGED count
    BY <1>11 DEF Take
  <2>3. r.conn # "new"
    BY <1>0, <2>1, <2>2 DEF Untouched
  <2> HIDE DEF r
  <2>4. Ordered(r, count) /\ (c \in Sockets => Fresh(r, count))
    BY <1>0, <2>1, <2>2, TakenOrdered
  <2> QED BY <1>0, <2>2, <2>3, <2>4, OneClientOrdered
<1>12. ASSUME NEW c \in Clients, Sent(c)
      PROVE  LineInv'
  <2> DEFINE r == [client[c] EXCEPT !.sender = "wait",
                                   !.seen = Append(@, client[c].held)]
  <2>1. /\ r.seen = Append(client[c].seen, client[c].held)
        /\ r.queue = client[c].queue /\ r.snap = client[c].snap
        /\ r.sender = "wait" /\ r.conn = client[c].conn
    BY <1>0 DEF Client
  <2>2. /\ client[c].sender = "send" /\ client[c].conn = "live" /\ Becomes(c, r)
        /\ known' \subseteq known \cup {c} /\ UNCHANGED count
    BY <1>12 DEF Sent
  <2> HIDE DEF r
  <2>3. Ordered(r, count) /\ (c \in Sockets => Fresh(r, count))
    BY <1>0, <2>1, <2>2, SentOrdered
  <2> QED BY <1>0, <2>1, <2>2, <2>3, OneClientOrdered
<1>13. ASSUME NEW c \in Clients, SenderFails(c)
      PROVE  LineInv'
  <2> DEFINE r == [client[c] EXCEPT !.conn = "over", !.sender = "off"]
  <2>1. /\ r.seen = client[c].seen /\ r.queue = client[c].queue
        /\ r.snap = client[c].snap
        /\ r.sender = "send" => /\ client[c].sender = "send"
                               /\ r.held = client[c].held
    BY <1>0 DEF Client
  <2>2. r.conn # "new"
    BY <1>0, <1>13 DEF SenderFails, Client
  <2>3. /\ Becomes(c, r) /\ known' \subseteq known \cup {c} /\ UNCHANGED count
    BY <1>13 DEF SenderFails
  <2> HIDE DEF r
  <2>4. Ordered(r, count) /\ (c \in Sockets => Fresh(r, count))
    BY <1>0, <2>1, SameLine
  <2> QED BY <1>0, <2>2, <2>3, <2>4, OneClientOrdered
<1>14. ASSUME NEW c \in Clients, Spin(c)
      PROVE  LineInv'
  <2> DEFINE r == [client[c] EXCEPT !.sender = "spin"]
  <2>1. /\ r.seen = client[c].seen /\ r.queue = client[c].queue
        /\ r.snap = client[c].snap
        /\ r.sender = "send" => /\ client[c].sender = "send"
                               /\ r.held = client[c].held
    BY <1>0 DEF Client
  <2>2. r.conn # "new"
    BY <1>0, <1>14 DEF Spin, Client, Untouched
  <2>3. /\ Becomes(c, r) /\ known' \subseteq known \cup {c} /\ UNCHANGED count
    BY <1>14 DEF Spin
  <2> HIDE DEF r
  <2>4. Ordered(r, count) /\ (c \in Sockets => Fresh(r, count))
    BY <1>0, <2>1, SameLine
  <2> QED BY <1>0, <2>2, <2>3, <2>4, OneClientOrdered
<1>15. ASSUME NEW c \in Clients, SpinEnd(c)
      PROVE  LineInv'
  <2> DEFINE r == [client[c] EXCEPT !.sender = "off"]
  <2>1. /\ r.seen = client[c].seen /\ r.queue = client[c].queue
        /\ r.snap = client[c].snap
        /\ r.sender = "send" => /\ client[c].sender = "send"
                               /\ r.held = client[c].held
    BY <1>0 DEF Client
  <2>2. r.conn # "new"
    BY <1>0, <1>15 DEF SpinEnd, Client, Untouched
  <2>3. /\ Becomes(c, r) /\ known' \subseteq known \cup {c} /\ UNCHANGED count
    BY <1>15 DEF SpinEnd
  <2> HIDE DEF r
  <2>4. Ordered(r, count) /\ (c \in Sockets => Fresh(r, count))
    BY <1>0, <2>1, SameLine
  <2> QED BY <1>0, <2>2, <2>3, <2>4, OneClientOrdered
<1>16. CASE UNCHANGED vars
  BY <1>16 DEF vars, LineInv, Untouched
<1> QED
  BY <1>1, <1>2, <1>3, <1>4, <1>5, <1>6, <1>7, <1>8, <1>9, <1>10, <1>11, <1>12,
     <1>13, <1>14, <1>15, <1>16 DEF Next, Sending, Clients

LEMMA StreamLines == Spec => [](TypeOK /\ LineInv)
<1>1. StreamAssumption
  BY StreamAssumption
<1>2. Init => TypeOK /\ LineInv
  BY <1>1, TypedInit, LineInit
<1>3. TypeOK /\ LineInv /\ [Next]_vars => (TypeOK /\ LineInv)'
  BY <1>1, TypedStep, LineStep
<1> QED BY <1>2, <1>3, PTL DEF Spec

(* Whatever full queues lose while senders work at them, every client gets *)
(* messages in the order of their publication, each at most once.          *)
THEOREM StreamInOrder == Spec => []InOrder
<1>1. TypeOK /\ LineInv => InOrder
  BY OrderedLine DEF TypeOK, LineInv, InOrder
<1> QED BY <1>1, StreamLines, PTL

(* A WebSocket gets nothing older than its snapshot after it, although the *)
(* snapshot may still be on its way while messages are queued.             *)
THEOREM StreamFollowsSnapshot == Spec => []StreamAfterSnapshot
<1>1. ASSUME TypeOK, LineInv PROVE StreamAfterSnapshot
  <2> SUFFICES ASSUME NEW c \in Sockets, NEW m \in client[c].snap,
                      NEW k \in DOMAIN Line(c)
               PROVE  m < Line(c)[k]
    BY DEF StreamAfterSnapshot
  <2>1. /\ c \in Clients /\ client[c] \in Client /\ count \in Nat
        /\ Ordered(client[c], count) /\ Fresh(client[c], count)
    BY <1>1 DEF TypeOK, LineInv, Clients
  <2> QED BY <2>1, OrderedLine DEF Fresh
<1> QED BY <1>1, StreamLines, PTL

-----------------------------------------------------------------------------
(* What is lost                                                            *)

(* m has been received, is in hand or is queued.                           *)
Has(r, m) ==
  \/ \E i \in DOMAIN r.seen : r.seen[i] = m
  \/ r.sender = "send" /\ r.held = m
  \/ \E j \in DOMAIN r.queue : r.queue[j] = m

Newer(r, m) == {d \in r.due : d > m}

(* Everything ever queued, up to n, is there or has many successors.       *)
Kept(r, n) ==
  /\ \A m \in r.due : m <= n
  /\ \A j \in DOMAIN r.queue : r.queue[j] \in r.due
  /\ \A m \in r.due : Has(r, m) \/ Cardinality(Newer(r, m)) >= MaxQueue

LossInv ==
  \A c \in Clients :
    /\ client[c].conn = "new" => client[c].due = {}
    /\ client[c].conn \in {"new", "request", "greet"} => client[c].sender = "off"
    /\ c \in known => Kept(client[c], count)

(* A message of either part is in the whole.                               *)
LEMMA JoinHolds ==
  ASSUME NEW p \in Seq(Nat), NEW q \in Seq(Nat), NEW m \in Nat,
         (\E i \in DOMAIN p : p[i] = m) \/ (\E j \in DOMAIN q : q[j] = m)
  PROVE  \E k \in DOMAIN (p \o q) : (p \o q)[k] = m
<1>1. /\ DOMAIN (p \o q) = 1 .. Len(p) + Len(q) /\ Len(p) \in Nat /\ Len(q) \in Nat
      /\ DOMAIN p = 1 .. Len(p) /\ DOMAIN q = 1 .. Len(q)
  OBVIOUS
<1>2. ASSUME NEW i \in DOMAIN p, p[i] = m
      PROVE  i \in DOMAIN (p \o q) /\ (p \o q)[i] = m
  BY <1>2
<1>3. ASSUME NEW j \in DOMAIN q, q[j] = m
      PROVE  Len(p) + j \in DOMAIN (p \o q) /\ (p \o q)[Len(p) + j] = m
  <2>1. Len(p) + j \in DOMAIN (p \o q)
    BY <1>1
  <2>2. (p \o q)[Len(p) + j] = q[(Len(p) + j) - Len(p)]
    BY SMTT(30), <1>1
  <2>3. j \in Nat
    BY ONLY <1>1, j \in DOMAIN q
  <2>4. (Len(p) + j) - Len(p) = j
    BY ONLY <1>1, <2>3
  <2>5. (p \o q)[Len(p) + j] = m
    BY ONLY <1>3, <2>2, <2>4, Zenon
  <2> QED BY ONLY <2>1, <2>5, Zenon
<1> QED BY <1>2, <1>3

(* Every message that is there is somewhere in the line.                   *)
LEMMA HasInLine ==
  ASSUME NEW c \in Clients, client[c] \in Client, NEW m \in Nat, Has(client[c], m)
  PROVE  \E i \in DOMAIN Line(c) : Line(c)[i] = m
<1> DEFINE r == client[c]
           h == IF r.sender = "send" THEN <<r.held>> ELSE <<>>
           s == r.seen \o h
<1>1. r.seen \in Seq(Nat) /\ r.queue \in Seq(Nat) /\ r.held \in Nat
  BY DEF Client
<1>2. h \in Seq(Nat) /\ (r.sender = "send" => 1 \in DOMAIN h /\ h[1] = r.held)
  BY <1>1
<1>3. Line(c) = s \o r.queue
  BY DEF Line
<1>4. Has(r, m)
  OBVIOUS
<1> HIDE DEF r, h
<1>5. s \in Seq(Nat)
  BY <1>1, <1>2
<1>6. ASSUME (\E i \in DOMAIN r.seen : r.seen[i] = m) \/ (\E i \in DOMAIN h : h[i] = m)
      PROVE  \E i \in DOMAIN s : s[i] = m
  BY <1>1, <1>2, <1>6, JoinHolds
<1>9. (r.sender = "send" /\ r.held = m) => \E i \in DOMAIN h : h[i] = m
  BY <1>2
<1> HIDE DEF s
<1>7. (\E i \in DOMAIN s : s[i] = m) \/ (\E j \in DOMAIN r.queue : r.queue[j] = m)
  <2>1. CASE \E i \in DOMAIN r.seen : r.seen[i] = m
    BY <1>6, <2>1
  <2>2. CASE r.sender = "send" /\ r.held = m
    BY <1>6, <1>9, <2>2
  <2> QED BY <1>4, <2>1, <2>2 DEF Has
<1>8. \E i \in DOMAIN (s \o r.queue) : (s \o r.queue)[i] = m
  <2> DEFINE q == r.queue
  <2>1. q \in Seq(Nat)
    BY <1>1
  <2>2. (\E i \in DOMAIN s : s[i] = m) \/ (\E j \in DOMAIN q : q[j] = m)
    BY <1>7
  <2> HIDE DEF q
  <2>3. \E i \in DOMAIN (s \o q) : (s \o q)[i] = m
    BY <1>5, <2>1, <2>2, JoinHolds
  <2> QED BY <2>3 DEF q
<1> QED BY <1>3, <1>8

(* What is due to a client is a finite set.                                *)
LEMMA DueFinite ==
  ASSUME NEW r \in Client, NEW n \in Nat, \A m \in r.due : m <= n, NEW m
  PROVE  /\ IsFiniteSet(r.due)
         /\ IsFiniteSet(Newer(r, m)) /\ Cardinality(Newer(r, m)) \in Nat
<1>1. r.due \in SUBSET (0 .. n)
  BY DEF Client
<1>2. IsFiniteSet(r.due)
  <2>1. IsFiniteSet(0 .. n)
    BY FS_Interval
  <2> QED BY <1>1, <2>1, FS_Subset
<1>3. IsFiniteSet(Newer(r, m))
  BY <1>2, FS_Subset DEF Newer
<1> QED BY <1>2, <1>3, FS_CardinalityType

(* A message that is pushed out has a full queue of newer ones behind it.  *)
LEMMA FullQueue ==
  ASSUME NEW s \in Client, NEW n \in Nat, \A d \in s.due : d <= n, NEW m \in Nat,
         Len(s.queue) = MaxQueue, MaxQueue \in Nat, Increasing(s.queue),
         \A j \in DOMAIN s.queue : s.queue[j] \in s.due /\ s.queue[j] > m
  PROVE  Cardinality(Newer(s, m)) >= MaxQueue
<1>1. s.queue \in Seq(Nat) /\ DOMAIN s.queue = 1 .. MaxQueue
  BY DEF Client
<1>2. s.queue \in [1 .. MaxQueue -> Newer(s, m)]
  BY <1>1 DEF Newer
<1>3. ASSUME NEW i \in 1 .. MaxQueue, NEW j \in 1 .. MaxQueue, s.queue[i] = s.queue[j]
      PROVE  i = j
  <2>1. s.queue[i] \in Nat /\ s.queue[j] \in Nat
    BY <1>1
  <2>2. i < j => s.queue[i] < s.queue[j]
    BY <1>1 DEF Increasing
  <2>3. j < i => s.queue[j] < s.queue[i]
    BY <1>1 DEF Increasing
  <2> QED BY <1>3, <2>1, <2>2, <2>3
<1>4. s.queue \in Injection(1 .. MaxQueue, Newer(s, m))
  BY <1>1, <1>2, <1>3 DEF Injection, IsInjective
<1>5. Cardinality(1 .. MaxQueue) <= Cardinality(Newer(s, m))
  BY <1>4, DueFinite, FS_Injection
<1>6. Cardinality(1 .. MaxQueue) = MaxQueue
  BY FS_Interval
<1> QED BY <1>5, <1>6

(* Where a queue that is offered a message keeps what it held: a queue with *)
(* room keeps all, a full one all but its first.                           *)
LEMMA OfferKeeps ==
  ASSUME NEW q \in Seq(Nat), NEW n \in Nat, MaxQueue \in Nat \ {0}, Len(q) < MaxQueue,
         NEW o \in Seq(Nat), o = Offer(q, n)
  PROVE  /\ \E j \in DOMAIN o : o[j] = n
         /\ \A i \in DOMAIN q : \E j \in DOMAIN o : o[j] = q[i]
<1>1. o = Append(q, n)
  BY DEF Offer
<1>2. /\ DOMAIN Append(q, n) = 1 .. Len(q) + 1 /\ Append(q, n)[Len(q) + 1] = n
      /\ \A i \in DOMAIN q : i \in DOMAIN Append(q, n) /\ Append(q, n)[i] = q[i]
      /\ Len(q) + 1 \in DOMAIN Append(q, n)
  OBVIOUS
<1> QED BY <1>1, <1>2

(* o is the full queue q without its first message and with n at the end.  *)
Shifted(q, n, o) ==
  /\ \E j \in DOMAIN o : o[j] = n
  /\ Len(o) = MaxQueue /\ 1 \in DOMAIN q
  /\ \A i \in DOMAIN q : i > 1 => i - 1 \in DOMAIN o /\ o[i - 1] = q[i]
  /\ \A j \in DOMAIN o : o[j] = n \/ (j + 1 \in DOMAIN q /\ o[j] = q[j + 1])

LEMMA OfferDrops ==
  ASSUME NEW q \in Seq(Nat), NEW n \in Nat, MaxQueue \in Nat \ {0}, Len(q) = MaxQueue,
         NEW o \in Seq(Nat), o = Offer(q, n)
  PROVE  Shifted(q, n, o)
<1> DEFINE t == Tail(q)
<1>1. o = Append(t, n)
  BY  DEF Offer
<1>2. /\ t \in Seq(Nat) /\ Len(t) = MaxQueue - 1 /\ 1 \in DOMAIN q
      /\ \A i \in 1 .. MaxQueue - 1 : t[i] = q[i + 1]
  OBVIOUS
<1> HIDE DEF t
<1>3. /\ DOMAIN o = 1 .. MaxQueue /\ o[MaxQueue] = n
      /\ Len(o) = MaxQueue
      /\ \A i \in 1 .. MaxQueue - 1 : o[i] = q[i + 1]
  BY <1>1, <1>2
<1>4. ASSUME NEW i \in DOMAIN q, i > 1
      PROVE  i - 1 \in DOMAIN o /\ o[i - 1] = q[i]
  <2>1. i - 1 \in 1 .. MaxQueue - 1 /\ i - 1 \in 1 .. MaxQueue /\ (i - 1) + 1 = i
    BY <1>4
  <2> QED BY <1>3, <2>1
<1>5. ASSUME NEW j \in DOMAIN o
      PROVE  o[j] = n \/ (j + 1 \in DOMAIN q /\ o[j] = q[j + 1])
  <2>1. j = MaxQueue \/ j \in 1 .. MaxQueue - 1
    BY <1>3
  <2>2. j \in 1 .. MaxQueue - 1 => j + 1 \in DOMAIN q /\ j + 1 > 1
    OBVIOUS
  <2> QED BY <1>3, <2>1, <2>2
<1>6. \E j \in DOMAIN o : o[j] = n
  <2>1. MaxQueue \in 1 .. MaxQueue
    OBVIOUS
  <2> QED BY <1>3, <2>1
<1> QED BY <1>2, <1>3, <1>4, <1>5, <1>6 DEF Shifted

LEMMA OfferedKept ==
  ASSUME StreamAssumption, NEW r \in Client, NEW s \in Client, NEW n \in Nat,
         Kept(r, n), Ordered(r, n), Len(r.queue) <= MaxQueue,
         s.queue = Offer(r.queue, n + 1), s.due = r.due \cup {n + 1},
         s.seen = r.seen, s.sender = r.sender, s.held = r.held
  PROVE  Kept(s, n + 1)
<1>1. /\ r.queue \in Seq(Nat) /\ MaxQueue \in Nat \ {0} /\ r.due \subseteq Nat
      /\ s.due \subseteq Nat /\ \A j \in DOMAIN r.queue : r.queue[j] \in Nat
  BY DEF Client, StreamAssumption
<1>2. /\ Increasing(s.queue)
      /\ \A j \in DOMAIN s.queue :
           s.queue[j] = n + 1 \/ \E k \in DOMAIN r.queue : s.queue[j] = r.queue[k]
  BY <1>1, OfferAppends DEF Ordered
<1>3. \A m \in s.due : m <= n + 1
  BY <1>1 DEF Kept
<1>4. \A j \in DOMAIN s.queue : s.queue[j] \in s.due
  BY <1>2 DEF Kept
<1>5. /\ \E j \in DOMAIN s.queue : s.queue[j] = n + 1
      /\ Len(r.queue) < MaxQueue =>
           \A i \in DOMAIN r.queue : \E j \in DOMAIN s.queue : s.queue[j] = r.queue[i]
      /\ Len(r.queue) = MaxQueue => Shifted(r.queue, n + 1, s.queue)
  <2> DEFINE q == r.queue
             o == s.queue
             k == n + 1
  <2>1. q \in Seq(Nat) /\ Len(q) <= MaxQueue /\ k \in Nat /\ o = Offer(q, k) /\ o \in Seq(Nat)
    BY <1>1 DEF Client
  <2> HIDE DEF q, o, k
  <2>2. MaxQueue \in Nat \ {0}
    BY <1>1
  <2>3. Len(q) < MaxQueue =>
          /\ \E j \in DOMAIN o : o[j] = k
          /\ \A i \in DOMAIN q : \E j \in DOMAIN o : o[j] = q[i]
    BY <2>1, <2>2, OfferKeeps
  <2>4. Len(q) = MaxQueue => Shifted(q, k, o)
    BY <2>1, <2>2, OfferDrops
  <2>5. Len(q) < MaxQueue \/ Len(q) = MaxQueue
    BY <2>1, <2>2
  <2>6. \E j \in DOMAIN o : o[j] = k
    BY <2>3, <2>4, <2>5 DEF Shifted
  <2> QED BY <2>3, <2>4, <2>6 DEF q, o, k
<1>6. ASSUME NEW m \in s.due
      PROVE  Has(s, m) \/ Cardinality(Newer(s, m)) >= MaxQueue
  <2>1. CASE m = n + 1
    BY <1>5, <2>1 DEF Has
  <2>2. CASE m \in r.due /\ Cardinality(Newer(r, m)) >= MaxQueue
    <3>1. Newer(r, m) \subseteq Newer(s, m)
      BY DEF Newer
    <3>2. IsFiniteSet(Newer(s, m)) /\ Cardinality(Newer(s, m)) \in Nat
      <4>1. n + 1 \in Nat
        OBVIOUS
      <4> HIDE DEF Newer
      <4> QED BY ONLY <1>3, <4>1, s \in Client, DueFinite
    <3>3. Cardinality(Newer(r, m)) <= Cardinality(Newer(s, m))
      BY <3>1, <3>2, FS_Subset
    <3>4. Cardinality(Newer(r, m)) \in Nat
      BY DueFinite DEF Kept
    <3> QED BY <1>1, <2>2, <3>2, <3>3, <3>4
  <2>3. CASE m \in r.due /\ Has(r, m)
    <3>1. CASE ~\E j \in DOMAIN r.queue : r.queue[j] = m
      BY <2>3, <3>1 DEF Has
    <3>2. ASSUME NEW i \in DOMAIN r.queue, r.queue[i] = m,
                 Len(r.queue) < MaxQueue \/ i # 1
          PROVE  Has(s, m)
      <4>1. Len(r.queue) \in Nat
        BY <1>1
      <4>2. Len(r.queue) < MaxQueue \/ Len(r.queue) = MaxQueue
        BY <1>1, <4>1
      <4>3. \E j \in DOMAIN s.queue : s.queue[j] = m
        <5>1. CASE Len(r.queue) < MaxQueue
          BY <1>5, <3>2, <5>1
        <5>2. CASE Len(r.queue) = MaxQueue /\ i # 1
          <6>1. i > 1
            BY <1>1, <5>2
          <6>2. Shifted(r.queue, n + 1, s.queue)
            BY <1>5, <5>2
          <6>3. i - 1 \in DOMAIN s.queue /\ s.queue[i - 1] = r.queue[i]
            BY <6>1, <6>2 DEF Shifted
          <6> QED BY <3>2, <6>3
        <5> QED BY <3>2, <4>2, <5>1, <5>2
      <4> QED BY <4>3 DEF Has
    <3>3. ASSUME r.queue[1] = m, Len(r.queue) = MaxQueue
          PROVE  Cardinality(Newer(s, m)) >= MaxQueue
      <4>1. m \in Nat /\ m <= n
        BY <1>1, <2>3 DEF Kept
      <4>5. Shifted(r.queue, n + 1, s.queue)
        BY <1>5, <3>3
      <4>2. \A i \in DOMAIN r.queue : i > 1 => r.queue[i] > m
        <5>1. \A i \in DOMAIN r.queue : 1 < i => r.queue[1] < r.queue[i]
          BY <4>5 DEF Shifted, Ordered, Increasing
        <5> QED BY <1>1, <3>3, <5>1
      <4>3. \A j \in DOMAIN s.queue : s.queue[j] > m
        <5> SUFFICES ASSUME NEW j \in DOMAIN s.queue, s.queue[j] # n + 1 PROVE s.queue[j] > m
          BY <4>1
        <5>1. s.queue \in Seq(Nat)
          BY DEF Client
        <5>2. j \in Nat /\ j + 1 > 1
          BY <5>1
        <5>3. j + 1 \in DOMAIN r.queue /\ s.queue[j] = r.queue[j + 1]
          BY <4>5 DEF Shifted
        <5> QED BY <4>2, <5>2, <5>3
      <4>4. Len(s.queue) = MaxQueue
        BY <4>5 DEF Shifted
      <4> QED BY <1>1, <1>2, <1>3, <1>4, <4>1, <4>3, <4>4, FullQueue
    <3>4. Len(r.queue) < MaxQueue \/ Len(r.queue) = MaxQueue
      BY <1>1
    <3> QED BY <3>1, <3>2, <3>3, <3>4
  <2> QED BY <2>1, <2>2, <2>3 DEF Kept
<1> QED BY <1>3, <1>4, <1>6 DEF Kept

(* A step that leaves the line and the history of a client alone.          *)
LEMMA SameKept ==
  ASSUME NEW r, NEW s, NEW n,
         s.seen = r.seen, s.queue = r.queue, s.due = r.due,
         r.sender = "send" => s.sender = "send" /\ s.held = r.held
  PROVE  Kept(r, n) => Kept(s, n)
<1> SUFFICES ASSUME Kept(r, n) PROVE Kept(s, n)
  OBVIOUS
<1>1. \A m : Has(r, m) => Has(s, m)
  BY DEF Has
<1>2. \A m : Newer(s, m) = Newer(r, m)
  BY DEF Newer
<1> QED BY <1>1, <1>2 DEF Kept

LEMMA TakenKept ==
  ASSUME NEW r \in Client, NEW s, NEW n, Kept(r, n), r.sender = "wait", r.queue # <<>>,
         s.queue = Tail(r.queue), s.held = Head(r.queue), s.sender = "send",
         s.seen = r.seen, s.due = r.due
  PROVE  Kept(s, n)
<1>1. /\ r.queue \in Seq(Nat) /\ Len(r.queue) \in Nat \ {0} /\ s.held = r.queue[1]
      /\ DOMAIN r.queue = 1 .. Len(r.queue)
      /\ DOMAIN s.queue = 1 .. Len(r.queue) - 1
      /\ \A j \in DOMAIN s.queue : s.queue[j] = r.queue[j + 1]
  BY DEF Client
<1>2. \A j \in DOMAIN s.queue : j + 1 \in DOMAIN r.queue
  BY <1>1
<1>3. ASSUME NEW i \in DOMAIN r.queue, i # 1
      PROVE  \E j \in DOMAIN s.queue : s.queue[j] = r.queue[i]
  <2>1. i - 1 \in DOMAIN s.queue /\ (i - 1) + 1 = i
    BY <1>1, <1>3
  <2> QED BY <1>1, <2>1
<1>4. \A m : Has(r, m) => Has(s, m)
  BY <1>1, <1>3 DEF Has
<1>5. \A m : Newer(s, m) = Newer(r, m)
  BY DEF Newer
<1> QED BY <1>1, <1>2, <1>4, <1>5 DEF Kept

LEMMA SentKept ==
  ASSUME NEW r \in Client, NEW s, NEW n, Kept(r, n), r.sender = "send",
         s.seen = Append(r.seen, r.held), s.queue = r.queue, s.due = r.due
  PROVE  Kept(s, n)
<1>1. /\ r.seen \in Seq(Nat) /\ r.held \in Nat
      /\ \A i \in DOMAIN r.seen : i \in DOMAIN s.seen /\ s.seen[i] = r.seen[i]
      /\ Len(r.seen) + 1 \in DOMAIN s.seen /\ s.seen[Len(r.seen) + 1] = r.held
  BY DEF Client
<1>2. \A m : Has(r, m) => Has(s, m)
  BY <1>1 DEF Has
<1>3. \A m : Newer(s, m) = Newer(r, m)
  BY DEF Newer
<1> QED BY <1>2, <1>3 DEF Kept

(* A step of one client's endpoint keeps the invariant if its new record   *)
(* does.                                                                   *)
LEMMA OneClientKept ==
  ASSUME TypeOK, LossInv, NEW c \in Clients, NEW r, Becomes(c, r), r.conn # "new",
         r.conn \in {"request", "greet"} => r.sender = "off",
         c \in known' => Kept(r, count),
         known' \subseteq known \cup {c}, UNCHANGED count
  PROVE  LossInv'
<1>1. \A d \in Clients : client'[d] = IF d = c THEN r ELSE client[d]
  BY DEF TypeOK, Becomes
<1> SUFFICES ASSUME NEW d \in Clients
             PROVE  /\ client'[d].conn = "new" => client'[d].due = {}
                    /\ client'[d].conn \in {"new", "request", "greet"} => client'[d].sender = "off"
                    /\ d \in known' => Kept(client'[d], count')
  BY DEF LossInv
<1>2. CASE d = c
  BY <1>1, <1>2
<1>3. CASE d # c
  BY <1>1, <1>3 DEF LossInv
<1> QED BY <1>2, <1>3

LEMMA LossInit == Init => LossInv
  BY DEF Init, LossInv, New

(* A client that connects has nothing due.                                 *)
LEMMA NothingDue ==
  ASSUME NEW r, NEW n, r.due = {}, r.queue = <<>>
  PROVE  Kept(r, n)
  BY DEF Kept

LEMMA LossStep ==
  ASSUME StreamAssumption, TypeOK, LineInv, LossInv, [Next]_vars
  PROVE  LossInv'
<1>0. /\ client \in [Clients -> Client] /\ count \in Nat
      /\ \A c \in Clients : /\ client[c] \in Client /\ Ordered(client[c], count)
                            /\ Untouched(c) /\ Len(client[c].queue) <= MaxQueue
      /\ \A c \in Sockets \cup Listeners : c \in Clients
  BY DEF TypeOK, LineInv, Clients
<1>1. ASSUME NEW ch \in Channels, Publish(ch) PROVE LossInv'
  <2>1. count' = count + 1 /\ known' = known /\ TypeOK'
    BY <1>1, TypedStep DEF Publish
  <2>2. ASSUME NEW c \in Clients
        PROVE  /\ client'[c].conn = "new" => client'[c].due = {}
               /\ client'[c].conn \in {"new", "request", "greet"} => client'[c].sender = "off"
               /\ c \in known => Kept(client'[c], count + 1)
    <3>1. client'[c] = IF c \in known /\ ch \in client[c].subs
                       THEN [client[c] EXCEPT
                               !.queue = Offer(client[c].queue, count + 1),
                               !.due = client[c].due \cup {count + 1}]
                       ELSE client[c]
      BY <1>1 DEF Publish
    <3>2. CASE c \in known /\ ch \in client[c].subs
      <4>1. client'[c] \in Client
        BY <2>1 DEF TypeOK
      <4>2. /\ client'[c].queue = Offer(client[c].queue, count + 1)
            /\ client'[c].due = client[c].due \cup {count + 1}
            /\ client'[c].seen = client[c].seen /\ client'[c].sender = client[c].sender
            /\ client'[c].held = client[c].held /\ client'[c].conn = client[c].conn
        BY <1>0, <3>1, <3>2 DEF Client
      <4>3. Kept(client'[c], count + 1)
        BY <1>0, <3>2, <4>1, <4>2, OfferedKept DEF LossInv
      <4>4. client[c].conn # "new"
        BY <1>0, <3>2 DEF Untouched
      <4> QED BY <4>2, <4>3, <4>4 DEF LossInv
    <3>3. CASE ~(c \in known /\ ch \in client[c].subs)
      <4>1. client'[c] = client[c]
        BY <3>1, <3>3
      <4>2. Kept(client[c], count) => Kept(client[c], count + 1)
        <5>1. client[c].due \subseteq Nat
          BY <1>0 DEF Client
        <5> QED BY <1>0, <5>1 DEF Kept
      <4> QED BY <4>1, <4>2 DEF LossInv
    <3> QED BY <3>2, <3>3
  <2> QED BY <2>1, <2>2 DEF LossInv
<1>2. ASSUME NEW c \in Clients, Connect(c) \/ Request(c)
      PROVE  LossInv'
  <2>1. client[c].conn = "new" /\ known' \subseteq known \cup {c} /\ UNCHANGED count
    BY <1>2 DEF Connect, Request
  <2>2. client[c].queue = <<>> /\ client[c].due = {} /\ client[c].sender = "off"
    BY <1>0, <2>1 DEF LossInv, Untouched
  <2>3. \E r : /\ Becomes(c, r) /\ r.due = {} /\ r.queue = <<>> /\ r.conn # "new"
               /\ r.conn \in {"request", "greet"} => r.sender = "off"
    <3>1. CASE Connect(c)
      <4>1. Becomes(c, GreetedWith(client[c], Snapshot))
        BY <3>1 DEF Connect
      <4>2. LET r == GreetedWith(client[c], Snapshot)
            IN  /\ r.due = {} /\ r.queue = <<>> /\ r.conn # "new"
                /\ r.conn \in {"request", "greet"} => r.sender = "off"
        BY <1>0, <2>2 DEF GreetedWith, Client
      <4> QED BY <4>1, <4>2
    <3>2. CASE Request(c)
      <4>1. Becomes(c, [client[c] EXCEPT !.conn = "request"])
        BY <3>2 DEF Request
      <4>2. LET r == [client[c] EXCEPT !.conn = "request"]
            IN  r.due = {} /\ r.queue = <<>> /\ r.conn = "request" /\ r.sender = "off"
        BY <1>0, <2>2 DEF Client
      <4> QED BY <4>1, <4>2
    <3> QED BY <1>2, <3>1, <3>2
  <2> QED BY <1>0, <2>1, <2>3, NothingDue, OneClientKept
<1>3. ASSUME NEW c \in Clients, Start(c) \/ Greeted(c)
      PROVE  LossInv'
  <2>1. client[c].conn \in {"request", "greet"} /\ known' = known /\ UNCHANGED count
    BY <1>3 DEF Start, Greeted
  <2>2. client[c].sender = "off"
    BY <2>1 DEF LossInv
  <2>3. \E r : /\ Becomes(c, r) /\ r.conn # "new"
               /\ r.conn \in {"request", "greet"} => r.sender = "off"
               /\ r.seen = client[c].seen /\ r.queue = client[c].queue /\ r.due = client[c].due
    <3>1. CASE Start(c)
      <4>1. Becomes(c, GreetedWith(client[c], Snapshot))
        BY <3>1 DEF Start
      <4>2. LET r == GreetedWith(client[c], Snapshot)
            IN  /\ r.conn # "new" /\ (r.conn \in {"request", "greet"} => r.sender = "off")
                /\ r.seen = client[c].seen /\ r.queue = client[c].queue /\ r.due = client[c].due
        BY <1>0, <2>2 DEF GreetedWith, Client
      <4> QED BY <4>1, <4>2
    <3>2. CASE Greeted(c)
      <4>1. Becomes(c, [client[c] EXCEPT !.conn = "live", !.sender = "wait"])
        BY <3>2 DEF Greeted
      <4>2. LET r == [client[c] EXCEPT !.conn = "live", !.sender = "wait"]
            IN  /\ r.conn = "live" /\ r.seen = client[c].seen /\ r.queue = client[c].queue
                /\ r.due = client[c].due
        BY <1>0 DEF Client
      <4> QED BY <4>1, <4>2
    <3> QED BY <1>3, <3>1, <3>2
  <2>4. PICK r : /\ Becomes(c, r) /\ r.conn # "new"
                 /\ r.conn \in {"request", "greet"} => r.sender = "off"
                 /\ r.seen = client[c].seen /\ r.queue = client[c].queue /\ r.due = client[c].due
    BY <2>3
  <2>5. c \in known => Kept(r, count)
    BY <2>2, <2>4, SameKept DEF LossInv
  <2> QED BY <1>0, <2>1, <2>4, <2>5, OneClientKept
<1>4. ASSUME NEW c \in Clients, GreetingFails(c)
      PROVE  LossInv'
  <2> DEFINE r == [client[c] EXCEPT !.conn = "over"]
  <2>1. /\ r.seen = client[c].seen /\ r.queue = client[c].queue /\ r.due = client[c].due
        /\ r.sender = client[c].sender /\ r.held = client[c].held /\ r.conn = "over"
    BY <1>0 DEF Client
  <2>2. Becomes(c, r) /\ known' = known /\ UNCHANGED count
    BY <1>4 DEF GreetingFails
  <2> HIDE DEF r
  <2>3. c \in known => Kept(r, count)
    BY <2>1, SameKept DEF LossInv
  <2> QED BY <1>0, <2>1, <2>2, <2>3, OneClientKept
<1>5. ASSUME NEW c \in Clients, NEW chs \in SUBSET Channels, Subscribe(c, chs) \/ Unsubscribe(c, chs)
      PROVE  LossInv'
  <2>1. PICK subs : client' = [client EXCEPT ![c] = [client[c] EXCEPT !.subs = subs]]
    BY <1>5 DEF Subscribe, Unsubscribe, Becomes
  <2> DEFINE r == [client[c] EXCEPT !.subs = subs]
  <2>2. /\ r.seen = client[c].seen /\ r.queue = client[c].queue /\ r.due = client[c].due
        /\ r.sender = client[c].sender /\ r.held = client[c].held /\ r.conn = client[c].conn
    BY <1>0 DEF Client
  <2>3. Becomes(c, r) /\ known' = known /\ UNCHANGED count /\ client[c].conn = "live"
    BY <1>5, <2>1 DEF Subscribe, Unsubscribe, Becomes
  <2> HIDE DEF r
  <2>4. c \in known => Kept(r, count)
    BY <2>2, SameKept DEF LossInv
  <2> QED BY <1>0, <2>2, <2>3, <2>4, OneClientKept
<1>6. ASSUME NEW c \in Clients, ReceiverEnds(c) \/ SenderFails(c) \/ ListenerEnds(c)
      PROVE  LossInv'
  <2>1. PICK r : Becomes(c, r) /\ r.conn = "over"
    <3>1. \A sender : /\ [client[c] EXCEPT !.conn = "over"].conn = "over"
                      /\ [client[c] EXCEPT !.conn = "over", !.sender = sender].conn = "over"
      BY <1>0 DEF Client
    <3> QED BY <1>6, <3>1 DEF ReceiverEnds, SenderFails, ListenerEnds
  <2>2. known' = known \ {c} /\ UNCHANGED count
    BY <1>6 DEF ReceiverEnds, SenderFails, ListenerEnds
  <2> QED BY <1>0, <2>1, <2>2, OneClientKept
<1>7. ASSUME NEW c \in Clients, Take(c)
      PROVE  LossInv'
  <2> DEFINE r == [client[c] EXCEPT !.sender = "send",
                                   !.held = Head(client[c].queue),
                                   !.queue = Tail(@)]
  <2>1. /\ r.queue = Tail(client[c].queue) /\ r.held = Head(client[c].queue)
        /\ r.sender = "send" /\ r.seen = client[c].seen /\ r.due = client[c].due
        /\ r.conn = client[c].conn
    BY <1>0 DEF Client
  <2>2. /\ client[c].queue # <<>> /\ client[c].sender = "wait" /\ Becomes(c, r)
        /\ known' = known /\ UNCHANGED count
    BY <1>7 DEF Take
  <2> HIDE DEF r
  <2>3. r.conn \notin {"new", "request", "greet"}
    BY <2>1, <2>2 DEF LossInv
  <2>4. c \in known => Kept(r, count)
    BY <1>0, <2>1, <2>2, TakenKept DEF LossInv
  <2> QED BY <1>0, <2>2, <2>3, <2>4, OneClientKept
<1>8. ASSUME NEW c \in Clients, Sent(c)
      PROVE  LossInv'
  <2> DEFINE r == [client[c] EXCEPT !.sender = "wait",
                                   !.seen = Append(@, client[c].held)]
  <2>1. /\ r.seen = Append(client[c].seen, client[c].held)
        /\ r.queue = client[c].queue /\ r.due = client[c].due /\ r.conn = client[c].conn
    BY <1>0 DEF Client
  <2>2. /\ client[c].sender = "send" /\ client[c].conn = "live" /\ Becomes(c, r)
        /\ known' = known /\ UNCHANGED count
    BY <1>8 DEF Sent
  <2> HIDE DEF r
  <2>3. c \in known => Kept(r, count)
    BY <1>0, <2>1, <2>2, SentKept DEF LossInv
  <2> QED BY <1>0, <2>1, <2>2, <2>3, OneClientKept
<1>9. ASSUME NEW c \in Clients, Spin(c) \/ SpinEnd(c)
      PROVE  LossInv'
  <2>1. PICK sender \in {"spin", "off"} :
          Becomes(c, [client[c] EXCEPT !.sender = sender])
    BY <1>9 DEF Spin, SpinEnd
  <2> DEFINE r == [client[c] EXCEPT !.sender = sender]
  <2>2. /\ r.seen = client[c].seen /\ r.queue = client[c].queue /\ r.due = client[c].due
        /\ r.sender = sender /\ r.conn = client[c].conn
    BY <1>0 DEF Client
  <2>3. Becomes(c, r) /\ known' = known /\ UNCHANGED count
    BY <1>9, <2>1 DEF Spin, SpinEnd
  <2>4. client[c].sender \in {"wait", "send", "spin"}
    BY <1>9 DEF Spin, SpinEnd
  <2> HIDE DEF r
  <2>5. r.conn \notin {"new", "request", "greet"}
    BY <2>2, <2>4 DEF LossInv
  <2>6. c \in known => Kept(r, count)
    <3>1. c \in known => client[c].sender = "spin"
      BY <1>9 DEF Spin, SpinEnd
    <3> QED BY <2>2, <3>1, SameKept DEF LossInv
  <2> QED BY <1>0, <2>3, <2>5, <2>6, OneClientKept
<1>10. CASE UNCHANGED vars
  BY <1>10 DEF vars, LossInv
<1> QED
  BY <1>0, <1>1, <1>2, <1>3, <1>4, <1>5, <1>6, <1>7, <1>8, <1>9, <1>10 DEF Next, Sending

(* As long as a client is connected, a message put in its queue is only    *)
(* ever lost to MAX_QUEUE newer ones, whatever its sender does meanwhile.  *)
THEOREM StreamOnlyOverflowLoses == Spec => []OnlyOverflowLoses
<1>1. ASSUME TypeOK, LossInv PROVE OnlyOverflowLoses
  <2> SUFFICES ASSUME NEW c \in known, NEW m \in client[c].due
               PROVE  \/ \E i \in DOMAIN Line(c) : Line(c)[i] = m
                      \/ Cardinality({d \in client[c].due : d > m}) >= MaxQueue
    BY DEF OnlyOverflowLoses
  <2>1. c \in Clients /\ client[c] \in Client /\ m \in Nat
    BY <1>1 DEF TypeOK, Client
  <2>2. Has(client[c], m) \/ Cardinality(Newer(client[c], m)) >= MaxQueue
    BY <1>1, <2>1 DEF LossInv, Kept
  <2> QED BY <2>1, <2>2, HasInLine DEF Newer
<1>2. LossInv /\ TypeOK /\ LineInv /\ [Next]_vars => LossInv'
  BY StreamAssumption, LossStep
<1> QED BY <1>1, <1>2, LossInit, StreamLines, PTL DEF Spec

=============================================================================
