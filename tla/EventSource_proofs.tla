------------------------- MODULE EventSource_proofs -------------------------
(***************************************************************************)
(* Proofs about connections that carry one response or an event stream,    *)
(* whatever the lengths of the response and the events and the size of the *)
(* send buffer: a response ends only when all that was written is          *)
(* acknowledged; events are sent once, and overtaken by shorter ones only; *)
(* and without a mishap the peer gets the whole response.                  *)
(***************************************************************************)
EXTENDS EventSource, SequenceLemmas

ClientRecord(c) ==
    c = [open |-> c.open, busy |-> c.busy, unacked |-> c.unacked, acked |-> c.acked]

(***************************************************************************)
(* WAIT_ACK ends a response of unknown length whatever has been            *)
(* acknowledged, and one of known length by its counters.  In both cases   *)
(* it is the client that makes it right: it polls, and hands over an       *)
(* acknowledgement, only when nothing is unacknowledged, since whatever is *)
(* written makes it busy.  An event stream never ends that way.            *)
(***************************************************************************)
Idle(c) == ClientRecord(c) /\ ~ c.busy /\ c.unacked = 0

\* What a step on an idle client leaves: it is still idle, or busy with what was written.
Settled(c) == ClientRecord(c) /\ (c.busy \/ c.unacked = 0)

EndInv ==
    /\ kind = "events" => state \in {"SETUP", "WAIT_ACK", "EVENTS"}
    /\ kind # "events" => Settled(client) /\ EndsWhenAcknowledged

\* Nothing of the response is written yet; the client may be busy with "100 Continue".
LEMMA EndInit == EventsInit => EndInv
<1>. SUFFICES ASSUME EventsInit PROVE EndInv
  OBVIOUS
<1>1. ResponseStart
  BY DEF EventsInit, ResponseInit
<1>2. state = "SETUP"
  BY <1>1 DEF ResponseStart
<1>3. PICK n \in 0 .. Before :
        client = [open |-> TRUE, busy |-> n > 0, unacked |-> n, acked |-> 0]
  BY <1>1 DEF ResponseStart
<1>4. CASE n > 0
  BY <1>2, <1>3, <1>4 DEF EndInv, EndsWhenAcknowledged, Settled, ClientRecord
<1>5. CASE n = 0
  BY <1>2, <1>3, <1>5 DEF EndInv, EndsWhenAcknowledged, Settled, ClientRecord
<1>. QED
  BY <1>4, <1>5, ResponseAssumption

\* Whatever is written makes the client busy.
LEMMA WriteBusy ==
    ASSUME NEW data, NEW c, NEW counted, NEW mishap, Write(data, c, counted, mishap),
           ClientRecord(c)
    PROVE  ClientRecord(client') /\ (client' = c \/ client'.busy)
  BY DEF Write, ClientRecord

\* A response takes a step only on an idle client.
LEMMA AckEnds ==
    ASSUME NEW n, NEW c, Ack(n, c), Idle(c)
    PROVE  Settled(client') /\ (state' \in {"END", "NONE"} => client'.unacked = 0)
<1>1. ASSUME NEW data, NEW counted, NEW mishap, Write(data, c, counted, mishap)
      PROVE  Settled(client')
  BY <1>1, WriteBusy DEF Idle, Settled
<1>2. CASE kind = "basic"
  <2>1. BasicAck(n, c)
    BY <1>2 DEF Ack
  <2>. QED
    BY <1>1, <2>1 DEF BasicAck, Idle, Settled
<1>3. CASE kind # "basic"
  <2>1. AbstractAck(state, n, c)
    BY <1>3 DEF Ack
  <2>. DEFINE counted == [counters EXCEPT !.acked = @ + n]
  <2>2. CASE Fill(state, counted, c)
    BY <1>1, <2>2 DEF Fill
  <2>3. CASE FillLater(counted, c)
    BY <2>3 DEF FillLater, Idle, Settled
  <2>4. CASE state = "WAIT_ACK" /\ \E ends \in BOOLEAN :
             client' = [c EXCEPT !.open = ~ (ends /\ kind = "close")]
    BY <2>4 DEF Idle, Settled, ClientRecord
  <2>. QED
    BY <1>1, <2>1, <2>2, <2>3, <2>4 DEF AbstractAck
<1>. QED
  BY <1>2, <1>3

\* A response begins on any client, and does not end at once.
LEMMA SendBegins ==
    ASSUME Send, Settled(client)
    PROVE  Settled(client') /\ state' \notin {"END", "NONE"}
<1>1. ASSUME NEW data, NEW counted, NEW mishap, Write(data, client, counted, mishap)
      PROVE  Settled(client')
  BY <1>1, WriteBusy DEF Settled
<1>2. CASE BasicRespond(client)
  BY <1>1, <1>2 DEF BasicRespond
<1>3. CASE AbstractAck("HEADERS", 0, client)
  <2>. DEFINE counted == [counters EXCEPT !.acked = @ + 0]
  <2>1. CASE Fill("HEADERS", counted, client)
    BY <1>1, <2>1 DEF Fill
  <2>2. CASE FillLater(counted, client)
    BY <2>2 DEF FillLater
  <2>3. CASE state' = "HEADERS" /\ Write(Upto(head, Space(client)), client, counted, {})
    BY <1>1, <2>3
  <2>. QED
    BY <1>3, <2>1, <2>2, <2>3 DEF AbstractAck
<1>. QED
  BY <1>2, <1>3 DEF Send

\* What the client is when everything has been acknowledged.
LEMMA FreedClient ==
    ASSUME NEW c, ClientRecord(c), NEW d,
           d = [c EXCEPT !.busy = FALSE, !.unacked = 0, !.acked = 0]
    PROVE  Idle(d)
<1>1. ~ d.busy /\ d.unacked = 0
  BY DEF ClientRecord
<1>2. ClientRecord(d)
  BY DEF ClientRecord
<1>. QED
  BY <1>1, <1>2 DEF Idle

\* Every step of a response: only an acknowledgement of everything, or a poll of
\* an idle client, ends it.
LEMMA ResponseStepEnds ==
    ASSUME Settled(client), EndsWhenAcknowledged, ResponseNext
    PROVE  Settled(client') /\ EndsWhenAcknowledged'
<1>. USE DEF EndsWhenAcknowledged
<1>1. CASE Send
  BY <1>1, SendBegins
<1>2. CASE PeerAcknowledges
  <2>1. PICK n \in 1 .. client.unacked :
          IF n < client.unacked
          THEN client' = [client EXCEPT !.unacked = @ - n, !.acked = @ + n] /\ state' = state
          ELSE OnAck(client.acked + n,
                     [client EXCEPT !.busy = FALSE, !.unacked = 0, !.acked = 0])
    BY <1>2 DEF PeerAcknowledges
  <2>2. client.unacked # 0 /\ client.busy /\ state \notin {"END", "NONE"}
    BY <2>1 DEF Settled
  <2>3. CASE n < client.unacked
    BY <2>1, <2>2, <2>3 DEF Settled, ClientRecord
  <2>4. CASE ~ n < client.unacked
    <3>. DEFINE c == [client EXCEPT !.busy = FALSE, !.unacked = 0, !.acked = 0]
    <3>1. Idle(c)
      BY FreedClient DEF Settled
    <3>2. OnAck(client.acked + n, c)
      BY <2>1, <2>4
    <3>. HIDE DEF c
    <3>3. CASE Ack(client.acked + n, c)
      BY <3>1, <3>3, AckEnds
    <3>4. CASE client' = c
      BY <3>1, <3>4 DEF Idle, Settled
    <3>. QED
      BY <3>2, <3>3, <3>4 DEF OnAck
  <2>. QED
    BY <2>3, <2>4
<1>3. CASE OnPoll
  <2>1. Idle(client) /\ Ack(0, client)
    BY <1>3 DEF OnPoll, Settled, Idle
  <2>. QED
    BY <2>1, AckEnds
<1>4. CASE Disconnect
  BY <1>4 DEF Disconnect, Settled, ClientRecord
<1>. QED
  BY <1>1, <1>2, <1>3, <1>4 DEF ResponseNext

\* Every step keeps the invariant.
LEMMA EndStep == EndInv /\ [EventsNext]_allVars => EndInv'
<1>. SUFFICES ASSUME EndInv, [EventsNext]_allVars PROVE EndInv'
  OBVIOUS
<1>1. CASE UNCHANGED allVars
  BY <1>1 DEF allVars, responseVars, EndInv, Settled, ClientRecord, EndsWhenAcknowledged
<1>2. CASE kind # "events" /\ ResponseNext
  <2>1. kind' = kind
    BY <1>2 DEF ResponseNext, Send, PeerAcknowledges, OnPoll, Disconnect
  <2>. QED
    BY <1>2, <2>1, ResponseStepEnds DEF EndInv
<1>3. CASE Respond \/ EventsAcknowledged \/ EventsPoll \/ EventsDisconnect
           \/ \E len \in Lengths : Post(len)
  <2>1. kind = "events" /\ kind' = kind /\ state' \in {state, "WAIT_ACK", "EVENTS"}
    BY <1>3 DEF Respond, EventsAcknowledged, EventsPoll, EventsDisconnect, Post, Connected
  <2>. QED
    BY <2>1 DEF EndInv
<1>. QED
  BY <1>1, <1>2, <1>3 DEF EventsNext

\* When a response has ended, and its connection with it if that is what tells the peer,
\* nothing of it is still to be acknowledged.
THEOREM EndsAcknowledged == EventsSpec => []EndsWhenAcknowledged
<1>1. EndInv => EndsWhenAcknowledged
  BY DEF EndInv, EndsWhenAcknowledged
<1>. QED
  BY <1>1, EndInit, EndStep, PTL DEF EventsSpec

-----------------------------------------------------------------------------
(* The queue of an event source, and the order of what has been sent.       *)

EventRecord(m, po) ==
    /\ m = [id |-> m.id, len |-> m.len, sent |-> m.sent, acked |-> m.acked]
    /\ m.sent \in BOOLEAN /\ m.len \in Nat /\ (m.len = 0 => m.sent)
    /\ m.id \in 1 .. Len(po) /\ m.len = po[m.id]

\* A queue of events: they are in it in the order in which they were posted.
IsQueue(q, po) ==
    /\ Len(q) \in Nat /\ q = [i \in 1 .. Len(q) |-> q[i]]
    /\ \A i \in 1 .. Len(q) : EventRecord(q[i], po)
    /\ \A i, j \in 1 .. Len(q) : i < j => q[i].id < q[j].id

IsStream(st, po) ==
    /\ Len(st) \in Nat /\ DOMAIN st = 1 .. Len(st)
    /\ \A i \in 1 .. Len(st) : IsEvent(st[i]) => st[i][2] \in 1 .. Len(po)

\* An event in the stream that is still in the queue is marked as sent.
MarkedAsSent(q, st) ==
    \A i \in 1 .. Len(st), k \in 1 .. Len(q) :
        IsEvent(st[i]) /\ st[i][2] = q[k].id => q[k].sent

\* An event that waits is longer than those after it that have been sent.
WaitsForShorter(q, st, po, m) ==
    m = {} => \A i \in 1 .. Len(st), k \in 1 .. Len(q) :
        IsEvent(st[i]) /\ ~ q[k].sent /\ q[k].id < st[i][2] => po[q[k].id] > po[st[i][2]]

Overtaken(st, po, m) ==
    \A i, j \in 1 .. Len(st) :
        i < j /\ IsEvent(st[i]) /\ IsEvent(st[j]) =>
            /\ st[i][2] # st[j][2]
            /\ st[j][2] < st[i][2] /\ m = {} => po[st[j][2]] > po[st[i][2]]

EventOrder(q, st, po, m) ==
    /\ po \in Seq(Nat)
    /\ IsQueue(q, po) /\ IsStream(st, po)
    /\ MarkedAsSent(q, st) /\ WaitsForShorter(q, st, po, m) /\ Overtaken(st, po, m)

\* A suffix of the queue is as good.
LEMMA SuffixKeepsOrder ==
    ASSUME NEW q, NEW st, NEW po, NEW m, EventOrder(q, st, po, m), NEW n \in Nat, n <= Len(q)
    PROVE  EventOrder(From(q, n), st, po, m)
<1>. DEFINE r == From(q, n)
<1>1. Len(q) \in Nat
  BY DEF EventOrder, IsQueue
<1>2. r = [i \in 1 .. Len(q) - n |-> q[i + n]]
  BY <1>1 DEF From
<1>3. Len(q) - n \in Nat
  BY <1>1
<1>4. Len(r) = Len(q) - n
  BY <1>2, <1>3
<1>. HIDE DEF r
<1>5. \A i \in 1 .. Len(r) : r[i] = q[i + n] /\ i + n \in 1 .. Len(q)
  BY <1>1, <1>2, <1>4
<1>6. IsQueue(r, po)
  <2>1. r = [i \in 1 .. Len(r) |-> r[i]]
    BY <1>2, <1>4
  <2>2. \A i \in 1 .. Len(r) : EventRecord(r[i], po)
    BY <1>5 DEF EventOrder, IsQueue
  <2>3. ASSUME NEW i \in 1 .. Len(r), NEW j \in 1 .. Len(r), i < j PROVE r[i].id < r[j].id
    <3>1. i + n < j + n
      BY <2>3
    <3>. QED
      BY <1>5, <3>1 DEF EventOrder, IsQueue
  <2>. QED
    BY <1>3, <1>4, <2>1, <2>2, <2>3 DEF IsQueue
<1>7. MarkedAsSent(r, st)
  BY <1>5 DEF EventOrder, MarkedAsSent
<1>8. WaitsForShorter(r, st, po, m)
  BY <1>5 DEF EventOrder, WaitsForShorter
<1>. QED
  BY <1>6, <1>7, <1>8 DEF EventOrder, r

\* What is left when finished events have left the queue.
LEMMA UnfinishedKeepsOrder ==
    ASSUME NEW q, NEW st, NEW po, NEW m, EventOrder(q, st, po, m)
    PROVE  EventOrder(Unfinished(q), st, po, m)
<1>. DEFINE waiting == {i \in 1 .. Len(q) : ~ Finished(q[i])}
<1>1. Unfinished(q) = IF (IF waiting # {} THEN Min(waiting) ELSE 0) = 0 THEN <<>>
                      ELSE From(q, (IF waiting # {} THEN Min(waiting) ELSE 0) - 1)
  BY DEF Unfinished, SelectInSeq
<1>2. Len(q) \in Nat /\ waiting \in SUBSET Nat /\ \A i \in waiting : i \in 1 .. Len(q)
  BY DEF EventOrder, IsQueue
<1>. HIDE DEF waiting
<1>3. CASE waiting = {}
  <2>1. From(q, Len(q)) = <<>>
    BY <1>2 DEF From
  <2>. QED
    BY <1>1, <1>2, <1>3, <2>1, SuffixKeepsOrder
<1>4. CASE waiting # {}
  <2>1. Min(waiting) \in 1 .. Len(q)
    BY <1>2, <1>4, MinIsPosition
  <2>2. Unfinished(q) = From(q, Min(waiting) - 1)
    BY <1>1, <1>4, <2>1
  <2>3. Min(waiting) - 1 \in Nat /\ Min(waiting) - 1 <= Len(q)
    BY <1>2, <2>1
  <2>. QED
    BY <2>2, <2>3, SuffixKeepsOrder
<1>. QED
  BY <1>3, <1>4

\* Two queues that differ in what has been acknowledged.
LEMMA AckedKeepsOrder ==
    ASSUME NEW q, NEW st, NEW po, NEW m, EventOrder(q, st, po, m), NEW n
    PROVE  EventOrder(Acked(q, n), st, po, m)
<1>. DEFINE r == Acked(q, n)
<1>1. Len(q) \in Nat /\ DOMAIN q = 1 .. Len(q)
  BY DEF EventOrder, IsQueue
<1>2. PICK share : r = [i \in 1 .. Len(q) |-> [q[i] EXCEPT !.acked = share[i]]]
  <2>. DEFINE before(i) == FoldLeft(LAMBDA x, e : x + e.len - e.acked, 0, SubSeq(q, 1, i - 1))
              given(i) == IF n > before(i) THEN Smaller(n - before(i), q[i].len - q[i].acked) ELSE 0
              s == [i \in 1 .. Len(q) |-> q[i].acked + given(i)]
  <2>1. r = [i \in DOMAIN q |-> [q[i] EXCEPT !.acked = @ + given(i)]]
    BY DEF Acked
  <2>. HIDE DEF given
  <2>2. r = [i \in 1 .. Len(q) |-> [q[i] EXCEPT !.acked = s[i]]]
    BY <1>1, <2>1
  <2>. QED
    BY <2>2
<1>3. Len(r) = Len(q)
  BY <1>1, <1>2
<1>. HIDE DEF r
<1>4. ASSUME NEW i \in 1 .. Len(q)
      PROVE  /\ r[i].id = q[i].id /\ r[i].len = q[i].len /\ r[i].sent = q[i].sent
             /\ EventRecord(r[i], po)
  <2>1. EventRecord(q[i], po)
    BY DEF EventOrder, IsQueue
  <2>2. r[i] = [q[i] EXCEPT !.acked = share[i]]
    BY <1>2
  <2>3. r[i] = [id |-> q[i].id, len |-> q[i].len, sent |-> q[i].sent, acked |-> share[i]]
    BY <2>1, <2>2 DEF EventRecord
  <2>. QED
    BY <2>1, <2>3 DEF EventRecord
<1>5. IsQueue(r, po)
  <2>1. r = [i \in 1 .. Len(r) |-> r[i]]
    BY <1>2, <1>3
  <2>. QED
    BY <1>1, <1>3, <1>4, <2>1 DEF EventOrder, IsQueue
<1>6. MarkedAsSent(r, st)
  BY <1>3, <1>4 DEF EventOrder, MarkedAsSent
<1>7. WaitsForShorter(r, st, po, m)
  BY <1>3, <1>4 DEF EventOrder, WaitsForShorter
<1>. QED
  BY <1>5, <1>6, <1>7 DEF EventOrder, r

\* Mishaps only excuse.
LEMMA MishapsKeepOrder ==
    ASSUME NEW q, NEW st, NEW po, NEW m, EventOrder(q, st, po, m), NEW more, m \subseteq more
    PROVE  EventOrder(q, st, po, more)
<1>1. more = {} => m = {}
  OBVIOUS
<1>. QED
  BY <1>1 DEF EventOrder, WaitsForShorter, Overtaken

\* A queue that is thrown away.
LEMMA NoQueueKeepsOrder ==
    ASSUME NEW q, NEW st, NEW po, NEW m, EventOrder(q, st, po, m)
    PROVE  EventOrder(<<>>, st, po, m)
<1>1. Len(<<>>) = 0 /\ <<>> = [i \in 1 .. 0 |-> <<>>[i]]
  OBVIOUS
<1>2. \A i \in 1 .. 0 : FALSE
  OBVIOUS
<1>. QED
  BY <1>1, <1>2 DEF EventOrder, IsQueue, MarkedAsSent, WaitsForShorter

\* Bytes that are no events.
LEMMA OtherBytesKeepOrder ==
    ASSUME NEW q, NEW st, NEW po, NEW m, EventOrder(q, st, po, m),
           NEW S, st \in Seq(S), NEW out \in Seq(S), \A i \in 1 .. Len(out) : ~ IsEvent(out[i])
    PROVE  EventOrder(q, st \o out, po, m)
<1>. DEFINE t == st \o out
<1>1. /\ Len(st) \in Nat /\ Len(out) \in Nat /\ t \in Seq(S) /\ Len(t) = Len(st) + Len(out)
      /\ \A i \in 1 .. Len(st) + Len(out) : t[i] = IF i <= Len(st) THEN st[i] ELSE out[i - Len(st)]
  BY LenProperties, ConcatProperties
<1>2. DOMAIN t = 1 .. Len(t)
  BY <1>1, LenProperties
<1>. HIDE DEF t
<1>3. ASSUME NEW i \in 1 .. Len(t), IsEvent(t[i]) PROVE i \in 1 .. Len(st) /\ t[i] = st[i]
  <2>1. CASE i <= Len(st)
    BY <1>1, <2>1
  <2>2. CASE ~ i <= Len(st)
    <3>1. t[i] = out[i - Len(st)] /\ i - Len(st) \in 1 .. Len(out)
      BY <1>1, <2>2
    <3>. QED
      BY <1>3, <3>1
  <2>. QED
    BY <2>1, <2>2
<1>4. IsStream(t, po)
  BY <1>1, <1>2, <1>3 DEF EventOrder, IsStream
<1>5. MarkedAsSent(q, t)
  BY <1>3 DEF EventOrder, MarkedAsSent
<1>6. WaitsForShorter(q, t, po, m)
  BY <1>3 DEF EventOrder, WaitsForShorter
<1>7. Overtaken(t, po, m)
  BY <1>3, SMTT(30) DEF EventOrder, Overtaken
<1>. QED
  BY <1>4, <1>5, <1>6, <1>7 DEF EventOrder, t

\* A message that is posted is the last of the queue, and has not been sent.
LEMMA PostKeepsOrder ==
    ASSUME NEW q, NEW st, NEW po, NEW m, EventOrder(q, st, po, m), NEW len \in Nat,
           NEW e, e = [id |-> Len(po) + 1, len |-> len, sent |-> len = 0, acked |-> 0]
    PROVE  EventOrder(Append(q, e), st, Append(po, len), m)
<1>. DEFINE r == Append(q, e)
            p == Append(po, len)
<1>1. /\ po \in Seq(Nat) /\ IsQueue(q, po) /\ IsStream(st, po)
      /\ MarkedAsSent(q, st) /\ WaitsForShorter(q, st, po, m) /\ Overtaken(st, po, m)
  BY DEF EventOrder
<1>2. /\ p \in Seq(Nat) /\ Len(p) = Len(po) + 1 /\ Len(po) \in Nat /\ p[Len(po) + 1] = len
      /\ \A i \in 1 .. Len(po) : p[i] = po[i]
  BY <1>1, AppendProperties, LenProperties
<1>3. Len(q) \in Nat /\ DOMAIN q = 1 .. Len(q)
  BY <1>1 DEF IsQueue
<1>4. r = [i \in 1 .. Len(q) + 1 |-> IF i = Len(q) + 1 THEN e ELSE q[i]]
  BY <1>3
<1>. HIDE DEF r, p
<1>5. Len(r) = Len(q) + 1
  BY <1>3, <1>4
<1>6. r[Len(q) + 1] = e /\ \A i \in 1 .. Len(q) : r[i] = q[i]
  BY <1>3, <1>4
<1>7. e.id = Len(po) + 1 /\ e.len = len /\ e.sent = (len = 0)
  OBVIOUS
<1>8. EventRecord(e, p)
  <2>1. e = [id |-> e.id, len |-> e.len, sent |-> e.sent, acked |-> e.acked]
    OBVIOUS
  <2>2. e.sent \in BOOLEAN /\ (e.len = 0 => e.sent)
    BY <1>7
  <2>3. e.id \in 1 .. Len(p) /\ e.len = p[e.id] /\ e.len \in Nat
    BY <1>2, <1>7
  <2>. QED
    BY <2>1, <2>2, <2>3 DEF EventRecord
<1>9. ASSUME NEW i \in 1 .. Len(q) PROVE EventRecord(r[i], p) /\ q[i].id \in 1 .. Len(po)
  <2>1. EventRecord(q[i], po) /\ r[i] = q[i]
    BY <1>1, <1>6 DEF IsQueue
  <2>2. q[i].id \in 1 .. Len(po)
    BY <2>1 DEF EventRecord
  <2>3. q[i].id \in 1 .. Len(p) /\ p[q[i].id] = po[q[i].id]
    BY <1>2, <2>2
  <2>. QED
    BY <2>1, <2>2, <2>3 DEF EventRecord
<1>10. IsQueue(r, p)
  <2>1. r = [i \in 1 .. Len(r) |-> r[i]] /\ Len(r) \in Nat
    BY <1>3, <1>4, <1>5
  <2>2. ASSUME NEW i \in 1 .. Len(r) PROVE EventRecord(r[i], p)
    <3>1. i = Len(q) + 1 \/ i \in 1 .. Len(q)
      BY <1>3, <1>5
    <3>. QED
      BY <1>6, <1>8, <1>9, <3>1
  <2>3. ASSUME NEW i \in 1 .. Len(r), NEW j \in 1 .. Len(r), i < j PROVE r[i].id < r[j].id
    <3>1. i \in 1 .. Len(q) /\ (j = Len(q) + 1 \/ j \in 1 .. Len(q))
      BY <1>3, <1>5, <2>3
    <3>2. CASE j = Len(q) + 1
      <4>1. q[i].id < Len(po) + 1
        BY <1>2, <1>9, <3>1
      <4>. QED
        BY <1>6, <1>7, <3>1, <3>2, <4>1
    <3>3. CASE j \in 1 .. Len(q)
      BY <1>1, <1>6, <2>3, <3>1, <3>3 DEF IsQueue
    <3>. QED
      BY <3>1, <3>2, <3>3
  <2>. QED
    BY <2>1, <2>2, <2>3 DEF IsQueue
<1>11. IsStream(st, p)
  BY <1>1, <1>2 DEF IsStream
<1>12. ASSUME NEW i \in 1 .. Len(st), IsEvent(st[i])
       PROVE  st[i][2] \in 1 .. Len(po) /\ p[st[i][2]] = po[st[i][2]]
  BY <1>1, <1>2, <1>12 DEF IsStream
<1>13. MarkedAsSent(r, st)
  <2>. SUFFICES ASSUME NEW i \in 1 .. Len(st), NEW k \in 1 .. Len(r),
                       IsEvent(st[i]), st[i][2] = r[k].id
                PROVE  r[k].sent
    BY DEF MarkedAsSent
  <2>1. st[i][2] # Len(po) + 1
    BY <1>2, <1>12
  <2>2. k # Len(q) + 1
    BY <1>6, <1>7, <2>1
  <2>3. k \in 1 .. Len(q)
    BY <1>3, <1>5, <2>2
  <2>. QED
    BY <1>1, <1>6, <2>3 DEF MarkedAsSent
<1>14. WaitsForShorter(r, st, p, m)
  <2>. SUFFICES ASSUME m = {}, NEW i \in 1 .. Len(st), NEW k \in 1 .. Len(r),
                       IsEvent(st[i]), ~ r[k].sent, r[k].id < st[i][2]
                PROVE  p[r[k].id] > p[st[i][2]]
    BY DEF WaitsForShorter
  <2>1. st[i][2] < Len(po) + 1 /\ ~ Len(po) + 1 < st[i][2]
    BY <1>2, <1>12
  <2>2. k # Len(q) + 1
    BY <1>6, <1>7, <2>1
  <2>3. k \in 1 .. Len(q)
    BY <1>3, <1>5, <2>2
  <2>4. p[q[k].id] = po[q[k].id]
    BY <1>2, <1>9, <2>3
  <2>. QED
    BY <1>1, <1>6, <1>12, <2>3, <2>4 DEF WaitsForShorter
<1>15. Overtaken(st, p, m)
  BY <1>1, <1>12 DEF Overtaken
<1>. QED
  BY <1>2, <1>10, <1>11, <1>13, <1>14, <1>15 DEF EventOrder, r, p

\* What is left of the space: each message that is sent takes its length of it.
LEMMA SpaceAfterIs ==
    ASSUME NEW q, NEW po, IsQueue(q, po), NEW space \in Int, NEW failing,
           NEW left, left = SpaceAfter(q, space, failing)
    PROVE  /\ left \in [0 .. Len(q) -> Int] /\ left[0] = space
           /\ \A i \in 1 .. Len(q) :
                 left[i] = left[i - 1] - (IF Fits(q[i], left[i - 1]) /\ ~ q[i].sent
                                             /\ q[i].id \notin failing
                                          THEN q[i].len ELSE 0)
<1>. DEFINE n == Len(q)
            takes(i, l) == IF Fits(q[i], l) /\ ~ q[i].sent /\ q[i].id \notin failing
                           THEN q[i].len ELSE 0
            g == [x \in Int \X (1 .. n) |-> x[1] - takes(x[2], x[1])]
            Is(f) == f = [i \in 0 .. n |-> IF i = 0 THEN space ELSE f[i - 1] - takes(i, f[i - 1])]
<1>1. n \in Nat /\ \A i \in 1 .. n : q[i].len \in Nat
  BY DEF IsQueue, EventRecord
<1>2. \A i \in 1 .. n, l \in Int : takes(i, l) \in Int
  BY <1>1
<1>3. left = CHOOSE f : Is(f)
  BY DEF SpaceAfter
<1>. HIDE DEF n, takes
<1>4. g \in [Int \X (1 .. n) -> Int]
  BY <1>2
<1>5. \A l \in Int, i \in 1 .. n : g[<<l, i>>] = l - takes(i, l)
  OBVIOUS
<1>. HIDE DEF g
<1>6. PICK f \in [0 .. n -> Int] : f[0] = space /\ \A i \in 1 .. n : f[i] = g[<<f[i - 1], i>>]
  <2>1. \E f \in [0 .. n -> Int] : IsRecursion(f, n, space, g)
    BY <1>1, <1>4, RecursionExists, Zenon
  <2>. QED
    BY <2>1 DEF IsRecursion
<1>7. Is(f)
  <2>1. ASSUME NEW i \in 0 .. n
        PROVE  f[i] = IF i = 0 THEN space ELSE f[i - 1] - takes(i, f[i - 1])
    <3>1. CASE i = 0
      BY <1>6, <3>1
    <3>2. CASE i # 0
      <4>1. i \in 1 .. n /\ i - 1 \in 0 .. n
        BY <1>1, <3>2
      <4>2. f[i - 1] \in Int
        BY <4>1
      <4>. QED
        BY <1>5, <1>6, <3>2, <4>1, <4>2
    <3>. QED
      BY <3>1, <3>2
  <2>. QED
    BY <2>1
<1>8. Is(left)
  BY <1>3, <1>7
<1>9. left[0] = space /\ \A i \in 1 .. n : left[i] = left[i - 1] - takes(i, left[i - 1])
  BY <1>1, <1>8
<1>10. left \in [0 .. n -> Int]
  <2>. DEFINE T == {k \in 0 .. n : left[k] \in Int}
  <2>1. 0 \in T
    BY <1>1, <1>9
  <2>2. ASSUME NEW k \in 0 .. n - 1, k \in T PROVE k + 1 \in T
    <3>1. k + 1 \in 1 .. n /\ (k + 1) - 1 = k /\ left[k] \in Int
      BY <1>1, <2>2
    <3>2. left[k + 1] = left[k] - takes(k + 1, left[k])
      BY <1>9, <3>1
    <3>3. left[k + 1] \in Int
      <4>1. takes(k + 1, left[k]) \in Int
        BY <1>2, <3>1, Zenon
      <4>. QED
        BY <3>1, <3>2, <4>1
    <3>. QED
      BY <1>1, <3>1, <3>3
  <2>. HIDE DEF T
  <2>3. \A k \in 0 .. n : k \in T
    BY <1>1, <2>1, <2>2, Upwards
  <2>4. \A k \in 0 .. n : left[k] \in Int
    BY <2>3 DEF T
  <2>5. left = [i \in 0 .. n |-> left[i]]
    BY <1>8
  <2>. QED
    BY <2>4, <2>5
<1>. QED
  BY <1>9, <1>10 DEF n, takes

\* It does not grow.
LEMMA SpaceShrinks ==
    ASSUME NEW n \in Nat, NEW left \in [0 .. n -> Int],
           \A i \in 1 .. n : left[i] <= left[i - 1]
    PROVE  \A i, j \in 0 .. n : i <= j => left[j] <= left[i]
<1>. SUFFICES ASSUME NEW i \in 0 .. n
              PROVE  \A j \in 0 .. n : i <= j => left[j] <= left[i]
  OBVIOUS
<1>. DEFINE T == {j \in 0 .. n : i <= j => left[j] <= left[i]}
<1>1. 0 \in T
  OBVIOUS
<1>2. ASSUME NEW k \in 0 .. n - 1, k \in T PROVE k + 1 \in T
  <2>1. k + 1 \in 1 .. n /\ left[k + 1] <= left[k] /\ k \in 0 .. n /\ k + 1 \in 0 .. n
    <3>1. k + 1 \in 1 .. n /\ (k + 1) - 1 = k
      OBVIOUS
    <3>. QED
      BY <3>1
  <2>2. left[k + 1] \in Int /\ left[k] \in Int /\ left[i] \in Int
    BY <2>1
  <2>. QED
    BY <1>2, <2>1, <2>2
<1>. HIDE DEF T
<1>3. \A j \in 0 .. n : j \in T
  BY <1>1, <1>2, Upwards
<1>. QED
  BY <1>3 DEF T

AnyByte == {"head", "content", "size", "crlf", "event"} \X Nat
EventByte == {"event"} \X Nat

\* What SendMessages() makes of a queue and a stream: r, st and out, and more mishaps.
IsSending(q, st, po, m, space, failing, left, added, at, r, out, more) ==
    /\ st \in Seq(AnyByte) /\ EventOrder(q, st, po, m)
    /\ space \in Int /\ left = SpaceAfter(q, space, failing)
    /\ added = {i \in 1 .. Len(q) : left[i] # left[i - 1]}
    /\ at \in [1 .. Cardinality(added) -> added]
    /\ \A i, j \in DOMAIN at : i < j => at[i] < at[j]
    /\ r = [i \in 1 .. Len(q) |-> [q[i] EXCEPT !.sent = @ \/ left[i] # left[i - 1]]]
    /\ out = [i \in DOMAIN at |-> <<"event", q[at[i]].id>>]
    /\ m \subseteq more /\ (more = {} => failing = {})

\* What is sent in order, and each if it fits: those that are longer wait.
LEMMA SendKeepsOrder ==
    ASSUME NEW q, NEW st, NEW po, NEW m, NEW space, NEW failing, NEW left, NEW added, NEW at,
           NEW r, NEW out, NEW more,
           IsSending(q, st, po, m, space, failing, left, added, at, r, out, more)
    PROVE  EventOrder(r, st \o out, po, more) /\ out \in Seq(EventByte)
<1>. SUFFICES ASSUME st \in Seq(AnyByte), EventOrder(q, st, po, m), space \in Int,
                     left = SpaceAfter(q, space, failing),
                     added = {i \in 1 .. Len(q) : left[i] # left[i - 1]},
                     at \in [1 .. Cardinality(added) -> added],
                     \A i, j \in DOMAIN at : i < j => at[i] < at[j],
                     r = [i \in 1 .. Len(q) |-> [q[i] EXCEPT !.sent = @ \/ left[i] # left[i - 1]]],
                     out = [i \in DOMAIN at |-> <<"event", q[at[i]].id>>],
                     m \subseteq more, more = {} => failing = {}
              PROVE  EventOrder(r, st \o out, po, more) /\ out \in Seq(EventByte)
  BY DEF IsSending
<1>. DEFINE t == st \o out
            n == Len(q)
            new == Cardinality(added)
            old == Len(st)
<1>1. /\ po \in Seq(Nat) /\ IsQueue(q, po) /\ IsStream(st, po)
      /\ MarkedAsSent(q, st) /\ WaitsForShorter(q, st, po, m) /\ Overtaken(st, po, m)
  BY DEF EventOrder
<1>2. n \in Nat /\ added \in SUBSET (1 .. n) /\ \A i \in 1 .. n : EventRecord(q[i], po)
  BY <1>1 DEF IsQueue
<1>3. new \in Nat /\ DOMAIN at = 1 .. new
  <2>1. n \in Int
    BY <1>2
  <2>2. new \in Nat
    <3>. HIDE DEF n
    <3>. QED
      BY <1>2, <2>1, PositionsFinite
  <2>. QED
    BY <2>2
<1>4. /\ left \in [0 .. n -> Int]
      /\ \A i \in 1 .. n :
            left[i] = left[i - 1] - (IF Fits(q[i], left[i - 1]) /\ ~ q[i].sent
                                        /\ q[i].id \notin failing
                                     THEN q[i].len ELSE 0)
  BY <1>1, SpaceAfterIs
<1>5. ASSUME NEW i \in 1 .. n
      PROVE  /\ q[i].len \in Nat /\ left[i] \in Int /\ left[i - 1] \in Int
             /\ left[i] <= left[i - 1] /\ q[i].id \in 1 .. Len(po) /\ q[i].len = po[q[i].id]
             /\ i \in added => ~ q[i].sent /\ q[i].len <= left[i - 1]
             /\ i \notin added /\ ~ q[i].sent /\ failing = {} => left[i - 1] < q[i].len
  <2>1. /\ q[i].len \in Nat /\ q[i].id \in 1 .. Len(po) /\ q[i].len = po[q[i].id]
        /\ q[i].len = 0 => q[i].sent
    BY <1>2 DEF EventRecord
  <2>2. i \in 0 .. n /\ i - 1 \in 0 .. n
    BY <1>2
  <2>3. left[i] \in Int /\ left[i - 1] \in Int
    BY <1>4, <2>2
  <2>4. i \in added <=> left[i] # left[i - 1]
    OBVIOUS
  <2>5. left[i] = left[i - 1] - (IF q[i].len <= left[i - 1] /\ ~ q[i].sent
                                    /\ q[i].id \notin failing
                                 THEN q[i].len ELSE 0)
    BY <1>4, <2>1, <2>3 DEF Fits
  <2>. DEFINE fits == q[i].len <= left[i - 1] /\ ~ q[i].sent /\ q[i].id \notin failing
  <2>6. CASE fits
    <3>1. q[i].len # 0 /\ left[i] = left[i - 1] - q[i].len
      BY <2>1, <2>5, <2>6
    <3>2. left[i] # left[i - 1] /\ left[i] <= left[i - 1]
      BY <2>1, <2>3, <3>1
    <3>. QED
      BY <2>1, <2>3, <2>4, <2>6, <3>2
  <2>7. CASE ~ fits
    <3>1. left[i] = left[i - 1]
      BY <2>3, <2>5, <2>7
    <3>2. ~ q[i].sent /\ failing = {} => left[i - 1] < q[i].len
      BY <2>1, <2>3, <2>7
    <3>. QED
      BY <2>1, <2>3, <2>4, <3>1, <3>2
  <2>. QED
    BY <2>6, <2>7
<1>6. \A i, j \in 0 .. n : i <= j => left[j] <= left[i]
  BY <1>2, <1>4, <1>5, SpaceShrinks
<1>7. ASSUME NEW i \in 1 .. n
      PROVE  r[i].id = q[i].id /\ (r[i].sent <=> q[i].sent \/ i \in added) /\ EventRecord(r[i], po)
  <2>1. EventRecord(q[i], po)
    BY <1>2
  <2>. DEFINE b == q[i].sent \/ left[i] # left[i - 1]
  <2>2. b \in BOOLEAN
    BY <2>1 DEF EventRecord
  <2>3. r[i] = [q[i] EXCEPT !.sent = b]
    OBVIOUS
  <2>4. b <=> q[i].sent \/ i \in added
    OBVIOUS
  <2>. HIDE DEF b
  <2>5. r[i] = [id |-> q[i].id, len |-> q[i].len, sent |-> b, acked |-> q[i].acked]
    BY <2>1, <2>3 DEF EventRecord
  <2>6. r[i].id = q[i].id /\ r[i].sent = b
    BY <2>5
  <2>7. EventRecord(r[i], po)
    BY <2>1, <2>2, <2>4, <2>5 DEF EventRecord
  <2>. QED
    BY <2>4, <2>6, <2>7
<1>8. Len(r) = n
  BY <1>2
<1>9. IsQueue(r, po)
  <2>1. r = [i \in 1 .. Len(r) |-> r[i]]
    BY <1>8
  <2>. QED
    BY <1>1, <1>2, <1>7, <1>8, <2>1 DEF IsQueue
<1>10. /\ out \in Seq(EventByte) /\ Len(out) = new
       /\ \A i \in 1 .. new : out[i] = <<"event", q[at[i]].id>>
  <2>1. ASSUME NEW i \in 1 .. new PROVE q[at[i]].id \in Nat
    <3>1. at[i] \in 1 .. n
      BY <1>2, <1>3
    <3>. HIDE DEF n, new
    <3>. QED
      BY <1>5, <3>1
  <2>2. out = [i \in 1 .. new |-> <<"event", q[at[i]].id>>]
    BY <1>3
  <2>3. \A i \in 1 .. new : <<"event", q[at[i]].id>> \in EventByte
    BY <2>1 DEF EventByte
  <2>4. out \in [1 .. new -> EventByte]
    BY <2>2, <2>3
  <2>. QED
    <3>. HIDE DEF new
    <3>1. out \in Seq(EventByte)
      BY <1>3, <2>4, SeqDef
    <3>2. Len(out) = new
      BY <1>3, <2>2
    <3>. QED
      BY <2>2, <3>1, <3>2
<1>11. out \in Seq(AnyByte)
  <2>1. EventByte \subseteq AnyByte
    BY DEF EventByte, AnyByte
  <2>. QED
    BY <1>10, <2>1, SeqMonotonic
<1>12. /\ old \in Nat /\ t \in Seq(AnyByte) /\ Len(t) = old + new
       /\ \A i \in 1 .. old + new : t[i] = IF i <= old THEN st[i] ELSE out[i - old]
  BY <1>10, <1>11, LenProperties, ConcatProperties
<1>13. DOMAIN t = 1 .. Len(t)
  BY <1>12, LenProperties
<1>. HIDE DEF t, n, new, old
<1>14. ASSUME NEW i \in 1 .. old + new, i > old
       PROVE  /\ i - old \in 1 .. new /\ at[i - old] \in added /\ at[i - old] \in 1 .. n
              /\ t[i][2] = q[at[i - old]].id
  <2>1. i - old \in 1 .. new
    BY <1>3, <1>12, <1>14
  <2>2. at[i - old] \in added
    BY <2>1 DEF new
  <2>3. t[i] = <<"event", q[at[i - old]].id>>
    <3>1. i \in Int /\ old \in Nat /\ ~ i <= old
      BY <1>3, <1>12, <1>14
    <3>2. t[i] = out[i - old]
      BY <1>12, <3>1
    <3>. QED
      BY <1>10, <2>1, <3>2
  <2>. QED
    BY <1>2, <2>1, <2>2, <2>3
<1>15. ASSUME NEW i \in 1 .. old + new, ~ i > old
       PROVE  i \in 1 .. old /\ t[i] = st[i]
  <2>1. i \in 1 .. old /\ i <= old
    BY <1>3, <1>12, <1>15
  <2>. QED
    BY <1>12, <2>1
<1>16. IsStream(t, po)
  <2>1. ASSUME NEW i \in 1 .. old + new, IsEvent(t[i]) PROVE t[i][2] \in 1 .. Len(po)
    <3>1. CASE i > old
      BY <1>5, <1>14, <3>1
    <3>2. CASE ~ i > old
      BY <1>1, <1>15, <2>1, <3>2 DEF IsStream, old
    <3>. QED
      BY <3>1, <3>2
  <2>2. Len(t) \in Nat
    BY <1>3, <1>12
  <2>. QED
    BY <1>12, <1>13, <2>1, <2>2 DEF IsStream
<1>17. MarkedAsSent(r, t)
  <2>. SUFFICES ASSUME NEW i \in 1 .. old + new, NEW k \in 1 .. n,
                       IsEvent(t[i]), t[i][2] = r[k].id
                PROVE  r[k].sent
    BY <1>8, <1>12 DEF MarkedAsSent
  <2>. SUFFICES ASSUME ~ r[k].sent, t[i][2] = q[k].id PROVE FALSE
    BY <1>7
  <2>1. CASE i > old
    <3>1. at[i - old] \in added /\ at[i - old] \in 1 .. n /\ q[at[i - old]].id = q[k].id
      BY <1>14, <2>1
    <3>2. k \notin added
      BY <1>7
    <3>. DEFINE j == at[i - old]
    <3>3. j # k /\ j \in 1 .. n /\ q[j].id = q[k].id
      BY <3>1, <3>2
    <3>. HIDE DEF j
    <3>4. q[j].id \in Int /\ (j < k \/ k < j)
      BY <1>2, <1>5, <3>3
    <3>. QED
      BY <1>1, <3>3, <3>4 DEF IsQueue, n
  <2>2. CASE ~ i > old
    BY <1>1, <1>7, <1>15, <2>2 DEF MarkedAsSent, old, n
  <2>. QED
    BY <2>1, <2>2
<1>18. WaitsForShorter(r, t, po, more)
  <2>. SUFFICES ASSUME more = {}, NEW i \in 1 .. old + new, NEW k \in 1 .. n,
                       IsEvent(t[i]), ~ r[k].sent, q[k].id < t[i][2]
                PROVE  po[q[k].id] > po[t[i][2]]
    BY <1>7, <1>8, <1>12 DEF WaitsForShorter
  <2>1. k \notin added /\ ~ q[k].sent /\ failing = {} /\ m = {}
    BY <1>7
  <2>2. CASE i > old
    <3>. DEFINE j == at[i - old]
    <3>1. j \in added /\ j \in 1 .. n /\ t[i][2] = q[j].id
      BY <1>14, <2>2
    <3>. HIDE DEF j
    <3>2. k < j
      <4>1. ~ j < k /\ j # k
        <5>1. j < k => q[j].id < q[k].id
          BY <1>1, <3>1 DEF IsQueue, n
        <5>2. q[j].id \in Int /\ q[k].id \in Int
          BY <1>5, <3>1
        <5>. QED
          BY <3>1, <5>1, <5>2
      <4>. QED
        BY <3>1, <4>1
    <3>3. left[k - 1] < q[k].len /\ q[j].len <= left[j - 1]
      BY <1>5, <2>1, <3>1
    <3>4. left[j - 1] <= left[k - 1]
      <4>1. k - 1 \in 0 .. n /\ j - 1 \in 0 .. n /\ k - 1 <= j - 1
        BY <1>2, <3>1, <3>2
      <4>. QED
        BY <1>6, <4>1
    <3>5. /\ left[k - 1] \in Int /\ left[j - 1] \in Int /\ q[k].len \in Int /\ q[j].len \in Int
          /\ q[k].len = po[q[k].id] /\ q[j].len = po[q[j].id]
      <4>1. left[k - 1] \in Int /\ q[k].len \in Int /\ q[k].len = po[q[k].id]
        BY <1>5
      <4>2. left[j - 1] \in Int /\ q[j].len \in Int /\ q[j].len = po[q[j].id]
        BY <1>5, <3>1, SMTT(30)
      <4>. QED
        BY <4>1, <4>2
    <3>6. q[k].len > q[j].len
      BY <3>3, <3>4, <3>5
    <3>. QED
      BY <3>1, <3>5, <3>6
  <2>3. CASE ~ i > old
    BY <1>1, <1>15, <2>1, <2>3 DEF WaitsForShorter, old, n
  <2>. QED
    BY <2>2, <2>3
<1>19. Overtaken(t, po, more)
  <2>. SUFFICES ASSUME NEW i \in 1 .. old + new, NEW j \in 1 .. old + new,
                       i < j, IsEvent(t[i]), IsEvent(t[j])
                PROVE  /\ t[i][2] # t[j][2]
                       /\ t[j][2] < t[i][2] /\ more = {} => po[t[j][2]] > po[t[i][2]]
    BY <1>12 DEF Overtaken
  <2>1. CASE i > old
    <3>1. j > old
      BY <1>3, <1>12, <2>1
    <3>. DEFINE x == at[i - old]
                y == at[j - old]
    <3>2. x \in 1 .. n /\ y \in 1 .. n /\ t[i][2] = q[x].id /\ t[j][2] = q[y].id
      BY <1>14, <2>1, <3>1
    <3>3. x < y
      <4>1. i - old \in 1 .. new /\ j - old \in 1 .. new /\ i - old < j - old
        BY <1>12, <1>14, <2>1, <3>1
      <4>. QED
        BY <1>3, <4>1
    <3>. HIDE DEF x, y
    <3>4. q[x].id < q[y].id /\ q[x].id \in Int /\ q[y].id \in Int
      <4>1. q[x].id < q[y].id
        BY <1>1, <3>2, <3>3 DEF IsQueue, n
      <4>. QED
        BY <1>5, <3>2, <4>1
    <3>. QED
      BY <3>2, <3>4
  <2>2. CASE ~ i > old /\ j > old
    <3>. DEFINE y == at[j - old]
    <3>1. y \in added /\ y \in 1 .. n /\ t[j][2] = q[y].id
      BY <1>14, <2>2
    <3>. HIDE DEF y
    <3>2. i \in 1 .. old /\ t[i] = st[i] /\ ~ q[y].sent
      BY <1>5, <1>15, <2>2, <3>1
    <3>3. st[i][2] # q[y].id
      BY <1>1, <3>1, <3>2 DEF MarkedAsSent, old, n
    <3>4. m = {} /\ q[y].id < st[i][2] => po[q[y].id] > po[st[i][2]]
      BY <1>1, <3>1, <3>2 DEF WaitsForShorter, old, n
    <3>. QED
      BY <3>1, <3>2, <3>3, <3>4
  <2>3. CASE ~ i > old /\ ~ j > old
    <3>1. i \in 1 .. old /\ j \in 1 .. old /\ t[i] = st[i] /\ t[j] = st[j]
      BY <1>15, <2>3
    <3>2. more = {} => m = {}
      OBVIOUS
    <3>. HIDE DEF old
    <3>. QED
      BY <1>1, <3>1, <3>2 DEF Overtaken, old
  <2>. QED
    BY <2>1, <2>2, <2>3
<1>. QED
  BY <1>1, <1>9, <1>10, <1>16, <1>17, <1>18, <1>19 DEF EventOrder, t

\* A run through the queue keeps the order, and adds events to what is written.
LEMMA RunQueueKeepsOrder ==
    ASSUME NEW c, ClientRecord(c), c.unacked \in Int, NEW s, NEW polled, RunQueue(c, s, polled),
           NEW po, EventOrder(s.queue, stream, po, mishaps), stream \in Seq(AnyByte)
    PROVE  /\ ClientRecord(client') /\ client'.unacked \in Int
           /\ EventOrder(sse'.queue, stream', po, mishaps') /\ mishaps \subseteq mishaps'
           /\ \E out \in Seq(EventByte) : stream' = stream \o out
<1>1. PICK failing, left :
        /\ left = SpaceAfter(Unfinished(s.queue), Space(c), failing)
        /\ SendMessages(c, s, polled, Unfinished(s.queue), failing, left)
  BY DEF RunQueue
<1>. DEFINE q == Unfinished(s.queue)
            added == {i \in 1 .. Len(q) : left[i] # left[i - 1]}
            r == [i \in 1 .. Len(q) |-> [q[i] EXCEPT !.sent = @ \/ left[i] # left[i - 1]]]
<1>2. EventOrder(q, stream, po, mishaps)
  BY UnfinishedKeepsOrder
<1>3. Space(c) \in Int
  BY ResponseAssumption DEF Space
<1>. HIDE DEF q
<1>4. left = SpaceAfter(q, Space(c), failing) /\ sse'.queue = r
  BY <1>1 DEF q, SendMessages
<1>5. PICK at \in [1 .. Cardinality(added) -> added] :
        /\ \A i, j \in DOMAIN at : i < j => at[i] < at[j]
        /\ stream' = stream \o [i \in DOMAIN at |-> <<"event", q[at[i]].id>>]
  BY <1>1, Zenon DEF q, SendMessages
<1>6. mishaps \subseteq mishaps' /\ (mishaps' = {} => failing = {})
  BY <1>1 DEF SendMessages
<1>. DEFINE out == [i \in DOMAIN at |-> <<"event", q[at[i]].id>>]
<1>7. EventOrder(r, stream \o out, po, mishaps') /\ out \in Seq(EventByte)
  <2>. DEFINE st == stream
              m == mishaps
              more == mishaps'
              space == Space(c)
  <2>1. IsSending(q, st, po, m, space, failing, left, added, at, r, out, more)
    BY <1>2, <1>3, <1>4, <1>5, <1>6 DEF IsSending
  <2>. HIDE DEF st, m, more, space, added, r, out
  <2>2. EventOrder(r, st \o out, po, more) /\ out \in Seq(EventByte)
    BY <2>1, SendKeepsOrder
  <2>. QED
    BY <2>2 DEF st, more
<1>8. ClientRecord(client') /\ client'.unacked \in Int
  <2>1. PICK b : client' = [c EXCEPT !.unacked = c.unacked + left[0] - left[Len(q)], !.busy = b]
    BY <1>1 DEF q, SendMessages
  <2>. DEFINE u == c.unacked + left[0] - left[Len(q)]
  <2>2. u \in Int
    <3>1. left[0] \in Int /\ left[Len(q)] \in Int
      <4>1. IsQueue(q, po) /\ Len(q) \in Nat
        BY <1>2 DEF EventOrder, IsQueue
      <4>2. left \in [0 .. Len(q) -> Int]
        BY <1>3, <1>4, <4>1, SpaceAfterIs
      <4>3. 0 \in 0 .. Len(q) /\ Len(q) \in 0 .. Len(q)
        BY <4>1
      <4>. QED
        BY <4>2, <4>3
    <3>. QED
      BY <3>1
  <2>. HIDE DEF u
  <2>3. client' = [c EXCEPT !.unacked = u, !.busy = b]
    BY <2>1 DEF u
  <2>4. client' = [open |-> c.open, busy |-> b, unacked |-> u, acked |-> c.acked]
    BY <2>3 DEF ClientRecord
  <2>. QED
    BY <2>2, <2>4 DEF ClientRecord
<1>. QED
  BY <1>4, <1>5, <1>6, <1>7, <1>8

-----------------------------------------------------------------------------
(* The payload in what is written.                                           *)

PayloadByte == {"head", "content"} \X Nat
ChunkByte == {"size", "crlf"} \X Nat

\* The payload of s is p.
Carries(s, p) == Selects(s, PayloadAt(s), p)

\* As many chunks have been begun as completed.
ChunksComplete(s) == Count(s, <<"size", 1>>) = Count(s, <<"crlf", ChunkTail>>)

\* What is written is made of.
LEMMA Sets ==
    PayloadByte \subseteq AnyByte /\ ChunkByte \subseteq AnyByte /\ EventByte \subseteq AnyByte
  BY DEF PayloadByte, ChunkByte, EventByte, AnyByte

\* What the payload of a longer stream is.
LEMMA CarriesMore ==
    ASSUME NEW s \in Seq(AnyByte), NEW out \in Seq(AnyByte),
           NEW p \in Seq(AnyByte), NEW more \in Seq(AnyByte), Carries(s, p), Carries(out, more)
    PROVE  Carries(s \o out, p \o more)
<1>. DEFINE t == s \o out
            P == PayloadAt(s)
            Q == PayloadAt(out)
            R == P \cup {Len(s) + q : q \in Q}
<1>1. Selects(t, R, p \o more)
  BY SelectsMore DEF Carries
<1>2. /\ Len(s) \in Nat /\ Len(out) \in Nat /\ t \in Seq(AnyByte) /\ Len(t) = Len(s) + Len(out)
      /\ \A i \in 1 .. Len(s) + Len(out) : t[i] = IF i <= Len(s) THEN s[i] ELSE out[i - Len(s)]
      /\ DOMAIN s = 1 .. Len(s) /\ DOMAIN out = 1 .. Len(out)
  BY LenProperties, ConcatProperties
<1>3. DOMAIN t = 1 .. Len(t)
  BY <1>2, LenProperties
<1>. HIDE DEF t
<1>4. ASSUME NEW i \in 1 .. Len(t), i <= Len(s)
      PROVE  i \in PayloadAt(t) <=> i \in R
  <2>1. i \in 1 .. Len(s) /\ t[i] = s[i]
    BY <1>2, <1>4
  <2>2. i \in PayloadAt(t) <=> i \in P
    BY <1>2, <1>3, <2>1 DEF PayloadAt
  <2>3. \A q \in Q : Len(s) + q > Len(s)
    BY <1>2 DEF PayloadAt
  <2>. QED
    BY <1>2, <1>4, <2>2, <2>3
<1>5. ASSUME NEW i \in 1 .. Len(t), ~ i <= Len(s)
      PROVE  i \in PayloadAt(t) <=> i \in R
  <2>1. i - Len(s) \in 1 .. Len(out) /\ t[i] = out[i - Len(s)] /\ i = Len(s) + (i - Len(s))
    BY <1>2, <1>5
  <2>2. i \in PayloadAt(t) <=> i - Len(s) \in Q
    BY <1>2, <1>3, <2>1 DEF PayloadAt
  <2>3. i \notin P
    BY <1>2, <1>5 DEF PayloadAt
  <2>4. \A q \in Q : i = Len(s) + q => q = i - Len(s)
    BY <1>2 DEF PayloadAt
  <2>. QED
    BY <2>1, <2>2, <2>3, <2>4
<1>6. PayloadAt(t) \in SUBSET (1 .. Len(t)) /\ R \in SUBSET (1 .. Len(t))
  BY <1>1, <1>3 DEF PayloadAt, Selects
<1>7. PayloadAt(t) = R
  <2>. HIDE DEF R
  <2>. QED
    BY <1>4, <1>5, <1>6
<1>. QED
  BY <1>1, <1>7 DEF Carries, t

\* Bytes of the payload.
LEMMA AllCarried ==
    ASSUME NEW out \in Seq(PayloadByte)
    PROVE  out \in Seq(AnyByte) /\ Carries(out, out)
<1>1. out \in Seq(AnyByte)
  BY Sets, SeqMonotonic
<1>2. \A i \in 1 .. Len(out) : out[i][1] \in {"head", "content"}
  BY ElementOfSeq DEF PayloadByte
<1>3. PayloadAt(out) = 1 .. Len(out)
  BY <1>2, LenProperties DEF PayloadAt
<1>. QED
  BY <1>1, <1>3, SelectsAllOrNone DEF Carries

\* Bytes of chunks, and events, are no payload.
LEMMA NoneCarried ==
    ASSUME NEW out, out \in Seq(ChunkByte) \/ out \in Seq(EventByte)
    PROVE  out \in Seq(AnyByte) /\ Carries(out, <<>>)
<1>1. out \in Seq(AnyByte)
  BY Sets, SeqMonotonic
<1>2. \A i \in 1 .. Len(out) : out[i][1] \in {"size", "crlf", "event"}
  <2>1. CASE out \in Seq(ChunkByte)
    BY <2>1, ElementOfSeq DEF ChunkByte
  <2>2. CASE out \in Seq(EventByte)
    BY <2>2, ElementOfSeq DEF EventByte
  <2>. QED
    BY <2>1, <2>2
<1>3. PayloadAt(out) = {}
  BY <1>1, <1>2, LenProperties DEF PayloadAt
<1>. QED
  BY <1>1, <1>3, SelectsAllOrNone DEF Carries

\* A payload that is carried is the beginning of all that follows from it.
LEMMA CarriesPrefix ==
    ASSUME NEW s \in Seq(AnyByte), NEW p \in Seq(AnyByte), NEW rest \in Seq(AnyByte), Carries(s, p)
    PROVE  IsPayloadOf(s, p \o rest) /\ Cardinality(PayloadAt(s)) = Len(p)
<1>1. /\ PayloadAt(s) \in SUBSET (1 .. Len(s)) /\ Cardinality(PayloadAt(s)) = Len(p)
      /\ \A i \in PayloadAt(s) : s[i] = p[Rank(s, i)]
  BY DEF Carries, Selects, Rank
<1>2. /\ Len(s) \in Nat /\ Len(p) \in Nat /\ Len(rest) \in Nat
      /\ Len(p \o rest) = Len(p) + Len(rest)
      /\ \A i \in 1 .. Len(p) : (p \o rest)[i] = p[i]
  BY LenProperties, ConcatProperties
<1>3. ASSUME NEW i \in PayloadAt(s) PROVE Rank(s, i) \in 1 .. Len(p)
  <2>. DEFINE U == PayloadAt(s) \cap (1 .. i)
  <2>1. i \in Int /\ U \in SUBSET (1 .. i) /\ i \in U /\ IsFiniteSet(PayloadAt(s))
    <3>1. i \in 1 .. Len(s) /\ Len(s) \in Int
      BY <1>1, <1>2
    <3>2. IsFiniteSet(PayloadAt(s))
      BY <1>1, <3>1, PositionsFinite
    <3>. QED
      BY <3>1, <3>2
  <2>2. IsFiniteSet(U) /\ Cardinality(U) \in Nat
    BY <2>1, PositionsFinite
  <2>3. Cardinality(U) # 0
    BY <2>1, <2>2, FS_EmptySet
  <2>4. Cardinality(U) <= Cardinality(PayloadAt(s))
    BY <2>1, FS_Intersection
  <2>. HIDE DEF U
  <2>5. Cardinality(U) \in 1 .. Len(p)
    BY <1>1, <1>2, <2>2, <2>3, <2>4
  <2>. QED
    BY <2>5 DEF U, Rank
<1>. HIDE DEF Rank
<1>4. ASSUME NEW i \in PayloadAt(s)
      PROVE  Rank(s, i) <= Len(p \o rest) /\ s[i] = (p \o rest)[Rank(s, i)]
  BY <1>1, <1>2, <1>3
<1>. QED
  BY <1>1, <1>4 DEF IsPayloadOf

\* What a chunk begins and ends with is not of the payload.
LEMMA ChunkBytesAre ==
    /\ ChunkHeadBytes \in Seq(AnyByte) /\ ChunkTailBytes \in Seq(AnyByte)
    /\ Carries(ChunkHeadBytes, <<>>) /\ Carries(ChunkTailBytes, <<>>)
    /\ Len(ChunkHeadBytes) = ChunkHead /\ Len(ChunkTailBytes) = ChunkTail
<1>. DEFINE h == ChunkHeadBytes
            e == ChunkTailBytes
<1>1. ChunkHead \in Nat /\ ChunkTail \in Nat
  BY ResponseAssumption
<1>2. h \in [1 .. ChunkHead -> ChunkByte] /\ e \in [1 .. ChunkTail -> ChunkByte]
  BY DEF ChunkHeadBytes, ChunkTailBytes, ChunkByte
<1>3. h \in Seq(ChunkByte) /\ e \in Seq(ChunkByte)
  BY <1>1, <1>2, SeqDef
<1>4. Len(h) = ChunkHead /\ Len(e) = ChunkTail
  BY <1>1 DEF ChunkHeadBytes, ChunkTailBytes
<1>5. h \in Seq(AnyByte) /\ e \in Seq(AnyByte) /\ Carries(h, <<>>) /\ Carries(e, <<>>)
  BY <1>3, NoneCarried
<1>. QED
  BY <1>4, <1>5

\* The head, or what is left of it, and a chunk.
LEMMA ChunkCarried ==
    ASSUME NEW first \in Seq(PayloadByte), NEW part \in Seq(PayloadByte)
    PROVE  LET out == first \o (ChunkHeadBytes \o part \o ChunkTailBytes)
           IN /\ out \in Seq(AnyByte) /\ Carries(out, first \o part)
              /\ Len(out) = Len(first) + ChunkHead + Len(part) + ChunkTail
<1>. DEFINE h == ChunkHeadBytes
            e == ChunkTailBytes
<1>1. ChunkHead \in Nat /\ ChunkTail \in Nat
  BY ResponseAssumption
<1>2. /\ h \in Seq(AnyByte) /\ e \in Seq(AnyByte) /\ Carries(h, <<>>) /\ Carries(e, <<>>)
      /\ Len(h) = ChunkHead /\ Len(e) = ChunkTail
  BY ChunkBytesAre
<1>. HIDE DEF h, e
<1>3. h \in Seq(AnyByte) /\ e \in Seq(AnyByte) /\ Carries(h, <<>>) /\ Carries(e, <<>>)
  BY <1>2
<1>4. /\ first \in Seq(AnyByte) /\ part \in Seq(AnyByte)
      /\ Carries(first, first) /\ Carries(part, part)
  BY AllCarried
<1>5. <<>> \in Seq(AnyByte) /\ <<>> \o part = part /\ part \o <<>> = part
  BY <1>4, EmptySeq, ConcatEmptySeq
<1>6. /\ h \o part \in Seq(AnyByte) /\ Carries(h \o part, part)
      /\ Len(h \o part) = ChunkHead + Len(part)
  <2>1. Carries(h \o part, <<>> \o part)
    BY <1>3, <1>4, <1>5, CarriesMore
  <2>. QED
    BY <1>2, <1>3, <1>4, <1>5, <2>1, ConcatProperties
<1>7. /\ h \o part \o e \in Seq(AnyByte) /\ Carries(h \o part \o e, part)
      /\ Len(h \o part \o e) = ChunkHead + Len(part) + ChunkTail
  <2>1. Carries(h \o part \o e, part \o <<>>)
    BY <1>3, <1>4, <1>5, <1>6, CarriesMore
  <2>2. h \o part \o e \in Seq(AnyByte) /\ Len(h \o part \o e) = Len(h \o part) + Len(e)
    BY <1>3, <1>6, ConcatProperties
  <2>. QED
    BY <1>2, <1>5, <1>6, <2>1, <2>2
<1>8. /\ first \o (h \o part \o e) \in Seq(AnyByte)
      /\ Carries(first \o (h \o part \o e), first \o part)
      /\ Len(first \o (h \o part \o e)) = Len(first) + (ChunkHead + Len(part) + ChunkTail)
  BY <1>4, <1>7, CarriesMore, ConcatProperties
<1>9. Len(first) \in Nat /\ Len(part) \in Nat
  BY LenProperties
<1>. QED
  BY <1>1, <1>8, <1>9 DEF h, e

\* Bytes that are not of chunks.
LEMMA NoChunkMore ==
    ASSUME NEW s \in Seq(AnyByte), NEW out, out \in Seq(PayloadByte) \/ out \in Seq(EventByte),
           ChunksComplete(s)
    PROVE  ChunksComplete(s \o out)
<1>1. out \in Seq(AnyByte)
  BY Sets, SeqMonotonic
<1>2. \A i \in 1 .. Len(out) : out[i][1] \in {"head", "content", "event"}
  <2>1. CASE out \in Seq(PayloadByte)
    BY <2>1, ElementOfSeq DEF PayloadByte
  <2>2. CASE out \in Seq(EventByte)
    BY <2>2, ElementOfSeq DEF EventByte
  <2>. QED
    BY <2>1, <2>2
<1>. DEFINE x == <<"size", 1>>
            y == <<"crlf", ChunkTail>>
<1>3. (\A i \in 1 .. Len(out) : out[i] # x) /\ \A i \in 1 .. Len(out) : out[i] # y
  BY <1>2
<1>. HIDE DEF x, y
<1>4. Count(s \o out, x) = Count(s, x)
  <2>1. Occurrences(s \o out, x) = Occurrences(s, x)
    BY <1>1, <1>3, NoMoreOf
  <2>. QED
    BY <2>1 DEF Occurrences, Count
<1>5. Count(s \o out, y) = Count(s, y)
  <2>1. Occurrences(s \o out, y) = Occurrences(s, y)
    BY <1>1, <1>3, NoMoreOf
  <2>. QED
    BY <2>1 DEF Occurrences, Count
<1>. QED
  BY <1>4, <1>5 DEF ChunksComplete, x, y

\* A chunk has one beginning and one end.
LEMMA OneChunkMore ==
    ASSUME NEW s \in Seq(AnyByte), ChunksComplete(s),
           NEW first \in Seq(PayloadByte), NEW part \in Seq(PayloadByte)
    PROVE  ChunksComplete(s \o (first \o (ChunkHeadBytes \o part \o ChunkTailBytes)))
<1>. DEFINE h == ChunkHeadBytes
            e == ChunkTailBytes
            out == first \o (h \o part \o e)
            F == Len(first)
            P == Len(part)
            x == <<"size", 1>>
            y == <<"crlf", ChunkTail>>
<1>1. /\ out \in Seq(AnyByte) /\ Len(out) = F + ChunkHead + P + ChunkTail
      /\ F \in Nat /\ P \in Nat
  BY ChunkCarried, LenProperties
<1>2. ChunkHead \in Nat \ {0} /\ ChunkTail \in Nat \ {0}
  BY ResponseAssumption
<1>3. /\ h = [i \in 1 .. ChunkHead |-> <<"size", i>>]
      /\ e = [i \in 1 .. ChunkTail |-> <<"crlf", i>>]
      /\ Len(h) = ChunkHead /\ Len(e) = ChunkTail
  BY <1>2 DEF ChunkHeadBytes, ChunkTailBytes
<1>4. first = [i \in 1 .. F |-> first[i]] /\ part = [i \in 1 .. P |-> part[i]]
  BY LenProperties
<1>5. ASSUME NEW i \in 1 .. Len(out)
      PROVE  out[i] = IF i <= F THEN first[i]
                      ELSE IF i <= F + ChunkHead THEN <<"size", i - F>>
                      ELSE IF i <= F + ChunkHead + P THEN part[i - F - ChunkHead]
                      ELSE <<"crlf", i - F - ChunkHead - P>>
  <2>. HIDE DEF h, e
  <2>. DEFINE hp == h \o part
              all == hp \o e
  <2>1. /\ h \in Seq(AnyByte) /\ e \in Seq(AnyByte) /\ part \in Seq(AnyByte)
        /\ first \in Seq(AnyByte)
    BY ChunkBytesAre, AllCarried DEF h, e
  <2>2. /\ hp \in Seq(AnyByte) /\ Len(hp) = ChunkHead + P
        /\ \A j \in 1 .. ChunkHead + P :
              hp[j] = IF j <= ChunkHead THEN h[j] ELSE part[j - ChunkHead]
    <3>1. /\ hp \in Seq(AnyByte) /\ Len(hp) = Len(h) + Len(part)
          /\ \A j \in 1 .. Len(h) + Len(part) :
                hp[j] = IF j <= Len(h) THEN h[j] ELSE part[j - Len(h)]
      BY <2>1, ConcatProperties
    <3>. QED
      BY <1>3, <3>1
  <2>. HIDE DEF hp
  <2>3. /\ all \in Seq(AnyByte) /\ Len(all) = ChunkHead + P + ChunkTail
        /\ \A j \in 1 .. ChunkHead + P + ChunkTail :
              all[j] = IF j <= ChunkHead + P THEN hp[j] ELSE e[j - (ChunkHead + P)]
    <3>1. /\ all \in Seq(AnyByte) /\ Len(all) = Len(hp) + Len(e)
          /\ \A j \in 1 .. Len(hp) + Len(e) :
                all[j] = IF j <= Len(hp) THEN hp[j] ELSE e[j - Len(hp)]
      BY <2>1, <2>2, ConcatProperties
    <3>. QED
      BY <1>3, <2>2, <3>1
  <2>4. out = first \o all
    BY DEF hp
  <2>. HIDE DEF all, out
  <2>7. out[i] = IF i <= F THEN first[i] ELSE all[i - F]
    <3>1. \A j \in 1 .. Len(first) + Len(all) :
                out[j] = IF j <= Len(first) THEN first[j] ELSE all[j - Len(first)]
      BY <2>1, <2>3, <2>4, ConcatProperties
    <3>2. i \in 1 .. Len(first) + Len(all)
      BY <1>1, <1>2, <2>3
    <3>. QED
      BY <3>1, <3>2
  <2>. HIDE DEF F, P
  <2>8. CASE i <= F
    BY <2>7, <2>8
  <2>9. CASE ~ i <= F
    <3>. DEFINE j == i - F
    <3>1. j \in 1 .. ChunkHead + P + ChunkTail /\ out[i] = all[j]
      BY <1>1, <1>2, <2>7, <2>9
    <3>2. all[j] = IF j <= ChunkHead + P THEN hp[j] ELSE e[j - (ChunkHead + P)]
      BY <2>3, <3>1
    <3>3. CASE j <= ChunkHead
      <4>1. all[j] = h[j] /\ j \in 1 .. ChunkHead
        BY <1>1, <1>2, <2>2, <3>1, <3>2, <3>3, SMTT(30)
      <4>. QED
        BY <1>1, <1>2, <1>3, <2>9, <3>1, <3>3, <4>1
    <3>4. CASE ~ j <= ChunkHead /\ j <= ChunkHead + P
      <4>1. all[j] = part[j - ChunkHead]
        BY <1>1, <1>2, <2>2, <3>1, <3>2, <3>4
      <4>. QED
        BY <1>1, <1>2, <2>9, <3>1, <3>4, <4>1
    <3>5. CASE ~ j <= ChunkHead + P
      <4>1. j - (ChunkHead + P) \in 1 .. ChunkTail
        BY <1>1, <1>2, <3>1, <3>5
      <4>2. all[j] = <<"crlf", j - (ChunkHead + P)>>
        <5>1. all[j] = e[j - (ChunkHead + P)]
          BY <3>2, <3>5
        <5>. QED
          BY <1>3, <4>1, <5>1
      <4>3. /\ j - (ChunkHead + P) = i - F - ChunkHead - P
            /\ ~ i <= F + ChunkHead + P /\ ~ i <= F + ChunkHead
        BY <1>1, <1>2, <3>1, <3>5
      <4>. QED
        BY <2>9, <3>1, <4>2, <4>3
    <3>. QED
      BY <3>3, <3>4, <3>5
  <2>. QED
    BY <2>8, <2>9
<1>6. (\A i \in 1 .. F : first[i][1] \in {"head", "content"})
      /\ \A i \in 1 .. P : part[i][1] \in {"head", "content"}
  BY ElementOfSeq DEF PayloadByte
<1>. HIDE DEF out, F, P
<1>7. ASSUME NEW i \in 1 .. Len(out)
      PROVE  (out[i] = x <=> i = F + 1) /\ (out[i] = y <=> i = Len(out))
  <2>1. CASE i <= F
    <3>1. i \in 1 .. F /\ out[i] = first[i]
      BY <1>1, <1>2, <1>5, <2>1
    <3>2. out[i] # x /\ out[i] # y
      BY <1>6, <3>1
    <3>. QED
      BY <1>1, <1>2, <2>1, <3>2
  <2>2. CASE ~ i <= F /\ i <= F + ChunkHead
    <3>1. out[i] = <<"size", i - F>>
      BY <1>5, <2>2
    <3>2. out[i] # y /\ (out[i] = x <=> i - F = 1)
      BY <3>1
    <3>. QED
      BY <1>1, <1>2, <2>2, <3>2
  <2>3. CASE ~ i <= F + ChunkHead /\ i <= F + ChunkHead + P
    <3>1. i - F - ChunkHead \in 1 .. P /\ out[i] = part[i - F - ChunkHead]
      BY <1>1, <1>2, <1>5, <2>3
    <3>2. out[i] # x /\ out[i] # y
      BY <1>6, <3>1
    <3>. QED
      BY <1>1, <1>2, <2>3, <3>2
  <2>4. CASE ~ i <= F + ChunkHead + P
    <3>1. out[i] = <<"crlf", i - F - ChunkHead - P>>
      BY <1>1, <1>2, <1>5, <2>4
    <3>2. out[i] # x /\ (out[i] = y <=> i - F - ChunkHead - P = ChunkTail)
      BY <3>1
    <3>. QED
      BY <1>1, <1>2, <2>4, <3>2
  <2>. QED
    BY <2>1, <2>2, <2>3, <2>4
<1>8. F + 1 \in 1 .. Len(out) /\ Len(out) \in 1 .. Len(out)
  BY <1>1, <1>2
<1>. HIDE DEF x, y
<1>9. Count(s \o out, x) = Count(s, x) + 1
  <2>. DEFINE k == F + 1
  <2>1. k \in 1 .. Len(out)
    BY <1>8
  <2>2. \A i \in 1 .. Len(out) : out[i] = x <=> i = k
    BY <1>7
  <2>3. IsOnlyAt(out, x, k)
    BY <2>1, <2>2 DEF IsOnlyAt
  <2>. HIDE DEF k
  <2>4. Occurrences(s \o out, x) = Occurrences(s, x) + 1
    BY <1>1, <2>3, OneMoreOf
  <2>. QED
    BY <2>4 DEF Occurrences, Count
<1>10. Count(s \o out, y) = Count(s, y) + 1
  <2>. DEFINE k == Len(out)
  <2>1. k \in 1 .. Len(out)
    BY <1>8
  <2>2. \A i \in 1 .. Len(out) : out[i] = y <=> i = k
    BY <1>7
  <2>3. IsOnlyAt(out, y, k)
    BY <2>1, <2>2 DEF IsOnlyAt
  <2>. HIDE DEF k
  <2>4. Occurrences(s \o out, y) = Occurrences(s, y) + 1
    BY <1>1, <2>3, OneMoreOf
  <2>. QED
    BY <2>4 DEF Occurrences, Count
<1>. QED
  BY <1>9, <1>10 DEF ChunksComplete, x, y, out

\* What is left to be sent of all, after s.
Carrying(s, rest, all) ==
    /\ s \in Seq(AnyByte) /\ rest \in Seq(PayloadByte) /\ ChunksComplete(s)
    /\ \E p \in Seq(PayloadByte) : Carries(s, p) /\ p \o rest = all

\* A part of a sequence and what is behind it.
LEMMA UptoFrom ==
    ASSUME NEW S, NEW s \in Seq(S), NEW n \in Int
    PROVE  /\ Upto(s, n) \in Seq(S) /\ Len(Upto(s, n)) = IF n <= 0 THEN 0 ELSE Smaller(n, Len(s))
           /\ n >= Len(s) => Upto(s, n) = s
           /\ n <= 0 => Upto(s, n) = <<>>
           /\ n \in Nat => /\ From(s, n) \in Seq(S) /\ Upto(s, n) \o From(s, n) = s
                           /\ Len(From(s, n)) = IF n <= Len(s) THEN Len(s) - n ELSE 0
<1>. DEFINE m == Smaller(n, Len(s))
<1>1. Len(s) \in Nat /\ m \in Int /\ m <= Len(s) /\ \A i \in 1 .. Len(s) : s[i] \in S
  BY LenProperties DEF Smaller
<1>2. Upto(s, n) = SubSeq(s, 1, m)
  BY DEF Upto
<1>3. /\ n <= 0 => m <= 0
      /\ n > 0 => m >= 0
      /\ n >= Len(s) => m = Len(s)
  BY <1>1 DEF Smaller
<1>4. n <= 0 => Upto(s, n) = <<>>
  <2>. HIDE DEF m
  <2>1. m < 1 => SubSeq(s, 1, m) = <<>>
    BY <1>1, SubSeqEmpty
  <2>. QED
    BY <1>1, <1>2, <1>3, <2>1
<1>5. n >= Len(s) => Upto(s, n) = s
  BY <1>2, <1>3, SubSeqFull
<1>6. Upto(s, n) \in Seq(S) /\ Len(Upto(s, n)) = IF n <= 0 THEN 0 ELSE m
  <2>. HIDE DEF m
  <2>1. \A i \in 1 .. m : s[i] \in S
    BY <1>1
  <2>2. SubSeq(s, 1, m) \in Seq(S) /\ Len(SubSeq(s, 1, m)) = IF 1 <= m THEN m - 1 + 1 ELSE 0
    BY <1>1, <2>1, SubSeqProperties
  <2>. QED
    BY <1>1, <1>2, <1>3, <2>2
<1>7. ASSUME n \in Nat
      PROVE  /\ From(s, n) \in Seq(S) /\ Upto(s, n) \o From(s, n) = s
             /\ Len(From(s, n)) = IF n <= Len(s) THEN Len(s) - n ELSE 0
  <2>1. \A i \in n + 1 .. Len(s) : s[i] \in S
    BY <1>1, <1>7
  <2>2. /\ From(s, n) \in Seq(S)
        /\ Len(From(s, n)) = IF n + 1 <= Len(s) THEN Len(s) - (n + 1) + 1 ELSE 0
    BY <1>1, <1>7, <2>1, SubSeqProperties DEF From
  <2>3. Len(From(s, n)) = IF n <= Len(s) THEN Len(s) - n ELSE 0
    BY <1>1, <1>7, <2>2
  <2>4. CASE n <= Len(s)
    <3>1. m = n /\ 1 \in 1 .. Len(s) + 1 /\ n \in 1 - 1 .. Len(s) /\ Len(s) \in n .. Len(s)
      BY <1>1, <1>7, <2>4 DEF Smaller
    <3>2. SubSeq(s, 1, n) \o SubSeq(s, n + 1, Len(s)) = SubSeq(s, 1, Len(s))
      BY <3>1, ConcatAdjacentSubSeq
    <3>. QED
      BY <1>2, <2>2, <2>3, <3>1, <3>2, SubSeqFull DEF From
  <2>5. CASE ~ n <= Len(s)
    <3>1. From(s, n) = <<>>
      BY <1>1, <1>7, <2>5, SubSeqEmpty DEF From
    <3>2. Upto(s, n) = s
      BY <1>1, <1>5, <2>5
    <3>. QED
      BY <2>2, <2>3, <3>1, <3>2, ConcatEmptySeq
  <2>. QED
    BY <1>1, <2>4, <2>5
<1>. QED
  BY <1>4, <1>5, <1>6, <1>7

\* Three parts of the payload.
LEMMA PayloadAssociative ==
    ASSUME NEW a \in Seq(PayloadByte), NEW b \in Seq(PayloadByte), NEW d \in Seq(PayloadByte)
    PROVE  (a \o b) \o d = a \o (b \o d)
  BY ConcatAssociative

\* Nothing is written yet.
LEMMA CarryStart ==
    ASSUME NEW all \in Seq(PayloadByte)
    PROVE  Carrying(<<>>, all, all)
<1>1. <<>> \in Seq(AnyByte) /\ <<>> \in Seq(PayloadByte) /\ <<>> \o all = all
  BY EmptySeq, ConcatEmptySeq
<1>2. Carries(<<>>, <<>>)
  BY <1>1, AllCarried
<1>3. ChunksComplete(<<>>)
  <2>1. DOMAIN <<>> = {}
    OBVIOUS
  <2>. QED
    BY <2>1 DEF ChunksComplete, Count
<1>. QED
  BY <1>1, <1>2, <1>3 DEF Carrying

\* Some of the payload is written,
LEMMA CarryMore ==
    ASSUME NEW s, NEW out \in Seq(AnyByte), NEW more \in Seq(PayloadByte),
           NEW rest \in Seq(PayloadByte), NEW all, Carrying(s, more \o rest, all),
           Carries(out, more), ChunksComplete(s \o out)
    PROVE  Carrying(s \o out, rest, all)
<1>1. PICK p \in Seq(PayloadByte) : Carries(s, p) /\ p \o (more \o rest) = all
  BY DEF Carrying
<1>2. s \in Seq(AnyByte) /\ more \in Seq(AnyByte) /\ p \in Seq(AnyByte)
  BY AllCarried DEF Carrying
<1>3. Carries(s \o out, p \o more)
  BY <1>1, <1>2, CarriesMore
<1>4. p \o more \in Seq(PayloadByte)
  BY ConcatProperties
<1>5. (p \o more) \o rest = all
  <2>1. (p \o more) \o rest = p \o (more \o rest)
    BY PayloadAssociative
  <2>. QED
    BY <1>1, <2>1
<1>6. s \o out \in Seq(AnyByte)
  BY <1>2, ConcatProperties
<1>. QED
  BY <1>3, <1>4, <1>5, <1>6 DEF Carrying

\* as it is,
LEMMA CarryOn ==
    ASSUME NEW s, NEW out \in Seq(PayloadByte), NEW rest \in Seq(PayloadByte), NEW all,
           Carrying(s, out \o rest, all)
    PROVE  Carrying(s \o out, rest, all)
<1>1. s \in Seq(AnyByte) /\ out \in Seq(AnyByte) /\ ChunksComplete(s) /\ Carries(out, out)
  BY AllCarried DEF Carrying
<1>2. ChunksComplete(s \o out)
  BY <1>1, NoChunkMore
<1>. QED
  BY <1>1, <1>2, CarryMore

\* or with a chunk,
LEMMA CarryChunk ==
    ASSUME NEW s, NEW first \in Seq(PayloadByte), NEW part \in Seq(PayloadByte),
           NEW rest \in Seq(PayloadByte), NEW all, Carrying(s, (first \o part) \o rest, all)
    PROVE  Carrying(s \o (first \o (ChunkHeadBytes \o part \o ChunkTailBytes)), rest, all)
<1>. DEFINE out == first \o (ChunkHeadBytes \o part \o ChunkTailBytes)
            more == first \o part
<1>1. /\ s \in Seq(AnyByte) /\ out \in Seq(AnyByte) /\ ChunksComplete(s)
      /\ Carries(out, more)
  BY ChunkCarried DEF Carrying
<1>2. more \in Seq(PayloadByte)
  BY ConcatProperties
<1>3. ChunksComplete(s \o out)
  BY <1>1, OneChunkMore
<1>4. Carrying(s, more \o rest, all)
  OBVIOUS
<1>. HIDE DEF out, more
<1>5. Carrying(s \o out, rest, all)
  BY <1>1, <1>2, <1>3, <1>4, CarryMore
<1>. QED
  BY <1>5 DEF out

\* or events, which are no payload.
LEMMA CarryEvents ==
    ASSUME NEW s, NEW out \in Seq(EventByte), NEW rest, NEW all, Carrying(s, rest, all)
    PROVE  Carrying(s \o out, rest, all)
<1>1. PICK p \in Seq(PayloadByte) : Carries(s, p) /\ p \o rest = all
  BY DEF Carrying
<1>2. /\ s \in Seq(AnyByte) /\ out \in Seq(AnyByte) /\ p \in Seq(AnyByte)
      /\ ChunksComplete(s) /\ Carries(out, <<>>) /\ <<>> \in Seq(AnyByte) /\ p \o <<>> = p
  BY AllCarried, NoneCarried, EmptySeq, ConcatEmptySeq DEF Carrying
<1>3. Carries(s \o out, p)
  <2>1. Carries(s \o out, p \o <<>>)
    BY <1>1, <1>2, CarriesMore
  <2>. QED
    BY <1>2, <2>1
<1>4. s \o out \in Seq(AnyByte) /\ ChunksComplete(s \o out)
  BY <1>2, ConcatProperties, NoChunkMore
<1>. QED
  BY <1>1, <1>3, <1>4 DEF Carrying

\* What has been written is the beginning of all, and all if nothing is left.
LEMMA CarryingIsPayload ==
    ASSUME NEW s, NEW rest, NEW all, Carrying(s, rest, all)
    PROVE  /\ IsPayloadOf(s, all) /\ Count(s, <<"size", 1>>) = Count(s, <<"crlf", ChunkTail>>)
           /\ rest = <<>> => Cardinality(PayloadAt(s)) = Len(all)
<1>1. PICK p \in Seq(PayloadByte) : Carries(s, p) /\ p \o rest = all
  BY DEF Carrying
<1>2. s \in Seq(AnyByte) /\ p \in Seq(AnyByte) /\ rest \in Seq(AnyByte)
  BY AllCarried DEF Carrying
<1>3. IsPayloadOf(s, all) /\ Cardinality(PayloadAt(s)) = Len(p)
  BY <1>1, <1>2, CarriesPrefix
<1>4. rest = <<>> => p = all
  BY <1>1, <1>2, ConcatEmptySeq
<1>. QED
  BY <1>3, <1>4 DEF Carrying, ChunksComplete

-----------------------------------------------------------------------------
(* An event stream: the head, and then events. *)

SseRecord(s) ==
    s = [queue |-> s.queue, counted |-> s.counted, unsent |-> s.unsent, flight |-> s.flight]

\* What is left of the head of an event stream.
HeadLeft(st) == IF st = "SETUP" THEN HeadBytes ELSE <<>>

EventsInv ==
    kind = "events" =>
        /\ ClientRecord(client) /\ client.unacked \in Int
        /\ SseRecord(sse) /\ head = HeadBytes /\ stream \in Seq(AnyByte)
        /\ EventOrder(sse.queue, stream, posted, mishaps)
        /\ mishaps = {} => Carrying(stream, HeadLeft(state), HeadBytes)

\* The head and the content.
LEMMA PayloadIs ==
    /\ HeadBytes \in Seq(PayloadByte) /\ ContentBytes \in Seq(PayloadByte)
    /\ Len(HeadBytes) = HeadLength /\ Len(ContentBytes) = ContentLength
<1>1. HeadLength \in Nat /\ ContentLength \in Nat
  BY ResponseAssumption
<1>2. /\ HeadBytes = [i \in 1 .. HeadLength |-> <<"head", i>>]
      /\ ContentBytes = [i \in 1 .. ContentLength |-> <<"content", i>>]
  BY DEF HeadBytes, ContentBytes, Bytes
<1>3. /\ HeadBytes \in [1 .. HeadLength -> PayloadByte]
      /\ ContentBytes \in [1 .. ContentLength -> PayloadByte]
  BY <1>1, <1>2 DEF PayloadByte
<1>4. HeadBytes \in Seq(PayloadByte) /\ ContentBytes \in Seq(PayloadByte)
  BY <1>1, <1>3, SeqDef
<1>. QED
  BY <1>1, <1>2, <1>4

\* Without events there is no order to keep.
LEMMA OrderStart == EventOrder(<<>>, <<>>, <<>>, {})
<1>1. /\ <<>> \in Seq(Nat) /\ Len(<<>>) = 0 /\ DOMAIN <<>> = 1 .. 0
      /\ <<>> = [i \in 1 .. 0 |-> <<>>[i]] /\ \A i \in 1 .. 0 : FALSE
  BY EmptySeq
<1>. QED
  BY <1>1 DEF EventOrder, IsQueue, IsStream, MarkedAsSent, WaitsForShorter, Overtaken

\* A stream begins with nothing written and nothing posted.
LEMMA EventsStart == EventsInit => EventsInv
<1>. SUFFICES ASSUME EventsInit, kind = "events" PROVE EventsInv
  BY DEF EventsInv
<1>1. ResponseStart /\ posted = <<>> /\ sse.queue = <<>> /\ SseRecord(sse)
  BY DEF EventsInit, ResponseInit, SseRecord
<1>2. state = "SETUP" /\ head = HeadBytes /\ stream = <<>> /\ mishaps = {}
  BY <1>1 DEF ResponseStart
<1>3. ClientRecord(client) /\ client.unacked \in Int
  <2>1. PICK n \in 0 .. Before :
          client = [open |-> TRUE, busy |-> n > 0, unacked |-> n, acked |-> 0]
    BY <1>1 DEF ResponseStart
  <2>. DEFINE b == n > 0
  <2>2. client = [open |-> TRUE, busy |-> b, unacked |-> n, acked |-> 0] /\ n \in Int
    BY <2>1, ResponseAssumption
  <2>. HIDE DEF b
  <2>. QED
    BY <2>2 DEF ClientRecord
<1>4. Carrying(<<>>, HeadBytes, HeadBytes) /\ stream \in Seq(AnyByte)
  BY <1>2, PayloadIs, CarryStart, EmptySeq
<1>. QED
  BY <1>1, <1>2, <1>3, <1>4, OrderStart DEF EventsInv, HeadLeft

\* The head is written, as much of it as there is room for.
LEMMA RespondKeepsOrder ==
    ASSUME EventsInv, Respond
    PROVE  EventsInv'
<1>1. /\ ClientRecord(client) /\ client.unacked \in Int
      /\ SseRecord(sse) /\ head = HeadBytes /\ stream \in Seq(AnyByte)
      /\ EventOrder(sse.queue, stream, posted, mishaps)
      /\ mishaps = {} => Carrying(stream, HeadBytes, HeadBytes)
  BY DEF EventsInv, Respond, HeadLeft
<1>2. /\ kind' = kind /\ head' = head /\ posted' = posted /\ state' = "WAIT_ACK"
      /\ sse' = [sse EXCEPT !.counted = @ + client'.unacked - client.unacked,
                            !.flight = client'.unacked]
  BY DEF Respond
<1>0. PICK ok \in BOOLEAN :
        LET out == IF ok THEN Upto(head, Space(client)) ELSE <<>>
        IN  /\ stream' = stream \o out
            /\ client' = IF out = <<>> THEN client
                         ELSE [client EXCEPT !.busy = TRUE, !.unacked = @ + Len(out)]
            /\ mishaps' = mishaps
                           \cup (IF Space(client) < Len(head) THEN {"head cut"} ELSE {})
                           \cup (IF ok THEN {} ELSE {"write failed"})
  BY DEF Respond, Write
<1>. DEFINE out == IF ok THEN Upto(head, Space(client)) ELSE <<>>
<1>3. /\ ok \in BOOLEAN
      /\ out = IF ok THEN Upto(head, Space(client)) ELSE <<>>
      /\ stream' = stream \o out
      /\ client' = IF out = <<>> THEN client
                   ELSE [client EXCEPT !.busy = TRUE, !.unacked = @ + Len(out)]
      /\ mishaps' = mishaps \cup (IF Space(client) < Len(head) THEN {"head cut"} ELSE {})
                            \cup (IF ok THEN {} ELSE {"write failed"})
  BY <1>0
<1>. HIDE DEF out
<1>4. Space(client) \in Int
  BY <1>1, ResponseAssumption DEF Space
<1>5. out \in Seq(PayloadByte) /\ Len(out) \in Nat
  <2>1. Upto(head, Space(client)) \in Seq(PayloadByte)
    BY <1>1, <1>4, PayloadIs, UptoFrom
  <2>2. out \in Seq(PayloadByte)
    BY <1>3, <2>1, EmptySeq
  <2>. QED
    BY <2>2, LenProperties
<1>6. ClientRecord(client') /\ client'.unacked \in Int
  <2>1. CASE out = <<>>
    BY <1>1, <1>3, <2>1
  <2>2. CASE out # <<>>
    <3>. DEFINE u == client.unacked + Len(out)
    <3>1. client' = [client EXCEPT !.busy = TRUE, !.unacked = u] /\ u \in Int
      <4>1. u \in Int
        BY <1>1, <1>5
      <4>2. client' = [client EXCEPT !.busy = TRUE, !.unacked = u]
        BY <1>3, <2>2
      <4>. QED
        BY <4>1, <4>2
    <3>. HIDE DEF u
    <3>2. client' = [open |-> client.open, busy |-> TRUE, unacked |-> u, acked |-> client.acked]
      BY <1>1, <3>1 DEF ClientRecord
    <3>. QED
      BY <3>1, <3>2 DEF ClientRecord
  <2>. QED
    BY <2>1, <2>2
<1>7. SseRecord(sse') /\ sse'.queue = sse.queue
  BY <1>1, <1>2 DEF SseRecord
<1>8. EventOrder(sse.queue, stream', posted, mishaps') /\ stream' \in Seq(AnyByte)
  <2>1. out \in Seq(AnyByte) /\ \A i \in 1 .. Len(out) : ~ IsEvent(out[i])
    <3>1. \A i \in 1 .. Len(out) : out[i] \in PayloadByte
      BY <1>5, ElementOfSeq
    <3>. QED
      BY <1>5, <3>1, AllCarried DEF PayloadByte, IsEvent
  <2>2. EventOrder(sse.queue, stream \o out, posted, mishaps)
    BY <1>1, <2>1, OtherBytesKeepOrder
  <2>3. mishaps \subseteq mishaps'
    BY <1>3
  <2>4. EventOrder(sse.queue, stream \o out, posted, mishaps')
    BY <2>2, <2>3, MishapsKeepOrder
  <2>. QED
    BY <1>1, <1>3, <2>1, <2>4, ConcatProperties
<1>9. ASSUME mishaps' = {} PROVE Carrying(stream', <<>>, HeadBytes)
  <2>1. ok /\ ~ Space(client) < Len(head) /\ mishaps = {}
    BY <1>3, <1>9
  <2>2. out = HeadBytes
    <3>1. Len(HeadBytes) \in Nat /\ Space(client) >= Len(HeadBytes)
      BY <1>1, <1>4, <2>1, PayloadIs, LenProperties
    <3>. QED
      BY <1>1, <1>3, <1>4, <2>1, <3>1, PayloadIs, UptoFrom
  <2>3. HeadBytes \o <<>> = HeadBytes /\ <<>> \in Seq(PayloadByte)
    BY PayloadIs, ConcatEmptySeq, EmptySeq
  <2>4. Carrying(stream \o HeadBytes, <<>>, HeadBytes)
    BY <1>1, <2>1, <2>3, PayloadIs, CarryOn
  <2>. QED
    BY <1>3, <2>2, <2>4
<1>. QED
  BY <1>1, <1>2, <1>6, <1>7, <1>8, <1>9 DEF EventsInv, HeadLeft

\* A run through the queue, after which the state is the same: the head has been written.
LEMMA RunQueueKeepsEvents ==
    ASSUME NEW c, ClientRecord(c), c.unacked \in Int, NEW s, NEW polled, RunQueue(c, s, polled),
           EventOrder(s.queue, stream, posted', mishaps), stream \in Seq(AnyByte),
           mishaps = {} => Carrying(stream, HeadLeft(state), HeadBytes),
           head = HeadBytes, UNCHANGED <<kind, state, head>>
    PROVE  EventsInv'
<1>1. /\ ClientRecord(client') /\ client'.unacked \in Int
      /\ EventOrder(sse'.queue, stream', posted', mishaps') /\ mishaps \subseteq mishaps'
      /\ \E out \in Seq(EventByte) : stream' = stream \o out
  BY RunQueueKeepsOrder
<1>2. SseRecord(sse')
  <2>1. PICK queue, failing, left : SendMessages(c, s, polled, queue, failing, left)
    BY DEF RunQueue
  <2>2. \E q, n, u, f : sse' = [queue |-> q, counted |-> n, unsent |-> u, flight |-> f]
    BY <2>1 DEF SendMessages
  <2>. QED
    BY <2>2 DEF SseRecord
<1>3. PICK out \in Seq(EventByte) : stream' = stream \o out
  BY <1>1
<1>4. stream' \in Seq(AnyByte)
  BY <1>3, NoneCarried, ConcatProperties
<1>5. mishaps' = {} => Carrying(stream', HeadLeft(state), HeadBytes)
  BY <1>1, <1>3, CarryEvents
<1>. QED
  BY <1>1, <1>2, <1>4, <1>5 DEF EventsInv, HeadLeft

\* A client that is freed.
LEMMA FreedRecord ==
    ASSUME NEW c, ClientRecord(c), NEW d, d = [c EXCEPT !.busy = FALSE, !.acked = 0]
    PROVE  ClientRecord(d) /\ d.unacked = c.unacked
<1>1. d = [open |-> c.open, busy |-> FALSE, unacked |-> c.unacked, acked |-> 0]
  BY DEF ClientRecord
<1>. QED
  BY <1>1 DEF ClientRecord

\* An acknowledgement is given to the events of the queue, and more of them are sent.
LEMMA EventsAcknowledgedKeepsOrder ==
    ASSUME EventsInv, EventsAcknowledged
    PROVE  EventsInv'
<1>1. /\ ClientRecord(client) /\ client.unacked \in Int
      /\ SseRecord(sse) /\ head = HeadBytes /\ stream \in Seq(AnyByte)
      /\ EventOrder(sse.queue, stream, posted, mishaps)
      /\ mishaps = {} => Carrying(stream, HeadLeft(state), HeadBytes)
  BY DEF EventsInv, EventsAcknowledged
<1>2. kind' = kind /\ head' = head /\ posted' = posted
  BY DEF EventsAcknowledged
<1>. DEFINE c(n) == [client EXCEPT !.unacked = @ - n, !.acked = @ + n]
            s(n) == [sse EXCEPT !.counted = @ - n, !.flight = client.unacked - n]
            free(n) == [c(n) EXCEPT !.busy = FALSE, !.acked = 0]
<1>3. PICK n \in 1 .. sse.flight :
        IF s(n).counted # 0
        THEN client' = c(n) /\ sse' = s(n) /\ UNCHANGED <<state, stream, mishaps>>
        ELSE IF state = "EVENTS"
        THEN /\ RunQueue(free(n), [s(n) EXCEPT !.queue = Acked(@, c(n).acked)], FALSE)
             /\ UNCHANGED state
        ELSE /\ client' = free(n) /\ sse' = s(n)
             /\ state' = IF state = "WAIT_ACK" THEN "EVENTS" ELSE state
             /\ UNCHANGED <<stream, mishaps>>
  BY Zenon DEF EventsAcknowledged
<1>4. n \in Int
  OBVIOUS
<1>5. ClientRecord(c(n)) /\ c(n).unacked \in Int
  <2>. DEFINE u == client.unacked - n
              a == client.acked + n
  <2>1. u \in Int
    BY <1>1, <1>4
  <2>2. c(n) = [client EXCEPT !.unacked = u, !.acked = a]
    OBVIOUS
  <2>. HIDE DEF u, a, c
  <2>3. c(n) = [open |-> client.open, busy |-> client.busy, unacked |-> u, acked |-> a]
    BY <1>1, <2>2 DEF ClientRecord
  <2>. QED
    BY <2>1, <2>3 DEF ClientRecord
<1>6. ClientRecord(free(n)) /\ free(n).unacked \in Int
  <2>1. free(n) = [c(n) EXCEPT !.busy = FALSE, !.acked = 0]
    OBVIOUS
  <2>. HIDE DEF c, free
  <2>2. ClientRecord(free(n)) /\ free(n).unacked = c(n).unacked
    BY <1>5, <2>1, FreedRecord
  <2>. QED
    BY <1>5, <2>2
<1>7. SseRecord(s(n)) /\ s(n).queue = sse.queue
  <2>. DEFINE k == sse.counted - n
              f == client.unacked - n
              d == s(n)
  <2>1. d = [sse EXCEPT !.counted = k, !.flight = f]
    OBVIOUS
  <2>. HIDE DEF k, f, d
  <2>2. SseRecord(d) /\ d.queue = sse.queue
    <3>1. d = [queue |-> sse.queue, counted |-> k, unsent |-> sse.unsent, flight |-> f]
      BY <1>1, <2>1 DEF SseRecord
    <3>. QED
      BY <3>1 DEF SseRecord
  <2>. QED
    BY <2>2 DEF d
<1>. HIDE DEF c, s, free
<1>8. CASE s(n).counted # 0
  <2>1. client' = c(n) /\ sse' = s(n) /\ UNCHANGED <<state, stream, mishaps>>
    BY <1>3, <1>8
  <2>. QED
    BY <1>1, <1>2, <1>5, <1>7, <2>1 DEF EventsInv, HeadLeft
<1>9. CASE s(n).counted = 0 /\ state = "EVENTS"
  <2>. DEFINE more == [s(n) EXCEPT !.queue = Acked(@, c(n).acked)]
              a == c(n).acked
              f == free(n)
  <2>1. RunQueue(f, more, FALSE) /\ state' = state
    BY <1>3, <1>9
  <2>2. more.queue = Acked(sse.queue, a)
    BY <1>7 DEF SseRecord
  <2>3. EventOrder(Acked(sse.queue, a), stream, posted, mishaps)
    <3>. HIDE DEF a
    <3>. QED
      BY <1>1, AckedKeepsOrder
  <2>4. EventOrder(more.queue, stream, posted', mishaps)
    BY <1>2, <2>2, <2>3
  <2>. HIDE DEF more, f
  <2>5. ClientRecord(f) /\ f.unacked \in Int
    BY <1>6 DEF f
  <2>. QED
    BY <1>1, <1>2, <2>1, <2>4, <2>5, RunQueueKeepsEvents
<1>10. CASE s(n).counted = 0 /\ state # "EVENTS"
  <2>1. client' = free(n) /\ sse' = s(n) /\ UNCHANGED <<stream, mishaps>>
    BY <1>3, <1>10
  <2>2. HeadLeft(state') = HeadLeft(state)
    BY <1>3, <1>10 DEF HeadLeft
  <2>. QED
    BY <1>1, <1>2, <1>6, <1>7, <2>1, <2>2 DEF EventsInv
<1>. QED
  BY <1>8, <1>9, <1>10

\* A message is posted, or dropped when the queue is full.
LEMMA PostKeepsEvents ==
    ASSUME EventsInv, NEW len \in Lengths, Post(len)
    PROVE  EventsInv'
<1>1. /\ ClientRecord(client) /\ client.unacked \in Int
      /\ SseRecord(sse) /\ head = HeadBytes /\ stream \in Seq(AnyByte)
      /\ EventOrder(sse.queue, stream, posted, mishaps)
      /\ mishaps = {} => Carrying(stream, HeadLeft(state), HeadBytes)
  BY DEF EventsInv, Post, Connected
<1>2. UNCHANGED <<kind, state, head>> /\ len \in Nat
  BY EventAssumption DEF Post
<1>. DEFINE full == Len(sse.queue) >= MaxQueued
            s == IF full THEN sse ELSE [sse EXCEPT !.queue = Append(@, Message(len))]
<1>3. /\ posted' = IF full THEN posted ELSE Append(posted, len)
      /\ IF CanSend(client) THEN RunQueue(client, s, FALSE)
         ELSE sse' = s /\ UNCHANGED <<client, stream, mishaps>>
  BY DEF Post
<1>4. EventOrder(s.queue, stream, posted', mishaps) /\ SseRecord(s)
  <2>1. CASE full
    BY <1>1, <1>3, <2>1
  <2>2. CASE ~ full
    <3>. DEFINE e == Message(len)
    <3>1. e = [id |-> Len(posted) + 1, len |-> len, sent |-> len = 0, acked |-> 0]
      BY DEF Message
    <3>. HIDE DEF e
    <3>2. EventOrder(Append(sse.queue, e), stream, Append(posted, len), mishaps)
      <4>. DEFINE q == sse.queue
                  st == stream
                  po == posted
                  m == mishaps
      <4>1. /\ EventOrder(q, st, po, m)
            /\ e = [id |-> Len(po) + 1, len |-> len, sent |-> len = 0, acked |-> 0]
        BY <1>1, <3>1
      <4>. HIDE DEF q, st, po, m
      <4>2. EventOrder(Append(q, e), st, Append(po, len), m)
        BY <1>2, <4>1, PostKeepsOrder
      <4>. QED
        BY <4>2 DEF q, st, po, m
    <3>3. s = [sse EXCEPT !.queue = Append(@, e)] /\ posted' = Append(posted, len)
      BY <1>3, <2>2 DEF e
    <3>. HIDE DEF s
    <3>4. s = [queue |-> Append(sse.queue, e), counted |-> sse.counted, unsent |-> sse.unsent,
               flight |-> sse.flight]
      BY <1>1, <3>3 DEF SseRecord
    <3>. QED
      BY <3>2, <3>3, <3>4 DEF SseRecord
  <2>. QED
    BY <2>1, <2>2
<1>. HIDE DEF s
<1>5. CASE CanSend(client)
  BY <1>1, <1>2, <1>3, <1>4, <1>5, RunQueueKeepsEvents
<1>6. CASE ~ CanSend(client)
  BY <1>1, <1>2, <1>3, <1>4, <1>6 DEF EventsInv, HeadLeft
<1>. QED
  BY <1>5, <1>6

\* A poll, and the end of the connection.
LEMMA PollAndEndKeepEvents ==
    ASSUME EventsInv, EventsPoll \/ EventsDisconnect
    PROVE  EventsInv'
<1>1. /\ ClientRecord(client) /\ client.unacked \in Int
      /\ SseRecord(sse) /\ head = HeadBytes /\ stream \in Seq(AnyByte)
      /\ EventOrder(sse.queue, stream, posted, mishaps)
      /\ mishaps = {} => Carrying(stream, HeadLeft(state), HeadBytes)
  BY DEF EventsInv, EventsPoll, EventsDisconnect, Connected
<1>2. CASE EventsPoll
  <2>1. RunQueue(client, sse, TRUE) /\ UNCHANGED <<kind, state, head, posted>>
    BY <1>2 DEF EventsPoll
  <2>2. EventOrder(sse.queue, stream, posted', mishaps)
    BY <1>1, <2>1
  <2>. QED
    BY <1>1, <2>1, <2>2, RunQueueKeepsEvents
<1>3. CASE EventsDisconnect
  <2>1. /\ client' = [client EXCEPT !.open = FALSE] /\ sse' = [sse EXCEPT !.queue = <<>>]
        /\ UNCHANGED <<kind, state, head, stream, mishaps, posted>>
    BY <1>3 DEF EventsDisconnect
  <2>2. ClientRecord(client') /\ client'.unacked \in Int
    BY <1>1, <2>1 DEF ClientRecord
  <2>3. SseRecord(sse') /\ sse'.queue = <<>>
    BY <1>1, <2>1 DEF SseRecord
  <2>4. EventOrder(<<>>, stream, posted, mishaps)
    BY <1>1, NoQueueKeepsOrder
  <2>. QED
    BY <1>1, <2>1, <2>2, <2>3, <2>4 DEF EventsInv, HeadLeft
<1>. QED
  BY <1>2, <1>3

\* Every step keeps the order of the events.
LEMMA EventsStep == EventsInv /\ [EventsNext]_allVars => EventsInv'
<1>. SUFFICES ASSUME EventsInv, [EventsNext]_allVars PROVE EventsInv'
  OBVIOUS
<1>1. CASE UNCHANGED allVars
  BY <1>1 DEF allVars, responseVars, eventVars, EventsInv, HeadLeft
<1>2. CASE kind # "events" /\ ResponseNext
  <2>1. kind' = kind
    BY <1>2 DEF ResponseNext, Send, PeerAcknowledges, OnPoll, Disconnect
  <2>. QED
    BY <1>2, <2>1 DEF EventsInv
<1>. QED
  BY <1>1, <1>2, RespondKeepsOrder, EventsAcknowledgedKeepsOrder, PostKeepsEvents,
     PollAndEndKeepEvents DEF EventsNext

\* An event of a stream is sent once, and only overtaken by shorter ones.
LEMMA OrderIsKept == EventsInv => OvertakenByShorterOnly
<1>. SUFFICES ASSUME EventsInv, kind = "events",
                     NEW i \in DOMAIN stream, NEW j \in DOMAIN stream,
                     i < j, IsEvent(stream[i]), IsEvent(stream[j])
              PROVE  /\ stream[i][2] # stream[j][2]
                     /\ stream[j][2] < stream[i][2] /\ mishaps = {} =>
                           posted[stream[j][2]] > posted[stream[i][2]]
  BY DEF OvertakenByShorterOnly
<1>1. DOMAIN stream = 1 .. Len(stream) /\ Overtaken(stream, posted, mishaps)
  BY DEF EventsInv, EventOrder, IsStream
<1>. QED
  BY <1>1 DEF Overtaken

\* Whatever the lengths of the events, the send buffer, the acknowledgements and polls.
THEOREM EventsInOrder == EventsSpec => []OvertakenByShorterOnly
  BY EventsStart, EventsStep, OrderIsKept, PTL DEF EventsSpec

-----------------------------------------------------------------------------
(* A response whose content is written as it is. *)

\* The client has room for what is left of the send buffer.
RoomInv(c) == ClientRecord(c) /\ c.unacked \in 0 .. SndBuf

Counted(k) ==
    /\ k = [content |-> k.content, sent |-> k.sent, acked |-> k.acked, written |-> k.written]
    /\ k.content \in Int /\ k.sent \in Int

\* As long as a response is in hand, its head and content are what is left of it.
InHand == {"SETUP", "HEADERS", "CONTENT"}
All == HeadBytes \o ContentBytes

BodyInv ==
    /\ head \in Seq(PayloadByte) /\ content \in Seq(PayloadByte)
    /\ state = "CONTENT" => head = <<>>
    /\ Carrying(stream, IF state \in InHand THEN head \o content ELSE <<>>, All)

\* The counters know how much of the content is left.
LengthInv ==
    /\ kind = "close" => counters.content = 0 /\ counters.sent >= 0
    /\ SendsContentLength /\ state \in InHand => counters.content - counters.sent = Len(content)

AllInv == RoomInv(client) /\ Counted(counters) /\ BodyInv /\ LengthInv

WholeInv ==
    kind \notin {"events", "template"} => text = ContentBytes /\ (mishaps = {} => AllInv)

\* There is always room for something, or none.
LEMMA SpaceIs == ASSUME NEW c, RoomInv(c) PROVE Space(c) \in Nat /\ Space(c) <= SndBuf
  BY ResponseAssumption DEF Space, RoomInv

\* A write that succeeds.
LEMMA WriteIs ==
    ASSUME NEW data \in Seq(AnyByte), NEW c, RoomInv(c), NEW counted, Counted(counted),
           NEW mishap, Write(data, c, counted, mishap), mishaps' = {}
    PROVE  /\ stream' = stream \o Upto(data, Space(c)) /\ RoomInv(client') /\ Counted(counters')
           /\ counters'.content = counted.content /\ counters'.sent = counted.sent
           /\ mishap = {}
<1>. DEFINE out == Upto(data, Space(c))
<1>1. /\ stream' = stream \o out /\ mishap = {}
      /\ counters' = [counted EXCEPT !.written = @ + Len(out)]
      /\ client' = IF out = <<>> THEN c ELSE [c EXCEPT !.busy = TRUE, !.unacked = @ + Len(out)]
  BY DEF Write
<1>2. Len(out) \in Nat /\ Len(out) <= Space(c) /\ Space(c) \in Nat
  <2>1. Len(data) \in Nat
    BY LenProperties
  <2>. QED
    BY <2>1, SpaceIs, UptoFrom DEF Smaller
<1>. HIDE DEF out
<1>3. Counted(counters') /\ counters'.content = counted.content /\ counters'.sent = counted.sent
  <2>. DEFINE w == counted.written + Len(out)
  <2>1. counters' = [counted EXCEPT !.written = w]
    BY <1>1
  <2>. HIDE DEF w
  <2>2. counters' = [content |-> counted.content, sent |-> counted.sent, acked |-> counted.acked,
                     written |-> w]
    BY <2>1 DEF Counted
  <2>. QED
    BY <2>2 DEF Counted
<1>4. RoomInv(client')
  <2>1. CASE out = <<>>
    BY <1>1, <2>1
  <2>2. CASE out # <<>>
    <3>. DEFINE u == c.unacked + Len(out)
    <3>1. u \in 0 .. SndBuf
      <4>1. c.unacked \in Nat /\ SndBuf \in Nat
        BY ResponseAssumption DEF RoomInv
      <4>2. Len(out) = 0 \/ Space(c) = SndBuf - c.unacked
        BY <1>2 DEF Space
      <4>3. c.unacked <= SndBuf
        BY DEF RoomInv
      <4>. QED
        BY <1>2, <4>1, <4>2, <4>3
    <3>2. client' = [c EXCEPT !.busy = TRUE, !.unacked = u]
      BY <1>1, <2>2
    <3>. HIDE DEF u
    <3>3. client' = [open |-> c.open, busy |-> TRUE, unacked |-> u, acked |-> c.acked]
      BY <3>2 DEF RoomInv, ClientRecord
    <3>. QED
      BY <3>1, <3>3 DEF RoomInv, ClientRecord
  <2>. QED
    BY <2>1, <2>2
<1>. QED
  BY <1>1, <1>3, <1>4 DEF out

\* Counters after an acknowledgement.
LEMMA CountedAcked ==
    ASSUME NEW k, Counted(k), NEW n, NEW d, d = [k EXCEPT !.acked = @ + n]
    PROVE  Counted(d) /\ d.content = k.content /\ d.sent = k.sent
<1>. DEFINE a == k.acked + n
<1>1. d = [content |-> k.content, sent |-> k.sent, acked |-> a, written |-> k.written]
  <2>1. d = [k EXCEPT !.acked = a]
    OBVIOUS
  <2>. HIDE DEF a
  <2>. QED
    BY <2>1 DEF Counted
<1>. HIDE DEF a
<1>. QED
  BY <1>1 DEF Counted

\* Counters after more of the content was given.
LEMMA CountedSent ==
    ASSUME NEW k, Counted(k), NEW n \in Int, NEW d, d = [k EXCEPT !.sent = @ + n]
    PROVE  Counted(d) /\ d.content = k.content /\ d.sent = k.sent + n
<1>. DEFINE s == k.sent + n
<1>1. d = [k EXCEPT !.sent = s] /\ s \in Int
  BY DEF Counted
<1>2. d = [content |-> k.content, sent |-> s, acked |-> k.acked, written |-> k.written]
  <2>. HIDE DEF s
  <2>. QED
    BY <1>1 DEF Counted
<1>. QED
  BY <1>1, <1>2 DEF Counted

\* A part of the rest is written.
LEMMA CarryPart ==
    ASSUME NEW s, NEW rest \in Seq(PayloadByte), NEW n \in Nat, NEW all, Carrying(s, rest, all)
    PROVE  /\ Carrying(s \o Upto(rest, n), From(rest, n), all)
           /\ Upto(rest, n) \in Seq(PayloadByte) /\ From(rest, n) \in Seq(PayloadByte)
<1>. DEFINE out == Upto(rest, n)
            left == From(rest, n)
<1>1. out \in Seq(PayloadByte) /\ left \in Seq(PayloadByte) /\ out \o left = rest
  BY UptoFrom
<1>. HIDE DEF out, left
<1>2. Carrying(s, out \o left, all)
  BY <1>1
<1>3. Carrying(s \o out, left, all)
  BY <1>1, <1>2, CarryOn
<1>. QED
  BY <1>1, <1>3 DEF out, left

\* What there is room for is written as a whole.
LEMMA WriteFits ==
    ASSUME NEW data \in Seq(AnyByte), NEW c, RoomInv(c), NEW counted, Counted(counted),
           NEW mishap, Write(data, c, counted, mishap), mishaps' = {}, Len(data) <= Space(c)
    PROVE  /\ stream' = stream \o data /\ RoomInv(client') /\ Counted(counters')
           /\ counters'.content = counted.content /\ counters'.sent = counted.sent
           /\ mishap = {}
<1>1. /\ stream' = stream \o Upto(data, Space(c)) /\ RoomInv(client') /\ Counted(counters')
      /\ counters'.content = counted.content /\ counters'.sent = counted.sent
      /\ mishap = {}
  BY WriteIs
<1>2. Upto(data, Space(c)) = data
  BY SpaceIs, UptoFrom, LenProperties
<1>. QED
  BY <1>1, <1>2

\* AsyncBasicResponse::_respond() sends what fits, and leaves the rest of head and content.
LEMMA BasicRespondWhole ==
    ASSUME AllInv, kind = "basic", kind' = kind, state = "SETUP", BasicRespond(client),
           mishaps' = {}
    PROVE  AllInv'
<1>. DEFINE all == head \o content
            space == Space(client)
            fits == space >= Len(all)
            waits == space = Len(head) /\ ~ fits
            out == IF waits THEN <<>> ELSE Upto(all, space)
            contentOut == IF space > Len(head) /\ ~ fits THEN space - Len(head) ELSE 0
            headLeft == IF waits THEN Len(head)
                        ELSE IF space < Len(head) THEN Len(head) - space ELSE 0
            k == [counters EXCEPT !.sent = @ + contentOut, !.content = @ + headLeft]
            n == Len(out)
<1>1. /\ Write(out, client, k, {}) /\ head' = <<>>
      /\ content' = IF fits THEN content ELSE From(all, n)
      /\ state' = IF fits THEN "WAIT_ACK" ELSE "CONTENT"
  BY DEF BasicRespond
<1>2. /\ RoomInv(client) /\ Counted(counters) /\ head \in Seq(PayloadByte)
      /\ content \in Seq(PayloadByte) /\ Carrying(stream, all, All)
      /\ counters.content - counters.sent = Len(content)
  BY DEF AllInv, BodyInv, LengthInv, InHand, SendsContentLength
<1>3. /\ all \in Seq(PayloadByte) /\ Len(all) = Len(head) + Len(content)
      /\ Len(head) \in Nat /\ Len(content) \in Nat /\ space \in Nat
  BY <1>2, SpaceIs, ConcatProperties, LenProperties
<1>. HIDE DEF all, space
<1>4. /\ out = Upto(all, IF waits THEN 0 ELSE space)
      /\ n = IF waits THEN 0 ELSE Smaller(space, Len(all))
  BY <1>3, UptoFrom DEF Smaller
<1>5. /\ n \in Nat /\ n <= space /\ (fits => n = Len(all))
      /\ (~ fits => n = IF waits THEN 0 ELSE space)
  BY <1>3, <1>4 DEF Smaller
<1>6. out = Upto(all, n) /\ out \in Seq(PayloadByte)
  <2>1. CASE fits
    BY <1>3, <1>4, <1>5, <2>1, UptoFrom
  <2>2. CASE ~ fits
    BY <1>3, <1>4, <1>5, <2>2, UptoFrom
  <2>. QED
    BY <2>1, <2>2
<1>7. /\ Counted(k) /\ k.content = counters.content + headLeft
      /\ k.sent = counters.sent + contentOut
  <2>1. contentOut \in Int /\ headLeft \in Int
    BY <1>3
  <2>. DEFINE s == counters.sent + contentOut
              l == counters.content + headLeft
  <2>2. k = [counters EXCEPT !.sent = s, !.content = l]
    OBVIOUS
  <2>3. s \in Int /\ l \in Int
    <3>. HIDE DEF contentOut, headLeft
    <3>. QED
      BY <1>2, <2>1 DEF Counted
  <2>. HIDE DEF s, l, k
  <2>4. k = [content |-> l, sent |-> s, acked |-> counters.acked, written |-> counters.written]
    BY <1>2, <2>2 DEF Counted
  <2>5. Counted(k) /\ k.content = l /\ k.sent = s
    BY <2>3, <2>4 DEF Counted
  <2>. QED
    BY <2>5 DEF s, l
<1>8. /\ stream' = stream \o out /\ RoomInv(client') /\ Counted(counters')
      /\ counters'.content = k.content /\ counters'.sent = k.sent
  <2>1. out \in Seq(AnyByte) /\ Len(out) <= Space(client)
    BY <1>5, <1>6, AllCarried DEF space
  <2>. HIDE DEF out, k
  <2>. QED
    BY <1>1, <1>2, <1>7, <2>1, WriteFits
<1>9. Carrying(stream \o out, From(all, n), All) /\ From(all, n) \in Seq(PayloadByte)
  <2>. HIDE DEF n, out
  <2>. QED
    BY <1>2, <1>3, <1>5, <1>6, CarryPart
<1>10. <<>> \in Seq(PayloadByte) /\ \A s \in Seq(PayloadByte) : <<>> \o s = s
  BY EmptySeq, ConcatEmptySeq
<1>11. CASE fits
  <2>1. state' = "WAIT_ACK" /\ head' = <<>> /\ content' = content
    BY <1>1, <1>11
  <2>2. From(all, n) = <<>>
    <3>1. Len(all) < Len(all) + 1 /\ Len(all) + 1 \in Int /\ Len(all) \in Int /\ n = Len(all)
      BY <1>3, <1>5, <1>11
    <3>. HIDE DEF n
    <3>. QED
      BY <3>1, SubSeqEmpty DEF From
  <2>3. BodyInv'
    BY <1>2, <1>8, <1>9, <1>10, <2>1, <2>2 DEF BodyInv, InHand
  <2>4. LengthInv'
    BY <2>1 DEF LengthInv, InHand
  <2>. QED
    BY <1>8, <2>3, <2>4 DEF AllInv
<1>12. CASE ~ fits
  <2>1. state' = "CONTENT" /\ head' = <<>> /\ content' = From(all, n)
    BY <1>1, <1>12
  <2>2. BodyInv'
    BY <1>8, <1>9, <1>10, <2>1 DEF BodyInv, InHand
  <2>3. Len(content') = Len(all) - n
    <3>1. n <= Len(all) /\ n \in Nat
      BY <1>3, <1>5, <1>12
    <3>. HIDE DEF n
    <3>. QED
      BY <1>3, <2>1, <3>1, UptoFrom
  <2>4. counters'.content - counters'.sent = Len(content')
    <3>1. /\ counters'.content = counters.content + headLeft
          /\ counters'.sent = counters.sent + contentOut
      BY <1>7, <1>8
    <3>2. counters.content \in Int /\ counters.sent \in Int
      BY <1>2 DEF Counted
    <3>3. headLeft - contentOut = Len(head) - n /\ headLeft \in Int /\ contentOut \in Int
      <4>1. CASE space = Len(head)
        BY <1>3, <1>5, <1>12, <4>1
      <4>2. CASE space < Len(head)
        BY <1>3, <1>5, <1>12, <4>2
      <4>3. CASE space > Len(head)
        BY <1>3, <1>5, <1>12, <4>3
      <4>. QED
        BY <1>3, <4>1, <4>2, <4>3
    <3>. HIDE DEF n, out, k, headLeft, contentOut
    <3>4. n \in Int /\ Len(head) \in Int /\ Len(content) \in Int
      BY <1>3, <1>5
    <3>5. /\ Len(content') = Len(head) + Len(content) - n
          /\ counters.content - counters.sent = Len(content)
      BY <1>2, <1>3, <2>3, <3>4
    <3>. QED
      BY <3>1, <3>2, <3>3, <3>4, <3>5, SMTT(30)
  <2>5. LengthInv'
    BY <2>4 DEF LengthInv
  <2>. QED
    BY <1>8, <2>2, <2>5 DEF AllInv
<1>. QED
  BY <1>11, <1>12

\* AsyncBasicResponse::_ack() sends the rest, as much of it as there is room for.
LEMMA BasicAckWhole ==
    ASSUME AllInv, kind = "basic", kind' = kind, NEW n, NEW c, RoomInv(c), BasicAck(n, c),
           mishaps' = {}
    PROVE  AllInv'
<1>. DEFINE k == [counters EXCEPT !.acked = @ + n]
            available == counters.content - counters.sent
            space == Space(c)
<1>1. /\ Counted(counters) /\ head \in Seq(PayloadByte) /\ content \in Seq(PayloadByte)
      /\ <<>> \in Seq(PayloadByte) /\ \A s \in Seq(PayloadByte) : <<>> \o s = s
  BY EmptySeq, ConcatEmptySeq DEF AllInv, BodyInv
<1>2. Counted(k) /\ k.content = counters.content /\ k.sent = counters.sent
  BY <1>1, CountedAcked
<1>3. Len(content) \in Nat /\ space \in Nat
  BY <1>1, SpaceIs, LenProperties
<1>. HIDE DEF space
<1>4. ASSUME state = "CONTENT"
      PROVE  head = <<>> /\ Carrying(stream, content, All) /\ available = Len(content)
  BY <1>1, <1>4 DEF AllInv, BodyInv, LengthInv, InHand, SendsContentLength
<1>5. CASE /\ state = "CONTENT" /\ space > available
           /\ Write(Upto(content, available), c, k, {})
           /\ content' = <<>> /\ state' = "WAIT_ACK" /\ UNCHANGED head
  <2>1. Upto(content, available) = content
    BY <1>1, <1>3, <1>4, <1>5, UptoFrom
  <2>2. content \in Seq(AnyByte) /\ Len(content) <= Space(c)
    BY <1>1, <1>3, <1>4, <1>5, AllCarried DEF space
  <2>3. stream' = stream \o content /\ RoomInv(client') /\ Counted(counters')
    <3>1. Write(content, c, k, {})
      BY <1>5, <2>1
    <3>. HIDE DEF k
    <3>. QED
      BY <1>2, <2>2, <3>1, WriteFits
  <2>4. Carrying(stream \o content, <<>>, All)
    <3>1. content \o <<>> = content
      BY <1>1, ConcatEmptySeq
    <3>. QED
      BY <1>1, <1>4, <1>5, <3>1, CarryOn
  <2>5. BodyInv'
    BY <1>1, <1>5, <2>3, <2>4 DEF BodyInv, InHand
  <2>. QED
    BY <1>5, <2>3, <2>5 DEF AllInv, LengthInv, InHand
<1>6. CASE /\ state = "CONTENT" /\ space <= available
           /\ Write(Upto(content, space), c, [k EXCEPT !.sent = @ + space], {})
           /\ content' = From(content, space) /\ UNCHANGED <<head, state>>
  <2>. DEFINE out == Upto(content, space)
              d == [k EXCEPT !.sent = @ + space]
  <2>1. /\ Carrying(stream \o out, From(content, space), All)
        /\ out \in Seq(PayloadByte) /\ From(content, space) \in Seq(PayloadByte)
    BY <1>1, <1>3, <1>4, <1>6, CarryPart
  <2>2. Len(out) <= space /\ Len(content') = Len(content) - space
    BY <1>1, <1>3, <1>4, <1>6, UptoFrom DEF Smaller
  <2>3. Counted(d) /\ d.content = counters.content /\ d.sent = counters.sent + space
    <3>1. Counted(d) /\ d.content = k.content /\ d.sent = k.sent + space
      <4>. HIDE DEF k
      <4>1. space \in Int
        BY <1>3
      <4>. QED
        BY <1>2, <4>1, CountedSent
    <3>. QED
      BY <1>2, <3>1
  <2>4. out \in Seq(AnyByte) /\ Len(out) <= Space(c)
    BY <2>1, <2>2, AllCarried DEF space
  <2>5. /\ stream' = stream \o out /\ RoomInv(client') /\ Counted(counters')
        /\ counters'.content = d.content /\ counters'.sent = d.sent
    <3>1. Write(out, c, d, {})
      BY <1>6
    <3>. HIDE DEF d, out
    <3>. QED
      BY <2>3, <2>4, <3>1, WriteFits
  <2>6. BodyInv'
    BY <1>1, <1>4, <1>6, <2>1, <2>5 DEF BodyInv, InHand
  <2>7. LengthInv'
    <3>1. counters.content \in Int /\ counters.sent \in Int
      BY <1>1 DEF Counted
    <3>2. counters'.content - counters'.sent = Len(content')
      BY <1>3, <1>4, <1>6, <2>2, <2>3, <2>5, <3>1
    <3>. QED
      BY <3>2 DEF LengthInv
  <2>. QED
    BY <2>5, <2>6, <2>7 DEF AllInv
<1>7. CASE /\ state = "WAIT_ACK" /\ counters' = k /\ client' = c /\ state' \in {"WAIT_ACK", "END"}
           /\ UNCHANGED <<head, content, stream>>
  <2>1. BodyInv'
    BY <1>7 DEF AllInv, BodyInv, InHand
  <2>. QED
    BY <1>2, <1>7, <2>1 DEF AllInv, LengthInv, InHand
<1>. QED
  BY <1>5, <1>6, <1>7 DEF BasicAck, space

\* The head, if it is still in hand, and a part of the content, in a chunk or as it is.
LEMMA FillWhole ==
    ASSUME AllInv, kind \in {"length", "chunked", "close"}, kind' = kind,
           NEW st, state \in InHand,
           NEW c, RoomInv(c),
           (st = "CONTENT" /\ head = <<>>) \/ (st = "HEADERS" /\ Space(c) >= Len(head)),
           NEW k, Counted(k), k.content = counters.content, k.sent = counters.sent,
           Fill(st, k, c), mishaps' = {}
    PROVE  AllInv'
<1>. DEFINE room == Room(st, c)
            max == IF IsChunked THEN room - ChunkHead - ChunkTail
                   ELSE IF kind = "close" THEN room
                   ELSE Smaller(room, k.content - k.sent)
<1>1. /\ head \in Seq(PayloadByte) /\ content \in Seq(PayloadByte)
      /\ Carrying(stream, head \o content, All)
      /\ IsChunked <=> kind = "chunked"
  BY DEF AllInv, BodyInv, IsChunked
<1>2. /\ Len(head) \in Nat /\ Len(content) \in Nat /\ Space(c) \in Nat
      /\ ChunkHead \in Nat \ {0} /\ ChunkTail \in Nat \ {0}
  BY <1>1, SpaceIs, LenProperties, ResponseAssumption
<1>3. room \in Int /\ room >= 0 /\ Len(head) + room <= Space(c)
  <2>1. CASE st = "CONTENT" /\ head = <<>>
    <3>1. Len(head) = 0
      BY <2>1
    <3>. QED
      BY <1>2, <2>1, <3>1 DEF Room
  <2>2. CASE st = "HEADERS" /\ Space(c) >= Len(head)
    BY <1>2, <2>2 DEF Room
  <2>. QED
    BY <2>1, <2>2
<1>. HIDE DEF room
<1>4. PICK n \in 0 .. max :
        LET part == Upto(content, n)
            out == head \o (IF IsChunked THEN ChunkHeadBytes \o part \o ChunkTailBytes ELSE part)
            filled == [k EXCEPT !.sent = @ + Len(part)]
            last == IF IsChunked THEN part = <<>>
                    ELSE filled.sent = filled.content \/ (kind = "close" /\ out = <<>>)
        IN /\ Gives(n, max) /\ (IsChunked => room > ChunkHead + ChunkTail)
           /\ Write(out, c, filled, IF max = 0 /\ last /\ content # <<>> THEN {"no room"} ELSE {})
           /\ head' = <<>>
           /\ content' = From(content, n)
           /\ state' = IF last THEN "WAIT_ACK" ELSE "CONTENT"
  <2>1. PICK given \in Given(max) :
          LET part == given.data
              out == head \o (IF IsChunked THEN ChunkHeadBytes \o part \o ChunkTailBytes ELSE part)
              filled == [k EXCEPT !.sent = @ + Len(part)]
              last == IF IsChunked THEN part = <<>>
                      ELSE filled.sent = filled.content \/ (kind = "close" /\ out = <<>>)
          IN /\ (IsChunked => room > ChunkHead + ChunkTail)
             /\ Write(out, c, filled,
                      (IF max = 0 /\ last /\ content # <<>> THEN {"no room"} ELSE {})
                      \cup (IF given.mishap THEN {"template"} ELSE {}))
             /\ head' = <<>>
             /\ content' = given.rest
             /\ state' = IF last THEN "WAIT_ACK" ELSE "CONTENT"
    BY Zenon DEF Fill, room
  <2>. HIDE DEF max
  <2>2. PICK n \in {m \in 0 .. max : Gives(m, max)} :
          given = [data |-> Upto(content, n), rest |-> From(content, n), mishap |-> FALSE]
    BY DEF Given
  <2>3. /\ given.data = Upto(content, n) /\ given.rest = From(content, n) /\ ~ given.mishap
        /\ \A s : s \cup {} = s
    BY <2>2
  <2>. QED
    BY <2>1, <2>2, <2>3
<1>. DEFINE part == Upto(content, n)
            out == head \o (IF IsChunked THEN ChunkHeadBytes \o part \o ChunkTailBytes ELSE part)
            filled == [k EXCEPT !.sent = @ + Len(part)]
            last == IF IsChunked THEN part = <<>>
                    ELSE filled.sent = filled.content \/ (kind = "close" /\ out = <<>>)
            mishap == IF max = 0 /\ last /\ content # <<>> THEN {"no room"} ELSE {}
            rest == From(content, n)
<1>5. /\ Gives(n, max) /\ (IsChunked => room > ChunkHead + ChunkTail)
      /\ Write(out, c, filled, mishap) /\ head' = <<>> /\ content' = rest
      /\ state' = IF last THEN "WAIT_ACK" ELSE "CONTENT"
  BY <1>4
<1>6. max \in Int /\ max <= room /\ (IsChunked => max > 0 /\ max = room - ChunkHead - ChunkTail)
  <2>1. k.content \in Int /\ k.sent \in Int
    BY DEF Counted
  <2>2. IsChunked => room > ChunkHead + ChunkTail
    BY <1>5
  <2>3. CASE IsChunked
    BY <1>2, <1>3, <2>2, <2>3
  <2>4. CASE ~ IsChunked
    BY <1>3, <2>1, <2>4 DEF Smaller
  <2>. QED
    BY <2>3, <2>4
<1>. HIDE DEF max
<1>7. n \in Nat /\ n <= max /\ n <= Len(content)
  <2>1. n <= Len(content)
    BY <1>5 DEF Gives
  <2>2. n \in Nat /\ n <= max
    BY <1>6
  <2>. QED
    BY <2>1, <2>2
<1>8. /\ part \in Seq(PayloadByte) /\ rest \in Seq(PayloadByte) /\ part \o rest = content
      /\ Len(part) = n /\ Len(rest) = Len(content) - n
  <2>1. n \in Int
    BY <1>7
  <2>2. /\ part \in Seq(PayloadByte) /\ Len(part) = IF n <= 0 THEN 0 ELSE Smaller(n, Len(content))
        /\ n \in Nat => /\ rest \in Seq(PayloadByte) /\ part \o rest = content
                        /\ Len(rest) = IF n <= Len(content) THEN Len(content) - n ELSE 0
    BY <1>1, <2>1, UptoFrom
  <2>. HIDE DEF part, rest
  <2>. QED
    BY <1>2, <1>7, <2>2 DEF Smaller
<1>. HIDE DEF part, rest
<1>9. out \in Seq(AnyByte) /\ Len(out) <= Space(c) /\ Carrying(stream \o out, rest, All)
  <2>1. (head \o part) \o rest = head \o content
    <3>1. (head \o part) \o rest = head \o (part \o rest)
      BY <1>1, <1>8, PayloadAssociative
    <3>. QED
      BY <1>8, <3>1
  <2>2. Carrying(stream, (head \o part) \o rest, All)
    BY <1>1, <2>1
  <2>3. CASE IsChunked
    <3>1. out = head \o (ChunkHeadBytes \o part \o ChunkTailBytes)
      BY <2>3
    <3>2. out \in Seq(AnyByte) /\ Len(out) = Len(head) + ChunkHead + Len(part) + ChunkTail
      BY <1>1, <1>8, <3>1, ChunkCarried
    <3>3. Carrying(stream \o out, rest, All)
      BY <1>1, <1>8, <2>2, <3>1, CarryChunk
    <3>4. Len(out) <= Space(c)
      BY <1>2, <1>3, <1>6, <1>7, <1>8, <2>3, <3>2
    <3>. QED
      BY <3>2, <3>3, <3>4
  <2>4. CASE ~ IsChunked
    <3>1. out = head \o part
      BY <2>4
    <3>2. out \in Seq(PayloadByte) /\ Len(out) = Len(head) + Len(part)
      <4>1. head \o part \in Seq(PayloadByte) /\ Len(head \o part) = Len(head) + Len(part)
        BY <1>1, <1>8, ConcatProperties
      <4>. QED
        BY <3>1, <4>1
    <3>3. Carrying(stream \o out, rest, All)
      <4>. HIDE DEF out
      <4>. QED
        BY <1>8, <2>2, <3>1, <3>2, CarryOn
    <3>4. Len(out) <= Space(c)
      BY <1>2, <1>3, <1>6, <1>7, <1>8, <3>2
    <3>. QED
      BY <3>2, <3>3, <3>4, AllCarried
  <2>. QED
    BY <2>3, <2>4
<1>10. Counted(filled) /\ filled.content = counters.content /\ filled.sent = counters.sent + n
  <2>1. filled = [k EXCEPT !.sent = @ + n]
    BY <1>8
  <2>. HIDE DEF filled
  <2>2. n \in Int
    BY <1>7
  <2>3. Counted(filled) /\ filled.content = k.content /\ filled.sent = k.sent + n
    BY <2>1, <2>2, CountedSent
  <2>. QED
    BY <2>3
<1>11. /\ stream' = stream \o out /\ RoomInv(client') /\ Counted(counters')
       /\ counters'.content = filled.content /\ counters'.sent = filled.sent /\ mishap = {}
  <2>. HIDE DEF out, filled, mishap
  <2>. QED
    BY <1>5, <1>9, <1>10, WriteFits
<1>12. /\ counters.content \in Int /\ counters.sent \in Int
       /\ kind = "close" => counters.content = 0 /\ counters.sent >= 0
       /\ SendsContentLength => counters.content - counters.sent = Len(content)
  BY DEF AllInv, LengthInv, Counted
<1>13. ASSUME last PROVE rest = <<>>
  <2>1. max = 0 => content = <<>>
    BY <1>11, <1>13
  <2>2. content = <<>> => rest = <<>>
    BY <1>8, ConcatEqualIffEmpty
  <2>3. CASE n = 0 /\ ~ SendsContentLength
    <3>1. content = <<>>
      BY <1>5, <2>1, <2>3 DEF Gives
    <3>. QED
      BY <2>2, <3>1
  <2>4. CASE kind = "chunked"
    <3>1. part = <<>>
      BY <1>1, <1>13, <2>4
    <3>2. n = 0
      BY <1>8, <3>1
    <3>. QED
      BY <2>3, <2>4, <3>2 DEF SendsContentLength
  <2>5. CASE kind = "close"
    <3>1. filled.sent = filled.content \/ out = <<>>
      BY <1>1, <1>13, <2>5
    <3>2. CASE filled.sent = filled.content
      <4>1. n = 0
        BY <1>7, <1>10, <1>12, <2>5, <3>2
      <4>. QED
        BY <2>3, <2>5, <4>1 DEF SendsContentLength
    <3>3. CASE out = <<>>
      <4>1. out = head \o part
        BY <1>1, <2>5
      <4>2. part = <<>>
        <5>1. head \o part = <<>>
          BY <3>3, <4>1
        <5>. QED
          BY <1>1, <1>8, <5>1, ConcatEqualIffEmpty
      <4>3. n = 0
        BY <1>8, <4>2
      <4>. QED
        BY <2>3, <2>5, <4>3 DEF SendsContentLength
    <3>. QED
      BY <3>1, <3>2, <3>3
  <2>6. CASE kind = "length"
    <3>1. filled.sent = filled.content
      BY <1>1, <1>13, <2>6
    <3>2. Len(rest) = 0
      BY <1>2, <1>7, <1>8, <1>10, <1>12, <2>6, <3>1 DEF SendsContentLength
    <3>. QED
      BY <1>8, <3>2, EmptySeq
  <2>. QED
    BY <2>4, <2>5, <2>6
<1>14. BodyInv'
  <2>1. <<>> \in Seq(PayloadByte) /\ <<>> \o rest = rest
    BY <1>8, EmptySeq, ConcatEmptySeq
  <2>2. CASE last
    <3>1. state' = "WAIT_ACK" /\ head' = <<>> /\ content' = rest /\ stream' = stream \o out
      BY <1>5, <1>11, <2>2
    <3>. HIDE DEF out, last
    <3>. QED
      BY <1>8, <1>9, <1>13, <2>1, <2>2, <3>1 DEF BodyInv, InHand
  <2>3. CASE ~ last
    <3>1. state' = "CONTENT" /\ head' = <<>> /\ content' = rest /\ stream' = stream \o out
      BY <1>5, <1>11, <2>3
    <3>. HIDE DEF out, last
    <3>. QED
      BY <1>8, <1>9, <2>1, <3>1 DEF BodyInv, InHand
  <2>. QED
    BY <2>2, <2>3
<1>15. LengthInv'
  <2>1. kind' = "close" => counters'.content = 0 /\ counters'.sent >= 0
    <3>1. counters'.content = counters.content /\ counters'.sent = counters.sent + n
      BY <1>10, <1>11
    <3>. QED
      BY <1>7, <1>12, <3>1
  <2>2. SendsContentLength' => counters'.content - counters'.sent = Len(content')
    <3>1. content' = rest
      BY <1>5
    <3>2. SendsContentLength' = SendsContentLength
      BY DEF SendsContentLength
    <3>3. counters'.content = counters.content /\ counters'.sent = counters.sent + n
      BY <1>10, <1>11
    <3>4. Len(content') = Len(content) - n
      BY <1>8, <3>1
    <3>. QED
      BY <1>2, <1>7, <1>12, <3>2, <3>3, <3>4
  <2>. QED
    BY <2>1, <2>2 DEF LengthInv
<1>. QED
  BY <1>11, <1>14, <1>15 DEF AllInv

\* A part of the head is written, or there is nothing to write yet.
LEMMA HeadersWhole ==
    ASSUME AllInv, kind' = kind, state \in InHand,
           NEW c, RoomInv(c), Space(c) < Len(head),
           NEW k, Counted(k), k.content = counters.content, k.sent = counters.sent,
           Write(Upto(head, Space(c)), c, k, {}), mishaps' = {},
           head' = From(head, Space(c)), state' = "HEADERS", content' = content
    PROVE  AllInv'
<1>. DEFINE n == Space(c)
            out == Upto(head, n)
            left == From(head, n)
<1>1. /\ head \in Seq(PayloadByte) /\ content \in Seq(PayloadByte)
      /\ Carrying(stream, head \o content, All)
  BY DEF AllInv, BodyInv
<1>2. n \in Nat /\ Len(head) \in Nat
  BY <1>1, SpaceIs, LenProperties
<1>3. /\ out \in Seq(PayloadByte) /\ left \in Seq(PayloadByte) /\ out \o left = head
      /\ Len(out) <= n
  <2>1. n \in Int
    BY <1>2
  <2>2. /\ out \in Seq(PayloadByte) /\ Len(out) = IF n <= 0 THEN 0 ELSE Smaller(n, Len(head))
        /\ n \in Nat => left \in Seq(PayloadByte) /\ out \o left = head
    BY <1>1, <2>1, UptoFrom
  <2>. HIDE DEF n, out, left
  <2>. QED
    BY <1>2, <2>2 DEF Smaller
<1>. HIDE DEF n, out, left
<1>4. left \o content \in Seq(PayloadByte)
  BY <1>1, <1>3, ConcatProperties
<1>5. Carrying(stream, out \o (left \o content), All)
  <2>1. (out \o left) \o content = out \o (left \o content)
    BY <1>1, <1>3, PayloadAssociative, ZenonT(60)
  <2>. QED
    BY <1>1, <1>3, <2>1
<1>6. Carrying(stream \o out, left \o content, All)
  BY <1>3, <1>4, <1>5, CarryOn
<1>7. /\ stream' = stream \o out /\ RoomInv(client') /\ Counted(counters')
      /\ counters'.content = k.content /\ counters'.sent = k.sent
  <2>1. Write(out, c, k, {}) /\ out \in Seq(AnyByte) /\ Len(out) <= Space(c)
    BY <1>3, AllCarried DEF n, out
  <2>. QED
    BY <2>1, WriteFits
<1>8. BodyInv'
  BY <1>1, <1>3, <1>6, <1>7 DEF BodyInv, InHand, n, left
<1>9. LengthInv'
  BY <1>7 DEF AllInv, LengthInv, InHand, SendsContentLength
<1>. QED
  BY <1>7, <1>8, <1>9 DEF AllInv

\* Nothing is written.
LEMMA NothingWhole ==
    ASSUME AllInv, kind' = kind, RoomInv(client'), stream' = stream, head' = head,
           content' = content, Counted(counters'), counters'.content = counters.content,
           counters'.sent = counters.sent,
           \/ state \in InHand /\ state' = "CONTENT" /\ head = <<>>
           \/ state' = state
           \/ state \notin InHand /\ state' \in {"END", "NONE"}
    PROVE  AllInv'
<1>1. BodyInv'
  BY DEF AllInv, BodyInv, InHand
<1>2. LengthInv'
  BY DEF AllInv, LengthInv, InHand, SendsContentLength
<1>. QED
  BY <1>1, <1>2 DEF AllInv

\* AsyncAbstractResponse::_ack(), in the state it is in, or as _respond() calls it.
LEMMA AbstractAckWhole ==
    ASSUME AllInv, kind \in {"length", "chunked", "close"}, kind' = kind,
           NEW st, st = state \/ (st = "HEADERS" /\ state = "SETUP"),
           NEW n, NEW c, RoomInv(c), AbstractAck(st, n, c), mishaps' = {}
    PROVE  AllInv'
<1>. DEFINE k == [counters EXCEPT !.acked = @ + n]
<1>1. Counted(k) /\ k.content = counters.content /\ k.sent = counters.sent
  <2>1. Counted(counters)
    BY DEF AllInv
  <2>. QED
    BY <2>1, CountedAcked
<1>. HIDE DEF k
<1>2. \/ /\ st = "HEADERS" /\ Space(c) < Len(head)
         /\ Write(Upto(head, Space(c)), c, k, {})
         /\ head' = From(head, Space(c)) /\ state' = st /\ UNCHANGED content
      \/ /\ st = "CONTENT" \/ (st = "HEADERS" /\ Space(c) >= Len(head))
         /\ Fill(st, k, c) \/ FillLater(k, c)
      \/ /\ st = "WAIT_ACK" /\ state' \in {"END", st} /\ counters' = k
         /\ \E b \in BOOLEAN : client' = [c EXCEPT !.open = b]
         /\ UNCHANGED <<head, content, stream>>
  BY DEF AbstractAck, k
<1>3. st \in {"HEADERS", "CONTENT"} => state \in InHand
  BY DEF InHand
<1>4. CASE /\ st = "HEADERS" /\ Space(c) < Len(head)
           /\ Write(Upto(head, Space(c)), c, k, {})
           /\ head' = From(head, Space(c)) /\ state' = st /\ UNCHANGED content
  BY <1>1, <1>3, <1>4, HeadersWhole
<1>5. CASE /\ st = "CONTENT" \/ (st = "HEADERS" /\ Space(c) >= Len(head))
           /\ Fill(st, k, c) \/ FillLater(k, c)
  <2>1. st = "CONTENT" => state = "CONTENT" /\ head = <<>>
    BY DEF AllInv, BodyInv
  <2>2. CASE Fill(st, k, c)
    <3>1. /\ (st = "CONTENT" /\ head = <<>>) \/ (st = "HEADERS" /\ Space(c) >= Len(head))
          /\ state \in InHand
      BY <1>3, <1>5, <2>1
    <3>. QED
      BY <1>1, <2>2, <3>1, FillWhole
  <2>3. CASE FillLater(k, c)
    <3>1. /\ state' = "CONTENT" /\ counters' = k /\ client' = c /\ head = <<>>
          /\ UNCHANGED <<head, content, stream>>
      BY <2>3 DEF FillLater
    <3>. QED
      BY <1>1, <1>3, <1>5, <3>1, NothingWhole
  <2>. QED
    BY <1>5, <2>2, <2>3
<1>6. CASE /\ st = "WAIT_ACK" /\ state' \in {"END", st} /\ counters' = k
           /\ \E b \in BOOLEAN : client' = [c EXCEPT !.open = b]
           /\ UNCHANGED <<head, content, stream>>
  <2>1. state = "WAIT_ACK" /\ state \notin InHand
    BY <1>6 DEF InHand
  <2>2. RoomInv(client')
    BY <1>6 DEF RoomInv, ClientRecord
  <2>. QED
    BY <1>1, <1>6, <2>1, <2>2, NothingWhole
<1>. QED
  BY <1>2, <1>4, <1>5, <1>6

\* A response is in hand from the start.
LEMMA WholeStart == EventsInit => WholeInv
<1>. SUFFICES ASSUME EventsInit, kind \notin {"events", "template"}
              PROVE  text = ContentBytes /\ AllInv
  BY DEF WholeInv
<1>1. ResponseStart
  BY DEF EventsInit, ResponseInit
<1>2. /\ state = "SETUP" /\ head = HeadBytes /\ text = ContentBytes /\ content = ContentBytes
      /\ stream = <<>>
      /\ counters = [content |-> IF SendsContentLength THEN ContentLength ELSE 0,
                     sent |-> 0, acked |-> 0, written |-> 0]
  BY <1>1 DEF ResponseStart
<1>3. RoomInv(client)
  <2>1. PICK n \in 0 .. Before :
          client = [open |-> TRUE, busy |-> n > 0, unacked |-> n, acked |-> 0]
    BY <1>1 DEF ResponseStart
  <2>. DEFINE b == n > 0
  <2>2. client = [open |-> TRUE, busy |-> b, unacked |-> n, acked |-> 0] /\ n \in 0 .. SndBuf
    BY <2>1, ResponseAssumption
  <2>. HIDE DEF b
  <2>. QED
    BY <2>2 DEF RoomInv, ClientRecord
<1>4. /\ Counted(counters) /\ counters.sent = 0
      /\ counters.content = IF SendsContentLength THEN ContentLength ELSE 0
  <2>. DEFINE l == IF SendsContentLength THEN ContentLength ELSE 0
  <2>1. l \in Int /\ counters = [content |-> l, sent |-> 0, acked |-> 0, written |-> 0]
    BY <1>2, ResponseAssumption
  <2>. HIDE DEF l
  <2>2. Counted(counters) /\ counters.sent = 0 /\ counters.content = l
    BY <2>1 DEF Counted
  <2>. QED
    BY <2>2 DEF l
<1>5. BodyInv
  <2>1. All \in Seq(PayloadByte)
    BY PayloadIs, ConcatProperties DEF All
  <2>2. Carrying(<<>>, All, All)
    BY <2>1, CarryStart
  <2>. QED
    BY <1>2, <2>2, PayloadIs DEF BodyInv, InHand, All
<1>6. LengthInv
  <2>1. ContentLength \in Nat
    BY ResponseAssumption
  <2>. QED
    BY <1>2, <1>4, <2>1, PayloadIs DEF LengthInv, SendsContentLength
<1>. QED
  BY <1>2, <1>3, <1>4, <1>5, <1>6 DEF AllInv

\* What has gone wrong stays wrong.
LEMMA MishapsStay ==
    ASSUME ResponseNext
    PROVE  kind' = kind /\ text' = text /\ (mishaps' = {} => mishaps = {})
<1>1. ASSUME NEW data, NEW c, NEW k, NEW mishap, Write(data, c, k, mishap)
      PROVE  mishaps' = {} => mishaps = {}
  BY <1>1 DEF Write
<1>2. ASSUME NEW n, NEW c, BasicRespond(c) \/ BasicAck(n, c)
      PROVE  mishaps' = {} => mishaps = {}
  BY <1>1, <1>2 DEF BasicRespond, BasicAck
<1>3. ASSUME NEW n, NEW st, NEW c, AbstractAck(st, n, c)
      PROVE  mishaps' = {} => mishaps = {}
  <2>1. ASSUME NEW k, Fill(st, k, c) \/ FillLater(k, c)
        PROVE  mishaps' = {} => mishaps = {}
    BY <1>1, <2>1 DEF Fill, FillLater
  <2>. QED
    BY <1>1, <1>3, <2>1 DEF AbstractAck
<1>4. ASSUME NEW n, NEW c, OnAck(n, c) \/ Ack(n, c)
      PROVE  mishaps' = {} => mishaps = {}
  BY <1>2, <1>3, <1>4 DEF OnAck, Ack
<1>. QED
  BY <1>2, <1>3, <1>4 DEF ResponseNext, Send, PeerAcknowledges, OnPoll, Disconnect

\* An acknowledgement, or a poll, of a client c.
LEMMA AckWhole ==
    ASSUME AllInv, kind \in {"basic", "length", "chunked", "close"}, kind' = kind,
           NEW n, NEW c, RoomInv(c), Ack(n, c), mishaps' = {}
    PROVE  AllInv'
<1>1. CASE kind = "basic"
  BY <1>1, BasicAckWhole DEF Ack
<1>2. CASE kind # "basic"
  <2>1. kind \in {"length", "chunked", "close"} /\ AbstractAck(state, n, c)
    BY <1>2 DEF Ack
  <2>. DEFINE st == state
  <2>2. AbstractAck(st, n, c) /\ st = state
    BY <2>1
  <2>. HIDE DEF st
  <2>. QED
    BY <2>1, <2>2, AbstractAckWhole
<1>. QED
  BY <1>1, <1>2

\* Every step of a response without mishaps.
LEMMA ResponseStepWhole ==
    ASSUME AllInv, kind \in {"basic", "length", "chunked", "close"}, ResponseNext, mishaps' = {}
    PROVE  AllInv'
<1>1. kind' = kind
  BY MishapsStay
<1>2. RoomInv(client) /\ Counted(counters)
  BY DEF AllInv
<1>3. ASSUME RoomInv(client'), UNCHANGED <<state, head, content, counters, stream>>
      PROVE  AllInv'
  BY <1>1, <1>2, <1>3, NothingWhole
<1>4. CASE Send
  <2>1. state = "SETUP"
    BY <1>4 DEF Send
  <2>2. CASE kind = "basic"
    BY <1>1, <1>4, <2>1, <2>2, BasicRespondWhole DEF Send
  <2>3. CASE kind # "basic"
    <3>. DEFINE st == "HEADERS"
    <3>1. kind \in {"length", "chunked", "close"} /\ AbstractAck(st, 0, client)
      BY <1>4, <2>3 DEF Send
    <3>. HIDE DEF st
    <3>2. st = "HEADERS"
      BY DEF st
    <3>. QED
      BY <1>1, <1>2, <2>1, <3>1, <3>2, AbstractAckWhole
  <2>. QED
    BY <2>2, <2>3
<1>5. CASE PeerAcknowledges
  <2>1. PICK n \in 1 .. client.unacked :
          IF n < client.unacked
          THEN /\ client' = [client EXCEPT !.unacked = @ - n, !.acked = @ + n]
               /\ UNCHANGED <<state, head, content, counters, stream>>
          ELSE OnAck(client.acked + n,
                     [client EXCEPT !.busy = FALSE, !.unacked = 0, !.acked = 0])
    BY <1>5 DEF PeerAcknowledges
  <2>2. client.unacked \in 0 .. SndBuf /\ SndBuf \in Nat
    BY <1>2, ResponseAssumption DEF RoomInv
  <2>3. CASE n < client.unacked
    <3>. DEFINE u == client.unacked - n
                a == client.acked + n
    <3>1. client' = [client EXCEPT !.unacked = u, !.acked = a]
      BY <2>1, <2>3
    <3>2. u \in 0 .. SndBuf
      BY <2>2, <2>3
    <3>. HIDE DEF u, a
    <3>3. RoomInv(client')
      BY <1>2, <3>1, <3>2 DEF RoomInv, ClientRecord
    <3>. QED
      BY <1>3, <2>1, <2>3, <3>3
  <2>4. CASE ~ n < client.unacked
    <3>. DEFINE c == [client EXCEPT !.busy = FALSE, !.unacked = 0, !.acked = 0]
                m == client.acked + n
    <3>1. OnAck(m, c)
      BY <2>1, <2>4
    <3>2. RoomInv(c)
      <4>1. ClientRecord(client) /\ 0 \in 0 .. SndBuf
        BY <1>2, <2>2 DEF RoomInv
      <4>2. Idle(c)
        BY <4>1, FreedClient
      <4>. HIDE DEF c
      <4>. QED
        BY <4>1, <4>2 DEF Idle, RoomInv
    <3>. HIDE DEF c, m
    <3>3. CASE Ack(m, c)
      BY <1>1, <3>2, <3>3, AckWhole
    <3>4. CASE /\ state \in {"SETUP", "END", "NONE"}
               /\ state' = IF state = "END" THEN "NONE" ELSE state
               /\ client' = c
               /\ UNCHANGED <<head, content, counters, stream>>
      <4>1. state' = state \/ (state \notin InHand /\ state' \in {"END", "NONE"})
        BY <3>4 DEF InHand
      <4>. QED
        BY <1>1, <1>2, <3>2, <3>4, <4>1, NothingWhole
    <3>. QED
      BY <3>1, <3>3, <3>4 DEF OnAck
  <2>. QED
    BY <2>3, <2>4
<1>6. CASE OnPoll
  <2>1. Ack(0, client)
    BY <1>6 DEF OnPoll
  <2>. QED
    BY <1>1, <1>2, <2>1, AckWhole
<1>7. CASE Disconnect
  <2>1. RoomInv(client')
    BY <1>2, <1>7 DEF Disconnect, RoomInv, ClientRecord
  <2>. QED
    BY <1>3, <1>7, <2>1 DEF Disconnect
<1>. QED
  BY <1>4, <1>5, <1>6, <1>7 DEF ResponseNext

KindInv == kind \in {"basic", "length", "chunked", "template", "close", "events"}

\* Every step keeps what is left in hand.
LEMMA WholeStep ==
    WholeInv /\ KindInv /\ [EventsNext]_allVars => WholeInv' /\ KindInv'
<1>. SUFFICES ASSUME WholeInv, KindInv, [EventsNext]_allVars PROVE WholeInv' /\ KindInv'
  OBVIOUS
<1>1. CASE UNCHANGED allVars
  BY <1>1 DEF allVars, responseVars, KindInv, WholeInv, AllInv, RoomInv, Counted, BodyInv,
     LengthInv, SendsContentLength
<1>2. CASE kind # "events" /\ ResponseNext
  <2>1. kind' = kind /\ text' = text /\ (mishaps' = {} => mishaps = {})
    BY <1>2, MishapsStay
  <2>2. ASSUME kind # "template", mishaps' = {} PROVE AllInv'
    <3>1. kind \in {"basic", "length", "chunked", "close"} /\ AllInv
      BY <1>2, <2>1, <2>2 DEF KindInv, WholeInv
    <3>. QED
      BY <1>2, <2>2, <3>1, ResponseStepWhole
  <2>. QED
    BY <2>1, <2>2 DEF KindInv, WholeInv
<1>3. CASE Respond \/ EventsAcknowledged \/ EventsPoll \/ EventsDisconnect
           \/ \E len \in Lengths : Post(len)
  <2>1. kind = "events" /\ kind' = kind
    BY <1>3 DEF Respond, EventsAcknowledged, EventsPoll, EventsDisconnect, Post, Connected
  <2>. QED
    BY <2>1 DEF KindInv, WholeInv
<1>. QED
  BY <1>1, <1>2, <1>3 DEF EventsNext

\* All that is written is the head and then the content, all of it when nothing is in hand.
LEMMA WholeIsKept == WholeInv /\ EventsInv => (kind # "template" => WholeUnlessMishap)
<1>. SUFFICES ASSUME WholeInv, EventsInv, kind # "template", mishaps = {}
              PROVE  ResponseIsWhole
  BY DEF WholeUnlessMishap
<1>1. CASE kind = "events"
  <2>1. Carrying(stream, HeadLeft(state), HeadBytes)
    BY <1>1 DEF EventsInv
  <2>2. AllBytes = HeadBytes
    <3>1. AllBytes = HeadBytes \o <<>>
      BY <1>1 DEF AllBytes
    <3>. QED
      BY <3>1, PayloadIs, ConcatEmptySeq
  <2>3. state \in {"WAIT_ACK", "END", "NONE"} => HeadLeft(state) = <<>>
    BY DEF HeadLeft
  <2>. QED
    BY <2>1, <2>2, <2>3, CarryingIsPayload DEF ResponseIsWhole
<1>2. CASE kind # "events"
  <2>1. text = ContentBytes /\ BodyInv
    BY <1>2 DEF WholeInv, AllInv
  <2>2. AllBytes = All
    BY <1>2, <2>1 DEF AllBytes, Content, All
  <2>. DEFINE rest == IF state \in InHand THEN head \o content ELSE <<>>
  <2>3. Carrying(stream, rest, All)
    BY <2>1 DEF BodyInv
  <2>4. state \in {"WAIT_ACK", "END", "NONE"} => rest = <<>>
    BY DEF InHand
  <2>. HIDE DEF rest
  <2>. QED
    BY <2>2, <2>3, <2>4, CarryingIsPayload DEF ResponseIsWhole
<1>. QED
  BY <1>1, <1>2

\* Whatever the lengths of the head and the content and the size of the send buffer, and
\* however it is acknowledged and polled: the peer gets the response and nothing else.
THEOREM ResponseWhole == EventsSpec => [](kind # "template" => WholeUnlessMishap)
<1>1. EventsInit => KindInv
  BY DEF EventsInit, ResponseInit, KindInv
<1>. QED
  BY <1>1, WholeStart, WholeStep, EventsStart, EventsStep, WholeIsKept, PTL DEF EventsSpec

=============================================================================
