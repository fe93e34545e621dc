---------------------------- MODULE EventSource ----------------------------
(***************************************************************************)
(* A connection of the web server that carries one response of module      *)
(* WebResponse, or the head of an event stream and then events:            *)
(* AsyncEventSource, its client and its messages (AsyncEventSource.cpp).   *)
(*                                                                         *)
(* Messages are queued with AsyncClient::add(), and handed to the network  *)
(* by send() only when canSend(), so the client's counters (module         *)
(* AsyncClient) and what lwIP holds differ: client.unacked is what lwIP    *)
(* holds, sse.counted is _tx_unacked_len, which may be below zero.  Like   *)
(* tcp_input() of lwIP, an acknowledgement has everything sent that waits. *)
(***************************************************************************)
EXTENDS WebResponse, Integers

CONSTANTS Lengths,    \* the lengths of messages; 0 is one without memory
          MaxQueued,  \* SSE_MAX_QUEUED_MESSAGES: 32 in the code
          MaxPosted   \* bound: messages

ASSUME EventAssumption ==
    Lengths \subseteq Nat /\ MaxQueued \in Nat \ {0} /\ MaxPosted \in Nat

VARIABLES sse,    \* [queue, counted, unsent, flight]
          posted  \* the lengths of all messages that were queued: history

eventVars == <<sse, posted>>
allVars == <<responseVars, eventVars>>

EventsInit ==
    /\ ResponseInit \/ (kind = "events" /\ ResponseStart)
    /\ sse = [queue |-> <<>>, counted |-> client.unacked, unsent |-> 0,
              flight |-> client.unacked]
    /\ posted = <<>>

Connected == kind = "events" /\ state = "EVENTS" /\ client.open
CanSend(c) == ~ c.busy /\ Space(c) > 0

-----------------------------------------------------------------------------
(* AsyncEventSourceMessage: [id, len, sent, acked]. *)

\* The constructor.
Message(len) == [id |-> Len(posted) + 1, len |-> len, sent |-> len = 0, acked |-> 0]

Finished(m) == m.acked = m.len

\* What send() of a message tests.
Fits(m, space) == space >= m.len

\* What is in front and finished leaves the queue.
Unfinished(queue) ==
    LET i == SelectInSeq(queue, LAMBDA m : ~ Finished(m))
    IN IF i = 0 THEN <<>> ELSE From(queue, i - 1)

\* Mutant: also of a message that is sent.
SpaceAfterMutant(queue, space, failing) ==
    LET left[i \in 0 .. Len(queue)] ==
            IF i = 0 THEN space
            ELSE left[i - 1] - (IF Fits(queue[i], left[i - 1]) /\ queue[i].id \notin failing
                                THEN queue[i].len ELSE 0)
    IN left

\* The space left after send() of each message that is not sent; add() may fail.
SpaceAfter(queue, space, failing) ==
    LET left[i \in 0 .. Len(queue)] ==
            IF i = 0 THEN space
            ELSE left[i - 1] - (IF Fits(queue[i], left[i - 1]) /\ ~ queue[i].sent
                                   /\ queue[i].id \notin failing
                                THEN queue[i].len ELSE 0)
    IN left

\* send() of the messages in `queue': those that fit are added, in order, and `left' is
\* the space after each.  The first after which canSend() is true calls
\* AsyncClient::send(), which makes the client busy.
SendMessages(c, s, polled, queue, failing, left) ==
    LET last == Len(queue)
        Adds(i) == left[i] # left[i - 1]
        Outputs(i) == ~ queue[i].sent /\ Fits(queue[i], left[i - 1]) /\ left[i] > 0
        output == {i \in 1 .. last : ~ c.busy /\ Outputs(i)}
        unacked == c.unacked + left[0] - left[last]
        added == {i \in 1 .. last : Adds(i)}
    IN /\ client' = [c EXCEPT !.unacked = unacked, !.busy = @ \/ output # {}]
       /\ sse' = [queue |-> [i \in 1 .. last |-> [queue[i] EXCEPT !.sent = @ \/ Adds(i)]],
                  counted |-> IF output = {} THEN s.counted
                              ELSE s.counted + s.unsent + left[0] - left[Min(output)],
                  unsent |-> IF output = {} THEN s.unsent + left[0] - left[last]
                             ELSE left[Min(output)] - left[last],
                  flight |-> IF polled THEN unacked
                             ELSE IF output = {} THEN s.flight
                             ELSE c.unacked + left[0] - left[Min(output)]]
       /\ \E at \in [1 .. Cardinality(added) -> added] :
             /\ \A i, j \in DOMAIN at : i < j => at[i] < at[j]
             /\ stream' = stream \o [i \in DOMAIN at |-> <<"event", queue[at[i]].id>>]
       /\ mishaps' = mishaps \cup (IF failing = {} THEN {} ELSE {"not added"})

\* AsyncEventSourceClient::_runQueue(): sends all that fit.
RunQueue(c, s, polled) ==
    \E queue \in {Unfinished(s.queue)} :
    \E failing \in {{}} \cup {{queue[i].id} : i \in DOMAIN queue} :
    \E left \in {SpaceAfter(queue, Space(c), failing)} :
        SendMessages(c, s, polled, queue, failing, left)

\* Mutant: every message of the queue is given all the bytes.
AckedMutant(queue, n) ==
    [i \in DOMAIN queue |-> [queue[i] EXCEPT !.acked = Smaller(@ + n, queue[i].len)]]

\* _onAck(): n bytes are given to the messages in the order of the queue.
Acked(queue, n) ==
    LET before(i) == FoldLeft(LAMBDA m, e : m + e.len - e.acked, 0, SubSeq(queue, 1, i - 1))
        share(i) == IF n > before(i) THEN Smaller(n - before(i), queue[i].len - queue[i].acked) ELSE 0
    IN [i \in DOMAIN queue |-> [queue[i] EXCEPT !.acked = @ + share(i)]]

-----------------------------------------------------------------------------

\* AsyncEventSourceResponse::_respond(): the head, or as much as there is room for.
Respond ==
    /\ kind = "events" /\ state = "SETUP" /\ client.open
    /\ Write(head, client, counters,
             IF Space(client) < Len(head) THEN {"head cut"} ELSE {})
    /\ sse' = [sse EXCEPT !.counted = @ + client'.unacked - client.unacked,
                          !.flight = client'.unacked]
    /\ state' = "WAIT_ACK"
    /\ UNCHANGED <<kind, text, head, content, posted>>

\* AsyncClient::_sent().  For the response the callback makes an AsyncEventSourceClient,
\* once anything has been acknowledged.
EventsAcknowledged ==
    /\ kind = "events" /\ client.open
    /\ \E n \in 1 .. sse.flight :
          LET c == [client EXCEPT !.unacked = @ - n, !.acked = @ + n]
              s == [sse EXCEPT !.counted = @ - n, !.flight = client.unacked - n]
              free == [c EXCEPT !.busy = FALSE, !.acked = 0]
          IN IF s.counted # 0
             THEN client' = c /\ sse' = s /\ UNCHANGED <<state, stream, mishaps>>
             ELSE IF state = "EVENTS"
             THEN /\ RunQueue(free, [s EXCEPT !.queue = Acked(@, c.acked)], FALSE)
                  /\ UNCHANGED state
             ELSE /\ client' = free /\ sse' = s
                  /\ state' = IF state = "WAIT_ACK" THEN "EVENTS" ELSE state
                  /\ UNCHANGED <<stream, mishaps>>
    /\ UNCHANGED <<kind, text, head, content, counters, posted>>

\* send() or write() of a message, _queueMessage(): a queue that is full drops it.
Post(len) ==
    LET full == Len(sse.queue) >= MaxQueued
        s == IF full THEN sse ELSE [sse EXCEPT !.queue = Append(@, Message(len))]
    IN /\ Connected /\ Len(posted) < MaxPosted
       /\ posted' = IF full THEN posted ELSE Append(posted, len)
       /\ IF CanSend(client) THEN RunQueue(client, s, FALSE)
          ELSE sse' = s /\ UNCHANGED <<client, stream, mishaps>>
       /\ UNCHANGED <<kind, text, state, head, content, counters>>

\* _onPoll(), whether the client can send or not; after a poll lwIP has everything sent.
EventsPoll ==
    /\ Connected /\ (sse.queue # <<>> \/ sse.flight # client.unacked)
    /\ RunQueue(client, sse, TRUE)
    /\ UNCHANGED <<kind, text, state, head, content, counters, posted>>

\* _onTimeout(), close() or the peer: _onDisconnect() deletes the queue.
EventsDisconnect ==
    /\ kind = "events" /\ client.open
    /\ client' = [client EXCEPT !.open = FALSE]
    /\ sse' = [sse EXCEPT !.queue = <<>>]
    /\ UNCHANGED <<kind, text, state, head, content, counters, stream, mishaps, posted>>

EventsNext ==
    \/ kind # "events" /\ ResponseNext /\ UNCHANGED eventVars
    \/ Respond \/ EventsAcknowledged \/ EventsPoll \/ EventsDisconnect
    \/ \E len \in Lengths : Post(len)

\* The peer acknowledges, the client polls, and a source has its content at last.
EventsSpec ==
    /\ EventsInit /\ [][EventsNext]_allVars
    /\ WF_allVars(kind # "events" /\ PeerAcknowledges /\ UNCHANGED eventVars)
    /\ WF_allVars(kind # "events" /\ OnPoll /\ UNCHANGED eventVars)
    /\ SF_allVars(kind # "events" /\ OnPoll /\ Advances /\ UNCHANGED eventVars)
    /\ WF_allVars(EventsAcknowledged) /\ WF_allVars(EventsPoll)

-----------------------------------------------------------------------------

IsEvent(byte) == byte[1] = "event"
IsSent(id) == <<"event", id>> \in {stream[i] : i \in DOMAIN stream}

\* An event is sent once, and one that was queued is only overtaken by events that are
\* shorter, unless adding it to the client's data has failed.
OvertakenByShorterOnly ==
    kind = "events" => \A i, j \in DOMAIN stream :
        i < j /\ IsEvent(stream[i]) /\ IsEvent(stream[j]) =>
            LET a == stream[i][2]
                b == stream[j][2]
            IN a # b /\ (b < a /\ mishaps = {} => posted[b] > posted[a])

\* An event that is queued and shorter than the send buffer is sent, or the connection
\* ends: acknowledgements are given to the events in the order of the queue and not in the
\* order in which they were sent, and they must not have it deleted before.  The client
\* may be busy for ever, which only polls can do without.
EventsAreSent ==
    \A id \in 1 .. MaxPosted :
        (id \in DOMAIN posted /\ posted[id] \in 1 .. SndBuf - 1) 
            ~> (IsSent(id) \/ ~ client.open \/ "not added" \in mishaps)

=============================================================================
