----------------------------- MODULE WebSocket -----------------------------
(***************************************************************************)
(* AsyncWebSocket (AsyncWebSocket.cpp): a location with its clients.  A    *)
(* client keeps a queue of control frames and a queue of messages, which   *)
(* it cuts into frames that fit the send buffer; one frame is sent at a    *)
(* time and the next when the peer has acknowledged it.  A message for     *)
(* every client shares one buffer, which the location deletes when no      *)
(* client has a message left in it.                                        *)
(*                                                                         *)
(* The connection is AsyncClient's: it can send when nothing counted is    *)
(* unacknowledged, and reports when all of it is acknowledged.             *)
(***************************************************************************)
EXTENDS Integers, Sequences, FiniteSets, SequencesExt

CONSTANTS Clients,      \* the clients that may connect
          SndBuf,       \* tcp_sndbuf() of an idle connection
          ShortFrame,   \* the longest payload of a two byte header: 125 in the code
          Lengths,      \* lengths of messages
          ControlBytes, \* payload of a control frame
          MaxQueued,    \* WS_MAX_QUEUED_MESSAGES
          MaxClients,   \* the argument of cleanupClients()
          Failures,     \* how sending a frame may fail, see SendFrame
          MaxEvents,    \* bound: calls of the application and frames of the peers
          MaxControl    \* bound: control frames queued when cleanupClients() is called

ASSUME WebSocketAssumption ==
    /\ SndBuf \in Nat /\ SndBuf > ControlBytes + 9 /\ ShortFrame \in Nat \ {0}
    /\ Lengths \subseteq Nat /\ ControlBytes \in Nat /\ ControlBytes <= ShortFrame
    /\ MaxQueued \in Nat \ {0} /\ MaxClients \in Nat
    /\ Failures \subseteq {"refused", "header only", "not output"}
    /\ MaxEvents \in Nat /\ MaxControl \in Nat

VARIABLES ws,      \* the clients' objects, with what they have put on their connections
          clients, \* _clients: those connected, the oldest first
          buffers, \* _buffers, each named by the message it holds
          events   \* calls and frames so far; it names the messages

webSocketVars == <<ws, clients, buffers, events>>

Idle == [busy |-> FALSE, unacked |-> 0, unsent |-> 0, acked |-> 0, inflight |-> 0]

\* wire and mishaps are history: the data frames sent, and the frames that failed.
NewClient(status) ==
    [status |-> status, control |-> <<>>, messages |-> <<>>, tcp |-> Idle,
     wire |-> <<>>, mishaps |-> {}]

WebSocketInit ==
    /\ ws = [c \in Clients |-> NewClient("NONE")]
    /\ clients = <<>>
    /\ buffers = {}
    /\ events = 0

-----------------------------------------------------------------------------
(* Frames. *)

CanSend(tcp) == ~ tcp.busy /\ SndBuf > tcp.inflight

\* webSocketSendFrameWindow(): the longest header is set aside.
Window(tcp) ==
    IF CanSend(tcp) /\ SndBuf - tcp.inflight >= 9 THEN SndBuf - tcp.inflight - 8 ELSE 0

HeaderLength(n) == IF n > ShortFrame THEN 4 ELSE 2

\* webSocketSendFrame() of n bytes, whose callers have looked at the window.  No
\* memory or a tcp_write() that fails for the header: "refused"; one that fails for
\* the data: "header only"; tcp_output() fails, and lwIP sends it all later: "not output".
SendFrame(tcp, n, outcome) ==
    LET h == HeaderLength(n)
    IN CASE outcome = "refused" -> tcp
         [] outcome = "header only" /\ n > 0 ->
                [tcp EXCEPT !.unsent = @ + h, !.inflight = @ + h]
         [] outcome = "not output" ->
                [tcp EXCEPT !.unsent = 0, !.inflight = @ + h + n]
         [] OTHER ->
                [tcp EXCEPT !.busy = TRUE, !.unacked = @ + tcp.unsent + h + n,
                            !.unsent = 0, !.inflight = @ + h + n]

\* An AsyncWebSocketControl; len() counts its header.
Control(isClose) == [isClose |-> isClose, finished |-> FALSE]
ControlLength == ControlBytes + 2

\* Bound: one call of the application or the connection meets with failures.
Outcomes == {"sent"} \cup (IF \A c \in Clients : ws[c].mishaps = {} THEN Failures ELSE {})

Mishap(what, outcome) == IF outcome = "sent" THEN {} ELSE {<<what, outcome>>}

SendControl(k, outcome) ==
    [k EXCEPT !.control = <<[Head(@) EXCEPT !.finished = TRUE]>> \o Tail(@),
              !.tcp = SendFrame(@, ControlBytes, outcome),
              !.mishaps = @ \cup Mishap("control", outcome)]

-----------------------------------------------------------------------------
(* Messages: AsyncWebSocketBasicMessage and, in a shared buffer,            *)
(* AsyncWebSocketMultiMessage.                                              *)

Message(len, shared) ==
    [id |-> events + 1, len |-> len, shared |-> shared,
     sent |-> 0, ack |-> 0, acked |-> 0, status |-> "SENDING"]

Finished(m) == m.status # "SENDING"

BetweenFrames(m) == m.acked = m.ack

\* Mutant: the message is done when all that was sent is acknowledged.
AckMessageMutant(m, n) ==
    [m EXCEPT !.acked = @ + n, !.status = IF m.acked + n = m.ack THEN "SENT" ELSE @]

\* ack().
AckMessage(m, n) ==
    LET acked == m.acked + n
        isSent == IF m.shared THEN m.sent >= m.len /\ acked >= m.ack
                  ELSE m.sent = m.len /\ acked = m.ack
    IN [m EXCEPT !.acked = acked, !.status = IF isSent THEN "SENT" ELSE @]

\* The payload of the next frame.
ToSend(m, tcp) ==
    IF m.len - m.sent < Window(tcp) THEN m.len - m.sent ELSE Window(tcp)

Frame(m, n, outcome) ==
    IF outcome = "refused" THEN <<>>
    ELSE <<[id |-> m.id, len |-> m.len, from |-> m.sent,
            bytes |-> IF outcome = "header only" THEN 0 ELSE n,
            isFirst |-> m.sent = 0, final |-> m.sent + n = m.len]>>

\* Mutant: every header has two bytes.
SendMessageMutant(k, outcome) ==
    LET m == Head(k.messages)
        n == ToSend(m, k.tcp)
        taken == IF outcome = "sent" THEN n ELSE 0
        First(next) == <<next>> \o Tail(k.messages)
    IN IF m.sent = m.len
       THEN [k EXCEPT !.messages = First([m EXCEPT !.status = "SENT"])]
       ELSE [k EXCEPT !.messages = First([m EXCEPT !.sent = @ + taken, !.ack = @ + taken + 2]),
                      !.tcp = SendFrame(@, n, outcome),
                      !.wire = @ \o Frame(m, n, outcome),
                      !.mishaps = @ \cup Mishap("message", outcome)]

\* send() of the first message, between its frames.  A frame that fails takes back
\* its payload from _sent and _ack, and leaves its header in _ack.
SendMessage(k, outcome) ==
    LET m == Head(k.messages)
        n == ToSend(m, k.tcp)
        taken == IF outcome = "sent" THEN n ELSE 0
        First(next) == <<next>> \o Tail(k.messages)
    IN IF m.sent = m.len
       THEN [k EXCEPT !.messages = First([m EXCEPT !.status = "SENT"])]
       ELSE [k EXCEPT !.messages = First([m EXCEPT !.sent = @ + taken,
                                                   !.ack = @ + taken + HeaderLength(n)]),
                      !.tcp = SendFrame(@, n, outcome),
                      !.wire = @ \o Frame(m, n, outcome),
                      !.mishaps = @ \cup Mishap("message", outcome)]

-----------------------------------------------------------------------------
(* AsyncWebSocketClient. *)

\* _runQueue() first deletes the messages that have been sent.
Unfinished(k) ==
    LET Waiting(m) == ~ Finished(m)
        first == SelectInSeq(k.messages, Waiting)
    IN [k EXCEPT !.messages = IF first = 0 THEN <<>> ELSE SubSeq(@, first, Len(@))]

IsBetween(k) == k.messages = <<>> \/ BetweenFrames(Head(k.messages))

\* Then it sends a control frame, or else a frame of the first message.
SendNext(k) ==
    IF k.control # <<>> /\ IsBetween(k) /\ Window(k.tcp) > ControlLength - 1
    THEN {SendControl(k, outcome) : outcome \in Outcomes}
    ELSE IF k.messages # <<>> /\ IsBetween(k) /\ Window(k.tcp) > 0
    THEN {SendMessage(k, outcome) : outcome \in Outcomes}
    ELSE {k}

RunQueue(k) == UNION {SendNext(left) : left \in {Unfinished(k)}}

RunIfCanSend(k) == IF CanSend(k.tcp) THEN RunQueue(k) ELSE {k}

\* _queueControl(), _queueMessage(): a message too many is deleted.
QueueControl(k, isClose) ==
    RunIfCanSend([k EXCEPT !.control = Append(@, Control(isClose))])

QueueMessage(k, m) ==
    RunIfCanSend([k EXCEPT !.messages = IF Len(@) >= MaxQueued THEN @ ELSE Append(@, m)])

Connected(c) == ws[c].status = "CONNECTED"
Count == Cardinality({c \in Clients : Connected(c)})

\* _onDisconnect(), _handleDisconnect(): the client and its queues are deleted.
Leave(c) ==
    /\ ws' = [ws EXCEPT ![c] = NewClient("GONE")]
    /\ clients' = Remove(clients, c)
    /\ UNCHANGED buffers

-----------------------------------------------------------------------------
(* _cleanBuffers(). *)

InUse(w, b) == \E c \in Clients : \E i \in DOMAIN w[c].messages :
                  w[c].messages[i].shared /\ w[c].messages[i].id = b

\* Mutant: a buffer is free when all of it has been sent.
CleanedMutant(bufs, w) ==
    {{b \in bufs : \E c \in Clients : \E i \in DOMAIN w[c].messages :
                      LET m == w[c].messages[i] IN m.id = b /\ m.sent < m.len}}

\* The loop goes on through a list node that it has just deleted: after the first
\* buffer it may find the others, or not.
Cleaned(bufs, w) ==
    LET free == {b \in bufs : ~ InUse(w, b)}
    IN {bufs \ free} \cup {bufs \ {b} : b \in free}

-----------------------------------------------------------------------------
(* The application. *)

Event == events < MaxEvents /\ events' = events + 1

\* The peer has acknowledged the response that accepts it.
Connect(c) ==
    /\ ws[c].status = "NONE"
    /\ ws' = [ws EXCEPT ![c] = NewClient("CONNECTED")]
    /\ clients' = Append(clients, c)
    /\ UNCHANGED <<buffers, events>>

\* text() or binary() to one client.
Text(c, len) ==
    /\ Connected(c) /\ Event
    /\ \E k \in QueueMessage(ws[c], Message(len, FALSE)) : ws' = [ws EXCEPT ![c] = k]
    /\ UNCHANGED <<clients, buffers>>

\* textAll(): makeBuffer(), a message to every client, _cleanBuffers().
TextAll(len) ==
    /\ Event
    /\ LET Result(c) == IF Connected(c) THEN QueueMessage(ws[c], Message(len, TRUE)) ELSE {ws[c]}
       IN ws' \in {w \in [Clients -> UNION {Result(c) : c \in Clients}] :
                       \A c \in Clients : w[c] \in Result(c)}
    /\ buffers' \in Cleaned(buffers \cup {events + 1}, ws')
    /\ UNCHANGED clients

\* close() and ping() while the client is connected, which it is until the peer
\* answers.
Ask(c, isClose) ==
    /\ Connected(c)
    /\ \E k \in QueueControl(ws[c], isClose) : ws' = [ws EXCEPT ![c] = k]
    /\ UNCHANGED <<clients, buffers>>

Close(c) == Event /\ Ask(c, TRUE)
Ping(c) == Event /\ Ask(c, FALSE)

\* cleanupClients(): the first of the list is asked to close.
CleanupClients ==
    /\ Count > MaxClients
    /\ Len(ws[Head(clients)].control) < MaxControl
    /\ Ask(Head(clients), TRUE)
    /\ UNCHANGED events

-----------------------------------------------------------------------------
(* The callbacks of the connection. *)

\* _onAck(n) of a client: the control frame it is for is done, or else the first
\* message gets it.
Acknowledged(k, n) ==
    LET isControl == k.control # <<>> /\ Head(k.control).finished
        len == IF isControl THEN n - ControlLength ELSE n
    IN [k EXCEPT !.control = IF isControl THEN Tail(@) ELSE @,
                 !.messages = IF len = 0 \/ @ = <<>> THEN @
                              ELSE <<AckMessage(Head(@), len)>> \o Tail(@)]

\* Mutant: the client is still connected when it has answered.
AcknowledgesCloseMutant(k) ==
    k.control # <<>> /\ Head(k.control).finished /\ Head(k.control).isClose
        /\ k.status = "CONNECTED"

\* The answer to the peer's close has been acknowledged: close(true).
AcknowledgesClose(k) ==
    k.control # <<>> /\ Head(k.control).finished /\ Head(k.control).isClose
        /\ k.status = "DISCONNECTING"

OnAck(c, n, tcp) ==
    IF AcknowledgesClose(ws[c]) THEN Leave(c)
    ELSE /\ \E k \in {Acknowledged([ws[c] EXCEPT !.tcp = tcp], n)} :
            \E next \in RunQueue(k) : ws' = [ws EXCEPT ![c] = next]
         /\ buffers' \in Cleaned(buffers, ws)
         /\ UNCHANGED clients

\* AsyncClient::_sent() of n bytes.
Counted(tcp, n) ==
    [tcp EXCEPT !.inflight = @ - n, !.unacked = @ - n, !.acked = @ + n]

\* The peer acknowledges all there is; the client calls _onAck() if that is all
\* it has counted.
PeerAcknowledges(c) ==
    /\ ws[c].tcp.inflight > 0 /\ UNCHANGED events
    /\ \E tcp \in {Counted(ws[c].tcp, ws[c].tcp.inflight)} :
          IF tcp.unacked = 0
          THEN OnAck(c, tcp.acked, [tcp EXCEPT !.busy = FALSE, !.acked = 0])
          ELSE /\ ws' = [ws EXCEPT ![c].tcp = tcp]
               /\ UNCHANGED <<clients, buffers>>

\* Mutant: messages are left to the acknowledgements.
QueuedMutant(k) == k.control # <<>>

Queued(k) == k.control # <<>> \/ k.messages # <<>>

\* _onPoll(): the queues are run, or else the keep-alive period is over.
Poll(c) ==
    /\ ws[c].status \in {"CONNECTED", "DISCONNECTING"}
    /\ CanSend(ws[c].tcp) /\ Queued(ws[c])
    /\ UNCHANGED <<clients, buffers, events>>
    /\ \E k \in RunQueue(ws[c]) : ws' = [ws EXCEPT ![c] = k]

KeepAlive(c) == ~ Queued(ws[c]) /\ Ask(c, FALSE) /\ UNCHANGED events

\* _onData(): a ping.
PeerPings(c) ==
    /\ c \in ToSet(clients) /\ Event
    /\ \E k \in QueueControl(ws[c], FALSE) : ws' = [ws EXCEPT ![c] = k]
    /\ UNCHANGED <<clients, buffers>>

\* _onData(): a close, the first of which is answered.
PeerCloses(c) ==
    /\ c \in ToSet(clients) /\ Event
    /\ \/ /\ Connected(c)
          /\ \E k \in QueueControl([ws[c] EXCEPT !.status = "DISCONNECTING"], TRUE) :
                ws' = [ws EXCEPT ![c] = k]
          /\ UNCHANGED <<clients, buffers>>
       \/ ~ Connected(c) /\ Leave(c)

\* The connection ends, or _onTimeout() closes it as the peer does not acknowledge.
Disconnect(c) ==
    /\ c \in ToSet(clients)
    /\ Leave(c) /\ UNCHANGED events

WebSocketNext ==
    \/ \E len \in Lengths : TextAll(len)
    \/ CleanupClients
    \/ \E c \in Clients :
          \/ Connect(c) \/ Close(c) \/ Ping(c) \/ KeepAlive(c) \/ Poll(c)
          \/ \E len \in Lengths : Text(c, len)
          \/ PeerAcknowledges(c) \/ PeerPings(c) \/ PeerCloses(c) \/ Disconnect(c)

\* Connections are polled and peers acknowledge what they get.
WebSocketSpec ==
    /\ WebSocketInit /\ [][WebSocketNext]_webSocketVars
    /\ \A c \in Clients : WF_webSocketVars(Poll(c) \/ PeerAcknowledges(c))

-----------------------------------------------------------------------------

\* A frame of a message is sent only when every frame of the message before it
\* and every byte of its own before it have been, and is marked as the frames of
\* RFC 6455 are: the first has the opcode, the last is final.
InOrder(frames) ==
    \A i \in DOMAIN frames :
        LET f == frames[i]
        IN /\ f.isFirst <=> f.from = 0
           /\ f.final <=> f.from + f.bytes = f.len
           /\ IF i = 1 THEN f.from = 0
              ELSE LET e == frames[i - 1]
                   IN IF e.final THEN f.from = 0 /\ f.id > e.id
                      ELSE f.id = e.id /\ f.from = e.from + e.bytes

\* What each peer gets is whole messages in the order in which they were queued, even if
\* no memory could be had for a frame.
MessagesAreWhole ==
    \A c \in Clients :
        (\A m \in ws[c].mishaps : m[2] = "refused") => InOrder(ws[c].wire)

\* No frame of a message has failed, nor a control frame in the middle.
Unharmed(k) == k.mishaps \subseteq {<<"control", "refused">>}

\* The bytes that a client waits for are those of one frame, and its queues tell
\* which: a control frame while no frame of a message is out, or the first message.
OneFrameInFlight ==
    \A c \in Clients : LET k == ws[c]
                           ofControl == k.control # <<>> /\ Head(k.control).finished
                       IN Unharmed(k) /\ k.tcp.busy =>
        IF ofControl THEN k.tcp.unacked = ControlLength /\ IsBetween(k)
        ELSE /\ k.messages # <<>>
             /\ Head(k.messages).ack - Head(k.messages).acked = k.tcp.unacked

\* A buffer is there as long as a client has a message left in it.
BuffersInUseAreKept ==
    \A c \in Clients : \A i \in DOMAIN ws[c].messages :
        ws[c].messages[i].shared => ws[c].messages[i].id \in buffers

\* Messages leave the queue, unless a frame has failed, or cleanupClients() keeps
\* asking the same client to close: control frames go first.
MessagesAreSent ==
    \A c \in Clients :
        ws[c].messages # <<>> ~> (ws[c].messages = <<>> \/ ~ Unharmed(ws[c]) \/ Count > MaxClients)

\* When the peer has closed, the connection is closed.
PeerCloseEnds ==
    \A c \in Clients :
        ws[c].status = "DISCONNECTING" ~> (ws[c].status = "GONE" \/ ~ Unharmed(ws[c]))

=============================================================================
