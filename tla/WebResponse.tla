---------------------------- MODULE WebResponse ----------------------------
(***************************************************************************)
(* The life of one response of the web server, from send() to the          *)
(* deletion of the response object: AsyncBasicResponse and                 *)
(* AsyncAbstractResponse of WebResponses.cpp, driven by the request's      *)
(* _onAck() and _onPoll() (WebRequest.cpp) on a connection whose send      *)
(* buffer holds SndBuf bytes.  The client reports acknowledgements as      *)
(* module AsyncClient has it: when everything written is acknowledged.     *)
(*                                                                         *)
(* A response is of one of five kinds: "basic" (send(code, type, String)), *)
(* "length" (an abstract response with a content length: progmem, file,    *)
(* stream, callback), "chunked", "template" (chunked as well, and the      *)
(* placeholders of its text are replaced), and "close" (no length).        *)
(***************************************************************************)
EXTENDS Templates, FiniteSets

CONSTANTS HeadLength,    \* bytes of the response's head
          ContentLength, \* bytes of its content
          Texts,         \* what there may be for a response with templates
          SndBuf,        \* bytes the client takes before the peer acknowledges any
          Before,        \* up to so many bytes are unacknowledged already: "100 Continue"
          ChunkHead,     \* "%x", padded, and CR LF: 6 bytes in the code
          ChunkTail      \* CR LF: 2 bytes in the code

ASSUME ResponseAssumption ==
    /\ HeadLength \in Nat \ {0} /\ ContentLength \in Nat /\ Before \in Nat
    /\ ChunkHead \in Nat \ {0} /\ ChunkTail \in Nat \ {0}
    /\ SndBuf \in Nat /\ SndBuf > ChunkHead + ChunkTail /\ SndBuf >= Before

VARIABLES kind,
          text,      \* what the source of the response has
          state,     \* _state; "NONE" when there is no response
          head,      \* _head
          content,   \* _content; what the source has not given yet
          counters,  \* _contentLength, _sentLength, _ackedLength, _writtenLength
          client,    \* [open, busy, unacked, acked]
          stream,    \* everything written to the client
          mishaps    \* history: what has gone wrong

responseVars ==
    <<kind, text, state, head, content, counters, client, stream, mishaps>>

\* The bytes of a response are told apart by what they are and their position.
Bytes(what, n) == [i \in 1 .. n |-> <<what, i>>]
HeadBytes == Bytes("head", HeadLength)
ContentBytes == Bytes("content", ContentLength)
ChunkHeadBytes == [i \in 1 .. ChunkHead |-> <<"size", i>>]
ChunkTailBytes == [i \in 1 .. ChunkTail |-> <<"crlf", i>>]

IsChunked == kind \in {"chunked", "template"}
SendsContentLength == kind \in {"basic", "length"}

ResponseStart ==
    /\ state = "SETUP"
    /\ head = HeadBytes
    /\ text \in IF kind = "template" THEN Texts ELSE {ContentBytes}
    /\ content = text
    /\ counters = [content |-> IF SendsContentLength THEN ContentLength ELSE 0,
                   sent |-> 0, acked |-> 0, written |-> 0]
    /\ \E n \in 0 .. Before :
          client = [open |-> TRUE, busy |-> n > 0, unacked |-> n, acked |-> 0]
    /\ stream = <<>>
    /\ mishaps = {}

ResponseInit ==
    kind \in {"basic", "length", "chunked", "template", "close"} /\ ResponseStart

-----------------------------------------------------------------------------
(* _respond() and _ack().  `c' is the client when they are called.          *)

Space(c) == IF c.open THEN SndBuf - c.unacked ELSE 0

\* _writtenLength += client->write(data), of which as much is sent as there is
\* room for; tcp_write() may fail.  `counted' are the counters without it.
Write(data, c, counted, mishap) ==
    \E ok \in BOOLEAN :
        LET out == IF ok THEN Upto(data, Space(c)) ELSE <<>>
        IN /\ ok \/ data # <<>>
           /\ stream' = stream \o out
           /\ counters' = [counted EXCEPT !.written = @ + Len(out)]
           /\ client' = IF out = <<>> THEN c
                        ELSE [c EXCEPT !.busy = TRUE, !.unacked = @ + Len(out)]
           /\ mishaps' = mishaps \cup mishap \cup (IF ok THEN {} ELSE {"write failed"})

\* AsyncBasicResponse::_respond(): what does not fit is left for _ack().
BasicRespond(c) ==
    LET all == head \o content
        space == Space(c)
        fits == space >= Len(all)
        waits == space = Len(head) /\ ~ fits
        out == IF waits THEN <<>> ELSE Upto(all, space)
        contentOut == IF space > Len(head) /\ ~ fits THEN space - Len(head) ELSE 0
        headLeft == IF waits THEN Len(head)
                    ELSE IF space < Len(head) THEN Len(head) - space ELSE 0
    IN /\ Write(out, c, [counters EXCEPT !.sent = @ + contentOut, !.content = @ + headLeft], {})
       /\ head' = <<>>
       /\ content' = IF fits THEN content ELSE From(all, Len(out))
       /\ state' = IF fits THEN "WAIT_ACK" ELSE "CONTENT"

\* AsyncBasicResponse::_ack() after n more bytes have been acknowledged.
BasicAck(n, c) ==
    LET counted == [counters EXCEPT !.acked = @ + n]
        available == counters.content - counters.sent
        space == Space(c)
    IN /\ \/ /\ state = "CONTENT" /\ space > available
             /\ Write(Upto(content, available), c, counted, {})
             /\ content' = <<>> /\ state' = "WAIT_ACK"
          \/ /\ state = "CONTENT" /\ space <= available
             /\ Write(Upto(content, space), c, [counted EXCEPT !.sent = @ + space], {})
             /\ content' = From(content, space) /\ UNCHANGED state
          \/ /\ state = "WAIT_ACK"
             /\ counters' = counted /\ client' = c
             /\ state' = IF counted.acked >= counted.written THEN "END" ELSE state
             /\ UNCHANGED <<content, stream, mishaps>>
       /\ UNCHANGED head

\* No memory, no data yet (RESPONSE_TRY_AGAIN), or no room for a chunk: the
\* source is asked again later.
FillLater(counted, c) ==
    /\ state' = "CONTENT"
    /\ counters' = counted /\ client' = c
    /\ mishaps' = IF head = <<>> THEN mishaps ELSE mishaps \cup {"head retried"}
    /\ UNCHANGED <<head, content, stream>>

\* Mutant: the head is not taken into account.
RoomMutant(st, c) == Space(c)

\* The room for content: _ack() deducts the head only in RESPONSE_HEADERS.
Room(st, c) == IF st = "HEADERS" THEN Space(c) - Len(head) ELSE Space(c)

\* A source may give n bytes of what it has left; only one with a content length may
\* give less than all it has without having come to its end.
Gives(n, max) ==
    /\ n <= max /\ n <= Len(content)
    /\ n = 0 /\ ~ SendsContentLength => content = <<>> \/ max = 0

\* What the source gives, with its templates processed, and what it keeps.
Given(max) ==
    IF kind = "template" THEN FillBufferAndProcessTemplates(content, max)
    ELSE {[data |-> Upto(content, n), rest |-> From(content, n), mishap |-> FALSE] :
            n \in {m \in 0 .. max : Gives(m, max)}}

\* The head, if it has not been sent, and a part of the content.
Fill(st, counted, c) ==
    LET room == Room(st, c)
        max == IF IsChunked THEN room - ChunkHead - ChunkTail
               ELSE IF kind = "close" THEN room
               ELSE Smaller(room, counted.content - counted.sent)
    IN /\ IsChunked => room > ChunkHead + ChunkTail
       /\ \E given \in Given(max) :
            LET part == given.data
                out == head \o (IF IsChunked THEN ChunkHeadBytes \o part \o ChunkTailBytes ELSE part)
                filled == [counted EXCEPT !.sent = @ + Len(part)]
                last == IF IsChunked THEN part = <<>>
                        ELSE filled.sent = filled.content \/ (kind = "close" /\ out = <<>>)
            IN /\ Write(out, c, filled,
                        (IF max = 0 /\ last /\ content # <<>> THEN {"no room"} ELSE {})
                        \cup (IF given.mishap THEN {"template"} ELSE {}))
               /\ head' = <<>>
               /\ content' = given.rest
               /\ state' = IF last THEN "WAIT_ACK" ELSE "CONTENT"

\* AsyncAbstractResponse::_ack() in state `st'.
AbstractAck(st, n, c) ==
    LET counted == [counters EXCEPT !.acked = @ + n]
    IN \/ /\ st = "HEADERS" /\ Space(c) < Len(head)
          /\ Write(Upto(head, Space(c)), c, counted, {})
          /\ head' = From(head, Space(c)) /\ state' = st
          /\ UNCHANGED content
       \/ /\ st = "CONTENT" \/ (st = "HEADERS" /\ Space(c) >= Len(head))
          /\ Fill(st, counted, c) \/ FillLater(counted, c)
       \/ /\ st = "WAIT_ACK"
          /\ LET ends == ~ SendsContentLength \/ counted.acked >= counted.written
             IN /\ state' = IF ends THEN "END" ELSE st
                /\ client' = [c EXCEPT !.open = ~ (ends /\ kind = "close")]
          /\ counters' = counted
          /\ UNCHANGED <<head, content, stream, mishaps>>

Ack(n, c) == IF kind = "basic" THEN BasicAck(n, c) ELSE AbstractAck(state, n, c)

-----------------------------------------------------------------------------
(* The request. *)

\* send(): _respond(), in the handler of the request or at any time after it.
Send ==
    /\ state = "SETUP" /\ client.open
    /\ IF kind = "basic" THEN BasicRespond(client) ELSE AbstractAck("HEADERS", 0, client)
    /\ UNCHANGED <<kind, text>>

Acknowledging == {"HEADERS", "CONTENT", "WAIT_ACK"}

\* _onAck(): a response that has finished is deleted.
OnAck(n, c) ==
    \/ state \in Acknowledging /\ Ack(n, c)
    \/ /\ state \in {"SETUP", "END", "NONE"}
       /\ state' = IF state = "END" THEN "NONE" ELSE state
       /\ client' = c
       /\ UNCHANGED <<head, content, counters, stream, mishaps>>

\* The peer acknowledges n bytes, the client calls _onAck() when none is left.
PeerAcknowledges ==
    /\ client.open /\ UNCHANGED <<kind, text>>
    /\ \E n \in 1 .. client.unacked :
          IF n < client.unacked
          THEN /\ client' = [client EXCEPT !.unacked = @ - n, !.acked = @ + n]
               /\ UNCHANGED <<state, head, content, counters, stream, mishaps>>
          ELSE OnAck(client.acked + n,
                     [client EXCEPT !.busy = FALSE, !.unacked = 0, !.acked = 0])

\* Mutant: a response is also continued while the client waits for the peer.
OnPollBusyMutant ==
    /\ client.open /\ Space(client) > 0
    /\ state \in Acknowledging /\ Ack(0, client)
    /\ UNCHANGED <<kind, text>>

\* Mutant: only a response with content left is continued.
OnPollContentMutant ==
    /\ client.open /\ ~ client.busy /\ Space(client) > 0
    /\ state = "CONTENT" /\ Ack(0, client)
    /\ UNCHANGED <<kind, text>>

\* _onPoll(): when the client can send.
OnPoll ==
    /\ client.open /\ ~ client.busy /\ Space(client) > 0
    /\ state \in Acknowledging /\ Ack(0, client)
    /\ UNCHANGED <<kind, text>>

\* The connection ends for a reason of its own, and with it the request.
Disconnect ==
    /\ client.open
    /\ client' = [client EXCEPT !.open = FALSE]
    /\ UNCHANGED <<kind, text, state, head, content, counters, stream, mishaps>>

ResponseNext == Send \/ PeerAcknowledges \/ OnPoll \/ Disconnect

\* A source that says "later" does not say so for ever.
Advances == content' # content \/ state' # state

-----------------------------------------------------------------------------

Content == IF kind = "template" THEN Substituted(text) ELSE text
AllBytes == HeadBytes \o (IF kind = "events" THEN <<>> ELSE Content)

\* Where the bytes of the head and the content are in what was written, and how many
\* of them are up to position p; how often a byte of the chunks has been written.
PayloadAt(s) == {p \in DOMAIN s : s[p][1] \in {"head", "content"}}
Rank(s, p) == Cardinality(PayloadAt(s) \cap (1 .. p))
Count(s, byte) == Cardinality({p \in DOMAIN s : s[p] = byte})

\* The payload of s is a prefix of all.
IsPayloadOf(s, all) ==
    \A p \in PayloadAt(s) : Rank(s, p) <= Len(all) /\ s[p] = all[Rank(s, p)]

\* The peer gets the response: what has been written is the head and then the
\* content, all of it when the response waits for the last acknowledgement, and
\* every chunk is complete.
ResponseIsWhole ==
    /\ IsPayloadOf(stream, AllBytes)
    /\ state \in {"WAIT_ACK", "END", "NONE"} => Cardinality(PayloadAt(stream)) = Len(AllBytes)
    /\ Count(stream, <<"size", 1>>) = Count(stream, <<"crlf", ChunkTail>>)

\* The peer gets all of it, with values for placeholders, unless a write failed, a first
\* part of the content that could not be had was asked for again, there was no room for
\* any, the end of a buffer divided an escaped placeholder symbol, or the last value of
\* the content did not fit.
WholeUnlessMishap == mishaps = {} => ResponseIsWhole

\* A response ends, and its connection is closed if that is what ends it, only
\* when nothing that was written is still to be acknowledged.
EndsWhenAcknowledged == state \in {"END", "NONE"} => client.unacked = 0

\* A response that is being sent ends, whatever happened to its bytes.
ResponseEnds ==
    kind # "events" /\ state \in Acknowledging ~> (state \notin Acknowledging \/ ~ client.open)

=============================================================================
