-------------------------- MODULE BufferedClients --------------------------
(***************************************************************************)
(* The three classes that put buffers between an application and an        *)
(* AsyncClient: SyncClient (SyncClient.cpp), whose calls block,            *)
(* AsyncPrinter (AsyncPrinter.cpp), whose write() blocks, and              *)
(* AsyncTCPbuffer (ESPAsyncTCPbuffer.cpp), which has readers for incoming  *)
(* data.  A call that waits in delay(0) lets the callbacks of the client   *)
(* run.  The client is as module AsyncClient has it, with one              *)
(* acknowledgement callback for everything that was counted.               *)
(***************************************************************************)
EXTENDS Integers, FiniteSetsExt, SequencesExt

CONSTANTS Kinds,          \* the classes to model: "sync", "printer", "buffer"
          TxRoom,         \* bytes that a cbuf takes: its size less one
          SndBuf,         \* tcp_sndbuf() of an idle connection
          Terminators,    \* the received bytes that end a string
          Wanted,         \* what an application asks readBytes() for
          Limits,         \* bounds: bytes passed to write(), and received, in pairs
          MaxConnections  \* bound: connections of a SyncClient

ASSUME BufferedAssumption ==
    /\ Kinds \subseteq {"sync", "printer", "buffer"}
    /\ TxRoom \in Nat \ {0} /\ SndBuf \in Nat \ {0} /\ Terminators \subseteq Nat
    /\ Wanted \subseteq Nat \ {0}
    /\ Limits \subseteq Nat \X Nat /\ MaxConnections \in Nat

VARIABLES kind,
          limit,   \* one of Limits
          client,  \* [open, busy, unacked, queued]: _client, its counter, and lwIP's
          tx,      \* _tx_buffer, or the chain from _TXbufferRead to _TXbufferWrite
          call,    \* the call of the application: [place, data, toSend, toWrite]
          sending, \* the loop of AsyncTCPbuffer::_sendBuffer() runs
          wire,    \* bytes given to lwIP on this connection
          rx,      \* [chain, ackLen, buffer, mode, want]
          given    \* [passed, received, read, connections, mishaps]: history

bufferedVars == <<kind, limit, client, tx, call, sending, wire, rx, given>>

NoCall == [place |-> "none", data |-> <<>>, toSend |-> 0, toWrite |-> 0]
NewClient == [open |-> TRUE, busy |-> FALSE, unacked |-> 0, queued |-> 0]

BufferedInit ==
    /\ kind \in Kinds /\ limit \in Limits
    /\ client = NewClient
    /\ tx = <<<<>>>>
    /\ call = NoCall /\ sending = FALSE
    /\ wire = <<>>
    /\ rx = [chain |-> <<>>, ackLen |-> 0, buffer |-> <<>>, mode |-> "FREE", want |-> 0]
    /\ given = [passed |-> 0, received |-> 0, read |-> <<>>, connections |-> 1, mishaps |-> {}]

Smaller(m, n) == IF m < n THEN m ELSE n
Upto(s, n) == SubSeq(s, 1, Smaller(n, Len(s)))
From(s, n) == SubSeq(s, n + 1, Len(s))
Numbers(m, n) == [i \in 1 .. n - m |-> m + i]

Held == FlattenSeq(tx)
Space(c) == SndBuf - c.queued
CanSend(c) == c.open /\ ~ c.busy /\ Space(c) > 0

\* Something runs to its end before anything else happens.
Running ==
    sending \/ call.place \in {"fill", "more", "check"} \/ (call.place = "last" /\ kind = "sync")

-----------------------------------------------------------------------------
(* Sending. *)

Mishap(m) == given' = [given EXCEPT !.mishaps = @ \cup m]

\* _client->write(out), which returns n: all of it; or nothing, since tcp_write()
\* has failed; or nothing, although the bytes are queued, since tcp_output() has, which
\* happens once here.
ClientWrite(c, out, n) ==
    \/ /\ n = Len(out) /\ wire' = wire \o out
       /\ client' = [c EXCEPT !.busy = TRUE, !.unacked = @ + n, !.queued = @ + n]
       /\ UNCHANGED given
    \/ /\ n = 0 /\ Mishap({"not written"})
       /\ client' = c /\ UNCHANGED wire
    \/ /\ n = 0 /\ "not output" \notin given.mishaps
       /\ Mishap({"not output"}) /\ wire' = wire \o out
       /\ client' = [c EXCEPT !.queued = @ + Len(out)]

\* Mutant: what does not fit is taken from the buffer as well.
TakenMutant(c, buffer) == buffer

\* What _sendBuffer() takes from a buffer.
Taken(c, buffer) == Upto(buffer, Space(c))

\* SyncClient::_sendBuffer(), AsyncPrinter::_sendBuffer(): the bytes have left the
\* buffer before write() says how many it has taken.
SendBuffer(c) ==
    IF CanSend(c) /\ tx[1] # <<>>
    THEN LET out == Taken(c, tx[1])
         IN /\ \E n \in 0 .. Len(out) : ClientWrite(c, Upto(out, Space(c)), n)
            /\ tx' = <<From(tx[1], Len(out))>>
    ELSE client' = c /\ UNCHANGED <<tx, wire, given>>

\* AsyncTCPbuffer::_sendBuffer(): one turn of its loop removes what was written, and
\* a cbuf that is empty when there is another.
SendLoop ==
    /\ sending
    /\ IF CanSend(client) /\ tx[1] # <<>>
       THEN \E n \in 0 .. Len(tx[1]) :
              LET rest == From(tx[1], n)
              IN /\ ClientWrite(client, Upto(Taken(client, tx[1]), Space(client)), n)
                 /\ tx' = IF rest = <<>> /\ Len(tx) > 1 THEN Tail(tx) ELSE <<rest>> \o Tail(tx)
                 /\ UNCHANGED sending
       ELSE sending' = FALSE /\ UNCHANGED <<tx, client, wire, given>>
    /\ UNCHANGED <<kind, limit, call, rx>>

\* A callback, or flush(), calls _sendBuffer().
CallSendBuffer(c) ==
    IF kind = "buffer" THEN sending' = TRUE /\ client' = c /\ UNCHANGED <<tx, wire, given>>
    ELSE SendBuffer(c) /\ UNCHANGED sending

-----------------------------------------------------------------------------
(* write() and flush(). *)

MayCall == call = NoCall /\ ~ Running /\ client.open

\* The bytes of an application are numbered in the order in which it passes them.
Write(n) ==
    /\ MayCall
    /\ given' = [given EXCEPT !.passed = @ + n]
    /\ call' = [place |-> IF kind = "buffer" THEN "more" ELSE "fill",
                data |-> Numbers(given.passed, given.passed + n), toSend |-> n, toWrite |-> 0]
    /\ UNCHANGED <<kind, limit, client, tx, sending, wire, rx>>

\* SyncClient::write(), AsyncPrinter::write(): as much as there is room for, which the
\* code takes from the beginning of the data each time; or the rest.
FillTx ==
    LET room == TxRoom - Len(tx[1])
        all == Len(call.data)
    IN /\ call.place = "fill"
       /\ IF room < call.toSend
          THEN /\ tx' = <<tx[1] \o SubSeq(call.data, 1, room)>>
               /\ call' = [call EXCEPT !.place = "pass", !.toWrite = room]
               /\ Mishap(IF call.toSend < all /\ room > 0 THEN {"restarted"} ELSE {})
          ELSE /\ tx' = <<tx[1] \o From(call.data, all - call.toSend)>>
               /\ call' = [call EXCEPT !.place = "last"]
               /\ UNCHANGED given
       /\ UNCHANGED <<kind, limit, client, sending, wire, rx>>

\* The wait for canSend() is over.
SendPass ==
    /\ call.place = "pass" /\ CanSend(client)
    /\ SendBuffer(client)
    /\ call' = [call EXCEPT !.place = "fill", !.toSend = @ - call.toWrite]
    /\ UNCHANGED <<kind, limit, sending, rx>>

\* AsyncPrinter waits once more, SyncClient leaves the rest to an acknowledgement.
SendLast ==
    /\ call.place = "last" /\ (CanSend(client) \/ kind = "sync")
    /\ SendBuffer(client)
    /\ call' = NoCall
    /\ UNCHANGED <<kind, limit, sending, rx>>

\* AsyncTCPbuffer::write(): fill the last cbuf, and send.
WriteMore ==
    LET room == TxRoom - Len(Last(tx))
    IN /\ call.place = "more" /\ ~ sending
       /\ tx' = Append(Front(tx), Last(tx) \o Upto(call.data, room))
       /\ call' = [call EXCEPT !.place = "check", !.data = From(@, room)]
       /\ sending' = TRUE
       /\ UNCHANGED <<kind, limit, client, wire, rx, given>>

\* A cbuf that is full gets a successor, or write() returns the number of bytes it
\* has taken, when the heap is low.
AddBuffer ==
    LET more == call.data # <<>>
        full == Len(Last(tx)) = TxRoom
    IN /\ call.place = "check" /\ ~ sending
       /\ \/ /\ more /\ full
             /\ tx' = Append(tx, <<>>) /\ call' = [call EXCEPT !.place = "more"]
             /\ UNCHANGED given
          \/ /\ more /\ full
             /\ call' = NoCall /\ given' = [given EXCEPT !.passed = @ - Len(call.data)]
             /\ UNCHANGED tx
          \/ /\ ~ (more /\ full)
             /\ call' = IF more THEN [call EXCEPT !.place = "more"] ELSE NoCall
             /\ UNCHANGED <<tx, given>>
       /\ UNCHANGED <<kind, limit, client, sending, wire, rx>>

\* flush() of SyncClient sends once, that of AsyncTCPbuffer until the last cbuf is empty.
Flush ==
    /\ MayCall /\ kind # "printer" /\ Last(tx) # <<>>
    /\ call' = [NoCall EXCEPT !.place = "flush"]
    /\ UNCHANGED <<kind, limit, client, tx, sending, wire, rx, given>>

FlushSends ==
    /\ call.place = "flush" /\ CanSend(client) /\ ~ sending /\ Last(tx) # <<>>
    /\ CallSendBuffer(client)
    /\ call' = IF kind = "sync" THEN NoCall ELSE call
    /\ UNCHANGED <<kind, limit, rx>>

FlushEnds ==
    /\ call.place = "flush" /\ ~ sending /\ Last(tx) = <<>>
    /\ call' = NoCall
    /\ UNCHANGED <<kind, limit, client, tx, sending, wire, rx, given>>

\* A call that waits, or is about to, finds that the connection has ended.
CallFails ==
    /\ call.place \in {"pass", "last", "flush"} /\ ~ client.open /\ ~ sending
    /\ call' = NoCall
    /\ UNCHANGED <<kind, limit, client, tx, sending, wire, rx, given>>

-----------------------------------------------------------------------------
(* Receiving.  A reader `r' is what AsyncTCPbuffer and its application have:  *)
(* [buffer, mode, want, read].                                               *)

Take(r, n) == [r EXCEPT !.buffer = From(@, n), !.read = @ \o Upto(r.buffer, n)]
TakeNew(r, data, n) == [r EXCEPT !.read = @ \o Upto(data, n)]

\* readBytes(), readStringUntil(), onData(), noCallback().
Readers == {"NONE", "FREE", "TERMINATOR_STRING"} \X {0} \cup {"READ_BYTES"} \X Wanted

\* _cbDone: the application may ask for more in it.
Done(r) == {[r EXCEPT !.mode = m[1], !.want = m[2]] : m \in Readers}

\* Where a string in data ends, or 0.
StringEnd(data) == SelectInSeq(data, LAMBDA byte : byte \in Terminators)

\* _handleRxBuffer() in each mode: what is buffered first.  The results are pairs of
\* a reader and the number of bytes taken from data.  _cbRX takes as many as it likes.
HandleFree(r, data) ==
    {<<Take(r, k), 0>> : k \in {j \in 0 .. Len(r.buffer) : data = <<>> \/ j < Len(r.buffer)}}
    \cup {<<TakeNew(Take(r, Len(r.buffer)), data, n), n>> :
            n \in {m \in 0 .. Len(data) : data # <<>>}}

\* Mutant: the packet is read before what is in the buffer.
HandleBytesMutant(r, data) ==
    LET n == Smaller(r.want, Len(data))
        got == [TakeNew(r, data, n) EXCEPT !.want = @ - n]
    IN {<<q, n>> : q \in IF got.want = 0 THEN Done(got) ELSE {got}}

HandleBytes(r, data) ==
    LET k == Smaller(r.want, Len(r.buffer))
        first == [Take(r, k) EXCEPT !.want = @ - k]
        n == IF first.buffer = <<>> THEN Smaller(first.want, Len(data)) ELSE 0
        got == [TakeNew(first, data, n) EXCEPT !.want = @ - n]
    IN {<<q, n>> : q \in IF got.want = 0 THEN Done(got) ELSE {got}}

HandleString(r, data) ==
    LET inBuffer == StringEnd(r.buffer)
        inData == StringEnd(data)
        all == Take(r, Len(r.buffer))
    IN IF inBuffer > 0 THEN {<<q, 0>> : q \in Done(Take(r, inBuffer))}
       ELSE IF inData > 0 THEN {<<q, inData>> : q \in Done(TakeNew(all, data, inData))}
       ELSE {<<TakeNew(all, data, Len(data)), Len(data)>>}

HandleRxBuffer(r, data) ==
    IF r.mode = "FREE" THEN HandleFree(r, data)
    ELSE IF r.mode = "READ_BYTES" THEN HandleBytes(r, data)
    ELSE IF r.mode = "TERMINATOR_STRING" THEN HandleString(r, data)
    ELSE {<<r, 0>>}

\* _rxData(): a packet is handled while there is a reader that takes some of it,
\* provided that the buffer is empty; the rest is buffered, and the reader is called
\* once more for the buffer (its result is always 0).
RxData(r, data) ==
    LET again(x) == x[1].buffer = <<>> /\ x[1].mode # "NONE" /\ x[2] # 0 /\ x[3] # <<>>
        turn(q, rest) == {<<x[1], x[2], From(rest, x[2])>> : x \in HandleRxBuffer(q, rest)}
        turns[k \in 0 .. Len(data)] ==
            IF k = 0 THEN turn(r, data)
            ELSE UNION {IF again(x) THEN turn(x[1], x[3]) ELSE {x} : x \in turns[k - 1]}
        kept == {[x[1] EXCEPT !.buffer = @ \o x[3]] : x \in turns[Len(data)]}
    IN UNION {{x[1] : x \in HandleRxBuffer(q, <<>>)} : q \in kept}

Reader == [buffer |-> rx.buffer, mode |-> rx.mode, want |-> rx.want, read |-> given.read]

\* The application asks for data.
SetReader ==
    /\ MayCall /\ kind = "buffer"
    /\ \E r \in Done(Reader) : rx' = [rx EXCEPT !.mode = r.mode, !.want = r.want]
    /\ UNCHANGED <<kind, limit, client, tx, call, sending, wire, given>>

\* SyncClient::_onData(): ackLater(), and a cbuf for the packet.
AppendPacket(data) ==
    rx' = [rx EXCEPT !.chain = Append(@, [bytes |-> data, size |-> Len(data), conn |-> given.connections]),
                     !.ackLen = @ + Len(data)]

\* A packet of n bytes: AsyncPrinter hands it on.
Receive(n) ==
    LET data == Numbers(given.received, given.received + n)
        got == [given EXCEPT !.received = @ + n]
    IN /\ client.open /\ ~ Running
       /\ \/ /\ kind = "sync" /\ AppendPacket(data) /\ given' = got
          \/ /\ kind = "printer"
             /\ given' = [got EXCEPT !.read = @ \o data] /\ UNCHANGED rx
          \/ /\ kind = "buffer"
             /\ \E r \in RxData(Reader, data) :
                  /\ rx' = [rx EXCEPT !.buffer = r.buffer, !.mode = r.mode, !.want = r.want]
                  /\ given' = [got EXCEPT !.read = r.read]
       /\ UNCHANGED <<kind, limit, client, tx, call, sending, wire>>

\* Mutant: a cbuf is acknowledged with what was left in it.
AckedMutant(b) == Len(b.bytes)

\* ack(b->size() - 1)
Acked(b) == b.size

\* SyncClient::read() of up to n bytes: each cbuf that is read to its end is
\* acknowledged to the client that is connected now.
Read(n) ==
    LET bytes == FlattenSeq([i \in DOMAIN rx.chain |-> rx.chain[i].bytes])
        upto(k) == FoldLeft(LAMBDA m, b : m + Len(b.bytes), 0, SubSeq(rx.chain, 1, k))
        whole == {k \in DOMAIN rx.chain : upto(k) <= n}
        popped == Cardinality(whole)
        acked == FoldLeft(LAMBDA m, b : m + Acked(b), 0, SubSeq(rx.chain, 1, popped))
        rest == From(rx.chain, popped)
        part == n - upto(popped)
    IN /\ call = NoCall /\ ~ Running /\ kind = "sync" /\ rx.chain # <<>>
       /\ given' = [given EXCEPT !.read = @ \o Upto(bytes, n)]
       /\ rx' = [rx EXCEPT
                   !.chain = IF rest = <<>> THEN rest
                             ELSE <<[rest[1] EXCEPT !.bytes = From(@, part)]>> \o Tail(rest),
                   !.ackLen = IF client.open THEN @ - Smaller(acked, @) ELSE @]
       /\ UNCHANGED <<kind, limit, client, tx, call, sending, wire>>

-----------------------------------------------------------------------------
(* The callbacks of the client, and the end of a connection. *)

\* Mutant: nothing is sent when the peer has acknowledged.
OnAckMutant(c) == client' = c /\ UNCHANGED <<tx, wire, given, sending>>

OnAck(c) == CallSendBuffer(c)

\* The peer acknowledges n bytes; onAck comes when nothing that was counted is left.
PeerAcknowledges(n) ==
    LET counted == [client EXCEPT !.queued = @ - n, !.unacked = @ - n]
    IN /\ client.open /\ ~ Running /\ n <= client.queued
       /\ IF counted.unacked = 0 THEN OnAck([counted EXCEPT !.busy = FALSE])
          ELSE client' = counted /\ UNCHANGED <<tx, wire, given, sending>>
       /\ UNCHANGED <<kind, limit, call, rx>>

\* onPoll, which SyncClient does not have.
Poll ==
    /\ CanSend(client) /\ ~ Running /\ kind # "sync" /\ tx[1] # <<>>
    /\ CallSendBuffer(client)
    /\ UNCHANGED <<kind, limit, call, rx>>

\* The peer has not acknowledged in time: onTimeout of the other two closes.
AckTimeout ==
    /\ client.open /\ ~ Running /\ client.busy /\ kind = "printer"
    /\ client' = [client EXCEPT !.busy = FALSE]
    /\ UNCHANGED <<kind, limit, tx, call, sending, wire, rx, given>>

\* onDisconnect, stop() and close(): SyncClient and AsyncPrinter delete _tx_buffer.
\* stop() of AsyncTCPbuffer tells a reader that waits.
Disconnect ==
    /\ client.open /\ ~ Running
    /\ client' = [client EXCEPT !.open = FALSE]
    /\ tx' = IF kind = "buffer" THEN tx ELSE <<<<>>>>
    /\ rx' = [rx EXCEPT !.mode = "NONE"]
    /\ UNCHANGED <<kind, limit, call, sending, wire, given>>

\* SyncClient::connect() again, and _onConnect(): what has not been read of the
\* previous connection is still there.
Connect ==
    /\ kind = "sync" /\ call = NoCall /\ ~ client.open
    /\ given.connections < MaxConnections
    /\ client' = NewClient /\ tx' = <<<<>>>> /\ wire' = <<>>
    /\ rx' = [rx EXCEPT !.ackLen = 0]
    /\ given' = [given EXCEPT !.connections = @ + 1, !.passed = 0,
                              !.mishaps = IF rx.chain = <<>> THEN {} ELSE {"stale"}]
    /\ UNCHANGED <<kind, limit, call, sending>>

Calls ==
    \/ \E n \in 1 .. limit[1] - given.passed : Write(n)
    \/ \E n \in 1 .. limit[2] : Read(n)
    \/ Flush \/ SetReader \/ Connect

Continues ==
    \/ FillTx \/ SendPass \/ SendLast \/ WriteMore \/ AddBuffer
    \/ FlushSends \/ FlushEnds \/ CallFails \/ SendLoop

Callbacks ==
    \/ \E n \in 1 .. client.queued : PeerAcknowledges(n)
    \/ \E n \in 1 .. limit[2] - given.received : Receive(n)
    \/ Poll \/ AckTimeout \/ Disconnect

BufferedNext == Calls \/ Continues \/ Callbacks

\* Calls go on when they can, the peer acknowledges, and the client polls.
BufferedSpec ==
    /\ BufferedInit /\ [][BufferedNext]_bufferedVars
    /\ WF_bufferedVars(Continues)
    /\ SF_bufferedVars(\E n \in 1 .. client.queued : PeerAcknowledges(n))
    /\ WF_bufferedVars(Poll)

-----------------------------------------------------------------------------

\* What goes wrong without the application's fault or the peer's.
Unharmed == given.mishaps \subseteq {"stale"} \cup (IF kind = "buffer" THEN {"not written"} ELSE {})

\* The peer gets what is written, in order, nothing twice and nothing left out: what
\* has been given to lwIP and what is buffered are the bytes passed to write(), all of
\* them when no call is running.  AsyncTCPbuffer even keeps what tcp_write() refuses.
StreamIsKept ==
    Unharmed /\ client.open =>
        /\ IsPrefix(wire \o Held, Numbers(0, given.passed))
        /\ call = NoCall => wire \o Held = Numbers(0, given.passed)

\* The README on SyncClient: "a standard, blocking TCP Client".  A write that does not
\* fit is divided, and sent as it is.
LongWritesAreKept ==
    given.mishaps \subseteq {"stale", "restarted"} /\ client.open =>
        IsPrefix(wire \o Held, Numbers(0, given.passed))

\* The application reads what the peer has sent, in order and without loss: by read()
\* over packets and reconnections, by callbacks, and by readers that begin and end
\* anywhere in packets and in the buffer.
ReceivedInOrder ==
    given.read \o FlattenSeq([i \in DOMAIN rx.chain |-> rx.chain[i].bytes]) \o rx.buffer
        = Numbers(0, given.received)

\* The window of the peer is as wide as the packets that have been read allow: what
\* read() has not given back is what is still in the chain.
WindowIsGivenBack ==
    kind = "sync" /\ client.open /\ "stale" \notin given.mishaps =>
        rx.ackLen = FoldLeft(LAMBDA m, b : m + b.size, 0, rx.chain)

\* A call returns, and what is buffered is sent, or the connection ends, if no write
\* to the client fails.
CallsEnd ==
    (call # NoCall \/ Held # <<>>) ~> \/ call = NoCall /\ (Held = <<>> \/ ~ client.open)
                                      \/ ~ given.mishaps \subseteq {"stale"}

=============================================================================
