---------------------------- MODULE AsyncClient ----------------------------
(***************************************************************************)
(* AsyncClient of ESPAsyncTCP (ESPAsyncTCP.cpp), without SSL: one          *)
(* connection from connect() or from the server's _accept() to its end.    *)
(* lwIP calls the client's handlers, which call the application back; the  *)
(* application may close the connection inside a callback, and its         *)
(* onDisconnect handler deletes the client, as every one in this           *)
(* repository does, while handlers of the client are still on the stack.   *)
(* ACErrorTracker outlives the client and tells lwIP whether a handler     *)
(* has aborted its connection.  A pbuf holds one byte here.  The           *)
(* AsyncServer that accepts the connection is begun and ended.             *)
(***************************************************************************)
EXTENDS Integers

CONSTANTS SndBuf,      \* tcp_sndbuf() of an idle connection
          MaxWritten,  \* bound: bytes written
          MaxReceived  \* bound: bytes received

ASSUME ClientAssumption ==
    SndBuf \in Nat \ {0} /\ MaxWritten \in Nat /\ MaxReceived \in Nat

VARIABLES server,   \* _pcb # NULL of the AsyncServer: it listens
          pcb,      \* _pcb # NULL
          closePcb, \* _close_pcb
          tx,       \* [busy, unacked, acked]: _pcb_busy, _tx_unacked_len, _tx_acked_len
          rx,       \* [ackPcb, ackLen]: _ack_pcb, _rx_ack_len
          tracker,  \* ACErrorTracker: [client, closeError, errored]
          conn,     \* lwIP's view of the connection
          net,      \* [unacked, unread]: bytes lwIP holds for the peer and for the client
          handler,  \* the handler on the stack: [name, pbufs, aborted]
          last,     \* the handler that returned last: [returned, aborted]
          dangling, \* where a client, or a connection, has been used after its end
          total     \* [written, unsent, reported, received]: history

clientVars ==
    <<server, pcb, closePcb, tx, rx, tracker, conn, net, handler, last, dangling, total>>

NoHandler == [name |-> "none", pbufs |-> 0, aborted |-> "no"]

ClientInit ==
    /\ server = FALSE /\ pcb = FALSE /\ closePcb = FALSE
    /\ tx = [busy |-> FALSE, unacked |-> 0, acked |-> 0]
    /\ rx = [ackPcb |-> TRUE, ackLen |-> 0]
    /\ tracker = [client |-> TRUE, closeError |-> "ERR_OK", errored |-> FALSE]
    /\ conn = "unused"
    /\ net = [unacked |-> 0, unread |-> 0]
    /\ handler = NoHandler
    /\ last = [returned |-> "ERR_OK", aborted |-> "no"]
    /\ dangling = {}
    /\ total = [written |-> 0, unsent |-> 0, reported |-> 0, received |-> 0]

-----------------------------------------------------------------------------
(* ACErrorTracker. *)

SetCloseError(t, err) == IF t.errored THEN t ELSE [t EXCEPT !.closeError = err]

SetErrored(t) == [t EXCEPT !.errored = TRUE]

\* Mutant: there is always a client.
HasClientMutant == TRUE

HasClient == tracker.client

\* A handler returns getCallbackCloseError() to lwIP.
Return(t, aborted) ==
    /\ handler' = NoHandler
    /\ tracker' = IF t.closeError = "ERR_ABRT" THEN SetErrored(t) ELSE t
    /\ last' = [returned |-> IF t.errored THEN "ERR_OK" ELSE t.closeError,
                aborted |-> aborted]

-----------------------------------------------------------------------------
(* The end of a connection.  The discard callback deletes the client. *)

Discard(t) == [t EXCEPT !.client = FALSE]

\* Mutant: a failed tcp_close() is not remembered.
ClosedTrackerMutant(ok) == Discard(SetCloseError(tracker, "ERR_OK"))

\* _close(): tcp_close() succeeds, or else the connection is aborted, which
\* calls nobody back because the callbacks have been cleared.
ClosedTracker(ok) ==
    Discard(SetCloseError(tracker, IF ok THEN "ERR_OK" ELSE "ERR_ABRT"))

Closed(ok) ==
    /\ pcb' = FALSE
    /\ conn' = IF ok THEN "closed" ELSE "freed"
    /\ UNCHANGED <<tx, rx, dangling, total>>

\* _close() called by a handler, which then returns.
CloseAndReturn(ok) ==
    /\ Closed(ok)
    /\ Return(ClosedTracker(ok), IF ok THEN "no" ELSE "_close")
    /\ UNCHANGED net

\* _s_error(): lwIP has freed the connection.
ErrorTracker(err) == Discard(SetErrored(SetCloseError(tracker, err)))

Failed == pcb' = FALSE /\ conn' = "freed"

-----------------------------------------------------------------------------
(* Calls of the application, in a callback or outside.  It makes none after  *)
(* onDisconnect, and none after close().                                     *)

MayCall == pcb /\ tracker.client /\ ~ closePcb

\* connect() to an address, or by name: its address may have to be asked for.
Connect ==
    /\ conn = "unused"
    /\ conn' \in {"connecting", "resolving"}
    /\ UNCHANGED <<pcb, closePcb, tx, rx, tracker, net, handler, last, dangling, total>>

\* Mutant: the bytes are not counted as unacknowledged.
WriteMutant(n) ==
    /\ MayCall /\ n <= SndBuf - net.unacked
    /\ net' = [net EXCEPT !.unacked = @ + n]
    /\ tx' = [tx EXCEPT !.busy = TRUE]
    /\ total' = [total EXCEPT !.written = @ + n]
    /\ UNCHANGED <<pcb, closePcb, rx, tracker, conn, handler, last, dangling>>

\* write() = add() and send(): n bytes of the data find room.  If tcp_output()
\* fails they stay queued in lwIP, which sends them later, but write() returns 0 and
\* they are never counted as unacknowledged.
Write(n) ==
    /\ MayCall /\ n <= SndBuf - net.unacked
    /\ net' = [net EXCEPT !.unacked = @ + n]
    /\ \/ /\ tx' = [tx EXCEPT !.busy = TRUE, !.unacked = @ + n]
          /\ total' = [total EXCEPT !.written = @ + n]
       \/ /\ total' = [total EXCEPT !.unsent = @ + n]
          /\ UNCHANGED tx
    /\ UNCHANGED <<pcb, closePcb, rx, tracker, conn, handler, last, dangling>>

AckLater ==
    /\ MayCall /\ handler.name = "recv"
    /\ rx' = [rx EXCEPT !.ackPcb = FALSE]
    /\ UNCHANGED <<pcb, closePcb, tx, tracker, conn, net, handler, last, dangling, total>>

Ack(n) ==
    /\ MayCall /\ n <= rx.ackLen
    /\ rx' = [rx EXCEPT !.ackLen = @ - n]
    /\ net' = [net EXCEPT !.unread = @ - n]
    /\ UNCHANGED <<pcb, closePcb, tx, tracker, conn, handler, last, dangling, total>>

\* close(false).  It may come while the client is still connecting.
Stop ==
    /\ MayCall \/ (conn \in {"resolving", "connecting"} /\ ~ closePcb)
    /\ closePcb' = TRUE
    /\ net' = IF pcb THEN [net EXCEPT !.unread = @ - rx.ackLen] ELSE net
    /\ UNCHANGED <<pcb, tx, rx, tracker, conn, handler, last, dangling, total>>

\* close(true).
CloseNow(ok) ==
    /\ MayCall
    /\ Closed(ok)
    /\ tracker' = ClosedTracker(ok)
    /\ net' = [net EXCEPT !.unread = @ - rx.ackLen]
    /\ handler' = IF ok \/ handler = NoHandler THEN handler
                  ELSE [handler EXCEPT !.aborted = "_close"]
    /\ UNCHANGED <<closePcb, last>>

\* abort(): tcp_abort() calls _s_error() with ERR_ABRT, and so the discard
\* callback, before abort() itself goes on to set _pcb of the client.
Abort ==
    /\ MayCall
    /\ Failed
    /\ tracker' = SetCloseError(ErrorTracker("ERR_ABRT"), "ERR_ABRT")
    /\ dangling' = dangling \cup {"abort"}
    /\ handler' = IF handler = NoHandler THEN handler
                  ELSE [handler EXCEPT !.aborted = "abort"]
    /\ UNCHANGED <<closePcb, tx, rx, net, last, total>>

-----------------------------------------------------------------------------
(* The server. *)

\* begin(), if lwIP has a socket for it, and end(), which leaves accepted connections.
Begin == ~ server /\ server' = TRUE
End == server /\ server' = FALSE

BeginOrEnd ==
    /\ Begin \/ End
    /\ UNCHANGED <<pcb, closePcb, tx, rx, tracker, conn, net, handler, last, dangling, total>>

Accepting == handler = NoHandler /\ server /\ conn = "unused"

\* _accept() without onClient, or without memory for a client: the connection is closed.
\* In the second case a close that has succeeded is followed by another one.
Refuse ==
    /\ Accepting
    /\ \E ok \in BOOLEAN :
          /\ conn' = IF ok THEN "closed" ELSE "freed"
          /\ last' = [returned |-> IF ok THEN "ERR_OK" ELSE "ERR_ABRT",
                      aborted |-> IF ok THEN "no" ELSE "_close"]
    /\ dangling' \in {dangling, dangling \cup {"accept"}}
    /\ UNCHANGED <<pcb, closePcb, tx, rx, tracker, net, handler, total>>

-----------------------------------------------------------------------------
(* The handlers that lwIP calls, one at a time. *)

Called == handler = NoHandler /\ pcb /\ conn = "open"

\* _accept() of a new connection, or _connected(): the connect callback.
Connected ==
    /\ Accepting \/ (handler = NoHandler /\ conn = "connecting")
    /\ pcb' = TRUE /\ conn' = "open"
    /\ tx' = [tx EXCEPT !.busy = FALSE]
    /\ handler' = [NoHandler EXCEPT !.name = "connected"]
    /\ UNCHANGED <<closePcb, rx, tracker, net, last, dangling, total>>

\* _s_error(): lwIP has given the connection up.
Error ==
    /\ handler = NoHandler /\ conn \in {"connecting", "open"}
    /\ Failed
    /\ tracker' = ErrorTracker("ERR_RST")
    /\ UNCHANGED <<closePcb, tx, rx, net, handler, last, dangling, total>>

\* _dns_found(): with the address the client connects, and if connect() fails
\* nobody is told; without one it is discarded.
Resolved ==
    /\ handler = NoHandler /\ conn = "resolving"
    /\ \/ conn' \in {"connecting", "lost"} /\ UNCHANGED tracker
       \/ conn' = "freed" /\ tracker' = Discard(tracker)
    /\ UNCHANGED <<pcb, closePcb, tx, rx, net, handler, last, dangling, total>>

\* _sent(): the peer has acknowledged n bytes.
Sent(n) ==
    /\ Called /\ n <= net.unacked
    /\ net' = [net EXCEPT !.unacked = @ - n]
    /\ IF tx.unacked = n
       THEN /\ tx' = [busy |-> FALSE, unacked |-> 0, acked |-> tx.acked + n]
            /\ tracker' = SetCloseError(tracker, "ERR_OK")
            /\ handler' = [NoHandler EXCEPT !.name = "sent"]
            /\ total' = [total EXCEPT !.reported = @ + tx.acked + n]
            /\ UNCHANGED last
       ELSE /\ tx' = [tx EXCEPT !.unacked = @ - n, !.acked = @ + n]
            /\ Return(tracker, "no")
            /\ UNCHANGED total
    /\ UNCHANGED <<pcb, closePcb, rx, conn, dangling>>

SentReturns ==
    /\ handler.name = "sent"
    /\ tx' = IF HasClient THEN [tx EXCEPT !.acked = 0] ELSE tx
    /\ dangling' = dangling \cup (IF HasClient /\ ~ tracker.client THEN {"handler"} ELSE {})
    /\ Return(tracker, handler.aborted)
    /\ UNCHANGED <<pcb, closePcb, rx, conn, net, total>>

\* _recv() of a chain of n pbufs: the data callback with the first one.
Recv(n) ==
    /\ Called
    /\ net' = [net EXCEPT !.unread = @ + n]
    /\ total' = [total EXCEPT !.received = @ + n]
    /\ tracker' = SetCloseError(tracker, "ERR_OK")
    /\ rx' = [rx EXCEPT !.ackPcb = TRUE]
    /\ handler' = [NoHandler EXCEPT !.name = "recv", !.pbufs = n]
    /\ UNCHANGED <<pcb, closePcb, tx, conn, last, dangling>>

\* The data callback returns; the next pbuf, if the client is still there.
RecvReturns ==
    /\ handler.name = "recv"
    /\ dangling' = dangling \cup (IF HasClient /\ ~ tracker.client THEN {"handler"} ELSE {})
    /\ IF HasClient /\ ~ rx.ackPcb
       THEN rx' = [ackPcb |-> TRUE, ackLen |-> rx.ackLen + 1] /\ UNCHANGED net
       ELSE /\ net' = IF HasClient THEN [net EXCEPT !.unread = @ - 1] ELSE net
            /\ UNCHANGED rx
    /\ IF HasClient /\ handler.pbufs > 1
       THEN /\ handler' = [handler EXCEPT !.pbufs = @ - 1]
            /\ UNCHANGED <<tracker, last>>
       ELSE Return(tracker, handler.aborted)
    /\ UNCHANGED <<pcb, closePcb, tx, conn, total>>

\* _recv() without a pbuf: the peer has closed.
RecvNull(ok) == Called /\ CloseAndReturn(ok) /\ UNCHANGED closePcb

\* Mutant: a close that was asked for waits until everything is acknowledged.
MustCloseMutant == closePcb /\ ~ tx.busy

MustClose == closePcb

\* _poll(): the close that was asked for comes first, then the timeouts, whose
\* time may or may not have passed.
Poll ==
    /\ Called
    /\ \/ MustClose /\ closePcb' = FALSE /\ \E ok \in BOOLEAN : CloseAndReturn(ok)
       \/ ~ MustClose /\ UNCHANGED closePcb /\ \E ok \in BOOLEAN : CloseAndReturn(ok)
       \/ /\ ~ MustClose
          /\ tracker' = SetCloseError(tracker, "ERR_OK")
          /\ \/ /\ tx.busy
                /\ tx' = [tx EXCEPT !.busy = FALSE]
                /\ handler' = [NoHandler EXCEPT !.name = "timeout"]
             \/ /\ handler' = [NoHandler EXCEPT !.name = "poll"]
                /\ UNCHANGED tx
          /\ UNCHANGED <<pcb, closePcb, rx, conn, net, last, dangling, total>>

\* The connect, timeout or poll callback returns, and nothing is left to do.
CallbackReturns ==
    /\ handler.name \in {"connected", "timeout", "poll"}
    /\ Return(tracker, handler.aborted)
    /\ UNCHANGED <<pcb, closePcb, tx, rx, conn, net, dangling, total>>

HandlerReturns == SentReturns \/ RecvReturns \/ CallbackReturns

\* The peer acknowledges, sends, closes or fails as it likes.
Peer ==
    \/ \E n \in 1 .. net.unacked : Sent(n)
    \/ \E n \in 1 .. MaxReceived - total.received : Recv(n)
    \/ \E ok \in BOOLEAN : RecvNull(ok)

Application ==
    \/ Connect \/ AckLater \/ Stop \/ Abort
    \/ \E n \in 1 .. MaxWritten - total.written - total.unsent : Write(n)
    \/ \E n \in 1 .. rx.ackLen : Ack(n)
    \/ \E ok \in BOOLEAN : CloseNow(ok)

OfClient == Application \/ Peer \/ Resolved \/ Connected \/ Error \/ Poll \/ HandlerReturns \/ Refuse

ClientNext == BeginOrEnd \/ (OfClient /\ UNCHANGED server)

\* lwIP's timer polls every open connection, a query for a name and an attempt to
\* connect succeed or fail, and callbacks return.
ClientSpec ==
    /\ ClientInit /\ [][ClientNext]_clientVars
    /\ WF_clientVars(HandlerReturns /\ UNCHANGED server)
    /\ SF_clientVars(Poll /\ UNCHANGED server)
    /\ WF_clientVars((Resolved \/ Connected \/ Error) /\ UNCHANGED server)

-----------------------------------------------------------------------------

\* lwIP's rule for its callbacks, the reason for ACErrorTracker: a handler
\* returns ERR_ABRT if, and only if, the connection was aborted while it ran.
AbrtMeansAborted == last.returned = "ERR_ABRT" <=> last.aborted # "no"

\* The rule is kept when it is a tcp_close() that fails, which the application
\* cannot foresee: ERR_ABRT is returned then, and never when nothing was aborted.
FailedCloseIsReported ==
    /\ last.aborted = "_close" => last.returned = "ERR_ABRT"
    /\ last.returned = "ERR_ABRT" => last.aborted # "no"

\* No handler uses the client after onDisconnect has deleted it in a callback.
NeverUsedAfterDelete == "handler" \notin dangling

\* While the client is connected the counters lose no byte but those whose
\* tcp_output() failed: what was written is either unacknowledged, or to be
\* reported by the next onAck, or reported; what was received is either
\* acknowledged to the peer's window or left for ack().
BytesAreAccounted ==
    pcb => /\ tx.unacked + total.unsent = net.unacked
           /\ handler.name # "sent" =>
                total.written = total.reported + tx.acked + tx.unacked
           /\ ~ closePcb /\ handler.name # "recv" => net.unread = rx.ackLen
           /\ net.unread >= 0

\* A client on which close() was called, before or after it is connected, is
\* disconnected and discarded in the end, at the first poll if nothing else does it
\* before; but not one whose connect() failed when its name had been resolved.
StoppedClientCloses == closePcb /\ conn # "lost" ~> ~ tracker.client \/ conn = "lost"

=============================================================================
