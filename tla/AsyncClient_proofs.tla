------------------------- MODULE AsyncClient_proofs -------------------------
(***************************************************************************)
(* Proofs of AsyncClient's safety properties, for every size of the send   *)
(* buffer and any number of bytes written and received.                    *)
(***************************************************************************)
EXTENDS AsyncClient, TLAPS

BeforeOpen == {"unused", "resolving", "connecting", "lost"}

Txs == [busy : BOOLEAN, unacked : Int, acked : Int]
Rxs == [ackPcb : BOOLEAN, ackLen : Nat]
Errors == {"ERR_OK", "ERR_ABRT", "ERR_RST"}
Trackers == [client : BOOLEAN, closeError : Errors, errored : BOOLEAN]
Nets == [unacked : Nat, unread : Int]
Aborts == {"no", "_close", "abort"}
Handlers == [name : {"none", "connected", "sent", "recv", "timeout", "poll"},
             pbufs : Nat, aborted : Aborts]
Results == [returned : Errors, aborted : Aborts]
Totals == [written : Nat, unsent : Nat, reported : Int, received : Nat]

ClientTypeOK ==
    /\ server \in BOOLEAN /\ pcb \in BOOLEAN /\ closePcb \in BOOLEAN
    /\ tx \in Txs /\ rx \in Rxs /\ tracker \in Trackers
    /\ conn \in BeforeOpen \cup {"open", "closed", "freed"}
    /\ net \in Nets /\ handler \in Handlers /\ last \in Results
    /\ dangling \subseteq {"abort", "accept", "handler"}
    /\ total \in Totals

\* As long as the connection has not ended the client exists and its tracker is
\* unmarked.  What happened to the connection while a handler runs is in the tracker
\* when the handler returns: an abort() has marked it as errored, and a close that has
\* failed has left ERR_ABRT and no such mark.
TrackerInv ==
    /\ pcb <=> conn = "open"
    /\ conn \notin {"closed", "freed"} =>
          tracker.client /\ tracker.closeError = "ERR_OK" /\ ~ tracker.errored
    /\ handler.aborted = "_close" => tracker.closeError = "ERR_ABRT" /\ ~ tracker.errored
    /\ handler.aborted = "abort" => tracker.errored
    /\ handler.name = "none" => handler = NoHandler
    /\ handler.name # "none" /\ handler.aborted = "no" =>
          tracker.closeError = "ERR_OK" /\ ~ tracker.errored
    /\ handler.name # "recv" => handler.pbufs = 0
    /\ handler.name = "recv" => handler.pbufs > 0

\* Before the connection is there no byte is counted.  Then the bytes of the chain that
\* a receiving handler has not handed over are in the window as well, and the handler
\* of an acknowledgement has reported what _tx_acked_len still holds.
BytesInv ==
    /\ conn \in BeforeOpen =>
          /\ handler.name = "none"
          /\ tx.unacked = 0 /\ tx.acked = 0 /\ rx.ackLen = 0
          /\ net.unacked = 0 /\ net.unread = 0
          /\ total.written = 0 /\ total.unsent = 0 /\ total.reported = 0
    /\ pcb =>
          /\ tx.unacked + total.unsent = net.unacked
          /\ total.written = total.reported + tx.unacked
                                + (IF handler.name = "sent" THEN 0 ELSE tx.acked)
          /\ ~ closePcb => net.unread = rx.ackLen + handler.pbufs
          /\ closePcb => net.unread >= handler.pbufs

ClientInv ==
    /\ ClientTypeOK /\ TrackerInv /\ BytesInv
    /\ FailedCloseIsReported /\ NeverUsedAfterDelete

-----------------------------------------------------------------------------

\* The fields of the records.
LEMMA Fields ==
    ASSUME ClientTypeOK
    PROVE  /\ tx = [busy |-> tx.busy, unacked |-> tx.unacked, acked |-> tx.acked]
           /\ tx.busy \in BOOLEAN /\ tx.unacked \in Int /\ tx.acked \in Int
           /\ rx = [ackPcb |-> rx.ackPcb, ackLen |-> rx.ackLen]
           /\ rx.ackPcb \in BOOLEAN /\ rx.ackLen \in Nat
           /\ tracker = [client |-> tracker.client, closeError |-> tracker.closeError,
                         errored |-> tracker.errored]
           /\ tracker.client \in BOOLEAN /\ tracker.errored \in BOOLEAN
           /\ net = [unacked |-> net.unacked, unread |-> net.unread]
           /\ net.unacked \in Nat /\ net.unread \in Int
           /\ handler = [name |-> handler.name, pbufs |-> handler.pbufs,
                         aborted |-> handler.aborted]
           /\ handler.pbufs \in Nat /\ handler.aborted \in Aborts
           /\ last = [returned |-> last.returned, aborted |-> last.aborted]
           /\ total = [written |-> total.written, unsent |-> total.unsent,
                       reported |-> total.reported, received |-> total.received]
           /\ total.written \in Nat /\ total.unsent \in Nat
           /\ total.reported \in Int /\ total.received \in Nat
<1>. USE DEF ClientTypeOK
<1>1. /\ tx = [busy |-> tx.busy, unacked |-> tx.unacked, acked |-> tx.acked]
      /\ tx.busy \in BOOLEAN /\ tx.unacked \in Int /\ tx.acked \in Int
  BY DEF Txs
<1>2. /\ rx = [ackPcb |-> rx.ackPcb, ackLen |-> rx.ackLen]
      /\ rx.ackPcb \in BOOLEAN /\ rx.ackLen \in Nat
  BY DEF Rxs
<1>3. /\ tracker = [client |-> tracker.client, closeError |-> tracker.closeError,
                    errored |-> tracker.errored]
      /\ tracker.client \in BOOLEAN /\ tracker.errored \in BOOLEAN
  BY DEF Trackers
<1>4. /\ net = [unacked |-> net.unacked, unread |-> net.unread]
      /\ net.unacked \in Nat /\ net.unread \in Int
  BY DEF Nets
<1>5. /\ handler = [name |-> handler.name, pbufs |-> handler.pbufs,
                    aborted |-> handler.aborted]
      /\ handler.pbufs \in Nat /\ handler.aborted \in Aborts
  BY DEF Handlers
<1>6. last = [returned |-> last.returned, aborted |-> last.aborted]
  BY DEF Results
<1>7. /\ total = [written |-> total.written, unsent |-> total.unsent,
                  reported |-> total.reported, received |-> total.received]
      /\ total.written \in Nat /\ total.unsent \in Nat
      /\ total.reported \in Int /\ total.received \in Nat
  BY DEF Totals
<1>. QED
  BY <1>1, <1>2, <1>3, <1>4, <1>5, <1>6, <1>7

\* The fields of what is sent.
LEMMA TxFields ==
    ASSUME NEW b \in BOOLEAN, NEW u \in Int, NEW a \in Int
    PROVE  [busy |-> b, unacked |-> u, acked |-> a] \in Txs
  BY DEF Txs

\* The fields of what is received.
LEMMA RxFields ==
    ASSUME NEW b \in BOOLEAN, NEW n \in Nat
    PROVE  [ackPcb |-> b, ackLen |-> n] \in Rxs
  BY DEF Rxs

\* The tracker of a connection that goes on.
LEMMA Unmarked ==
    ASSUME ClientTypeOK, tracker.closeError = "ERR_OK"
    PROVE  SetCloseError(tracker, "ERR_OK") = tracker
  BY DEF ClientTypeOK, Trackers, SetCloseError

\* What a handler that returns leaves.
LEMMA ReturnEffect ==
    ASSUME ClientTypeOK, NEW a \in Aborts, Return(tracker, a)
    PROVE  /\ handler' = NoHandler /\ handler' \in Handlers
           /\ tracker' \in Trackers /\ tracker'.client = tracker.client
           /\ tracker'.closeError = tracker.closeError
           /\ tracker'.errored = (tracker.errored \/ tracker.closeError = "ERR_ABRT")
           /\ last' \in Results /\ last'.aborted = a
           /\ last'.returned = IF tracker.errored THEN "ERR_OK" ELSE tracker.closeError
<1>1. handler' = NoHandler /\ handler' \in Handlers
  BY DEF Return, NoHandler, Handlers, Aborts
<1>2. /\ tracker' \in Trackers /\ tracker'.client = tracker.client
      /\ tracker'.closeError = tracker.closeError
      /\ tracker'.errored = (tracker.errored \/ tracker.closeError = "ERR_ABRT")
  BY DEF Return, SetErrored, ClientTypeOK, Trackers
<1>3. last' = [returned |-> IF tracker.errored THEN "ERR_OK" ELSE tracker.closeError,
               aborted |-> a]
  BY DEF Return
<1>4. last' \in Results
  BY <1>3, Fields DEF Results, Errors, ClientTypeOK, Trackers
<1>. QED
  BY <1>1, <1>2, <1>3, <1>4

\* A client that is made and not connected.
LEMMA ClientInitInv == ClientInit => ClientInv
<1>. SUFFICES ASSUME ClientInit PROVE ClientInv
  OBVIOUS
<1>. USE DEF ClientInit, NoHandler
<1>1. tx \in Txs /\ rx \in Rxs /\ net \in Nets
  BY DEF Txs, Rxs, Nets
<1>2. tracker \in Trackers /\ handler \in Handlers
  BY DEF Trackers, Handlers, Errors, Aborts
<1>3. last \in Results /\ total \in Totals
  BY DEF Results, Totals, Errors, Aborts
<1>4. ClientTypeOK
  BY <1>1, <1>2, <1>3 DEF ClientTypeOK, BeforeOpen
<1>5. TrackerInv
  BY DEF TrackerInv
<1>6. BytesInv
  BY DEF BytesInv, BeforeOpen
<1>. QED
  BY <1>4, <1>5, <1>6 DEF ClientInv, FailedCloseIsReported, NeverUsedAfterDelete

\* The calls of the application.
LEMMA ApplicationInv ==
    ASSUME ClientInv, Application, UNCHANGED server
    PROVE  ClientInv'
<1>. USE DEF ClientInv, MayCall, NoHandler
<1>1. CASE Connect
  <2>1. ClientTypeOK'
    BY <1>1 DEF Connect, ClientTypeOK, BeforeOpen
  <2>2. TrackerInv'
    BY <1>1, Fields DEF Connect, TrackerInv
  <2>3. BytesInv'
    BY <1>1, Fields DEF Connect, TrackerInv, BytesInv, BeforeOpen
  <2>4. FailedCloseIsReported' /\ NeverUsedAfterDelete'
    BY <1>1, Fields DEF Connect, TrackerInv, FailedCloseIsReported, NeverUsedAfterDelete
  <2>. QED
    BY <2>1, <2>2, <2>3, <2>4
<1>2. CASE AckLater
  <2>1. rx' \in Rxs
    BY <1>2 DEF AckLater, ClientTypeOK, Rxs
  <2>2. ClientTypeOK'
    BY <1>2, <2>1 DEF AckLater, ClientTypeOK, BeforeOpen
  <2>3. TrackerInv'
    BY <1>2, Fields DEF AckLater, TrackerInv
  <2>4. BytesInv'
    BY <1>2, Fields DEF AckLater, TrackerInv, BytesInv, BeforeOpen
  <2>5. FailedCloseIsReported' /\ NeverUsedAfterDelete'
    BY <1>2, Fields DEF AckLater, TrackerInv, FailedCloseIsReported, NeverUsedAfterDelete
  <2>. QED
    BY <2>2, <2>3, <2>4, <2>5
<1>3. CASE Stop
  <2>1. net' \in Nets
    <3>1. net' = [net EXCEPT !.unread = @ - rx.ackLen] \/ net' = net
      BY <1>3 DEF Stop
    <3>. QED
      BY <3>1, Fields DEF ClientTypeOK, Nets
  <2>2. ClientTypeOK'
    BY <1>3, <2>1 DEF Stop, ClientTypeOK, BeforeOpen
  <2>3. TrackerInv'
    BY <1>3, Fields DEF Stop, TrackerInv
  <2>4. BytesInv'
    BY <1>3, Fields DEF Stop, TrackerInv, BytesInv, BeforeOpen
  <2>5. FailedCloseIsReported' /\ NeverUsedAfterDelete'
    BY <1>3, Fields DEF Stop, TrackerInv, FailedCloseIsReported, NeverUsedAfterDelete
  <2>. QED
    BY <2>2, <2>3, <2>4, <2>5
<1>4. CASE Abort
  <2>1. tracker' \in Trackers
    BY <1>4 DEF Abort, Failed, ErrorTracker, SetCloseError, SetErrored, Discard, ClientTypeOK,
         Trackers, Errors
  <2>2. handler' \in Handlers
    BY <1>4 DEF Abort, Failed, ErrorTracker, SetCloseError, SetErrored, Discard, ClientTypeOK,
         Handlers, Aborts
  <2>3. ClientTypeOK'
    BY <1>4, <2>1, <2>2 DEF Abort, Failed, ErrorTracker, SetCloseError, SetErrored, Discard,
         ClientTypeOK, BeforeOpen
  <2>4. TrackerInv'
    BY <1>4, Fields DEF Abort, Failed, ErrorTracker, SetCloseError, SetErrored, Discard,
         TrackerInv
  <2>5. BytesInv'
    BY <1>4, Fields DEF Abort, Failed, ErrorTracker, SetCloseError, SetErrored, Discard,
         TrackerInv, BytesInv, BeforeOpen
  <2>6. FailedCloseIsReported' /\ NeverUsedAfterDelete'
    BY <1>4, Fields DEF Abort, Failed, ErrorTracker, SetCloseError, SetErrored, Discard,
         TrackerInv, FailedCloseIsReported, NeverUsedAfterDelete
  <2>. QED
    BY <2>3, <2>4, <2>5, <2>6
<1>5. ASSUME NEW n \in 1 .. MaxWritten - total.written - total.unsent, Write(n)
      PROVE  ClientInv'
  <2>. n \in Nat
    BY Fields
  <2>1. net' \in Nets
    BY <1>5 DEF Write, ClientTypeOK, Nets
  <2>2. tx' \in Txs
    <3>1. tx' = [tx EXCEPT !.busy = TRUE, !.unacked = @ + n] \/ tx' = tx
      BY <1>5 DEF Write
    <3>. QED
      <4>1. tx.unacked + n \in Int
        BY Fields
      <4>2. tx' = [busy |-> TRUE, unacked |-> tx.unacked + n, acked |-> tx.acked] \/ tx' = tx
        BY <3>1, Fields
      <4>. QED
        BY <4>1, <4>2, TxFields, Fields DEF ClientTypeOK
  <2>3. total' \in Totals
    BY <1>5 DEF Write, ClientTypeOK, Totals
  <2>4. ClientTypeOK'
    BY <1>5, <2>1, <2>2, <2>3 DEF Write, ClientTypeOK, BeforeOpen
  <2>5. TrackerInv'
    BY <1>5, Fields DEF Write, TrackerInv
  <2>6. BytesInv'
    <3>1. /\ pcb /\ UNCHANGED <<pcb, closePcb, rx, conn, handler>>
          /\ net'.unacked = net.unacked + n /\ net'.unread = net.unread
      BY <1>5, Fields DEF Write
    <3>2. \/ /\ tx'.unacked = tx.unacked + n /\ tx'.acked = tx.acked
             /\ total' = [total EXCEPT !.written = @ + n]
          \/ tx' = tx /\ total' = [total EXCEPT !.unsent = @ + n]
      BY <1>5, Fields DEF Write
    <3>. QED
      BY <3>1, <3>2, Fields DEF TrackerInv, BytesInv, BeforeOpen
  <2>7. FailedCloseIsReported' /\ NeverUsedAfterDelete'
    BY <1>5, Fields DEF Write, TrackerInv, FailedCloseIsReported, NeverUsedAfterDelete
  <2>. QED
    BY <2>4, <2>5, <2>6, <2>7
<1>6. ASSUME NEW n \in 1 .. rx.ackLen, Ack(n)
      PROVE  ClientInv'
  <2>1. rx' \in Rxs
    BY <1>6 DEF Ack, ClientTypeOK, Rxs
  <2>2. net' \in Nets
    BY <1>6 DEF Ack, ClientTypeOK, Nets
  <2>3. ClientTypeOK'
    BY <1>6, <2>1, <2>2 DEF Ack, ClientTypeOK, BeforeOpen
  <2>4. TrackerInv'
    BY <1>6, Fields DEF Ack, TrackerInv
  <2>5. BytesInv'
    BY <1>6, Fields DEF Ack, TrackerInv, BytesInv, BeforeOpen
  <2>6. FailedCloseIsReported' /\ NeverUsedAfterDelete'
    BY <1>6, Fields DEF Ack, TrackerInv, FailedCloseIsReported, NeverUsedAfterDelete
  <2>. QED
    BY <2>3, <2>4, <2>5, <2>6
<1>7. ASSUME NEW ok \in BOOLEAN, CloseNow(ok)
      PROVE  ClientInv'
  <2>1. tracker' \in Trackers
    BY <1>7 DEF CloseNow, Closed, ClosedTracker, SetCloseError, Discard, ClientTypeOK, Trackers,
         Errors
  <2>2. net' \in Nets
    BY <1>7 DEF CloseNow, ClientTypeOK, Nets, Rxs
  <2>3. handler' \in Handlers
    BY <1>7 DEF CloseNow, Closed, ClosedTracker, SetCloseError, Discard, ClientTypeOK, Handlers,
         Aborts
  <2>4. ClientTypeOK'
    BY <1>7, <2>1, <2>2, <2>3 DEF CloseNow, Closed, ClosedTracker, SetCloseError, Discard,
         ClientTypeOK, BeforeOpen
  <2>5. TrackerInv'
    BY <1>7, Fields DEF CloseNow, Closed, ClosedTracker, SetCloseError, Discard, TrackerInv
  <2>6. BytesInv'
    BY <1>7, Fields DEF CloseNow, Closed, ClosedTracker, SetCloseError, Discard, TrackerInv,
         BytesInv, BeforeOpen
  <2>7. FailedCloseIsReported' /\ NeverUsedAfterDelete'
    BY <1>7, Fields DEF CloseNow, Closed, ClosedTracker, SetCloseError, Discard, TrackerInv,
         FailedCloseIsReported, NeverUsedAfterDelete
  <2>. QED
    BY <2>4, <2>5, <2>6, <2>7
<1>. QED
  BY <1>1, <1>2, <1>3, <1>4, <1>5, <1>6, <1>7 DEF Application

\* The handlers that lwIP calls, until they return or call the application back.
LEMMA CalledInv ==
    ASSUME ClientInv, UNCHANGED server,
           Peer \/ Resolved \/ Connected \/ Error \/ Poll \/ Refuse
    PROVE  ClientInv'
<1>. USE DEF ClientInv, Called, NoHandler
<1>1. ASSUME NEW ok \in BOOLEAN, Called, closePcb' \in BOOLEAN, CloseAndReturn(ok)
      PROVE  ClientInv'
  <2>1. tracker' \in Trackers
    BY <1>1 DEF CloseAndReturn, Closed, Return, ClosedTracker, SetCloseError, SetErrored,
         Discard, ClientTypeOK, Trackers, Errors
  <2>2. handler' \in Handlers
    BY <1>1 DEF CloseAndReturn, Closed, Return, ClosedTracker, SetCloseError, SetErrored,
         Discard, ClientTypeOK, Handlers, Aborts
  <2>3. last' \in Results
    BY <1>1 DEF CloseAndReturn, Closed, Return, ClosedTracker, SetCloseError, SetErrored,
         Discard, ClientTypeOK, Results, Errors, Aborts, Trackers
  <2>4. ClientTypeOK'
    BY <1>1, <2>1, <2>2, <2>3 DEF CloseAndReturn, Closed, Return, ClosedTracker, SetCloseError,
         SetErrored, Discard, ClientTypeOK, BeforeOpen
  <2>5. TrackerInv'
    BY <1>1, Fields DEF CloseAndReturn, Closed, Return, ClosedTracker, SetCloseError,
         SetErrored, Discard, TrackerInv
  <2>6. BytesInv'
    BY <1>1, Fields DEF CloseAndReturn, Closed, Return, ClosedTracker, SetCloseError,
         SetErrored, Discard, TrackerInv, BytesInv, BeforeOpen
  <2>7. FailedCloseIsReported' /\ NeverUsedAfterDelete'
    BY <1>1, Fields DEF CloseAndReturn, Closed, Return, ClosedTracker, SetCloseError,
         SetErrored, Discard, TrackerInv, FailedCloseIsReported, NeverUsedAfterDelete
  <2>. QED
    BY <2>4, <2>5, <2>6, <2>7
<1>2. ASSUME NEW n \in 1 .. net.unacked, Sent(n)
      PROVE  ClientInv'
  <2>. n \in Nat
    BY Fields
  <2>a. /\ handler = NoHandler /\ pcb /\ conn = "open"
        /\ tracker.client /\ tracker.closeError = "ERR_OK" /\ ~ tracker.errored
    BY <1>2 DEF Sent, TrackerInv
  <2>b. /\ net' = [net EXCEPT !.unacked = @ - n]
        /\ UNCHANGED <<pcb, closePcb, rx, conn, dangling>>
    BY <1>2 DEF Sent
  <2>c. net' \in Nets
    BY <2>b, Fields DEF ClientTypeOK, Nets
  <2>1. CASE tx.unacked = n
    <3>1. /\ tx' = [busy |-> FALSE, unacked |-> 0, acked |-> tx.acked + n]
          /\ tracker' = tracker
          /\ handler' = [name |-> "sent", pbufs |-> 0, aborted |-> "no"]
          /\ total' = [total EXCEPT !.reported = @ + tx.acked + n]
          /\ UNCHANGED last
      BY <1>2, <2>1, <2>a, Unmarked DEF Sent
    <3>2. tx' \in Txs /\ handler' \in Handlers
      BY <3>1, Fields DEF Txs, Handlers, Aborts
    <3>3. total' \in Totals
      BY <3>1, Fields DEF ClientTypeOK, Totals
    <3>4. ClientTypeOK'
      BY <2>b, <2>c, <3>1, <3>2, <3>3 DEF ClientTypeOK
    <3>5. TrackerInv'
      BY <2>a, <2>b, <3>1 DEF TrackerInv
    <3>6. BytesInv'
      BY <2>1, <2>a, <2>b, <3>1, Fields DEF BytesInv, BeforeOpen
    <3>. QED
      BY <2>b, <3>1, <3>4, <3>5, <3>6 DEF FailedCloseIsReported, NeverUsedAfterDelete
  <2>2. CASE tx.unacked # n
    <3>1. /\ tx' = [tx EXCEPT !.unacked = @ - n, !.acked = @ + n]
          /\ Return(tracker, "no")
          /\ UNCHANGED total
      BY <1>2, <2>2 DEF Sent
    <3>2. tx' \in Txs
      <4>1. tx.unacked - n \in Int /\ tx.acked + n \in Int
        BY Fields
      <4>2. tx' = [busy |-> tx.busy, unacked |-> tx.unacked - n, acked |-> tx.acked + n]
        BY <3>1, Fields
      <4>. QED
        BY <4>1, <4>2, TxFields, Fields
    <3>3. /\ handler' = NoHandler /\ handler' \in Handlers
          /\ tracker' \in Trackers /\ tracker'.client
          /\ tracker'.closeError = "ERR_OK" /\ ~ tracker'.errored
          /\ last' \in Results /\ last'.returned = "ERR_OK" /\ last'.aborted = "no"
      BY <2>a, <3>1, ReturnEffect DEF Aborts
    <3>4. ClientTypeOK'
      BY <2>b, <2>c, <3>1, <3>2, <3>3 DEF ClientTypeOK
    <3>5. TrackerInv'
      BY <2>a, <2>b, <3>3 DEF TrackerInv
    <3>6. BytesInv'
      BY <2>a, <2>b, <3>1, <3>3, Fields DEF BytesInv, BeforeOpen
    <3>. QED
      BY <2>b, <3>3, <3>4, <3>5, <3>6 DEF FailedCloseIsReported, NeverUsedAfterDelete
  <2>. QED
    BY <2>1, <2>2
<1>3. ASSUME NEW n \in 1 .. MaxReceived - total.received, Recv(n)
      PROVE  ClientInv'
  <2>. n \in Nat
    BY Fields
  <2>1. net' \in Nets
    BY <1>3 DEF Recv, SetCloseError, ClientTypeOK, Nets
  <2>2. total' \in Totals
    BY <1>3 DEF Recv, SetCloseError, ClientTypeOK, Totals
  <2>3. tracker' \in Trackers
    BY <1>3 DEF Recv, SetCloseError, ClientTypeOK, Trackers, Errors
  <2>4. rx' \in Rxs
    BY <1>3 DEF Recv, SetCloseError, ClientTypeOK, Rxs
  <2>5. handler' \in Handlers
    BY <1>3 DEF Recv, Handlers, Aborts
  <2>6. ClientTypeOK'
    BY <1>3, <2>1, <2>2, <2>3, <2>4, <2>5 DEF Recv, SetCloseError, ClientTypeOK, BeforeOpen
  <2>7. TrackerInv'
    BY <1>3, Fields DEF Recv, SetCloseError, TrackerInv
  <2>8. BytesInv'
    BY <1>3, Fields DEF Recv, SetCloseError, TrackerInv, BytesInv, BeforeOpen
  <2>9. FailedCloseIsReported' /\ NeverUsedAfterDelete'
    BY <1>3, Fields DEF Recv, SetCloseError, TrackerInv, FailedCloseIsReported,
         NeverUsedAfterDelete
  <2>. QED
    BY <2>6, <2>7, <2>8, <2>9
<1>4. ASSUME NEW ok \in BOOLEAN, RecvNull(ok)
      PROVE  ClientInv'
  BY <1>1, <1>4 DEF RecvNull, ClientTypeOK
<1>5. ASSUME handler = NoHandler, pcb, conn = "open",
             tracker' = SetCloseError(tracker, "ERR_OK"),
             tx' = tx \/ tx' = [tx EXCEPT !.busy = FALSE],
             \E name \in {"timeout", "poll"} : handler' = [NoHandler EXCEPT !.name = name],
             UNCHANGED <<pcb, closePcb, rx, conn, net, last, dangling, total>>
      PROVE  ClientInv'
  <2>1. tracker' = tracker
    BY <1>5, Unmarked DEF TrackerInv
  <2>2. tx' \in Txs /\ tx'.unacked = tx.unacked /\ tx'.acked = tx.acked
    BY <1>5 DEF ClientTypeOK, Txs
  <2>3. /\ handler' \in Handlers /\ handler'.name \in {"timeout", "poll"}
        /\ handler'.pbufs = 0 /\ handler'.aborted = "no"
    BY <1>5 DEF Handlers, Aborts
  <2>4. ClientTypeOK'
    BY <1>5, <2>1, <2>2, <2>3 DEF ClientTypeOK
  <2>5. TrackerInv'
    BY <1>5, <2>1, <2>3 DEF TrackerInv
  <2>6. BytesInv'
    BY <1>5, <2>2, <2>3 DEF BytesInv, BeforeOpen
  <2>. QED
    BY <1>5, <2>4, <2>5, <2>6 DEF FailedCloseIsReported, NeverUsedAfterDelete
<1>6. CASE Resolved
  <2>1. tracker' \in Trackers
    BY <1>6 DEF Resolved, Discard, ClientTypeOK, Trackers, Errors
  <2>2. ClientTypeOK'
    BY <1>6, <2>1 DEF Resolved, Discard, ClientTypeOK, BeforeOpen
  <2>3. TrackerInv'
    BY <1>6, Fields DEF Resolved, Discard, TrackerInv
  <2>4. BytesInv'
    BY <1>6, Fields DEF Resolved, Discard, TrackerInv, BytesInv, BeforeOpen
  <2>5. FailedCloseIsReported' /\ NeverUsedAfterDelete'
    BY <1>6, Fields DEF Resolved, Discard, TrackerInv, FailedCloseIsReported, NeverUsedAfterDelete
  <2>. QED
    BY <2>2, <2>3, <2>4, <2>5
<1>7. CASE Connected
  <2>1. tx' \in Txs
    BY <1>7 DEF Connected, Accepting, ClientTypeOK, Txs
  <2>2. handler' \in Handlers
    BY <1>7 DEF Connected, Accepting, ClientTypeOK, Handlers, Aborts
  <2>3. ClientTypeOK'
    BY <1>7, <2>1, <2>2 DEF Connected, Accepting, ClientTypeOK, BeforeOpen
  <2>4. TrackerInv'
    BY <1>7, Fields DEF Connected, Accepting, TrackerInv
  <2>5. BytesInv'
    BY <1>7, Fields DEF Connected, Accepting, TrackerInv, BytesInv, BeforeOpen
  <2>6. FailedCloseIsReported' /\ NeverUsedAfterDelete'
    BY <1>7, Fields DEF Connected, Accepting, TrackerInv, FailedCloseIsReported,
         NeverUsedAfterDelete
  <2>. QED
    BY <2>3, <2>4, <2>5, <2>6
<1>8. CASE Error
  <2>1. tracker' \in Trackers
    BY <1>8 DEF Error, Failed, ErrorTracker, SetCloseError, SetErrored, Discard, ClientTypeOK,
         Trackers, Errors
  <2>2. ClientTypeOK'
    BY <1>8, <2>1 DEF Error, Failed, ErrorTracker, SetCloseError, SetErrored, Discard,
         ClientTypeOK, BeforeOpen
  <2>3. TrackerInv'
    BY <1>8, Fields DEF Error, Failed, ErrorTracker, SetCloseError, SetErrored, Discard,
         TrackerInv
  <2>4. BytesInv'
    BY <1>8, Fields DEF Error, Failed, ErrorTracker, SetCloseError, SetErrored, Discard,
         TrackerInv, BytesInv, BeforeOpen
  <2>5. FailedCloseIsReported' /\ NeverUsedAfterDelete'
    BY <1>8, Fields DEF Error, Failed, ErrorTracker, SetCloseError, SetErrored, Discard,
         TrackerInv, FailedCloseIsReported, NeverUsedAfterDelete
  <2>. QED
    BY <2>2, <2>3, <2>4, <2>5
<1>9. CASE Refuse
  <2>1. last' \in Results
    BY <1>9 DEF Refuse, Accepting, ClientTypeOK, Results, Errors, Aborts, Trackers
  <2>2. ClientTypeOK'
    BY <1>9, <2>1 DEF Refuse, Accepting, ClientTypeOK, BeforeOpen
  <2>3. TrackerInv'
    BY <1>9, Fields DEF Refuse, Accepting, TrackerInv
  <2>4. BytesInv'
    BY <1>9, Fields DEF Refuse, Accepting, TrackerInv, BytesInv, BeforeOpen
  <2>5. FailedCloseIsReported' /\ NeverUsedAfterDelete'
    BY <1>9, Fields DEF Refuse, Accepting, TrackerInv, FailedCloseIsReported, NeverUsedAfterDelete
  <2>. QED
    BY <2>2, <2>3, <2>4, <2>5
<1>. QED
  <2>1. CASE Poll
    <3>1. CASE \E ok \in BOOLEAN : CloseAndReturn(ok) /\ closePcb' \in BOOLEAN
      BY <1>1, <2>1, <3>1 DEF Poll
    <3>2. CASE ~ \E ok \in BOOLEAN : CloseAndReturn(ok) /\ closePcb' \in BOOLEAN
      BY <1>5, <2>1, <3>2 DEF Poll, ClientTypeOK
    <3>. QED
      BY <3>1, <3>2
  <2>. QED
    BY <1>2, <1>3, <1>4, <1>6, <1>7, <1>8, <1>9, <2>1 DEF Peer

\* Their return when the application has been called back.
LEMMA ReturnsInv ==
    ASSUME ClientInv, UNCHANGED server, HandlerReturns
    PROVE  ClientInv'
<1>. USE DEF ClientInv
\* What does not depend on the handler.
<1>1. ASSUME handler.name # "none", Return(tracker, handler.aborted),
             tx' \in Txs, rx' \in Rxs, net' \in Nets, dangling' = dangling,
             UNCHANGED <<pcb, closePcb, conn, total>>
      PROVE  /\ ClientTypeOK' /\ TrackerInv' /\ FailedCloseIsReported' /\ NeverUsedAfterDelete'
             /\ handler' = NoHandler
  <2>. handler.aborted \in Aborts
    BY Fields
  <2>1. /\ handler' = NoHandler /\ handler' \in Handlers
        /\ tracker' \in Trackers /\ tracker'.client = tracker.client
        /\ tracker'.closeError = tracker.closeError
        /\ tracker'.errored = (tracker.errored \/ tracker.closeError = "ERR_ABRT")
        /\ last' \in Results /\ last'.aborted = handler.aborted
        /\ last'.returned = IF tracker.errored THEN "ERR_OK" ELSE tracker.closeError
    BY <1>1, ReturnEffect
  <2>2. ClientTypeOK'
    BY <1>1, <2>1 DEF ClientTypeOK
  <2>3. TrackerInv'
    BY <1>1, <2>1, Fields DEF TrackerInv, NoHandler
  <2>4. FailedCloseIsReported' /\ NeverUsedAfterDelete'
    BY <1>1, <2>1, Fields DEF TrackerInv, FailedCloseIsReported, NeverUsedAfterDelete, Aborts
  <2>. QED
    BY <2>1, <2>2, <2>3, <2>4
<1>2. CASE SentReturns
  <2>1. /\ handler.name = "sent" /\ Return(tracker, handler.aborted) /\ dangling' = dangling
        /\ tx' = IF tracker.client THEN [tx EXCEPT !.acked = 0] ELSE tx
        /\ UNCHANGED <<pcb, closePcb, rx, conn, net, total>>
    BY <1>2 DEF SentReturns, HasClient
  <2>2. tx' \in Txs /\ rx' \in Rxs /\ net' \in Nets
    BY <2>1, Fields DEF ClientTypeOK, Txs
  <2>3. /\ ClientTypeOK' /\ TrackerInv' /\ FailedCloseIsReported' /\ NeverUsedAfterDelete'
        /\ handler' = NoHandler
    BY <1>1, <2>1, <2>2
  <2>4. pcb => tracker.client /\ tx'.acked = 0 /\ tx'.unacked = tx.unacked
    BY <2>1, Fields DEF TrackerInv
  <2>5. BytesInv'
    BY <2>1, <2>3, <2>4, Fields DEF BytesInv, TrackerInv, NoHandler
  <2>. QED
    BY <2>3, <2>5
<1>3. CASE RecvReturns
  <2>1. /\ handler.name = "recv" /\ dangling' = dangling
        /\ UNCHANGED <<pcb, closePcb, tx, conn, total>>
    BY <1>3 DEF RecvReturns, HasClient
  <2>2. \/ /\ tracker.client /\ rx' = [ackPcb |-> TRUE, ackLen |-> rx.ackLen + 1] /\ net' = net
        \/ /\ rx' = rx
           /\ net' = IF tracker.client THEN [net EXCEPT !.unread = @ - 1] ELSE net
    BY <1>3 DEF RecvReturns, HasClient
  <2>3. tx' \in Txs /\ rx' \in Rxs /\ net' \in Nets
    <3>1. rx' \in Rxs
      <4>1. rx.ackLen + 1 \in Nat
        BY Fields
      <4>2. rx' = rx \/ rx' = [ackPcb |-> TRUE, ackLen |-> rx.ackLen + 1]
        BY <2>2
      <4>. QED
        BY <4>1, <4>2, RxFields DEF ClientTypeOK
    <3>2. net' \in Nets
      BY <2>2, Fields DEF ClientTypeOK, Nets
    <3>. QED
      BY <2>1, <3>1, <3>2 DEF ClientTypeOK
  <2>4. pcb => /\ net'.unacked = net.unacked
               /\ net.unread - rx.ackLen - 1 = net'.unread - rx'.ackLen
               /\ net'.unread >= net.unread - 1
    <3>1. pcb => tracker.client
      BY DEF TrackerInv
    <3>. QED
      BY <2>2, <3>1, Fields
  <2>5. CASE tracker.client /\ handler.pbufs > 1
    <3>1. handler' = [handler EXCEPT !.pbufs = @ - 1] /\ UNCHANGED <<tracker, last>>
      BY <1>3, <2>5 DEF RecvReturns, HasClient
    <3>2. handler' \in Handlers
      BY <2>5, <3>1, Fields DEF ClientTypeOK, Handlers
    <3>3. ClientTypeOK'
      BY <2>1, <2>3, <3>1, <3>2 DEF ClientTypeOK
    <3>4. TrackerInv'
      BY <2>1, <2>5, <3>1, Fields DEF TrackerInv
    <3>5. BytesInv'
      <4>1. conn' \notin BeforeOpen
        BY <2>1 DEF BytesInv
      <4>2. /\ handler'.name = "recv" /\ handler'.pbufs = handler.pbufs - 1
        BY <2>1, <3>1, Fields
      <4>3. rx'.ackLen \in Nat /\ net'.unread \in Int
        BY <3>3 DEF ClientTypeOK, Rxs, Nets
      <4>. QED
        BY <2>1, <2>4, <4>1, <4>2, <4>3, Fields DEF BytesInv
    <3>. QED
      BY <2>1, <3>1, <3>3, <3>4, <3>5 DEF FailedCloseIsReported, NeverUsedAfterDelete
  <2>6. CASE ~ (tracker.client /\ handler.pbufs > 1)
    <3>1. Return(tracker, handler.aborted)
      BY <1>3, <2>6 DEF RecvReturns, HasClient
    <3>2. /\ ClientTypeOK' /\ TrackerInv' /\ FailedCloseIsReported' /\ NeverUsedAfterDelete'
          /\ handler' = NoHandler
      BY <1>1, <2>1, <2>3, <3>1
    <3>3. pcb => handler.pbufs = 1
      BY <2>1, <2>6, Fields DEF TrackerInv
    <3>4. BytesInv'
      <4>1. conn' \notin BeforeOpen
        BY <2>1 DEF BytesInv
      <4>2. handler'.name = "none" /\ handler'.pbufs = 0
        BY <3>2 DEF NoHandler
      <4>3. rx'.ackLen \in Nat /\ net'.unread \in Int
        BY <2>3 DEF Rxs, Nets
      <4>4. CASE pcb
        <5>1. /\ handler.pbufs = 1 /\ net'.unacked = net.unacked
              /\ net.unread - rx.ackLen - 1 = net'.unread - rx'.ackLen
              /\ net'.unread >= net.unread - 1
          BY <2>4, <3>3, <4>4
        <5>2. ~ closePcb => net'.unread = rx'.ackLen
          BY <4>3, <4>4, <5>1, Fields DEF BytesInv
        <5>3. closePcb => net'.unread >= 0
          BY <4>3, <4>4, <5>1, Fields DEF BytesInv
        <5>4. /\ tx.unacked + total.unsent = net.unacked
              /\ total.written = total.reported + tx.unacked + tx.acked
          BY <2>1, <4>4 DEF BytesInv
        <5>. QED
          BY <2>1, <4>1, <4>2, <4>3, <5>1, <5>2, <5>3, <5>4 DEF BytesInv
      <4>5. CASE ~ pcb
        BY <2>1, <4>1, <4>5 DEF BytesInv
      <4>. QED
        BY <4>4, <4>5
    <3>. QED
      BY <3>2, <3>4
  <2>. QED
    BY <2>5, <2>6
<1>4. CASE CallbackReturns
  <2>1. /\ handler.name \in {"connected", "timeout", "poll"} /\ Return(tracker, handler.aborted)
        /\ UNCHANGED <<pcb, closePcb, tx, rx, conn, net, dangling, total>>
    BY <1>4 DEF CallbackReturns
  <2>2. /\ ClientTypeOK' /\ TrackerInv' /\ FailedCloseIsReported' /\ NeverUsedAfterDelete'
        /\ handler' = NoHandler
    BY <1>1, <2>1 DEF ClientTypeOK
  <2>3. BytesInv'
    BY <2>1, <2>2, Fields DEF BytesInv, TrackerInv, NoHandler
  <2>. QED
    BY <2>2, <2>3
<1>. QED
  BY <1>2, <1>3, <1>4 DEF HandlerReturns

\* Every call and every callback keeps the invariant.
LEMMA ClientStepInv == ClientInv /\ [ClientNext]_clientVars => ClientInv'
<1>. SUFFICES ASSUME ClientInv, [ClientNext]_clientVars PROVE ClientInv'
  OBVIOUS
<1>1. CASE BeginOrEnd
  <2>1. server' \in BOOLEAN /\ UNCHANGED <<pcb, closePcb, tx, rx, tracker, conn, net, handler,
                                          last, dangling, total>>
    BY <1>1 DEF BeginOrEnd, Begin, End
  <2>. QED
    BY <2>1 DEF ClientInv, ClientTypeOK, TrackerInv, BytesInv,
                FailedCloseIsReported, NeverUsedAfterDelete
<1>2. CASE OfClient /\ UNCHANGED server
  BY <1>2, ApplicationInv, CalledInv, ReturnsInv DEF OfClient
<1>3. CASE UNCHANGED clientVars
  BY <1>3 DEF clientVars, ClientInv, ClientTypeOK, TrackerInv, BytesInv,
              FailedCloseIsReported, NeverUsedAfterDelete
<1>. QED
  BY <1>1, <1>2, <1>3 DEF ClientNext

\* The invariant holds in every state, whatever the network and the application do.
THEOREM ClientInvariance == ClientSpec => []ClientInv
  BY ClientInitInv, ClientStepInv, PTL DEF ClientSpec

\* A tcp_close() that fails is reported to lwIP by the handler that is on the stack,
\* and nothing else is, whoever closes and in whichever handler.
THEOREM FailedCloses == ClientSpec => []FailedCloseIsReported
<1>1. ClientInv => FailedCloseIsReported
  BY DEF ClientInv
<1>. QED
  BY <1>1, ClientInvariance, PTL

\* Handlers leave a client alone that the application has deleted.
THEOREM NoUseAfterDelete == ClientSpec => []NeverUsedAfterDelete
<1>1. ClientInv => NeverUsedAfterDelete
  BY DEF ClientInv
<1>. QED
  BY <1>1, ClientInvariance, PTL

\* The counters agree with what lwIP holds as long as the client is connected,
\* whenever ack(), ackLater(), write() and close() are called.
THEOREM BytesAccounted == ClientSpec => []BytesAreAccounted
<1>1. ClientInv => BytesAreAccounted
  BY Fields DEF ClientInv, TrackerInv, BytesInv, BytesAreAccounted
<1>. QED
  BY <1>1, ClientInvariance, PTL

=============================================================================
