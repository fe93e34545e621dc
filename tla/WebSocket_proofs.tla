-------------------------- MODULE WebSocket_proofs --------------------------
(***************************************************************************)
(* Proofs of AsyncWebSocket's safety properties, for any clients, messages *)
(* and sizes of the send buffer, and any failures of the frames.           *)
(***************************************************************************)
EXTENDS WebSocket, SequenceTheorems, TLAPS

Statuses == {"NONE", "CONNECTED", "DISCONNECTING", "GONE"}
Controls == [isClose : BOOLEAN, finished : BOOLEAN]
Messages == [id : Nat, len : Nat, shared : BOOLEAN,
             sent : Nat, ack : Nat, acked : Int, status : {"SENDING", "SENT"}]
Frames == [id : Nat, len : Nat, from : Nat, bytes : Nat, isFirst : BOOLEAN, final : BOOLEAN]
Tcps == [busy : BOOLEAN, unacked : Int, unsent : Int, acked : Int, inflight : Int]
Mishaps == {"control", "message"} \X {"refused", "header only", "not output"}
Objects == [status : Statuses, control : Seq(Controls), messages : Seq(Messages),
            tcp : Tcps, wire : Seq(Frames), mishaps : SUBSET Mishaps]

\* The queue of messages: in the order of their numbers, of which n is the last, none of
\* them begun but the first, and that one not finished before all of it has been sent.
QueueOK(s, n) ==
    /\ \A i \in DOMAIN s : s[i].id <= n /\ s[i].sent <= s[i].len
    /\ \A i, j \in DOMAIN s : i < j => s[i].id < s[j].id
    /\ \A i \in DOMAIN s : Finished(s[i]) => s[i].sent = s[i].len
    /\ \A i \in DOMAIN s : i # 1 => ~ Finished(s[i]) /\ s[i].sent = 0 /\ s[i].ack = 0 /\ s[i].acked = 0

\* The last frame sent and the first message agree: it goes on where the frame has
\* ended, or it is another one and not begun, or all of it has been sent.
Continues(s, wire, n) ==
    IF wire = <<>> THEN s # <<>> => s[1].sent = 0
    ELSE LET e == wire[Len(wire)]
         IN /\ e.id <= n
            /\ IF e.final
               THEN s # <<>> => IF s[1].id = e.id THEN s[1].sent = s[1].len
                                ELSE s[1].id > e.id /\ s[1].sent = 0
               ELSE /\ s # <<>> /\ s[1].id = e.id /\ s[1].len = e.len
                    /\ s[1].sent = e.from + e.bytes

OnlyRefused(k) == \A m \in k.mishaps : m[2] = "refused"

WireOK(k, n) == OnlyRefused(k) => InOrder(k.wire) /\ Continues(k.messages, k.wire, n)

ForControl(k) == k.control # <<>> /\ k.control[1].finished

\* What is in flight is counted, and it is one frame, that of a control frame or
\* of the first message.
FlightOK(k) ==
    Unharmed(k) =>
        /\ k.tcp.unsent = 0 /\ k.tcp.acked = 0 /\ k.tcp.inflight = k.tcp.unacked
        /\ ~ k.tcp.busy => k.tcp.unacked = 0 /\ IsBetween(k)
        /\ k.tcp.busy => IF ForControl(k) THEN k.tcp.unacked = ControlLength /\ IsBetween(k)
                         ELSE k.messages # <<>> /\ k.messages[1].ack - k.messages[1].acked = k.tcp.unacked

ObjectOK(k, n) == k \in Objects /\ QueueOK(k.messages, n) /\ WireOK(k, n) /\ FlightOK(k)

WebSocketInv ==
    /\ ws \in [Clients -> Objects] /\ events \in Nat
    /\ \A c \in Clients : ObjectOK(ws[c], events)
    /\ BuffersInUseAreKept
-----------------------------------------------------------------------------
(* Records and sequences. *)

\* The fields of a client object.
LEMMA ObjectFields ==
    ASSUME NEW k \in Objects
    PROVE  /\ k.status \in Statuses /\ k.control \in Seq(Controls)
           /\ k.messages \in Seq(Messages) /\ k.tcp \in Tcps
           /\ k.wire \in Seq(Frames) /\ k.mishaps \in SUBSET Mishaps
BY DEF Objects

\* The fields of a message.
LEMMA MessageFields ==
    ASSUME NEW m \in Messages
    PROVE  /\ m.id \in Nat /\ m.len \in Nat /\ m.shared \in BOOLEAN /\ m.sent \in Nat
           /\ m.ack \in Nat /\ m.acked \in Int /\ m.status \in {"SENDING", "SENT"}
BY DEF Messages

\* The fields of the connection.
LEMMA TcpFields ==
    ASSUME NEW t \in Tcps
    PROVE  /\ t.busy \in BOOLEAN /\ t.unacked \in Int /\ t.unsent \in Int
           /\ t.acked \in Int /\ t.inflight \in Int
BY DEF Tcps

\* The fields of a frame.
LEMMA FrameFields ==
    ASSUME NEW f \in Frames
    PROVE  /\ f.id \in Nat /\ f.len \in Nat /\ f.from \in Nat /\ f.bytes \in Nat
           /\ f.isFirst \in BOOLEAN /\ f.final \in BOOLEAN
BY DEF Frames

\* A queue whose first element is replaced.
LEMMA HeadReplaced ==
    ASSUME NEW S, NEW s \in Seq(S), s # <<>>, NEW x \in S, NEW r, r = <<x>> \o Tail(s)
    PROVE  /\ r \in Seq(S) /\ r # <<>> /\ Len(r) = Len(s) /\ DOMAIN r = DOMAIN s
           /\ r[1] = x /\ Head(r) = x
           /\ \A i \in DOMAIN s : i # 1 => r[i] = s[i]
<1>1. Tail(s) \in Seq(S) /\ Len(Tail(s)) = Len(s) - 1 /\ Len(s) \in Nat /\ Len(s) # 0
  BY HeadTailProperties, LenProperties, EmptySeq
<1>2. \A i \in 1 .. Len(s) - 1 : Tail(s)[i] = s[i + 1]
  BY HeadTailProperties
<1>3. <<x>> \in Seq(S) /\ Len(<<x>>) = 1 /\ <<x>>[1] = x
  OBVIOUS
<1>. DEFINE t == Tail(s)
            o == <<x>>
<1>. HIDE DEF t, o
<1>4. r = o \o t /\ o \in Seq(S) /\ t \in Seq(S) /\ Len(o) = 1 /\ Len(t) = Len(s) - 1
  BY <1>1, <1>3 DEF t, o
<1>5. /\ r \in Seq(S) /\ Len(r) = 1 + Len(t)
      /\ \A i \in 1 .. 1 + Len(t) : r[i] = IF i <= 1 THEN o[i] ELSE t[i - 1]
  <2>1. /\ o \o t \in Seq(S) /\ Len(o \o t) = Len(o) + Len(t)
        /\ \A i \in 1 .. Len(o) + Len(t) : (o \o t)[i] = IF i <= Len(o) THEN o[i] ELSE t[i - Len(o)]
    BY <1>4, ConcatProperties
  <2>. QED
    BY <1>4, <2>1
<1>6. DOMAIN r = 1 .. Len(r) /\ DOMAIN s = 1 .. Len(s)
  BY <1>5, LenProperties
<1>7. r[1] = x
  BY <1>1, <1>3, <1>4, <1>5 DEF o
<1>8. \A i \in DOMAIN s : i # 1 => r[i] = s[i]
  BY <1>1, <1>2, <1>4, <1>5, <1>6 DEF t
<1>. QED
  BY <1>1, <1>4, <1>5, <1>6, <1>7, <1>8

\* A queue with one more element.
LEMMA Appended ==
    ASSUME NEW S, NEW s \in Seq(S), NEW x \in S, NEW r, r = Append(s, x)
    PROVE  /\ r \in Seq(S) /\ r # <<>> /\ Len(r) = Len(s) + 1 /\ Len(s) \in Nat
           /\ DOMAIN s = 1 .. Len(s) /\ DOMAIN r = 1 .. Len(r)
           /\ r[Len(r)] = x
           /\ \A i \in DOMAIN s : r[i] = s[i]
<1>1. /\ r \in Seq(S) /\ r # <<>> /\ Len(r) = Len(s) + 1 /\ Len(s) \in Nat
      /\ r[Len(s) + 1] = x /\ \A i \in 1 .. Len(s) : r[i] = s[i]
  BY AppendProperties, LenProperties
<1>. QED
  BY <1>1, LenProperties

\* The first element of a queue.
LEMMA FirstIsHead ==
    ASSUME NEW S, NEW s \in Seq(S), s # <<>>
    PROVE  Head(s) = s[1] /\ 1 \in DOMAIN s /\ s[1] \in S /\ Len(s) \in DOMAIN s
BY LenProperties, EmptySeq, HeadTailProperties, ElementOfSeq

-----------------------------------------------------------------------------
(* _runQueue(). *)

\* Every message of r was in the queue s: it may have been changed, but neither its
\* number nor its buffer.
From(s, r) ==
    \A i \in DOMAIN r : \E j \in DOMAIN s : r[i].id = s[j].id /\ r[i].shared = s[j].shared

\* Only the first message can have been finished.
LEMMA UnfinishedIs ==
    ASSUME NEW n \in Nat, NEW k \in Objects, QueueOK(k.messages, n), NEW u, u = Unfinished(k)
    PROVE  \/ u = k
           \/ /\ k.messages # <<>> /\ Finished(k.messages[1])
              /\ u = [k EXCEPT !.messages = Tail(k.messages)]
<1>. DEFINE s == k.messages
            waiting == {i \in 1 .. Len(s) : ~ Finished(s[i])}
            first == IF waiting # {} THEN Min(waiting) ELSE 0
<1>1. s \in Seq(Messages) /\ Len(s) \in Nat /\ DOMAIN s = 1 .. Len(s)
  BY ObjectFields, LenProperties
<1>2. u = [k EXCEPT !.messages = IF first = 0 THEN <<>> ELSE SubSeq(s, first, Len(s))]
  BY DEF Unfinished, SelectInSeq
<1>3. \A i \in DOMAIN s : i # 1 => ~ Finished(s[i])
  BY DEF QueueOK
<1>4. [k EXCEPT !.messages = s] = k
  BY DEF Objects
<1>. HIDE DEF s, waiting, first
<1>5. CASE s = <<>>
  <2>1. waiting = {}
    BY <1>5 DEF waiting
  <2>2. first = 0
    BY <2>1 DEF first
  <2>3. u = [k EXCEPT !.messages = s]
    BY <1>2, <1>5, <2>2
  <2>. QED
    BY <1>4, <2>3
<1>6. CASE s # <<>> /\ ~ Finished(s[1])
  <2>1. 1 \in waiting
    BY <1>1, <1>6, EmptySeq DEF waiting
  <2>2. Min(waiting) = 1
    <3>1. \A y \in waiting : y \in Nat /\ 1 <= y
      BY <1>1 DEF waiting
    <3>2. \A x \in waiting : (\A y \in waiting : x <= y) => x = 1
      BY <2>1, <3>1
    <3>. QED
      BY <2>1, <3>1, <3>2 DEF Min
  <2>3. first = 1
    BY <2>1, <2>2 DEF first
  <2>4. SubSeq(s, 1, Len(s)) = s
    BY <1>1, SubSeqFull
  <2>5. u = [k EXCEPT !.messages = s]
    BY <1>2, <2>3, <2>4
  <2>. QED
    BY <1>4, <2>5
<1>7. CASE s # <<>> /\ Finished(s[1]) /\ Len(s) = 1
  <2>1. waiting = {}
    BY <1>7 DEF waiting
  <2>2. first = 0
    BY <2>1 DEF first
  <2>3. Tail(s) = <<>>
    <3>1. Len(Tail(s)) = 0 /\ Tail(s) \in Seq(Messages)
      BY <1>1, <1>7, HeadTailProperties
    <3>. QED
      BY <3>1, EmptySeq
  <2>4. u = [k EXCEPT !.messages = Tail(s)]
    BY <1>2, <2>2, <2>3
  <2>. QED
    BY <1>7, <2>4 DEF s
<1>8. CASE s # <<>> /\ Finished(s[1]) /\ Len(s) # 1
  <2>1. 2 \in waiting /\ 1 \notin waiting
    BY <1>1, <1>3, <1>8, EmptySeq DEF waiting
  <2>2. Min(waiting) = 2
    <3>1. \A y \in waiting : y \in Nat /\ 2 <= y
      BY <1>1, <2>1 DEF waiting
    <3>2. \A x \in waiting : (\A y \in waiting : x <= y) => x = 2
      BY <2>1, <3>1
    <3>. QED
      BY <2>1, <3>1, <3>2 DEF Min
  <2>3. first = 2
    BY <2>1, <2>2 DEF first
  <2>4. SubSeq(s, 2, Len(s)) = Tail(s)
    BY <1>1, <1>8, TailIsSubSeq
  <2>5. first # 0
    BY <2>3
  <2>6. u = [k EXCEPT !.messages = Tail(s)]
    BY <1>2, <2>3, <2>4, <2>5, Zenon
  <2>. QED
    BY <1>8, <2>6 DEF s
<1>. QED
  BY <1>5, <1>6, <1>7, <1>8 DEF s

\* Removing what is finished keeps the invariant.
LEMMA UnfinishedOK ==
    ASSUME NEW n \in Nat, NEW k, ObjectOK(k, n), ~ k.tcp.busy, NEW u, u = Unfinished(k)
    PROVE  /\ ObjectOK(u, n) /\ ~ u.tcp.busy
           /\ From(k.messages, u.messages)
<1>. DEFINE s == k.messages
            r == Tail(s)
<1>1. /\ k \in Objects /\ QueueOK(s, n) /\ WireOK(k, n) /\ FlightOK(k)
      /\ s \in Seq(Messages) /\ Len(s) \in Nat /\ DOMAIN s = 1 .. Len(s)
  BY ObjectFields, LenProperties DEF ObjectOK
<1>2. CASE u = k
  BY <1>2 DEF From
<1>3. CASE s # <<>> /\ Finished(s[1]) /\ u = [k EXCEPT !.messages = r]
  <2>1. /\ r \in Seq(Messages) /\ Len(r) = Len(s) - 1 /\ Len(s) >= 1
        /\ DOMAIN r = 1 .. Len(r) /\ 1 \in DOMAIN s
        /\ \A i \in DOMAIN r : i + 1 \in DOMAIN s /\ r[i] = s[i + 1]
    <3>1. r \in Seq(Messages) /\ Len(r) = Len(s) - 1 /\ Len(s) >= 1
      BY <1>1, <1>3, HeadTailProperties, EmptySeq
    <3>2. DOMAIN r = 1 .. Len(r) /\ 1 \in DOMAIN s
      BY <1>1, <3>1, LenProperties
    <3>3. \A i \in 1 .. Len(s) - 1 : r[i] = s[i + 1]
      BY <1>1, <1>3, HeadTailProperties
    <3>. QED
      BY <1>1, <3>1, <3>2, <3>3
  <2>2. /\ u.messages = r /\ u.tcp = k.tcp /\ u.wire = k.wire /\ u.mishaps = k.mishaps
        /\ u.control = k.control /\ u \in Objects
    BY <1>1, <1>3, <2>1 DEF Objects
  <2>. HIDE DEF r
  <2>3. /\ \A i \in DOMAIN s : s[i] \in Messages /\ s[i].id \in Nat /\ s[i].sent \in Nat /\ s[i].len \in Nat
    BY <1>1, MessageFields, ElementOfSeq
  <2>4. \A i \in DOMAIN r : /\ i \in Nat /\ i + 1 # 1 /\ i + 1 \in DOMAIN s /\ r[i] = s[i + 1]
                            /\ ~ Finished(r[i]) /\ r[i].sent = 0 /\ r[i].ack = 0 /\ r[i].acked = 0
                            /\ r[i].id > s[1].id /\ r[i].id <= n /\ r[i].sent <= r[i].len
    <3>. SUFFICES ASSUME NEW i \in DOMAIN r
                  PROVE  /\ i \in Nat /\ i + 1 # 1 /\ i + 1 \in DOMAIN s /\ r[i] = s[i + 1]
                         /\ ~ Finished(r[i]) /\ r[i].sent = 0 /\ r[i].ack = 0 /\ r[i].acked = 0
                         /\ r[i].id > s[1].id /\ r[i].id <= n /\ r[i].sent <= r[i].len
      OBVIOUS
    <3>1. i \in Nat /\ i >= 1
      BY <1>1, <2>1
    <3>2. i + 1 \in DOMAIN s /\ r[i] = s[i + 1] /\ i + 1 # 1 /\ 1 < i + 1
      BY <2>1, <3>1
    <3>3. s[1].id < s[i + 1].id
      BY <1>1, <2>1, <3>2 DEF QueueOK
    <3>4. /\ ~ Finished(s[i + 1]) /\ s[i + 1].sent = 0 /\ s[i + 1].ack = 0 /\ s[i + 1].acked = 0
          /\ s[i + 1].id <= n /\ s[i + 1].sent <= s[i + 1].len
      BY <1>1, <3>2 DEF QueueOK
    <3>. QED
      BY <2>1, <2>3, <3>1, <3>2, <3>3, <3>4
  <2>5. QueueOK(r, n)
    <3>1. \A i, j \in DOMAIN r : i < j => r[i].id < r[j].id
      <4>. SUFFICES ASSUME NEW i \in DOMAIN r, NEW j \in DOMAIN r, i < j
                    PROVE  r[i].id < r[j].id
        OBVIOUS
      <4>1. i + 1 < j + 1 /\ i + 1 \in DOMAIN s /\ j + 1 \in DOMAIN s
        BY <2>4
      <4>2. s[i + 1].id < s[j + 1].id
        BY <1>1, <4>1 DEF QueueOK
      <4>. QED
        BY <2>4, <4>2
    <3>. QED
      BY <2>4, <3>1 DEF QueueOK
  <2>6. WireOK(u, n)
    <3>. SUFFICES ASSUME OnlyRefused(u) PROVE InOrder(u.wire) /\ Continues(r, u.wire, n)
      BY <2>2 DEF WireOK
    <3>1. InOrder(k.wire) /\ Continues(s, k.wire, n)
      BY <1>1, <2>2 DEF WireOK, OnlyRefused
    <3>2. s[1].sent = s[1].len
      BY <1>1, <1>3, <2>1 DEF QueueOK
    <3>3. r # <<>> => 1 \in DOMAIN r
      BY <2>1, FirstIsHead
    <3>4. CASE k.wire = <<>>
      BY <2>2, <2>4, <3>1, <3>3, <3>4 DEF Continues
    <3>5. CASE k.wire # <<>>
      <4>. DEFINE e == k.wire[Len(k.wire)]
      <4>1. k.wire \in Seq(Frames) /\ Len(k.wire) \in DOMAIN k.wire
        BY <1>1, <3>5, ObjectFields, FirstIsHead
      <4>2. e \in Frames /\ e.id \in Nat /\ (e.final <=> e.from + e.bytes = e.len)
        BY <3>1, <4>1, ElementOfSeq, FrameFields, LenProperties DEF InOrder
      <4>3. /\ e.id <= n /\ e.final
            /\ IF s[1].id = e.id THEN s[1].sent = s[1].len ELSE s[1].id > e.id
        BY <1>3, <3>1, <3>2, <3>5, <4>2 DEF Continues
      <4>. HIDE DEF e
      <4>4. r # <<>> => r[1].id > e.id /\ r[1].sent = 0
        BY <2>1, <2>3, <2>4, <3>3, <4>2, <4>3
      <4>5. r # <<>> => r[1].id # e.id
        BY <4>2, <4>4, <2>1, <2>3, <2>4, <3>3
      <4>. QED
        BY <2>2, <3>1, <3>5, <4>3, <4>4, <4>5 DEF Continues, e
    <3>. QED
      BY <3>4, <3>5
  <2>7. FlightOK(u)
    <3>1. IsBetween(u)
      <4>1. r # <<>> => 1 \in DOMAIN r /\ Head(r) = r[1]
        BY <2>1, FirstIsHead
      <4>. QED
        BY <2>2, <2>4, <4>1 DEF IsBetween, BetweenFrames
    <3>2. Unharmed(u) <=> Unharmed(k)
      BY <2>2 DEF Unharmed
    <3>. QED
      BY <1>1, <2>2, <3>1, <3>2 DEF FlightOK
  <2>8. From(s, r)
    BY <2>4 DEF From
  <2>. QED
    BY <2>2, <2>5, <2>6, <2>7, <2>8 DEF ObjectOK
<1>. QED
  BY <1>1, <1>2, <1>3, UnfinishedIs

\* What is assumed of the constants.
LEMMA Sizes ==
    /\ SndBuf \in Nat /\ ShortFrame \in Nat /\ ControlBytes \in Nat
    /\ SndBuf > ControlBytes + 9 /\ ControlBytes <= ShortFrame
<1>1. SndBuf \in Nat /\ ControlBytes \in Nat
  BY WebSocketAssumption
<1>2. ShortFrame \in Nat
  BY WebSocketAssumption
<1>3. SndBuf > ControlBytes + 9 /\ ControlBytes <= ShortFrame
  BY WebSocketAssumption
<1>. QED
  BY <1>1, <1>2, <1>3

\* How sending a frame ends.
Ends == {"sent", "refused", "header only", "not output"}

\* A failure of the run is one of those that there are.
LEMMA OutcomesAreEnds == Outcomes \subseteq Ends
BY WebSocketAssumption DEF Outcomes, Ends

\* A connection, by its fields.
LEMMA TcpIs ==
    ASSUME NEW b \in BOOLEAN, NEW u \in Int, NEW un \in Int, NEW a \in Int, NEW i \in Int
    PROVE  [busy |-> b, unacked |-> u, unsent |-> un, acked |-> a, inflight |-> i] \in Tcps
BY DEF Tcps

\* What webSocketSendFrame() makes of the connection, by how it ends.
IsSentWith(t, tcp, n, outcome) ==
    /\ t \in Tcps
    /\ outcome = "refused" => t = tcp
    /\ outcome = "sent" =>
          /\ t.busy /\ t.unsent = 0 /\ t.acked = tcp.acked
          /\ t.unacked = tcp.unacked + tcp.unsent + HeaderLength(n) + n
          /\ t.inflight = tcp.inflight + HeaderLength(n) + n

\* It makes just that of it.
LEMMA FrameSent ==
    ASSUME NEW tcp \in Tcps, NEW n \in Nat, NEW outcome \in Ends,
           NEW t, t = SendFrame(tcp, n, outcome)
    PROVE  IsSentWith(t, tcp, n, outcome)
<1>. USE DEF IsSentWith
<1>. DEFINE h == HeaderLength(n)
            Tcp(b, u, un, i) == [busy |-> b, unacked |-> u, unsent |-> un,
                                 acked |-> tcp.acked, inflight |-> i]
<1>1. h \in Nat
  BY DEF HeaderLength
<1>. HIDE DEF h
<1>2. /\ tcp.busy \in BOOLEAN /\ tcp.unacked \in Int /\ tcp.unsent \in Int
      /\ tcp.acked \in Int /\ tcp.inflight \in Int
      /\ tcp = Tcp(tcp.busy, tcp.unacked, tcp.unsent, tcp.inflight)
  BY DEF Tcps
<1>3. CASE outcome = "refused"
  <2>1. t = tcp
    BY <1>3 DEF SendFrame
  <2>. QED
    BY <1>3, <2>1
<1>4. CASE outcome = "header only" /\ n > 0
  <2>1. t = [tcp EXCEPT !.unsent = @ + h, !.inflight = @ + h]
    BY <1>4 DEF SendFrame, h
  <2>2. t = Tcp(tcp.busy, tcp.unacked, tcp.unsent + h, tcp.inflight + h)
    BY <1>2, <2>1
  <2>3. tcp.unsent + h \in Int /\ tcp.inflight + h \in Int
    BY <1>1, <1>2
  <2>4. t \in Tcps
    BY <1>2, <2>2, <2>3, TcpIs
  <2>. QED
    BY <1>4, <2>4
<1>5. CASE outcome = "not output"
  <2>1. t = [tcp EXCEPT !.unsent = 0, !.inflight = @ + h + n]
    BY <1>5 DEF SendFrame, h
  <2>2. t = Tcp(tcp.busy, tcp.unacked, 0, tcp.inflight + h + n)
    BY <1>2, <2>1
  <2>3. 0 \in Int /\ tcp.inflight + h + n \in Int
    BY <1>1, <1>2
  <2>4. t \in Tcps
    BY <1>2, <2>2, <2>3, TcpIs
  <2>. QED
    BY <1>5, <2>4
<1>6. CASE outcome = "sent" \/ (outcome = "header only" /\ ~ (n > 0))
  <2>1. t = [tcp EXCEPT !.busy = TRUE, !.unacked = @ + tcp.unsent + h + n,
                        !.unsent = 0, !.inflight = @ + h + n]
    BY <1>6 DEF SendFrame, h
  <2>2. t = Tcp(TRUE, tcp.unacked + tcp.unsent + h + n, 0, tcp.inflight + h + n)
    BY <1>2, <2>1
  <2>. DEFINE unacked == tcp.unacked + tcp.unsent + h + n
              inflight == tcp.inflight + h + n
  <2>3. t \in Tcps
    <3>1. unacked \in Int /\ inflight \in Int /\ 0 \in Int
      BY <1>1, <1>2
    <3>2. t = Tcp(TRUE, unacked, 0, inflight)
      BY <2>2
    <3>. HIDE DEF unacked, inflight
    <3>. QED
      BY <1>2, <3>1, <3>2 DEF Tcps
  <2>4. /\ t.busy /\ t.unsent = 0 /\ t.acked = tcp.acked
        /\ t.unacked = tcp.unacked + tcp.unsent + h + n
        /\ t.inflight = tcp.inflight + h + n
    BY <2>2
  <2>. QED
    BY <1>6, <2>3, <2>4 DEF h
<1>. QED
  BY <1>3, <1>4, <1>5, <1>6 DEF Ends

\* A frame that has failed is remembered.
LEMMA MishapKept ==
    ASSUME NEW k, k.mishaps \in SUBSET Mishaps, NEW what \in {"control", "message"},
           NEW outcome \in Ends, NEW after, after.mishaps = k.mishaps \cup Mishap(what, outcome)
    PROVE  /\ after.mishaps \in SUBSET Mishaps
           /\ OnlyRefused(after) => OnlyRefused(k) /\ outcome \in {"sent", "refused"}
           /\ Unharmed(after) => /\ Unharmed(k)
                                 /\ (outcome = "sent" \/ (outcome = "refused" /\ what = "control"))
<1>1. outcome = "sent" \/ <<what, outcome>> \in Mishaps
  BY DEF Mishaps, Ends
<1>2. CASE outcome = "sent"
  <2>1. after.mishaps = k.mishaps
    BY <1>2 DEF Mishap
  <2>2. (OnlyRefused(after) <=> OnlyRefused(k)) /\ (Unharmed(after) <=> Unharmed(k))
    BY <2>1 DEF OnlyRefused, Unharmed
  <2>. QED
    BY <1>2, <2>1, <2>2
<1>3. CASE outcome # "sent"
  <2>. DEFINE m == <<what, outcome>>
  <2>1. after.mishaps = k.mishaps \cup {m}
    BY <1>3 DEF Mishap
  <2>2. m \in Mishaps /\ m[1] = what /\ m[2] = outcome
    BY <1>1, <1>3
  <2>3. m = <<"control", "refused">> => what = "control" /\ outcome = "refused"
    OBVIOUS
  <2>. HIDE DEF m
  <2>4. OnlyRefused(after) => OnlyRefused(k) /\ outcome = "refused"
    BY <2>1, <2>2 DEF OnlyRefused
  <2>5. Unharmed(after) => Unharmed(k) /\ what = "control" /\ outcome = "refused"
    BY <2>1, <2>3 DEF Unharmed
  <2>. QED
    BY <2>1, <2>2, <2>4, <2>5
<1>. QED
  BY <1>2, <1>3

\* Sending the first control frame keeps the invariant.
LEMMA SendControlOK ==
    ASSUME NEW n \in Nat, NEW k, ObjectOK(k, n), ~ k.tcp.busy, k.control # <<>>, IsBetween(k),
           NEW outcome \in Ends, NEW after, after = SendControl(k, outcome)
    PROVE  ObjectOK(after, n) /\ after.messages = k.messages
<1>. DEFINE q == <<[Head(k.control) EXCEPT !.finished = TRUE]>> \o Tail(k.control)
            t == SendFrame(k.tcp, ControlBytes, outcome)
<1>1. /\ k \in Objects /\ k.control \in Seq(Controls) /\ k.tcp \in Tcps
      /\ k.mishaps \in SUBSET Mishaps
      /\ QueueOK(k.messages, n) /\ WireOK(k, n) /\ FlightOK(k)
  BY ObjectFields DEF ObjectOK
<1>2. q \in Seq(Controls) /\ q # <<>> /\ q[1].finished
  <2>. DEFINE x == [Head(k.control) EXCEPT !.finished = TRUE]
  <2>1. Head(k.control) \in Controls
    BY <1>1, FirstIsHead
  <2>2. x \in Controls /\ x.finished
    BY <2>1 DEF Controls
  <2>3. q = <<x>> \o Tail(k.control)
    OBVIOUS
  <2>. HIDE DEF x, q
  <2>. QED
    BY <1>1, <2>2, <2>3, HeadReplaced
<1>3. /\ t \in Tcps
      /\ outcome = "refused" => t = k.tcp
      /\ outcome = "sent" =>
            /\ t.busy /\ t.unsent = 0 /\ t.acked = k.tcp.acked
            /\ t.unacked = k.tcp.unacked + k.tcp.unsent + ControlLength
            /\ t.inflight = k.tcp.inflight + ControlLength
  <2>1. ControlBytes \in Nat /\ HeaderLength(ControlBytes) = 2
    BY Sizes DEF HeaderLength
  <2>2. k.tcp.unacked \in Int /\ k.tcp.unsent \in Int /\ k.tcp.inflight \in Int
    BY <1>1, TcpFields
  <2>3. /\ t \in Tcps
        /\ outcome = "refused" => t = k.tcp
        /\ outcome = "sent" =>
              /\ t.busy /\ t.unsent = 0 /\ t.acked = k.tcp.acked
              /\ t.unacked = k.tcp.unacked + k.tcp.unsent + HeaderLength(ControlBytes) + ControlBytes
              /\ t.inflight = k.tcp.inflight + HeaderLength(ControlBytes) + ControlBytes
    BY <1>1, <2>1, FrameSent, SMTT(30) DEF IsSentWith
  <2>. HIDE DEF t
  <2>4. k.tcp.unacked + k.tcp.unsent + 2 + ControlBytes = k.tcp.unacked + k.tcp.unsent + ControlLength
        /\ k.tcp.inflight + 2 + ControlBytes = k.tcp.inflight + ControlLength
    BY <2>1, <2>2, SMTT(30) DEF ControlLength
  <2>. QED
    BY <2>1, <2>3, <2>4
<1>4. after = [k EXCEPT !.control = q, !.tcp = t, !.mishaps = @ \cup Mishap("control", outcome)]
  BY DEF SendControl
<1>. HIDE DEF q, t
<1>5. /\ after.status = k.status /\ after.control = q /\ after.messages = k.messages
      /\ after.tcp = t /\ after.wire = k.wire
      /\ after.mishaps = k.mishaps \cup Mishap("control", outcome)
  BY <1>1, <1>4 DEF Objects
<1>6. /\ after.mishaps \in SUBSET Mishaps
      /\ OnlyRefused(after) => OnlyRefused(k)
      /\ Unharmed(after) => Unharmed(k) /\ outcome \in {"sent", "refused"}
  BY <1>1, <1>5, MishapKept
<1>7. after \in Objects
  BY <1>1, <1>2, <1>3, <1>4, <1>5, <1>6 DEF Objects
<1>8. WireOK(after, n)
  BY <1>1, <1>5, <1>6 DEF WireOK
<1>9. FlightOK(after)
  <2>. SUFFICES ASSUME Unharmed(after)
                PROVE  /\ t.unsent = 0 /\ t.acked = 0 /\ t.inflight = t.unacked
                       /\ ~ t.busy => t.unacked = 0
                       /\ t.busy => t.unacked = ControlLength
    BY <1>2, <1>5 DEF FlightOK, ForControl, IsBetween
  <2>1. k.tcp.unsent = 0 /\ k.tcp.acked = 0 /\ k.tcp.inflight = 0 /\ k.tcp.unacked = 0
    BY <1>1, <1>6 DEF FlightOK
  <2>2. ControlLength \in Nat
    BY Sizes DEF ControlLength
  <2>. QED
    BY <1>3, <1>6, <2>1, <2>2
<1>. QED
  BY <1>1, <1>5, <1>7, <1>8, <1>9 DEF ObjectOK

\* The payload of a frame is some of what is left of the message.
LEMMA ToSendIs ==
    ASSUME NEW m \in Messages, m.sent <= m.len, m.sent # m.len, NEW tcp \in Tcps, Window(tcp) > 0
    PROVE  ToSend(m, tcp) \in Nat /\ ToSend(m, tcp) > 0 /\ m.sent + ToSend(m, tcp) <= m.len
<1>1. Window(tcp) \in Nat
  BY Sizes DEF Window, Tcps
<1>2. m.sent \in Nat /\ m.len \in Nat
  BY MessageFields
<1>. HIDE DEF Window
<1>. QED
  BY <1>1, <1>2 DEF ToSend

\* The first message may be changed, as long as it stays itself and is not finished
\* early.
LEMMA FirstChanged ==
    ASSUME NEW last \in Nat, NEW s \in Seq(Messages), QueueOK(s, last), s # <<>>,
           NEW x \in Messages, x.id = s[1].id, x.shared = s[1].shared, x.len = s[1].len,
           x.sent <= x.len, Finished(x) => x.sent = x.len,
           NEW r, r = <<x>> \o Tail(s)
    PROVE  /\ r \in Seq(Messages) /\ r # <<>> /\ r[1] = x /\ Head(r) = x
           /\ QueueOK(r, last) /\ From(s, r)
<1>1. /\ r \in Seq(Messages) /\ r # <<>> /\ DOMAIN r = DOMAIN s
      /\ r[1] = x /\ Head(r) = x
      /\ \A i \in DOMAIN s : i # 1 => r[i] = s[i]
  BY HeadReplaced
<1>2. 1 \in DOMAIN s
  BY FirstIsHead
<1>3. \A i \in DOMAIN s : r[i].id = s[i].id /\ r[i].shared = s[i].shared
  BY <1>1
<1>4. QueueOK(r, last)
  <2>1. \A i \in DOMAIN r : r[i].id <= last /\ r[i].sent <= r[i].len
    <3>. SUFFICES ASSUME NEW i \in DOMAIN r PROVE r[i].id <= last /\ r[i].sent <= r[i].len
      OBVIOUS
    <3>1. i \in DOMAIN s /\ s[i].id <= last /\ s[i].sent <= s[i].len
      BY <1>1 DEF QueueOK
    <3>. QED
      BY <1>1, <1>3, <3>1
  <2>2. \A i, j \in DOMAIN r : i < j => r[i].id < r[j].id
    BY <1>1, <1>3, ZenonT(60) DEF QueueOK
  <2>3. \A i \in DOMAIN r : Finished(r[i]) => r[i].sent = r[i].len
    <3>. SUFFICES ASSUME NEW i \in DOMAIN r, Finished(r[i]) PROVE r[i].sent = r[i].len
      OBVIOUS
    <3>1. i \in DOMAIN s /\ (Finished(s[i]) => s[i].sent = s[i].len)
      BY <1>1 DEF QueueOK
    <3>2. CASE i = 1
      BY <1>1, <3>2
    <3>3. CASE i # 1
      BY <1>1, <3>1, <3>3
    <3>. QED
      BY <3>2, <3>3
  <2>4. \A i \in DOMAIN r : i # 1 => ~ Finished(r[i]) /\ r[i].sent = 0 /\ r[i].ack = 0 /\ r[i].acked = 0
    BY <1>1 DEF QueueOK
  <2>. QED
    BY <2>1, <2>2, <2>3, <2>4 DEF QueueOK
<1>5. From(s, r)
  BY <1>1, <1>3 DEF From
<1>. QED
  BY <1>1, <1>4, <1>5

\* A frame of the first message goes on where the last one has ended.
LEMMA WireExtended ==
    ASSUME NEW last \in Nat, NEW s \in Seq(Messages), s # <<>>, s[1].id <= last,
           s[1].sent # s[1].len,
           NEW wire \in Seq(Frames), InOrder(wire), Continues(s, wire, last),
           NEW f \in Frames, f.id = s[1].id, f.len = s[1].len, f.from = s[1].sent,
           f.isFirst <=> f.from = 0, f.final <=> f.from + f.bytes = f.len,
           NEW r \in Seq(Messages), r # <<>>, r[1].id = f.id, r[1].len = f.len,
           r[1].sent = f.from + f.bytes,
           NEW longer, longer = Append(wire, f)
    PROVE  InOrder(longer) /\ Continues(r, longer, last)
<1>1. /\ longer \in Seq(Frames) /\ longer # <<>> /\ Len(longer) = Len(wire) + 1
      /\ Len(wire) \in Nat /\ DOMAIN wire = 1 .. Len(wire) /\ DOMAIN longer = 1 .. Len(longer)
      /\ longer[Len(longer)] = f /\ \A i \in DOMAIN wire : longer[i] = wire[i]
  BY Appended, SMTT(30)
<1>2. Continues(r, longer, last)
  BY <1>1 DEF Continues
<1>3. IF wire = <<>> THEN f.from = 0
      ELSE LET e == wire[Len(wire)]
           IN IF e.final THEN f.from = 0 /\ f.id > e.id
              ELSE f.id = e.id /\ f.from = e.from + e.bytes
  BY DEF Continues
<1>4. ASSUME NEW i \in DOMAIN longer
      PROVE  LET g == longer[i]
             IN /\ g.isFirst <=> g.from = 0
                /\ g.final <=> g.from + g.bytes = g.len
                /\ IF i = 1 THEN g.from = 0
                   ELSE LET e == longer[i - 1]
                        IN IF e.final THEN g.from = 0 /\ g.id > e.id
                           ELSE g.id = e.id /\ g.from = e.from + e.bytes
  <2>1. CASE i \in DOMAIN wire
    <3>1. longer[i] = wire[i] /\ (i # 1 => i - 1 \in DOMAIN wire /\ longer[i - 1] = wire[i - 1])
      BY <1>1, <2>1
    <3>. QED
      BY <2>1, <3>1 DEF InOrder
  <2>2. CASE i \notin DOMAIN wire
    <3>1. i = Len(longer) /\ longer[i] = f
      BY <1>1, <2>2
    <3>2. i = 1 <=> wire = <<>>
      BY <1>1, <3>1, EmptySeq
    <3>3. i # 1 => longer[i - 1] = wire[Len(wire)]
      <4>1. i # 1 => i - 1 = Len(wire) /\ Len(wire) \in DOMAIN wire
        BY <1>1, <3>1
      <4>. QED
        BY <1>1, <4>1
    <3>. QED
      BY <1>3, <3>1, <3>2, <3>3
  <2>. QED
    BY <2>1, <2>2
<1>5. InOrder(longer)
  BY <1>4 DEF InOrder
<1>. QED
  BY <1>2, <1>5

\* Whether a queue goes on after the wire is a matter of its first message.
LEMMA ContinuesSame ==
    ASSUME NEW last, NEW s, NEW r, NEW wire, s # <<>>, r # <<>>, Continues(s, wire, last),
           r[1].id = s[1].id, r[1].len = s[1].len, r[1].sent = s[1].sent
    PROVE  Continues(r, wire, last)
BY DEF Continues

\* Sending the next frame of the first message keeps the invariant.
LEMMA SendMessageOK ==
    ASSUME NEW last \in Nat, NEW k, ObjectOK(k, last), ~ k.tcp.busy, k.messages # <<>>,
           IsBetween(k), Window(k.tcp) > 0, Unharmed(k) => ~ ForControl(k),
           NEW outcome \in Ends, NEW after, after = SendMessage(k, outcome)
    PROVE  ObjectOK(after, last) /\ From(k.messages, after.messages)
<1>. DEFINE s == k.messages
            m == s[1]
            n == ToSend(m, k.tcp)
            h == HeaderLength(n)
            taken == IF outcome = "sent" THEN n ELSE 0
            frames == Frame(m, n, outcome)
            t == SendFrame(k.tcp, n, outcome)
<1>1. /\ k \in Objects /\ k.control \in Seq(Controls) /\ k.tcp \in Tcps
      /\ s \in Seq(Messages) /\ k.wire \in Seq(Frames) /\ k.mishaps \in SUBSET Mishaps
      /\ QueueOK(s, last) /\ WireOK(k, last) /\ FlightOK(k)
  BY ObjectFields DEF ObjectOK
<1>2. /\ Head(s) = m /\ m \in Messages /\ m.id \in Nat /\ m.len \in Nat /\ m.sent \in Nat
      /\ m.ack \in Nat /\ m.acked \in Int /\ m.id <= last /\ m.sent <= m.len
      /\ m.acked = m.ack
  <2>1. Head(s) = m /\ 1 \in DOMAIN s /\ m \in Messages
    BY <1>1, FirstIsHead
  <2>2. m.id <= last /\ m.sent <= m.len
    BY <1>1, <2>1 DEF QueueOK
  <2>3. m.acked = m.ack
    BY <2>1 DEF IsBetween, BetweenFrames
  <2>. QED
    BY <2>1, <2>2, <2>3, MessageFields
<1>3. CASE m.sent = m.len
  <2>. DEFINE x == [m EXCEPT !.status = "SENT"]
              r == <<x>> \o Tail(s)
  <2>1. after = [k EXCEPT !.messages = r]
    BY <1>2, <1>3 DEF SendMessage
  <2>2. /\ x \in Messages /\ x.id = m.id /\ x.shared = m.shared /\ x.len = m.len
        /\ x.sent = m.sent /\ x.ack = m.ack /\ x.acked = m.acked
    BY <1>2 DEF Messages
  <2>. HIDE DEF x
  <2>3. /\ r \in Seq(Messages) /\ r # <<>> /\ r[1] = x /\ Head(r) = x
        /\ QueueOK(r, last) /\ From(s, r)
    BY <1>1, <1>2, <1>3, <2>2, FirstChanged
  <2>. HIDE DEF r
  <2>4. /\ after.control = k.control /\ after.messages = r /\ after.tcp = k.tcp
        /\ after.wire = k.wire /\ after.mishaps = k.mishaps /\ after \in Objects
    BY <1>1, <2>1, <2>3 DEF Objects
  <2>5. WireOK(after, last)
    <3>1. OnlyRefused(after) <=> OnlyRefused(k)
      BY <2>4 DEF OnlyRefused
    <3>. QED
      BY <1>1, <2>2, <2>3, <2>4, <3>1, ContinuesSame DEF WireOK
  <2>6. FlightOK(after)
    <3>1. Unharmed(after) <=> Unharmed(k)
      BY <2>4 DEF Unharmed
    <3>2. IsBetween(after)
      BY <1>2, <2>2, <2>3, <2>4 DEF IsBetween, BetweenFrames
    <3>. QED
      BY <1>1, <2>4, <3>1, <3>2 DEF FlightOK
  <2>. QED
    BY <2>3, <2>4, <2>5, <2>6 DEF ObjectOK
<1>4. CASE m.sent # m.len
  <2>. DEFINE x == [m EXCEPT !.sent = @ + taken, !.ack = @ + taken + h]
              r == <<x>> \o Tail(s)
  <2>1. after = [k EXCEPT !.messages = r, !.tcp = t, !.wire = @ \o frames,
                          !.mishaps = @ \cup Mishap("message", outcome)]
    BY <1>2, <1>4 DEF SendMessage
  <2>2. n \in Nat /\ n > 0 /\ m.sent + n <= m.len
    BY <1>1, <1>2, <1>4, ToSendIs
  <2>. HIDE DEF n
  <2>3. h \in Nat
    BY DEF HeaderLength
  <2>. HIDE DEF h
  <2>4. taken \in Nat /\ m.sent + taken \in Nat /\ m.ack + taken + h \in Nat
        /\ m.sent + taken <= m.len
    BY <1>2, <2>2, <2>3
  <2>. HIDE DEF taken
  <2>5. /\ x \in Messages /\ x.id = m.id /\ x.shared = m.shared /\ x.len = m.len
        /\ x.sent = m.sent + taken /\ x.ack = m.ack + taken + h /\ x.acked = m.acked
        /\ x.status = m.status
    BY <1>2, <2>4 DEF Messages
  <2>6. ~ Finished(x)
    <3>1. ~ Finished(m)
      BY <1>1, <1>2, <1>4, FirstIsHead DEF QueueOK
    <3>. QED
      BY <2>5, <3>1 DEF Finished
  <2>. HIDE DEF x
  <2>7. /\ r \in Seq(Messages) /\ r # <<>> /\ r[1] = x /\ Head(r) = x
        /\ QueueOK(r, last) /\ From(s, r)
    BY <1>1, <1>2, <2>4, <2>5, <2>6, FirstChanged
  <2>. HIDE DEF r
  <2>8. /\ t \in Tcps
        /\ outcome = "refused" => t = k.tcp
        /\ outcome = "sent" =>
              /\ t.busy /\ t.unsent = 0 /\ t.acked = k.tcp.acked
              /\ t.unacked = k.tcp.unacked + k.tcp.unsent + h + n
              /\ t.inflight = k.tcp.inflight + h + n
    <3>. DEFINE tcp == k.tcp
    <3>1. tcp \in Tcps /\ n \in Nat /\ t = SendFrame(tcp, n, outcome)
      BY <1>1, <2>2
    <3>. HIDE DEF t, tcp
    <3>2. IsSentWith(t, tcp, n, outcome)
      BY <3>1, FrameSent, Zenon
    <3>. QED
      BY <3>2 DEF IsSentWith, h, tcp
  <2>. HIDE DEF t
  <2>. DEFINE f == [id |-> m.id, len |-> m.len, from |-> m.sent,
                    bytes |-> IF outcome = "header only" THEN 0 ELSE n,
                    isFirst |-> m.sent = 0, final |-> m.sent + n = m.len]
  <2>9. f \in Frames
    BY <1>2, <2>2 DEF Frames
  <2>10. frames = IF outcome = "refused" THEN <<>> ELSE <<f>>
    BY DEF Frame
  <2>11. k.wire \o frames = IF outcome = "refused" THEN k.wire ELSE Append(k.wire, f)
    <3>. HIDE DEF f
    <3>. QED
      BY <1>1, <2>9, <2>10, ConcatEmptySeq, AppendIsConcat
  <2>12. k.wire \o frames \in Seq(Frames)
    <3>. HIDE DEF f, frames
    <3>1. Append(k.wire, f) \in Seq(Frames)
      BY <1>1, <2>9, AppendProperties
    <3>. QED
      BY <1>1, <2>11, <3>1
  <2>. DEFINE wire == k.wire \o frames
  <2>. HIDE DEF f, frames, wire
  <2>13. /\ after.control = k.control /\ after.messages = r /\ after.tcp = t
         /\ after.wire = wire /\ after.mishaps = k.mishaps \cup Mishap("message", outcome)
    BY <1>1, <2>1 DEF Objects, wire
  <2>14. /\ after.mishaps \in SUBSET Mishaps
         /\ OnlyRefused(after) => OnlyRefused(k) /\ outcome \in {"sent", "refused"}
         /\ Unharmed(after) => Unharmed(k) /\ outcome = "sent"
    BY <1>1, <2>13, MishapKept
  <2>15. after \in Objects
    BY <1>1, <2>1, <2>7, <2>8, <2>12, <2>13, <2>14 DEF Objects, wire
  <2>16. WireOK(after, last)
    <3>. SUFFICES ASSUME OnlyRefused(after) PROVE InOrder(wire) /\ Continues(r, wire, last)
      BY <2>13 DEF WireOK
    <3>1. InOrder(k.wire) /\ Continues(s, k.wire, last)
      BY <1>1, <2>14 DEF WireOK
    <3>2. CASE outcome = "refused"
      <4>1. wire = k.wire
        BY <2>11, <3>2 DEF wire
      <4>2. taken = 0
        BY <3>2 DEF taken
      <4>3. x.sent = m.sent
        BY <1>2, <2>5, <4>2
      <4>. QED
        BY <2>5, <2>7, <3>1, <4>1, <4>3, ContinuesSame
    <3>3. CASE outcome = "sent"
      <4>1. wire = Append(k.wire, f)
        BY <2>11, <3>3 DEF wire
      <4>2. /\ f.id = m.id /\ f.len = m.len /\ f.from = m.sent /\ f.bytes = n
            /\ f.isFirst <=> f.from = 0
            /\ f.final <=> f.from + f.bytes = f.len
        BY <3>3 DEF f
      <4>3. x.sent = m.sent + n
        BY <2>5, <3>3 DEF taken
      <4>4. s # <<>>
        OBVIOUS
      <4>. HIDE DEF s, m
      <4>5. InOrder(wire) /\ Continues(r, wire, last)
        BY <1>1, <1>2, <1>4, <2>5, <2>7, <2>9, <3>1, <4>1, <4>2, <4>3, <4>4, WireExtended DEF m
      <4>. QED
        BY <4>5
    <3>. QED
      BY <2>14, <3>2, <3>3
  <2>17. FlightOK(after)
    <3>. SUFFICES ASSUME Unharmed(after)
                  PROVE  /\ t.unsent = 0 /\ t.acked = 0 /\ t.inflight = t.unacked
                         /\ t.busy /\ ~ ForControl(after)
                         /\ r[1].ack - r[1].acked = t.unacked
      BY <2>7, <2>13 DEF FlightOK
    <3>1. /\ k.tcp.unsent = 0 /\ k.tcp.acked = 0 /\ k.tcp.inflight = 0 /\ k.tcp.unacked = 0
          /\ outcome = "sent"
      BY <1>1, <2>14 DEF FlightOK
    <3>2. ~ ForControl(after)
      BY <2>13, <2>14 DEF ForControl
    <3>3. t.unsent = 0 /\ t.acked = 0 /\ t.busy /\ t.unacked = h + n /\ t.inflight = h + n
      BY <2>2, <2>3, <2>8, <3>1
    <3>4. taken = n
      BY <3>1 DEF taken
    <3>5. r[1].ack - r[1].acked = h + n
      BY <1>2, <2>2, <2>3, <2>5, <2>7, <3>4
    <3>. QED
      BY <3>2, <3>3, <3>5
  <2>. QED
    BY <2>7, <2>13, <2>15, <2>16, <2>17 DEF ObjectOK
<1>. QED
  BY <1>3, <1>4

\* A queue has its own messages.
LEMMA FromItself == ASSUME NEW s PROVE From(s, s)
BY DEF From

\* What is left of what is left.
LEMMA FromFrom ==
    ASSUME NEW s, NEW r, NEW q, From(s, r), From(r, q)
    PROVE  From(s, q)
<1>. SUFFICES ASSUME NEW i \in DOMAIN q
              PROVE  \E j \in DOMAIN s : q[i].id = s[j].id /\ q[i].shared = s[j].shared
  BY DEF From
<1>1. PICK l \in DOMAIN r : q[i].id = r[l].id /\ q[i].shared = r[l].shared
  BY DEF From
<1>2. PICK j \in DOMAIN s : r[l].id = s[j].id /\ r[l].shared = s[j].shared
  BY DEF From
<1>. QED
  BY <1>1, <1>2

\* While all that was sent is acknowledged there is room for any control frame, and
\* none is passed over for a message.
LEMMA ControlFirst ==
    ASSUME NEW last \in Nat, NEW k, ObjectOK(k, last), ~ k.tcp.busy, Unharmed(k),
           Window(k.tcp) > 0
    PROVE  Window(k.tcp) > ControlLength - 1
<1>1. k.tcp.inflight = 0
  BY DEF ObjectOK, FlightOK
<1>2. Window(k.tcp) = SndBuf - 8
  BY <1>1, Sizes DEF Window
<1>. QED
  BY <1>2, Sizes DEF ControlLength

\* _runQueue() keeps the invariant, on a client that is not busy.
LEMMA RunQueueOK ==
    ASSUME NEW last \in Nat, NEW k, ObjectOK(k, last), ~ k.tcp.busy, NEW after \in RunQueue(k)
    PROVE  ObjectOK(after, last) /\ From(k.messages, after.messages)
<1>. DEFINE u == Unfinished(k)
<1>1. ObjectOK(u, last) /\ ~ u.tcp.busy /\ From(k.messages, u.messages)
  BY UnfinishedOK
<1>2. after \in SendNext(u)
  BY DEF RunQueue
<1>. HIDE DEF u
<1>3. CASE u.control # <<>> /\ IsBetween(u) /\ Window(u.tcp) > ControlLength - 1
  <2>1. PICK outcome \in Outcomes : after = SendControl(u, outcome)
    BY <1>2, <1>3 DEF SendNext
  <2>2. outcome \in Ends
    BY OutcomesAreEnds
  <2>3. ObjectOK(after, last) /\ after.messages = u.messages
    BY <1>1, <1>3, <2>1, <2>2, SendControlOK
  <2>. QED
    BY <1>1, <2>3
<1>4. CASE /\ ~ (u.control # <<>> /\ IsBetween(u) /\ Window(u.tcp) > ControlLength - 1)
           /\ u.messages # <<>> /\ IsBetween(u) /\ Window(u.tcp) > 0
  <2>1. PICK outcome \in Outcomes : after = SendMessage(u, outcome)
    BY <1>2, <1>4 DEF SendNext
  <2>2. outcome \in Ends
    BY OutcomesAreEnds
  <2>3. Unharmed(u) => ~ ForControl(u)
    BY <1>1, <1>4, ControlFirst DEF ForControl
  <2>4. ObjectOK(after, last) /\ From(u.messages, after.messages)
    BY <1>1, <1>4, <2>1, <2>2, <2>3, SendMessageOK
  <2>. QED
    BY <1>1, <2>4, FromFrom
<1>5. CASE /\ ~ (u.control # <<>> /\ IsBetween(u) /\ Window(u.tcp) > ControlLength - 1)
           /\ ~ (u.messages # <<>> /\ IsBetween(u) /\ Window(u.tcp) > 0)
  <2>1. after = u
    BY <1>2, <1>5 DEF SendNext
  <2>. QED
    BY <1>1, <2>1
<1>. QED
  BY <1>3, <1>4, <1>5

\* It is called when the client can send.
LEMMA RunIfCanSendOK ==
    ASSUME NEW last \in Nat, NEW k, ObjectOK(k, last), NEW after \in RunIfCanSend(k)
    PROVE  ObjectOK(after, last) /\ From(k.messages, after.messages)
<1>1. CASE CanSend(k.tcp)
  <2>1. ~ k.tcp.busy /\ after \in RunQueue(k)
    BY <1>1 DEF CanSend, RunIfCanSend
  <2>. QED
    BY <2>1, RunQueueOK
<1>2. CASE ~ CanSend(k.tcp)
  BY <1>2, FromItself DEF RunIfCanSend
<1>. QED
  BY <1>1, <1>2

-----------------------------------------------------------------------------
(* The calls of the application and the callbacks of the connection. *)

\* _queueControl() keeps the invariant.
LEMMA QueueControlOK ==
    ASSUME NEW last \in Nat, NEW k, ObjectOK(k, last), NEW isClose \in BOOLEAN,
           NEW after \in QueueControl(k, isClose)
    PROVE  ObjectOK(after, last) /\ From(k.messages, after.messages)
<1>. DEFINE q == Append(k.control, Control(isClose))
            more == [k EXCEPT !.control = q]
<1>1. /\ k \in Objects /\ k.control \in Seq(Controls)
      /\ QueueOK(k.messages, last) /\ WireOK(k, last) /\ FlightOK(k)
  BY ObjectFields DEF ObjectOK
<1>2. Control(isClose) \in Controls /\ ~ Control(isClose).finished
  BY DEF Control, Controls
<1>3. /\ q \in Seq(Controls) /\ q # <<>> /\ Len(q) = Len(k.control) + 1 /\ Len(k.control) \in Nat
      /\ q[Len(q)] = Control(isClose) /\ \A i \in DOMAIN k.control : q[i] = k.control[i]
  BY <1>1, <1>2, Appended
<1>4. q[1].finished => ForControl(k)
  <2>1. CASE k.control = <<>>
    <3>1. Len(k.control) = 0
      BY <2>1
    <3>2. q[1] = Control(isClose)
      BY <1>3, <3>1
    <3>. QED
      BY <1>2, <3>2
  <2>2. CASE k.control # <<>>
    BY <1>1, <1>3, <2>2, FirstIsHead DEF ForControl
  <2>. QED
    BY <2>1, <2>2
<1>5. ForControl(k) => q[1].finished
  BY <1>1, <1>3, FirstIsHead DEF ForControl
<1>6. after \in RunIfCanSend(more)
  BY DEF QueueControl
<1>. HIDE DEF q
<1>7. /\ more \in Objects /\ more.control = q /\ more.messages = k.messages
      /\ more.tcp = k.tcp /\ more.wire = k.wire /\ more.mishaps = k.mishaps
  BY <1>1, <1>3 DEF Objects
<1>. HIDE DEF more
<1>8. WireOK(more, last)
  BY <1>1, <1>7 DEF WireOK, OnlyRefused
<1>9. FlightOK(more)
  <2>1. (Unharmed(more) <=> Unharmed(k)) /\ (IsBetween(more) <=> IsBetween(k))
    BY <1>7 DEF Unharmed, IsBetween
  <2>2. ForControl(more) <=> ForControl(k)
    BY <1>3, <1>4, <1>5, <1>7 DEF ForControl
  <2>. QED
    BY <1>1, <1>7, <2>1, <2>2 DEF FlightOK
<1>10. ObjectOK(more, last)
  BY <1>1, <1>7, <1>8, <1>9 DEF ObjectOK
<1>. QED
  BY <1>6, <1>7, <1>10, RunIfCanSendOK

\* The number of the last message only grows.
LEMMA LaterOK ==
    ASSUME NEW last \in Nat, NEW k, ObjectOK(k, last)
    PROVE  ObjectOK(k, last + 1)
<1>1. /\ k \in Objects /\ k.messages \in Seq(Messages) /\ k.wire \in Seq(Frames)
      /\ QueueOK(k.messages, last) /\ WireOK(k, last) /\ FlightOK(k)
  BY ObjectFields DEF ObjectOK
<1>2. QueueOK(k.messages, last + 1)
  <2>1. \A i \in DOMAIN k.messages : k.messages[i].id \in Nat
    BY <1>1, LenProperties, ElementOfSeq, MessageFields
  <2>2. \A i \in DOMAIN k.messages : k.messages[i].id <= last + 1 /\ k.messages[i].sent <= k.messages[i].len
    BY <1>1, <2>1 DEF QueueOK
  <2>. QED
    BY <1>1, <2>2 DEF QueueOK
<1>3. ASSUME Continues(k.messages, k.wire, last)
      PROVE  Continues(k.messages, k.wire, last + 1)
  <2>1. CASE k.wire = <<>>
    BY <1>3, <2>1 DEF Continues
  <2>2. CASE k.wire # <<>>
    <3>1. k.wire[Len(k.wire)].id \in Nat
      BY <1>1, <2>2, FirstIsHead, ElementOfSeq, LenProperties, FrameFields
    <3>2. k.wire[Len(k.wire)].id <= last + 1
      BY <1>3, <2>2, <3>1 DEF Continues
    <3>. QED
      BY <1>3, <2>2, <3>2 DEF Continues
  <2>. QED
    BY <2>1, <2>2
<1>4. WireOK(k, last + 1)
  BY <1>1, <1>3 DEF WireOK
<1>. QED
  BY <1>1, <1>2, <1>4 DEF ObjectOK

\* _queueMessage() keeps the invariant, and the queue has only one new message.
LEMMA QueueMessageOK ==
    ASSUME NEW last \in Nat, NEW k, ObjectOK(k, last),
           NEW m \in Messages, m.id = last + 1, m.sent = 0, m.ack = 0, m.acked = 0, ~ Finished(m),
           NEW after \in QueueMessage(k, m)
    PROVE  /\ ObjectOK(after, last + 1)
           /\ \A i \in DOMAIN after.messages :
                 \/ after.messages[i].id = m.id /\ after.messages[i].shared = m.shared
                 \/ \E j \in DOMAIN k.messages :
                       /\ after.messages[i].id = k.messages[j].id
                       /\ after.messages[i].shared = k.messages[j].shared
<1>. DEFINE s == k.messages
            r == Append(s, m)
<1>1. /\ k \in Objects /\ s \in Seq(Messages) /\ k.wire \in Seq(Frames)
      /\ QueueOK(s, last) /\ WireOK(k, last) /\ FlightOK(k)
  BY ObjectFields DEF ObjectOK
<1>2. CASE Len(s) >= MaxQueued
  <2>1. [k EXCEPT !.messages = s] = k
    BY <1>1 DEF Objects
  <2>2. after \in RunIfCanSend(k)
    BY <1>2, <2>1 DEF QueueMessage
  <2>3. ObjectOK(k, last + 1) /\ last + 1 \in Nat
    BY LaterOK
  <2>4. ObjectOK(after, last + 1) /\ From(s, after.messages)
    BY <2>2, <2>3, RunIfCanSendOK
  <2>. QED
    BY <2>4 DEF From
<1>3. CASE ~ (Len(s) >= MaxQueued)
  <2>. DEFINE more == [k EXCEPT !.messages = r]
  <2>1. after \in RunIfCanSend(more)
    BY <1>3 DEF QueueMessage
  <2>2. /\ r \in Seq(Messages) /\ r # <<>> /\ Len(r) = Len(s) + 1 /\ Len(s) \in Nat
        /\ DOMAIN s = 1 .. Len(s) /\ DOMAIN r = 1 .. Len(r)
        /\ r[Len(r)] = m /\ \A i \in DOMAIN s : r[i] = s[i]
    <3>1. s \in Seq(Messages) /\ m \in Messages /\ r = Append(s, m)
      BY <1>1
    <3>. HIDE DEF s, r
    <3>. QED
      BY <3>1, Appended
  <2>. HIDE DEF r
  <2>3. /\ more \in Objects /\ more.control = k.control /\ more.messages = r
        /\ more.tcp = k.tcp /\ more.wire = k.wire /\ more.mishaps = k.mishaps
    BY <1>1, <2>2 DEF Objects
  <2>. HIDE DEF more
  <2>4. /\ \A i \in DOMAIN s : s[i].id \in Nat /\ s[i].id <= last /\ s[i].sent <= s[i].len
        /\ \A i \in DOMAIN r : i \notin DOMAIN s => i = Len(r) /\ r[i] = m
        /\ m.id \in Nat /\ m.len \in Nat
    <3>1. \A i \in DOMAIN s : s[i].id \in Nat
      BY <1>1, LenProperties, ElementOfSeq, MessageFields
    <3>2. \A i \in DOMAIN s : s[i].id <= last /\ s[i].sent <= s[i].len
      BY <1>1 DEF QueueOK
    <3>3. \A i \in DOMAIN r : i \notin DOMAIN s => i = Len(r) /\ r[i] = m
      BY <2>2
    <3>. QED
      BY <3>1, <3>2, <3>3, MessageFields
  <2>5. QueueOK(r, last + 1)
    <3>1. \A i \in DOMAIN r : r[i].id <= last + 1 /\ r[i].sent <= r[i].len
      <4>. SUFFICES ASSUME NEW i \in DOMAIN r PROVE r[i].id <= last + 1 /\ r[i].sent <= r[i].len
        OBVIOUS
      <4>1. CASE i \in DOMAIN s
        <5>1. r[i] = s[i] /\ s[i].id \in Nat /\ s[i].id <= last /\ s[i].sent <= s[i].len
          BY <2>2, <2>4, <4>1
        <5>. QED
          BY <5>1
      <4>2. CASE i \notin DOMAIN s
        BY <2>4, <4>2
      <4>. QED
        BY <4>1, <4>2
    <3>2. \A i, j \in DOMAIN r : i < j => r[i].id < r[j].id
      <4>. SUFFICES ASSUME NEW i \in DOMAIN r, NEW j \in DOMAIN r, i < j PROVE r[i].id < r[j].id
        OBVIOUS
      <4>1. i \in DOMAIN s
        BY <2>2
      <4>2. CASE j \in DOMAIN s
        BY <1>1, <2>2, <4>1, <4>2 DEF QueueOK
      <4>3. CASE j \notin DOMAIN s
        <5>1. r[j].id = last + 1 /\ r[i].id \in Nat /\ r[i].id <= last
          BY <2>2, <2>4, <4>1, <4>3
        <5>. QED
          BY <5>1
      <4>. QED
        BY <4>2, <4>3
    <3>3. \A i \in DOMAIN r : Finished(r[i]) => r[i].sent = r[i].len
      BY <1>1, <2>2, <2>4 DEF QueueOK
    <3>4. \A i \in DOMAIN r : i # 1 => ~ Finished(r[i]) /\ r[i].sent = 0 /\ r[i].ack = 0 /\ r[i].acked = 0
      BY <1>1, <2>2, <2>4 DEF QueueOK
    <3>. QED
      BY <3>1, <3>2, <3>3, <3>4 DEF QueueOK
  <2>6. s # <<>> => r[1] = s[1]
    BY <1>1, <2>2, FirstIsHead
  <2>7. s = <<>> => r[1] = m
    <3>1. s = <<>> => Len(s) = 0
      OBVIOUS
    <3>. QED
      BY <2>2, <3>1
  <2>8. WireOK(more, last + 1)
    <3>. SUFFICES ASSUME OnlyRefused(more)
                  PROVE  InOrder(k.wire) /\ Continues(r, k.wire, last + 1)
      BY <2>3 DEF WireOK
    <3>1. InOrder(k.wire) /\ Continues(s, k.wire, last)
      BY <1>1, <2>3 DEF WireOK, OnlyRefused
    <3>2. CASE k.wire = <<>>
      BY <2>6, <2>7, <3>1, <3>2 DEF Continues
    <3>3. CASE k.wire # <<>>
      <4>. DEFINE e == k.wire[Len(k.wire)]
      <4>1. e.id \in Nat
        BY <1>1, <3>3, FirstIsHead, ElementOfSeq, LenProperties, FrameFields
      <4>2. /\ e.id <= last
            /\ IF e.final
               THEN s # <<>> => IF s[1].id = e.id THEN s[1].sent = s[1].len
                                ELSE s[1].id > e.id /\ s[1].sent = 0
               ELSE /\ s # <<>> /\ s[1].id = e.id /\ s[1].len = e.len
                    /\ s[1].sent = e.from + e.bytes
        BY <3>1, <3>3 DEF Continues
      <4>. HIDE DEF e, s
      <4>3. m.id > e.id /\ m.id # e.id /\ e.id <= last + 1
        BY <4>1, <4>2
      <4>4. /\ e.id <= last + 1
            /\ IF e.final
               THEN r # <<>> => IF r[1].id = e.id THEN r[1].sent = r[1].len
                                ELSE r[1].id > e.id /\ r[1].sent = 0
               ELSE /\ r # <<>> /\ r[1].id = e.id /\ r[1].len = e.len
                    /\ r[1].sent = e.from + e.bytes
        BY <2>2, <2>6, <2>7, <4>2, <4>3
      <4>. QED
        BY <3>1, <3>3, <4>4 DEF Continues, e
    <3>. QED
      BY <3>2, <3>3
  <2>9. FlightOK(more)
    <3>. SUFFICES ASSUME Unharmed(more), Unharmed(k)
                  PROVE  /\ k.tcp.unsent = 0 /\ k.tcp.acked = 0 /\ k.tcp.inflight = k.tcp.unacked
                         /\ ~ k.tcp.busy => k.tcp.unacked = 0 /\ IsBetween(more)
                         /\ k.tcp.busy => IF ForControl(k) THEN k.tcp.unacked = ControlLength /\ IsBetween(more)
                                          ELSE r[1].ack - r[1].acked = k.tcp.unacked
      BY <2>2, <2>3 DEF FlightOK, ForControl, Unharmed
    <3>1. IsBetween(k) => IsBetween(more)
      <4>1. Head(r) = r[1] /\ (s # <<>> => Head(s) = s[1])
        BY <1>1, <2>2, FirstIsHead
      <4>. QED
        BY <2>3, <2>6, <2>7, <4>1 DEF IsBetween, BetweenFrames
    <3>. QED
      BY <1>1, <2>6, <3>1 DEF FlightOK
  <2>10. ObjectOK(more, last + 1) /\ last + 1 \in Nat
    BY <2>3, <2>5, <2>8, <2>9 DEF ObjectOK
  <2>11. ObjectOK(after, last + 1) /\ From(r, after.messages)
    BY <2>1, <2>3, <2>10, RunIfCanSendOK
  <2>12. ASSUME NEW i \in DOMAIN after.messages
         PROVE  \/ after.messages[i].id = m.id /\ after.messages[i].shared = m.shared
                \/ \E j \in DOMAIN s :
                      /\ after.messages[i].id = s[j].id
                      /\ after.messages[i].shared = s[j].shared
    <3>1. PICK j \in DOMAIN r : /\ after.messages[i].id = r[j].id
                                /\ after.messages[i].shared = r[j].shared
      BY <2>11 DEF From
    <3>. QED
      BY <2>2, <2>4, <3>1
  <2>. QED
    BY <2>11, <2>12
<1>. QED
  BY <1>2, <1>3

\* An acknowledgement of all that is in flight, in the counters.
LEMMA CountedIs ==
    ASSUME NEW tcp \in Tcps, NEW counted, counted = Counted(tcp, tcp.inflight)
    PROVE  /\ counted \in Tcps /\ counted.unacked = tcp.unacked - tcp.inflight
           /\ counted.acked = tcp.acked + tcp.inflight
           /\ counted.unsent = tcp.unsent /\ counted.inflight = 0
<1>1. /\ tcp.busy \in BOOLEAN /\ tcp.unacked \in Int /\ tcp.unsent \in Int
      /\ tcp.acked \in Int /\ tcp.inflight \in Int
  BY TcpFields
<1>2. counted = [tcp EXCEPT !.inflight = @ - tcp.inflight, !.unacked = @ - tcp.inflight,
                            !.acked = @ + tcp.inflight]
  BY DEF Counted
<1>. DEFINE u == tcp.unacked - tcp.inflight
            a == tcp.acked + tcp.inflight
<1>3. tcp.inflight - tcp.inflight = 0 /\ u \in Int /\ a \in Int
  BY <1>1
<1>4. counted = [tcp EXCEPT !.inflight = 0, !.unacked = u, !.acked = a]
  BY <1>2, <1>3
<1>. HIDE DEF u, a
<1>5. counted = [busy |-> tcp.busy, unacked |-> u, unsent |-> tcp.unsent, acked |-> a,
                 inflight |-> 0]
  BY <1>4 DEF Tcps
<1>6. /\ counted \in Tcps /\ counted.unacked = u /\ counted.acked = a
      /\ counted.unsent = tcp.unsent /\ counted.inflight = 0
  BY <1>1, <1>3, <1>5 DEF Tcps
<1>. QED
  BY <1>6 DEF u, a

\* The connection after everything was acknowledged, by its fields.
LEMMA AllAckedIs ==
    ASSUME NEW counted \in Tcps, NEW tcp, tcp = [counted EXCEPT !.busy = FALSE, !.acked = 0]
    PROVE  tcp = [busy |-> FALSE, unacked |-> counted.unacked, unsent |-> counted.unsent,
                  acked |-> 0, inflight |-> counted.inflight]
BY DEF Tcps

\* It is idle then.
LEMMA AllAcked ==
    ASSUME NEW counted \in Tcps, NEW tcp,
           tcp = [busy |-> FALSE, unacked |-> counted.unacked, unsent |-> counted.unsent,
                  acked |-> 0, inflight |-> counted.inflight]
    PROVE  /\ tcp \in Tcps /\ ~ tcp.busy /\ tcp.acked = 0
           /\ tcp.unacked = counted.unacked /\ tcp.unsent = counted.unsent
           /\ tcp.inflight = counted.inflight
BY DEF Tcps

\* An acknowledgement is for the first message, and does not finish it early.
AckQueue(s, len) == IF len = 0 \/ s = <<>> THEN s ELSE <<AckMessage(Head(s), len)>> \o Tail(s)

\* ack() of the first message changes nothing but its count.
LEMMA QueueAcked ==
    ASSUME NEW last \in Nat, NEW s \in Seq(Messages), QueueOK(s, last), NEW len \in Int,
           NEW r, r = AckQueue(s, len)
    PROVE  /\ r \in Seq(Messages) /\ QueueOK(r, last) /\ From(s, r) /\ (r = <<>> <=> s = <<>>)
           /\ s # <<>> => /\ r[1].id = s[1].id /\ r[1].len = s[1].len /\ r[1].sent = s[1].sent
                          /\ r[1].ack = s[1].ack
                          /\ r[1].acked = s[1].acked + len
                          /\ s[1].ack \in Nat /\ s[1].acked \in Int
                          /\ Head(r) = r[1] /\ Head(s) = s[1]
<1>1. CASE s = <<>>
  BY <1>1, FromItself DEF AckQueue
<1>2. CASE s # <<>> /\ len = 0
  <2>1. r = s /\ s[1] \in Messages /\ Head(s) = s[1]
    BY <1>2, FirstIsHead DEF AckQueue
  <2>2. s[1].ack \in Nat /\ s[1].acked \in Int
    BY <2>1, MessageFields
  <2>3. s[1].acked = s[1].acked + len
    BY <1>2, <2>2
  <2>. QED
    BY <1>2, <2>1, <2>2, <2>3, FromItself
<1>3. CASE s # <<>> /\ len # 0
  <2>. DEFINE m == s[1]
              x == AckMessage(m, len)
  <2>1. Head(s) = m /\ m \in Messages /\ 1 \in DOMAIN s
    BY <1>3, FirstIsHead
  <2>2. r = <<x>> \o Tail(s)
    BY <1>3, <2>1 DEF AckQueue
  <2>3. /\ m.sent \in Nat /\ m.len \in Nat /\ m.ack \in Nat /\ m.acked \in Int
        /\ m.sent <= m.len /\ (Finished(m) => m.sent = m.len)
        /\ m.acked + len \in Int
    BY <2>1, MessageFields DEF QueueOK
  <2>4. /\ x \in Messages /\ x.id = m.id /\ x.shared = m.shared /\ x.len = m.len
        /\ x.sent = m.sent /\ x.ack = m.ack /\ x.acked = m.acked + len
        /\ x.status = "SENT" => m.status = "SENT" \/ m.sent >= m.len
    BY <2>1, <2>3 DEF AckMessage, Messages
  <2>5. x.status \in {"SENDING", "SENT"} /\ m.status \in {"SENDING", "SENT"}
    BY <2>1, <2>4, MessageFields
  <2>. HIDE DEF m, x
  <2>6. Finished(x) => x.sent = x.len
    BY <2>3, <2>4, <2>5 DEF Finished
  <2>7. x.id = s[1].id /\ x.shared = s[1].shared /\ x.len = s[1].len /\ x.sent <= x.len
    BY <2>3, <2>4 DEF m
  <2>8. /\ r \in Seq(Messages) /\ r # <<>> /\ r[1] = x /\ Head(r) = x
        /\ QueueOK(r, last) /\ From(s, r)
    <3>1. x \in Messages /\ s # <<>>
      BY <1>3, <2>4
    <3>. QED
      BY <2>2, <2>6, <2>7, <3>1, FirstChanged
  <2>. QED
    BY <1>3, <2>1, <2>3, <2>4, <2>8 DEF m
<1>. QED
  BY <1>1, <1>2, <1>3

\* Before the last acknowledgement of what is counted the queues are as FlightOK has
\* them; after it nothing is in flight.
LEMMA AcknowledgedOK ==
    ASSUME NEW last \in Nat, NEW k, ObjectOK(k, last), k.tcp.inflight > 0,
           k.tcp.unacked = k.tcp.inflight,
           NEW tcp \in Tcps, ~ tcp.busy, tcp.acked = 0, tcp.unacked = 0, tcp.inflight = 0,
           tcp.unsent = k.tcp.unsent,
           NEW n \in Int, n = k.tcp.acked + k.tcp.inflight,
           NEW after, after = Acknowledged([k EXCEPT !.tcp = tcp], n)
    PROVE  ObjectOK(after, last) /\ ~ after.tcp.busy /\ From(k.messages, after.messages)
<1>. DEFINE s == k.messages
            len == IF ForControl(k) THEN n - ControlLength ELSE n
            q == IF ForControl(k) THEN Tail(k.control) ELSE k.control
            r == AckQueue(s, len)
<1>1. /\ k \in Objects /\ k.control \in Seq(Controls) /\ k.tcp \in Tcps
      /\ s \in Seq(Messages) /\ k.wire \in Seq(Frames)
      /\ QueueOK(s, last) /\ WireOK(k, last) /\ FlightOK(k)
  BY ObjectFields DEF ObjectOK
<1>2. ControlLength \in Nat
  BY Sizes DEF ControlLength
<1>3. len \in Int
  BY <1>2
<1>4. after = [k EXCEPT !.tcp = tcp, !.control = q, !.messages = r]
  <2>. DEFINE l == [k EXCEPT !.tcp = tcp]
  <2>1. l.control = k.control /\ l.messages = s
    BY <1>1 DEF Objects
  <2>2. (l.control # <<>> /\ Head(l.control).finished) <=> ForControl(k)
    BY <1>1, <2>1, FirstIsHead DEF ForControl
  <2>. HIDE DEF l
  <2>3. after = [l EXCEPT !.control = q, !.messages = r]
    BY <2>1, <2>2 DEF Acknowledged, AckQueue, l
  <2>. QED
    BY <2>3 DEF l
<1>. HIDE DEF len
<1>5. q \in Seq(Controls)
  BY <1>1, HeadTailProperties DEF ForControl
<1>6. /\ r \in Seq(Messages) /\ QueueOK(r, last) /\ From(s, r) /\ (r = <<>> <=> s = <<>>)
      /\ s # <<>> => /\ r[1].id = s[1].id /\ r[1].len = s[1].len /\ r[1].sent = s[1].sent
                     /\ r[1].ack = s[1].ack
                     /\ r[1].acked = s[1].acked + len
                     /\ s[1].ack \in Nat /\ s[1].acked \in Int
                     /\ Head(r) = r[1] /\ Head(s) = s[1]
  <2>1. s \in Seq(Messages) /\ QueueOK(s, last)
    BY <1>1
  <2>. HIDE DEF s
  <2>. QED
    BY <1>3, <2>1, QueueAcked
<1>. HIDE DEF q, r
<1>8. /\ after.control = q /\ after.messages = r /\ after.tcp = tcp
      /\ after.wire = k.wire /\ after.mishaps = k.mishaps /\ after \in Objects
  BY <1>1, <1>4, <1>5, <1>6 DEF Objects
<1>9. WireOK(after, last)
  <2>1. OnlyRefused(after) <=> OnlyRefused(k)
    BY <1>8 DEF OnlyRefused
  <2>2. Continues(s, k.wire, last) => Continues(r, k.wire, last)
    <3>1. CASE s = <<>>
      BY <1>6, <3>1 DEF Continues
    <3>2. CASE s # <<>>
      BY <1>6, <3>2, ContinuesSame
    <3>. QED
      BY <3>1, <3>2
  <2>. QED
    BY <1>1, <1>8, <2>1, <2>2 DEF WireOK
<1>10. FlightOK(after)
  <2>. SUFFICES ASSUME Unharmed(k)
                PROVE  tcp.unsent = 0 /\ (r = <<>> \/ r[1].acked = r[1].ack)
    <3>1. Unharmed(after) <=> Unharmed(k)
      BY <1>8 DEF Unharmed
    <3>2. (r = <<>> \/ r[1].acked = r[1].ack) => IsBetween(after)
      BY <1>6, <1>8 DEF IsBetween, BetweenFrames
    <3>. QED
      BY <1>8, <3>1, <3>2 DEF FlightOK
  <2>1. /\ k.tcp.unsent = 0 /\ k.tcp.acked = 0 /\ k.tcp.inflight = k.tcp.unacked
        /\ k.tcp.inflight \in Int /\ k.tcp.busy
    BY <1>1, TcpFields DEF FlightOK
  <2>2. tcp.unsent = 0 /\ n = k.tcp.unacked
    BY <2>1
  <2>3. CASE ForControl(k)
    <3>1. len = 0 /\ IsBetween(k)
      BY <1>1, <1>2, <2>1, <2>2, <2>3 DEF FlightOK, len
    <3>. QED
      BY <1>6, <2>2, <3>1 DEF IsBetween, BetweenFrames
  <2>4. CASE ~ ForControl(k)
    <3>1. len = k.tcp.unacked /\ s # <<>> /\ s[1].ack - s[1].acked = k.tcp.unacked
      BY <1>1, <2>1, <2>2, <2>4 DEF FlightOK, len
    <3>. QED
      BY <1>3, <1>6, <2>2, <3>1
  <2>. QED
    BY <2>3, <2>4
<1>. QED
  BY <1>6, <1>8, <1>9, <1>10 DEF ObjectOK

-----------------------------------------------------------------------------
(* The buffers. *)

\* The buffers of the shared messages of one client are there.
Kept(k, bufs) == \A i \in DOMAIN k.messages : k.messages[i].shared => k.messages[i].id \in bufs

\* A client that has none but old messages needs no other buffers.
LEMMA KeptFrom ==
    ASSUME NEW k, NEW after, NEW bufs, Kept(k, bufs), From(k.messages, after.messages)
    PROVE  Kept(after, bufs)
<1>. SUFFICES ASSUME NEW i \in DOMAIN after.messages, after.messages[i].shared
              PROVE  after.messages[i].id \in bufs
  BY DEF Kept
<1>1. PICK j \in DOMAIN k.messages : /\ after.messages[i].id = k.messages[j].id
                                     /\ after.messages[i].shared = k.messages[j].shared
  BY DEF From
<1>. QED
  BY <1>1 DEF Kept

\* _cleanBuffers() leaves the buffers in use, whichever of the others it finds.
LEMMA CleanedKeeps ==
    ASSUME NEW w, NEW bufs, NEW left \in Cleaned(bufs, w), NEW c \in Clients, Kept(w[c], bufs)
    PROVE  Kept(w[c], left)
<1>. SUFFICES ASSUME NEW i \in DOMAIN w[c].messages, w[c].messages[i].shared
              PROVE  w[c].messages[i].id \in left
  BY DEF Kept
<1>. DEFINE b == w[c].messages[i].id
<1>1. b \in bufs
  BY DEF Kept
<1>2. InUse(w, b)
  BY DEF InUse
<1>. HIDE DEF b
<1>3. CASE left = bufs \ {x \in bufs : ~ InUse(w, x)}
  BY <1>1, <1>2, <1>3 DEF b
<1>4. CASE \E x \in bufs : ~ InUse(w, x) /\ left = bufs \ {x}
  BY <1>1, <1>2, <1>4 DEF b
<1>. QED
  BY <1>3, <1>4 DEF Cleaned

\* BuffersInUseAreKept, client by client.
LEMMA KeptAll == BuffersInUseAreKept <=> \A c \in Clients : Kept(ws[c], buffers)
BY DEF BuffersInUseAreKept, Kept

-----------------------------------------------------------------------------
(* The invariant. *)

\* A client that has just been made.
LEMMA NewClientOK ==
    ASSUME NEW status \in Statuses, NEW last \in Nat
    PROVE  ObjectOK(NewClient(status), last) /\ \A bufs : Kept(NewClient(status), bufs)
<1>. DEFINE k == NewClient(status)
<1>1. /\ k.control = <<>> /\ k.messages = <<>> /\ k.wire = <<>> /\ k.mishaps = {} /\ k.tcp = Idle
      /\ k.status = status
  BY DEF NewClient
<1>2. Idle \in Tcps /\ ~ Idle.busy /\ Idle.unacked = 0 /\ Idle.unsent = 0 /\ Idle.acked = 0 /\ Idle.inflight = 0
  BY DEF Idle, Tcps
<1>3. k \in Objects
  <2>1. <<>> \in Seq(Controls) /\ <<>> \in Seq(Messages) /\ <<>> \in Seq(Frames)
    BY EmptySeq
  <2>2. {} \in SUBSET Mishaps
    OBVIOUS
  <2>. QED
    BY <1>2, <2>1, <2>2 DEF NewClient, Objects
<1>. HIDE DEF k
<1>4. QueueOK(k.messages, last)
  BY <1>1 DEF QueueOK
<1>5. WireOK(k, last)
  BY <1>1 DEF WireOK, InOrder, Continues
<1>6. FlightOK(k)
  BY <1>1, <1>2 DEF FlightOK, IsBetween
<1>7. \A bufs : Kept(k, bufs)
  BY <1>1 DEF Kept
<1>. QED
  BY <1>3, <1>4, <1>5, <1>6, <1>7 DEF ObjectOK, k

\* One client changes.
LEMMA OneClient ==
    ASSUME WebSocketInv, NEW c, NEW k, ws' = [ws EXCEPT ![c] = k],
           events' \in {events, events + 1},
           c \in Clients => ObjectOK(k, events') /\ Kept(k, buffers'),
           \A other \in Clients : Kept(ws[other], buffers')
    PROVE  WebSocketInv'
<1>1. events' \in Nat
  BY DEF WebSocketInv
<1>2. \A other \in Clients : ObjectOK(ws[other], events')
  BY LaterOK DEF WebSocketInv
<1>3. ws \in [Clients -> Objects]
  BY DEF WebSocketInv
<1>4. \A other \in Clients : ws'[other] = IF other = c THEN k ELSE ws[other]
  BY <1>3
<1>5. \A other \in Clients : ObjectOK(ws'[other], events') /\ Kept(ws'[other], buffers')
  BY <1>2, <1>4
<1>6. ws' \in [Clients -> Objects]
  <2>1. c \in Clients => k \in Objects
    BY DEF ObjectOK
  <2>. QED
    BY <1>3, <2>1
<1>7. BuffersInUseAreKept'
  BY <1>5 DEF BuffersInUseAreKept, Kept
<1>. QED
  BY <1>1, <1>5, <1>6, <1>7 DEF WebSocketInv, ObjectOK, QueueOK, WireOK, FlightOK

\* There are no clients and no messages yet.
LEMMA WebSocketInitInv == WebSocketInit => WebSocketInv
<1>. SUFFICES ASSUME WebSocketInit PROVE WebSocketInv
  OBVIOUS
<1>1. \A c \in Clients : ObjectOK(ws[c], 0) /\ Kept(ws[c], buffers)
  BY NewClientOK DEF WebSocketInit, Statuses
<1>2. ws \in [Clients -> Objects]
  BY <1>1 DEF WebSocketInit, ObjectOK
<1>. QED
  BY <1>1, <1>2, KeptAll DEF WebSocketInit, WebSocketInv

\* What an invariant of all clients says of one.
LEMMA OfOne ==
    ASSUME WebSocketInv, NEW c \in Clients
    PROVE  ObjectOK(ws[c], events) /\ Kept(ws[c], buffers) /\ events \in Nat
BY KeptAll DEF WebSocketInv

\* A client that is gone has no messages, and the others keep their buffers.
LEMMA LeaveInv ==
    ASSUME WebSocketInv, NEW c, Leave(c), events' \in {events, events + 1}
    PROVE  WebSocketInv'
<1>1. events' \in Nat
  BY DEF WebSocketInv
<1>2. ObjectOK(NewClient("GONE"), events') /\ Kept(NewClient("GONE"), buffers')
  BY <1>1, NewClientOK DEF Statuses
<1>3. \A other \in Clients : Kept(ws[other], buffers')
  BY OfOne DEF Leave
<1>4. ws' = [ws EXCEPT ![c] = NewClient("GONE")]
  BY DEF Leave
<1>. QED
  BY <1>2, <1>3, <1>4, OneClient

\* A ping or a close that is queued for a client.
LEMMA AskInv ==
    ASSUME WebSocketInv, NEW c, NEW isClose \in BOOLEAN, Ask(c, isClose),
           events' \in {events, events + 1}
    PROVE  WebSocketInv'
<1>1. PICK k \in QueueControl(ws[c], isClose) : ws' = [ws EXCEPT ![c] = k]
  BY DEF Ask
<1>2. buffers' = buffers
  BY DEF Ask
<1>3. ASSUME c \in Clients
      PROVE  ObjectOK(k, events') /\ Kept(k, buffers')
  <2>1. ObjectOK(ws[c], events) /\ Kept(ws[c], buffers) /\ events \in Nat
    BY <1>3, OfOne
  <2>2. ObjectOK(k, events) /\ Kept(k, buffers)
    BY <2>1, QueueControlOK, KeptFrom
  <2>. QED
    BY <1>2, <2>1, <2>2, LaterOK
<1>. QED
  BY <1>1, <1>2, <1>3, OfOne, OneClient

\* A message that is new.
LEMMA MessageIs ==
    ASSUME events \in Nat, NEW len \in Lengths, NEW shared \in BOOLEAN,
           NEW m, m = Message(len, shared)
    PROVE  /\ m \in Messages /\ m.id = events + 1 /\ m.shared = shared
           /\ m.sent = 0 /\ m.ack = 0 /\ m.acked = 0 /\ ~ Finished(m)
<1>1. len \in Nat
  BY WebSocketAssumption
<1>. QED
  BY <1>1 DEF Message, Messages, Finished

\* text() to one client.
LEMMA TextInv ==
    ASSUME WebSocketInv, NEW c \in Clients, NEW len \in Lengths, Text(c, len)
    PROVE  WebSocketInv'
<1>. DEFINE m == Message(len, FALSE)
<1>1. PICK k \in QueueMessage(ws[c], m) : ws' = [ws EXCEPT ![c] = k]
  BY DEF Text
<1>2. buffers' = buffers /\ events' = events + 1
  BY DEF Text, Event
<1>3. ObjectOK(ws[c], events) /\ Kept(ws[c], buffers) /\ events \in Nat
  BY OfOne
<1>4. /\ m \in Messages /\ m.id = events + 1 /\ m.shared = FALSE
      /\ m.sent = 0 /\ m.ack = 0 /\ m.acked = 0 /\ ~ Finished(m)
  BY <1>3, MessageIs
<1>. HIDE DEF m
<1>5. /\ ObjectOK(k, events + 1)
      /\ \A i \in DOMAIN k.messages :
            \/ k.messages[i].id = m.id /\ k.messages[i].shared = m.shared
            \/ \E j \in DOMAIN ws[c].messages :
                  /\ k.messages[i].id = ws[c].messages[j].id
                  /\ k.messages[i].shared = ws[c].messages[j].shared
  BY <1>3, <1>4, QueueMessageOK
<1>6. Kept(k, buffers)
  BY <1>3, <1>4, <1>5 DEF Kept
<1>. QED
  BY <1>1, <1>2, <1>5, <1>6, OfOne, OneClient

\* textAll() of one buffer to all clients.
LEMMA TextAllInv ==
    ASSUME WebSocketInv, NEW len \in Lengths, TextAll(len)
    PROVE  WebSocketInv'
<1>. DEFINE m == Message(len, TRUE)
            Result(c) == IF Connected(c) THEN QueueMessage(ws[c], m) ELSE {ws[c]}
            bufs == buffers \cup {events + 1}
<1>1. events' = events + 1 /\ events \in Nat
  BY DEF TextAll, Event, WebSocketInv
<1>2. ws' \in {w \in [Clients -> UNION {Result(c) : c \in Clients}] :
                   \A c \in Clients : w[c] \in Result(c)}
  BY DEF TextAll
<1>3. buffers' \in Cleaned(bufs, ws')
  BY DEF TextAll
<1>4. /\ m \in Messages /\ m.id = events + 1
      /\ m.sent = 0 /\ m.ack = 0 /\ m.acked = 0 /\ ~ Finished(m)
  BY <1>1, MessageIs
<1>5. ASSUME NEW c \in Clients
      PROVE  ObjectOK(ws'[c], events + 1) /\ Kept(ws'[c], bufs)
  <2>1. ObjectOK(ws[c], events) /\ Kept(ws[c], buffers)
    BY OfOne
  <2>2. ws'[c] \in Result(c)
    BY <1>2
  <2>. DEFINE k == ws[c]
              after == ws'[c]
  <2>3. CASE Connected(c)
    <3>1. after \in QueueMessage(k, m)
      BY <2>2, <2>3
    <3>. HIDE DEF m, k, after
    <3>2. /\ ObjectOK(after, events + 1)
          /\ \A i \in DOMAIN after.messages :
                \/ after.messages[i].id = m.id /\ after.messages[i].shared = m.shared
                \/ \E j \in DOMAIN k.messages :
                      /\ after.messages[i].id = k.messages[j].id
                      /\ after.messages[i].shared = k.messages[j].shared
      BY <1>1, <1>4, <2>1, <3>1, QueueMessageOK DEF k
    <3>3. Kept(after, bufs)
      BY <1>4, <2>1, <3>2 DEF Kept, k
    <3>. QED
      BY <3>2, <3>3 DEF after
  <2>4. CASE ~ Connected(c)
    <3>1. after = k
      BY <2>2, <2>4
    <3>2. ObjectOK(k, events + 1)
      BY <1>1, <2>1, LaterOK
    <3>3. Kept(k, bufs)
      BY <2>1 DEF Kept
    <3>. QED
      BY <3>1, <3>2, <3>3
  <2>. QED
    BY <2>3, <2>4
<1>6. \A c \in Clients : Kept(ws'[c], buffers')
  BY <1>3, <1>5, CleanedKeeps
<1>7. ws' \in [Clients -> Objects]
  BY <1>2, <1>5 DEF ObjectOK
<1>8. BuffersInUseAreKept'
  BY <1>6 DEF BuffersInUseAreKept, Kept
<1>. QED
  BY <1>1, <1>5, <1>7, <1>8 DEF WebSocketInv, ObjectOK, QueueOK, WireOK, FlightOK

\* _onPoll() runs the queue.
LEMMA PollInv ==
    ASSUME WebSocketInv, NEW c \in Clients, Poll(c)
    PROVE  WebSocketInv'
<1>1. PICK k \in RunQueue(ws[c]) : ws' = [ws EXCEPT ![c] = k]
  BY DEF Poll
<1>2. ~ ws[c].tcp.busy /\ buffers' = buffers /\ events' = events
  BY DEF Poll, CanSend
<1>3. ObjectOK(ws[c], events) /\ Kept(ws[c], buffers) /\ events \in Nat
  BY OfOne
<1>4. ObjectOK(k, events) /\ Kept(k, buffers)
  BY <1>2, <1>3, RunQueueOK, KeptFrom
<1>. QED
  BY <1>1, <1>2, <1>4, OfOne, OneClient

\* _onAck() gives the queues what the peer has acknowledged.
LEMMA PeerAcknowledgesInv ==
    ASSUME WebSocketInv, NEW c \in Clients, PeerAcknowledges(c)
    PROVE  WebSocketInv'
<1>. DEFINE k == ws[c]
            counted == Counted(k.tcp, k.tcp.inflight)
            tcp == [counted EXCEPT !.busy = FALSE, !.acked = 0]
<1>1. ObjectOK(k, events) /\ Kept(k, buffers) /\ events \in Nat /\ events' = events
  BY OfOne DEF PeerAcknowledges
<1>2. k \in Objects /\ k.tcp \in Tcps /\ k.tcp.inflight > 0
  BY <1>1, ObjectFields DEF ObjectOK, PeerAcknowledges
<1>3. /\ counted \in Tcps /\ counted.unacked = k.tcp.unacked - k.tcp.inflight
      /\ counted.acked = k.tcp.acked + k.tcp.inflight
      /\ counted.unsent = k.tcp.unsent /\ counted.inflight = 0
  BY <1>2, CountedIs
<1>4. CASE counted.unacked # 0
  <2>. DEFINE after == [k EXCEPT !.tcp = counted]
  <2>1. /\ ws' = [ws EXCEPT ![c].tcp = counted] /\ buffers' = buffers
    BY <1>4 DEF PeerAcknowledges
  <2>2. ws' = [ws EXCEPT ![c] = after]
    BY <2>1
  <2>. HIDE DEF counted
  <2>3. /\ after \in Objects /\ after.control = k.control /\ after.messages = k.messages
        /\ after.wire = k.wire /\ after.mishaps = k.mishaps
    BY <1>2, <1>3 DEF Objects
  <2>4. ~ Unharmed(k)
    <3>1. k.tcp.unacked \in Int /\ k.tcp.inflight \in Int
      BY <1>2, TcpFields
    <3>2. k.tcp.unacked # k.tcp.inflight
      BY <1>3, <1>4, <3>1
    <3>. QED
      BY <1>1, <3>2 DEF ObjectOK, FlightOK
  <2>. HIDE DEF after
  <2>5. FlightOK(after)
    BY <2>3, <2>4 DEF FlightOK, Unharmed
  <2>6. QueueOK(after.messages, events) /\ WireOK(after, events)
    BY <1>1, <2>3 DEF ObjectOK, WireOK, OnlyRefused
  <2>7. ObjectOK(after, events) /\ Kept(after, buffers)
    BY <1>1, <2>3, <2>5, <2>6 DEF ObjectOK, Kept
  <2>. QED
    BY <1>1, <2>1, <2>2, <2>7, OfOne, OneClient
<1>5. CASE counted.unacked = 0
  <2>. DEFINE acked == Acknowledged([k EXCEPT !.tcp = tcp], counted.acked)
  <2>1. OnAck(c, counted.acked, tcp)
    BY <1>5 DEF PeerAcknowledges
  <2>2. CASE AcknowledgesClose(ws[c])
    BY <1>1, <2>1, <2>2, LeaveInv DEF OnAck
  <2>3. CASE ~ AcknowledgesClose(ws[c])
    <3>1. PICK next \in RunQueue(acked) : ws' = [ws EXCEPT ![c] = next]
      BY <2>1, <2>3 DEF OnAck
    <3>2. buffers' \in Cleaned(buffers, ws)
      BY <2>1, <2>3 DEF OnAck
    <3>3. /\ tcp \in Tcps /\ ~ tcp.busy /\ tcp.acked = 0
          /\ tcp.unacked = counted.unacked /\ tcp.unsent = counted.unsent
          /\ tcp.inflight = counted.inflight
      <4>. HIDE DEF counted
      <4>. QED
        BY <1>3, AllAckedIs, AllAcked, ZenonT(60)
    <3>. DEFINE n == counted.acked
    <3>4. n \in Int /\ n = k.tcp.acked + k.tcp.inflight /\ k.tcp.unacked = k.tcp.inflight
      <4>. HIDE DEF counted
      <4>. QED
        BY <1>2, <1>3, <1>5, TcpFields
    <3>5. acked = Acknowledged([k EXCEPT !.tcp = tcp], n)
      OBVIOUS
    <3>. HIDE DEF counted, tcp, n, acked
    <3>6. ObjectOK(acked, events) /\ ~ acked.tcp.busy /\ From(k.messages, acked.messages)
      BY <1>1, <1>2, <1>3, <1>5, <3>3, <3>4, <3>5, AcknowledgedOK
    <3>7. ObjectOK(next, events) /\ Kept(next, buffers')
      <4>1. ObjectOK(next, events) /\ From(acked.messages, next.messages)
        BY <1>1, <3>6, RunQueueOK
      <4>2. Kept(k, buffers')
        BY <1>1, <3>2, CleanedKeeps
      <4>. QED
        BY <3>6, <4>1, <4>2, KeptFrom
    <3>8. \A other \in Clients : Kept(ws[other], buffers')
      BY <3>2, OfOne, CleanedKeeps
    <3>. QED
      BY <1>1, <3>1, <3>7, <3>8, OneClient
  <2>. QED
    BY <2>2, <2>3
<1>. QED
  BY <1>4, <1>5

\* A ping is answered.
LEMMA PeerPingsInv ==
    ASSUME WebSocketInv, NEW c \in Clients, PeerPings(c)
    PROVE  WebSocketInv'
<1>1. PICK k \in QueueControl(ws[c], FALSE) : ws' = [ws EXCEPT ![c] = k]
  BY DEF PeerPings
<1>2. buffers' = buffers /\ events' = events + 1
  BY DEF PeerPings, Event
<1>3. ObjectOK(ws[c], events) /\ Kept(ws[c], buffers) /\ events \in Nat
  BY OfOne
<1>4. ObjectOK(k, events) /\ Kept(k, buffers)
  <2>1. ASSUME NEW isClose \in BOOLEAN, k \in QueueControl(ws[c], isClose)
        PROVE  ObjectOK(k, events) /\ From(ws[c].messages, k.messages)
    BY <1>3, <2>1, QueueControlOK
  <2>. QED
    BY <1>3, <2>1, KeptFrom
<1>. QED
  BY <1>1, <1>2, <1>3, <1>4, OfOne, OneClient, LaterOK

\* A close is answered, or answers ours.
LEMMA PeerClosesInv ==
    ASSUME WebSocketInv, NEW c \in Clients, PeerCloses(c)
    PROVE  WebSocketInv'
<1>1. events' = events + 1
  BY DEF PeerCloses, Event
<1>2. CASE Leave(c)
  BY <1>1, <1>2, LeaveInv
<1>3. CASE ~ Leave(c)
  <2>. DEFINE k == ws[c]
              closing == [k EXCEPT !.status = "DISCONNECTING"]
  <2>1. PICK after \in QueueControl(closing, TRUE) : ws' = [ws EXCEPT ![c] = after]
    BY <1>3 DEF PeerCloses
  <2>2. buffers' = buffers
    BY <1>3 DEF PeerCloses
  <2>3. ObjectOK(k, events) /\ Kept(k, buffers) /\ events \in Nat
    BY OfOne
  <2>. HIDE DEF k
  <2>4. /\ closing \in Objects /\ closing.control = k.control /\ closing.messages = k.messages
        /\ closing.tcp = k.tcp /\ closing.wire = k.wire /\ closing.mishaps = k.mishaps
    BY <2>3 DEF ObjectOK, Objects, Statuses
  <2>. HIDE DEF closing
  <2>5. FlightOK(closing)
    BY <2>3, <2>4 DEF ObjectOK, FlightOK, Unharmed, IsBetween, ForControl
  <2>6. QueueOK(closing.messages, events) /\ WireOK(closing, events)
    BY <2>3, <2>4 DEF ObjectOK, WireOK, OnlyRefused
  <2>7. ObjectOK(closing, events) /\ Kept(closing, buffers)
    BY <2>3, <2>4, <2>5, <2>6 DEF ObjectOK, Kept
  <2>8. ObjectOK(after, events) /\ Kept(after, buffers)
    <3>1. ASSUME NEW isClose \in BOOLEAN, after \in QueueControl(closing, isClose)
          PROVE  ObjectOK(after, events) /\ From(closing.messages, after.messages)
      BY <2>3, <2>7, <3>1, QueueControlOK
    <3>. QED
      BY <2>7, <3>1, KeptFrom
  <2>. QED
    BY <1>1, <2>1, <2>2, <2>3, <2>8, OfOne, OneClient, LaterOK
<1>. QED
  BY <1>2, <1>3

\* A browser connects.
LEMMA ConnectInv ==
    ASSUME WebSocketInv, NEW c \in Clients, Connect(c)
    PROVE  WebSocketInv'
<1>1. ObjectOK(NewClient("CONNECTED"), events) /\ Kept(NewClient("CONNECTED"), buffers)
  BY OfOne, NewClientOK DEF Statuses
<1>. QED
  BY <1>1, OfOne, OneClient DEF Connect

\* Every step keeps the invariant.
LEMMA WebSocketInvStep ==
    ASSUME WebSocketInv, [WebSocketNext]_webSocketVars
    PROVE  WebSocketInv'
<1>1. ASSUME NEW len \in Lengths, TextAll(len) PROVE WebSocketInv'
  BY <1>1, TextAllInv
<1>2. CASE CleanupClients
  <2>1. Ask(Head(clients), TRUE) /\ events' = events
    BY <1>2 DEF CleanupClients
  <2>. QED
    BY <2>1, AskInv
<1>3. ASSUME NEW c \in Clients, Connect(c) PROVE WebSocketInv'
  BY <1>3, ConnectInv
<1>4. ASSUME NEW c \in Clients, Close(c) PROVE WebSocketInv'
  <2>1. Ask(c, TRUE) /\ events' = events + 1
    BY <1>4 DEF Close, Event
  <2>. QED
    BY <2>1, AskInv
<1>5. ASSUME NEW c \in Clients, Ping(c) PROVE WebSocketInv'
  <2>1. Ask(c, FALSE) /\ events' = events + 1
    BY <1>5 DEF Ping, Event
  <2>. QED
    BY <2>1, AskInv
<1>6. ASSUME NEW c \in Clients, KeepAlive(c) PROVE WebSocketInv'
  <2>1. Ask(c, FALSE) /\ events' = events
    BY <1>6 DEF KeepAlive
  <2>. QED
    BY <2>1, AskInv
<1>7. ASSUME NEW c \in Clients, Poll(c) PROVE WebSocketInv'
  BY <1>7, PollInv
<1>8. ASSUME NEW c \in Clients, NEW len \in Lengths, Text(c, len) PROVE WebSocketInv'
  BY <1>8, TextInv
<1>9. ASSUME NEW c \in Clients, PeerAcknowledges(c) PROVE WebSocketInv'
  BY <1>9, PeerAcknowledgesInv
<1>10. ASSUME NEW c \in Clients, PeerPings(c) PROVE WebSocketInv'
  BY <1>10, PeerPingsInv
<1>11. ASSUME NEW c \in Clients, PeerCloses(c) PROVE WebSocketInv'
  BY <1>11, PeerClosesInv
<1>12. ASSUME NEW c \in Clients, Disconnect(c) PROVE WebSocketInv'
  <2>1. Leave(c) /\ events' = events
    BY <1>12 DEF Disconnect
  <2>. QED
    BY <2>1, LeaveInv
<1>13. CASE UNCHANGED webSocketVars
  BY <1>13 DEF webSocketVars, WebSocketInv, BuffersInUseAreKept
<1>. QED
  BY <1>1, <1>2, <1>3, <1>4, <1>5, <1>6, <1>7, <1>8, <1>9, <1>10, <1>11, <1>12, <1>13
     DEF WebSocketNext

\* WebSocketInv holds in every state of every behaviour.
THEOREM WebSocketInvariance == WebSocketSpec => []WebSocketInv
<1>1. WebSocketInit => WebSocketInv
  BY WebSocketInitInv
<1>2. WebSocketInv /\ [WebSocketNext]_webSocketVars => WebSocketInv'
  BY WebSocketInvStep
<1>. QED
  BY <1>1, <1>2, PTL DEF WebSocketSpec

\* Whatever is queued, acknowledged or refused, the data frames that a peer gets are
\* those of whole messages, in the order of the calls.
THEOREM WholeMessages == WebSocketSpec => []MessagesAreWhole
<1>1. WebSocketInv => MessagesAreWhole
  BY DEF WebSocketInv, ObjectOK, WireOK, OnlyRefused, MessagesAreWhole
<1>. QED
  BY <1>1, WebSocketInvariance, PTL

\* A client waits for the acknowledgement of one frame, and can tell from its queues
\* which one that is.
THEOREM OneFrame == WebSocketSpec => []OneFrameInFlight
<1>1. WebSocketInv => OneFrameInFlight
  <2>. SUFFICES ASSUME WebSocketInv, NEW c \in Clients, Unharmed(ws[c]), ws[c].tcp.busy
                PROVE  IF ws[c].control # <<>> /\ Head(ws[c].control).finished
                       THEN ws[c].tcp.unacked = ControlLength /\ IsBetween(ws[c])
                       ELSE /\ ws[c].messages # <<>>
                            /\ Head(ws[c].messages).ack - Head(ws[c].messages).acked
                                 = ws[c].tcp.unacked
    BY DEF OneFrameInFlight
  <2>. DEFINE k == ws[c]
  <2>1. k \in Objects /\ FlightOK(k)
    BY DEF WebSocketInv, ObjectOK
  <2>2. k.control \in Seq(Controls) /\ k.messages \in Seq(Messages)
    BY <2>1, ObjectFields
  <2>3. /\ k.control # <<>> => Head(k.control) = k.control[1]
        /\ k.messages # <<>> => Head(k.messages) = k.messages[1]
    BY <2>2, FirstIsHead
  <2>4. IF ForControl(k) THEN k.tcp.unacked = ControlLength /\ IsBetween(k)
        ELSE k.messages # <<>> /\ k.messages[1].ack - k.messages[1].acked = k.tcp.unacked
    BY <2>1 DEF FlightOK
  <2>. QED
    BY <2>3, <2>4 DEF ForControl
<1>. QED
  BY <1>1, WebSocketInvariance, PTL

\* No client has a message in a buffer that has been deleted, although _onAck() cleans
\* up with the queues as they were and the loop skips buffers.
THEOREM BuffersKept == WebSocketSpec => []BuffersInUseAreKept
<1>1. WebSocketInv => BuffersInUseAreKept
  BY DEF WebSocketInv
<1>. QED
  BY <1>1, WebSocketInvariance, PTL

=============================================================================
