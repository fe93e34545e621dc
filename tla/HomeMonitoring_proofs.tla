----------------------- MODULE HomeMonitoring_proofs -----------------------
(***************************************************************************)
(* Proofs that HomeMonitoring's safety properties hold for any number of   *)
(* connections and of events, any password and any set of cards; and that  *)
(* RateLimiter's, of the clock behind its RequestHost, hold for every      *)
(* width of the counter and every UPDATE_TIME that fits into it.           *)
(***************************************************************************)
EXTENDS HomeMonitoring, RateLimiter, TLAPS

ConnTypeOK ==
    /\ host \in [Nodes -> Conns \cup {None}]
    /\ backlog \in Seq(Conns)
    /\ client \in Conns \cup {None}
    /\ rfidClient \in Conns \cup {None}
    /\ req \in [Conns -> Requests \cup {None}]
    /\ arrived \in SUBSET Conns
    /\ down \in [Conns -> Seq(Messages)]

-----------------------------------------------------------------------------
(* What the calls of the connection library preserve. *)

\* The four nodes.
LEMMA NodeNames == /\ Keypad \in Nodes /\ RFID \in Nodes
                   /\ Proximity \in Nodes /\ TemHumLight \in Nodes
  BY DEF Nodes, Keypad, RFID, Proximity, TemHumLight

\* Stopping a connection leaves hosts and messages well typed.
LEMMA StopType ==
    ASSUME ConnTypeOK, NEW n \in Nodes, NEW keep \in Conns \cup {None}, Stop(n, keep)
    PROVE  /\ host' \in [Nodes -> Conns \cup {None}]
           /\ down' \in [Conns -> Seq(Messages)]
<1>1. \A d \in Conns : down[d] \in Seq(Messages)
  BY DEF ConnTypeOK
<1>2. <<>> \in Seq(Messages)
  OBVIOUS
<1>. QED
  BY <1>1, <1>2 DEF ConnTypeOK, Stop

\* println() leaves the messages well typed.
LEMMA PrintlnType ==
    ASSUME ConnTypeOK, NEW c \in Conns \cup {None}, NEW m \in Messages
    PROVE  Println(c, m) \in [Conns -> Seq(Messages)]
<1>1. CASE c = None
  BY <1>1 DEF ConnTypeOK, Println
<1>2. CASE c \in Conns
  <2>1. Append(down[c], m) \in Seq(Messages)
    BY <1>2 DEF ConnTypeOK
  <2>. QED
    BY <1>2, <2>1 DEF ConnTypeOK, Println
<1>. QED
  BY <1>1, <1>2

\* requestHost() leaves connections and windows well typed.
LEMMA RequestHostType ==
    ASSUME ConnTypeOK, window \in [Nodes -> BOOLEAN],
           NEW n \in Nodes, NEW says \in RequestTexts, NEW id \in Nat,
           RequestHost(n, says, id)
    PROVE  ConnTypeOK' /\ window' \in [Nodes -> BOOLEAN]
<1>1. Request(n, says, id) \in Requests
  BY DEF Request, Requests
<1>2. CASE window[n]
  <2>1. window' \in [Nodes -> BOOLEAN] /\ ConnectAndPrint(n, Request(n, says, id))
    BY <1>2 DEF RequestHost
  <2>2. ASSUME NEW c \in Conns,
               Stop(n, c),
               backlog' = Append(backlog, c),
               req' = [req EXCEPT ![c] = Request(n, says, id)],
               UNCHANGED <<arrived, client, rfidClient>>
        PROVE  ConnTypeOK'
    <3>1. host' \in [Nodes -> Conns \cup {None}] /\ down' \in [Conns -> Seq(Messages)]
      BY <2>2, StopType
    <3>2. backlog' \in Seq(Conns)
      BY <2>2 DEF ConnTypeOK
    <3>3. req' \in [Conns -> Requests \cup {None}]
      BY <1>1, <2>2 DEF ConnTypeOK
    <3>. QED
      BY <2>2, <3>1, <3>2, <3>3 DEF ConnTypeOK
  <2>3. ASSUME Stop(n, None), UNCHANGED <<backlog, req, arrived, client, rfidClient>>
        PROVE  ConnTypeOK'
    <3>1. host' \in [Nodes -> Conns \cup {None}] /\ down' \in [Conns -> Seq(Messages)]
      BY <2>3, StopType
    <3>. QED
      BY <2>3, <3>1 DEF ConnTypeOK
  <2>. QED
    BY <2>1, <2>2, <2>3 DEF ConnectAndPrint
<1>3. CASE ~ window[n]
  BY <1>3 DEF RequestHost, connVars, ConnTypeOK
<1>. QED
  BY <1>2, <1>3

\* Counting an event keeps the types.
LEMMA EventType ==
    ASSUME events \in 0 .. MaxEvents, authorised \in SUBSET (1 .. MaxEvents),
           NEW entitled \in BOOLEAN, Event(entitled)
    PROVE  /\ events' \in 0 .. MaxEvents
           /\ authorised' \in SUBSET (1 .. MaxEvents)
           /\ events + 1 \in Nat
  BY MaxEventsAssumption DEF Event

\* A reset of a node keeps the types.
LEMMA NodeRestartType ==
    ASSUME ConnTypeOK, window \in [Nodes -> BOOLEAN], NEW n \in Nodes, NodeRestart(n)
    PROVE  ConnTypeOK' /\ window' \in [Nodes -> BOOLEAN]
<1>1. host' \in [Nodes -> Conns \cup {None}] /\ down' \in [Conns -> Seq(Messages)]
  BY StopType DEF NodeRestart
<1>. QED
  BY <1>1 DEF NodeRestart, ConnTypeOK

-----------------------------------------------------------------------------
(* Type correctness. *)

\* The statuses that the server starts with.
LEMMA InitiallyType == Initially \in [Nodes -> Statuses]
  BY DEF Initially, Shown, Statuses, InitialTexts

\* Types hold when everything starts.
LEMMA TypeInit == Init => TypeOK
<1>. SUFFICES ASSUME Init PROVE TypeOK
  OBVIOUS
<1>. USE DEF Init, ConnInit, RequestInit, KeypadInit, RfidInit, ServerInit
<1>1. /\ host \in [Nodes -> Conns \cup {None}]
      /\ req \in [Conns -> Requests \cup {None}]
      /\ down \in [Conns -> Seq(Messages)]
  BY DEF Messages
<1>2. Initially \in [Nodes -> Statuses]
  BY InitiallyType
<1>. QED
  BY <1>1, <1>2, MaxEventsAssumption DEF TypeOK, Places, MaxPresses

\* The keypad's and the sensors' steps.
LEMMA TypeKeypad ==
    ASSUME TypeOK, KeypadStep, UNCHANGED <<rfidVars, serverVars>>
    PROVE  TypeOK'
<1>. USE DEF rfidVars, serverVars
<1>t. ConnTypeOK /\ Keypad \in Nodes
  BY NodeNames DEF TypeOK, ConnTypeOK
<1>1. CASE ClearKey
  BY <1>1 DEF ClearKey, requestVars, connVars, TypeOK
<1>2. CASE CheckKey
  <2>1. Event(input = Password)
    BY <1>2 DEF CheckKey
  <2>2. \/ RequestHost(Keypad, "ACCESS GRANTED", events + 1)
        \/ RequestHost(Keypad, "ACCESS DENIED", events + 1)
    <3>1. CASE input = Password
      BY <1>2, <3>1, Zenon DEF CheckKey
    <3>2. CASE input # Password
      BY <1>2, <3>2, Zenon DEF CheckKey
    <3>. QED
      BY <3>1, <3>2
  <2>3. /\ events' \in 0 .. MaxEvents
        /\ authorised' \in SUBSET (1 .. MaxEvents)
        /\ events + 1 \in Nat
    BY <2>1, EventType DEF TypeOK
  <2>4. ConnTypeOK' /\ window' \in [Nodes -> BOOLEAN]
    <3>1. "ACCESS GRANTED" \in RequestTexts /\ "ACCESS DENIED" \in RequestTexts
      BY DEF RequestTexts
    <3>2. ASSUME NEW says \in RequestTexts, RequestHost(Keypad, says, events + 1)
          PROVE  ConnTypeOK' /\ window' \in [Nodes -> BOOLEAN]
      BY <1>t, <2>3, <3>2, RequestHostType DEF TypeOK
    <3>. QED
      BY <2>2, <3>1, <3>2
  <2>5. input' = <<>>
    BY <1>2, Zenon DEF CheckKey
  <2>. QED
    BY <2>3, <2>4, <2>5 DEF TypeOK, ConnTypeOK
<1>3. ASSUME NEW k \in Symbols, SymbolKey(k) PROVE TypeOK'
  BY <1>3 DEF SymbolKey, requestVars, connVars, TypeOK
<1>4. CASE KeypadRestart
  <2>1. ConnTypeOK' /\ window' \in [Nodes -> BOOLEAN]
    BY <1>t, <1>4, NodeRestartType DEF KeypadRestart, TypeOK
  <2>. QED
    BY <1>4, <2>1 DEF KeypadRestart, NodeRestart, TypeOK, ConnTypeOK
<1>. QED
  BY <1>1, <1>2, <1>3, <1>4 DEF KeypadStep, HandleKeypad

\* The sensors' steps.
LEMMA TypeSensor ==
    ASSUME TypeOK, SensorStep, UNCHANGED <<input, rfidVars, serverVars>>
    PROVE  TypeOK'
<1>. USE DEF rfidVars, serverVars
<1>. PICK n \in Sensors : Report(n) \/ NodeRestart(n)
  BY DEF SensorStep
<1>t. ConnTypeOK /\ n \in Nodes
  BY SensorsAssumption, NodeNames DEF TypeOK, ConnTypeOK
<1>1. CASE Report(n)
  <2>1. PICK says \in Reading(n) : RequestHost(n, says, events + 1)
    BY <1>1 DEF Report
  <2>s. says \in RequestTexts
    BY DEF Reading, RequestTexts
  <2>2. /\ events' \in 0 .. MaxEvents
        /\ authorised' \in SUBSET (1 .. MaxEvents)
        /\ events + 1 \in Nat
    BY <1>1, EventType DEF Report, TypeOK
  <2>3. ConnTypeOK' /\ window' \in [Nodes -> BOOLEAN]
    BY <1>t, <2>1, <2>s, <2>2, RequestHostType DEF TypeOK
  <2>. QED
    BY <2>2, <2>3 DEF TypeOK, ConnTypeOK
<1>2. CASE NodeRestart(n)
  <2>1. ConnTypeOK' /\ window' \in [Nodes -> BOOLEAN]
    BY <1>t, <1>2, NodeRestartType DEF TypeOK
  <2>. QED
    BY <1>2, <2>1 DEF NodeRestart, TypeOK, ConnTypeOK
<1>. QED
  BY <1>1, <1>2

\* The RFID node's steps.
LEMMA TypeReadHostMessage ==
    ASSUME TypeOK, ReadHostMessage, UNCHANGED <<input, serverVars>>
    PROVE  TypeOK'
<1>. DEFINE c == host[RFID]
<1>1. c \in Conns
  BY NodeNames DEF ReadHostMessage, Connected, TypeOK
<1>2. PICK n \in 1 .. Len(down[c]) :
          /\ HandleHostSubstring(GetSubstring(SubSeq(down[c], 1, n)))
          /\ down' = [down EXCEPT ![c] = SubSeq(@, n + 1, Len(@))]
  BY DEF ReadHostMessage
<1>3. down[c] \in Seq(Messages)
  BY <1>1 DEF TypeOK
<1>4. SubSeq(down[c], n + 1, Len(down[c])) \in Seq(Messages)
  BY <1>3
<1>5. down' \in [Conns -> Seq(Messages)]
  BY <1>1, <1>2, <1>4 DEF TypeOK
<1>6. /\ rpc' \in Places
      /\ door' \in {"open", "closed"}
      /\ opened' \in SUBSET Nat
  <2>1. CASE n = 1
    <3>1. GetSubstring(SubSeq(down[c], 1, n)) = down[c][1] /\ down[c][1] \in Messages
      BY <1>2, <1>3, <2>1 DEF GetSubstring
    <3>. QED
      BY <1>2, <3>1 DEF HandleHostSubstring, RunServo, Places, Messages, TypeOK
  <2>2. CASE n # 1
    <3>1. GetSubstring(SubSeq(down[c], 1, n)).says = "garbled"
      BY <1>2, <1>3, <2>2 DEF GetSubstring
    <3>. QED
      BY <1>2, <3>1 DEF HandleHostSubstring, Opening, Places, TypeOK
  <2>. QED
    BY <2>1, <2>2
<1>. QED
  BY <1>5, <1>6 DEF ReadHostMessage, serverVars, TypeOK

\* The RFID node's steps.
LEMMA TypeRfid ==
    ASSUME TypeOK, RfidStep, UNCHANGED <<input, serverVars>>
    PROVE  TypeOK'
<1>. USE DEF serverVars
<1>t. ConnTypeOK /\ RFID \in Nodes
  BY NodeNames DEF TypeOK, ConnTypeOK
<1>1. CASE NoCard
  BY <1>1 DEF NoCard, Places, requestVars, connVars, TypeOK
<1>2. ASSUME NEW tag \in Tags, ReadCard(tag) PROVE TypeOK'
  <2>1. /\ events' \in 0 .. MaxEvents
        /\ authorised' \in SUBSET (1 .. MaxEvents)
        /\ events + 1 \in Nat
    <3>1. Event(tag \in ToSet(IDs))
      BY <1>2, Zenon DEF ReadCard
    <3>. QED
      BY <3>1, MaxEventsAssumption DEF Event, TypeOK
  <2>2. \/ RequestHost(RFID, "Access Martin", events + 1)
        \/ RequestHost(RFID, "Access Magnus", events + 1)
        \/ RequestHost(RFID, "Access denied", events + 1)
        \/ UNCHANGED <<window, connVars>>
    BY <1>2 DEF ReadCard
  <2>3. ConnTypeOK' /\ window' \in [Nodes -> BOOLEAN]
    <3>1. CASE UNCHANGED <<window, connVars>>
      BY <1>t, <3>1 DEF connVars, ConnTypeOK, TypeOK
    <3>2. window \in [Nodes -> BOOLEAN]
      BY DEF TypeOK
    <3>3. ASSUME NEW says \in RequestTexts, RequestHost(RFID, says, events + 1)
          PROVE  ConnTypeOK' /\ window' \in [Nodes -> BOOLEAN]
      BY <1>t, <2>1, <3>2, <3>3, RequestHostType
    <3>. QED
      BY <2>2, <3>1, <3>3 DEF RequestTexts
  <2>. QED
    BY <1>2, <2>1, <2>3 DEF ReadCard, Places, TypeOK, ConnTypeOK
<1>3. CASE ReadHostMessage
  BY <1>3, TypeReadHostMessage
<1>4. CASE NoHostMessage
  BY <1>4 DEF NoHostMessage, Places, requestVars, connVars, TypeOK
<1>5. CASE EndServo
  BY <1>5 DEF EndServo, Places, requestVars, connVars, TypeOK
<1>6. CASE EndSound
  BY <1>6 DEF EndSound, Places, requestVars, connVars, TypeOK
<1>7. CASE RfidRestart
  <2>1. ConnTypeOK' /\ window' \in [Nodes -> BOOLEAN]
    BY <1>t, <1>7, NodeRestartType DEF RfidRestart, TypeOK
  <2>. QED
    BY <1>7, <2>1 DEF RfidRestart, NodeRestart, Places, TypeOK, ConnTypeOK
<1>. QED
  BY <1>1, <1>2, <1>3, <1>4, <1>5, <1>6, <1>7 DEF RfidStep, RfidLoop, CheckRFID

\* The server's steps.
LEMMA TypeClientRequest ==
    ASSUME TypeOK, req[client] # None, ClientRequest, UNCHANGED <<input, rfidVars>>
    PROVE  TypeOK'
<1>. DEFINE request == req[client]
<1>t. ConnTypeOK
  BY DEF TypeOK, ConnTypeOK
<1>1. client \in Conns /\ request \in Requests
  BY DEF ClientRequest, TypeOK
<1>2. Shown(request.says, request.id) \in Statuses
  BY <1>1 DEF Shown, Statuses, Requests
<1>3. \A says \in ReplyTexts : Reply(says, request) \in Messages
  BY <1>1 DEF Reply, Messages, Requests
<1>4. client' \in Conns \cup {None} /\ arrived' \in SUBSET Conns
      /\ req' \in [Conns -> Requests \cup {None}]
  BY <1>1 DEF ClientRequest, ReleaseClient, TypeOK
<1>5. /\ status' \in [Nodes -> Statuses]
      /\ rfidClient' \in Conns \cup {None}
      /\ down' \in [Conns -> Seq(Messages)]
  <2>1. CASE HandleTemperatureInput(request)
    BY <1>2, <2>1 DEF HandleTemperatureInput, TypeOK
  <2>2. CASE HandleProximityInput(request)
    BY <1>2, <2>2 DEF HandleProximityInput, TypeOK
  <2>3. CASE HandleKeypadInput(request)
    <3>1. PICK says \in ReplyTexts : down' = Println(rfidClient, Reply(says, request))
      BY <2>3, "Access OK" \in ReplyTexts, "Access NO" \in ReplyTexts
         DEF HandleKeypadInput, ReplyTexts
    <3>2. down' \in [Conns -> Seq(Messages)]
      BY <1>t, <1>3, <3>1, PrintlnType DEF TypeOK
    <3>. QED
      BY <1>2, <2>3, <3>2 DEF HandleKeypadInput, TypeOK
  <2>4. CASE HandleRFIDInput(request)
    <3>1. PICK says \in ReplyTexts : down' = Println(client, Reply(says, request))
      BY <2>4 DEF HandleRFIDInput, ReplyTexts
    <3>2. down' \in [Conns -> Seq(Messages)]
      BY <1>t, <1>1, <1>3, <3>1, PrintlnType
    <3>. QED
      BY <1>1, <1>2, <2>4, <3>2 DEF HandleRFIDInput, TypeOK
  <2>. QED
    BY <2>1, <2>2, <2>3, <2>4 DEF ClientRequest
<1>. QED
  BY <1>4, <1>5 DEF ClientRequest, ReleaseClient, rfidVars, TypeOK

\* The server's steps.
LEMMA TypeServer ==
    ASSUME TypeOK, \A c \in arrived : req[c] # None,
           ServerStep, UNCHANGED <<input, rfidVars>>
    PROVE  TypeOK'
<1>. USE DEF rfidVars, serverVars
<1>t. ConnTypeOK
  BY DEF TypeOK, ConnTypeOK
<1>1. CASE Available
  BY <1>1 DEF Available, TypeOK
<1>2. CASE ReadTimeout
  BY <1>2 DEF ReadTimeout, ReleaseClient, TypeOK
<1>3. CASE ClientRequest
  BY <1>3, TypeClientRequest DEF ClientRequest
<1>4. CASE PressButton
  BY <1>4 DEF PressButton, MaxPresses, requestVars, connVars, TypeOK
<1>5. CASE On
  <2>1. /\ events' \in 0 .. MaxEvents
        /\ authorised' \in SUBSET (1 .. MaxEvents)
        /\ events + 1 \in Nat
    BY <1>5, EventType DEF On, TypeOK
  <2>2. down' \in [Conns -> Seq(Messages)]
    <3>1. [says |-> "Open", id |-> events + 1] \in Messages
      BY <2>1 DEF Messages, ReplyTexts
    <3>. QED
      BY <1>5, <1>t, <3>1, PrintlnType DEF On, TypeOK
  <2>. QED
    BY <1>5, <2>1, <2>2 DEF On, MaxPresses, TypeOK
<1>6. CASE ServerRestart
  BY <1>6, InitiallyType DEF ServerRestart, MaxPresses, TypeOK
<1>. QED
  BY <1>1, <1>2, <1>3, <1>4, <1>5, <1>6 DEF ServerStep

-----------------------------------------------------------------------------
(* The invariant under the four kinds of step the system takes. *)

\* Nothing is on its way when everything starts.
LEMMA InitInv == Init => Inv
<1>. SUFFICES ASSUME Init PROVE Inv
  OBVIOUS
<1>1. TypeOK
  BY TypeInit
<1>2. \A c \in Conns : req[c] = None /\ down[c] = <<>>
  BY DEF Init, ConnInit
<1>3. ArrivedInv /\ EventsInv /\ RequestsInv /\ MessagesInv /\ OwnerInv
  BY <1>2 DEF Init, ConnInit, RequestInit, RfidInit, ArrivedInv, EventsInv, RequestsInv,
              MessagesInv, OwnerInv, ServerTalksToRfidOnly
<1>. QED
  BY <1>1, <1>3 DEF Inv

\* Requests, messages and connections are only dropped.
LEMMA DropStep ==
    ASSUME Inv, TypeOK', ArrivedInv',
           events' \in {events, events + 1},
           authorised \subseteq authorised', authorised' \subseteq 1 .. events',
           opened' = opened,
           \A n \in Nodes \ {RFID} : rfidClient' # None => host[n] # rfidClient',
           \A n \in Nodes : host'[n] \in {host[n], None},
           \A c \in Conns : req'[c] \in {req[c], None},
           \A c \in Conns : down'[c] \in {down[c], <<>>},
           \A c \in Conns : down'[c] # <<>> => c = host'[RFID]
    PROVE  Inv'
<1>. USE DEF Inv
<1>1. 1 .. events \subseteq 1 .. events'
  BY DEF TypeOK
<1>2. EventsInv'
  BY DEF EventsInv
<1>3. RequestsInv'
  BY <1>1 DEF RequestsInv
<1>4. MessagesInv'
  <2>. SUFFICES ASSUME NEW c \in Conns, NEW i \in 1 .. Len(down'[c])
                PROVE  (MessagesInv!(c)!(i))'
    BY DEF MessagesInv
  <2>1. down'[c] = down[c]
    OBVIOUS
  <2>. QED
    BY <1>1, <2>1 DEF MessagesInv
<1>5. OwnerInv'
  <2>1. \A c \in Conns : \A n \in Nodes :
           req'[c] # None /\ host'[n] = c => req'[c].from = n
    BY ConnsAssumption DEF OwnerInv
  <2>2. \A n, m \in Nodes : host'[n] # None /\ host'[n] = host'[m] => n = m
    BY DEF OwnerInv
  <2>3. \A n \in Nodes \ {RFID} : rfidClient' # None => host'[n] # rfidClient'
    BY DEF OwnerInv, ServerTalksToRfidOnly
  <2>. QED
    BY <2>1, <2>2, <2>3 DEF OwnerInv, ServerTalksToRfidOnly
<1>. QED
  BY <1>2, <1>3, <1>4, <1>5

\* Node n is left with no connection.
LEMMA DropConnection ==
    ASSUME Inv, TypeOK', NEW n \in Nodes, Stop(n, None),
           events' \in {events, events + 1},
           authorised \subseteq authorised', authorised' \subseteq 1 .. events',
           opened' = opened,
           UNCHANGED <<req, arrived, rfidClient>>
    PROVE  Inv'
<1>. USE DEF Inv
<1>1. \A m \in Nodes : host'[m] \in {host[m], None}
  BY DEF Stop, TypeOK
<1>2. \A c \in Conns : down'[c] \in {down[c], <<>>}
  BY DEF Stop
<1>3. \A c \in Conns : down'[c] # <<>> => c = host'[RFID]
  <2>. SUFFICES ASSUME NEW c \in Conns, down'[c] # <<>> PROVE c = host'[RFID]
    OBVIOUS
  <2>1. c = host[RFID] /\ c # host[n]
    BY <1>2 DEF Stop, OwnerInv, ServerTalksToRfidOnly
  <2>. QED
    BY <2>1, NodeNames DEF Stop, TypeOK
<1>4. ArrivedInv'
  BY DEF ArrivedInv
<1>5. \A m \in Nodes \ {RFID} : rfidClient' # None => host[m] # rfidClient'
  BY DEF OwnerInv, ServerTalksToRfidOnly
<1>. QED
  BY <1>1, <1>2, <1>3, <1>4, <1>5, DropStep

\* An event makes node n send a request on a connection that was not in use.
LEMMA SendStep ==
    ASSUME Inv, TypeOK',
           NEW n \in Nodes, NEW c \in Conns, ~ InUse(c), NEW says \in RequestTexts,
           events' = events + 1,
           authorised \subseteq authorised', authorised' \subseteq 1 .. events',
           says \in Granting => events + 1 \in authorised',
           opened' = opened, arrived' = arrived, rfidClient' = rfidClient,
           host' = [host EXCEPT ![n] = c],
           req' = [req EXCEPT ![c] = Request(n, says, events + 1)],
           down' = [d \in Conns |-> IF d \in {host[n], c} THEN <<>> ELSE down[d]]
    PROVE  Inv'
<1>. USE DEF Inv
<1>1. /\ 1 .. events \subseteq 1 .. events' /\ events + 1 \in 1 .. events'
      /\ events + 1 \notin 1 .. events
  BY DEF TypeOK
<1>2. /\ req'[c] = Request(n, says, events + 1) /\ req'[c] # None
      /\ \A d \in Conns \ {c} : req'[d] = req[d]
  <2>1. Request(n, says, events + 1) \in Requests
    BY <1>1 DEF Request, Requests
  <2>. QED
    BY <2>1, NoneAssumption DEF TypeOK
<1>3. \A d \in Conns : down'[d] \in {down[d], <<>>}
  OBVIOUS
<1>4. ArrivedInv'
  BY <1>2 DEF ArrivedInv, TypeOK
<1>5. EventsInv'
  BY DEF EventsInv
<1>6. /\ req'[c].id = events + 1 /\ req'[c].says = says /\ req'[c].from = n
  BY <1>2 DEF Request
<1>7. RequestsInv'
  <2>. SUFFICES ASSUME NEW d \in Conns, req'[d] # None
                PROVE  /\ req'[d].id \in 1 .. events'
                       /\ req'[d].says \in Granting => req'[d].id \in authorised'
                       /\ req'[d].id \notin opened
                       /\ \A e \in Conns : req'[e] # None /\ req'[e].id = req'[d].id => e = d
    BY DEF RequestsInv
  <2>1. CASE d = c
    BY <1>1, <1>2, <1>6, <2>1 DEF RequestsInv, EventsInv
  <2>2. CASE d # c
    BY <1>1, <1>2, <1>6, <2>2 DEF RequestsInv
  <2>. QED
    BY <2>1, <2>2
<1>8. MessagesInv'
  <2>. SUFFICES ASSUME NEW d \in Conns, NEW i \in 1 .. Len(down'[d])
                PROVE  (MessagesInv!(d)!(i))'
    BY DEF MessagesInv
  <2>1. down'[d] = down[d]
    BY <1>3
  <2>. QED
    BY <1>1, <1>2, <1>6, <2>1 DEF MessagesInv
<1>9. OwnerInv'
  <2>1. \A m \in Nodes : host[m] # c
    BY DEF InUse
  <2>2. host' \in [Nodes -> Conns \cup {None}] /\ host'[n] = c
        /\ \A m \in Nodes \ {n} : host'[m] = host[m]
    BY DEF TypeOK
  <2>3. \A d \in Conns : \A m \in Nodes :
           req'[d] # None /\ host'[m] = d => req'[d].from = m
    BY <1>2, <1>6, <2>1, <2>2 DEF OwnerInv
  <2>4. \A k, m \in Nodes : host'[k] # None /\ host'[k] = host'[m] => k = m
    BY <2>1, <2>2 DEF OwnerInv
  <2>5. \A m \in Nodes \ {RFID} : rfidClient' # None => host'[m] # rfidClient'
    BY <2>2 DEF OwnerInv, ServerTalksToRfidOnly, InUse, ServerEndOpen
  <2>6. \A d \in Conns : down'[d] # <<>> => d = host'[RFID]
    BY <2>2, NodeNames DEF OwnerInv, ServerTalksToRfidOnly
  <2>. QED
    BY <2>3, <2>4, <2>5, <2>6 DEF OwnerInv, ServerTalksToRfidOnly
<1>. QED
  BY <1>4, <1>5, <1>7, <1>8, <1>9

\* The server writes message m to the RFID node: it stands for an event that is
\* in no other place.
LEMMA PrintStep ==
    ASSUME Inv, TypeOK', ArrivedInv',
           NEW m \in Messages, host[RFID] \in Conns,
           events' \in {events, events + 1},
           authorised \subseteq authorised', authorised' \subseteq 1 .. events',
           opened' = opened, host' = host,
           \A n \in Nodes \ {RFID} : rfidClient' # None => host[n] # rfidClient',
           \A c \in Conns : req'[c] \in {req[c], None},
           down' = [down EXCEPT ![host[RFID]] = Append(@, m)],
           m.id \in 1 .. events', m.id \notin opened,
           m.says \in Opening => m.id \in authorised',
           \A c \in Conns : req'[c] # None => req'[c].id # m.id,
           \A i \in 1 .. Len(down[host[RFID]]) : down[host[RFID]][i].id # m.id
    PROVE  Inv'
<1>. USE DEF Inv
<1>. DEFINE h == host[RFID]
<1>1. 1 .. events \subseteq 1 .. events'
  BY DEF TypeOK
<1>2. /\ down[h] \in Seq(Messages)
      /\ down'[h] = Append(down[h], m)
      /\ \A d \in Conns \ {h} : down'[d] = down[d]
  BY DEF TypeOK
<1>3. /\ Len(down'[h]) = Len(down[h]) + 1
      /\ \A i \in 1 .. Len(down[h]) : down'[h][i] = down[h][i]
      /\ down'[h][Len(down'[h])] = m
  BY <1>2
<1>m. \A i \in 1 .. Len(down[h]) :
         /\ down[h][i].id \in 1 .. events /\ down[h][i].id \notin opened
         /\ down[h][i].says \in Opening => down[h][i].id \in authorised
         /\ \A e \in Conns : req[e] # None => req[e].id # down[h][i].id
         /\ \A j \in 1 .. Len(down[h]) : down[h][j].id = down[h][i].id => j = i
  BY DEF MessagesInv
<1>4. EventsInv'
  BY DEF EventsInv
<1>5. RequestsInv'
  BY <1>1 DEF RequestsInv
<1>6. MessagesInv'
  <2>. SUFFICES ASSUME NEW d \in Conns, NEW i \in 1 .. Len(down'[d])
                PROVE  (MessagesInv!(d)!(i))'
    BY DEF MessagesInv
  <2>1. CASE d # h
    BY <1>1, <1>2, <2>1 DEF MessagesInv
  <2>2. CASE d = h /\ i \in 1 .. Len(down[h])
    <3>1. down'[d][i] = down[h][i]
      BY <1>3, <2>2
    <3>2. ASSUME NEW j \in 1 .. Len(down'[d]), down'[d][j].id = down'[d][i].id
          PROVE  j = i
      <4>1. CASE j \in 1 .. Len(down[h])
        BY <1>3, <1>m, <2>2, <3>1, <3>2, <4>1
      <4>2. CASE j = Len(down'[h])
        BY <1>3, <2>2, <3>1, <3>2, <4>2
      <4>. QED
        BY <1>2, <1>3, <2>2, <4>1, <4>2
    <3>3. /\ down[h][i].id \in 1 .. events /\ down[h][i].id \notin opened
          /\ down[h][i].says \in Opening => down[h][i].id \in authorised
          /\ \A e \in Conns : req[e] # None => req[e].id # down[h][i].id
      BY <2>2, <1>m
    <3>4. \A e \in Conns : req'[e] # None => req'[e].id # down[h][i].id
      BY <3>3
    <3>5. /\ down[h][i].id \in 1 .. events' /\ down[h][i].id \notin opened'
          /\ down[h][i].says \in Opening => down[h][i].id \in authorised'
      BY <1>1, <3>3
    <3>. QED
      BY <2>2, <3>1, <3>2, <3>4, <3>5
  <2>3. CASE d = h /\ i = Len(down'[h])
    <3>1. down'[d][i] = m
      BY <1>3, <2>3
    <3>2. ASSUME NEW j \in 1 .. Len(down'[d]), down'[d][j].id = m.id
          PROVE  j = i
      BY <1>2, <1>3, <2>3, <3>2
    <3>. QED
      BY <3>1, <3>2
  <2>. QED
    BY <1>2, <1>3, <2>1, <2>2, <2>3
<1>7. OwnerInv'
  BY <1>2 DEF OwnerInv, ServerTalksToRfidOnly
<1>. QED
  BY <1>4, <1>5, <1>6, <1>7

\* The RFID node takes the first n messages, and opens the door only if n is 1.
LEMMA ReadStep ==
    ASSUME Inv, TypeOK',
           host[RFID] \in Conns, NEW n \in 1 .. Len(down[host[RFID]]),
           UNCHANGED <<host, rfidClient, req, arrived, events, authorised>>,
           down' = [down EXCEPT ![host[RFID]] = SubSeq(@, n + 1, Len(@))],
           \/ opened' = opened
           \/ /\ down[host[RFID]][1].says \in Opening
              /\ opened' = opened \cup {down[host[RFID]][1].id}
    PROVE  Inv'
<1>. USE DEF Inv
<1>. DEFINE h == host[RFID]
<1>2. /\ down[h] \in Seq(Messages)
      /\ down'[h] = SubSeq(down[h], n + 1, Len(down[h]))
      /\ \A d \in Conns \ {h} : down'[d] = down[d]
  BY DEF TypeOK
<1>3. /\ Len(down'[h]) = Len(down[h]) - n
      /\ \A i \in 1 .. Len(down'[h]) :
            i + n \in 2 .. Len(down[h]) /\ down'[h][i] = down[h][i + n]
  BY <1>2
<1>4. ArrivedInv'
  BY DEF ArrivedInv
<1>0. 1 \in 1 .. Len(down[h])
  BY <1>2
<1>m. \A i \in 1 .. Len(down[h]) :
         /\ down[h][i].id \in 1 .. events /\ down[h][i].id \notin opened
         /\ down[h][i].says \in Opening => down[h][i].id \in authorised
         /\ \A j \in 1 .. Len(down[h]) : down[h][j].id = down[h][i].id => j = i
  BY DEF MessagesInv
<1>r. \A i \in 1 .. Len(down[h]) : \A e \in Conns :
         req[e] # None => req[e].id # down[h][i].id
  BY DEF MessagesInv
<1>o. opened \subseteq opened' /\ opened' \subseteq opened \cup {down[h][1].id}
  OBVIOUS
<1>5. EventsInv'
  BY <1>0, <1>m DEF EventsInv
<1>6. RequestsInv'
  BY DEF RequestsInv, MessagesInv
<1>7. \A d \in Conns \ {h} : down[d] = <<>>
  BY DEF OwnerInv, ServerTalksToRfidOnly
<1>8. MessagesInv'
  <2>. SUFFICES ASSUME NEW d \in Conns, NEW i \in 1 .. Len(down'[d])
                PROVE  (MessagesInv!(d)!(i))'
    BY DEF MessagesInv
  <2>1. d = h
    BY <1>2, <1>7
  <2>2. /\ i + n \in 1 .. Len(down[h]) /\ i + n # 1 /\ down'[d][i] = down[h][i + n]
        /\ 1 \in 1 .. Len(down[h])
    BY <1>2, <1>3, <2>1
  <2>3. \A j \in 1 .. Len(down'[d]) :
           down'[d][j].id = down'[d][i].id => j = i
    <3>. SUFFICES ASSUME NEW j \in 1 .. Len(down'[d]), down'[d][j].id = down'[d][i].id
                  PROVE  j = i
      OBVIOUS
    <3>1. j + n \in 1 .. Len(down[h]) /\ down'[d][j] = down[h][j + n]
      BY <1>2, <1>3, <2>1
    <3>2. j + n = i + n
      BY <2>2, <3>1, <1>m
    <3>. QED
      BY <3>2
  <2>4. down'[d][i].id \notin opened'
    BY <2>2, <1>m, <1>o
  <2>5. /\ down'[d][i].id \in 1 .. events'
        /\ down'[d][i].says \in Opening => down'[d][i].id \in authorised'
    <3>1. events' = events /\ authorised' = authorised
      OBVIOUS
    <3>2. /\ down[h][i + n].id \in 1 .. events
          /\ down[h][i + n].says \in Opening => down[h][i + n].id \in authorised
      BY <2>2, <1>m
    <3>. QED
      BY <2>2, <3>1, <3>2
  <2>6. \A e \in Conns : req'[e] # None => req'[e].id # down'[d][i].id
    BY <2>2, <1>r
  <2>. QED
    BY <2>3, <2>4, <2>5, <2>6
<1>9. OwnerInv'
  BY <1>2, <1>7 DEF OwnerInv, ServerTalksToRfidOnly
<1>. QED
  BY <1>4, <1>5, <1>6, <1>8, <1>9

-----------------------------------------------------------------------------
(* The invariant under each of the actions. *)

\* requestHost() called for a new event: the request is sent, the connection
\* fails, or the message is dropped.
LEMMA InvRequestHost ==
    ASSUME Inv, TypeOK', NEW n \in Nodes, NEW says \in RequestTexts,
           NEW entitled \in BOOLEAN, says \in Granting => entitled,
           events' = events + 1,
           authorised' = IF entitled THEN authorised \cup {events + 1} ELSE authorised,
           RequestHost(n, says, events + 1),
           opened' = opened
    PROVE  Inv'
<1>. USE DEF Inv
<1>1. authorised \subseteq authorised' /\ authorised' \subseteq 1 .. events'
  BY DEF EventsInv, TypeOK
<1>2. ASSUME NEW c \in Conns, ~ InUse(c), Stop(n, c),
             req' = [req EXCEPT ![c] = Request(n, says, events + 1)],
             UNCHANGED <<arrived, client, rfidClient>>
      PROVE  Inv'
  <2>1. says \in Granting => events + 1 \in authorised'
    OBVIOUS
  <2>. QED
    BY <1>1, <1>2, <2>1, SendStep DEF Stop
<1>3. ASSUME Stop(n, None), UNCHANGED <<backlog, req, arrived, client, rfidClient>>
      PROVE  Inv'
  BY <1>1, <1>3, DropConnection
<1>4. CASE UNCHANGED <<window, connVars>>
  <2>1. UNCHANGED <<host, req, arrived, down, rfidClient>>
    BY <1>4 DEF connVars
  <2>. QED
    BY <1>1, <2>1, DropStep DEF ArrivedInv, OwnerInv, ServerTalksToRfidOnly
<1>. QED
  BY <1>2, <1>3, <1>4 DEF RequestHost, ConnectAndPrint

\* The keypad's request is granting only if the password was right.
LEMMA InvKeypad ==
    ASSUME Inv, TypeOK', KeypadStep, UNCHANGED <<rfidVars, serverVars>>
    PROVE  Inv'
<1>. USE DEF Inv
<1>0. opened' = opened /\ Keypad \in Nodes
  BY NodeNames DEF rfidVars
<1>1. CASE ClearKey \/ \E k \in Symbols : SymbolKey(k)
  <2>1. UNCHANGED <<host, req, arrived, down, rfidClient, events, authorised>>
    BY <1>1 DEF ClearKey, SymbolKey, requestVars, connVars
  <2>. QED
    BY <1>0, <2>1, DropStep DEF ArrivedInv, EventsInv, OwnerInv, ServerTalksToRfidOnly
<1>2. CASE CheckKey
  <2>1. Event(input = Password)
    BY <1>2 DEF CheckKey
  <2>2. CASE input = Password
    <3>1. RequestHost(Keypad, "ACCESS GRANTED", events + 1)
      BY <1>2, <2>2, Zenon DEF CheckKey
    <3>2. /\ events' = events + 1
          /\ authorised' = IF TRUE THEN authorised \cup {events + 1} ELSE authorised
      BY <2>1, <2>2 DEF Event
    <3>3. "ACCESS GRANTED" \in RequestTexts
      BY DEF RequestTexts
    <3>. QED
      BY <1>0, <3>1, <3>2, <3>3, InvRequestHost
  <2>3. CASE input # Password
    <3>1. RequestHost(Keypad, "ACCESS DENIED", events + 1)
      BY <1>2, <2>3, Zenon DEF CheckKey
    <3>2. /\ events' = events + 1
          /\ authorised' = IF FALSE THEN authorised \cup {events + 1} ELSE authorised
      BY <2>1, <2>3 DEF Event
    <3>3. "ACCESS DENIED" \in RequestTexts /\ "ACCESS DENIED" \notin Granting
      BY DEF RequestTexts, Granting
    <3>. QED
      BY <1>0, <3>1, <3>2, <3>3, InvRequestHost
  <2>. QED
    BY <2>2, <2>3
<1>3. CASE KeypadRestart
  BY <1>0, <1>3, DropConnection DEF KeypadRestart, NodeRestart, EventsInv
<1>. QED
  BY <1>1, <1>2, <1>3 DEF KeypadStep, HandleKeypad

\* No reading grants anything.
LEMMA InvSensor ==
    ASSUME Inv, TypeOK', SensorStep, UNCHANGED <<input, rfidVars, serverVars>>
    PROVE  Inv'
<1>. USE DEF Inv
<1>. PICK n \in Sensors : Report(n) \/ NodeRestart(n)
  BY DEF SensorStep
<1>0. opened' = opened /\ n \in Nodes
  BY SensorsAssumption, NodeNames DEF rfidVars
<1>1. CASE Report(n)
  <2>1. PICK says \in Reading(n) : RequestHost(n, says, events + 1)
    BY <1>1 DEF Report
  <2>2. says \in RequestTexts /\ says \notin Granting
    BY DEF Reading, RequestTexts, Granting
  <2>3. /\ events' = events + 1
        /\ authorised' = IF FALSE THEN authorised \cup {events + 1} ELSE authorised
    BY <1>1 DEF Report, Event
  <2>. QED
    BY <1>0, <2>1, <2>2, <2>3, InvRequestHost
<1>2. CASE NodeRestart(n)
  BY <1>0, <1>2, DropConnection DEF NodeRestart, EventsInv
<1>. QED
  BY <1>1, <1>2

\* Taking the messages as one string opens the door only for a message that
\* was read alone.
LEMMA ReadOutcome ==
    ASSUME Inv, ReadHostMessage
    PROVE  \E n \in 1 .. Len(down[host[RFID]]) :
             /\ down' = [down EXCEPT ![host[RFID]] = SubSeq(@, n + 1, Len(@))]
             /\ \/ opened' = opened /\ rpc' = "sound"
                \/ /\ down[host[RFID]][1].says \in Opening
                   /\ down[host[RFID]][1].id \notin opened
                   /\ opened' = opened \cup {down[host[RFID]][1].id}
<1>. DEFINE h == host[RFID]
<1>1. h \in Conns /\ down[h] \in Seq(Messages)
  BY NodeNames DEF ReadHostMessage, Connected, Inv, TypeOK
<1>2. PICK n \in 1 .. Len(down[h]) :
          /\ HandleHostSubstring(GetSubstring(SubSeq(down[h], 1, n)))
          /\ down' = [down EXCEPT ![h] = SubSeq(@, n + 1, Len(@))]
  BY DEF ReadHostMessage
<1>3. \/ opened' = opened /\ rpc' = "sound"
      \/ /\ down[h][1].says \in Opening
         /\ opened' = opened \cup {down[h][1].id}
  <2>1. CASE n = 1
    <3>1. GetSubstring(SubSeq(down[h], 1, n)) = down[h][1]
      BY <1>1, <1>2, <2>1 DEF GetSubstring
    <3>. QED
      BY <1>2, <3>1 DEF HandleHostSubstring, RunServo
  <2>2. CASE n # 1
    <3>1. GetSubstring(SubSeq(down[h], 1, n)).says = "garbled"
      BY <1>1, <1>2, <2>2 DEF GetSubstring
    <3>. QED
      BY <1>2, <3>1 DEF HandleHostSubstring, Opening
  <2>. QED
    BY <2>1, <2>2
<1>4. 1 \in 1 .. Len(down[h])
  BY <1>1
<1>5. down[h][1].id \notin opened
  BY <1>1, <1>4 DEF Inv, MessagesInv
<1>. QED
  BY <1>2, <1>3, <1>5

\* The RFID node requests, and reads what has been granted.
LEMMA InvRfid ==
    ASSUME Inv, TypeOK', RfidStep, UNCHANGED <<input, serverVars>>
    PROVE  Inv'
<1>. USE DEF Inv
<1>1. CASE NoCard \/ NoHostMessage \/ EndServo \/ EndSound
  <2>1. UNCHANGED <<host, req, arrived, down, rfidClient, events, authorised, opened>>
    BY <1>1 DEF NoCard, NoHostMessage, EndServo, EndSound, requestVars, connVars
  <2>. QED
    BY <2>1, DropStep DEF ArrivedInv, EventsInv, OwnerInv, ServerTalksToRfidOnly
<1>2. ASSUME NEW tag \in Tags, ReadCard(tag) PROVE Inv'
  <2>1. Event(tag \in ToSet(IDs)) /\ opened' = opened /\ RFID \in Nodes
    BY <1>2, NodeNames, Zenon DEF ReadCard
  <2>2. /\ events' = events + 1
        /\ authorised' = IF tag \in ToSet(IDs) THEN authorised \cup {events + 1}
                                                ELSE authorised
    BY <2>1 DEF Event
  <2>3. ASSUME NEW says \in RequestTexts, says \in Granting => tag \in ToSet(IDs),
               RequestHost(RFID, says, events + 1)
        PROVE  Inv'
    BY <2>1, <2>2, <2>3, InvRequestHost
  <2>4. CASE UNCHANGED <<window, connVars>>
    <3>1. UNCHANGED <<host, req, arrived, down, rfidClient>>
      BY <2>4 DEF connVars
    <3>2. authorised \subseteq authorised' /\ authorised' \subseteq 1 .. events'
      BY <2>2 DEF EventsInv, TypeOK
    <3>. QED
      BY <2>1, <2>2, <3>1, <3>2, DropStep DEF ArrivedInv, OwnerInv, ServerTalksToRfidOnly
  <2>5. IDs[1] \in ToSet(IDs) /\ IDs[3] \in ToSet(IDs)
    BY DEF IDs, ToSet
  <2>6. /\ "Access Martin" \in RequestTexts /\ "Access Magnus" \in RequestTexts
        /\ "Access denied" \in RequestTexts /\ "Access denied" \notin Granting
    BY DEF RequestTexts, Granting
  <2>7. \/ tag = IDs[1] /\ RequestHost(RFID, "Access Martin", events + 1)
        \/ tag = IDs[3] /\ RequestHost(RFID, "Access Magnus", events + 1)
        \/ UNCHANGED <<window, connVars>>
        \/ RequestHost(RFID, "Access denied", events + 1)
    BY <1>2, Zenon DEF ReadCard
  <2>. QED
    BY <2>3, <2>4, <2>5, <2>6, <2>7
<1>3. CASE ReadHostMessage
  <2>1. host[RFID] \in Conns
    BY <1>3, NodeNames DEF ReadHostMessage, Connected, TypeOK
  <2>2. UNCHANGED <<host, rfidClient, req, arrived, events, authorised>>
    BY <1>3 DEF ReadHostMessage
  <2>. QED
    BY <1>3, <2>1, <2>2, ReadOutcome, ReadStep
<1>4. CASE RfidRestart
  BY <1>4, NodeNames, DropConnection DEF RfidRestart, NodeRestart, EventsInv
<1>. QED
  BY <1>1, <1>2, <1>3, <1>4 DEF RfidStep, RfidLoop, CheckRFID

\* println() either appends to what the RFID node will read or does nothing.
LEMMA PrintlnOutcome ==
    ASSUME Inv, NEW c \in Conns \cup {None}, NEW m,
           \A n \in Nodes \ {RFID} : c # None => host[n] # c
    PROVE  \/ Println(c, m) = down
           \/ /\ host[RFID] = c /\ c \in Conns
              /\ Println(c, m) = [down EXCEPT ![host[RFID]] = Append(@, m)]
  BY DEF Println

\* The server answers a request on rfidClient, with a grant only for one.
LEMMA InvClientRequest ==
    ASSUME Inv, TypeOK', ClientRequest, UNCHANGED <<input, rfidVars>>
    PROVE  Inv'
<1>. USE DEF Inv
<1>. DEFINE request == req[client]
<1>1. client \in Conns /\ request # None /\ request \in Requests
  BY DEF ClientRequest, ArrivedInv, TypeOK
<1>2. /\ req' = [req EXCEPT ![client] = None]
      /\ arrived' = arrived \ {client}
      /\ UNCHANGED <<host, events, authorised, opened>>
  BY DEF ClientRequest, ReleaseClient, rfidVars
<1>3. \A c \in Conns : req'[c] \in {req[c], None} /\ (c # client => req'[c] = req[c])
  BY <1>1, <1>2 DEF TypeOK
<1>4. ArrivedInv'
  BY <1>1, <1>2, <1>3 DEF ArrivedInv, TypeOK
<1>5. ASSUME down' = down, rfidClient' = rfidClient
      PROVE  Inv'
  BY <1>2, <1>3, <1>4, <1>5, DropStep DEF EventsInv, OwnerInv, ServerTalksToRfidOnly
<1>6. ASSUME NEW says \in ReplyTexts, says \in Opening => request.says \in Granting,
             NEW to \in Conns \cup {None}, rfidClient' = to,
             \A n \in Nodes \ {RFID} : to # None => host[n] # to,
             down' = Println(to, Reply(says, request))
      PROVE  Inv'
  <2>. DEFINE m == Reply(says, request)
  <2>1. m \in Messages /\ m.id = request.id /\ m.says = says
    BY <1>1 DEF Reply, Messages, Requests
  <2>2. /\ request.id \in 1 .. events /\ request.id \notin opened
        /\ request.says \in Granting => request.id \in authorised
        /\ \A c \in Conns : req'[c] # None => req'[c].id # request.id
    BY <1>1, <1>2, <1>3 DEF RequestsInv, TypeOK
  <2>3. CASE down' = down
    BY <1>2, <1>3, <1>4, <1>6, <2>3, DropStep DEF EventsInv, OwnerInv, ServerTalksToRfidOnly
  <2>4. CASE /\ host[RFID] = to /\ to \in Conns
             /\ down' = [down EXCEPT ![host[RFID]] = Append(@, m)]
    <3>1. \A i \in 1 .. Len(down[host[RFID]]) : down[host[RFID]][i].id # m.id
      BY <1>1, <2>1, <2>4 DEF MessagesInv
    <3>2. /\ \A n \in Nodes \ {RFID} : rfidClient' # None => host[n] # rfidClient'
          /\ m.id \in 1 .. events' /\ m.id \notin opened
          /\ m.says \in Opening => m.id \in authorised'
          /\ \A c \in Conns : req'[c] # None => req'[c].id # m.id
      BY <1>2, <1>6, <2>1, <2>2
    <3>3. authorised \subseteq authorised' /\ authorised' \subseteq 1 .. events'
          /\ events' \in {events, events + 1}
      BY <1>2 DEF EventsInv
    <3>. QED
      BY <1>2, <1>3, <1>4, <2>1, <2>4, <3>1, <3>2, <3>3, PrintStep
  <2>. QED
    BY <1>6, <2>3, <2>4, PrintlnOutcome
<1>7. CASE HandleTemperatureInput(request) \/ HandleProximityInput(request)
  BY <1>5, <1>7 DEF HandleTemperatureInput, HandleProximityInput
<1>8. CASE HandleKeypadInput(request)
  <2>1. rfidClient' = rfidClient /\ rfidClient \in Conns \cup {None}
        /\ \A n \in Nodes \ {RFID} : rfidClient # None => host[n] # rfidClient
    BY <1>8 DEF HandleKeypadInput, OwnerInv, ServerTalksToRfidOnly, TypeOK
  <2>2. CASE request.says = "ACCESS GRANTED"
    <3>1. down' = Println(rfidClient, Reply("Access OK", request))
      BY <1>8, <2>2 DEF HandleKeypadInput
    <3>2. "Access OK" \in ReplyTexts /\ request.says \in Granting
      BY <2>2 DEF ReplyTexts, Granting
    <3>. QED
      BY <1>6, <2>1, <3>1, <3>2
  <2>3. CASE request.says # "ACCESS GRANTED"
    <3>1. down' = Println(rfidClient, Reply("Access NO", request))
      BY <1>8, <2>3 DEF HandleKeypadInput
    <3>2. "Access NO" \in ReplyTexts /\ "Access NO" \notin Opening
      BY DEF ReplyTexts, Opening
    <3>. QED
      BY <1>6, <2>1, <3>1, <3>2
  <2>. QED
    BY <2>2, <2>3
<1>9. CASE request.from = RFID /\ HandleRFIDInput(request)
  <2>1. rfidClient' = client
        /\ \A n \in Nodes \ {RFID} : client # None => host[n] # client
    BY <1>1, <1>9 DEF HandleRFIDInput, OwnerInv
  <2>2. CASE request.says \in {"Access Martin", "Access Magnus"}
    <3>1. down' = Println(client, Reply(request.says, request))
      BY <1>9, <2>1, <2>2 DEF HandleRFIDInput
    <3>2. request.says \in ReplyTexts /\ request.says \in Granting
      BY <2>2 DEF ReplyTexts, Granting
    <3>. QED
      BY <1>1, <1>6, <2>1, <3>1, <3>2
  <2>3. CASE request.says \notin {"Access Martin", "Access Magnus"}
    <3>1. down' = Println(client, Reply("Access NO", request))
      BY <1>9, <2>1, <2>3 DEF HandleRFIDInput
    <3>2. "Access NO" \in ReplyTexts /\ "Access NO" \notin Opening
      BY DEF ReplyTexts, Opening
    <3>. QED
      BY <1>1, <1>6, <2>1, <3>1, <3>2
  <2>. QED
    BY <2>2, <2>3
<1>. QED
  BY <1>7, <1>8, <1>9 DEF ClientRequest

\* The server's steps; the button of the page grants without a request.
LEMMA InvServer ==
    ASSUME Inv, TypeOK', ServerStep, UNCHANGED <<input, rfidVars>>
    PROVE  Inv'
<1>. USE DEF Inv
<1>0. opened' = opened
  BY DEF rfidVars
<1>1. CASE Available \/ PressButton
  <2>1. UNCHANGED <<host, rfidClient, req, arrived, down, events, authorised>>
    BY <1>1 DEF Available, PressButton, requestVars, connVars
  <2>. QED
    BY <1>0, <2>1, DropStep DEF ArrivedInv, EventsInv, OwnerInv, ServerTalksToRfidOnly
<1>2. CASE ReadTimeout
  <2>1. /\ client \in Conns
        /\ req' = [req EXCEPT ![client] = None]
        /\ arrived' = arrived \ {client}
        /\ UNCHANGED <<host, rfidClient, down, events, authorised>>
    BY <1>2 DEF ReadTimeout, ReleaseClient, TypeOK
  <2>2. \A c \in Conns : req'[c] \in {req[c], None} /\ (c # client => req'[c] = req[c])
    BY <2>1 DEF TypeOK
  <2>3. ArrivedInv'
    BY <2>1, <2>2 DEF ArrivedInv, TypeOK
  <2>. QED
    BY <1>0, <2>1, <2>2, <2>3, DropStep DEF EventsInv, OwnerInv, ServerTalksToRfidOnly
<1>3. CASE ClientRequest
  BY <1>3, InvClientRequest
<1>4. CASE On
  <2>. DEFINE m == [says |-> "Open", id |-> events + 1]
  <2>1. /\ events' = events + 1
        /\ authorised' = authorised \cup {events + 1}
        /\ UNCHANGED <<host, rfidClient, req, arrived>>
        /\ down' = Println(rfidClient, m)
    BY <1>4 DEF On, Event
  <2>2. authorised \subseteq authorised' /\ authorised' \subseteq 1 .. events'
    BY <2>1 DEF EventsInv, TypeOK
  <2>3. ArrivedInv'
    BY <2>1 DEF ArrivedInv
  <2>4. \A n \in Nodes \ {RFID} : rfidClient' # None => host[n] # rfidClient'
    BY <2>1 DEF OwnerInv, ServerTalksToRfidOnly
  <2>5. CASE down' = down
    BY <1>0, <2>1, <2>2, <2>3, <2>4, <2>5, DropStep DEF OwnerInv, ServerTalksToRfidOnly
  <2>6. CASE /\ host[RFID] \in Conns
             /\ down' = [down EXCEPT ![host[RFID]] = Append(@, m)]
    <3>1. m \in Messages /\ m.id = events + 1 /\ m.id \in authorised'
      <4>1. events + 1 \in Nat
        BY DEF TypeOK
      <4>. QED
        BY <2>1, <4>1 DEF Messages, ReplyTexts
    <3>2. events + 1 \notin 1 .. events /\ events + 1 \in 1 .. events'
      BY <2>1 DEF TypeOK
    <3>3. m.id \notin opened
      BY <3>1, <3>2 DEF EventsInv
    <3>4. \A c \in Conns : req'[c] # None => req'[c].id # m.id
      BY <2>1, <3>1, <3>2 DEF RequestsInv
    <3>5. \A i \in 1 .. Len(down[host[RFID]]) : down[host[RFID]][i].id # m.id
      BY <2>6, <3>1, <3>2 DEF MessagesInv
    <3>. HIDE DEF m
    <3>. QED
      BY <1>0, <2>1, <2>2, <2>3, <2>4, <2>6, <3>1, <3>2, <3>3, <3>4, <3>5, PrintStep
  <2>7. rfidClient \in Conns \cup {None}
    BY DEF TypeOK
  <2>. QED
    BY <2>1, <2>4, <2>5, <2>6, <2>7, PrintlnOutcome
<1>5. CASE ServerRestart
  <2>1. /\ rfidClient' = None /\ arrived' = {}
        /\ \A c \in Conns : req'[c] = None
        /\ UNCHANGED <<host, down, events, authorised>>
    BY <1>5 DEF ServerRestart
  <2>. QED
    BY <1>0, <2>1, DropStep DEF ArrivedInv, EventsInv, OwnerInv, ServerTalksToRfidOnly
<1>. QED
  BY <1>1, <1>2, <1>3, <1>4, <1>5 DEF ServerStep

\* A request arrives, or a window opens or closes.
LEMMA TypeEnvironment ==
    ASSUME TypeOK, NetworkStep \/ TimeStep, UNCHANGED <<input, rfidVars, serverVars>>
    PROVE  TypeOK'
<1>. USE DEF rfidVars, serverVars
<1>1. CASE NetworkStep
  BY <1>1 DEF NetworkStep, Arrive, TypeOK
<1>2. CASE TimeStep
  <2>1. PICK n \in {Keypad, RFID} \cup Sensors : Elapse(n)
    BY <1>2 DEF TimeStep
  <2>2. window' \in [Nodes -> BOOLEAN]
    BY <2>1 DEF Elapse, TypeOK
  <2>. QED
    BY <2>1, <2>2 DEF Elapse, connVars, TypeOK
<1>. QED
  BY <1>1, <1>2

\* The network and the clocks.
LEMMA InvEnvironment ==
    ASSUME Inv, TypeOK', NetworkStep \/ TimeStep,
           UNCHANGED <<input, rfidVars, serverVars>>
    PROVE  Inv'
<1>. USE DEF Inv
<1>1. UNCHANGED <<host, rfidClient, req, down, events, authorised, opened>>
  BY DEF NetworkStep, Arrive, TimeStep, Elapse, connVars, rfidVars
<1>2. ArrivedInv'
  BY DEF NetworkStep, Arrive, TimeStep, Elapse, connVars, ArrivedInv
<1>. QED
  BY <1>1, <1>2, DropStep DEF EventsInv, OwnerInv, ServerTalksToRfidOnly

\* Stuttering.
LEMMA InvUnchanged == Inv /\ UNCHANGED vars => Inv'
  BY DEF vars, requestVars, connVars, rfidVars, serverVars, Inv, TypeOK, ArrivedInv,
         EventsInv, RequestsInv, MessagesInv, OwnerInv, ServerTalksToRfidOnly

\* Every step keeps the invariant.
LEMMA InvStep == Inv /\ [Next]_vars => Inv'
<1>. SUFFICES ASSUME Inv, [Next]_vars PROVE Inv'
  OBVIOUS
<1>0. TypeOK /\ \A c \in arrived : req[c] # None
  BY DEF Inv, ArrivedInv
<1>1. CASE KeypadStep /\ UNCHANGED <<rfidVars, serverVars>>
  BY <1>0, <1>1, TypeKeypad, InvKeypad
<1>2. CASE RfidStep /\ UNCHANGED <<input, serverVars>>
  BY <1>0, <1>2, TypeRfid, InvRfid
<1>3. CASE ServerStep /\ UNCHANGED <<input, rfidVars>>
  BY <1>0, <1>3, TypeServer, InvServer
<1>4. CASE SensorStep /\ UNCHANGED <<input, rfidVars, serverVars>>
  BY <1>0, <1>4, TypeSensor, InvSensor
<1>5. CASE (NetworkStep \/ TimeStep) /\ UNCHANGED <<input, rfidVars, serverVars>>
  BY <1>0, <1>5, TypeEnvironment, InvEnvironment
<1>6. CASE UNCHANGED vars
  BY <1>6, InvUnchanged
<1>. QED
  BY <1>1, <1>2, <1>3, <1>4, <1>5, <1>6 DEF Next

-----------------------------------------------------------------------------

\* The conjunction of the invariants holds in every reachable state.
THEOREM Invariance == Spec => []Inv
  BY InitInv, InvStep, PTL DEF Spec

\* Every variable keeps its type: in particular the server never dispatches
\* on a request that is not there.
THEOREM TypeCorrect == Spec => []TypeOK
<1>1. Inv => TypeOK
  BY DEF Inv
<1>. QED
  BY <1>1, Invariance, PTL

\* The door opens only for an approved card, the right password or the page's
\* button, for any number of connections, users and cards.
THEOREM DoorIsGuarded == Spec => []OpensOnlyWhenAuthorised
<1>1. Inv => OpensOnlyWhenAuthorised
  BY DEF Inv, EventsInv, OpensOnlyWhenAuthorised
<1>. QED
  BY <1>1, Invariance, PTL

\* What the server writes on rfidClient reaches the RFID node or nobody.
THEOREM RepliesAreForRfid == Spec => []ServerTalksToRfidOnly
<1>1. Inv => ServerTalksToRfidOnly
  BY DEF Inv, OwnerInv
<1>. QED
  BY <1>1, Invariance, PTL

\* The servo is only started by reading a message.
LEMMA ServoStep ==
    ASSUME Inv, [Next]_vars, rpc' \in {"servo", "servo, sound"}, rpc' # rpc
    PROVE  opened' # opened
<1>1. CASE RfidStep
  <2>1. ReadHostMessage
    BY <1>1 DEF RfidStep, RfidLoop, CheckRFID, NoCard, ReadCard, NoHostMessage, EndServo,
                EndSound, RfidRestart
  <2>. QED
    BY <2>1, ReadOutcome
<1>2. CASE UNCHANGED rfidVars
  BY <1>2 DEF rfidVars
<1>. QED
  BY <1>1, <1>2 DEF Next, vars

\* A card, a password or an /on request opens the door at most once: the event
\* whose message turns the servo has not turned it before.
THEOREM OneOpeningPerEvent == Spec => OpensOncePerEvent
<1>1. Inv /\ [Next]_vars
        => [rpc' \in {"servo", "servo, sound"} /\ rpc' # rpc => opened' # opened]_vars
  BY ServoStep
<1>. QED
  BY <1>1, Invariance, PTL DEF Spec, OpensOncePerEvent

\* The only step that changes the set of opening events adds one that entitles
\* to the door and has not opened it.
LEMMA ReadOpens ==
    ASSUME Inv, ReadHostMessage, Inv'
    PROVE  Access!Open \/ UNCHANGED <<authorised, opened, door>>
<1>. DEFINE h == host[RFID]
<1>1. h \in Conns /\ down[h] \in Seq(Messages)
  BY NodeNames DEF ReadHostMessage, Connected, Inv, TypeOK
<1>2. PICK n \in 1 .. Len(down[h]) : HandleHostSubstring(GetSubstring(SubSeq(down[h], 1, n)))
  BY DEF ReadHostMessage
<1>3. \/ opened' = opened \cup {GetSubstring(SubSeq(down[h], 1, n)).id} /\ door' = "open"
      \/ UNCHANGED <<opened, door>>
  BY <1>2 DEF HandleHostSubstring, RunServo
<1>4. \/ opened' = opened
      \/ down[h][1].id \notin opened /\ opened' = opened \cup {down[h][1].id}
  BY ReadOutcome
<1>5. authorised' = authorised /\ opened' \subseteq authorised
  BY DEF ReadHostMessage, Inv, EventsInv
<1>6. opened' = opened => UNCHANGED <<opened, door>>
  <2>1. CASE n = 1
    <3>1. GetSubstring(SubSeq(down[h], 1, n)) = down[h][1]
      BY <1>1, <1>2, <2>1 DEF GetSubstring
    <3>2. 1 \in 1 .. Len(down[h])
      BY <1>1, <1>2
    <3>3. down[h][1].id \notin opened
      BY <1>1, <3>2 DEF Inv, MessagesInv
    <3>. QED
      BY <1>3, <3>1, <3>3
  <2>2. CASE n # 1
    <3>1. GetSubstring(SubSeq(down[h], 1, n)).says = "garbled"
      BY <1>1, <1>2, <2>2 DEF GetSubstring
    <3>. QED
      BY <1>2, <3>1 DEF HandleHostSubstring, Opening
  <2>. QED
    BY <2>1, <2>2
<1>7. CASE opened' = opened
  BY <1>5, <1>6, <1>7
<1>8. CASE opened' # opened
  <2>1. down[h][1].id \in authorised \ opened /\ opened' = opened \cup {down[h][1].id}
        /\ door' = "open"
    BY <1>3, <1>4, <1>5, <1>8
  <2>. QED
    BY <1>5, <2>1 DEF Access!Open
<1>. QED
  BY <1>7, <1>8

\* Every step is one of AccessControl, or changes nothing that it has.
LEMMA AccessStep ==
    Inv /\ Inv' /\ [Next]_vars
      => [Access!Authorise \/ Access!Open \/ Access!Close]_(Access!accessVars)
<1>. SUFFICES ASSUME Inv, Inv', [Next]_vars
              PROVE  \/ Access!Authorise \/ Access!Open \/ Access!Close
                     \/ UNCHANGED <<authorised, opened, door>>
  BY DEF Access!accessVars
<1>0. events + 1 \notin authorised /\ authorised' \subseteq 1 .. MaxEvents
  BY DEF Inv, EventsInv, TypeOK
<1>1. ASSUME NEW entitled, Event(entitled), UNCHANGED <<opened, door>>
      PROVE  Access!Authorise \/ UNCHANGED <<authorised, opened, door>>
  BY <1>0, <1>1 DEF Event, Access!Authorise
<1>2. CASE KeypadStep /\ UNCHANGED <<rfidVars, serverVars>>
  BY <1>1, <1>2 DEF KeypadStep, HandleKeypad, ClearKey, SymbolKey, CheckKey, KeypadRestart,
                    NodeRestart, requestVars, rfidVars
<1>3. CASE RfidStep /\ UNCHANGED <<input, serverVars>>
  <2>1. CASE NoCard \/ NoHostMessage \/ EndSound \/ RfidRestart
    BY <2>1 DEF NoCard, NoHostMessage, EndSound, RfidRestart, NodeRestart, requestVars
  <2>2. CASE \E tag \in Tags : ReadCard(tag)
    BY <1>1, <2>2, Zenon DEF ReadCard
  <2>3. CASE ReadHostMessage
    BY <2>3, ReadOpens
  <2>4. CASE EndServo
    BY <2>4 DEF EndServo, requestVars, Access!Close, Inv, TypeOK
  <2>. QED
    BY <1>3, <2>1, <2>2, <2>3, <2>4 DEF RfidStep, RfidLoop, CheckRFID
<1>4. CASE ServerStep /\ UNCHANGED <<input, rfidVars>>
  BY <1>1, <1>4 DEF ServerStep, Available, ReadTimeout, ClientRequest, PressButton, On,
                    ServerRestart, requestVars, rfidVars
<1>5. CASE (SensorStep \/ NetworkStep \/ TimeStep) /\ UNCHANGED <<input, rfidVars, serverVars>>
  BY <1>1, <1>5 DEF SensorStep, Report, NodeRestart, NetworkStep, TimeStep, Elapse, rfidVars
<1>6. CASE UNCHANGED vars
  BY <1>6 DEF vars, requestVars, rfidVars
<1>. QED
  BY <1>2, <1>3, <1>4, <1>5, <1>6 DEF Next

\* The system implements AccessControl: the network, the server's shared
\* connection and the restarts are invisible at the door.
THEOREM Refinement == Spec => ImplementsAccessControl
<1>1. Init => Access!AccessInit
  BY DEF Init, RequestInit, RfidInit, Access!AccessInit
<1>. QED
  BY <1>1, AccessStep, Invariance, PTL DEF Spec, ImplementsAccessControl, Access!AccessSpec

-----------------------------------------------------------------------------
(* What the page shows is never older than it was.  The server reads the   *)
(* requests in the order of their events: those that wait, client's first  *)
(* and then the backlog's, are in that order and later than every status.  *)

PendingInv ==
    /\ client # None => req[client] # None
    /\ \A i \in 1 .. Len(backlog) : req[backlog[i]] # None
    /\ \A c \in Conns : req[c] # None =>
          /\ c = client \/ \E i \in 1 .. Len(backlog) : backlog[i] = c
          /\ \A n \in Nodes : status[n].id < req[c].id

QueueInv ==
    /\ \A i \in 1 .. Len(backlog) : client # None => req[client].id < req[backlog[i]].id
    /\ \A i, j \in 1 .. Len(backlog) : i < j => req[backlog[i]].id < req[backlog[j]].id

StatusInv == \A n \in Nodes : status[n].id \in 0 .. events

OrderInv == PendingInv /\ QueueInv /\ StatusInv

\* The first statuses are those of no event.
LEMMA InitialIds == \A n \in Nodes : Initially[n].id = 0
  BY DEF Initially, Shown

\* Nothing waits when the server starts.
LEMMA NothingWaits ==
    ASSUME events \in Nat, status = Initially, backlog = <<>>, client = None,
           req = [c \in Conns |-> None]
    PROVE  OrderInv
<1>1. \A i \in 1 .. Len(backlog) : FALSE
  OBVIOUS
<1>. QED
  BY <1>1, InitialIds DEF OrderInv, PendingInv, QueueInv, StatusInv

\* No request waits when everything starts.
LEMMA OrderInit == Init => OrderInv
  BY NothingWaits DEF Init, ConnInit, RequestInit, ServerInit

\* The requests that wait, their order and the statuses stay as they are.
OrderSame == UNCHANGED <<backlog, client, req, status>>

\* A new request is the last to be served.
OrderSend ==
    /\ events' = events + 1 /\ UNCHANGED <<client, status>>
    /\ \E c \in Conns, r \in Requests :
          /\ ~ InUse(c) /\ r.id = events + 1
          /\ backlog' = Append(backlog, c) /\ req' = [req EXCEPT ![c] = r]

\* The server is done with a request, which a status may have taken over.
OrderRelease ==
    /\ client \in Conns /\ client' = None /\ req' = [req EXCEPT ![client] = None]
    /\ UNCHANGED <<backlog, events>>
    /\ \/ status' = status
       \/ \E n \in Nodes, s \in Statuses :
             req[client] # None /\ s.id = req[client].id /\ status' = [status EXCEPT ![n] = s]

\* requestHost() sends the request or drops it.
LEMMA RequestHostOrder ==
    ASSUME TypeOK, NEW n \in Nodes, NEW says \in RequestTexts,
           RequestHost(n, says, events + 1), events' = events + 1, UNCHANGED status
    PROVE  OrderSame \/ OrderSend
<1>1. /\ Request(n, says, events + 1) \in Requests
      /\ Request(n, says, events + 1).id = events + 1
  BY DEF TypeOK, Request, Requests
<1>2. CASE UNCHANGED <<window, connVars>>
  BY <1>2 DEF connVars, OrderSame
<1>3. CASE ConnectAndPrint(n, Request(n, says, events + 1))
  BY <1>1, <1>3 DEF ConnectAndPrint, OrderSame, OrderSend
<1>. QED
  BY <1>2, <1>3 DEF RequestHost

\* Every step does one of these to the requests, or takes the first of the
\* backlog, or resets the server.
LEMMA OrderEffects ==
    ASSUME Inv, [Next]_vars
    PROVE  \/ OrderSame /\ events' \in {events, events + 1}
           \/ OrderSend \/ OrderRelease
           \/ Available /\ UNCHANGED status
           \/ ServerRestart
<1>0. TypeOK
  BY DEF Inv
<1>1. CASE KeypadStep /\ UNCHANGED <<rfidVars, serverVars>>
  <2>1. CASE CheckKey
    <3>1. events' = events + 1 /\ status' = status
      BY <1>1, <2>1 DEF CheckKey, Event, serverVars
    <3>2. \/ RequestHost(Keypad, "ACCESS GRANTED", events + 1)
          \/ RequestHost(Keypad, "ACCESS DENIED", events + 1)
      <4>1. CASE input = Password
        BY <2>1, <4>1, Zenon DEF CheckKey
      <4>2. CASE input # Password
        BY <2>1, <4>2, Zenon DEF CheckKey
      <4>. QED
        BY <4>1, <4>2
    <3>3. "ACCESS GRANTED" \in RequestTexts /\ "ACCESS DENIED" \in RequestTexts
      BY DEF RequestTexts
    <3>. QED
      BY <1>0, <3>1, <3>2, <3>3, NodeNames, RequestHostOrder
  <2>2. CASE ClearKey \/ (\E k \in Symbols : SymbolKey(k)) \/ KeypadRestart
    BY <1>1, <2>2 DEF ClearKey, SymbolKey, KeypadRestart, NodeRestart, requestVars, connVars,
       serverVars, OrderSame
  <2>. QED
    BY <1>1, <2>1, <2>2 DEF KeypadStep, HandleKeypad
<1>2. CASE RfidStep /\ UNCHANGED <<input, serverVars>>
  <2>1. ASSUME NEW tag \in Tags, ReadCard(tag)
        PROVE  (OrderSame /\ events' \in {events, events + 1}) \/ OrderSend
    <3>1. events' = events + 1 /\ status' = status
      BY <1>2, <2>1 DEF ReadCard, Event, serverVars
    <3>2. \/ RequestHost(RFID, "Access Martin", events + 1)
          \/ RequestHost(RFID, "Access Magnus", events + 1)
          \/ RequestHost(RFID, "Access denied", events + 1)
          \/ UNCHANGED <<window, connVars>>
      BY <2>1, Zenon DEF ReadCard
    <3>3. /\ "Access Martin" \in RequestTexts /\ "Access Magnus" \in RequestTexts
          /\ "Access denied" \in RequestTexts
      BY DEF RequestTexts
    <3>4. CASE UNCHANGED <<window, connVars>>
      BY <3>1, <3>4 DEF connVars, OrderSame
    <3>. QED
      BY <1>0, <3>1, <3>2, <3>3, <3>4, NodeNames, RequestHostOrder
  <2>2. CASE NoCard \/ ReadHostMessage \/ NoHostMessage \/ EndServo \/ EndSound \/ RfidRestart
    BY <1>2, <2>2 DEF NoCard, ReadHostMessage, NoHostMessage, EndServo, EndSound, RfidRestart,
       NodeRestart, requestVars, connVars, serverVars, OrderSame
  <2>. QED
    BY <1>2, <2>1, <2>2 DEF RfidStep, RfidLoop, CheckRFID
<1>3. CASE ServerStep /\ UNCHANGED <<input, rfidVars>>
  <2>1. CASE ReadTimeout
    BY <1>0, <2>1 DEF ReadTimeout, ReleaseClient, serverVars, TypeOK, OrderRelease
  <2>2. CASE ClientRequest
    <3>. DEFINE r == req[client]
    <3>1. client \in Conns /\ r # None /\ r \in Requests
      BY <2>2 DEF ClientRequest, Inv, ArrivedInv, TypeOK
    <3>2. Shown(r.says, r.id) \in Statuses /\ Shown(r.says, r.id).id = r.id
      BY <3>1 DEF Shown, Statuses, Requests
    <3>3. \E n \in Nodes : status' = [status EXCEPT ![n] = Shown(r.says, r.id)]
      BY <2>2, NodeNames DEF ClientRequest, HandleTemperatureInput, HandleProximityInput,
         HandleKeypadInput, HandleRFIDInput
    <3>4. client' = None /\ req' = [req EXCEPT ![client] = None] /\ UNCHANGED <<backlog, events>>
      BY <2>2 DEF ClientRequest, ReleaseClient
    <3>. QED
      BY <3>1, <3>2, <3>3, <3>4 DEF OrderRelease
  <2>3. CASE PressButton
    BY <2>3 DEF PressButton, requestVars, connVars, OrderSame
  <2>4. CASE On
    BY <2>4 DEF On, Event, OrderSame
  <2>5. CASE Available
    BY <2>5 DEF Available, serverVars
  <2>. QED
    BY <1>3, <2>1, <2>2, <2>3, <2>4, <2>5 DEF ServerStep
<1>4. CASE SensorStep /\ UNCHANGED <<input, rfidVars, serverVars>>
  <2>1. PICK n \in Sensors : Report(n) \/ NodeRestart(n)
    BY <1>4 DEF SensorStep
  <2>2. CASE Report(n)
    <3>1. PICK says \in Reading(n) : RequestHost(n, says, events + 1)
      BY <2>2 DEF Report
    <3>2. events' = events + 1 /\ status' = status
      BY <1>4, <2>2 DEF Report, Event, serverVars
    <3>3. n \in Nodes /\ says \in RequestTexts
      BY SensorsAssumption, NodeNames DEF Reading, RequestTexts
    <3>. QED
      BY <1>0, <3>1, <3>2, <3>3, RequestHostOrder
  <2>3. CASE NodeRestart(n)
    BY <1>4, <2>3 DEF NodeRestart, serverVars, OrderSame
  <2>. QED
    BY <2>1, <2>2, <2>3
<1>5. CASE (NetworkStep \/ TimeStep) /\ UNCHANGED <<input, rfidVars, serverVars>>
  BY <1>5 DEF NetworkStep, Arrive, TimeStep, Elapse, connVars, serverVars, OrderSame
<1>6. CASE UNCHANGED vars
  BY <1>6 DEF vars, requestVars, connVars, serverVars, OrderSame
<1>. QED
  BY <1>1, <1>2, <1>3, <1>4, <1>5, <1>6 DEF Next

\* The order survives every step.
LEMMA OrderStep == Inv /\ OrderInv /\ [Next]_vars => OrderInv'
<1>. SUFFICES ASSUME Inv, OrderInv, [Next]_vars PROVE OrderInv'
  OBVIOUS
<1>1. /\ backlog \in Seq(Conns) /\ client \in Conns \cup {None}
      /\ req \in [Conns -> Requests \cup {None}]
      /\ status \in [Nodes -> Statuses] /\ events \in Nat /\ None \notin Conns
      /\ \A c \in Conns : req[c] # None => req[c].id \in 1 .. events
      /\ \A i \in 1 .. Len(backlog) : backlog[i] \in Conns
  BY ConnsAssumption, MaxEventsAssumption DEF Inv, TypeOK, RequestsInv
<1>. USE DEF OrderInv
<1>2. CASE OrderSame /\ events' \in {events, events + 1}
  <2>1. UNCHANGED <<backlog, client, req, status>>
    BY <1>2 DEF OrderSame
  <2>2. PendingInv'
    BY <2>1 DEF PendingInv
  <2>3. QueueInv'
    BY <2>1 DEF QueueInv
  <2>4. StatusInv'
    <3>1. \A n \in Nodes : status[n].id \in 0 .. events
      BY DEF StatusInv
    <3>2. status' = status /\ events' \in {events, events + 1} /\ events \in Nat
      BY <1>1, <1>2, <2>1
    <3>. QED
      BY <3>1, <3>2 DEF StatusInv
  <2>. QED
    BY <2>2, <2>3, <2>4
<1>3. CASE OrderSend
  <2>1. PICK c \in Conns, r \in Requests :
          /\ ~ InUse(c) /\ r.id = events + 1
          /\ backlog' = Append(backlog, c) /\ req' = [req EXCEPT ![c] = r]
    BY <1>3 DEF OrderSend
  <2>2. c # client /\ \A i \in 1 .. Len(backlog) : backlog[i] # c
    BY <1>1, <2>1 DEF InUse, ServerEndOpen, ToSet
  <2>3. /\ events' = events + 1 /\ UNCHANGED <<client, status>>
        /\ req'[c] = r /\ r # None /\ \A d \in Conns : d # c => req'[d] = req[d]
    BY <1>1, <1>3, <2>1, NoneAssumption DEF OrderSend
  <2>4. /\ Len(backlog') = Len(backlog) + 1 /\ backlog'[Len(backlog) + 1] = c
        /\ Len(backlog) \in Nat
        /\ \A i \in 1 .. Len(backlog) : backlog'[i] = backlog[i]
    BY <1>1, <2>1
  <2>5. PendingInv'
    BY <1>1, <2>1, <2>2, <2>3, <2>4 DEF PendingInv, StatusInv
  <2>6. QueueInv'
    BY <1>1, <2>1, <2>2, <2>3, <2>4 DEF PendingInv, QueueInv
  <2>. QED
    BY <1>1, <2>3, <2>5, <2>6 DEF StatusInv
<1>4. CASE OrderRelease
  <2>1. /\ client \in Conns /\ client' = None /\ UNCHANGED <<backlog, events>>
        /\ req'[client] = None /\ \A d \in Conns : d # client => req'[d] = req[d]
    BY <1>1, <1>4 DEF OrderRelease
  <2>2. \A i \in 1 .. Len(backlog) : backlog[i] # client
    BY <1>1, <2>1 DEF QueueInv, PendingInv
  <2>3. \A n \in Nodes : status'[n].id = status[n].id
                         \/ (req[client] # None /\ status'[n].id = req[client].id)
    BY <1>1, <1>4 DEF OrderRelease
  <2>4. PendingInv'
    BY <1>1, <2>1, <2>2, <2>3 DEF PendingInv, QueueInv
  <2>. QED
    BY <1>1, <2>1, <2>2, <2>3, <2>4 DEF QueueInv, StatusInv
<1>5. CASE Available /\ UNCHANGED status
  <2>1. /\ client = None /\ backlog # <<>> /\ client' = backlog[1]
        /\ Len(backlog') = Len(backlog) - 1 /\ Len(backlog) \in Nat
        /\ \A i \in 1 .. Len(backlog') : backlog'[i] = backlog[i + 1]
        /\ UNCHANGED <<req, status, events>>
    BY <1>1, <1>5 DEF Available
  <2>2. \A i \in 1 .. Len(backlog) :
           i = 1 \/ (i - 1 \in 1 .. Len(backlog') /\ backlog'[i - 1] = backlog[i])
    BY <2>1
  <2>3. client' # None /\ req[client'] # None
    BY <1>1, <2>1 DEF PendingInv
  <2>4. \A i \in 1 .. Len(backlog') : i + 1 \in 1 .. Len(backlog) /\ 1 < i + 1
    BY <2>1
  <2>5. ASSUME NEW c \in Conns, req[c] # None
        PROVE  c = client' \/ \E i \in 1 .. Len(backlog') : backlog'[i] = c
    <3>1. PICK i \in 1 .. Len(backlog) : backlog[i] = c
      BY <1>1, <2>1, <2>5 DEF PendingInv
    <3>. QED
      BY <2>1, <2>2, <3>1
  <2>6. PendingInv'
    BY <2>1, <2>3, <2>4, <2>5 DEF PendingInv
  <2>7. QueueInv'
    <3>1. \A i \in 1 .. Len(backlog') : req[client'].id < req[backlog'[i]].id
      BY <2>1, <2>4 DEF QueueInv
    <3>2. ASSUME NEW i \in 1 .. Len(backlog'), NEW j \in 1 .. Len(backlog'), i < j
          PROVE  req[backlog'[i]].id < req[backlog'[j]].id
      BY <2>1, <2>4, <3>2 DEF QueueInv
    <3>. QED
      BY <2>1, <3>1, <3>2 DEF QueueInv
  <2>. QED
    BY <2>1, <2>6, <2>7 DEF StatusInv
<1>6. CASE ServerRestart
  <2>1. /\ events' = events /\ status' = Initially /\ backlog' = <<>> /\ client' = None
        /\ \A c \in Conns : req'[c] = None
    BY <1>6 DEF ServerRestart
  <2>2. \A i \in 1 .. Len(backlog') : FALSE
    BY <2>1
  <2>. QED
    BY <1>1, <2>1, <2>2, InitialIds DEF PendingInv, QueueInv, StatusInv
<1>. QED
  BY <1>2, <1>3, <1>4, <1>5, <1>6, OrderEffects

\* A node's status goes back only to the initial one, when the server is reset: however
\* requests are delayed, a report that was overtaken is never shown.
THEOREM StatusInOrder == Spec => StatusNeverGoesBack
<1>1. Init => Inv /\ OrderInv
  BY InitInv, OrderInit
<1>2. Inv /\ OrderInv /\ [Next]_vars => (Inv /\ OrderInv)'
  BY InvStep, OrderStep
<1>3. ASSUME Inv, OrderInv, [Next]_vars, NEW n \in Nodes, status'[n].id < status[n].id
      PROVE  status' = Initially
  <2>1. /\ req \in [Conns -> Requests \cup {None}] /\ status \in [Nodes -> Statuses]
        /\ \A c \in Conns : req[c] # None => status[n].id < req[c].id
        /\ \A c \in Conns : req[c] # None => req[c].id \in 1 .. events
        /\ status[n].id \in Nat /\ events \in Nat
    BY <1>3, MaxEventsAssumption DEF OrderInv, PendingInv, Inv, TypeOK, RequestsInv, Statuses
  <2>2. CASE OrderRelease
    BY <1>3, <2>1, <2>2 DEF OrderRelease
  <2>3. CASE UNCHANGED status
    BY <1>3, <2>1, <2>3
  <2>4. CASE ServerRestart
    BY <2>4 DEF ServerRestart
  <2>. QED
    BY <1>3, <2>2, <2>3, <2>4, OrderEffects DEF OrderSame, OrderSend
<1>4. Inv /\ OrderInv /\ [Next]_vars
        => [\A n \in Nodes : status'[n].id < status[n].id => status' = Initially]_vars
  BY <1>3
<1>. QED
  BY <1>1, <1>2, <1>4, PTL DEF Spec, StatusNeverGoesBack

-----------------------------------------------------------------------------
(* What reaches the RFID node. *)

\* The answer to a card goes to the connection that the card's request came on, whatever
\* other connections and messages there are.
THEOREM CardsAreAnswered == Spec => CardAnsweredOnItsConnection
<1>1. ASSUME Inv, ClientRequest, req[client].from = RFID, host[RFID] = client
      PROVE  /\ Len(down'[client]) = Len(down[client]) + 1
             /\ Last(down'[client]).id = req[client].id
  <2>1. client \in Conns /\ client # None /\ down[client] \in Seq(Messages)
        /\ down \in [Conns -> Seq(Messages)]
    BY <1>1, ConnsAssumption DEF ClientRequest, Inv, TypeOK
  <2>2. HandleRFIDInput(req[client])
    BY <1>1 DEF ClientRequest, RFID, Keypad, Proximity, TemHumLight
  <2>3. PICK says : down' = Println(client, Reply(says, req[client]))
    BY <2>2 DEF HandleRFIDInput
  <2>4. down' = [down EXCEPT ![client] = Append(@, Reply(says, req[client]))]
    BY <1>1, <2>1, <2>3, NodeNames DEF Println
  <2>5. down'[client] = Append(down[client], Reply(says, req[client]))
    BY <2>1, <2>4
  <2>. QED
    BY <2>1, <2>5 DEF Last, Reply
<1>2. Inv /\ [Next]_vars
        => [ClientRequest /\ req[client].from = RFID /\ host[RFID] = client
              => /\ Len(down'[client]) = Len(down[client]) + 1
                 /\ Last(down'[client]).id = req[client].id]_vars
  BY <1>1
<1>. QED
  BY <1>2, Invariance, PTL DEF Spec, CardAnsweredOnItsConnection

\* A node that stops its connection leaves alone what is on its way to the RFID node on
\* the connection that the RFID node keeps.
LEMMA StopKeeps ==
    ASSUME Inv, NEW n \in Nodes, NEW keep \in Conns \cup {None}, Stop(n, keep),
           keep = None \/ ~ InUse(keep),
           NEW c \in Conns, host[RFID] = c, host'[RFID] = c
    PROVE  down'[c] = down[c]
<1>1. RFID \in Nodes /\ c # None /\ host \in [Nodes -> Conns \cup {None}]
  BY NodeNames, ConnsAssumption DEF Inv, TypeOK
<1>2. keep # c
  BY <1>1 DEF InUse
<1>3. host[n] # c
  <2>1. CASE n = RFID
    BY <1>1, <1>2, <2>1 DEF Stop
  <2>2. CASE n # RFID
    BY <1>1, <2>2 DEF Inv, OwnerInv
  <2>. QED
    BY <2>1, <2>2
<1>. QED
  BY <1>2, <1>3 DEF Stop

\* So does a node that sends a request.
LEMMA RequestHostKeeps ==
    ASSUME Inv, NEW n \in Nodes, NEW says, NEW id, RequestHost(n, says, id),
           NEW c \in Conns, host[RFID] = c, host'[RFID] = c
    PROVE  down'[c] = down[c]
<1>1. CASE UNCHANGED connVars
  BY <1>1 DEF connVars
<1>2. ASSUME NEW keep \in Conns \cup {None}, Stop(n, keep), keep = None \/ ~ InUse(keep)
      PROVE  down'[c] = down[c]
  BY <1>2, StopKeeps
<1>. QED
  BY <1>1, <1>2 DEF RequestHost, ConnectAndPrint

\* What is on its way to the RFID node goes by being read.
LEMMA GoneIsRead ==
    ASSUME Inv, [Next]_vars, NEW c \in Conns, host[RFID] = c, host'[RFID] = c,
           down[c] # <<>>, down'[c] = <<>>
    PROVE  ReadHostMessage
<1>0. down \in [Conns -> Seq(Messages)] /\ RFID \in Nodes /\ Keypad \in Nodes
  BY NodeNames DEF Inv, TypeOK
<1>1. CASE KeypadStep
  <2>1. CASE CheckKey
    <3>1. \E says : RequestHost(Keypad, says, events + 1)
      BY <2>1, Zenon DEF CheckKey
    <3>. QED
      BY <1>0, <3>1, RequestHostKeeps
  <2>2. CASE KeypadRestart
    BY <1>0, <2>2, StopKeeps DEF KeypadRestart, NodeRestart
  <2>3. CASE ClearKey \/ \E k \in Symbols : SymbolKey(k)
    BY <2>3 DEF ClearKey, SymbolKey, requestVars, connVars
  <2>. QED
    BY <1>1, <2>1, <2>2, <2>3 DEF KeypadStep, HandleKeypad
<1>2. CASE RfidStep
  <2>1. ASSUME NEW tag \in Tags, ReadCard(tag) PROVE FALSE
    <3>1. (\E says : RequestHost(RFID, says, events + 1)) \/ UNCHANGED connVars
      BY <2>1, Zenon DEF ReadCard
    <3>2. CASE UNCHANGED connVars
      BY <3>2 DEF connVars
    <3>. QED
      BY <1>0, <3>1, <3>2, RequestHostKeeps
  <2>2. CASE RfidRestart
    BY <1>0, <2>2, StopKeeps DEF RfidRestart, NodeRestart
  <2>3. CASE NoCard \/ NoHostMessage \/ EndServo \/ EndSound
    BY <2>3 DEF NoCard, NoHostMessage, EndServo, EndSound, requestVars, connVars
  <2>. QED
    BY <1>2, <2>1, <2>2, <2>3 DEF RfidStep, RfidLoop, CheckRFID
<1>3. CASE ServerStep
  <2>1. ASSUME NEW d, NEW m, down' = Println(d, m) PROVE FALSE
    <3>1. down'[c] = down[c] \/ down'[c] = Append(down[c], m)
      BY <1>0, <2>1 DEF Println
    <3>2. Append(down[c], m) # <<>>
      BY <1>0
    <3>. QED
      BY <3>1, <3>2
  <2>2. CASE ClientRequest
    BY <2>1, <2>2 DEF ClientRequest, HandleTemperatureInput, HandleProximityInput,
       HandleKeypadInput, HandleRFIDInput
  <2>3. CASE On
    BY <2>1, <2>3 DEF On
  <2>4. CASE Available \/ ReadTimeout \/ PressButton \/ ServerRestart
    BY <2>4 DEF Available, ReadTimeout, PressButton, ServerRestart, requestVars, connVars
  <2>. QED
    BY <1>3, <2>2, <2>3, <2>4 DEF ServerStep
<1>4. CASE SensorStep
  <2>1. PICK n \in Sensors : Report(n) \/ NodeRestart(n)
    BY <1>4 DEF SensorStep
  <2>2. n \in Nodes
    BY SensorsAssumption, NodeNames
  <2>. QED
    BY <2>1, <2>2, RequestHostKeeps, StopKeeps DEF Report, NodeRestart
<1>5. CASE NetworkStep \/ TimeStep
  BY <1>5 DEF NetworkStep, Arrive, TimeStep, Elapse, connVars
<1>6. CASE UNCHANGED vars
  BY <1>6 DEF vars, requestVars, connVars
<1>. QED
  BY <1>1, <1>2, <1>3, <1>4, <1>5, <1>6 DEF Next

\* A grant that is alone in the RFID node's connection opens the door when it goes from
\* there: nothing that nodes, server or network do takes it away.
THEOREM LoneGrantsOpen == Spec => LoneGrantOpens
<1>1. ASSUME Inv, [Next]_vars, NEW c \in Conns, host[RFID] = c, host'[RFID] = c,
             Len(down[c]) = 1, down'[c] = <<>>, down[c][1].says \in Opening
      PROVE  down[c][1].id \in opened'
  <2>1. down[c] \in Seq(Messages) /\ down[c] # <<>>
    <3>1. down[c] \in Seq(Messages)
      BY <1>1 DEF Inv, TypeOK
    <3>. QED
      BY <1>1, <3>1
  <2>2. ReadHostMessage
    BY <1>1, <2>1, GoneIsRead
  <2>3. HandleHostSubstring(GetSubstring(SubSeq(down[c], 1, 1)))
    BY <1>1, <2>2 DEF ReadHostMessage
  <2>4. GetSubstring(SubSeq(down[c], 1, 1)) = down[c][1]
    BY <1>1, <2>1 DEF GetSubstring
  <2>. QED
    BY <1>1, <2>3, <2>4 DEF HandleHostSubstring, RunServo
<1>2. Inv /\ [Next]_vars
        => [\A c \in Conns : host[RFID] = c /\ host'[RFID] = c
              /\ Len(down[c]) = 1 /\ down'[c] = <<>> /\ down[c][1].says \in Opening
              => down[c][1].id \in opened']_vars
  BY <1>1
<1>. QED
  BY <1>2, Invariance, PTL DEF Spec, LoneGrantOpens

-----------------------------------------------------------------------------
(* The rate limiter. *)

\* No time has passed and nothing was sent.
LEMMA RateInitInv == RateInit => RateInv
  BY RateAssumption DEF RateInit, RateInv, RateTypeOK, Elapsed, Since, RequestsAreSpaced

\* Requests and the passing of time keep the invariant.
LEMMA RateStepInv == RateInv /\ [RateNext]_rateVars => RateInv'
<1>. SUFFICES ASSUME RateInv, [RateNext]_rateVars PROVE RateInv'
  OBVIOUS
<1>. USE RateAssumption DEF RateInv, RateTypeOK, Elapsed, Since, RequestsAreSpaced
<1>1. CASE Tick
  BY <1>1 DEF Tick
<1>2. CASE Drop \/ UNCHANGED rateVars
  BY <1>2 DEF Drop, rateVars
<1>3. CASE Test
  BY <1>3 DEF Test
<1>4. CASE Stamp
  BY <1>4 DEF Stamp
<1>5. CASE Sent
  BY <1>5 DEF Sent
<1>. QED
  BY <1>1, <1>2, <1>3, <1>4, <1>5 DEF RateNext

\* The invariant holds in every state.
THEOREM RateInvariance == RateSpec => []RateInv
  BY RateInitInv, RateStepInv, PTL DEF RateSpec

\* Two requests of a node are more than UPDATE_TIME apart in real time, although
\* the code compares readings of a counter that wraps.
THEOREM Spacing == RateSpec => []RequestsAreSpaced
<1>1. RateInv => RequestsAreSpaced
  BY DEF RateInv
<1>. QED
  BY <1>1, RateInvariance, PTL

\* A request is lost to the limiter only within UPDATE_TIME of the previous
\* one, or when the counter has gone round since.
THEOREM OnlyRecentDropped == RateSpec => []DroppedOnlyWhenRecent
<1>1. RateInv => DroppedOnlyWhenRecent
  BY DEF RateInv, Elapsed, DroppedOnlyWhenRecent
<1>. QED
  BY <1>1, RateInvariance, PTL

=============================================================================
