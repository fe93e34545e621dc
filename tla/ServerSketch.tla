---------------------------- MODULE ServerSketch ----------------------------
(***************************************************************************)
(* The server's sketch, AsyncWebserver.ino: clientRequest() reads one      *)
(* request per accepted connection and stores what it says for the web     *)
(* page; a request of the keypad or of the RFID node is answered on        *)
(* rfidClient, the connection of the RFID node's last request.  The web    *)
(* server's /on handler writes to the same connection.                     *)
(***************************************************************************)
EXTENDS RequestHost

VARIABLES status,     \* status[n]: t, h, l; motionStatus; keypadStatus; rfidStatus
          presses     \* /on requests of the web page not handled yet

serverVars == <<status, presses>>

MaxPresses == 2

Shown(says, id) == [says |-> says, id |-> id]

Initially == [n \in Nodes |-> Shown(IF n = TemHumLight THEN "0.0"
                                    ELSE IF n = Proximity THEN "No motion"
                                    ELSE "No access", 0)]

ServerInit ==
    /\ status = Initially
    /\ presses = 0

Reply(says, request) == [says |-> says, id |-> request.id]

\* Mutant: the newest connection is served first.
AvailableMutant ==
    /\ client = None
    /\ backlog # <<>>
    /\ client' = Last(backlog)
    /\ backlog' = Front(backlog)
    /\ UNCHANGED <<host, rfidClient, req, arrived, down,
                   window, events, authorised, serverVars>>

\* wifiServer.available() returns the oldest connection.
Available ==
    /\ client = None
    /\ backlog # <<>>
    /\ client' = Head(backlog)
    /\ backlog' = Tail(backlog)
    /\ UNCHANGED <<host, rfidClient, req, arrived, down,
                   window, events, authorised, serverVars>>

\* The end of clientRequest(): the local client goes out of scope.
ReleaseClient ==
    /\ client' = None
    /\ req' = [req EXCEPT ![client] = None]
    /\ arrived' = arrived \ {client}

\* Mutant: without setTimeout() the read waits for as long as it takes.
ReadTimeoutMutant ==
    /\ client # None
    /\ client \notin arrived
    /\ UNCHANGED <<connVars, window, events, authorised, serverVars>>

\* readStringUntil() gives up after 50 ms with an empty string, in which
\* there is no known name: the connection is closed and the request lost.
ReadTimeout ==
    /\ client # None
    /\ client \notin arrived
    /\ ReleaseClient
    /\ UNCHANGED <<host, backlog, rfidClient, down,
                   window, events, authorised, serverVars>>

HandleTemperatureInput(request) ==
    /\ status' = [status EXCEPT ![TemHumLight] = Shown(request.says, request.id)]
    /\ UNCHANGED <<rfidClient, down>>

HandleProximityInput(request) ==
    /\ status' = [status EXCEPT ![Proximity] = Shown(request.says, request.id)]
    /\ UNCHANGED <<rfidClient, down>>

\* Mutant: the answer goes to the requester, as it does for a card.
HandleKeypadInputMutant(request) ==
    /\ status' = [status EXCEPT ![Keypad] = Shown(request.says, request.id)]
    /\ rfidClient' = client
    /\ down' = Println(rfidClient',
                       Reply(IF request.says = "ACCESS GRANTED"
                             THEN "Access OK" ELSE "Access NO", request))

HandleKeypadInput(request) ==
    /\ status' = [status EXCEPT ![Keypad] = Shown(request.says, request.id)]
    /\ down' = Println(rfidClient,
                       Reply(IF request.says = "ACCESS GRANTED"
                             THEN "Access OK" ELSE "Access NO", request))
    /\ UNCHANGED rfidClient

\* Mutant: rfidClient is replaced after the answer.
HandleRFIDInputMutant(request) ==
    /\ status' = [status EXCEPT ![RFID] = Shown(request.says, request.id)]
    /\ down' = Println(rfidClient,
                       Reply(IF request.says \in {"Access Martin", "Access Magnus"}
                             THEN request.says ELSE "Access NO", request))
    /\ rfidClient' = client

HandleRFIDInput(request) ==
    /\ status' = [status EXCEPT ![RFID] = Shown(request.says, request.id)]
    /\ rfidClient' = client
    /\ down' = Println(rfidClient',
                       Reply(IF request.says \in {"Access Martin", "Access Magnus"}
                             THEN request.says ELSE "Access NO", request))

\* The request has arrived: it is dispatched on the name of its sender.
ClientRequest ==
    /\ client \in arrived
    /\ LET request == req[client]
       IN \/ request.from = TemHumLight /\ HandleTemperatureInput(request)
          \/ request.from = Proximity /\ HandleProximityInput(request)
          \/ request.from = Keypad /\ HandleKeypadInput(request)
          \/ request.from = RFID /\ HandleRFIDInput(request)
    /\ ReleaseClient
    /\ UNCHANGED <<host, backlog, window, events, authorised, presses>>

\* The page's button has a handler for mousedown and one for touchstart, and
\* a touch screen fires both.
PressButton ==
    /\ \E requests \in 1 .. 2 :
          /\ presses + requests <= MaxPresses
          /\ presses' = presses + requests
    /\ UNCHANGED <<status, requestVars>>

\* GET /on: the answer is "ok" whatever becomes of the message.
On ==
    /\ presses > 0
    /\ presses' = presses - 1
    /\ Event(TRUE)
    /\ down' = Println(rfidClient, [says |-> "Open", id |-> events + 1])
    /\ UNCHANGED <<status, host, backlog, client, rfidClient, req, arrived, window>>

\* The server is reset: it forgets rfidClient and every connection.
ServerRestart ==
    /\ status' = Initially
    /\ presses' = 0
    /\ backlog' = <<>>
    /\ client' = None
    /\ rfidClient' = None
    /\ req' = [c \in Conns |-> None]
    /\ arrived' = {}
    /\ UNCHANGED <<host, down, window, events, authorised>>

=============================================================================
