--------------------------- MODULE HomeMonitoring ---------------------------
(***************************************************************************)
(* The whole system: the server, the keypad node, the RFID node and the    *)
(* two nodes that only report readings, over lossy TCP connections.        *)
(***************************************************************************)
EXTENDS KeypadNode, RfidNode, ServerSketch

CONSTANTS Sensors,    \* the reporting nodes that take part
          Resets      \* who may be reset: any of Nodes and "Server"

ASSUME SensorsAssumption == Sensors \subseteq {Proximity, TemHumLight}

vars == <<requestVars, input, rfidVars, serverVars>>

-----------------------------------------------------------------------------

Reading(n) == IF n = Proximity THEN {"detected", "not detected"} ELSE {"20.5", "21.0"}

\* loop() of Proximity.ino and of TemperatureNode.ino: a reading is taken, and
\* sent if the window is open (if it is not, nothing changes).
Report(n) ==
    /\ window[n]
    /\ Event(FALSE)
    /\ \E reading \in Reading(n) : RequestHost(n, reading, events + 1)

-----------------------------------------------------------------------------

Init == ConnInit /\ RequestInit /\ KeypadInit /\ RfidInit /\ ServerInit

KeypadStep == HandleKeypad \/ (Keypad \in Resets /\ KeypadRestart)
RfidStep == RfidLoop \/ (RFID \in Resets /\ RfidRestart)
ServerStep == \/ Available \/ ReadTimeout \/ ClientRequest
              \/ PressButton \/ On
              \/ "Server" \in Resets /\ ServerRestart
SensorStep == \E n \in Sensors : Report(n) \/ (n \in Resets /\ NodeRestart(n))
NetworkStep == \E c \in Conns : Arrive(c) /\ UNCHANGED <<window, events, authorised>>
TimeStep == \E n \in {Keypad, RFID} \cup Sensors : Elapse(n)

Next ==
    \/ KeypadStep /\ UNCHANGED <<rfidVars, serverVars>>
    \/ RfidStep /\ UNCHANGED <<input, serverVars>>
    \/ ServerStep /\ UNCHANGED <<input, rfidVars>>
    \/ (SensorStep \/ NetworkStep \/ TimeStep)
          /\ UNCHANGED <<input, rfidVars, serverVars>>

Spec == Init /\ [][Next]_vars

(***************************************************************************)
(* loop() is called again and again on the server and on the RFID node,    *)
(* and TCP retransmits: while a connection lives, what the server wrote on *)
(* it arrives before one of the node's next polls.  Nothing is assumed of  *)
(* users, readings, resets, the clocks, or of requests reaching the server.*)
(***************************************************************************)
Fairness ==
    /\ WF_vars(Available /\ UNCHANGED <<input, rfidVars>>)
    /\ WF_vars((ReadTimeout \/ ClientRequest) /\ UNCHANGED <<input, rfidVars>>)
    /\ WF_vars(RfidLoop /\ UNCHANGED <<input, serverVars>>)
    /\ SF_vars(ReadHostMessage /\ UNCHANGED <<input, serverVars>>)

FairSpec == Spec /\ Fairness

-----------------------------------------------------------------------------

RequestTexts == {"ACCESS GRANTED", "ACCESS DENIED",
                 "Access Martin", "Access Magnus", "Access denied",
                 "detected", "not detected", "20.5", "21.0"}
ReplyTexts == {"Open", "Access OK", "Access Martin", "Access Magnus", "Access NO"}
InitialTexts == {"No access", "No motion", "0.0"}

Requests == [from : Nodes, says : RequestTexts, id : Nat]
Messages == [says : ReplyTexts, id : Nat]
Statuses == [says : RequestTexts \cup InitialTexts, id : Nat]

ASSUME NoneAssumption == None \notin Requests

TypeOK ==
    /\ host \in [Nodes -> Conns \cup {None}]
    /\ backlog \in Seq(Conns)
    /\ client \in Conns \cup {None}
    /\ rfidClient \in Conns \cup {None}
    /\ req \in [Conns -> Requests \cup {None}]
    /\ arrived \in SUBSET Conns
    /\ down \in [Conns -> Seq(Messages)]
    /\ window \in [Nodes -> BOOLEAN]
    /\ events \in 0 .. MaxEvents
    /\ authorised \in SUBSET (1 .. MaxEvents)
    /\ input \in Seq(Symbols)
    /\ rpc \in Places
    /\ door \in {"open", "closed"}
    /\ opened \in SUBSET Nat
    /\ status \in [Nodes -> Statuses]
    /\ presses \in 0 .. MaxPresses

\* The door is opened only on behalf of somebody entitled to it: an approved
\* card, the right password or the page's button, however the requests and
\* replies of all nodes interleave on their way through the server.
OpensOnlyWhenAuthorised == opened \subseteq authorised

\* One card, password or /on request opens the door at most once.
OpensOncePerEvent ==
    [][rpc' \in {"servo", "servo, sound"} /\ rpc' # rpc => opened' # opened]_vars

\* The system implements AccessControl: over the network, the server and the
\* node's blocking loop, the door is opened only for events that entitle to it
\* and have not opened it, and is closed only after it was opened.
Access == INSTANCE AccessControl WITH Events <- 1 .. MaxEvents
ImplementsAccessControl == Access!AccessSpec

\* The server's replies reach nobody but the RFID node, although rfidClient
\* is a copy of whichever connection it took the last RFID request from.
ServerTalksToRfidOnly ==
    /\ \A c \in Conns : down[c] # <<>> => c = host[RFID]
    /\ \A n \in Nodes \ {RFID} : rfidClient # None => host[n] # rfidClient

\* The answer to a card goes to the connection the card's request came on,
\* unless the node has left it.
CardAnsweredOnItsConnection ==
    [][ClientRequest /\ req[client].from = RFID /\ host[RFID] = client
         => /\ Len(down'[client]) = Len(down[client]) + 1
            /\ Last(down'[client]).id = req[client].id]_vars

\* What the page shows of a node never goes back to an older report.
StatusNeverGoesBack ==
    [][\A n \in Nodes : status'[n].id < status[n].id => status' = Initially]_vars

\* A grant that reaches the RFID node alone is acted upon, unless the node
\* leaves the connection or another message catches up with the grant.
LoneGrantOpens ==
    [][\A c \in Conns : host[RFID] = c /\ host'[RFID] = c
          /\ Len(down[c]) = 1 /\ down'[c] = <<>> /\ down[c][1].says \in Opening
          => down[c][1].id \in opened']_vars

\* Every request a node has written is read by the server or given up: one
\* silent connection does not hold up the others for ever.
RequestsAreSettled == \A c \in Conns : req[c] # None ~> req[c] = None

\* Every message to the RFID node is read, or discarded with its connection.
MessagesAreRead == \A c \in Conns : down[c] # <<>> ~> down[c] = <<>>

\* An opened door is closed again (as long as the RFID node is not reset).
DoorIsClosed == door = "open" ~> door = "closed"

\* "The Keypad node either grants or denies access. The RFID node receives
\* this info to open or close the door" (AsyncWebserver.ino, line 155).
KeypadVerdictReachesRfid ==
    [][ClientRequest /\ req[client].from = Keypad => down' # down]_vars

-----------------------------------------------------------------------------
(***************************************************************************)
(* The inductive invariant.  OpensOnlyWhenAuthorised and OpensOncePerEvent *)
(* speak of the door only; what makes them true is that every grant on its *)
(* way (a request, or a reply) belongs to an event that entitles to it,    *)
(* and that an event is in at most one place: in a request, in a message   *)
(* to the RFID node, or among those that have opened the door.             *)
(***************************************************************************)
Granting == {"ACCESS GRANTED", "Access Martin", "Access Magnus"}

ArrivedInv == \A c \in arrived : req[c] # None

EventsInv == authorised \subseteq 1 .. events /\ opened \subseteq authorised

RequestsInv ==
    \A c \in Conns : req[c] # None =>
        /\ req[c].id \in 1 .. events
        /\ req[c].says \in Granting => req[c].id \in authorised
        /\ req[c].id \notin opened
        /\ \A d \in Conns : req[d] # None /\ req[d].id = req[c].id => d = c

MessagesInv ==
    \A c \in Conns : \A i \in 1 .. Len(down[c]) :
        /\ down[c][i].id \in 1 .. events
        /\ down[c][i].says \in Opening => down[c][i].id \in authorised
        /\ down[c][i].id \notin opened
        /\ \A d \in Conns : req[d] # None => req[d].id # down[c][i].id
        /\ \A j \in 1 .. Len(down[c]) : down[c][j].id = down[c][i].id => j = i

\* A request comes from the node that holds the connection, and only the RFID
\* node's connection has messages or is rfidClient.
OwnerInv ==
    /\ \A c \in Conns : \A n \in Nodes :
          req[c] # None /\ host[n] = c => req[c].from = n
    /\ \A n, m \in Nodes : host[n] # None /\ host[n] = host[m] => n = m
    /\ ServerTalksToRfidOnly

Inv == TypeOK /\ ArrivedInv /\ EventsInv /\ RequestsInv /\ MessagesInv /\ OwnerInv

=============================================================================
