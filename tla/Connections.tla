---------------------------- MODULE Connections ----------------------------
(***************************************************************************)
(* The TCP connections between the four sensor nodes and the server's port *)
(* 81, as the sketches see them through WiFiClient and WiFiServer of the   *)
(* ESP8266 core.  The core is not part of this repository: what is modelled *)
(* here is what the calls made by the sketches rely on.                    *)
(*                                                                         *)
(* A connection is identified by a member of Conns.  It is open at a       *)
(* node's end while the node's global `host' refers to it, and open at the *)
(* server's end while the backlog of the listening socket, the local       *)
(* `client' of clientRequest() or the global `rfidClient' refers to it     *)
(* (WiFiClient counts references and closes with the last one).            *)
(***************************************************************************)
EXTENDS Naturals, Sequences, FiniteSets, SequencesExt

CONSTANTS Conns,     \* the connections that can exist at once
          None       \* no connection, no message

ASSUME ConnsAssumption == None \notin Conns

VARIABLES host,        \* host[n]: the connection node n's global `host' refers to
          backlog,     \* connections not yet returned by wifiServer.available()
          client,      \* the local `client' of clientRequest()
          rfidClient,  \* the server's global rfidClient
          req,         \* req[c]: the request written on c that the server has not read
          arrived,     \* the connections whose request has reached the server
          down         \* down[c]: what the server wrote on c and the node has not read

connVars == <<host, backlog, client, rfidClient, req, arrived, down>>

Keypad == "KeypadNode"
RFID == "RFIDNode"
Proximity == "ProximityNode"
TemHumLight == "TemHumLightNode"
Nodes == {Keypad, RFID, Proximity, TemHumLight}

-----------------------------------------------------------------------------

ServerEndOpen(c) == c \in ToSet(backlog) \cup {client, rfidClient}

InUse(c) == ServerEndOpen(c) \/ \E n \in Nodes : host[n] = c

(***************************************************************************)
(* if (host.connect(server, 81)) host.println(request): a node's previous  *)
(* connection is stopped first, with what it had not read; then either a   *)
(* new connection enters the server's backlog with the request under way,  *)
(* or connect() fails and the node is left with no connection.             *)
(***************************************************************************)
Stop(n, keep) ==
    /\ host' = [host EXCEPT ![n] = keep]
    /\ down' = [d \in Conns |-> IF d \in {host[n], keep} THEN <<>> ELSE down[d]]

ConnectAndPrint(n, request) ==
    /\ UNCHANGED <<client, rfidClient>>
    /\ \/ \E c \in Conns :
             /\ ~ InUse(c)
             /\ Stop(n, c)
             /\ backlog' = Append(backlog, c)
             /\ req' = [req EXCEPT ![c] = request]
             /\ UNCHANGED arrived
       \/ /\ Stop(n, None)
          /\ UNCHANGED <<backlog, req, arrived>>

\* The request written on c reaches the server.
Arrive(c) ==
    /\ req[c] # None
    /\ c \notin arrived
    /\ arrived' = arrived \cup {c}
    /\ UNCHANGED <<host, backlog, client, rfidClient, req, down>>

(***************************************************************************)
(* What down becomes when the server calls println(message) on c: a        *)
(* message written on a default-constructed WiFiClient or on a connection  *)
(* the node has closed is lost without an error to the caller.             *)
(***************************************************************************)
Println(c, message) ==
    IF c # None /\ \E n \in Nodes : host[n] = c
    THEN [down EXCEPT ![c] = Append(@, message)]
    ELSE down

\* host.connected(): the peer's end is open, or there is data left to read.
Connected(n) ==
    /\ host[n] # None
    /\ ServerEndOpen(host[n]) \/ down[host[n]] # <<>>

ConnInit ==
    /\ host = [n \in Nodes |-> None]
    /\ backlog = <<>>
    /\ client = None
    /\ rfidClient = None
    /\ req = [c \in Conns |-> None]
    /\ arrived = {}
    /\ down = [c \in Conns |-> <<>>]

=============================================================================
