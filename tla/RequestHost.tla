---------------------------- MODULE RequestHost ----------------------------
(***************************************************************************)
(* requestHost(), which the four node sketches have in common: a message   *)
(* is sent only when more than UPDATE_TIME milliseconds have passed since  *)
(* the previous one, and is otherwise dropped.  The clock is abstracted to *)
(* one flag per node, "the window is open"; module RateLimiter implements  *)
(* it with millis().                                                       *)
(***************************************************************************)
EXTENDS Connections

CONSTANT MaxEvents   \* bound on the user actions and readings of a behaviour

ASSUME MaxEventsAssumption == MaxEvents \in Nat

VARIABLES window,    \* window[n]: (millis() - previousRequest) > UPDATE_TIME at node n
          events,    \* number of events so far; an event's number is its identity
          authorised \* the events that entitle somebody to have the door opened

(***************************************************************************)
(* A request carries, besides what the code writes, the number of the user *)
(* action or sensor reading that caused it.  The number is copied to the   *)
(* server's reply; no code reads it.                                       *)
(***************************************************************************)
Request(n, says, id) == [from |-> n, says |-> says, id |-> id]

RequestHost(n, says, id) ==
    IF window[n]
    THEN /\ window' = [window EXCEPT ![n] = FALSE]
         /\ ConnectAndPrint(n, Request(n, says, id))
    ELSE UNCHANGED <<window, connVars>>

\* Time passes until the test of requestHost() changes its value: it becomes
\* true after UPDATE_TIME, and false again for a while when millis() wraps.
Elapse(n) ==
    /\ window' = [window EXCEPT ![n] = ~ @]
    /\ UNCHANGED <<events, authorised, connVars>>

\* Node n is reset: previousRequest and host take their initial values.
NodeRestart(n) ==
    /\ window' = [window EXCEPT ![n] = FALSE]
    /\ Stop(n, None)
    /\ UNCHANGED <<events, authorised, backlog, client, rfidClient, req, arrived>>

\* A user acts, or a sensor is read: `entitled' says whether the action is one
\* that should open the door.
Event(entitled) ==
    /\ events < MaxEvents
    /\ events' = events + 1
    /\ authorised' = IF entitled THEN authorised \cup {events + 1} ELSE authorised

requestVars == <<window, events, authorised, connVars>>

RequestInit ==
    /\ window = [n \in Nodes |-> FALSE]
    /\ events = 0
    /\ authorised = {}

=============================================================================
