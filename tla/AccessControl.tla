--------------------------- MODULE AccessControl ---------------------------
(***************************************************************************)
(* What the system promises about its door: it is opened for one event at  *)
(* a time, each of which entitles somebody to it, and for none twice.  The *)
(* rooms' network, the server and the order of requests are not seen here. *)
(***************************************************************************)
CONSTANT Events      \* cards shown, passwords typed, presses of the button

VARIABLES authorised, \* the events that entitle somebody to have the door opened
          opened,     \* the events the door has been opened for
          door

accessVars == <<authorised, opened, door>>

AccessInit == authorised = {} /\ opened = {} /\ door = "closed"

Authorise ==
    \E e \in Events \ authorised :
        /\ authorised' = authorised \cup {e}
        /\ UNCHANGED <<opened, door>>

Open ==
    \E e \in authorised \ opened :
        /\ opened' = opened \cup {e}
        /\ door' = "open"
        /\ UNCHANGED authorised

Close ==
    /\ door = "open"
    /\ door' = "closed"
    /\ UNCHANGED <<authorised, opened>>

AccessSpec == AccessInit /\ [][Authorise \/ Open \/ Close]_accessVars

=============================================================================
