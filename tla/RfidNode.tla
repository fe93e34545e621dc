------------------------------ MODULE RfidNode ------------------------------
(***************************************************************************)
(* The RFID node's sketch, RFID_esp8266.ino.  Its loop() alternates        *)
(* checkRFID() and getHostMessage(); the latter turns the servo that       *)
(* stands for the door lock, and blocks meanwhile.                         *)
(***************************************************************************)
EXTENDS RequestHost

CONSTANT OtherTags    \* card IDs that are not in IDs

IDs == <<"2C76454A", "B32CDF0E", "23475B1F">>
Tags == ToSet(IDs) \cup OtherTags

ASSUME OtherTagsAssumption == OtherTags \cap ToSet(IDs) = {}

VARIABLES rpc,        \* where loop() is
          door,       \* the servo: 180 degrees is "open", 0 is "closed"
          opened      \* the events that have opened the door so far

rfidVars == <<rpc, door, opened>>

\* "servo" and "servo, sound" are the delay of runServo(), the latter with a
\* pause or melody to follow; "sound" is that melody or the error tune.
Places == {"checkRFID", "getHostMessage", "servo", "servo, sound", "sound"}

RfidInit ==
    /\ rpc = "checkRFID"
    /\ door = "closed"
    /\ opened = {}

\* No new card, or its serial could not be read.
NoCard ==
    /\ rpc = "checkRFID"
    /\ rpc' = "getHostMessage"
    /\ UNCHANGED <<door, opened, requestVars>>

\* A card is read: the first and the third approved tags have a message of
\* their own, a tag that is not approved has another, the second none.
ReadCard(tag) ==
    /\ rpc = "checkRFID"
    /\ Event(tag \in ToSet(IDs))
    /\ \/ tag = IDs[1] /\ RequestHost(RFID, "Access Martin", events + 1)
       \/ tag = IDs[3] /\ RequestHost(RFID, "Access Magnus", events + 1)
       \/ tag = IDs[2] /\ UNCHANGED <<window, connVars>>
       \/ tag \notin ToSet(IDs) /\ RequestHost(RFID, "Access denied", events + 1)
    /\ rpc' = "getHostMessage"
    /\ UNCHANGED <<door, opened>>

CheckRFID == NoCard \/ \E tag \in Tags : ReadCard(tag)

\* getSubstring(hostMsg, "r"): from the first "r[" to the last "]r", so that
\* several messages read together match none of the known ones.
GetSubstring(hostMsg) ==
    IF Len(hostMsg) = 1 THEN hostMsg[1] ELSE [says |-> "garbled", id |-> 0]

Opening == {"Open", "Access Martin", "Access Magnus", "Access OK"}

RunServo(message) ==
    /\ door' = "open"
    /\ opened' = opened \cup {message.id}
    /\ rpc' = IF message.says = "Open" THEN "servo" ELSE "servo, sound"

\* Mutant: the keypad's answer is not among the known messages.
HandleHostSubstringMutant(message) ==
    IF message.says \in Opening \ {"Access OK"}
    THEN RunServo(message)
    ELSE rpc' = "sound" /\ UNCHANGED <<door, opened>>

HandleHostSubstring(message) ==
    IF message.says \in Opening
    THEN RunServo(message)
    ELSE rpc' = "sound" /\ UNCHANGED <<door, opened>>

\* Mutant: the message is looked at and stays in the receive buffer.
ReadHostMessagePeekMutant ==
    /\ rpc = "getHostMessage"
    /\ Connected(RFID)
    /\ \E n \in 1 .. Len(down[host[RFID]]) :
          HandleHostSubstring(GetSubstring(SubSeq(down[host[RFID]], 1, n)))
    /\ UNCHANGED requestVars

\* Mutant: several messages at once are left alone.
ReadHostMessageSingleMutant ==
    /\ rpc = "getHostMessage"
    /\ Connected(RFID)
    /\ Len(down[host[RFID]]) = 1
    /\ HandleHostSubstring(down[host[RFID]][1])
    /\ down' = [down EXCEPT ![host[RFID]] = <<>>]
    /\ UNCHANGED <<host, backlog, client, rfidClient, req, arrived,
                   window, events, authorised>>

\* readString() returns what has arrived by the first 200 ms of silence, a
\* prefix of what the server has written.
ReadHostMessage ==
    /\ rpc = "getHostMessage"
    /\ Connected(RFID)
    /\ \E n \in 1 .. Len(down[host[RFID]]) :
          /\ HandleHostSubstring(GetSubstring(SubSeq(down[host[RFID]], 1, n)))
          /\ down' = [down EXCEPT ![host[RFID]] = SubSeq(@, n + 1, Len(@))]
    /\ UNCHANGED <<host, backlog, client, rfidClient, req, arrived,
                   window, events, authorised>>

\* Not connected, or nothing arrived within 200 ms.
NoHostMessage ==
    /\ rpc = "getHostMessage"
    /\ rpc' = "checkRFID"
    /\ UNCHANGED <<door, opened, requestVars>>

\* Mutant: the servo is not turned back.
EndServoMutant ==
    /\ rpc \in {"servo", "servo, sound"}
    /\ rpc' = IF rpc = "servo" THEN "checkRFID" ELSE "sound"
    /\ UNCHANGED <<door, opened, requestVars>>

EndServo ==
    /\ rpc \in {"servo", "servo, sound"}
    /\ door' = "closed"
    /\ rpc' = IF rpc = "servo" THEN "checkRFID" ELSE "sound"
    /\ UNCHANGED <<opened, requestVars>>

EndSound ==
    /\ rpc = "sound"
    /\ rpc' = "checkRFID"
    /\ UNCHANGED <<door, opened, requestVars>>

RfidLoop == CheckRFID \/ ReadHostMessage \/ NoHostMessage \/ EndServo \/ EndSound

\* The node is reset: setup() runs again, and does not turn the servo back.
RfidRestart ==
    /\ rpc' = "checkRFID"
    /\ NodeRestart(RFID)
    /\ UNCHANGED <<door, opened>>

=============================================================================
