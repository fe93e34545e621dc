-------------------------- MODULE WebSocketReceive --------------------------
(***************************************************************************)
(* A connection of the web server from the request to the frames of a web  *)
(* socket: module WebRequest, the upgrade (AsyncWebSocketResponse and the  *)
(* constructor of AsyncWebSocketClient), and the frames that the browser   *)
(* sends, in packets of any length (AsyncWebSocketClient::_onData()).      *)
(*                                                                         *)
(* The header of a frame is one unit of the stream, which packets do not   *)
(* divide: _onData() takes it to be complete.  Each byte of payload is a   *)
(* unit, masked with one of the four bytes of the mask.                    *)
(***************************************************************************)
EXTENDS WebRequest

ASSUME FramesAssumption ==
    \A in \in Inputs : in.frames \in Seq([opcode : Nat, final : BOOLEAN, length : Nat])

VARIABLES frames, \* units that have not come yet
          socket  \* the AsyncWebSocketClient, with the history of its events

connectionVars == <<input, todo, request, link, frames, socket>>

-----------------------------------------------------------------------------
(* The browser: input.frames are [opcode, final, length].                    *)

HeadUnit(f) == [head |-> TRUE, frame |-> f, byte |-> 0, key |-> 0]
ByteUnit(f, b) == [head |-> FALSE, frame |-> f, byte |-> b, key |-> (b - 1) % 4]

Units(in) ==
    FoldLeft(LAMBDA all, f : all \o <<HeadUnit(f)>>
                                 \o [b \in 1 .. in.frames[f].length |-> ByteUnit(f, b)],
             <<>>, [f \in DOMAIN in.frames |-> f])

-----------------------------------------------------------------------------

\* _pinfo, but for message_opcode and num.
NoInfo == [opcode |-> 0, final |-> FALSE, length |-> 0, index |-> 0]

\* The constructor; `status' is "NONE" until there is an object.
NewSocket == [status |-> "NONE", partial |-> FALSE, info |-> NoInfo, pongs |-> <<>>,
              heard |-> <<>>, gaps |-> FALSE, cut |-> FALSE]

ConnectionInit ==
    /\ RequestInit
    /\ frames = Units(input)
    /\ socket = NewSocket

IsControl(info) == info.opcode >= 8

\* _handleEvent(WS_EVT_DATA): the application puts the pieces of a frame together.
HandleData(s, info, data) ==
    LET open == s.heard # <<>> /\ Len(Last(s.heard).data) < Last(s.heard).length
        expected == IF open THEN Len(Last(s.heard).data) ELSE 0
        frame == [opcode |-> info.opcode, final |-> info.final, length |-> info.length,
                  data |-> data]
        more(f) == [f EXCEPT !.data = @ \o data]
    IN IF info.index # expected THEN [s EXCEPT !.gaps = TRUE]
       ELSE [s EXCEPT !.heard = IF open THEN Append(Front(@), more(Last(@))) ELSE Append(@, frame)]

\* A frame of which more is to come.
PartOfFrame(s, info, data) ==
    [(IF IsControl(info) THEN [s EXCEPT !.cut = TRUE] ELSE HandleData(s, info, data))
        EXCEPT !.partial = TRUE, !.info = [info EXCEPT !.index = @ + Len(data)]]

\* The rest of a frame.  A close is answered, or answers ours; a ping is answered.
EndOfFrame(s, info, data) ==
    LET ended == [s EXCEPT !.partial = FALSE, !.info = info]
    IN IF info.opcode = 8
       THEN [ended EXCEPT !.status = IF @ = "DISCONNECTING" THEN "DISCONNECTED"
                                     ELSE "DISCONNECTING"]
       ELSE IF info.opcode = 9 THEN [ended EXCEPT !.pongs = Append(@, data)]
       ELSE IF IsControl(info) THEN ended
       ELSE HandleData(ended, info, data)

\* Mutant: each packet begins with the first byte of the mask.
UnmaskMutant(units, index) ==
    [i \in DOMAIN units |-> IF units[i].key = (i - 1) % 4 THEN units[i].byte ELSE 0]

\* data[i] ^= mask[(index + i) % 4]; 0 is any other byte than the one sent.
Unmask(units, index) ==
    [i \in DOMAIN units |-> IF units[i].key = (index + i - 1) % 4 THEN units[i].byte ELSE 0]

\* One turn of the loop: the header, if one is due, and what there is of the frame.
Frame(s, units) ==
    LET head == units[1]
        header == input.frames[head.frame]
        info == IF s.partial THEN s.info
                ELSE [s.info EXCEPT !.index = 0, !.opcode = header.opcode,
                                    !.final = header.final, !.length = header.length]
        data == Unmask(IF s.partial THEN units ELSE Tail(units), info.index)
    IN IF info.index + Len(data) < info.length THEN PartOfFrame(s, info, data)
       ELSE EndOfFrame(s, info, data)

\* A packet divided into what belongs to each frame.
Pieces(units) ==
    FoldLeft(LAMBDA pieces, u : IF pieces = <<>> \/ u.head THEN Append(pieces, <<u>>)
                                ELSE Append(Front(pieces), Append(Last(pieces), u)),
             <<>>, units)

\* _onData()
FramePacket ==
    /\ link # "closed" /\ socket.status # "NONE" /\ frames # <<>>
    /\ \E n \in 1 .. Len(frames) :
          /\ socket' = FoldLeft(Frame, socket, Pieces(SubSeq(frames, 1, n)))
          /\ frames' = After(frames, n)
    /\ link' = IF socket'.status = "DISCONNECTED" THEN "closed" ELSE link
    /\ UNCHANGED <<input, todo, request>>

\* AsyncWebSocketResponse::_ack(): the browser has got the answer.  The web
\* socket takes the connection over, and the request is deleted.
Upgrade ==
    /\ link = "open" /\ socket.status = "NONE" /\ request.given.answers = <<101>>
    /\ socket' = [NewSocket EXCEPT !.status = "CONNECTED"]
    /\ UNCHANGED <<input, todo, request, link, frames>>

ConnectionNext ==
    \/ RequestNext /\ UNCHANGED <<frames, socket>>
    \/ Upgrade
    \/ FramePacket

\* Beside timeouts and close(): packets of a web socket get through.
ConnectionSpec ==
    /\ ConnectionInit /\ [][ConnectionNext]_connectionVars
    /\ WF_connectionVars(Timeout /\ UNCHANGED <<frames, socket>>)
    /\ WF_connectionVars(link = "closing" /\ Disconnect /\ UNCHANGED <<frames, socket>>)

-----------------------------------------------------------------------------

\* The frames of a sequence that have one of the opcodes.
FramesOf(opcodes, sent) ==
    FoldLeft(LAMBDA chosen, f : IF f.opcode \in opcodes THEN Append(chosen, f) ELSE chosen,
             <<>>, sent)

DataFrames == FramesOf(0 .. 7, input.frames)
Pings == FramesOf({9}, input.frames)
Payload(f) == [b \in 1 .. f.length |-> b]

\* What the application has heard are the frames with data, each from offset 0 and
\* unmasked; and if no control frame was divided between packets, pings have been
\* answered with their payload.
HeardAsSent ==
    LET heard == socket.heard
    IN /\ ~ socket.gaps
       /\ Len(heard) <= Len(DataFrames)
       /\ \A i \in DOMAIN heard :
             /\ heard[i].opcode = DataFrames[i].opcode /\ heard[i].final = DataFrames[i].final
             /\ IsPrefix(heard[i].data, Payload(DataFrames[i]))
             /\ i < Len(heard) => heard[i].data = Payload(DataFrames[i])
       /\ ~ socket.cut => IsPrefix(socket.pongs, [i \in DOMAIN Pings |-> Payload(Pings[i])])

\* When all frames have come, it has heard the data of each to its end.
AllAreHeard ==
    frames = <<>> => [i \in DOMAIN socket.heard |-> socket.heard[i].data]
                        = [i \in DOMAIN DataFrames |-> Payload(DataFrames[i])]

\* The application hears the frames that the browser sent, in their order, as they
\* come and in the end all of them, whatever the packets.
FramesAreHeard == HeardAsSent /\ AllAreHeard

\* A browser that asks for a web socket as it should is answered with the upgrade,
\* once, when its request has come, whatever the packets.
UpgradeIsAnswered ==
    input.frames # <<>> /\ todo = <<>> => request.given.answers = <<101>>

\* A request is served when it has come, with the upgrade if it asks for that.
RequestIsServed == HandledWhenComplete /\ UpgradeIsAnswered

=============================================================================
