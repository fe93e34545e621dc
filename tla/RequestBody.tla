---------------------------- MODULE RequestBody ----------------------------
(***************************************************************************)
(* The parsers of request bodies in WebRequest.cpp: plain posts and        *)
(* multipart bodies, byte by byte.  `last' says that the byte is the last  *)
(* of its packet.  q.item holds the members of the multipart parser.       *)
(***************************************************************************)
EXTENDS WebHandlers

CONSTANTS Boundary,  \* _boundary, a sequence of symbols
          ItemBuffer \* the size of _itemBuffer: 1460 in the code

ASSUME BodyAssumption == IsSequence(Boundary) /\ Boundary # <<>> /\ ItemBuffer \in Nat \ {0}

\* The lines that head a part: its disposition without and with a filename, its type.
PartLines == {"field", "file", "type"}

-----------------------------------------------------------------------------
(* Plain posts. *)

\* _parsePlainPostChar(), after _parsedLength++.
ParsePlainPostChar(q, data) ==
    LET temp == IF data = "&" THEN q.temp ELSE Append(q.temp, data)
        pair == NameAndValue(temp)
        named == Position(temp, "=") > 1 /\ temp[1] \notin {"{", "["}
    IN IF data = "&" \/ q.parsed = q.length
       THEN AddParam([q EXCEPT !.temp = <<>>],
                     IF named THEN Decoded(pair, TRUE)
                     ELSE Parameter(<<"body">>, UrlDecode(temp), TRUE))
       ELSE [q EXCEPT !.temp = temp]

-----------------------------------------------------------------------------
(* Multipart bodies. *)

MultiState(q, s) == [q EXCEPT !.item.state = s]

\* _handleUploadByte()
HandleUploadByte(q, data, last) ==
    LET buffer == Append(q.item.buffer, data)
    IN IF last \/ Len(buffer) = ItemBuffer
       THEN HandleUpload([q EXCEPT !.item.buffer = <<>>],
                         q.item.size - Len(buffer), buffer, FALSE)
       ELSE [q EXCEPT !.item.buffer = buffer]

\* itemWriteByte(); _itemBuffer is NULL unless it has been allocated.
ItemWriteByte(q, data, last) ==
    LET counted == [q EXCEPT !.item.size = @ + 1]
    IN IF ~ q.item.isFile THEN [counted EXCEPT !.item.value = Append(@, data)]
       ELSE IF ~ q.item.allocated THEN [counted EXCEPT !.given.gaps = TRUE]
       ELSE HandleUploadByte(counted, data, last)

WaitForReturn(q, data, last) ==
    IF data = "CR" THEN MultiState(q, "EXPECT_FEED1")
    ELSE ItemWriteByte(MultiState(q, "WAIT_FOR_RETURN1"), data, last)

\* What looked like a boundary is data, and the byte is looked at again.
NoBoundary(q, seen, data, last) ==
    LET write(r, b) == ItemWriteByte(r, b, last)
    IN WaitForReturn(FoldLeft(write, q, seen), data, last)

Delimiter == <<"CR", "LF", "-", "-">> \o Boundary

ExpectBoundary(q, data) ==
    LET expected == <<"-", "-">> \o Boundary \o <<"CR", "LF">>
    IN IF data # expected[q.parsed + 1] THEN MultiState(q, "PARSE_ERROR")
       ELSE IF q.parsed + 1 < Len(expected) THEN q
       ELSE [MultiState(q, "PARSE_HEADERS") EXCEPT !.item.isFile = FALSE]

\* A line that heads a part; an empty one ends them.
PartHeader(q) ==
    IF q.temp = <<>>
    THEN [MultiState(q, "WAIT_FOR_RETURN1") EXCEPT
             !.item.size = 0, !.item.value = <<>>,
             !.item.buffer = IF q.item.isFile THEN <<>> ELSE @,
             !.item.allocated = @ \/ q.item.isFile]
    ELSE LET line == q.temp[1] IN
         [q EXCEPT !.temp = <<>>,
                   !.item.isFile = @ \/ line \in {"file", "type"},
                   !.item.name = IF line \in {"field", "file"} THEN line ELSE @]

ParseHeaders(q, data) ==
    IF data = "LF" THEN PartHeader(q)
    ELSE IF data = "CR" THEN q ELSE [q EXCEPT !.temp = Append(@, data)]

\* The boundary is complete: the part ends.
EndOfPart(q) ==
    LET item == q.item
        ended == MultiState(q, "DASH3_OR_RETURN2")
        uploaded == HandleUpload([ended EXCEPT !.item.buffer = <<>>],
                                 item.size - Len(item.buffer), item.buffer, TRUE)
        file == [name |-> <<item.name>>, value |-> <<"filename">>, isForm |-> TRUE,
                 isFile |-> TRUE, size |-> item.size]
    IN IF ~ item.isFile THEN AddParam(ended, Parameter(<<item.name>>, item.value, TRUE))
       ELSE [(IF item.size = 0 THEN ended ELSE AddParam(uploaded, file))
                EXCEPT !.item.allocated = FALSE]

\* Mutant: the part of the boundary that was there is forgotten.
BoundaryOrDataMutant(q, data, last) ==
    IF Boundary[q.item.position + 1] # data
    THEN NoBoundary(q, <<"CR", "LF", "-", "-">>, data, last)
    ELSE IF q.item.position = Len(Boundary) - 1 THEN EndOfPart(q)
    ELSE [q EXCEPT !.item.position = @ + 1]

BoundaryOrData(q, data, last) ==
    IF Boundary[q.item.position + 1] # data
    THEN NoBoundary(q, SubSeq(Delimiter, 1, 4 + q.item.position), data, last)
    ELSE IF q.item.position = Len(Boundary) - 1 THEN EndOfPart(q)
    ELSE [q EXCEPT !.item.position = @ + 1]

\* A dash makes this the last boundary: the length of the body is taken to be
\* what ends with one more dash, CR and LF.
Dash3OrReturn2(q, data, last) ==
    LET counted == IF data = "-" THEN [q EXCEPT !.length = q.parsed + 4] ELSE q
    IN IF data = "CR" THEN MultiState(q, "EXPECT_FEED2")
       ELSE IF data = "-" THEN MultiState(counted, "PARSING_FINISHED")
       ELSE NoBoundary(q, Delimiter, data, last)

ExpectFeed2(q, data, last) ==
    IF data = "LF" THEN [MultiState(q, "PARSE_HEADERS") EXCEPT !.item.isFile = FALSE]
    ELSE NoBoundary(q, Append(Delimiter, "CR"), data, last)

\* EXPECT_FEED1, EXPECT_DASH1, EXPECT_DASH2: the i-th byte of a delimiter.
Expect(q, i, next, data, last) ==
    IF data = Delimiter[i] THEN MultiState(q, next)
    ELSE NoBoundary(q, SubSeq(Delimiter, 1, i - 1), data, last)

\* _parseMultipartPostByte(); the parser is set up by the first byte.
ParseMultipartPostByte(p, data, last) ==
    LET q == IF p.parsed > 0 THEN p
             ELSE [MultiState(p, "EXPECT_BOUNDARY") EXCEPT !.temp = <<>>]
        s == q.item.state
    IN IF s = "WAIT_FOR_RETURN1" THEN WaitForReturn(q, data, last)
       ELSE IF s = "EXPECT_BOUNDARY" THEN ExpectBoundary(q, data)
       ELSE IF s = "PARSE_HEADERS" THEN ParseHeaders(q, data)
       ELSE IF s = "EXPECT_FEED1" THEN Expect(q, 2, "EXPECT_DASH1", data, last)
       ELSE IF s = "EXPECT_DASH1" THEN Expect(q, 3, "EXPECT_DASH2", data, last)
       ELSE IF s = "EXPECT_DASH2"
       THEN Expect([q EXCEPT !.item.position = 0], 4, "BOUNDARY_OR_DATA", data, last)
       ELSE IF s = "BOUNDARY_OR_DATA" THEN BoundaryOrData(q, data, last)
       ELSE IF s = "DASH3_OR_RETURN2" THEN Dash3OrReturn2(q, data, last)
       ELSE IF s = "EXPECT_FEED2" THEN ExpectFeed2(q, data, last)
       ELSE q

=============================================================================
