----------------------------- MODULE WebRequest -----------------------------
(***************************************************************************)
(* One request to the web server, from the first packet to the deletion    *)
(* of the request object (AsyncWebServerRequest, WebRequest.cpp).  The     *)
(* browser's stream of symbols comes in packets of any length, after each  *)
(* of which the connection may end or stay silent.                         *)
(***************************************************************************)
EXTENDS RequestBody, FiniteSets

CONSTANTS Inputs,    \* what the browser may send; see Browser
          MaxPacket  \* bound: symbols in a packet, or all that is left

ASSUME RequestAssumption ==
    /\ MaxPacket \in Nat \ {0}
    /\ \A in \in Inputs :
          /\ \A text \in {in.line, in.raw, in.tail, in.extra} : IsSequence(text)
          /\ \A list \in {in.headers, in.fields, in.parts} : IsSequence(list)
          /\ \A i \in DOMAIN in.headers : IsSequence(in.headers[i].value)
          /\ \A i \in DOMAIN in.fields : IsSequence(in.fields[i].name) /\ IsSequence(in.fields[i].value)
          /\ \A i \in DOMAIN in.parts : IsSequence(in.parts[i].data)

VARIABLES input,   \* the member of Inputs that the browser sends
          todo,    \* symbols that have not come yet
          request, \* the members of the request, with the history `given'
          link     \* "open", "closing" (close() was called), or "closed"

requestVars == <<input, todo, request, link>>

-----------------------------------------------------------------------------
(* The browser.  An input is a record: line, the request line; headers;      *)
(* encoding of the body; fields, pairs of a plain post; parts, [file, typed, *)
(* data] of a multipart body; raw, any other body; tail, what follows the    *)
(* last boundary; extra, symbols after the body; credentials; app, what the  *)
(* application's handler does.                                               *)

Join(texts, between) ==
    FoldLeft(LAMBDA all, t : IF all = <<>> THEN t ELSE all \o between \o t, <<>>, texts)

Encode(text) ==
    LET code(s) == IF s = "&" THEN <<"%", "26">> ELSE IF s = "=" THEN <<"%", "3D">>
                   ELSE IF s = "%" THEN <<"%", "25">> ELSE IF s = " " THEN <<"+">> ELSE <<s>>
    IN FoldLeft(LAMBDA done, s : done \o code(s), <<>>, text)

FormText(fields) ==
    Join([i \in DOMAIN fields |-> Encode(fields[i].name) \o <<"=">> \o Encode(fields[i].value)],
         <<"&">>)

PartText(part) ==
    <<"-", "-">> \o Boundary \o <<"CR", "LF">>
        \o <<IF part.file THEN "file" ELSE "field", "CR", "LF">>
        \o (IF part.file \/ part.typed THEN <<"type", "CR", "LF">> ELSE <<>>)
        \o <<"CR", "LF">> \o part.data \o <<"CR", "LF">>

MultipartText(in) ==
    FoldLeft(LAMBDA all, part : all \o PartText(part), <<>>, in.parts)
        \o <<"-", "-">> \o Boundary \o <<"-", "-">> \o in.tail

BodyText(in) ==
    IF in.encoding \in {"form", "text"} THEN FormText(in.fields)
    ELSE IF in.encoding = "multipart" THEN MultipartText(in)
    ELSE in.raw

HeaderLine(name, value) == <<name, ":">> \o value \o <<"CR", "LF">>

HeadText(in) ==
    in.line \o <<"CR", "LF">>
        \o FoldLeft(LAMBDA all, h : all \o HeaderLine(h.name, h.value), <<>>, in.headers)
        \o (IF in.encoding = "none" THEN <<>>
            ELSE HeaderLine("Content-Type", <<in.encoding>>)
                     \o HeaderLine("Content-Length", <<"length">>))
        \o <<"CR", "LF">>

-----------------------------------------------------------------------------

NewItem == [state |-> "EXPECT_BOUNDARY", position |-> 0, size |-> 0, name |-> "",
            value |-> <<>>, buffer |-> <<>>, allocated |-> FALSE, isFile |-> FALSE]

Nothing == [files |-> <<>>, body |-> <<>>, gaps |-> FALSE, handled |-> 0, answers |-> <<>>]

\* The constructor.  The last four members belong to the input and to the history.
NewRequest(in) ==
    [state |-> "START", temp |-> <<>>, method |-> "ANY", url |-> <<>>, version |-> 0,
     type |-> "", connType |-> "HTTP", multipart |-> FALSE, plain |-> FALSE,
     continue |-> FALSE, length |-> 0, parsed |-> 0, headers |-> <<>>, params |-> <<>>,
     interesting |-> {}, handler |-> 0, item |-> NewItem, object |-> <<>>,
     rxTimeout |-> TRUE, pending |-> FALSE, disk |-> Files,
     credentials |-> [scheme |-> "none", user |-> "", secret |-> <<>>, uri |-> ""],
     json |-> in.raw, app |-> in.app, announced |-> Len(BodyText(in)), given |-> Nothing]

RequestInit ==
    /\ input \in Inputs
    /\ todo = HeadText(input) \o BodyText(input) \o input.extra
    /\ request = NewRequest(input)
    /\ link = "open"

-----------------------------------------------------------------------------
(* The head. *)

\* _parseReqHead()
ParseReqHead(q) ==
    LET method == Before(q.temp, Position(q.temp, " "))
        rest == After(q.temp, Position(q.temp, " "))
        target == Before(rest, Position(rest, " "))
        mark == Position(target, "?")
        path == IF mark > 1 THEN Before(target, mark) ELSE target
        query == IF mark > 1 THEN After(target, mark) ELSE <<>>
        known == {"GET", "POST", "DELETE", "PUT", "PATCH", "HEAD", "OPTIONS"}
    IN AddGetParams(
          [q EXCEPT !.method = IF method[1] \in known THEN method[1] ELSE "ANY",
                    !.url = UrlDecode(path),
                    !.version = IF Last(rest) = "HTTP/1.0" THEN 0 ELSE 1,
                    !.temp = <<>>],
          query)

\* _parseReqHeader().  The number of Content-Length is the announced length, the
\* value of Authorization stands for the credentials of the input.
ParseReqHeader(q) ==
    LET name == q.temp[1]
        value == After(q.temp, Position(q.temp, ":"))
    IN [q EXCEPT
          !.temp = <<>>,
          !.headers = Append(@, [name |-> name, value |-> value]),
          !.type = IF name = "Content-Type" THEN value[1] ELSE @,
          !.multipart = @ \/ (name = "Content-Type" /\ value[1] = "multipart"),
          !.length = IF name = "Content-Length" THEN q.announced ELSE @,
          !.continue = @ \/ (name = "Expect" /\ value = <<"100-continue">>),
          !.credentials = IF name = "Authorization" THEN input.credentials ELSE @,
          !.connType = IF name = "Upgrade" /\ value = <<"websocket">> THEN "WS"
                       ELSE IF name = "Accept" /\ value = <<"text/event-stream">> THEN "EVENT"
                       ELSE @]

\* The request is complete.
Complete(q) == HandleRequest([q EXCEPT !.state = "END"])

\* The end of the headers: the handler is chosen, and called if there is no body.
BodyOrEnd(q) == IF q.length > 0 THEN [q EXCEPT !.state = "BODY"] ELSE Complete(q)
EndOfHeaders(q) == BodyOrEnd(RemoveNotInterestingHeaders(AttachHandler(RewriteRequest(q))))

\* _parseLine(): _temp has been trimmed.
ParseLine(q) ==
    IF q.state = "START"
    THEN IF q.temp = <<>> THEN [q EXCEPT !.state = "FAIL"]
         ELSE [ParseReqHead(q) EXCEPT !.state = "HEADERS"]
    ELSE IF q.temp = <<>> THEN EndOfHeaders(q) ELSE ParseReqHeader(q)

InHead(q) == q.state \in {"START", "HEADERS"}

\* trim(): a line may end with CR.
Trimmed(text) == IF text # <<>> /\ Last(text) = "CR" THEN Front(text) ELSE text

\* _onData() in the head: what has no line end yet is kept in _temp.
HeadSymbol(q, s) ==
    IF s = "LF" THEN ParseLine([q EXCEPT !.temp = Trimmed(@)])
    ELSE [q EXCEPT !.temp = Append(@, s)]

-----------------------------------------------------------------------------
(* The body. *)

IsParamChar(s) == s \notin {"{", "[", "&", "="}

\* A text that begins with a name and `=' is taken for a plain post; the first
\* packet must hold more than that.
LooksPlain(data) ==
    LET stop == SelectInSeq(data, LAMBDA s : ~ IsParamChar(s))
    IN stop > 1 /\ stop < Len(data) /\ data[stop] = "="

Counted(q, data) == [q EXCEPT !.parsed = @ + Len(data)]

Multipart(q, data) ==
    FoldLeft(LAMBDA r, i : Counted(ParseMultipartPostByte(r, data[i], i = Len(data)), <<data[i]>>),
             q, [i \in DOMAIN data |-> i])

PlainPost(q, data) ==
    FoldLeft(LAMBDA r, s : ParsePlainPostChar([r EXCEPT !.parsed = @ + 1], s), q, data)

\* Mutant: the body may have come to its end when there is more than it.
BodyDoneMutant(q) == q.parsed + 1 >= q.length

BodyDone(q) == q.parsed = q.length

\* A plain post is known by its type, or by the first packet of its body.
WithPlain(q, data) ==
    [q EXCEPT !.plain = @ \/ (q.parsed = 0 /\ ~ q.multipart
                               /\ (q.type = "form" \/ (q.type = "text" /\ LooksPlain(data))))]

\* The body is parsed, handed over as it is, or skipped.
Parsed(q, data) ==
    LET needParse == ~ IsTrivial(Handler(q))
    IN IF ~ q.multipart /\ ~ q.plain THEN Counted(HandleBody(q, data, q.parsed), data)
       ELSE IF ~ needParse THEN Counted(q, data)
       ELSE IF q.multipart THEN Multipart(q, data) ELSE PlainPost(q, data)

\* _onData() in the body, for all that is left of the packet.
CompleteIfDone(q) == IF BodyDone(q) THEN Complete(q) ELSE q
BodyData(q, data) == CompleteIfDone(Parsed(WithPlain(q, data), data))

\* _onData() in the head, and the symbols of the packet that are behind it.
HeadPart(q, data) ==
    FoldLeft(LAMBDA head, s : IF InHead(head.request)
                              THEN [head EXCEPT !.request = HeadSymbol(@, s)]
                              ELSE [head EXCEPT !.rest = Append(@, s)],
             [request |-> q, rest |-> <<>>], data)

\* _onData(): a request that is complete or has failed takes no more.
OnPart(head) ==
    IF head.request.state = "BODY" /\ head.rest # <<>>
    THEN BodyData(head.request, head.rest)
    ELSE head.request
OnData(q, data) == OnPart(HeadPart(q, data))

-----------------------------------------------------------------------------

\* The client calls _onData() for a packet.
Packet ==
    /\ link # "closed" /\ todo # <<>>
    /\ \E n \in (1 .. MaxPacket) \cup {Len(todo)} :
          /\ n <= Len(todo)
          /\ request' = OnData(request, SubSeq(todo, 1, n))
          /\ todo' = After(todo, n)
    /\ link' = IF request'.state = "FAIL" THEN "closing" ELSE link
    /\ UNCHANGED input

\* The application answers a request that it has kept.
AnswerLater ==
    /\ link # "closed" /\ request.pending
    /\ request' = Send([request EXCEPT !.pending = FALSE], 200)
    /\ UNCHANGED <<input, todo, link>>

\* Mutant: only requests that are being parsed time out.
TimeoutMutant ==
    /\ link = "open" /\ request.rxTimeout /\ request.state \in {"START", "HEADERS"}
    /\ link' = "closing"
    /\ UNCHANGED <<input, todo, request>>

\* setRxTimeout(3), _onTimeout(): nothing has come for three seconds, and no
\* response has been sent.
Timeout ==
    /\ link = "open" /\ request.rxTimeout
    /\ link' = "closing"
    /\ UNCHANGED <<input, todo, request>>

\* The connection ends, because close() was called or the browser has left:
\* _onDisconnect() and _handleDisconnect() delete the request.
Disconnect ==
    /\ link # "closed"
    /\ link' = "closed"
    /\ request' = [request EXCEPT !.pending = FALSE]
    /\ UNCHANGED <<input, todo>>

RequestNext == Packet \/ AnswerLater \/ Timeout \/ Disconnect

\* The client polls: timeouts are seen, and close() takes effect.
RequestSpec ==
    /\ RequestInit /\ [][RequestNext]_requestVars
    /\ WF_requestVars(Timeout)
    /\ WF_requestVars(link = "closing" /\ Disconnect)

-----------------------------------------------------------------------------
(* Properties. *)

\* What a request amounts to, whatever the packets.
QueryParams == [i \in DOMAIN input.query |->
                  Parameter(input.query[i].name, input.query[i].value, FALSE)]
FieldParams == [i \in DOMAIN input.fields |->
                  Parameter(input.fields[i].name, input.fields[i].value, TRUE)]

PartParam(part) ==
    IF part.file \/ part.typed
    THEN [name |-> <<IF part.file THEN "file" ELSE "field">>, value |-> <<"filename">>,
          isForm |-> TRUE, isFile |-> TRUE, size |-> Len(part.data)]
    ELSE Parameter(<<"field">>, part.data, TRUE)

IsFilePart(part) == part.file \/ part.typed

\* An empty file is as good as none.
PartParams ==
    LET parts == SelectSeq(input.parts, LAMBDA p : ~ IsFilePart(p) \/ p.data # <<>>)
    IN [i \in DOMAIN parts |-> PartParam(parts[i])]

PartFiles ==
    LET files == SelectSeq(input.parts, LAMBDA p : IsFilePart(p) /\ p.data # <<>>)
    IN [i \in DOMAIN files |-> [data |-> files[i].data, final |-> TRUE]]

\* The handler that takes the request parses bodies, and lets it in.
Parses == ~ IsTrivial(Handler(request))
Welcome == Allowed(Handler(request), request)
Handled == request.given.handled > 0
ForCallback == Handler(request).kind = "callback"
TakesFiles == Handler(request).kind \in {"callback", "editor"}

\* A request that is handled has been parsed to what the browser has sent: the
\* parameters of query and form, the files of a multipart body from offset 0 to
\* the last byte, any other body as a whole; a text may be either.
ParsedAsSent ==
    Handled /\ Parses /\ Welcome =>
      LET params == request.params
          given == request.given
      IN /\ ~ given.gaps
         /\ input.encoding = "form" => params = QueryParams \o FieldParams
         /\ input.encoding = "multipart" => params = QueryParams \o PartParams
         /\ input.encoding = "multipart" /\ TakesFiles => given.files = PartFiles
         /\ input.encoding = "octets" /\ ForCallback => given.body = input.raw
         /\ input.encoding = "text" =>
               (params = QueryParams \o FieldParams) # (given.body = BodyText(input))

\* Whatever ends with the body, and in a multipart body with the last boundary
\* and its line end.
WellFormed ==
    /\ input.line # <<>> /\ input.extra = <<>>
    /\ input.encoding = "multipart" => input.tail = <<"CR", "LF">>

\* A request all of which has come is handled, and not before.
HandledWhenComplete ==
    /\ WellFormed /\ todo = <<>> => Handled
    /\ Handled => Len(todo) <= Len(input.extra) \/ ~ WellFormed

\* A handler is called once, by the end of the request.
HandledOnce == request.given.handled = IF request.state = "END" THEN 1 ELSE 0

\* A request that is refused reaches nothing behind the handler: neither body nor
\* file has come to the application, no file has changed, and every answer says no.
\* The JSON handler lets everybody in.
RefusedReachesNothing ==
    ~ Welcome /\ Handler(request).kind # "json" =>
      /\ request.given.body = <<>> /\ request.given.files = <<>>
      /\ ~ request.pending /\ request.disk = Files
      /\ Range(request.given.answers) \subseteq {400, 401}

\* Handlers are called once, for those they let in, in whatever pieces a request comes.
HandlersAreGuarded == HandledOnce /\ RefusedReachesNothing

\* A request is answered or its connection ends: whatever the browser leaves out,
\* and however long the application takes.
RequestEnds == (request.given.answers = <<>>) ~> (request.given.answers # <<>> \/ link = "closed")

=============================================================================
