---------------------------- MODULE WebHandlers ----------------------------
(***************************************************************************)
(* The handlers of the web server and what they do with a request:         *)
(* AsyncWebServer (WebServer.cpp), AsyncWebHandler, AsyncWebRewrite        *)
(* (ESPAsyncWebServer.h), AsyncCallbackWebHandler, AsyncStaticWebHandler   *)
(* (WebHandlerImpl.h, WebHandlers.cpp), AsyncCallbackJsonWebHandler        *)
(* (AsyncJson.h), SPIFFSEditor, the request handlers of AsyncWebSocket and *)
(* AsyncEventSource, and authentication.                                   *)
(*                                                                         *)
(* A request is a record `q' of the members of AsyncWebServerRequest, its  *)
(* operations are functions of it.  q.given is the history of what the     *)
(* application and the peer have got.  Texts are sequences of symbols.     *)
(***************************************************************************)
EXTENDS Naturals, Sequences, SequencesExt

CONSTANTS Handlers, \* _handlers: [kind, uri, methods, protected, onRequest]
          CatchAll, \* _catchAllHandler
          Rewrites, \* _rewrites: [from, to, params]
          Files,    \* the names of the files in the file system
          MaxJson   \* _maxContentLength of JSON handlers

IsSequence(s) == s \in Seq(Range(s))

ASSUME HandlersAssumption ==
    /\ IsSequence(Rewrites) /\ \A i \in DOMAIN Rewrites : IsSequence(Rewrites[i].params)
    /\ \A i \in DOMAIN Handlers :
          Handlers[i].kind \in {"callback", "static", "json", "websocket", "events", "editor"}
    /\ CatchAll.kind = "callback" /\ MaxJson \in Nat

-----------------------------------------------------------------------------
(* Texts. *)

Position(text, symbol) == SelectInSeq(text, LAMBDA s : s = symbol)
Before(text, i) == SubSeq(text, 1, i - 1)
After(text, i) == SubSeq(text, i + 1, Len(text))

\* What "%26" and the like stand for.
Escaped == [code \in {"26", "3D", "25"} |->
              IF code = "26" THEN "&" ELSE IF code = "3D" THEN "=" ELSE "%"]

\* urlDecode(): a pair of digits is one symbol here.
UrlDecode(text) ==
    LET decode(done, i) ==
          IF i > 1 /\ text[i - 1] = "%" THEN Append(done, Escaped[text[i]])
          ELSE IF text[i] = "%" THEN done
          ELSE Append(done, IF text[i] = "+" THEN " " ELSE text[i])
    IN FoldLeft(decode, <<>>, [i \in 1 .. Len(text) |-> i])

\* AsyncWebParameter.
Parameter(name, value, isForm) ==
    [name |-> name, value |-> value, isForm |-> isForm, isFile |-> FALSE, size |-> 0]

AddParam(q, p) == [q EXCEPT !.params = Append(@, p)]

\* The first `=' divides name and value.
NameAndValue(text) ==
    LET equal == Position(text, "=")
    IN IF equal = 0 THEN <<text, <<>>>> ELSE <<Before(text, equal), After(text, equal)>>

\* The parameter that a pair stands for.
Decoded(pair, post) == Parameter(UrlDecode(pair[1]), UrlDecode(pair[2]), post)

\* _addGetParams(): parameters are divided by `&', after the last of which
\* there may be none.
AddGetParams(q, text) ==
    LET ended == IF text = <<>> \/ Last(text) = "&" THEN text ELSE Append(text, "&")
    IN FoldLeft(LAMBDA acc, symbol :
                  IF symbol = "&"
                  THEN <<AddParam(acc[1], Decoded(NameAndValue(acc[2]), FALSE)), <<>>>>
                  ELSE <<acc[1], Append(acc[2], symbol)>>,
                <<q, <<>>>>, ended)[1]

-----------------------------------------------------------------------------
(* The request, as handlers see it. *)

HasHeader(q, name) == \E i \in DOMAIN q.headers : q.headers[i].name = name
Header(q, name) ==
    q.headers[SelectInSeq(q.headers, LAMBDA h : h.name = name)].value

\* hasParam() and getParam().
HasParam(q, name, post, file) ==
    \E i \in DOMAIN q.params : LET p == q.params[i]
                               IN p.name = name /\ p.isForm = post /\ p.isFile = file
Param(q, name, post, file) ==
    q.params[SelectInSeq(q.params, LAMBDA p : p.name = name /\ p.isForm = post /\ p.isFile = file)].value

\* AsyncWebServerRequest::send() of a valid response.  Answers are counted up to two.
Send(q, code) ==
    [q EXCEPT !.rxTimeout = FALSE,
              !.given.answers = IF Len(@) < 2 THEN Append(@, code) ELSE @]

CheckBasicAuthentication(c) == c.user = "user" /\ c.secret = <<"password">>

\* The hash covers the password, the method, and the URI that the browser gives; MD5
\* has no collisions.
CheckDigestAuthentication(c, method) ==
    c.user = "user" /\ c.secret = <<"password", method, c.uri>>

\* authenticate() of a user and a password.
Authenticate(q) ==
    LET c == q.credentials
    IN \/ c.scheme = "Basic" /\ CheckBasicAuthentication(c)
       \/ c.scheme = "Digest" /\ CheckDigestAuthentication(c, q.method)

RequestAuthentication(q) == Send(q, 401)

Allowed(h, q) == h.protected => Authenticate(q)

\* setHandler(): the one of Handlers, or the last.
Handler(q) == IF q.handler = 0 THEN CatchAll ELSE Handlers[q.handler]

\* isRequestHandlerTrivial(): only these kinds say that bodies are of interest.
IsTrivial(h) == h.kind # "editor" /\ (h.kind \notin {"callback", "json"} \/ ~ h.onRequest)

-----------------------------------------------------------------------------
(* Choosing a handler. *)

\* AsyncWebRewrite, _rewriteRequest(): one after the other.
RewriteRequest(q) ==
    LET rewrite(r, rule) ==
          IF rule.from = r.url THEN AddGetParams([r EXCEPT !.url = rule.to], rule.params) ELSE r
    IN FoldLeft(rewrite, q, Rewrites)

\* A path and what is below it.
PathMatches(uri, url) == uri = <<>> \/ uri = url \/ IsPrefix(Append(uri, "/"), url)

\* "/*.ext", "/path*", or a path.
UriMatches(uri, url) ==
    LET dot == SelectLastInSeq(uri, LAMBDA s : s = ".")
    IN IF IsPrefix(<<"/", "*", ".">>, uri) THEN IsSuffix(SubSeq(uri, dot, Len(uri)), url)
       ELSE IF uri # <<>> /\ Last(uri) = "*" THEN IsPrefix(Front(uri), url)
       ELSE PathMatches(uri, url)

\* _fileExists(): the file or a compressed one; which is tried first is left out.
FileExists(q, name) == name \in q.disk \/ Append(name, ".gz") \in q.disk

\* _getFile(): the file, unless that is a directory, or its default file.
GetFile(h, q) ==
    LET path == After(q.url, Len(h.uri))
        isDir == path = <<>> \/ Last(path) = "/"
    IN \/ ~ isDir /\ FileExists(q, path)
       \/ FileExists(q, (IF path # <<>> /\ Last(path) = "/" THEN path ELSE Append(path, "/"))
                           \o <<"index.htm">>)

\* SPIFFSEditor::canHandle(): a file to show or to download has to exist.
EditorCanHandle(q) ==
    /\ q.url = <<"/", "edit">>
    /\ \/ q.method \in {"POST", "DELETE", "PUT"}
       \/ /\ q.method = "GET"
          /\ \/ HasParam(q, <<"list">>, FALSE, FALSE)
             \/ \A name \in {<<"edit">>, <<"download">>} :
                   HasParam(q, name, FALSE, FALSE) => Param(q, name, FALSE, FALSE) \in q.disk

\* The method ANY has every bit set.
CallbackCanHandle(h, q) ==
    h.onRequest /\ q.method \in h.methods \cup {"ANY"} /\ UriMatches(h.uri, q.url)

JsonCanHandle(h, q) ==
    h.onRequest /\ q.method \in h.methods \cup {"ANY"} /\ PathMatches(h.uri, q.url)
        /\ q.type = "json"

StaticCanHandle(h, q) ==
    q.method = "GET" /\ IsPrefix(h.uri, q.url) /\ q.connType = "HTTP" /\ GetFile(h, q)

WebSocketCanHandle(h, q) == q.method = "GET" /\ q.url = h.uri /\ q.connType = "WS"

EventsCanHandle(h, q) == q.method = "GET" /\ q.url = h.uri

CanHandle(h, q) ==
    \/ h.kind = "callback" /\ CallbackCanHandle(h, q)
    \/ h.kind = "json" /\ JsonCanHandle(h, q)
    \/ h.kind = "static" /\ StaticCanHandle(h, q)
    \/ h.kind = "websocket" /\ WebSocketCanHandle(h, q)
    \/ h.kind = "events" /\ EventsCanHandle(h, q)
    \/ h.kind = "editor" /\ EditorCanHandle(q)

\* addInterestingHeader() calls of canHandle().
Interesting(h, q) ==
    IF h.kind = "static" THEN {"If-Modified-Since", "If-None-Match"}
    ELSE IF h.kind = "events" THEN {"Last-Event-ID"}
    ELSE IF h.kind = "editor"
    THEN IF q.method = "GET" /\ ~ HasParam(q, <<"list">>, FALSE, FALSE)
         THEN {"If-Modified-Since"} ELSE {}
    ELSE IF h.kind = "websocket"
    THEN {"Connection", "Upgrade", "Origin", "Sec-WebSocket-Version", "Sec-WebSocket-Key",
          "Sec-WebSocket-Protocol"}
    ELSE {"ANY"}

\* _attachHandler(): the first that can handle the request.
AttachHandler(q) ==
    LET i == SelectInSeq(Handlers, LAMBDA h : CanHandle(h, q))
    IN [q EXCEPT !.handler = i,
                 !.interesting = Interesting(IF i = 0 THEN CatchAll ELSE Handlers[i], q)]

\* Mutant: headers are only kept for handlers that want all of them.
RemoveNotInterestingHeadersMutant(q) ==
    IF "ANY" \in q.interesting THEN q ELSE [q EXCEPT !.headers = <<>>]

\* _removeNotInterestingHeaders().  The list is changed by the loop that walks
\* through it; the node it steps on from has been deleted and still has its link.
RemoveNotInterestingHeaders(q) ==
    IF "ANY" \in q.interesting THEN q
    ELSE [q EXCEPT !.headers = SelectSeq(@, LAMBDA h : h.name \in q.interesting)]

-----------------------------------------------------------------------------
(* What handlers do. *)

\* The application's function answers at once, or keeps the request.  A response
\* whose source is not valid is replaced by 500.
OnRequest(q) ==
    IF q.app = "later" THEN [q EXCEPT !.pending = TRUE]
    ELSE Send(q, IF q.app = "invalid" THEN 500 ELSE 200)

StaticAnswer(q) ==
    IF HasHeader(q, "If-Modified-Since") /\ Header(q, "If-Modified-Since") = <<"same">>
    THEN 304
    ELSE IF HasHeader(q, "If-None-Match") /\ Header(q, "If-None-Match") = <<"same">>
    THEN 304 ELSE 200

WebSocketAnswer(h, q) ==
    IF ~ HasHeader(q, "Sec-WebSocket-Version") \/ ~ HasHeader(q, "Sec-WebSocket-Key") THEN 400
    ELSE IF ~ Allowed(h, q) THEN 401
    ELSE IF Header(q, "Sec-WebSocket-Version") # <<"13">> THEN 400 ELSE 101

\* SPIFFSEditor::handleRequest(): the answer, and the files there are afterwards.  A
\* new file may not be opened.
EditorAnswer(q) ==
    LET Answer(code, disk) == [code |-> code, disk |-> disk]
        path == Param(q, <<"path">>, TRUE, FALSE)
        named == HasParam(q, <<"path">>, TRUE, FALSE)
        shown == \E name \in {<<"list">>, <<"edit">>, <<"download">>} : HasParam(q, name, FALSE, FALSE)
        fresh == HasHeader(q, "If-Modified-Since") /\ Header(q, "If-Modified-Since") = <<"same">>
    IN IF q.method = "GET" THEN Answer(IF ~ shown /\ fresh THEN 304 ELSE 200, q.disk)
       ELSE IF q.method = "DELETE"
       THEN IF named THEN Answer(200, q.disk \ {path}) ELSE Answer(404, q.disk)
       ELSE IF q.method = "POST"
       THEN Answer(IF HasParam(q, <<"file">>, TRUE, TRUE)
                      /\ Param(q, <<"file">>, TRUE, TRUE) \in q.disk THEN 200 ELSE 500, q.disk)
       ELSE IF ~ named THEN Answer(400, q.disk)
       ELSE IF path \in q.disk THEN Answer(200, q.disk)
       ELSE IF q.app = "invalid" THEN Answer(500, q.disk)
       ELSE Answer(200, q.disk \cup {path})

\* JSON is parsed if there was memory for the body and all of it has been stored.
JsonIsValid(q) == q.object # <<>> /\ q.object = q.json

CallbackRequest(h, q) ==
    IF ~ Allowed(h, q) THEN RequestAuthentication(q)
    ELSE IF h.onRequest THEN OnRequest(q) ELSE Send(q, 500)

JsonRequest(q) ==
    IF JsonIsValid(q) THEN OnRequest(q) ELSE Send(q, IF q.length > MaxJson THEN 413 ELSE 400)

StaticRequest(h, q) ==
    IF Allowed(h, q) THEN Send(q, StaticAnswer(q)) ELSE RequestAuthentication(q)

EventsRequest(h, q) == IF Allowed(h, q) THEN Send(q, 200) ELSE RequestAuthentication(q)

EditorRequest(h, q) ==
    IF Allowed(h, q) THEN Send([q EXCEPT !.disk = EditorAnswer(q).disk], EditorAnswer(q).code)
    ELSE RequestAuthentication(q)

HandleRequest(p) ==
    LET h == Handler(p)
        q == [p EXCEPT !.given.handled = @ + 1]
    IN IF h.kind = "websocket" THEN Send(q, WebSocketAnswer(h, q))
       ELSE IF h.kind = "json" THEN JsonRequest(q)
       ELSE IF h.kind = "static" THEN StaticRequest(h, q)
       ELSE IF h.kind = "events" THEN EventsRequest(h, q)
       ELSE IF h.kind = "editor" THEN EditorRequest(h, q)
       ELSE CallbackRequest(h, q)

\* handleBody(): the JSON handler copies the data to its place in a buffer for all
\* of the body, unless that is too long.
JsonBody(q, data, index) ==
    [q EXCEPT !.object = IF q.length < MaxJson THEN SubSeq(@, 1, index) \o data ELSE @]

\* Mutant: only the first piece of a body is checked.
CallbackBodyMutant(h, q, data, index) ==
    IF ~ Allowed(h, q) /\ index = 0 THEN RequestAuthentication(q)
    ELSE [q EXCEPT !.given.body = @ \o data,
                   !.given.gaps = @ \/ index # Len(q.given.body)]

CallbackBody(h, q, data, index) ==
    IF ~ Allowed(h, q) THEN RequestAuthentication(q)
    ELSE [q EXCEPT !.given.body = @ \o data,
                   !.given.gaps = @ \/ index # Len(q.given.body)]

HandleBody(q, data, index) ==
    LET h == Handler(q)
    IN IF h.kind = "json" THEN JsonBody(q, data, index)
       ELSE IF h.kind = "callback" THEN CallbackBody(h, q, data, index) ELSE q

\* What the application, or the editor, does with a piece of a file, which starts at
\* index 0.
Upload(q, index, data, final) ==
    LET files == q.given.files
    IN IF index = 0
       THEN [q EXCEPT !.given.files = Append(@, [data |-> data, final |-> final])]
       ELSE IF files = <<>> \/ Last(files).final \/ Len(Last(files).data) # index
       THEN [q EXCEPT !.given.gaps = TRUE]
       ELSE [q EXCEPT !.given.files =
                Append(Front(@), [data |-> Last(@).data \o data, final |-> final])]

CallbackUpload(h, q, index, data, final) ==
    IF Allowed(h, q) THEN Upload(q, index, data, final) ELSE RequestAuthentication(q)

\* The editor does not answer those that it does not let in.
EditorUpload(h, q, index, data, final) ==
    IF ~ Allowed(h, q) THEN q
    ELSE [Upload(q, index, data, final) EXCEPT
             !.disk = IF index = 0 THEN @ \cup {<<"filename">>} ELSE @]

HandleUpload(q, index, data, final) ==
    LET h == Handler(q)
    IN IF h.kind = "callback" THEN CallbackUpload(h, q, index, data, final)
       ELSE IF h.kind = "editor" THEN EditorUpload(h, q, index, data, final) ELSE q

=============================================================================
