---------------------------- MODULE MCWebRequest ----------------------------
(* Values for model checking WebRequest and WebSocketReceive. *)
EXTENDS WebSocketReceive

MCHandler(kind, uri, methods, protected, onRequest) ==
    [kind |-> kind, uri |-> uri, methods |-> methods, protected |-> protected,
     onRequest |-> onRequest]

MCHandlers ==
    <<MCHandler("callback", <<"/", "a">>, {"GET", "POST"}, FALSE, TRUE),
      MCHandler("callback", <<"/", "p">>, {"POST", "GET"}, TRUE, TRUE),
      MCHandler("json", <<"/", "j">>, {"POST"}, FALSE, TRUE),
      MCHandler("websocket", <<"/", "w">>, {}, FALSE, TRUE),
      MCHandler("events", <<"/", "e">>, {}, TRUE, TRUE),
      MCHandler("editor", <<"/", "edit">>, {}, TRUE, TRUE),
      MCHandler("callback", <<"/", "w", "*">>, {"GET"}, FALSE, TRUE),
      MCHandler("callback", <<"/", "*", ".", "x">>, {"GET"}, FALSE, TRUE),
      MCHandler("static", <<>>, {}, FALSE, TRUE)>>

MCCatchAll == MCHandler("callback", <<>>, {}, FALSE, FALSE)
MCRewrites == <<[from |-> <<"/", "r">>, to |-> <<"/", "a">>, params |-> <<"k", "=", "v">>]>>
MCFiles == {<<"/", "f">>, <<"/", "g", ".gz">>, <<"/", "d", "/", "index.htm">>}
MCBoundary == <<"b", "c">>

NoCredentials == [scheme |-> "none", user |-> "", secret |-> <<>>, uri |-> ""]
Base == [line |-> <<"GET", " ", "/", "a", " ", "HTTP/1.1">>, headers |-> <<>>,
         query |-> <<>>, encoding |-> "none", fields |-> <<>>, parts |-> <<>>, raw |-> <<>>,
         tail |-> <<"CR", "LF">>, extra |-> <<>>, credentials |-> NoCredentials, app |-> "ok",
         frames |-> <<>>]
MCHeader(name, value) == [name |-> name, value |-> <<value>>]
Line(method, path) == <<method, " ">> \o path \o <<" ", "HTTP/1.1">>

\* A message in two frames with a ping between them, two whole messages, a close.
MCFrame(opcode, final, length) == [opcode |-> opcode, final |-> final, length |-> length]
MCFrames ==
    {<<MCFrame(1, FALSE, 3), MCFrame(9, TRUE, 2), MCFrame(0, TRUE, 5)>>,
     <<MCFrame(2, TRUE, 6), MCFrame(1, TRUE, 0), MCFrame(8, TRUE, 2), MCFrame(8, TRUE, 0)>>,
     <<MCFrame(10, TRUE, 1), MCFrame(1, TRUE, 2), MCFrame(2, TRUE, 1)>>}

\* No body: paths, queries, rewrites, static files, an upgrade, a first line that is empty.
Plain ==
    {[Base EXCEPT !.line = Line(m, p)] :
        m \in {"GET", "DELETE", "BREW"}, p \in {<<"/", "a">>, <<"/", "a", "/", "b">>, <<"/", "ab">>, <<"/", "y", ".", "x">>, <<"/", "r">>}}
    \cup {[Base EXCEPT !.line = <<>>], [Base EXCEPT !.app = "later"], [Base EXCEPT !.app = "invalid"]}
    \cup {[Base EXCEPT !.line = Line("GET", <<"/", "f">>),
                       !.headers = <<MCHeader("Host", "esp"), MCHeader("If-None-Match", v)>>] :
            v \in {"same", "other"}}
    \cup {[Base EXCEPT !.line = Line("GET", <<"/", "w">>),
                       !.frames = IF v = "13" THEN fs ELSE <<>>,
                       !.headers = <<MCHeader("Upgrade", "websocket"), MCHeader("X", "y"),
                                     MCHeader("Sec-WebSocket-Key", "k"),
                                     MCHeader("Sec-WebSocket-Version", v)>>] :
            v \in {"13", "8"}, fs \in MCFrames}

\* Names and values with characters that are escaped.
Pair(n, v) == [name |-> n, value |-> v]
Pairs == {Pair(<<"n">>, <<>>), Pair(<<"n", "=">>, <<"&", "a">>), Pair(<<"m">>, <<"=", " ", "%">>)}
Forms == {<<f>> : f \in Pairs} \cup {<<f, g>> : f, g \in Pairs}
Posts ==
    {[Base EXCEPT !.line = Line("POST", <<"/", "a">>), !.encoding = e, !.fields = f, !.extra = x] :
        e \in {"form", "text"}, f \in Forms, x \in {<<>>, <<"CR", "LF">>}}
    \cup {[Base EXCEPT !.line = Line("GET", <<"/", "a", "?">> \o FormText(f)), !.query = f] : f \in Forms}

\* Bodies that are handed over as they come: stored by the JSON handler, or not.
Raws ==
    {[Base EXCEPT !.line = Line("POST", <<"/", u>>), !.encoding = e, !.raw = r,
                  !.credentials = c,
                  !.headers = <<MCHeader("Authorization", "credentials"), MCHeader("Expect", "100-continue")>>] :
        u \in {"a", "p", "j", "z"}, e \in {"json", "octets"}, r \in {<<"1", "2", "3">>, <<"1", "2", "3", "4">>},
        c \in {NoCredentials,
               [NoCredentials EXCEPT !.scheme = "Basic", !.user = "user", !.secret = <<"password">>],
               [scheme |-> "Digest", user |-> "user", secret |-> <<"password", "POST", "u">>, uri |-> "u"],
               [scheme |-> "Digest", user |-> "user", secret |-> <<"password", "GET", "u">>, uri |-> "u"]}}

\* Parts whose data has beginnings of boundaries in it.
Near == <<"CR", "LF", "-", "-", "b">>
Data == {SubSeq(Near, 1, n) \o t : n \in 0 .. 5, t \in {<<>>, <<"x">>, <<"CR">>, <<"-">>, <<"b">>, <<"CR", "LF">>}}
Part(file, typed, data) == [file |-> file, typed |-> typed, data |-> data]
Multiparts ==
    {[Base EXCEPT !.line = Line("POST", <<"/", u>>), !.encoding = "multipart",
                  !.parts = p, !.tail = t] :
        u \in {"a", "p"}, t \in {<<"CR", "LF">>},
        p \in {<<Part(f, FALSE, d)>> : f \in BOOLEAN, d \in Data}
              \cup {<<Part(f, FALSE, <<"x">>), Part(g, TRUE, d)>> : f, g \in BOOLEAN, d \in {<<>>, <<"CR", "y", "y">>}}}
    \cup {[Base EXCEPT !.line = Line("POST", <<"/", "a">>), !.encoding = "multipart",
                       !.parts = <<Part(FALSE, FALSE, <<"x">>)>>, !.tail = t] :
            t \in {<<>>, <<"CR", "LF", "x">>}}

\* The event source, files in directories, and the editor's requests.
Basic == [NoCredentials EXCEPT !.scheme = "Basic", !.user = "user", !.secret = <<"password">>]
User == [Base EXCEPT !.credentials = Basic, !.headers = <<MCHeader("Authorization", "credentials")>>]
Shown == {Pair(<<"list">>, <<>>), Pair(<<"edit">>, <<"/", "f">>), Pair(<<"download">>, <<"none">>)}
ForFiles ==
    {[Base EXCEPT !.line = Line("GET", u), !.headers = <<MCHeader("Accept", "text/event-stream")>>] :
        u \in {<<"/", "e">>, <<"/", "g">>}}
    \cup {[Base EXCEPT !.line = Line("GET", u)] : u \in {<<"/", "g">>, <<"/", "d">>, <<"/", "d", "/">>}}
    \cup {[u EXCEPT !.line = Line("GET", <<"/", "edit", "?">> \o FormText(f)), !.query = f] :
            u \in {Base, User}, f \in {<<p>> : p \in Shown}}
    \cup {[User EXCEPT !.line = Line("GET", u), !.headers = Append(@, MCHeader("If-Modified-Since", v))] :
            u \in {<<"/", "e">>, <<"/", "edit">>}, v \in {"same", "other"}}
    \cup {[User EXCEPT !.line = Line(m, <<"/", "edit">>), !.encoding = "form", !.fields = f, !.app = a] :
            m \in {"PUT", "DELETE"}, f \in {<<Pair(n, <<"/", c>>)>> : n \in {<<"path">>, <<"n">>}, c \in {"f", "c"}},
            a \in {"ok", "invalid"}}
    \cup {[u EXCEPT !.line = Line("POST", <<"/", "edit">>), !.encoding = "multipart",
                     !.parts = <<Part(TRUE, TRUE, d)>>] :
            u \in {Base, User}, d \in {<<>>, <<"x">>, <<"x", "CR", "y">>}}

MCInputs == Plain \cup Posts \cup Raws \cup Multiparts \cup ForFiles
=============================================================================
