---- MODULE HttpParser ----
(***************************************************************************)
(* ec/http/http_parser.c: the parser behind the registration's request and *)
(* behind the configuration server.  http_parser_execute gets the stream   *)
(* in whatever segments the network delivers; one action is one turn of    *)
(* its loop, in one state, and a call ends after any byte.                 *)
(*                                                                         *)
(* The other side is external: a peer that writes messages, whole or       *)
(* malformed, closes, or vanishes in the middle of one.  What the          *)
(* callbacks hear must be what the peer said, wherever the segments end.   *)
(*                                                                         *)
(* The callbacks return 0, as all of http.c and of server.c do.  LengthMax *)
(* stands for ULLONG_MAX, which is also the sign for "no length".  The     *)
(* limit on the bytes of a header (nread) is left out.  After an error, or *)
(* once the connection is upgraded, the model stops.                       *)
(***************************************************************************)
EXTENDS HttpChars, SequencesExt, TLC

CONSTANTS
    Messages,               \* what the peer may say
    Followers,              \* what it may say after that
    LengthMax,              \* the largest content_length
    MaxMessages             \* bound: messages written

HttpParserAssumption == LengthMax \in 100 .. 10000 /\ MaxMessages \in Nat

VARIABLES
    parser,                 \* struct http_parser
    loc,                    \* the locals of http_parser_execute: the callback
                            \* whose mark is set, the bytes since, and whether
                            \* the rest of a value is skipped unread
    exited,                 \* the rest of the stream is another protocol
    input,                  \* bytes under way
    heard,                  \* history: the callbacks
    said,                   \* history: what the peer said
    messages,               \* messages written so far
    peer                    \* history: "open"; after a message that closes,
                            \* "closing"; in a body without a length, "toEnd";
                            \* then "closed" or "broken" off.  "malformed" and
                            \* "unchecked" when that is what it said

vars == <<parser, loc, exited, input, heard, said, messages, peer>>

---------------------------------------------------------------------------
(* The enumerations.                                                       *)

enum_state ==
    {"s_dead", "s_start_req_or_res", "s_res_or_resp_H", "s_start_res", "s_res_H",
     "s_res_HT", "s_res_HTT", "s_res_HTTP", "s_res_first_http_major", "s_res_http_major",
     "s_res_first_http_minor", "s_res_http_minor", "s_res_first_status_code",
     "s_res_status_code", "s_res_status_start", "s_res_status", "s_res_line_almost_done",
     "s_start_req", "s_req_method", "s_req_spaces_before_url", "s_req_http_start",
     "s_req_http_H", "s_req_http_HT", "s_req_http_HTT", "s_req_http_HTTP",
     "s_req_first_http_major", "s_req_http_major", "s_req_first_http_minor",
     "s_req_http_minor", "s_req_line_almost_done", "s_header_field_start",
     "s_header_field", "s_header_value_discard_ws",
     "s_header_value_discard_ws_almost_done", "s_header_value_discard_lws",
     "s_header_value_start", "s_header_value", "s_header_value_lws",
     "s_header_almost_done", "s_chunk_size_start", "s_chunk_size", "s_chunk_parameters",
     "s_chunk_size_almost_done", "s_headers_almost_done", "s_headers_done",
     "s_chunk_data", "s_chunk_data_almost_done", "s_chunk_data_done",
     "s_body_identity", "s_body_identity_eof", "s_message_done"} \union UrlStates

header_states ==
    {"h_general", "h_C", "h_CO", "h_CON", "h_matching_connection",
     "h_matching_proxy_connection", "h_matching_content_length",
     "h_matching_transfer_encoding", "h_matching_upgrade", "h_connection",
     "h_content_length", "h_transfer_encoding", "h_upgrade",
     "h_matching_transfer_encoding_chunked", "h_matching_connection_token_start",
     "h_matching_connection_keep_alive", "h_matching_connection_close",
     "h_matching_connection_upgrade", "h_matching_connection_token",
     "h_transfer_encoding_chunked", "h_connection_keep_alive", "h_connection_close",
     "h_connection_upgrade"}

http_method ==
    {"DELETE", "GET", "HEAD", "POST", "PUT", "CONNECT", "OPTIONS", "TRACE", "COPY", "LOCK",
     "MKCOL", "MOVE", "PROPFIND", "PROPPATCH", "SEARCH", "UNLOCK", "BIND", "REBIND",
     "UNBIND", "ACL", "REPORT", "MKACTIVITY", "CHECKOUT", "MERGE", "M-SEARCH", "NOTIFY",
     "SUBSCRIBE", "UNSUBSCRIBE", "PATCH", "PURGE", "MKCALENDAR", "LINK", "UNLINK"}

flags == {"CHUNKED", "KEEP_ALIVE", "CLOSE", "CONNECTION_UPGRADE", "TRAILING", "UPGRADE",
          "CONTENTLENGTH"}

\* Those that are left when no callback fails.
http_errno ==
    {"OK", "INVALID_EOF_STATE", "CLOSED_CONNECTION", "INVALID_VERSION", "INVALID_STATUS",
     "INVALID_METHOD", "INVALID_URL", "LF_EXPECTED", "INVALID_HEADER_TOKEN",
     "INVALID_CONTENT_LENGTH", "UNEXPECTED_CONTENT_LENGTH", "INVALID_CHUNK_SIZE",
     "INVALID_CONSTANT", "STRICT"}

---------------------------------------------------------------------------
(* What the peer says.                                                     *)

\* A chunk's size, in hexadecimal.
HexOf(n) == (IF n < 16 THEN "" ELSE CharAt("0123456789abcdef", n \div 16))
            \o CharAt("0123456789abcdef", n % 16)

Joined(strings) == FoldLeft(LAMBDA a, b : a \o b, "", strings)

\* m.tokens: what its Connection header means.  A message without a length
\* needs the end of the connection.
KeptAlive(m) ==
    /\ m.body # "toEnd"
    /\ IF m.major > 0 /\ m.minor > 0 THEN "close" \notin m.tokens
       ELSE "keep-alive" \in m.tokens

Upgrades(m) == m.start = "CONNECT" \/ {"upgrade", "to"} \subseteq m.tokens

\* m.headers: name, meaning, and what is written behind the colon.
Headers(m) ==
    m.headers \o CASE m.body = "length" ->
                        <<<<"Content-Length", ToString(Len(Joined(m.text))),
                            " " \o ToString(Len(Joined(m.text)))>>>>
                   [] m.body = "chunked" ->
                        <<<<"transfer-encoding", "Chunked", " Chunked">>>>
                   [] OTHER -> <<>>

WrittenHeaders(headers, eol) ==
    Joined([i \in DOMAIN headers |-> headers[i][1] \o ":" \o headers[i][3] \o eol])

Written(m) ==
    LET version == "HTTP/" \o ToString(m.major) \o "." \o ToString(m.minor)
        line == IF m.kind = "REQUEST"
                THEN m.start \o " " \o m.target
                     \o (IF m.major = 0 THEN "" ELSE " " \o version)
                ELSE version \o " " \o m.start \o m.target
        chunk(i) == HexOf(Len(m.text[i])) \o m.chunk \o "\r\n" \o m.text[i] \o "\r\n"
    IN  m.before \o line \o m.eol \o WrittenHeaders(Headers(m), m.eol) \o m.eol
        \o IF m.body = "chunked"
           THEN Joined([i \in DOMAIN m.text |-> chunk(i)])
                \o "0\r\n" \o WrittenHeaders(m.trailer, "\r\n") \o "\r\n"
           ELSE Joined(m.text)

HeardHeaders(headers) ==
    FlattenSeq([i \in DOMAIN headers |->
        <<<<"header_field", headers[i][1]>>, <<"header_value", headers[i][2]>>>>])

MessageComplete == <<<<"message_complete", "">>>>

\* on_message_begin is called for the empty lines before a response, too, when
\* the parser waits for nothing else.
Meant(m) ==
    LET begin == <<"message_begin", "">>
        line  == IF m.kind = "REQUEST" THEN <<<<"url", m.target>>>>
                 ELSE IF m.reason = "" THEN <<>> ELSE <<<<"status", m.reason>>>>
        chunk(i) == <<<<"chunk_header", Len(m.text[i])>>, <<"body", m.text[i]>>,
                      <<"chunk_complete", "">>>>
    IN  [i \in 1 .. (IF parser.type = "RESPONSE" THEN Len(m.before) ELSE 0) + 1 |-> begin]
        \o line \o HeardHeaders(Headers(m))
        \o <<<<"headers_complete",
              [start |-> m.start, major |-> m.major, minor |-> m.minor,
               keep_alive |-> KeptAlive(m), upgrade |-> Upgrades(m)]>>>>
        \o (CASE m.body = "chunked" ->
                  FlattenSeq([i \in DOMAIN m.text |-> chunk(i)])
                  \o <<<<"chunk_header", 0>>>> \o HeardHeaders(m.trailer)
                  \o <<<<"chunk_complete", "">>>>
             [] m.text = <<>> -> <<>>
             [] OTHER -> <<<<"body", Joined(m.text)>>>>)
        \o IF m.body = "toEnd" THEN <<>> ELSE MessageComplete

\* After a message that closes there must not be another one.
Write ==
    /\ input = <<>> /\ ~exited /\ parser.http_errno = "OK"
    /\ peer \in {"open", "closing"} /\ messages < MaxMessages
    /\ messages' = messages + 1
    /\ \E m \in IF messages = 0 THEN Messages ELSE Followers :
          /\ parser.type \in {m.kind, "BOTH"}
          /\ IF peer = "closing" \/ m.body \in {"malformed", "unchecked"}
             THEN /\ input' = Chars(IF m.body \in {"malformed", "unchecked"}
                                    THEN m.target ELSE Written(m))
                  /\ peer' = IF peer = "closing" THEN "malformed" ELSE m.body
                  /\ UNCHANGED said
             ELSE /\ input' = Chars(Written(m)) /\ said' = said \o Meant(m)
                  /\ peer' = IF m.body = "toEnd" THEN "toEnd"
                             ELSE IF KeptAlive(m) THEN "open" ELSE "closing"
    /\ UNCHANGED <<parser, loc, exited, heard>>

---------------------------------------------------------------------------
(* A turn of the loop.                                                     *)

NoMark == [cb |-> "none", text |-> "", skip |-> FALSE]

http_parser_init(type) ==
    [type |-> type, flags |-> {}, index |-> 0,
     state |-> CASE type = "REQUEST"  -> "s_start_req"
                 [] type = "RESPONSE" -> "s_start_res"
                 [] OTHER             -> "s_start_req_or_res",
     header_state |-> "h_general", content_length |-> 0,
     http_major |-> 0, http_minor |-> 0, status_code |-> 0,
     method |-> "DELETE", http_errno |-> "OK", upgrade |-> FALSE]

Init ==
    /\ \E type \in {"REQUEST", "RESPONSE", "BOTH"} : parser = http_parser_init(type)
    /\ loc = NoMark /\ exited = FALSE
    /\ input = <<>> /\ heard = <<>> /\ said = <<>> /\ messages = 0 /\ peer = "open"

ch == Head(input)

At(state) ==
    /\ parser.http_errno = "OK" /\ ~exited /\ input # <<>>
    /\ parser.state = state

\* A callback is heard; the pieces of a string are put together.
Hear(h, e) ==
    IF /\ h # <<>> /\ Last(h)[1] = e[1]
       /\ e[1] \in {"url", "status", "header_field", "header_value", "body"}
    THEN Append(Front(h), <<e[1], Last(h)[2] \o e[2]>>)
    ELSE Append(h, e)

\* MARK; a byte behind a mark; CALLBACK_DATA, where a mark is set.
Marked(cb) == [cb |-> cb, text |-> (IF loc.cb = cb THEN loc.text ELSE "") \o ch,
               skip |-> FALSE]
More       == IF loc.cb = "none" THEN loc ELSE [loc EXCEPT !.text = @ \o ch]
Callback   == IF loc.cb = "none" THEN <<>> ELSE <<<<loc.cb, loc.text>>>>

\* What an action does with the byte: take it, look at it again (REEXECUTE), or
\* give up.
Take(p, l, events) ==
    /\ parser' = p /\ loc' = l /\ input' = Tail(input)
    /\ heard' = FoldLeft(Hear, heard, events)
    /\ UNCHANGED <<exited, said, messages, peer>>

Again(p, l, events) ==
    /\ parser' = p /\ loc' = l
    /\ heard' = FoldLeft(Hear, heard, events)
    /\ UNCHANGED <<exited, input, said, messages, peer>>

Refuse(e) ==
    /\ parser' = [parser EXCEPT !.http_errno = e]
    /\ UNCHANGED <<loc, exited, input, heard, said, messages, peer>>

In(state) == [parser EXCEPT !.state = state]
Go(state) == Take(In(state), NoMark, <<>>)
Stay      == Take(parser, loc, <<>>)

\* Slip: a name that goes on in the next segment has no mark there.
http_parser_execute_ends_NoMark ==
    /\ parser.http_errno = "OK" /\ loc.text # ""
    /\ heard' = FoldLeft(Hear, heard, Callback)
    /\ loc' = [NoMark EXCEPT !.cb = CASE parser.state = "s_header_value" -> "header_value"
                                      [] parser.state \in UrlStates      -> "url"
                                      [] parser.state = "s_res_status"   -> "status"
                                      [] OTHER                           -> "none"]
    /\ UNCHANGED <<parser, exited, input, said, messages, peer>>

\* The end of http_parser_execute, and the marks the next call begins with.
http_parser_execute_ends ==
    /\ parser.http_errno = "OK" /\ loc.text # ""
    /\ heard' = FoldLeft(Hear, heard, Callback)
    /\ loc' = [NoMark EXCEPT !.cb = CASE parser.state = "s_header_field" -> "header_field"
                                      [] parser.state = "s_header_value" -> "header_value"
                                      [] parser.state \in UrlStates      -> "url"
                                      [] parser.state = "s_res_status"   -> "status"
                                      [] OTHER                           -> "none"]
    /\ UNCHANGED <<parser, exited, input, said, messages, peer>>

\* The caller passes no bytes: the connection has ended, after the last byte or
\* in the middle.
http_parser_execute_eof ==
    /\ parser.http_errno = "OK" /\ ~exited /\ loc.text = ""
    /\ peer \in {"open", "closing", "toEnd"}
    /\ peer' = IF input = <<>> THEN "closed" ELSE "broken"
    /\ input' = <<>>
    /\ said' = IF peer = "toEnd" THEN said \o MessageComplete ELSE said
    /\ \/ /\ parser.state = "s_body_identity_eof"
          /\ heard' = FoldLeft(Hear, heard, MessageComplete)
          /\ UNCHANGED parser
       \/ /\ parser.state \in {"s_dead", "s_start_req_or_res", "s_start_res", "s_start_req"}
          /\ UNCHANGED <<parser, heard>>
       \/ /\ parser.state \notin {"s_body_identity_eof", "s_dead", "s_start_req_or_res",
                                  "s_start_res", "s_start_req"}
          /\ parser' = [parser EXCEPT !.http_errno = "INVALID_EOF_STATE"]
          /\ UNCHANGED heard
    /\ UNCHANGED <<loc, exited, messages>>

---------------------------------------------------------------------------
(* The first line.                                                         *)

Fresh(state) ==
    [parser EXCEPT !.flags = {}, !.content_length = LengthMax, !.state = state]
Begin == <<<<"message_begin", "">>>>

s_dead ==
    /\ At("s_dead")
    /\ IF ch \in {"\r", "\n"} THEN Stay ELSE Refuse("CLOSED_CONNECTION")

s_start_req_or_res ==
    /\ At("s_start_req_or_res")
    /\ \/ ch \in {"\r", "\n"} /\ Stay
       \/ ch = "H" /\ Take(Fresh("s_res_or_resp_H"), NoMark, Begin)
       \/ /\ ch \notin {"\r", "\n", "H"}
          /\ Again([Fresh("s_start_req") EXCEPT !.type = "REQUEST"], NoMark, <<>>)

s_res_or_resp_H ==
    /\ At("s_res_or_resp_H")
    /\ \/ ch = "T" /\ Take([In("s_res_HT") EXCEPT !.type = "RESPONSE"], NoMark, <<>>)
       \/ /\ ch = "E"
          /\ Take([In("s_req_method") EXCEPT !.type = "REQUEST", !.method = "HEAD",
                                             !.index = 2], NoMark, <<>>)
       \/ ch \notin {"T", "E"} /\ Refuse("INVALID_CONSTANT")

s_start_res ==
    /\ At("s_start_res")
    /\ \/ ch = "H" /\ Take(Fresh("s_res_H"), NoMark, Begin)
       \/ ch \in {"\r", "\n"} /\ Take(Fresh("s_start_res"), NoMark, Begin)
       \/ ch \notin {"H", "\r", "\n"} /\ Refuse("INVALID_CONSTANT")

\* The states that wait for one character.
Expect(s, c, next, errno) == At(s) /\ IF ch = c THEN Go(next) ELSE Refuse(errno)

s_res_H    == Expect("s_res_H", "T", "s_res_HT", "STRICT")
s_res_HT   == Expect("s_res_HT", "T", "s_res_HTT", "STRICT")
s_res_HTT  == Expect("s_res_HTT", "P", "s_res_HTTP", "STRICT")
s_res_HTTP == Expect("s_res_HTTP", "/", "s_res_first_http_major", "STRICT")

s_req_http_H    == Expect("s_req_http_H", "T", "s_req_http_HT", "STRICT")
s_req_http_HT   == Expect("s_req_http_HT", "T", "s_req_http_HTT", "STRICT")
s_req_http_HTT  == Expect("s_req_http_HTT", "P", "s_req_http_HTTP", "STRICT")
s_req_http_HTTP == Expect("s_req_http_HTTP", "/", "s_req_first_http_major", "STRICT")

s_res_line_almost_done ==
    Expect("s_res_line_almost_done", "\n", "s_header_field_start", "STRICT")
s_req_line_almost_done ==
    Expect("s_req_line_almost_done", "\n", "s_header_field_start", "LF_EXPECTED")
s_header_almost_done ==
    Expect("s_header_almost_done", "\n", "s_header_value_lws", "LF_EXPECTED")
s_header_value_discard_ws_almost_done ==
    Expect("s_header_value_discard_ws_almost_done", "\n", "s_header_value_discard_lws", "STRICT")

\* The four states of a version; ends leads on from its end.
Version(kind, firsts, ends) ==
    LET major == parser.http_major * 10 + Decimal(ch)
        minor == parser.http_minor * 10 + Decimal(ch)
    IN  \/ /\ At(kind \o "first_http_major")
           /\ IF ch \notin firsts THEN Refuse("INVALID_VERSION")
              ELSE Take([In(kind \o "http_major") EXCEPT !.http_major = Decimal(ch)],
                        NoMark, <<>>)
        \/ /\ At(kind \o "http_major")
           /\ IF ch = "." THEN Go(kind \o "first_http_minor")
              ELSE IF ch \notin Digits \/ major > 999 THEN Refuse("INVALID_VERSION")
              ELSE Take([parser EXCEPT !.http_major = major], NoMark, <<>>)
        \/ /\ At(kind \o "first_http_minor")
           /\ IF ch \notin Digits THEN Refuse("INVALID_VERSION")
              ELSE Take([In(kind \o "http_minor") EXCEPT !.http_minor = Decimal(ch)],
                        NoMark, <<>>)
        \/ /\ At(kind \o "http_minor")
           /\ IF \E e \in ends : e[1] = ch
              THEN \E e \in ends : e[1] = ch /\ Go(e[2])
              ELSE IF ch \notin Digits \/ minor > 999 THEN Refuse("INVALID_VERSION")
              ELSE Take([parser EXCEPT !.http_minor = minor], NoMark, <<>>)

s_res_http_version == Version("s_res_", Digits, {<<" ", "s_res_first_status_code">>})
s_req_http_version ==
    Version("s_req_", Digits \ {"0"}, {<<"\r", "s_req_line_almost_done">>,
                                       <<"\n", "s_header_field_start">>})

s_res_first_status_code ==
    /\ At("s_res_first_status_code")
    /\ \/ ch = " " /\ Stay
       \/ /\ ch \in Digits
          /\ Take([In("s_res_status_code") EXCEPT !.status_code = Decimal(ch)], NoMark, <<>>)
       \/ ch \notin Digits \union {" "} /\ Refuse("INVALID_STATUS")

s_res_status_code ==
    LET n == parser.status_code * 10 + Decimal(ch)
    IN  /\ At("s_res_status_code")
        /\ \/ ch = " " /\ Go("s_res_status_start")
           \/ ch = "\r" /\ Go("s_res_line_almost_done")
           \/ ch = "\n" /\ Go("s_header_field_start")
           \/ /\ ch \notin {" ", "\r", "\n"}
              /\ IF ch \notin Digits \/ n > 999 THEN Refuse("INVALID_STATUS")
                 ELSE Take([parser EXCEPT !.status_code = n], NoMark, <<>>)

\* s_res_status_start and s_res_status: the reason, if there is one.
s_res_status ==
    /\ At("s_res_status_start") \/ At("s_res_status")
    /\ \/ ch = "\r" /\ Take(In("s_res_line_almost_done"), NoMark, Callback)
       \/ ch = "\n" /\ Take(In("s_header_field_start"), NoMark, Callback)
       \/ /\ ch \notin {"\r", "\n"} /\ parser.state = "s_res_status_start"
          /\ Take([In("s_res_status") EXCEPT !.index = 0], Marked("status"), <<>>)
       \/ /\ ch \notin {"\r", "\n"} /\ parser.state = "s_res_status"
          /\ Take(parser, More, <<>>)

\* Methods that begin alike are told apart on the way.
FirstMethod ==
    [A |-> "ACL", B |-> "BIND", C |-> "CONNECT", D |-> "DELETE", G |-> "GET", H |-> "HEAD",
     L |-> "LOCK", M |-> "MKCOL", N |-> "NOTIFY", O |-> "OPTIONS", P |-> "POST",
     R |-> "REPORT", S |-> "SUBSCRIBE", T |-> "TRACE", U |-> "UNLOCK"]

NextMethod ==
    {<<"POST", 1, "U", "PUT">>, <<"POST", 1, "A", "PATCH">>,
     <<"CONNECT", 1, "H", "CHECKOUT">>, <<"CONNECT", 2, "P", "COPY">>,
     <<"MKCOL", 1, "O", "MOVE">>, <<"MKCOL", 1, "E", "MERGE">>,
     <<"MKCOL", 2, "A", "MKACTIVITY">>, <<"MKCOL", 3, "A", "MKCALENDAR">>,
     <<"SUBSCRIBE", 1, "E", "SEARCH">>, <<"REPORT", 2, "B", "REBIND">>,
     <<"POST", 1, "R", "PROPFIND">>, <<"PROPFIND", 4, "P", "PROPPATCH">>,
     <<"PUT", 2, "R", "PURGE">>, <<"LOCK", 1, "I", "LINK">>,
     <<"UNLOCK", 2, "S", "UNSUBSCRIBE">>, <<"UNLOCK", 2, "B", "UNBIND">>,
     <<"UNLOCK", 3, "I", "UNLINK">>, <<"MKCOL", 1, "-", "M-SEARCH">>}

s_start_req ==
    /\ At("s_start_req")
    /\ \/ ch \in {"\r", "\n"} /\ Stay
       \/ /\ ch \in DOMAIN FirstMethod
          /\ Take([Fresh("s_req_method") EXCEPT !.method = FirstMethod[ch], !.index = 1],
                  NoMark, Begin)
       \/ ch \notin DOMAIN FirstMethod \union {"\r", "\n"} /\ Refuse("INVALID_METHOD")

s_req_method ==
    LET next == {m \in NextMethod : <<m[1], m[2], m[3]>> = <<parser.method, parser.index, ch>>}
        expected == CharAt(parser.method, parser.index)
        Index(p) == Take([p EXCEPT !.index = @ + 1], NoMark, <<>>)
    IN  /\ At("s_req_method")
        /\ \/ ch = " " /\ expected = "NUL" /\ Index(In("s_req_spaces_before_url"))
           \/ ch # "NUL" /\ ch = expected /\ Index(parser)
           \/ ch # expected /\ \E m \in next : Index([parser EXCEPT !.method = m[4]])
           \/ /\ ch = "NUL" \/ (ch # expected /\ next = {})
              /\ ~(ch = " " /\ expected = "NUL")
              /\ Refuse("INVALID_METHOD")

\* A character of the URL.
Url(state, mark) ==
    IF parse_url_char(state, ch) = "s_dead" THEN Refuse("INVALID_URL")
    ELSE Take(In(parse_url_char(state, ch)), mark, <<>>)

s_req_spaces_before_url ==
    /\ At("s_req_spaces_before_url")
    /\ IF ch = " " THEN Stay
       ELSE Url(IF parser.method = "CONNECT" THEN "s_req_server_start"
                ELSE "s_req_spaces_before_url", Marked("url"))

s_req_url ==
    \E s \in UrlStates :
        /\ At(s)
        /\ IF s \in {"s_req_schema", "s_req_schema_slash", "s_req_schema_slash_slash",
                     "s_req_server_start"} \/ ch \notin {" ", "\r", "\n"}
           THEN Url(s, More)
           ELSE Take(IF ch = " " THEN In("s_req_http_start")
                     ELSE [In(IF ch = "\r" THEN "s_req_line_almost_done"
                              ELSE "s_header_field_start")
                           EXCEPT !.http_major = 0, !.http_minor = 9],
                     NoMark, Callback)

s_req_http_start ==
    /\ At("s_req_http_start")
    /\ \/ ch = "H" /\ Go("s_req_http_H")
       \/ ch = " " /\ Stay
       \/ ch \notin {"H", " "} /\ Refuse("INVALID_CONSTANT")

---------------------------------------------------------------------------
(* Headers.                                                                *)

\* The words the parser knows, with what it makes of a name or value that is
\* one of them.
Words ==
    [h_matching_connection |-> <<"connection", "h_connection">>,
     h_matching_proxy_connection |-> <<"proxy-connection", "h_connection">>,
     h_matching_content_length |-> <<"content-length", "h_content_length">>,
     h_matching_transfer_encoding |-> <<"transfer-encoding", "h_transfer_encoding">>,
     h_matching_upgrade |-> <<"upgrade", "h_upgrade">>,
     h_matching_transfer_encoding_chunked |-> <<"chunked", "h_transfer_encoding_chunked">>,
     h_matching_connection_keep_alive |-> <<"keep-alive", "h_connection_keep_alive">>,
     h_matching_connection_close |-> <<"close", "h_connection_close">>,
     h_matching_connection_upgrade |-> <<"upgrade", "h_connection_upgrade">>]

\* One more character of a word; other is what a different one leads to.
Match(c, other) ==
    LET i == parser.index + 1
        h == parser.header_state
    IN  [parser EXCEPT
            !.index = i,
            !.header_state = IF c # CharAt(Words[h][1], i) THEN other
                             ELSE IF i = Len(Words[h][1]) - 1 THEN Words[h][2] ELSE h]

s_header_field_start ==
    /\ At("s_header_field_start")
    /\ \/ ch = "\r" /\ Go("s_headers_almost_done")
       \/ ch = "\n" /\ Again(In("s_headers_almost_done"), NoMark, <<>>)
       \/ ch \notin tokens \union {"\r", "\n"} /\ Refuse("INVALID_HEADER_TOKEN")
       \/ /\ ch \in tokens
          /\ Take([In("s_header_field") EXCEPT
                      !.index = 0,
                      !.header_state = CASE TOKEN(ch) = "c" -> "h_C"
                                         [] TOKEN(ch) = "p" -> "h_matching_proxy_connection"
                                         [] TOKEN(ch) = "t" -> "h_matching_transfer_encoding"
                                         [] TOKEN(ch) = "u" -> "h_matching_upgrade"
                                         [] OTHER           -> "h_general"],
                  Marked("header_field"), <<>>)

\* "con", before it is known which word it begins.
NameState(c) ==
    LET h == parser.header_state
        Next1(state) == [parser EXCEPT !.index = @ + 1, !.header_state = state]
    IN  CASE h = "h_general"          -> parser
          [] h = "h_C"                -> Next1(IF c = "o" THEN "h_CO" ELSE "h_general")
          [] h = "h_CO"               -> Next1(IF c = "n" THEN "h_CON" ELSE "h_general")
          [] h = "h_CON" /\ c = "n"   -> Next1("h_matching_connection")
          [] h = "h_CON" /\ c = "t"   -> Next1("h_matching_content_length")
          [] h = "h_CON"              -> Next1("h_general")
          [] h \in DOMAIN Words       -> Match(c, "h_general")
          [] OTHER                    -> [parser EXCEPT !.header_state = "h_general"]

s_header_field ==
    /\ At("s_header_field")
    /\ \/ ch \in tokens /\ Take(NameState(TOKEN(ch)), More, <<>>)
       \/ ch = ":" /\ Take(In("s_header_value_discard_ws"), NoMark, Callback)
       \/ ch \notin tokens \union {":"} /\ Refuse("INVALID_HEADER_TOKEN")

\* The first character of a value.
FirstOfValue ==
    LET h == parser.header_state
        c == LOWER(ch)
        p(state) == [In("s_header_value") EXCEPT !.index = 0, !.header_state = state]
        length   == [p(h) EXCEPT !.flags = @ \union {"CONTENTLENGTH"},
                                 !.content_length = Decimal(ch)]
    IN  IF h # "h_content_length"
        THEN Take(CASE h = "h_upgrade" -> [p("h_general") EXCEPT !.flags = @ \union {"UPGRADE"}]
                    [] h = "h_transfer_encoding" ->
                          p(IF c = "c" THEN "h_matching_transfer_encoding_chunked"
                            ELSE "h_general")
                    [] h = "h_connection" ->
                          p(CASE c = "k" -> "h_matching_connection_keep_alive"
                              [] c = "c" -> "h_matching_connection_close"
                              [] c = "u" -> "h_matching_connection_upgrade"
                              [] OTHER   -> "h_matching_connection_token")
                    [] h = "h_matching_connection_token_start" -> p(h)
                    [] OTHER -> p("h_general"),
                  Marked("header_value"), <<>>)
        ELSE IF ch \notin Digits THEN Refuse("INVALID_CONTENT_LENGTH")
        ELSE IF "CONTENTLENGTH" \in parser.flags THEN Refuse("UNEXPECTED_CONTENT_LENGTH")
        ELSE Take(length, Marked("header_value"), <<>>)

s_header_value_discard_ws ==
    /\ At("s_header_value_discard_ws")
    /\ \/ ch \in {" ", "\t"} /\ Stay
       \/ ch = "\r" /\ Go("s_header_value_discard_ws_almost_done")
       \/ ch = "\n" /\ Go("s_header_value_discard_lws")
       \/ ch \notin {" ", "\t", "\r", "\n"} /\ FirstOfValue

s_header_value_start == At("s_header_value_start") /\ FirstOfValue

FlagOf ==
    [h_connection_keep_alive |-> "KEEP_ALIVE", h_connection_close |-> "CLOSE",
     h_connection_upgrade |-> "CONNECTION_UPGRADE", h_transfer_encoding_chunked |-> "CHUNKED"]

\* The flag of a value that has ended.
Settled(p) ==
    IF p.header_state \in DOMAIN FlagOf
    THEN [p EXCEPT !.flags = @ \union {FlagOf[p.header_state]}] ELSE p

\* A character of a value that is not a length.
ValueState ==
    LET h == parser.header_state
        c == LOWER(ch)
        To(state) == [parser EXCEPT !.header_state = state]
        token     == "h_matching_connection_token"
        Restart(p) == [p EXCEPT !.header_state = token \o "_start", !.index = 0]
    IN  CASE h = "h_general" -> parser
          [] h = "h_matching_transfer_encoding_chunked" -> Match(c, "h_general")
          [] h \in DOMAIN Words -> Match(c, token)
          [] h = "h_matching_connection_token_start" ->
                CASE c = "k" -> To("h_matching_connection_keep_alive")
                  [] c = "c" -> To("h_matching_connection_close")
                  [] c = "u" -> To("h_matching_connection_upgrade")
                  [] c \in tokens \ {"k", "c", "u"} -> To(token)
                  [] c = " " -> parser
                  [] OTHER -> To("h_general")
          [] h = token -> IF ch = "," THEN Restart(parser) ELSE parser
          [] h = "h_transfer_encoding_chunked" -> IF ch = " " THEN parser ELSE To("h_general")
          [] OTHER -> IF ch = "," THEN Restart(Settled(parser))
                      ELSE IF ch = " " THEN parser ELSE To(token)

\* A general value is skipped to the end of the line, or of the segment, after
\* its first character.
s_header_value ==
    LET length == parser.header_state = "h_content_length"
        wrong  == ~loc.skip /\ ch \notin IS_HEADER_CHAR
        n      == parser.content_length * 10 + Decimal(ch)
    IN  /\ At("s_header_value")
        /\ \/ ch = "\r" /\ Take(In("s_header_almost_done"), NoMark, Callback)
           \/ ch = "\n" /\ Again(In("s_header_almost_done"), NoMark, Callback)
           \/ ch \notin {"\r", "\n"} /\ wrong /\ Refuse("INVALID_HEADER_TOKEN")
           \/ /\ ch \notin {"\r", "\n"} /\ ~wrong /\ ~length
              /\ Take(ValueState, [More EXCEPT
                                      !.skip = parser.header_state = "h_general"], <<>>)
           \/ /\ ch \notin {"\r", "\n"} /\ ~wrong /\ length
              /\ IF ch = " " THEN Take(parser, More, <<>>)
                 ELSE IF \/ ch \notin Digits
                         \/ (LengthMax - 10) \div 10 < parser.content_length
                 THEN Refuse("INVALID_CONTENT_LENGTH")
                 ELSE Take([parser EXCEPT !.content_length = n], More, <<>>)

s_header_value_lws ==
    /\ At("s_header_value_lws")
    /\ Again(IF ch \in {" ", "\t"} THEN In("s_header_value_start")
             ELSE Settled(In("s_header_field_start")), NoMark, <<>>)

s_header_value_discard_lws ==
    /\ At("s_header_value_discard_lws")
    /\ IF ch \in {" ", "\t"} THEN Go("s_header_value_discard_ws")
       ELSE Again(Settled(In("s_header_field_start")), NoMark, <<<<"header_value", "">>>>)

---------------------------------------------------------------------------
(* The end of the headers, and the body.                                   *)

http_message_needs_eof(p) ==
    /\ p.type # "REQUEST"
    /\ p.status_code \div 100 # 1 /\ p.status_code \notin {204, 304}
    /\ "CHUNKED" \notin p.flags /\ p.content_length = LengthMax

http_should_keep_alive(p) ==
    /\ IF p.http_major > 0 /\ p.http_minor > 0 THEN "CLOSE" \notin p.flags
       ELSE "KEEP_ALIVE" \in p.flags
    /\ ~http_message_needs_eof(p)

NEW_MESSAGE(p) ==
    [p EXCEPT !.state = IF ~http_should_keep_alive(p) THEN "s_dead"
                        ELSE IF p.type = "REQUEST" THEN "s_start_req" ELSE "s_start_res"]

\* What the application can ask for when the headers are complete.
Summary(p) ==
    <<"headers_complete",
      [start |-> IF p.type = "REQUEST" THEN p.method ELSE ToString(p.status_code),
       major |-> p.http_major, minor |-> p.http_minor,
       keep_alive |-> http_should_keep_alive(p), upgrade |-> p.upgrade]>>

s_headers_almost_done ==
    LET p == [In("s_headers_done") EXCEPT
                 !.upgrade = {"UPGRADE", "CONNECTION_UPGRADE"} \subseteq parser.flags
                             \/ parser.method = "CONNECT"]
    IN  /\ At("s_headers_almost_done")
        /\ \/ ch # "\n" /\ Refuse("STRICT")
           \/ /\ ch = "\n" /\ "TRAILING" \in parser.flags
              /\ Again(In("s_message_done"), NoMark, <<<<"chunk_complete", "">>>>)
           \/ /\ ch = "\n" /\ "TRAILING" \notin parser.flags
              /\ IF {"CHUNKED", "CONTENTLENGTH"} \subseteq parser.flags
                 THEN Refuse("UNEXPECTED_CONTENT_LENGTH")
                 ELSE Again(p, NoMark, <<Summary(p)>>)

\* The message is complete; the rest may be another protocol.
Completed ==
    /\ parser' = NEW_MESSAGE(parser) /\ loc' = NoMark /\ input' = Tail(input)
    /\ heard' = FoldLeft(Hear, heard, MessageComplete)
    /\ exited' = parser.upgrade
    /\ UNCHANGED <<said, messages, peer>>

s_headers_done ==
    LET chunked == "CHUNKED" \in parser.flags
        hasBody == chunked \/ parser.content_length \notin {0, LengthMax}
    IN  /\ At("s_headers_done")
        /\ \/ parser.upgrade /\ (parser.method = "CONNECT" \/ ~hasBody) /\ Completed
           \/ /\ ~(parser.upgrade /\ (parser.method = "CONNECT" \/ ~hasBody))
              /\ IF chunked THEN Go("s_chunk_size_start")
                 ELSE IF hasBody THEN Go("s_body_identity")
                 ELSE IF parser.content_length = LengthMax /\ http_message_needs_eof(parser)
                 THEN Go("s_body_identity_eof")
                 ELSE Completed

\* The last byte is looked at again, to complete the message.
s_body_identity ==
    /\ At("s_body_identity")
    /\ IF parser.content_length = 1
       THEN Again([In("s_message_done") EXCEPT !.content_length = 0], NoMark,
                  <<<<"body", Marked("body").text>>>>)
       ELSE Take([parser EXCEPT !.content_length = @ - 1], Marked("body"), <<>>)

s_body_identity_eof ==
    At("s_body_identity_eof") /\ Take(parser, Marked("body"), <<>>)

s_message_done == At("s_message_done") /\ Completed

s_chunk_size_start ==
    /\ At("s_chunk_size_start")
    /\ IF ch \notin Hex THEN Refuse("INVALID_CHUNK_SIZE")
       ELSE Take([In("s_chunk_size") EXCEPT !.content_length = unhex(ch)], NoMark, <<>>)

\* Slip: the size is not looked at before it grows.
s_chunk_size_AnySize ==
    /\ At("s_chunk_size")
    /\ \/ ch = "\r" /\ Go("s_chunk_size_almost_done")
       \/ ch \in {";", " "} /\ Go("s_chunk_parameters")
       \/ ch \notin Hex \union {"\r", ";", " "} /\ Refuse("INVALID_CHUNK_SIZE")
       \/ /\ ch \in Hex
          /\ Take([parser EXCEPT !.content_length = (@ * 16 + unhex(ch)) % (LengthMax + 1)],
                  NoMark, <<>>)

s_chunk_size ==
    /\ At("s_chunk_size")
    /\ \/ ch = "\r" /\ Go("s_chunk_size_almost_done")
       \/ ch \in {";", " "} /\ Go("s_chunk_parameters")
       \/ ch \notin Hex \union {"\r", ";", " "} /\ Refuse("INVALID_CHUNK_SIZE")
       \/ /\ ch \in Hex
          /\ IF (LengthMax - 16) \div 16 < parser.content_length
             THEN Refuse("INVALID_CONTENT_LENGTH")
             ELSE Take([parser EXCEPT !.content_length = @ * 16 + unhex(ch)], NoMark, <<>>)

s_chunk_parameters ==
    /\ At("s_chunk_parameters")
    /\ IF ch = "\r" THEN Go("s_chunk_size_almost_done") ELSE Stay

s_chunk_size_almost_done ==
    LET header == <<<<"chunk_header", parser.content_length>>>>
    IN  /\ At("s_chunk_size_almost_done")
        /\ \/ ch # "\n" /\ Refuse("STRICT")
           \/ /\ ch = "\n" /\ parser.content_length = 0
              /\ Take([In("s_header_field_start") EXCEPT !.flags = @ \union {"TRAILING"}],
                      NoMark, header)
           \/ /\ ch = "\n" /\ parser.content_length # 0
              /\ Take(In("s_chunk_data"), NoMark, header)

s_chunk_data ==
    LET p == IF parser.content_length = 1 THEN In("s_chunk_data_almost_done") ELSE parser
    IN  /\ At("s_chunk_data")
        /\ Take([p EXCEPT !.content_length = @ - 1], Marked("body"), <<>>)

s_chunk_data_almost_done ==
    /\ At("s_chunk_data_almost_done")
    /\ IF ch = "\r" THEN Take(In("s_chunk_data_done"), NoMark, Callback) ELSE Refuse("STRICT")

s_chunk_data_done ==
    /\ At("s_chunk_data_done")
    /\ IF ch = "\n" THEN Take(In("s_chunk_size_start"), NoMark, <<<<"chunk_complete", "">>>>)
       ELSE Refuse("STRICT")

Turn ==
    \/ s_dead \/ s_start_req_or_res \/ s_res_or_resp_H \/ s_start_res
    \/ s_res_H \/ s_res_HT \/ s_res_HTT \/ s_res_HTTP \/ s_res_line_almost_done
    \/ s_req_http_H \/ s_req_http_HT \/ s_req_http_HTT \/ s_req_http_HTTP
    \/ s_req_line_almost_done \/ s_header_almost_done
    \/ s_header_value_discard_ws_almost_done \/ s_res_http_version \/ s_req_http_version
    \/ s_res_first_status_code \/ s_res_status_code \/ s_res_status
    \/ s_start_req \/ s_req_method \/ s_req_spaces_before_url \/ s_req_url \/ s_req_http_start
    \/ s_header_field_start \/ s_header_field \/ s_header_value_discard_ws
    \/ s_header_value_start \/ s_header_value \/ s_header_value_lws
    \/ s_header_value_discard_lws \/ s_headers_almost_done \/ s_headers_done
    \/ s_body_identity \/ s_body_identity_eof \/ s_message_done
    \/ s_chunk_size_start \/ s_chunk_size \/ s_chunk_parameters
    \/ s_chunk_size_almost_done \/ s_chunk_data \/ s_chunk_data_almost_done
    \/ s_chunk_data_done

Next == Write \/ http_parser_execute_ends \/ http_parser_execute_eof \/ Turn

Spec == Init /\ [][Next]_vars

---------------------------------------------------------------------------
(* Properties.                                                             *)

\* The fields keep their widths: index has 7 bits, the versions and the status
\* three digits, and what is left of a body fits content_length.
TypeOK ==
    /\ parser.type \in {"REQUEST", "RESPONSE", "BOTH"} /\ parser.flags \subseteq flags
    /\ parser.state \in enum_state /\ parser.header_state \in header_states
    /\ parser.method \in http_method /\ parser.http_errno \in http_errno
    /\ parser.index \in 0 .. 127 /\ parser.content_length \in 0 .. LengthMax
    /\ {parser.http_major, parser.http_minor, parser.status_code} \subseteq 0 .. 999
    /\ parser.upgrade \in BOOLEAN /\ exited \in BOOLEAN
    /\ loc.cb \in {"none", "url", "status", "header_field", "header_value", "body"}

\* The callbacks, with what the end of the segment will deliver, hear what the
\* peer said, in whatever segments it came: strings that were cut are put
\* together again, bodies end where their length, their chunks or the
\* connection end, and what a message leaves behind does not reach the next.
\* A connection that breaks off in the middle is noticed, unless the body was
\* to run to the end of the connection.
HearsTheMessages ==
    LET all == FoldLeft(Hear, heard, Callback)
    IN  /\ (input = <<>> /\ peer \in {"open", "closing", "toEnd", "closed"}) => all = said
        /\ (peer = "broken" /\ parser.http_errno = "OK"
                /\ parser.state # "s_body_identity_eof") =>
              /\ IsPrefix(all, said)
              /\ all = <<>> \/ Last(all)[1] \in {"message_complete", "message_begin"}

\* What is well formed is never refused, wherever the segments end, and what is
\* malformed always is: a length that does not fit never counts as a shorter
\* one, or as none.
RefusesTheMalformed ==
    /\ parser.http_errno # "OK" => peer \in {"malformed", "unchecked", "broken"}
    /\ peer = "malformed" => input # <<>>
====
