---- MODULE HttpClient ----
(***************************************************************************)
(* ec/http/http.c and ec/http/http_io.c: one request of the registration,  *)
(* from http_request to the handler that gets the body of the response.    *)
(* HttpParser is the parser of the response and the server that writes it. *)
(*                                                                         *)
(* The connection is the one of EcIo, here without its queue: the request  *)
(* is written when the connection is made, and after e_soc_close nothing   *)
(* that was under way is heard.  The sizes of the buffers are left out.    *)
(***************************************************************************)
EXTENDS HttpParser, HttpUrl

CONSTANT Requests           \* what is asked for: url, its parts, type and body

VARIABLES
    asked,                  \* history: what is asked for, once it is
    soc_send_data,          \* the request that waits for the connection
    soc_recv_handler,       \* segments reach e_http_recv
    wire,                   \* the request, as the server gets it
    answer,                 \* history: the response
    failed,                 \* history: calls of http_failure_handler
    handled                 \* history: calls of http_success_handler

clientVars == <<asked, soc_send_data, soc_recv_handler, wire, answer, failed, handled>>

None == [kind |-> "none"]

\* e_http_init comes with the request.
ClientInit ==
    /\ Init /\ parser.type = "RESPONSE"
    /\ asked = None /\ answer = None
    /\ soc_send_data = "" /\ soc_recv_handler = FALSE /\ wire = ""
    /\ failed = <<>> /\ handled = <<>>

\* Slip: the server is not told where the body ends.
dump_url_NoLength(u, type, body) ==
    (IF type = 0 THEN "GET " ELSE "POST ")
    \o (IF u["PATH"] = "" THEN "" ELSE u["PATH"] \o " HTTP/1.1") \o "\r\n"
    \o (IF u["HOST"] = "" THEN "" ELSE "Host: " \o u["HOST"])
    \o (IF u["PORT"] = "" THEN "" ELSE ":" \o u["PORT"])
    \o "\r\nConnection: Closed\r\n\r\n" \o body

\* dump_url: the text of the request.
dump_url(u, type, body) ==
    LET line == (IF type = 0 THEN "GET " ELSE "POST ")
                \o IF u["PATH"] = "" THEN "" ELSE u["PATH"] \o " HTTP/1.1"
        host == (IF u["HOST"] = "" THEN "" ELSE "Host: " \o u["HOST"])
                \o IF u["PORT"] = "" THEN "" ELSE ":" \o u["PORT"]
        content_length == IF body = "" THEN ""
                          ELSE "Content-Length: " \o ToString(Len(body)) \o "\r\n"
    IN  line \o "\r\n" \o host \o "\r\n" \o content_length
        \o "Connection: Closed\r\n\r\n" \o body

\* e_soc_creat does nothing for a host of fewer than three characters.
http_request ==
    /\ asked = None
    /\ \E r \in Requests :
          LET u == http_parser_parse_url(r.url, FALSE)
          IN  /\ asked' = r
              /\ IF u = Refused
                 THEN failed' = <<2009>> /\ UNCHANGED <<soc_send_data, soc_recv_handler>>
                 ELSE /\ soc_send_data' = IF Len(u["HOST"]) < 3 THEN ""
                                          ELSE dump_url(u, r.type, r.body)
                      /\ soc_recv_handler' = (Len(u["HOST"]) >= 3)
                      /\ UNCHANGED failed
    /\ UNCHANGED <<vars, wire, answer, handled>>

\* EC_IO_CONNET: e_soc_send.
io_notify_cb ==
    /\ soc_recv_handler /\ wire = "" /\ soc_send_data # ""
    /\ wire' = soc_send_data
    /\ UNCHANGED <<vars, asked, soc_send_data, soc_recv_handler, answer, failed, handled>>

\* The server answers what reached it.
Respond ==
    /\ wire # "" /\ Write
    /\ \E m \in Messages : said' = Meant(m) /\ input' = Chars(Written(m)) /\ answer' = m
    /\ UNCHANGED <<asked, soc_send_data, soc_recv_handler, wire, failed, handled>>

\* on_body puts the pieces together, on_message_complete hands them over.
http_respons_buf ==
    FoldLeft(LAMBDA text, e : IF e[1] = "body" THEN text \o e[2] ELSE text, "", heard')

\* Slip: a body that begins is handed over.
on_message_complete_First ==
    handled' = IF Len(heard') > Len(heard) /\ Last(heard')[1] = "body"
               THEN Append(handled, http_respons_buf) ELSE handled

on_message_complete ==
    handled' = IF Len(heard') > Len(heard) /\ Last(heard')[1] = "message_complete"
               THEN Append(handled, http_respons_buf) ELSE handled

\* e_http_recv: a turn of http_parser_execute, or its end.
e_http_recv ==
    /\ soc_recv_handler /\ (Turn \/ http_parser_execute_ends)
    /\ on_message_complete
    /\ UNCHANGED <<asked, soc_send_data, soc_recv_handler, wire, answer, failed>>

\* e_soc_close, called by on_message_complete, takes effect when the segment has
\* been read.
e_soc_close ==
    /\ soc_recv_handler /\ handled # <<>> /\ loc.text = ""
    /\ soc_send_data' = "" /\ soc_recv_handler' = FALSE /\ input' = <<>>
    /\ UNCHANGED <<parser, loc, exited, heard, said, messages, peer>>
    /\ UNCHANGED <<asked, wire, answer, failed, handled>>

\* ec_recon_cb: the connection breaks, and nobody is told.
Breaks ==
    /\ answer # None /\ soc_recv_handler /\ peer # "broken" /\ loc.text = ""
    /\ parser.state # "s_message_done"
    /\ peer' = "broken" /\ input' = <<>>
    /\ UNCHANGED <<parser, loc, exited, heard, said, messages, clientVars>>

ClientNext == http_request \/ io_notify_cb \/ Respond \/ e_http_recv \/ e_soc_close
              \/ Breaks

---------------------------------------------------------------------------
(* Properties.                                                             *)

\* The fields of a URL are what it was made of, and a string that is none is
\* refused.
UrlParts ==
    asked # None => http_parser_parse_url(asked.url, FALSE) = asked.parts

\* A request is asked for as its URL says: method, path, host, port and body,
\* in a form that http_parser_execute reads as just that; the query is left out.
\* A URL without a path is the exception: what is asked then means nothing.  A
\* string that is no URL is a failure, told once.
AsksForTheUrl ==
    /\ (asked # None /\ asked.parts = Refused) => failed = <<2009>> /\ wire = ""
    /\ wire # "" => failed = <<>> /\ (asked.means # None => wire = Written(asked.means))

\* The handler gets the body of the response, whole and only once, in whatever
\* segments it came: a response that tells where it ends is handed over as soon
\* as it has arrived, and one that breaks off never is, not even in part.
HandsOverTheBody ==
    LET whole == <<Joined(answer.text)>>
    IN  IF answer = None THEN handled = <<>>
        ELSE /\ handled \in {<<>>, whole}
             /\ (input = <<>> /\ loc.text = "" /\ peer # "broken") =>
                   (handled = whole <=> answer.body # "toEnd")
             /\ parser.http_errno = "OK"
====
