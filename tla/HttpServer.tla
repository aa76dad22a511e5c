---- MODULE HttpServer ----
(***************************************************************************)
(* ec/server/server.c: the server through which the device is configured.  *)
(* A segment is a request of its own: server_recv makes a new parser for   *)
(* each, and answers each.  HttpParser is that parser, and the one who     *)
(* writes the requests.                                                    *)
(***************************************************************************)
EXTENDS HttpParser

CONSTANT MaxSegments        \* bound: segments of a request

VARIABLES
    again,                  \* the byte is looked at once more
    length,                 \* the bytes under way when server_recv was called
    taken,                  \* history: calls of server_recv_handler
    answered,               \* history: answers
    requests                \* history: for each request its body, and the
                            \* segments it came in

serverVars == <<again, length, taken, answered, requests>>

\* server_init, server_listen and the first server_parser_init.
ServerInit ==
    /\ Init /\ parser.type = "REQUEST"
    /\ again = FALSE /\ length = 0 /\ taken = <<>> /\ answered = 0 /\ requests = <<>>

Body(h) == FoldLeft(LAMBDA text, e : IF e[1] = "body" THEN text \o e[2] ELSE text, "", h)

\* The other side writes its next request when the last one was answered.
Ask ==
    /\ length = 0 /\ Write
    /\ length' = Len(input')
    /\ requests' = Append(requests, [body |-> Body(SubSeq(said', Len(said) + 1, Len(said'))),
                                    meant |-> said' # said, segments |-> 0])
    /\ UNCHANGED <<again, taken, answered>>

\* A turn of http_parser_execute; on_message_complete.
Read ==
    /\ Turn /\ again' = (input' = input)
    /\ taken' = IF Len(heard') > Len(heard) /\ Last(heard')[1] = "message_complete"
                THEN Append(taken, Body(heard')) ELSE taken
    /\ UNCHANGED <<length, answered, requests>>

\* Slip: the next segment goes to the same parser.
server_recv_SameParser ==
    /\ again => parser.http_errno # "OK"
    /\ \E rest \in 0 .. Len(input) :
          /\ rest < length
          /\ parser.http_errno # "OK" => rest < Len(input)
          /\ rest < Len(input) => parser.http_errno # "OK" \/ exited
          /\ rest > 0 => Last(requests).segments < MaxSegments - 1
          /\ input' = SubSeq(input, Len(input) - rest + 1, Len(input))
          /\ length' = rest
    /\ answered' = answered + 1
    /\ requests' = [requests EXCEPT ![Len(requests)].segments = @ + 1]
    /\ parser' = [parser EXCEPT !.http_errno = "OK"]
    /\ again' = FALSE /\ loc' = NoMark /\ exited' = FALSE
    /\ heard' = <<>>
    /\ UNCHANGED <<said, messages, peer, taken>>

\* server_recv returns: the segment has been read, or what is left of it after
\* an error, or after an upgrade, is dropped.  The next one finds a new parser.
server_recv ==
    /\ again => parser.http_errno # "OK"
    /\ \E rest \in 0 .. Len(input) :
          /\ rest < length
          /\ parser.http_errno # "OK" => rest < Len(input)
          /\ rest < Len(input) => parser.http_errno # "OK" \/ exited
          /\ rest > 0 => Last(requests).segments < MaxSegments - 1
          /\ input' = SubSeq(input, Len(input) - rest + 1, Len(input))
          /\ length' = rest
    /\ answered' = answered + 1
    /\ requests' = [requests EXCEPT ![Len(requests)].segments = @ + 1]
    /\ parser' = http_parser_init("REQUEST") /\ again' = FALSE /\ loc' = NoMark /\ exited' = FALSE
    /\ heard' = <<>>
    /\ UNCHANGED <<said, messages, peer, taken>>

ServerNext == Ask \/ Read \/ server_recv

---------------------------------------------------------------------------
(* Properties.                                                             *)

\* A request that comes in one segment is handed over, with its body, in turn;
\* one that is cut, or is none, is not, not even in part; yet each of its
\* segments is answered.
TakesWholeRequests ==
    LET whole == SelectSeq(requests, LAMBDA r : r.meant /\ r.segments = 1)
    IN  /\ answered = FoldLeft(LAMBDA n, r : n + r.segments, 0, requests)
        /\ length = 0 => taken = [i \in DOMAIN whole |-> whole[i].body]
====
