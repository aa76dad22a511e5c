---- MODULE MCParsers ----
(***************************************************************************)
(* TLC instance of the parsers: the stream of the session (SaxParser), HTTP *)
(* (HttpParser), the request of the registration (HttpClient) and the      *)
(* configuration server (HttpServer).  They do not meet in the program: a  *)
(* behaviour walks one of them, the part, while the variables of the       *)
(* others rest.                                                            *)
(***************************************************************************)
EXTENDS MCSaxItems, MCHttpMessages

CONSTANTS EntityMax, MaxItems, LengthMax, MaxMessages, MaxSegments

VARIABLES
    part,
    loc, input, heard, said,
    prs, again, bad, items, malformed, split,
    parser, exited, messages, peer,
    asked, soc_send_data, soc_recv_handler, wire, answer, failed, handled,
    length, taken, answered, requests

saxRests ==
    /\ prs = 0 /\ bad = 0 /\ items = 0 /\ malformed = 0 /\ split = 0
parserRests ==
    /\ parser = 0 /\ exited = 0 /\ messages = 0 /\ peer = 0
clientRests ==
    /\ asked = 0 /\ soc_send_data = 0 /\ soc_recv_handler = 0 /\ wire = 0 /\ answer = 0
    /\ failed = 0 /\ handled = 0
serverRests ==
    /\ length = 0 /\ taken = 0 /\ answered = 0 /\ requests = 0

sax    == <<prs, bad, items, malformed, split>>
http   == <<parser, exited, messages, peer>>
client == <<asked, soc_send_data, soc_recv_handler, wire, answer, failed, handled>>
server == <<length, taken, answered, requests>>

Sax    == INSTANCE SaxParser WITH Items <- AllItems
Http   == INSTANCE HttpParser WITH Messages <- MCMessages, Followers <- MCFollowers
Client == INSTANCE HttpClient WITH Messages <- MCResponses, Followers <- {}, MaxMessages <- 1,
                                   Requests <- RequestsOfDevice
Server == INSTANCE HttpServer WITH Messages <- MCAsked, Followers <- MCAsked

ASSUME Sax!SaxAssumption /\ Http!HttpParserAssumption

Init ==
    \/ /\ part = "sax" /\ Sax!Init
       /\ parserRests /\ clientRests /\ serverRests
    \/ /\ part = "http" /\ Http!Init /\ again = 0
       /\ saxRests /\ clientRests /\ serverRests
    \/ /\ part = "client" /\ Client!ClientInit /\ again = 0
       /\ saxRests /\ serverRests
    \/ /\ part = "server" /\ Server!ServerInit
       /\ saxRests /\ clientRests

Next ==
    \/ part = "sax" /\ Sax!Next /\ UNCHANGED <<part, http, client, server>>
    \/ part = "http" /\ Http!Next /\ UNCHANGED <<part, again, sax, client, server>>
    \/ part = "client" /\ Client!ClientNext /\ UNCHANGED <<part, again, sax, server>>
    \/ part = "server" /\ Server!ServerNext /\ UNCHANGED <<part, sax, client>>

vars == <<part, loc, input, heard, said, again, sax, http, client, server>>

Spec == Init /\ [][Next]_vars

---------------------------------------------------------------------------
\* The properties of the parts, stated in their modules.

TypeOK == IF part = "sax" THEN Sax!TypeOK ELSE Http!TypeOK

HearsTheDocument == part = "sax" => Sax!HearsTheDocument /\ Sax!AcceptsTheDocument

HearsTheMessages    == part = "http" => Http!HearsTheMessages
RefusesTheMalformed == part = "http" => Http!RefusesTheMalformed

AsksForTheUrl    == part = "client" => Client!UrlParts /\ Client!AsksForTheUrl
HandsOverTheBody == part = "client" => Client!HandsOverTheBody

TakesWholeRequests == part = "server" => Server!TakesWholeRequests
====
