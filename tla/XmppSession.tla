---- MODULE XmppSession ----
(***************************************************************************)
(* The XMPP session of the socket with its server.                         *)
(*   ec/user/user_xmpp.c    j_connect, on_stream and the filter's hooks    *)
(*   ec/jabber/stream.c     SASL, and the elements on_stream is called for *)
(*   ec/jabber/io-posix.c   the header that opens a connection             *)
(*   ec/user/user_main.c    the task that logs in                          *)
(* The server and the network are external.  A connection is two channels  *)
(* of elements; ec_io_connet gives up the one before.  That the queue of   *)
(* ec_io sends frames in order, and what it loses, is in EcIo; that the    *)
(* filter asks the hook of the best rule, in IksFilter.                    *)
(***************************************************************************)
EXTENDS FilterRules, Sequences, FiniteSets

CONSTANTS
    Requests,               \* ids of the server's requests on one connection
    Asks,                   \* what it may ask for
    Mechanisms,             \* the sets of SASL mechanisms it may offer
    Services,               \* what it may offer after authentication
    Refusals,               \* what it may refuse: "auth", "bind", "session"
    MaxFaults               \* bound: refusals, broken connections, closed
                            \* streams and logins out of turn

ASSUME SessionAssumption ==
    /\ Requests \intersect {AnyValue, None, "auth"} = {}
    /\ Mechanisms \subseteq SUBSET {"md5", "plain"}  \* of those the device knows
    /\ Services \subseteq SUBSET {"bind", "session"}
    /\ \A s \in Services : "bind" \in s       \* as XMPP asks of a server
    /\ MaxFaults \in Nat

VARIABLES
    taskQ,                  \* ec_task_queue
    authorized,             \* j_sess.authorized
    link,                   \* the connection under the session
    toServer, toDevice,     \* what is under way on it
    phase,                  \* how far the server is with the stream
    asked, answers,         \* history: the requests on this connection that
                            \* want an answer, and the answers to them
    online,                 \* history: on this connection the server got the
                            \* presence
    faults

device == <<taskQ, authorized>>
net    == <<link, toServer, toDevice>>
server == <<phase, asked, answers, online>>
vars   == <<device, net, server, faults>>

Wanting == {"ping", "switch", "commamd", "async"}   \* these want an answer

Fault == faults < MaxFaults /\ faults' = faults + 1

---------------------------------------------------------------------------
(* Elements.                                                               *)

El(name)           == [name |-> name]
Iq(subtype, id, ns) == [type |-> "iq", subtype |-> subtype, id |-> id, ns |-> ns,
                        from |-> "server", partial |-> "server"]
Pak(p, ask)        == [name |-> "packet", pak |-> p, ask |-> ask]
Features(set)      == [name |-> "features", offers |-> set]
Reply(name, id, linkid) == [name |-> name, id |-> id, linkid |-> linkid]

\* A request with the id r: its linkid is r as well.
Request(r, ask) ==
    Pak(IF ask = "ping" THEN Iq("get", r, "ping")
        ELSE IF ask = "time" THEN Iq("set", r, "time")
        ELSE [Iq("normal", r, None) EXCEPT !.type = "message"], ask)

Ids == Requests \union {None, "auth"}

Replies == [name : {"pong", "receipt", "async"}, id : Ids, linkid : Ids]

\* All that the device says, ...
DeviceEls ==
    [name : {"header", "response", "bind", "presence", "info"}]
      \union [name : {"auth"}, mech : {"md5", "plain"}]
      \union [name : {"session"}, id : Ids]
      \union Replies

Paks == [type : {"iq", "message"}, subtype : {"get", "set", "result", "error", "normal"},
         id : Ids, ns : {None, "ping", "time", "bind"},
         from : {"server"}, partial : {"server"}]

\* ... and the server.
ServerEls ==
    [name : {"start", "challenge", "blank", "success", "failure", "stop", "error"}]
      \union [name : {"features"}, offers : Mechanisms \union Services]
      \union [name : {"packet"}, pak : Paks, ask : Asks \union {None}]

---------------------------------------------------------------------------
(* The task that logs in.                                                  *)

\* Slip: the queue grows.
system_os_post_Unbounded(q) == Append(q, "SIG_LG")

\* The queue after one more SIG_LG; a full one loses it.
system_os_post(q) == IF Len(q) < 1 THEN Append(q, "SIG_LG") ELSE q

j_error(q) == system_os_post(q)

Init ==
    /\ taskQ = <<>> /\ authorized = FALSE
    /\ link = "none" /\ toServer = <<>> /\ toDevice = <<>>
    /\ phase = "header" /\ asked = <<>> /\ answers = <<>>
    /\ online = FALSE
    /\ faults = 0

\* The station has its address: the first login, and any other out of turn.
GotIp ==
    /\ IF link = "none" THEN UNCHANGED faults ELSE Fault
    /\ taskQ' = system_os_post(taskQ)
    /\ UNCHANGED <<authorized, net, server>>

\* With the name of the server in the cache ec_io_connet comes back without a
\* call of espconn_connect: LookupCached in EcIo.
NewConnection ==
    /\ link' \in {"connecting", "unmade"} /\ toServer' = <<>> /\ toDevice' = <<>>
    /\ phase' = "header" /\ asked' = <<>> /\ answers' = <<>>
    /\ online' = FALSE

\* Slip: the session is not cleared.
j_connect_KeepsAuthorized == UNCHANGED authorized /\ NewConnection

\* j_sess is cleared, parser and filter are new.
j_connect == authorized' = FALSE /\ NewConnection

ec_task ==
    /\ taskQ # <<>>
    /\ taskQ' = Tail(taskQ)
    /\ j_connect
    /\ UNCHANGED faults

\* ec_notify_cb.
Connected ==
    /\ link = "connecting" /\ link' = "up"
    /\ toServer' = <<El("header")>>
    /\ UNCHANGED <<device, toDevice, server, faults>>

\* The name has no address, or nobody answers there; nothing tells the session.
ConnectFails ==
    /\ link = "connecting" /\ link' = "unmade"
    /\ UNCHANGED <<device, toServer, toDevice, server, faults>>

---------------------------------------------------------------------------
(* The hooks of the filter: what each of them sends.                       *)

Rule(type, subtype, id, ns, hook) ==
    [rule |-> [NoRule EXCEPT !.type = type, !.subtype = subtype, !.id = id, !.ns = ns],
     hook |-> hook]

my_filter == <<
    Rule("iq", "result", "auth", AnyValue, "on_result"),
    Rule("iq", "error", "auth", AnyValue, "on_error"),
    Rule("iq", "result", "roster", AnyValue, "on_roster"),
    Rule("iq", "result", AnyValue, "bind", "on_bing"),
    Rule("iq", "get", AnyValue, "ping", "on_ping"),
    Rule("iq", "set", AnyValue, "time", "on_time"),
    Rule("message", "normal", AnyValue, AnyValue, "on_message") >>

\* The hooks of the rules that fit p best.
Hooks(p) ==
    LET s(i) == Score(my_filter[i].rule, p)
    IN  {my_filter[i].hook : i \in {k \in DOMAIN my_filter :
            s(k) > 0 /\ \A j \in DOMAIN my_filter : s(j) <= s(k)}}

\* Slip: the answer has an id of its own.
on_ping_NoId(p) == <<Reply("pong", None, None)>>

on_ping(p) == <<Reply("pong", p.id, None)>>

on_presence == <<El("presence")>>

\* on_presence, then the report of init_info.
on_result == on_presence \o <<El("info")>>

on_bing(p) == <<[name |-> "session", id |-> p.id]>> \o on_presence

\* "switch" is a plan of type 1, "plan" one of another type; the linkid of a
\* receipt is the one the parser found, and json_parse_commamd looks for none.
on_message(p, ask) ==
    IF ask = "switch" THEN <<Reply("receipt", p.id, p.id)>>
    ELSE IF ask = "commamd" THEN <<Reply("receipt", p.id, None)>>
    ELSE IF ask = "async" THEN <<Reply("async", None, p.id)>>
    ELSE <<>>               \* "plan", and the messages that want nothing

Sends(hook, p, ask) ==
    IF hook = "on_result" THEN on_result
    ELSE IF hook = "on_bing" THEN on_bing(p)
    ELSE IF hook = "on_ping" THEN on_ping(p)
    ELSE IF hook = "on_message" THEN on_message(p, ask)
    ELSE <<>>

---------------------------------------------------------------------------
(* on_stream, with tagHook of stream.c before it: one disjunct for each    *)
(* element.                                                                *)

Send(els) == toServer' = toServer \o els

\* iks_start_sasl, with the best mechanism on offer.
StartSasl(offers) ==
    Send(IF "md5" \in offers THEN <<[name |-> "auth", mech |-> "md5"]>>
         ELSE IF "plain" \in offers THEN <<[name |-> "auth", mech |-> "plain"]>>
         ELSE <<>>)

\* Slip: the session before the resource.
StartServices_SessionFirst(offers) ==
    Send((IF "session" \in offers THEN <<[name |-> "session", id |-> "auth"]>> ELSE <<>>)
         \o (IF "bind" \in offers THEN <<El("bind")>> ELSE <<>>))

\* Both requests go out before the first is answered.
StartServices(offers) ==
    Send((IF "bind" \in offers THEN <<El("bind")>> ELSE <<>>)
         \o (IF "session" \in offers THEN <<[name |-> "session", id |-> "auth"]>> ELSE <<>>))

OnFeatures(e) ==
    /\ e.name = "features"
    /\ IF authorized THEN StartServices(e.offers) ELSE StartSasl(e.offers)
    /\ UNCHANGED device

\* iks_sasl_challenge: a challenge without a nonce ("blank") is not answered.
OnChallenge(e) ==
    /\ \/ e.name = "challenge" /\ Send(<<El("response")>>)
       \/ e.name = "blank" /\ UNCHANGED toServer
    /\ UNCHANGED device

OnSuccess(e) ==
    /\ e.name = "success"
    /\ authorized' = TRUE
    /\ Send(<<El("header")>>)
    /\ UNCHANGED taskQ

\* A closed stream falls through to the case of the error.
OnError(e) ==
    /\ e.name \in {"failure", "stop", "error"}
    /\ taskQ' = IF e.name = "stop" THEN j_error(j_error(taskQ)) ELSE j_error(taskQ)
    /\ UNCHANGED <<authorized, toServer>>

OnPacket(e) ==
    /\ e.name = "packet"
    /\ \/ Hooks(e.pak) = {} /\ UNCHANGED toServer
       \/ \E h \in Hooks(e.pak) : Send(Sends(h, e.pak, e.ask))
    /\ UNCHANGED device

\* ec_recv, for one element; IKS_NODE_START does nothing.
ec_recv ==
    /\ link = "up" /\ toDevice # <<>>
    /\ toDevice' = Tail(toDevice)
    /\ LET e == Head(toDevice) IN
          \/ e.name = "start" /\ UNCHANGED <<device, toServer>>
          \/ OnFeatures(e) \/ OnChallenge(e) \/ OnSuccess(e) \/ OnError(e) \/ OnPacket(e)
    /\ UNCHANGED <<link, server, faults>>

---------------------------------------------------------------------------
(* The server.                                                             *)

Answer(els) == toDevice' = toDevice \o els

Refuse(what) == what \in Refusals /\ Fault

\* The end of the authentication.
Verdict ==
    \/ Answer(<<El("success")>>) /\ phase' = "header2" /\ UNCHANGED faults
    \/ Refuse("auth") /\ Answer(<<El("failure")>>) /\ phase' = "auth"

\* One more challenge; a server that gives no nonce waits for an answer that
\* never comes ("mute").
Challenges(next) ==
    /\ \/ Answer(<<El("challenge")>>) /\ phase' = next
       \/ Answer(<<El("blank")>>) /\ phase' = "mute"
    /\ UNCHANGED faults

\* The elements the server expects.
Expects ==
    [mute |-> {}, header |-> {"header"}, auth |-> {"auth"},
     response |-> {"response"}, response2 |-> {"response"},
     header2 |-> {"header"}, bind |-> {"bind"}, unbound |-> {"session"},
     bound |-> {"session", "presence", "info", "pong", "receipt", "async"}]

\* What may open, authenticate and bind a stream, in its order.
Negotiates(m) ==
    \/ /\ phase = "header" /\ m.name = "header" /\ UNCHANGED faults
       /\ \E s \in Mechanisms :
             /\ Answer(<<El("start"), Features(s)>>)
             /\ phase' = IF s = {} THEN "mute" ELSE "auth"
    \/ /\ phase = "auth" /\ m.name = "auth"
       /\ IF m.mech = "md5" THEN Challenges("response") ELSE Verdict
    \/ /\ phase = "response" /\ m.name = "response"
       /\ Verdict \/ Challenges("response2")
    \/ /\ phase = "response2" /\ m.name = "response" /\ Verdict
    \/ /\ phase = "header2" /\ m.name = "header" /\ phase' = "bind" /\ UNCHANGED faults
       /\ \E s \in Services : Answer(<<El("start"), Features(s)>>)
    \/ /\ phase = "bind" /\ m.name = "bind"
       /\ \/ /\ Answer(<<Pak(Iq("result", None, "bind"), None)>>)
             /\ phase' = "bound" /\ UNCHANGED faults
          \/ /\ Refuse("bind") /\ Answer(<<Pak(Iq("error", None, "bind"), None)>>)
             /\ phase' = "unbound"
    \/ /\ m.name = "session" /\ phase \in {"bound", "unbound"} /\ UNCHANGED phase
       /\ \/ /\ phase = "bound" /\ UNCHANGED faults
             /\ Answer(<<Pak(Iq("result", m.id, None), None)>>)
          \/ /\ IF phase = "bound" THEN Refuse("session") ELSE UNCHANGED faults
             /\ Answer(<<Pak(Iq("error", m.id, None), None)>>)

Takes(m) ==
    \/ Negotiates(m) /\ UNCHANGED <<answers, online>>
    \/ /\ phase = "bound" /\ m.name \in Expects[phase] \ {"session"}
       /\ online' = (online \/ m.name = "presence")
       /\ answers' = IF m.name \in {"presence", "info"} THEN answers ELSE Append(answers, m)
       /\ UNCHANGED <<phase, toDevice, faults>>

ServerTakes ==
    /\ link = "up" /\ toServer # <<>> /\ phase # "closed"
    /\ toServer' = Tail(toServer)
    /\ Takes(Head(toServer))
    /\ UNCHANGED <<device, link, asked>>

ServerAsks ==
    /\ link = "up" /\ phase = "bound" /\ online
    /\ \E r \in Requests, a \in Asks :
          /\ \A i \in DOMAIN asked : asked[i].id # r
          /\ asked' = Append(asked, [id |-> r, ask |-> a])
          /\ Answer(<<Request(r, a)>>)
    /\ UNCHANGED <<device, link, toServer, phase, answers, online, faults>>

\* The server closes the stream, or reports an error first.
ServerCloses ==
    /\ link = "up" /\ phase \notin {"header", "closed"} /\ Fault
    /\ \/ Answer(<<El("stop")>>)
       \/ Answer(<<El("error"), El("stop")>>)
    /\ phase' = "closed"
    /\ UNCHANGED <<device, link, toServer, asked, answers, online>>

\* The connection is lost; ec_io does not tell the session.
Breaks ==
    /\ link = "up" /\ Fault
    /\ link' = "dead" /\ toServer' = <<>> /\ toDevice' = <<>>
    /\ UNCHANGED <<device, server>>

Next ==
    \/ GotIp \/ ec_task \/ Connected \/ ConnectFails \/ ec_recv
    \/ ServerTakes \/ ServerAsks \/ ServerCloses \/ Breaks

Spec == Init /\ [][Next]_vars

\* The SDK runs the task and the callbacks, an attempt to connect has an end,
\* the network delivers, the server answers what it has taken.  That an attempt
\* succeeds, or is made at all, nothing gives.
FairSpec ==
    /\ Spec
    /\ WF_vars(ec_task) /\ WF_vars(Connected \/ ConnectFails) /\ WF_vars(ec_recv)
    /\ WF_vars(ServerTakes)

---------------------------------------------------------------------------
(* Properties.                                                             *)

\* The ranges of the variables.
TypeOK ==
    /\ taskQ \in Seq({"SIG_LG"}) /\ Len(taskQ) <= 1
    /\ authorized \in BOOLEAN /\ online \in BOOLEAN
    /\ link \in {"none", "connecting", "unmade", "up", "dead"}
    /\ phase \in {"mute", "header", "auth", "response", "response2", "header2", "bind",
                  "bound", "unbound", "closed"}
    /\ toServer \in Seq(DeviceEls) /\ toDevice \in Seq(ServerEls)
    /\ asked \in Seq([id : Requests, ask : Asks]) /\ answers \in Seq(Replies)
    /\ faults \in 0 .. MaxFaults

\* The server never gets an element out of turn: nothing of an authenticated
\* stream before its success and second header, no presence and no report
\* before a resource is bound, over failed and repeated logins and although
\* bind and session are sent without waiting.
StreamInTurn ==
    toServer # <<>> /\ phase # "closed" => Head(toServer).name \in Expects[phase]

\* An element about a request that wants an answer: the request, or the answer
\* to it; and the request it is about.
Concerns(e) ==
    \/ e.name \in {"pong", "receipt", "async"}
    \/ e.name = "packet" /\ e.ask \in Wanting

About(e) ==
    IF e.name = "packet" THEN e.pak.id ELSE IF e.name = "async" THEN e.linkid ELSE e.id

\* Each request of reqs that wants an answer has one place in line, nothing else
\* has, and the places are in the order of reqs.
InLine(line, reqs) ==
    /\ \A i \in DOMAIN line : Concerns(line[i]) =>
          \E k \in DOMAIN reqs : reqs[k].ask \in Wanting /\ reqs[k].id = About(line[i])
    /\ \A k \in DOMAIN reqs : reqs[k].ask \in Wanting =>
          \E i \in DOMAIN line : Concerns(line[i]) /\ About(line[i]) = reqs[k].id
    /\ \A i, j \in DOMAIN line, k, l \in DOMAIN reqs :
          /\ Concerns(line[i]) /\ About(line[i]) = reqs[k].id
          /\ Concerns(line[j]) /\ About(line[j]) = reqs[l].id
          => (i < j <=> k < l)

\* Each request of the server that wants an answer is answered once and in
\* order: the answers it got, those under way to it and the requests under way
\* to the device are in one line as they were asked, also after the server
\* closed the stream.
AnsweredInOrder == link = "up" => InLine(answers \o toServer \o toDevice, asked)

\* Over refused passwords, closed streams and logins out of turn, a session that
\* has a connection comes to one of these ends: the device announced; the
\* connection lost, or not made by ec_io for the login that follows a failed
\* one; or a server that waits for what the device does not send after a refused
\* resource (on_bing), an offer without a mechanism or a challenge without a
\* nonce.  It stops nowhere else.
LogsIn == link = "up" ~> (\/ online
                          \/ link \in {"dead", "unmade"}
                          \/ phase \in {"unbound", "mute"})

\* user_xmpp.c:28: a connection on which nothing comes is given up.
DeadPeerNoticed == link = "dead" ~> link # "dead"

\* user_xmpp.c:310: a receipt carries the linkid of the message.
ReceiptCarriesLinkid ==
    \A i \in DOMAIN answers : answers[i].name = "receipt" => answers[i].linkid = answers[i].id
====
