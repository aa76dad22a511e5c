---- MODULE XmppProofs ----
(***************************************************************************)
(* Proofs about XmppSession: for every set of requests, mechanisms and     *)
(* services, and any number of refusals, breaks and logins out of turn,    *)
(* the server never gets an element out of turn, and each of its requests  *)
(* that wants an answer is answered once and in order.                     *)
(***************************************************************************)
EXTENDS XmppSession, SequenceTheorems, TLAPS

---------------------------------------------------------------------------
(* Channels: sequences that are put to at the end and taken from at the    *)
(* front.                                                                  *)

\* What is put to a channel comes after what is under way.
LEMMA Put ==
    ASSUME NEW E, NEW s \in Seq(E), NEW t \in Seq(E)
    PROVE  /\ s \o t \in Seq(E)
           /\ Len(s \o t) = Len(s) + Len(t)
           /\ \A i \in 1..Len(s \o t) :
                (s \o t)[i] = IF i <= Len(s) THEN s[i] ELSE t[i - Len(s)]
    OBVIOUS

\* What is taken from a channel is its first element.
LEMMA Take ==
    ASSUME NEW E, NEW s \in Seq(E), s # <<>>
    PROVE  /\ Head(s) = s[1] /\ Head(s) \in E
           /\ Tail(s) \in Seq(E)
           /\ Len(s) \in Nat \ {0} /\ Len(Tail(s)) = Len(s) - 1
           /\ \A i \in 1..Len(Tail(s)) : Tail(s)[i] = s[i + 1]
    OBVIOUS

LEMMA NothingLeft ==
    ASSUME NEW E, NEW s \in Seq(E) PROVE s = <<>> <=> Len(s) = 0
    OBVIOUS

LEMMA Two ==
    ASSUME NEW E, NEW a \in E, NEW b \in E
    PROVE  /\ <<a>> \in Seq(E) /\ Len(<<a>>) = 1 /\ <<a>>[1] = a
           /\ <<a, b>> \in Seq(E) /\ Len(<<a, b>>) = 2
           /\ <<a, b>>[1] = a /\ <<a, b>>[2] = b
           /\ <<>> \in Seq(E) /\ Len(<<>>) = 0
    OBVIOUS

LEMMA Chain ==
    ASSUME NEW E, NEW a \in E, NEW b \in E PROVE <<a>> \o <<b>> = <<a, b>>
<1>1. <<a>> \o <<b>> \in Seq(E) /\ Len(<<a>> \o <<b>>) = 2
    BY Two, Put
<1>2. \A i \in 1..2 : (<<a>> \o <<b>>)[i] = <<a, b>>[i]
    BY Two, Put
<1> DEFINE s == <<a>> \o <<b>>
           t == <<a, b>>
<1>3. s \in Seq(E) /\ t \in Seq(E) /\ Len(s) = Len(t) /\ \A i \in 1..Len(s) : s[i] = t[i]
    BY <1>1, <1>2, Two
<1> HIDE DEF s, t
<1>4. s = t
    BY <1>3, SeqEqual
<1> QED
    BY <1>4 DEF s, t

---------------------------------------------------------------------------
(* Types.                                                                  *)

LEMMA QueueType ==
    ASSUME NEW q \in Seq({"SIG_LG"}), Len(q) <= 1
    PROVE  /\ system_os_post(q) \in Seq({"SIG_LG"}) /\ Len(system_os_post(q)) <= 1
           /\ j_error(q) \in Seq({"SIG_LG"}) /\ Len(j_error(q)) <= 1
    BY DEF system_os_post, j_error

\* Elements without more than a name.
LEMMA Names ==
    /\ \A n \in {"header", "response", "bind", "presence", "info"} : El(n) \in DeviceEls
    /\ \A n \in {"start", "challenge", "blank", "success", "failure", "stop", "error"} :
          El(n) \in ServerEls
    BY DEF El, DeviceEls, ServerEls

LEMMA SessionType ==
    ASSUME NEW i \in Ids PROVE [name |-> "session", id |-> i] \in DeviceEls
    BY DEF DeviceEls

LEMMA ReplyType ==
    ASSUME NEW n \in {"pong", "receipt", "async"}, NEW i \in Ids, NEW l \in Ids
    PROVE  Reply(n, i, l) \in DeviceEls /\ Reply(n, i, l).name = n
    BY DEF Reply, DeviceEls, Replies

\* What a hook sends is what a bound stream expects.
LEMMA SendsType ==
    ASSUME NEW h, NEW p \in Paks, NEW ask
    PROVE  /\ Sends(h, p, ask) \in Seq(DeviceEls)
           /\ \A i \in 1..Len(Sends(h, p, ask)) :
                Sends(h, p, ask)[i].name \in Expects.bound
<1>1. p.id \in Ids /\ None \in Ids
    BY DEF Paks, Ids
<1> DEFINE ses == [name |-> "session", id |-> p.id]
<1>2. /\ ses \in DeviceEls /\ ses.name = "session"
      /\ El("presence") \in DeviceEls /\ El("presence").name = "presence"
      /\ El("info") \in DeviceEls /\ El("info").name = "info"
    BY <1>1, SessionType, Names DEF El
<1>3. CASE h = "on_result"
    <2>1. Sends(h, p, ask) = <<El("presence"), El("info")>>
        BY <1>2, <1>3, Chain DEF Sends, on_result, on_presence
    <2> QED  BY <2>1, <1>2 DEF Expects
<1>4. CASE h = "on_bing"
    <2>1. Sends(h, p, ask) = <<ses, El("presence")>>
        BY <1>2, <1>4, Chain DEF Sends, on_bing, on_presence
    <2> QED  BY <2>1, <1>2 DEF Expects
<1>5. CASE h = "on_ping"
    <2>1. Sends(h, p, ask) = <<Reply("pong", p.id, None)>>
        BY <1>5 DEF Sends, on_ping
    <2> QED  BY <2>1, <1>1, ReplyType DEF Expects
<1>6. CASE h = "on_message"
    <2>1. Sends(h, p, ask) \in {<<Reply("receipt", p.id, p.id)>>, <<Reply("receipt", p.id, None)>>,
                                <<Reply("async", None, p.id)>>, <<>>}
        BY <1>6 DEF Sends, on_message
    <2>2. /\ Reply("receipt", p.id, p.id) \in DeviceEls
          /\ Reply("receipt", p.id, p.id).name = "receipt"
          /\ Reply("receipt", p.id, None) \in DeviceEls
          /\ Reply("receipt", p.id, None).name = "receipt"
          /\ Reply("async", None, p.id) \in DeviceEls
          /\ Reply("async", None, p.id).name = "async"
        BY <1>1, ReplyType
    <2> DEFINE a == Reply("receipt", p.id, p.id)
               b == Reply("receipt", p.id, None)
               c == Reply("async", None, p.id)
    <2>3. /\ a.name \in Expects.bound /\ b.name \in Expects.bound
          /\ c.name \in Expects.bound
        BY <2>2 DEF Expects
    <2>5. Sends(h, p, ask) = <<>> \/ \E m \in {a, b, c} : Sends(h, p, ask) = <<m>>
        BY <2>1
    <2> HIDE DEF a, b, c
    <2>4. \A m \in {a, b, c} : /\ <<m>> \in Seq(DeviceEls)
                               /\ \A i \in 1..Len(<<m>>) : <<m>>[i].name \in Expects.bound
        BY <2>2, <2>3, Two DEF a, b, c
    <2>6. CASE Sends(h, p, ask) = <<>>
        BY <2>6
    <2>7. ASSUME NEW m \in {a, b, c}, Sends(h, p, ask) = <<m>>
          PROVE  /\ Sends(h, p, ask) \in Seq(DeviceEls)
                 /\ \A i \in 1..Len(Sends(h, p, ask)) :
                      Sends(h, p, ask)[i].name \in Expects.bound
        BY <2>4, <2>7, Zenon
    <2> QED  BY <2>5, <2>6, <2>7, Zenon
<1>7. CASE h \notin {"on_result", "on_bing", "on_ping", "on_message"}
    <2>1. Sends(h, p, ask) = <<>>
        BY <1>7 DEF Sends
    <2> QED  BY <2>1
<1> QED
    BY <1>3, <1>4, <1>5, <1>6, <1>7

LEMMA RequestType ==
    ASSUME NEW r \in Requests, NEW a \in Asks
    PROVE  Request(r, a) \in ServerEls /\ Request(r, a).name = "packet"
<1>1. r \in Ids
    BY DEF Ids
<1>2. /\ Iq("get", r, "ping") \in Paks /\ Iq("set", r, "time") \in Paks
      /\ [Iq("normal", r, None) EXCEPT !.type = "message"] \in Paks
    BY <1>1 DEF Iq, Paks
<1> QED
    BY <1>2 DEF Request, Pak, ServerEls

LEMMA InitType == SessionAssumption /\ Init => TypeOK
<1> SUFFICES ASSUME SessionAssumption, Init PROVE TypeOK
    OBVIOUS
<1>1. MaxFaults \in Nat
    BY DEF SessionAssumption
<1>2. /\ <<>> \in Seq({"SIG_LG"}) /\ Len(<<>>) = 0
      /\ <<>> \in Seq(DeviceEls) /\ <<>> \in Seq(ServerEls)
      /\ <<>> \in Seq([id : Requests, ask : Asks]) /\ <<>> \in Seq(Replies)
    OBVIOUS
<1>3. taskQ \in Seq({"SIG_LG"}) /\ Len(taskQ) <= 1
    BY <1>2 DEF Init
<1>6. authorized \in BOOLEAN /\ online \in BOOLEAN
    BY Zenon DEF Init
<1>4. /\ link \in {"none", "connecting", "unmade", "up", "dead"}
      /\ phase = "header" /\ faults \in 0 .. MaxFaults
    BY <1>1 DEF Init
<1>5. /\ toServer \in Seq(DeviceEls) /\ toDevice \in Seq(ServerEls)
      /\ asked \in Seq([id : Requests, ask : Asks]) /\ answers \in Seq(Replies)
    BY <1>2 DEF Init
<1> QED
    BY <1>3, <1>4, <1>5, <1>6, Zenon DEF TypeOK

\* What the device does with an element keeps the types.
LEMMA RecvType == SessionAssumption /\ TypeOK /\ ec_recv => TypeOK'
<1> SUFFICES ASSUME SessionAssumption, TypeOK, ec_recv PROVE TypeOK'
    OBVIOUS
<1> DEFINE e == Head(toDevice)
<1>1. e \in ServerEls /\ toDevice' \in Seq(ServerEls)
    BY Take DEF TypeOK, ec_recv
<1>2. /\ link \in {"none", "connecting", "unmade", "up", "dead"} /\ link' = link
      /\ UNCHANGED <<phase, asked, answers, online, faults>>
    BY DEF TypeOK, ec_recv, server
<1> SUFFICES /\ taskQ' \in Seq({"SIG_LG"}) /\ Len(taskQ') <= 1
             /\ authorized' \in BOOLEAN
             /\ toServer' \in Seq(DeviceEls)
    BY <1>1, <1>2 DEF TypeOK
<1>3. ASSUME NEW els \in Seq(DeviceEls), Send(els) PROVE toServer' \in Seq(DeviceEls)
    BY <1>3, Put DEF Send, TypeOK
<1>4. CASE e.name = "start" /\ UNCHANGED <<device, toServer>>
    BY <1>4 DEF TypeOK, device
<1>5. CASE OnFeatures(e)
    <2>1. \E els \in Seq(DeviceEls) : Send(els)
        <3>1. CASE authorized
            <4>1. El("bind") \in DeviceEls /\ [name |-> "session", id |-> "auth"] \in DeviceEls
                BY Names, SessionType DEF Ids
            <4> DEFINE b == IF "bind" \in e.offers THEN <<El("bind")>> ELSE <<>>
                       t == IF "session" \in e.offers
                            THEN <<[name |-> "session", id |-> "auth"]>> ELSE <<>>
            <4>2. b \in Seq(DeviceEls) /\ t \in Seq(DeviceEls)
                BY <4>1, Two
            <4>3. Send(b \o t)
                BY <1>5, <3>1 DEF OnFeatures, StartServices
            <4> HIDE DEF b, t
            <4> QED  BY <4>2, <4>3, Put
        <3>2. CASE ~authorized
            <4>1. /\ [name |-> "auth", mech |-> "md5"] \in DeviceEls
                  /\ [name |-> "auth", mech |-> "plain"] \in DeviceEls
                BY DEF DeviceEls
            <4> DEFINE a == IF "md5" \in e.offers THEN <<[name |-> "auth", mech |-> "md5"]>>
                            ELSE IF "plain" \in e.offers
                            THEN <<[name |-> "auth", mech |-> "plain"]>> ELSE <<>>
            <4>2. a \in Seq(DeviceEls)
                BY <4>1, Two
            <4>3. Send(a)
                BY <1>5, <3>2 DEF OnFeatures, StartSasl
            <4> QED  BY <4>2, <4>3
        <3> QED  BY <3>1, <3>2
    <2> QED  BY <2>1, <1>3, <1>5 DEF OnFeatures, device, TypeOK
<1>6. CASE OnChallenge(e)
    <2>1. <<El("response")>> \in Seq(DeviceEls)
        BY Names, Two
    <2>2. Send(<<El("response")>>) \/ UNCHANGED toServer
        BY <1>6 DEF OnChallenge
    <2>3. CASE Send(<<El("response")>>)
        BY <2>1, <2>3, <1>3, <1>6 DEF OnChallenge, device, TypeOK
    <2>4. CASE UNCHANGED toServer
        BY <2>4, <1>6 DEF OnChallenge, device, TypeOK
    <2> QED  BY <2>2, <2>3, <2>4
<1>7. CASE OnSuccess(e)
    <2>1. <<El("header")>> \in Seq(DeviceEls)
        BY Names, Two
    <2>2. Send(<<El("header")>>) /\ authorized' \in BOOLEAN /\ UNCHANGED taskQ
        BY <1>7 DEF OnSuccess
    <2>3. toServer' \in Seq(DeviceEls)
        BY <2>1, <2>2, <1>3, Zenon
    <2> QED  BY <2>2, <2>3 DEF TypeOK
<1>8. CASE OnError(e)
    BY <1>8, QueueType DEF OnError, TypeOK
<1>9. CASE OnPacket(e)
    <2>1. e.pak \in Paks
        BY <1>1, <1>9 DEF OnPacket, ServerEls
    <2>2. toServer' \in Seq(DeviceEls)
        <3>1. CASE UNCHANGED toServer
            BY <3>1 DEF TypeOK
        <3>2. ASSUME NEW h, Send(Sends(h, e.pak, e.ask)) PROVE toServer' \in Seq(DeviceEls)
            BY <3>2, <2>1, <1>3, SendsType
        <3> QED  BY <3>1, <3>2, <1>9 DEF OnPacket
    <2> QED  BY <2>2, <1>9 DEF OnPacket, device, TypeOK
<1> QED
    BY <1>4, <1>5, <1>6, <1>7, <1>8, <1>9 DEF ec_recv

LEMMA FaultType ==
    SessionAssumption /\ faults \in 0..MaxFaults /\ Fault => faults' \in 0..MaxFaults
    BY DEF SessionAssumption, Fault

Phases == {"mute", "header", "auth", "response", "response2", "header2", "bind", "bound",
           "unbound", "closed"}

\* The answers of the server while it negotiates.
LEMMA NegotiatesType ==
    ASSUME SessionAssumption, TypeOK, NEW m \in DeviceEls, Negotiates(m)
    PROVE  /\ \E els \in Seq(ServerEls) : Answer(els)
           /\ phase' \in Phases /\ faults' \in 0..MaxFaults
<1>1. faults \in 0..MaxFaults /\ phase \in Phases
    BY DEF TypeOK, Phases
<1>2. faults' \in 0..MaxFaults
    BY <1>1, FaultType DEF Negotiates, Verdict, Challenges, Refuse
<1>3. phase' \in Phases
    BY <1>1 DEF Negotiates, Verdict, Challenges, Phases
<1>4. ASSUME NEW n \in {"start", "challenge", "blank", "success", "failure", "stop", "error"}
      PROVE  <<El(n)>> \in Seq(ServerEls)
    BY <1>4, Names, Two
<1>5. ASSUME NEW s \in Mechanisms \union Services
      PROVE  <<El("start"), Features(s)>> \in Seq(ServerEls)
    <2>1. Features(s) \in ServerEls
        BY DEF Features, ServerEls
    <2> QED  BY <2>1, Names, Two
<1>6. ASSUME NEW t \in {"result", "error"}, NEW i \in Ids, NEW n \in {None, "bind"}
      PROVE  <<Pak(Iq(t, i, n), None)>> \in Seq(ServerEls)
    <2>1. Iq(t, i, n) \in Paks
        BY DEF Iq, Paks
    <2>2. Pak(Iq(t, i, n), None) \in ServerEls
        BY <2>1 DEF Pak, ServerEls
    <2> QED  BY <2>2, Two
<1>7. m.name = "session" => m.id \in Ids
    BY DEF DeviceEls, Replies
<1>8. None \in Ids
    BY DEF Ids
<1>9. Verdict => \E els \in Seq(ServerEls) : Answer(els)
    BY <1>4 DEF Verdict
<1>10. CASE m.name = "session"
    <2>1. \/ Answer(<<Pak(Iq("result", m.id, None), None)>>)
          \/ Answer(<<Pak(Iq("error", m.id, None), None)>>)
        BY <1>10 DEF Negotiates
    <2> QED  BY <2>1, <1>2, <1>3, <1>6, <1>7, <1>10
<1>11. CASE m.name = "bind"
    <2>1. \/ Answer(<<Pak(Iq("result", None, "bind"), None)>>)
          \/ Answer(<<Pak(Iq("error", None, "bind"), None)>>)
        BY <1>11 DEF Negotiates
    <2> QED  BY <2>1, <1>2, <1>3, <1>6, <1>8
<1>12. CASE m.name \notin {"session", "bind"}
    <2>1. \/ Verdict \/ Answer(<<El("challenge")>>) \/ Answer(<<El("blank")>>)
          \/ \E s \in Mechanisms \union Services : Answer(<<El("start"), Features(s)>>)
        BY <1>12 DEF Negotiates, Challenges
    <2> QED  BY <2>1, <1>2, <1>3, <1>4, <1>5, <1>9
<1> QED
    BY <1>10, <1>11, <1>12

\* Every step keeps the types.
LEMMA TypeStep == SessionAssumption /\ TypeOK /\ [Next]_vars => TypeOK'
<1> SUFFICES ASSUME SessionAssumption, TypeOK, [Next]_vars PROVE TypeOK'
    OBVIOUS
<1>1. CASE UNCHANGED vars
    BY <1>1 DEF TypeOK, vars, device, net, server
<1>2. CASE GotIp
    BY <1>2, QueueType, FaultType DEF GotIp, TypeOK, net, server
<1>3. CASE ec_task
    <2>1. taskQ' \in Seq({"SIG_LG"}) /\ Len(taskQ') <= 1
        BY <1>3, Take DEF ec_task, TypeOK
    <2>2. authorized' \in BOOLEAN /\ online' \in BOOLEAN
        BY <1>3, Zenon DEF ec_task, j_connect, NewConnection
    <2> QED  BY <2>1, <2>2, <1>3 DEF ec_task, j_connect, NewConnection, TypeOK
<1>4. CASE Connected
    BY <1>4, Names, Two DEF Connected, TypeOK, device, server
<1>5. CASE ec_recv
    BY <1>5, RecvType
<1>6. CASE ServerTakes
    <2> DEFINE m == Head(toServer)
    <2>1. m \in DeviceEls /\ toServer' \in Seq(DeviceEls)
        BY <1>6, Take DEF ServerTakes, TypeOK
    <2>2. ASSUME Negotiates(m) PROVE toDevice' \in Seq(ServerEls)
        <3>1. PICK els \in Seq(ServerEls) : Answer(els)
            BY <2>1, <2>2, NegotiatesType
        <3> QED  BY <3>1, Put DEF Answer, TypeOK
    <2>3. CASE Negotiates(m) /\ UNCHANGED <<answers, online>>
        BY <2>1, <2>2, <2>3, <1>6, NegotiatesType DEF ServerTakes, TypeOK, Phases, device
    <2>4. CASE /\ m.name \in Expects[phase] \ {"session"} /\ phase = "bound"
               /\ online' = (online \/ m.name = "presence")
               /\ answers' = IF m.name \in {"presence", "info"} THEN answers
                             ELSE Append(answers, m)
               /\ UNCHANGED <<phase, toDevice, faults>>
        <3>1. m.name \in {"presence", "info"} \/ m \in Replies
            BY <2>1, <2>4 DEF Expects, DeviceEls
        <3>2. answers' \in Seq(Replies)
            BY <3>1, <2>4 DEF TypeOK
        <3>3. online' \in BOOLEAN
            BY <2>4, Zenon
        <3> QED  BY <3>2, <3>3, <2>1, <2>4, <1>6 DEF ServerTakes, TypeOK, device
    <2> QED  BY <1>6, <2>3, <2>4 DEF ServerTakes, Takes
<1>7. CASE ServerAsks
    <2>1. PICK r \in Requests, a \in Asks :
              asked' = Append(asked, [id |-> r, ask |-> a]) /\ Answer(<<Request(r, a)>>)
        BY <1>7 DEF ServerAsks
    <2>2. toDevice' \in Seq(ServerEls)
        BY <2>1, RequestType, Two, Put DEF Answer, TypeOK
    <2>3. asked' \in Seq([id : Requests, ask : Asks])
        BY <2>1 DEF TypeOK
    <2> QED  BY <2>2, <2>3, <1>7 DEF ServerAsks, TypeOK, device
<1>8. CASE ServerCloses
    <2>1. toDevice' \in Seq(ServerEls)
        <3>1. <<El("stop")>> \in Seq(ServerEls) /\ <<El("error"), El("stop")>> \in Seq(ServerEls)
            BY Names, Two
        <3>2. \E els \in Seq(ServerEls) : Answer(els)
            BY <3>1, <1>8 DEF ServerCloses
        <3> QED  BY <3>2, Put DEF Answer, TypeOK
    <2> QED  BY <2>1, <1>8, FaultType DEF ServerCloses, TypeOK, device
<1>9. CASE Breaks
    BY <1>9, FaultType DEF Breaks, TypeOK, device, server
<1>10. CASE ConnectFails
    BY <1>10 DEF ConnectFails, TypeOK, device, server
<1> QED
    BY <1>1, <1>2, <1>3, <1>4, <1>5, <1>6, <1>7, <1>8, <1>9, <1>10 DEF Next

\* TypeOK for every value of the constants.
THEOREM SessionTypes == Spec => []TypeOK
<1>1. Init => TypeOK
    BY InitType, SessionAssumption
<1>2. TypeOK /\ [Next]_vars => TypeOK'
    BY TypeStep, SessionAssumption
<1> QED
    BY <1>1, <1>2, PTL DEF Spec
---------------------------------------------------------------------------
(* What is under way on a connection, by how far the server is.            *)

Single(s, n) == Len(s) = 1 /\ s[1].name = n

\* What is left of the opening of a stream.
Opening(d) ==
    \/ Len(d) = 0
    \/ Single(d, "features")
    \/ Len(d) = 2 /\ d[1].name = "start" /\ d[2].name = "features"

\* To the device nothing, and to the server this at most, or the other way
\* round: one of the two is waiting for the other.
ToServerOnly(n) == Len(toDevice) = 0 /\ Single(toServer, n)
ToDeviceOnly(n) == Len(toServer) = 0 /\ Single(toDevice, n)

HeaderStage ==
    /\ ~authorized /\ Len(toDevice) = 0
    /\ Len(toServer) = 0 \/ Single(toServer, "header")

AuthStage ==
    /\ ~authorized
    /\ \/ Len(toServer) = 0 /\ Opening(toDevice)
       \/ ToServerOnly("auth") \/ ToDeviceOnly("failure")

ResponseStage == ~authorized /\ (ToServerOnly("response") \/ ToDeviceOnly("challenge"))

Header2Stage ==
    \/ ~authorized /\ ToDeviceOnly("success")
    \/ authorized /\ ToServerOnly("header")

\* The services are offered once, and bind is one of them.
BindStage ==
    /\ authorized
    /\ \/ /\ Len(toServer) = 0 /\ Opening(toDevice)
          /\ Len(toDevice) > 0 => "bind" \in toDevice[Len(toDevice)].offers
       \/ ToServerOnly("bind")
       \/ /\ Len(toDevice) = 0 /\ Len(toServer) = 2
          /\ toServer[1].name = "bind" /\ toServer[2].name = "session"

\* After a refused resource there are errors only, and no hook answers them.
UnboundStage ==
    /\ Len(toServer) = 0 \/ Single(toServer, "session")
    /\ \A i \in 1..Len(toDevice) :
          /\ toDevice[i].name = "packet"
          /\ toDevice[i].pak.type = "iq" /\ toDevice[i].pak.subtype = "error"

BoundStage ==
    /\ \A i \in 1..Len(toServer) : toServer[i].name \in Expects.bound
    /\ \A i \in 1..Len(toDevice) : toDevice[i].name = "packet"

\* A server that waits for what the device does not send.
Unanswered(e) ==
    e.name \in {"start", "blank"} \/ (e.name = "features" /\ e.offers = {})

MuteStage ==
    /\ ~authorized /\ Len(toServer) = 0
    /\ \A i \in 1..Len(toDevice) : Unanswered(toDevice[i])

Stages ==
    /\ phase = "mute" => MuteStage
    /\ phase = "header" => HeaderStage
    /\ phase = "auth" => AuthStage
    /\ phase \in {"response", "response2"} => ResponseStage
    /\ phase = "header2" => Header2Stage
    /\ phase = "bind" => BindStage
    /\ phase = "unbound" => UnboundStage
    /\ phase = "bound" => BoundStage

\* The inductive invariant: a connection begins with nothing under way and an
\* account that is not authorized, and its stream passes through the stages.
SessionInv ==
    /\ TypeOK
    /\ link = "connecting" =>
          /\ phase = "header" /\ ~authorized
          /\ Len(toServer) = 0 /\ Len(toDevice) = 0
    /\ link = "up" => Stages
    /\ link \in {"none", "unmade", "dead"} => Len(toServer) = 0

\* A packet of another subtype gives a rule no score.
LEMMA OtherSubtype ==
    ASSUME NEW r, NEW p, "subtype" \in DOMAIN r, r["subtype"] \notin {AnyValue, p["subtype"]}
    PROVE  Score(r, p) = 0
    BY DEF Score

LEMMA FilterSubtypes ==
    /\ DOMAIN my_filter = 1..7
    /\ \A i \in 1..7 : "subtype" \in DOMAIN my_filter[i].rule
    /\ \A i \in {1, 3, 4} : my_filter[i].rule["subtype"] = "result"
    /\ my_filter[2].rule["subtype"] = "error" /\ my_filter[5].rule["subtype"] = "get"
    /\ my_filter[6].rule["subtype"] = "set" /\ my_filter[7].rule["subtype"] = "normal"
    /\ my_filter[1].hook = "on_result" /\ my_filter[2].hook = "on_error"
    /\ my_filter[3].hook = "on_roster" /\ my_filter[4].hook = "on_bing"
    /\ my_filter[5].hook = "on_ping" /\ my_filter[6].hook = "on_time"
    /\ my_filter[7].hook = "on_message"
<1>1. \A t, s, j, n, k : /\ "subtype" \in DOMAIN Rule(t, s, j, n, k).rule
                         /\ Rule(t, s, j, n, k).rule["subtype"] = s
                         /\ Rule(t, s, j, n, k).hook = k
    BY DEF Rule, NoRule
<1> QED
    BY <1>1 DEF my_filter

\* Every hook is for packets of one subtype.
LEMMA HookBySubtype ==
    ASSUME NEW p, NEW h \in Hooks(p)
    PROVE  \/ p["subtype"] = "result" /\ h \in {"on_result", "on_roster", "on_bing"}
           \/ p["subtype"] = "error" /\ h = "on_error"
           \/ p["subtype"] = "get" /\ h = "on_ping"
           \/ p["subtype"] = "set" /\ h = "on_time"
           \/ p["subtype"] = "normal" /\ h = "on_message"
<1>1. PICK i \in 1..7 : h = my_filter[i].hook /\ Score(my_filter[i].rule, p) > 0
    BY FilterSubtypes DEF Hooks
<1>2. my_filter[i].rule["subtype"] \in {"result", "error", "get", "set", "normal"}
    BY FilterSubtypes
<1>3. my_filter[i].rule["subtype"] = p["subtype"]
    BY <1>1, <1>2, FilterSubtypes, OtherSubtype DEF AnyValue
<1>4. i \in {1, 3, 4} \/ i = 2 \/ i = 5 \/ i = 6 \/ i = 7
    OBVIOUS
<1> QED
    BY <1>1, <1>3, <1>4, FilterSubtypes

\* Errors make the device send nothing.
LEMMA ErrorsUnanswered ==
    ASSUME NEW p \in Paks, p.subtype = "error", NEW h \in Hooks(p), NEW ask
    PROVE  Sends(h, p, ask) = <<>>
<1>1. h = "on_error"
    BY HookBySubtype
<1> QED
    BY <1>1 DEF Sends

---------------------------------------------------------------------------
(* The device takes an element: one lemma for each kind.                   *)

\* A server that waits for more goes on waiting.
LEMMA MuteStaged ==
    ASSUME TypeOK, Stages, phase = "mute", ec_recv PROVE Stages'
<1> DEFINE e == Head(toDevice)
<1>1. /\ e = toDevice[1] /\ Len(toDevice) \in Nat \ {0}
      /\ toDevice' = Tail(toDevice) /\ Len(toDevice') = Len(toDevice) - 1
      /\ \A i \in 1..Len(toDevice') : toDevice'[i] = toDevice[i + 1]
    BY Take DEF TypeOK, ec_recv
<1>2. ~authorized /\ Len(toServer) = 0 /\ Unanswered(e)
    BY <1>1 DEF Stages, MuteStage
<1>3. toServer' = toServer /\ authorized' = authorized
    <2>1. CASE e.name = "features"
        <3>1. e.offers = {} /\ OnFeatures(e)
            BY <1>2, <2>1 DEF Unanswered, ec_recv, OnChallenge, OnSuccess, OnError, OnPacket
        <3>2. toServer' = toServer \o <<>> /\ UNCHANGED device
            BY <1>2, <3>1 DEF OnFeatures, StartSasl, Send
        <3> QED  BY <3>2, ConcatEmptySeq DEF device, TypeOK
    <2>2. CASE e.name \in {"start", "blank"}
        BY <2>2 DEF ec_recv, OnFeatures, OnChallenge, OnSuccess, OnError, OnPacket, device
    <2> QED  BY <1>2, <2>1, <2>2 DEF Unanswered
<1>4. \A i \in 1..Len(toDevice') : i + 1 \in 1..Len(toDevice)
    BY <1>1
<1>5. phase' = "mute"
    BY DEF ec_recv, server
<1>6. \A i \in 1..Len(toDevice') : Unanswered(toDevice'[i])
    BY <1>1, <1>4 DEF Stages, MuteStage
<1> QED
    BY <1>2, <1>3, <1>5, <1>6 DEF Stages, MuteStage

LEMMA StartStaged ==
    ASSUME TypeOK, Stages, phase # "mute", toDevice # <<>>, Head(toDevice).name = "start",
           toDevice' = Tail(toDevice), UNCHANGED <<toServer, authorized, phase>>
    PROVE  Stages'
<1>1. /\ toDevice[1].name = "start" /\ Len(toDevice) \in Nat \ {0}
      /\ Len(toDevice') = Len(toDevice) - 1
      /\ \A i \in 1..Len(toDevice') : toDevice'[i] = toDevice[i + 1]
    BY Take DEF TypeOK
<1>2. phase \in {"auth", "bind", "closed"}
    BY <1>1 DEF Stages, TypeOK, HeaderStage, ResponseStage, Header2Stage, BoundStage,
                UnboundStage, ToServerOnly, ToDeviceOnly, Single
<1>3. ASSUME Opening(toDevice)
      PROVE  Len(toDevice) = 2 /\ Single(toDevice', "features") /\ toDevice'[1] = toDevice[2]
    BY <1>1, <1>3 DEF Opening, Single
<1>4. CASE phase = "auth"
    <2>1. ~authorized /\ Len(toServer) = 0 /\ Opening(toDevice)
        BY <1>1, <1>4 DEF Stages, AuthStage, ToServerOnly, ToDeviceOnly, Single
    <2> QED  BY <2>1, <1>3, <1>4 DEF Stages, AuthStage, Opening
<1>5. CASE phase = "bind"
    <2>1. /\ authorized /\ Len(toServer) = 0 /\ Opening(toDevice)
          /\ "bind" \in toDevice[Len(toDevice)].offers
        BY <1>1, <1>5 DEF Stages, BindStage, ToServerOnly, Single
    <2>2. Len(toDevice') = 1 /\ toDevice'[1] = toDevice[2] /\ Len(toDevice) = 2
        BY <2>1, <1>3 DEF Single
    <2> QED  BY <2>1, <2>2, <1>3, <1>5 DEF Stages, BindStage, Opening
<1> QED
    BY <1>2, <1>4, <1>5 DEF Stages

LEMMA FeaturesStaged ==
    ASSUME TypeOK, Stages, phase # "mute", toDevice # <<>>, OnFeatures(Head(toDevice)),
           toDevice' = Tail(toDevice), UNCHANGED phase
    PROVE  Stages'
<1> DEFINE e == Head(toDevice)
<1>1. /\ toDevice[1] = e /\ Len(toDevice) \in Nat \ {0}
      /\ Len(toDevice') = Len(toDevice) - 1
      /\ e.name = "features" /\ authorized' = authorized
    BY Take DEF TypeOK, OnFeatures, device
<1>2. phase \in {"auth", "bind", "closed"}
    BY <1>1 DEF Stages, TypeOK, HeaderStage, ResponseStage, Header2Stage, BoundStage,
                UnboundStage, ToServerOnly, ToDeviceOnly, Single
<1>3. ASSUME Opening(toDevice) PROVE Len(toDevice) = 1 /\ Len(toDevice') = 0
    BY <1>1, <1>3 DEF Opening, Single
<1>4. CASE phase = "auth"
    <2>1. ~authorized /\ Len(toServer) = 0 /\ Opening(toDevice)
        BY <1>1, <1>4 DEF Stages, AuthStage, ToServerOnly, ToDeviceOnly, Single
    <2>2. toServer = <<>>
        BY <2>1, NothingLeft DEF TypeOK
    <2>3. Len(toServer') = 0 \/ Single(toServer', "auth")
        <3> DEFINE m == [name |-> "auth", mech |-> "md5"]
                   n == [name |-> "auth", mech |-> "plain"]
        <3>1. toServer' \in {<<>> \o <<m>>, <<>> \o <<n>>, <<>> \o <<>>}
            BY <2>1, <2>2 DEF OnFeatures, StartSasl, Send
        <3>2. toServer' \in {<<m>>, <<n>>, <<>>}
            BY <3>1
        <3> QED  BY <3>2 DEF Single
    <2> QED  BY <2>1, <2>3, <1>1, <1>3, <1>4 DEF Stages, AuthStage, Opening, ToServerOnly
<1>5. CASE phase = "bind"
    <2>1. /\ authorized /\ Len(toServer) = 0 /\ Opening(toDevice)
          /\ "bind" \in toDevice[Len(toDevice)].offers
        BY <1>1, <1>5 DEF Stages, BindStage, ToServerOnly, Single
    <2>2. toServer = <<>> /\ "bind" \in e.offers
        BY <2>1, <1>1, <1>3, NothingLeft DEF TypeOK
    <2> DEFINE b == El("bind")
               t == [name |-> "session", id |-> "auth"]
    <2>3. b \in DeviceEls /\ t \in DeviceEls
        BY Names, SessionType DEF Ids
    <2>4. toServer' = <<b>> \/ toServer' = <<b, t>>
        <3>1. toServer' = toServer \o (<<b>> \o (IF "session" \in e.offers THEN <<t>> ELSE <<>>))
            BY <2>1, <2>2 DEF OnFeatures, StartServices, Send
        <3>2. toServer' = <<>> \o (<<b>> \o <<t>>) \/ toServer' = <<>> \o (<<b>> \o <<>>)
            BY <3>1, <2>2
        <3>3. <<b>> \o <<t>> = <<b, t>> /\ <<b>> \o <<>> = <<b>>
            BY <2>3, Chain, Two, ConcatEmptySeq
        <3>4. <<>> \o <<b, t>> = <<b, t>> /\ <<>> \o <<b>> = <<b>>
            BY <2>3, Two, ConcatEmptySeq
        <3> QED  BY <3>2, <3>3, <3>4
    <2>5. b.name = "bind" /\ t.name = "session"
        BY DEF El
    <2> HIDE DEF b, t
    <2>6. /\ Len(<<b>>) = 1 /\ <<b>>[1] = b
          /\ Len(<<b, t>>) = 2 /\ <<b, t>>[1] = b /\ <<b, t>>[2] = t
        BY <2>3, Two
    <2>7. authorized' /\ Len(toDevice') = 0 /\ phase' = "bind"
        BY <2>1, <1>1, <1>3, <1>5
    <2>8. CASE toServer' = <<b>>
        BY <2>5, <2>6, <2>7, <2>8 DEF Stages, BindStage, ToServerOnly, Single
    <2>9. CASE toServer' = <<b, t>>
        BY <2>5, <2>6, <2>7, <2>9 DEF Stages, BindStage
    <2> QED  BY <2>4, <2>8, <2>9
<1> QED
    BY <1>2, <1>4, <1>5 DEF Stages

LEMMA ChallengeStaged ==
    ASSUME TypeOK, Stages, phase # "mute", toDevice # <<>>, OnChallenge(Head(toDevice)),
           toDevice' = Tail(toDevice), UNCHANGED phase
    PROVE  Stages'
<1>1. /\ toDevice[1].name \in {"challenge", "blank"} /\ Len(toDevice) \in Nat \ {0}
      /\ Len(toDevice') = Len(toDevice) - 1 /\ authorized' = authorized
    BY Take DEF TypeOK, OnChallenge, device
<1>2. phase \in {"response", "response2", "closed"}
    BY <1>1 DEF Stages, TypeOK, HeaderStage, AuthStage, Opening, Header2Stage, BindStage,
                BoundStage, UnboundStage, ToServerOnly, ToDeviceOnly, Single
<1>3. CASE phase \in {"response", "response2"}
    <2>1. /\ ~authorized /\ Len(toServer) = 0 /\ Len(toDevice) = 1
          /\ toDevice[1].name = "challenge"
        BY <1>1, <1>3 DEF Stages, ResponseStage, ToServerOnly, ToDeviceOnly, Single
    <2>2. toServer' = <<>> \o <<El("response")>>
        BY <2>1, NothingLeft DEF TypeOK, OnChallenge, Send
    <2>3. Single(toServer', "response")
        BY <2>2 DEF Single, El
    <2> QED  BY <2>1, <2>3, <1>1, <1>3 DEF Stages, ResponseStage, ToServerOnly
<1> QED
    BY <1>2, <1>3 DEF Stages

LEMMA SuccessStaged ==
    ASSUME TypeOK, Stages, phase # "mute", toDevice # <<>>, OnSuccess(Head(toDevice)),
           toDevice' = Tail(toDevice), UNCHANGED phase
    PROVE  Stages'
<1>1. /\ toDevice[1].name = "success" /\ Len(toDevice) \in Nat \ {0}
      /\ Len(toDevice') = Len(toDevice) - 1
    BY Take DEF TypeOK, OnSuccess
<1>2. phase \in {"header2", "closed"}
    BY <1>1 DEF Stages, TypeOK, HeaderStage, AuthStage, Opening, ResponseStage, BindStage,
                BoundStage, UnboundStage, ToServerOnly, ToDeviceOnly, Single
<1>3. CASE phase = "header2"
    <2>1. Len(toServer) = 0 /\ Len(toDevice) = 1
        BY <1>1, <1>3 DEF Stages, Header2Stage, ToServerOnly, ToDeviceOnly, Single
    <2>2. toServer' = <<>> \o <<El("header")>> /\ authorized'
        BY <2>1, NothingLeft DEF TypeOK, OnSuccess, Send
    <2>3. Single(toServer', "header")
        BY <2>2 DEF Single, El
    <2> QED  BY <2>1, <2>2, <2>3, <1>1, <1>3 DEF Stages, Header2Stage, ToServerOnly
<1> QED
    BY <1>2, <1>3 DEF Stages

LEMMA ErrorStaged ==
    ASSUME TypeOK, Stages, phase # "mute", toDevice # <<>>, OnError(Head(toDevice)),
           toDevice' = Tail(toDevice), UNCHANGED phase
    PROVE  Stages'
<1>1. /\ toDevice[1].name \in {"failure", "stop", "error"} /\ Len(toDevice) \in Nat \ {0}
      /\ Len(toDevice') = Len(toDevice) - 1
      /\ authorized' = authorized /\ toServer' = toServer
    BY Take DEF TypeOK, OnError
<1>2. phase \in {"auth", "closed"}
    <2>1. phase # "header"
        BY <1>1 DEF Stages, HeaderStage
    <2>2. phase \notin {"response", "response2"}
        BY <1>1 DEF Stages, ResponseStage, ToServerOnly, ToDeviceOnly, Single
    <2>3. phase # "header2"
        BY <1>1 DEF Stages, Header2Stage, ToServerOnly, ToDeviceOnly, Single
    <2>4. phase # "bind"
        BY <1>1 DEF Stages, BindStage, Opening, ToServerOnly, Single
    <2>5. 1 \in 1..Len(toDevice)
        BY <1>1
    <2>6. phase # "unbound"
        BY <1>1, <2>5 DEF Stages, UnboundStage
    <2>7. phase # "bound"
        BY <1>1, <2>5 DEF Stages, BoundStage
    <2> QED
        BY <2>1, <2>2, <2>3, <2>4, <2>6, <2>7 DEF TypeOK
<1>3. CASE phase = "auth"
    <2>1. ~authorized /\ Len(toServer) = 0 /\ Len(toDevice) = 1
        BY <1>1, <1>3 DEF Stages, AuthStage, Opening, ToServerOnly, ToDeviceOnly, Single
    <2> QED  BY <2>1, <1>1, <1>3 DEF Stages, AuthStage, Opening
<1> QED
    BY <1>2, <1>3 DEF Stages

LEMMA PacketStaged ==
    ASSUME TypeOK, Stages, phase # "mute", toDevice # <<>>, OnPacket(Head(toDevice)),
           toDevice' = Tail(toDevice), UNCHANGED phase
    PROVE  Stages'
<1> DEFINE e == Head(toDevice)
<1>1. /\ e = toDevice[1] /\ e \in ServerEls /\ e.name = "packet"
      /\ Len(toDevice) \in Nat \ {0} /\ Len(toDevice') = Len(toDevice) - 1
      /\ \A i \in 1..Len(toDevice') : toDevice'[i] = toDevice[i + 1]
      /\ authorized' = authorized
    BY Take DEF TypeOK, OnPacket, device
<1>2. e.pak \in Paks
    BY <1>1 DEF ServerEls
<1>3. phase \in {"unbound", "bound", "closed"}
    BY <1>1 DEF Stages, TypeOK, HeaderStage, AuthStage, Opening, ResponseStage, Header2Stage,
                BindStage, ToServerOnly, ToDeviceOnly, Single
<1>4. \A i \in 1..Len(toDevice') : i + 1 \in 1..Len(toDevice)
    BY <1>1
<1>5. CASE phase = "unbound"
    <2>1. UnboundStage /\ e.pak.subtype = "error"
        BY <1>1, <1>5 DEF Stages, UnboundStage
    <2>2. toServer' = toServer
        <3>1. ASSUME NEW h \in Hooks(e.pak), Send(Sends(h, e.pak, e.ask))
              PROVE  toServer' = toServer
            <4>1. toServer' = toServer \o <<>>
                BY <3>1, <2>1, <1>2, ErrorsUnanswered DEF Send
            <4> QED  BY <4>1, ConcatEmptySeq DEF TypeOK
        <3> QED  BY <3>1 DEF OnPacket
    <2> QED  BY <2>1, <2>2, <1>1, <1>4, <1>5 DEF Stages, UnboundStage, Single
<1>6. CASE phase = "bound"
    <2>1. BoundStage
        BY <1>6 DEF Stages
    <2>2. \A i \in 1..Len(toServer') : toServer'[i].name \in Expects.bound
        <3>1. ASSUME NEW h, Send(Sends(h, e.pak, e.ask))
              PROVE  \A i \in 1..Len(toServer') : toServer'[i].name \in Expects.bound
            <4> DEFINE els == Sends(h, e.pak, e.ask)
            <4>1. /\ els \in Seq(DeviceEls)
                  /\ \A i \in 1..Len(els) : els[i].name \in Expects.bound
                BY <1>2, SendsType
            <4>2. toServer' = toServer \o els
                BY <3>1 DEF Send
            <4> HIDE DEF els
            <4>3. /\ Len(toServer') = Len(toServer) + Len(els)
                  /\ \A i \in 1..Len(toServer') :
                        toServer'[i] = IF i <= Len(toServer) THEN toServer[i]
                                       ELSE els[i - Len(toServer)]
                BY <4>1, <4>2, Put DEF TypeOK
            <4>4. Len(toServer) \in Nat /\ Len(els) \in Nat
                BY <4>1 DEF TypeOK
            <4>5. ASSUME NEW i \in 1..Len(toServer') PROVE toServer'[i].name \in Expects.bound
                <5>1. CASE i <= Len(toServer)
                    <6>1. toServer'[i] = toServer[i] /\ i \in 1..Len(toServer)
                        BY <4>3, <4>4, <5>1
                    <6> QED  BY <6>1, <2>1 DEF BoundStage
                <5>2. CASE ~(i <= Len(toServer))
                    <6>1. /\ toServer'[i] = els[i - Len(toServer)]
                          /\ i - Len(toServer) \in 1..Len(els)
                        BY <4>3, <4>4, <5>2
                    <6> QED  BY <6>1, <4>1
                <5> QED  BY <5>1, <5>2
            <4> QED  BY <4>5
        <3>2. CASE UNCHANGED toServer
            BY <3>2, <2>1 DEF BoundStage
        <3> QED  BY <3>1, <3>2 DEF OnPacket
    <2> QED  BY <2>1, <2>2, <1>1, <1>4, <1>6 DEF Stages, BoundStage
<1> QED
    BY <1>3, <1>5, <1>6 DEF Stages

LEMMA RecvStaged ==
    ASSUME TypeOK, Stages, ec_recv PROVE Stages'
    BY MuteStaged, StartStaged, FeaturesStaged, ChallengeStaged, SuccessStaged, ErrorStaged, PacketStaged
    DEF ec_recv, server, device

---------------------------------------------------------------------------
(* The server takes an element.                                            *)

LEMMA VerdictStaged ==
    ASSUME TypeOK, toDevice = <<>>, Len(toServer') = 0, ~authorized, ~authorized', Verdict
    PROVE  Stages'
<1>1. CASE Answer(<<El("success")>>) /\ phase' = "header2"
    <2>1. toDevice' = <<>> \o <<El("success")>>
        BY <1>1 DEF Answer
    <2>2. Single(toDevice', "success")
        BY <2>1 DEF Single, El
    <2> QED  BY <2>2, <1>1 DEF Stages, Header2Stage, ToDeviceOnly
<1>2. CASE Answer(<<El("failure")>>) /\ phase' = "auth"
    <2>1. toDevice' = <<>> \o <<El("failure")>>
        BY <1>2 DEF Answer
    <2>2. Single(toDevice', "failure")
        BY <2>1 DEF Single, El
    <2> QED  BY <2>2, <1>2 DEF Stages, AuthStage, ToDeviceOnly
<1> QED
    BY <1>1, <1>2 DEF Verdict

LEMMA ChallengedStaged ==
    ASSUME toDevice = <<>>, Len(toServer') = 0, ~authorized',
           NEW next \in {"response", "response2"}, Challenges(next)
    PROVE  Stages'
<1>1. CASE Answer(<<El("challenge")>>) /\ phase' = next
    <2>1. toDevice' = <<>> \o <<El("challenge")>>
        BY <1>1 DEF Answer
    <2>2. Single(toDevice', "challenge")
        BY <2>1 DEF Single, El
    <2> QED  BY <2>2, <1>1 DEF Stages, ResponseStage, ToDeviceOnly
<1>2. CASE Answer(<<El("blank")>>) /\ phase' = "mute"
    <2>1. toDevice' = <<>> \o <<El("blank")>>
        BY <1>2 DEF Answer
    <2>2. Len(toDevice') = 1 /\ toDevice'[1].name = "blank"
        BY <2>1 DEF El
    <2> QED  BY <2>2, <1>2 DEF Stages, MuteStage, Unanswered
<1> QED
    BY <1>1, <1>2 DEF Challenges

\* A stream opens.
LEMMA OpensStaged ==
    ASSUME SessionAssumption, toDevice = <<>>, Len(toServer') = 0,
           NEW offers, Answer(<<El("start"), Features(offers)>>),
           \/ phase' = "auth" /\ ~authorized'
           \/ phase' = "mute" /\ ~authorized' /\ offers = {}
           \/ phase' = "bind" /\ authorized' /\ "bind" \in offers
    PROVE  Stages'
<1>1. toDevice' = <<>> \o <<El("start"), Features(offers)>>
    BY DEF Answer
<1>2. /\ Len(toDevice') = 2 /\ toDevice'[1] = El("start") /\ toDevice'[2] = Features(offers)
    BY <1>1
<1>3. /\ El("start").name = "start" /\ Features(offers).name = "features"
      /\ Features(offers).offers = offers
    BY DEF El, Features
<1>4. Opening(toDevice')
    BY <1>2, <1>3 DEF Opening
<1>5. CASE phase' = "mute"
    <2>1. offers = {} /\ ~authorized'
        BY <1>5
    <2>2. \A i \in 1..Len(toDevice') : Unanswered(toDevice'[i])
        BY <2>1, <1>2, <1>3 DEF Unanswered
    <2> QED  BY <2>1, <2>2, <1>5 DEF Stages, MuteStage
<1> QED
    BY <1>2, <1>3, <1>4, <1>5 DEF Stages, AuthStage, BindStage

\* One more packet.
LEMMA PacketsStaged ==
    ASSUME TypeOK, NEW p \in ServerEls, p.name = "packet", Answer(<<p>>)
    PROVE  /\ Len(toDevice') = Len(toDevice) + 1 /\ Len(toDevice) \in Nat
           /\ \A i \in 1..Len(toDevice') :
                 IF i <= Len(toDevice) THEN toDevice'[i] = toDevice[i] ELSE toDevice'[i] = p
    BY DEF TypeOK, Answer

LEMMA TakesStaged ==
    ASSUME SessionAssumption, TypeOK, Stages, ServerTakes
    PROVE  Stages'
<1> DEFINE m == Head(toServer)
<1>1. /\ m = toServer[1] /\ m \in DeviceEls
      /\ Len(toServer) \in Nat \ {0} /\ Len(toServer') = Len(toServer) - 1
      /\ \A i \in 1..Len(toServer') : toServer'[i] = toServer[i + 1]
      /\ authorized' = authorized /\ phase # "closed"
    BY Take DEF TypeOK, ServerTakes, device
<1>2. \A i \in 1..Len(toServer') : i + 1 \in 1..Len(toServer)
    BY <1>1
<1>3. ASSUME Len(toDevice) = 0 PROVE toDevice = <<>>
    BY <1>3, NothingLeft DEF TypeOK
<1>4. CASE phase = "header" /\ m.name = "header" /\ Negotiates(m)
    <2>1. ~authorized /\ Len(toDevice) = 0 /\ Len(toServer') = 0
        BY <1>1, <1>4 DEF Stages, HeaderStage, Single
    <2>2. PICK s \in Mechanisms : /\ Answer(<<El("start"), Features(s)>>)
                                   /\ phase' = IF s = {} THEN "mute" ELSE "auth"
        BY <1>4 DEF Negotiates
    <2> QED  BY <2>1, <2>2, <1>1, <1>3, OpensStaged
<1>5. CASE phase = "auth" /\ m.name = "auth" /\ Negotiates(m)
    <2>1. ~authorized /\ Len(toDevice) = 0 /\ Len(toServer') = 0
        BY <1>1, <1>5 DEF Stages, AuthStage, ToServerOnly, ToDeviceOnly, Single
    <2>2. Verdict \/ Challenges("response")
        BY <1>5 DEF Negotiates
    <2> QED  BY <2>1, <2>2, <1>1, <1>3, VerdictStaged, ChallengedStaged
<1>6. CASE phase \in {"response", "response2"} /\ m.name = "response" /\ Negotiates(m)
    <2>1. ~authorized /\ Len(toDevice) = 0 /\ Len(toServer') = 0
        BY <1>1, <1>6 DEF Stages, ResponseStage, ToServerOnly, ToDeviceOnly, Single
    <2>2. Verdict \/ Challenges("response2")
        BY <1>6 DEF Negotiates
    <2> QED  BY <2>1, <2>2, <1>1, <1>3, VerdictStaged, ChallengedStaged
<1>7. CASE phase = "header2" /\ m.name = "header" /\ Negotiates(m)
    <2>1. authorized /\ Len(toDevice) = 0 /\ Len(toServer') = 0
        BY <1>1, <1>7 DEF Stages, Header2Stage, ToServerOnly, ToDeviceOnly, Single
    <2>2. phase' = "bind" /\ \E s \in Services : Answer(<<El("start"), Features(s)>>)
        BY <1>7 DEF Negotiates
    <2>3. \A s \in Services : "bind" \in s
        BY DEF SessionAssumption
    <2> QED  BY <2>1, <2>2, <2>3, <1>1, <1>3, OpensStaged
<1>8. CASE phase = "bind" /\ m.name = "bind" /\ Negotiates(m)
    <2>1. /\ authorized /\ Len(toDevice) = 0
          /\ Len(toServer') = 0 \/ Single(toServer', "session")
        BY <1>1, <1>8 DEF Stages, BindStage, ToServerOnly, Single
    <2>2. PICK t \in {"result", "error"} :
              /\ Answer(<<Pak(Iq(t, None, "bind"), None)>>)
              /\ (t = "result" /\ phase' = "bound") \/ (t = "error" /\ phase' = "unbound")
        <3>1. \/ Answer(<<Pak(Iq("result", None, "bind"), None)>>) /\ phase' = "bound"
              \/ Answer(<<Pak(Iq("error", None, "bind"), None)>>) /\ phase' = "unbound"
            BY <1>8 DEF Negotiates
        <3> QED  BY <3>1, Zenon
    <2> DEFINE p == Pak(Iq(t, None, "bind"), None)
    <2>3. toDevice' = <<>> \o <<p>>
        BY <2>1, <2>2, <1>3 DEF Answer
    <2>4. p.name = "packet" /\ p.pak.type = "iq" /\ p.pak.subtype = t
        BY DEF Pak, Iq
    <2> HIDE DEF p
    <2>5. Len(toDevice') = 1 /\ toDevice'[1] = p
        BY <2>3
    <2>6. \A i \in 1..Len(toServer') : toServer'[i].name \in Expects.bound
        BY <2>1 DEF Single, Expects
    <2>7. CASE t = "result"
        BY <2>2, <2>4, <2>5, <2>6, <2>7 DEF Stages, BoundStage
    <2>8. CASE t = "error"
        BY <2>1, <2>2, <2>4, <2>5, <2>8 DEF Stages, UnboundStage
    <2> QED  BY <2>7, <2>8
<1>9. CASE phase \in {"bound", "unbound"} /\ m.name = "session" /\ Negotiates(m)
    <2>1. PICK t \in {"result", "error"} :
              /\ Answer(<<Pak(Iq(t, m.id, None), None)>>)
              /\ phase = "unbound" => t = "error"
        BY <1>9 DEF Negotiates
    <2> DEFINE p == Pak(Iq(t, m.id, None), None)
    <2>2. m.id \in Ids /\ None \in Ids
        BY <1>1, <1>9 DEF DeviceEls, Replies, Ids
    <2>3. Iq(t, m.id, None) \in Paks
        BY <2>2 DEF Iq, Paks
    <2>4. p \in ServerEls /\ p.name = "packet" /\ p.pak.type = "iq" /\ p.pak.subtype = t
        BY <2>3 DEF Pak, Iq, ServerEls
    <2>5. phase' = phase /\ Answer(<<p>>)
        BY <2>1, <1>9 DEF Negotiates
    <2> HIDE DEF p
    <2>6. /\ Len(toDevice') = Len(toDevice) + 1 /\ Len(toDevice) \in Nat
          /\ \A i \in 1..Len(toDevice') :
                IF i <= Len(toDevice) THEN toDevice'[i] = toDevice[i] ELSE toDevice'[i] = p
        BY <2>4, <2>5, PacketsStaged
    <2>7. \A i \in 1..Len(toDevice') :
              \/ i \in 1..Len(toDevice) /\ toDevice'[i] = toDevice[i]
              \/ toDevice'[i] = p
        BY <2>6
    <2>8. CASE phase = "bound"
        BY <2>4, <2>5, <2>7, <2>8, <1>1, <1>2, SMTT(30) DEF Stages, BoundStage
    <2>9. CASE phase = "unbound"
        <3>1. Len(toServer') = 0
            BY <2>9, <1>1 DEF Stages, UnboundStage, Single
        <3> QED  BY <3>1, <2>1, <2>4, <2>5, <2>7, <2>9 DEF Stages, UnboundStage
    <2> QED  BY <2>8, <2>9, <1>9
<1>10. CASE phase = "bound" /\ UNCHANGED <<phase, toDevice>>
    BY <1>1, <1>2, <1>10 DEF Stages, BoundStage
<1> QED
    BY <1>4, <1>5, <1>6, <1>7, <1>8, <1>9, <1>10 DEF ServerTakes, Takes, Negotiates

---------------------------------------------------------------------------
(* The theorem.                                                            *)

LEMMA SessionInit == Init => SessionInv
<1> SUFFICES ASSUME Init PROVE SessionInv
    OBVIOUS
<1>1. TypeOK
    BY InitType, SessionAssumption
<1>2. link = "none" /\ Len(toServer) = 0
    BY DEF Init
<1> QED
    BY <1>1, <1>2 DEF SessionInv

\* Every step keeps the invariant.
LEMMA SessionStep == SessionInv /\ [Next]_vars => SessionInv'
<1> SUFFICES ASSUME SessionInv, [Next]_vars PROVE SessionInv'
    OBVIOUS
<1>1. TypeOK /\ TypeOK'
    BY TypeStep, SessionAssumption DEF SessionInv
<1>2. CASE UNCHANGED <<authorized, link, toServer, toDevice, phase>>
    <2>1. Stages => Stages'
        BY <1>2 DEF Stages, HeaderStage, AuthStage, ResponseStage, Header2Stage, BindStage,
                    UnboundStage, BoundStage, MuteStage, ToServerOnly, ToDeviceOnly,
                    Opening, Single
    <2> QED  BY <2>1, <1>1, <1>2 DEF SessionInv
<1>3. CASE GotIp
    BY <1>2, <1>3 DEF GotIp, net, server
<1>4. CASE ec_task
    BY <1>1, <1>4 DEF ec_task, j_connect, NewConnection, SessionInv
<1>5. CASE Connected
    <2>1. /\ phase' = "header" /\ ~authorized' /\ Len(toDevice') = 0 /\ link' = "up"
          /\ toServer' = <<El("header")>>
        BY <1>5 DEF Connected, SessionInv, device, server
    <2>2. Single(toServer', "header")
        BY <2>1 DEF Single, El
    <2>3. Stages'
        BY <2>1, <2>2 DEF Stages, HeaderStage
    <2> QED  BY <2>1, <2>3, <1>1 DEF SessionInv
<1>6. CASE ec_recv
    <2>1. link = "up" /\ link' = "up"
        BY <1>6 DEF ec_recv
    <2> QED  BY <2>1, <1>1, <1>6, RecvStaged DEF SessionInv
<1>7. CASE ServerTakes
    <2>1. link = "up" /\ link' = "up"
        BY <1>7 DEF ServerTakes
    <2> QED  BY <2>1, <1>1, <1>7, TakesStaged, SessionAssumption DEF SessionInv
<1>8. CASE ServerAsks
    <2>1. /\ link = "up" /\ link' = "up" /\ phase = "bound" /\ phase' = "bound"
          /\ toServer' = toServer
        BY <1>8 DEF ServerAsks
    <2>2. PICK r \in Requests, a \in Asks : Answer(<<Request(r, a)>>)
        BY <1>8 DEF ServerAsks
    <2> DEFINE p == Request(r, a)
    <2>3. p \in ServerEls /\ p.name = "packet"
        BY RequestType
    <2> HIDE DEF p
    <2>4. /\ Len(toDevice') = Len(toDevice) + 1 /\ Len(toDevice) \in Nat
          /\ \A i \in 1..Len(toDevice') :
                IF i <= Len(toDevice) THEN toDevice'[i] = toDevice[i] ELSE toDevice'[i] = p
        BY <1>1, <2>2, <2>3, PacketsStaged DEF p
    <2>5. BoundStage
        BY <2>1 DEF SessionInv, Stages
    <2>6. BoundStage'
        BY <2>1, <2>3, <2>4, <2>5 DEF BoundStage
    <2> QED  BY <2>1, <2>6, <1>1 DEF SessionInv, Stages
<1>9. CASE ServerCloses
    <2>1. link = "up" /\ link' = "up" /\ phase' = "closed"
        BY <1>9 DEF ServerCloses
    <2> QED  BY <2>1, <1>1 DEF SessionInv, Stages
<1>10. CASE Breaks
    <2>1. link' = "dead" /\ toServer' = <<>>
        BY <1>10 DEF Breaks
    <2> QED  BY <2>1, <1>1 DEF SessionInv
<1>11. CASE ConnectFails
    BY <1>1, <1>11 DEF ConnectFails, SessionInv, device
<1>12. CASE UNCHANGED vars
    BY <1>2, <1>12 DEF vars, device, net, server
<1> QED
    BY <1>3, <1>4, <1>5, <1>6, <1>7, <1>8, <1>9, <1>10, <1>11, <1>12 DEF Next

\* What waits for a server is what it expects.
LEMMA SessionImpliesInTurn == SessionInv => StreamInTurn
<1> SUFFICES ASSUME SessionInv, toServer # <<>>, phase # "closed"
             PROVE  Head(toServer).name \in Expects[phase]
    BY DEF StreamInTurn
<1>1. Head(toServer) = toServer[1] /\ Len(toServer) \in Nat \ {0}
    BY Take DEF SessionInv, TypeOK
<1>2. link = "up"
    <2>1. link \in {"none", "connecting", "unmade", "up", "dead"}
        BY DEF SessionInv, TypeOK
    <2> QED  BY <2>1, <1>1 DEF SessionInv
<1>3. Stages
    BY <1>2 DEF SessionInv
<1>4. phase \in Phases \ {"closed"}
    BY DEF SessionInv, TypeOK, Phases
<1>5. CASE phase = "header"
    BY <1>1, <1>3, <1>5 DEF Stages, HeaderStage, Single, Expects
<1>6. CASE phase = "auth"
    BY <1>1, <1>3, <1>6 DEF Stages, AuthStage, ToServerOnly, ToDeviceOnly, Single, Expects
<1>7. CASE phase \in {"response", "response2"}
    BY <1>1, <1>3, <1>7 DEF Stages, ResponseStage, ToServerOnly, ToDeviceOnly, Single, Expects
<1>8. CASE phase = "header2"
    BY <1>1, <1>3, <1>8 DEF Stages, Header2Stage, ToServerOnly, ToDeviceOnly, Single, Expects
<1>9. CASE phase = "bind"
    BY <1>1, <1>3, <1>9 DEF Stages, BindStage, ToServerOnly, Single, Expects
<1>10. CASE phase = "unbound"
    BY <1>1, <1>3, <1>10 DEF Stages, UnboundStage, Single, Expects
<1>11. CASE phase = "bound"
    BY <1>1, <1>3, <1>11 DEF Stages, BoundStage, Expects
<1>12. phase # "mute"
    BY <1>1, <1>3 DEF Stages, MuteStage
<1> QED
    BY <1>4, <1>5, <1>6, <1>7, <1>8, <1>9, <1>10, <1>11, <1>12 DEF Phases

\* Whatever fails and however often, the server gets nothing out of turn:
\* StreamInTurn for every value of the constants.
THEOREM StreamInTurnHolds == Spec => []StreamInTurn
<1>1. Spec => []SessionInv
    BY SessionInit, SessionStep, PTL DEF Spec
<1> QED
    BY <1>1, SessionImpliesInTurn, PTL

---------------------------------------------------------------------------
(* The line of the requests: the answers the server got, those under way   *)
(* to it and the requests under way to the device.                         *)

\* A line M takes the places of L, when what concerns a request keeps what it
\* is about and its order.
LEMMA Remap ==
    ASSUME NEW L, NEW M, NEW reqs, NEW f, InLine(L, reqs),
           DOMAIN L \subseteq Int, DOMAIN M \subseteq Int,
           \A j \in DOMAIN M : Concerns(M[j]) =>
              f[j] \in DOMAIN L /\ Concerns(L[f[j]]) /\ About(L[f[j]]) = About(M[j]),
           \A i \in DOMAIN L : Concerns(L[i]) => \E j \in DOMAIN M : Concerns(M[j]) /\ f[j] = i,
           \A i, j \in DOMAIN M : Concerns(M[i]) /\ Concerns(M[j]) /\ i < j => f[i] < f[j]
    PROVE  InLine(M, reqs)
<1>1. \A j \in DOMAIN M : Concerns(M[j]) =>
         \E k \in DOMAIN reqs : reqs[k].ask \in Wanting /\ reqs[k].id = About(M[j])
    BY DEF InLine
<1>2. ASSUME NEW k \in DOMAIN reqs, reqs[k].ask \in Wanting
      PROVE  \E j \in DOMAIN M : Concerns(M[j]) /\ About(M[j]) = reqs[k].id
    <2>1. PICK i \in DOMAIN L : Concerns(L[i]) /\ About(L[i]) = reqs[k].id
        BY <1>2 DEF InLine
    <2>2. PICK j \in DOMAIN M : Concerns(M[j]) /\ f[j] = i
        BY <2>1
    <2> QED  BY <2>1, <2>2
<1>3. ASSUME NEW i \in DOMAIN M, NEW j \in DOMAIN M,
             NEW k \in DOMAIN reqs, NEW l \in DOMAIN reqs,
             Concerns(M[i]), About(M[i]) = reqs[k].id,
             Concerns(M[j]), About(M[j]) = reqs[l].id
      PROVE  i < j <=> k < l
    <2>1. f[i] < f[j] <=> k < l
        BY <1>3 DEF InLine
    <2>2. i < j => f[i] < f[j]
        BY <1>3
    <2>3. j < i => f[j] < f[i]
        BY <1>3
    <2>4. i \in Int /\ j \in Int /\ f[i] \in Int /\ f[j] \in Int
        BY <1>3
    <2>5. i = j => f[i] = f[j]
        OBVIOUS
    <2> HIDE DEF InLine
    <2> DEFINE a == f[i]
               b == f[j]
    <2> HIDE DEF a, b
    <2>6. a < b <=> i < j
        BY <2>2, <2>3, <2>4, <2>5 DEF a, b
    <2> QED  BY <2>1, <2>6 DEF a, b
<1> QED
    BY <1>1, <1>2, <1>3 DEF InLine

\* The places of three sequences that follow one another.
LEMMA Three ==
    ASSUME NEW E, NEW X \in Seq(E), NEW Y \in Seq(E), NEW Z \in Seq(E)
    PROVE  LET L == X \o Y \o Z IN
           /\ L \in Seq(E) /\ DOMAIN L = 1..(Len(X) + Len(Y) + Len(Z))
           /\ \A i \in 1..Len(X) : L[i] = X[i]
           /\ \A i \in 1..Len(Y) : L[Len(X) + i] = Y[i]
           /\ \A i \in 1..Len(Z) : L[Len(X) + Len(Y) + i] = Z[i]
<1> DEFINE W == X \o Y
<1>1. W \in Seq(E) /\ Len(W) = Len(X) + Len(Y)
    BY ConcatProperties
<1>2. /\ \A i \in 1..Len(X) : W[i] = X[i]
      /\ \A i \in 1..Len(Y) : W[Len(X) + i] = Y[i]
    BY ConcatProperties
<1> HIDE DEF W
<1> DEFINE L == W \o Z
<1>3. L \in Seq(E) /\ Len(L) = Len(W) + Len(Z) /\ DOMAIN L = 1..Len(L)
    <2>1. L \in Seq(E) /\ Len(L) = Len(W) + Len(Z)
        BY <1>1, ConcatProperties
    <2> HIDE DEF L
    <2> QED  BY <2>1, LenProperties
<1>4. /\ \A i \in 1..Len(W) : L[i] = W[i]
      /\ \A i \in 1..Len(Z) : L[Len(W) + i] = Z[i]
    BY <1>1, ConcatProperties
<1>5. Len(X) \in Nat /\ Len(Y) \in Nat /\ Len(Z) \in Nat
    OBVIOUS
<1> HIDE DEF L
<1>6. \A i \in 1..Len(X) : L[i] = X[i]
    BY <1>1, <1>2, <1>4, <1>5
<1>7. \A i \in 1..Len(Y) : L[Len(X) + i] = Y[i]
    BY <1>1, <1>2, <1>4, <1>5
<1>8. \A i \in 1..Len(Z) : L[Len(X) + Len(Y) + i] = Z[i]
    BY <1>1, <1>4
<1> QED
    BY <1>1, <1>3, <1>6, <1>7, <1>8 DEF L, W

\* What concerns no request leaves the line, or joins it, and the line is as it
\* was.
LEMMA Replaced ==
    ASSUME NEW E, NEW X \in Seq(E), NEW Y \in Seq(E), NEW W \in Seq(E), NEW Z \in Seq(E),
           \A i \in 1..Len(Y) : ~Concerns(Y[i]), \A i \in 1..Len(W) : ~Concerns(W[i]),
           NEW reqs, InLine(X \o Y \o Z, reqs)
    PROVE  InLine(X \o W \o Z, reqs)
<1> DEFINE L == X \o Y \o Z
           M == X \o W \o Z
           x == Len(X)
           y == Len(Y)
           w == Len(W)
           z == Len(Z)
<1>1. /\ DOMAIN L = 1..(x + y + z) /\ \A i \in 1..x : L[i] = X[i]
      /\ \A i \in 1..y : L[x + i] = Y[i] /\ \A k \in 1..z : L[x + y + k] = Z[k]
      /\ \A i \in 1..z : L[x + y + i] = Z[i]
    BY Three, SMTT(30)
<1>2. /\ DOMAIN M = 1..(x + w + z) /\ \A i \in 1..x : M[i] = X[i]
      /\ \A i \in 1..w : M[x + i] = W[i]
      /\ \A i \in 1..z : M[x + w + i] = Z[i]
    BY Three
<1>3. x \in Nat /\ y \in Nat /\ w \in Nat /\ z \in Nat /\ InLine(L, reqs)
    OBVIOUS
<1>4. /\ \A i \in 1..y : ~Concerns(Y[i])
      /\ \A i \in 1..w : ~Concerns(W[i])
    OBVIOUS
<1>5. DOMAIN L = 1..(x + y + z) /\ DOMAIN M = 1..(x + w + z)
    BY <1>1, <1>2
<1> HIDE DEF L, M, x, y, w, z
<1> DEFINE f == [j \in 1..(x + w + z) |-> IF j <= x THEN j ELSE (j - w) + y]
<1>6. \A j \in DOMAIN M : f[j] = IF j <= x THEN j ELSE (j - w) + y
    BY <1>5
<1> HIDE DEF f
<1>7. ASSUME NEW j \in DOMAIN M, Concerns(M[j])
       PROVE  j <= x \/ \E k \in 1..z : j = x + w + k
    <2>1. CASE j <= x + w
        <3>1. ASSUME j > x PROVE FALSE
            <4>1. j - x \in 1..w /\ x + (j - x) = j
                BY <3>1, <2>1, <1>3, <1>5
            <4> QED  BY <4>1, <1>2, <1>4, <1>7
        <3> QED  BY <3>1, <1>3, <1>5
    <2>2. CASE j > x + w
        <3>1. j - x - w \in 1..z /\ j = x + w + (j - x - w)
            BY <2>2, <1>3, <1>5
        <3> QED  BY <3>1
    <2> QED  BY <2>1, <2>2, <1>3, <1>5
<1>8. ASSUME NEW i \in DOMAIN L, Concerns(L[i])
       PROVE  i <= x \/ \E k \in 1..z : i = x + y + k
    <2>1. CASE i <= x + y
        <3>1. ASSUME i > x PROVE FALSE
            <4>1. i - x \in 1..y /\ x + (i - x) = i
                BY <3>1, <2>1, <1>3, <1>5
            <4> QED  BY <4>1, <1>1, <1>4, <1>8
        <3> QED  BY <3>1, <1>3, <1>5
    <2>2. CASE i > x + y
        <3>1. i - x - y \in 1..z /\ i = x + y + (i - x - y)
            BY <2>2, <1>3, <1>5
        <3> QED  BY <3>1
    <2> QED  BY <2>1, <2>2, <1>3, <1>5
<1>9. ASSUME NEW k \in 1..z
       PROVE  /\ x + w + k \in DOMAIN M /\ x + y + k \in DOMAIN L
              /\ f[x + w + k] = x + y + k /\ M[x + w + k] = L[x + y + k]
    <2>1. x + w + k \in DOMAIN M /\ x + y + k \in DOMAIN L
        BY <1>3, <1>5
    <2>2. ~(x + w + k <= x) /\ ((x + w + k) - w) + y = x + y + k
        BY <1>3
    <2>3. f[x + w + k] = x + y + k
        BY <2>1, <2>2, <1>6
    <2> QED  BY <2>1, <2>3, <1>1, <1>2
<1>10. ASSUME NEW i \in 1..x
       PROVE  i \in DOMAIN M /\ i \in DOMAIN L /\ f[i] = i /\ M[i] = L[i]
    <2>1. i \in DOMAIN M /\ i \in DOMAIN L /\ i <= x
        BY <1>3, <1>5
    <2> QED  BY <2>1, <1>1, <1>2, <1>6
<1>11. \A j \in DOMAIN M \union DOMAIN L : j <= x => j \in 1..x
    BY <1>3, <1>5
<1>12. ASSUME NEW j \in DOMAIN M, Concerns(M[j])
      PROVE  f[j] \in DOMAIN L /\ Concerns(L[f[j]]) /\ About(L[f[j]]) = About(M[j])
    <2>1. CASE j <= x
        BY <2>1, <1>12, <1>10, <1>11
    <2>2. CASE \E k \in 1..z : j = x + w + k
        BY <2>2, <1>12, <1>9
    <2> QED  BY <2>1, <2>2, <1>12, <1>7
<1>13. ASSUME NEW i \in DOMAIN L, Concerns(L[i])
      PROVE  \E j \in DOMAIN M : Concerns(M[j]) /\ f[j] = i
    <2>1. CASE i <= x
        BY <2>1, <1>13, <1>10, <1>11
    <2>2. CASE \E k \in 1..z : i = x + y + k
        BY <2>2, <1>13, <1>9
    <2> QED  BY <2>1, <2>2, <1>13, <1>8
<1>14. ASSUME NEW i \in DOMAIN M, NEW j \in DOMAIN M, Concerns(M[i]), Concerns(M[j]), i < j
      PROVE  f[i] < f[j]
    <2>1. /\ i <= x \/ i > x + w
          /\ j <= x \/ j > x + w
        BY <1>14, <1>7, <1>3
    <2> QED  BY <2>1, <1>3, <1>14, <1>5, <1>6
<1>15. DOMAIN L \subseteq Int /\ DOMAIN M \subseteq Int
    BY <1>3, <1>5
<1>16. InLine(M, reqs)
    BY <1>3, <1>12, <1>13, <1>14, <1>15, Remap
<1> QED
    BY <1>16 DEF M

\* The answer takes the place of the request.
LEMMA Swapped ==
    ASSUME NEW E, NEW X \in Seq(E), NEW Z \in Seq(E), NEW e \in E, NEW m \in E,
           Concerns(e), Concerns(m), About(m) = About(e),
           NEW reqs, InLine(X \o <<e>> \o Z, reqs)
    PROVE  InLine(X \o <<m>> \o Z, reqs)
<1> DEFINE L == X \o <<e>> \o Z
           M == X \o <<m>> \o Z
           x == Len(X)
           z == Len(Z)
<1>1. <<e>> \in Seq(E) /\ Len(<<e>>) = 1 /\ <<e>>[1] = e
      /\ <<m>> \in Seq(E) /\ Len(<<m>>) = 1 /\ <<m>>[1] = m
    BY Two
<1>2. /\ DOMAIN L = 1..(x + 1 + z) /\ \A i \in 1..x : L[i] = X[i]
      /\ L[x + 1] = e /\ \A i \in 1..z : L[x + 1 + i] = Z[i]
    BY <1>1, Three
<1>3. /\ DOMAIN M = 1..(x + 1 + z) /\ \A i \in 1..x : M[i] = X[i]
      /\ M[x + 1] = m /\ \A i \in 1..z : M[x + 1 + i] = Z[i]
    BY <1>1, Three
<1>4. x \in Nat /\ z \in Nat /\ InLine(L, reqs)
    OBVIOUS
<1> HIDE DEF L, M, x, z
<1>5. ASSUME NEW i \in 1..(x + 1 + z)
      PROVE  \/ M[i] = L[i]
             \/ i = x + 1
    <2>1. CASE i <= x
        BY <2>1, <1>2, <1>3, <1>4
    <2>2. CASE i > x + 1
        <3> DEFINE k == i - x - 1
        <3>1. k \in 1..z /\ x + 1 + k = i
            BY <2>2, <1>4
        <3> HIDE DEF k
        <3> QED  BY <3>1, <1>2, <1>3
    <2> QED  BY <2>1, <2>2, <1>4
<1>6. \A i \in 1..(x + 1 + z) : Concerns(M[i]) <=> Concerns(L[i])
    BY <1>2, <1>3, <1>5
<1>7. \A i \in 1..(x + 1 + z) : About(M[i]) = About(L[i])
    BY <1>2, <1>3, <1>5
<1> DEFINE f == [j \in 1..(x + 1 + z) |-> j]
<1>8. \A j \in 1..(x + 1 + z) : f[j] = j
    OBVIOUS
<1> HIDE DEF f
<1>9. 1..(x + 1 + z) \subseteq Int
    BY <1>4
<1>10. DOMAIN L = 1..(x + 1 + z) /\ DOMAIN M = 1..(x + 1 + z)
    BY <1>2, <1>3
<1>11. \A j \in DOMAIN M : Concerns(M[j]) =>
          f[j] \in DOMAIN L /\ Concerns(L[f[j]]) /\ About(L[f[j]]) = About(M[j])
    BY <1>6, <1>7, <1>8, <1>10
<1>12. \A i \in DOMAIN L : Concerns(L[i]) => \E j \in DOMAIN M : Concerns(M[j]) /\ f[j] = i
    BY <1>6, <1>8, <1>10
<1>13. \A i, j \in DOMAIN M : Concerns(M[i]) /\ Concerns(M[j]) /\ i < j => f[i] < f[j]
    BY <1>8, <1>10
<1> HIDE DEF L, M
<1>14. InLine(M, reqs)
    BY <1>4, <1>9, <1>10, <1>11, <1>12, <1>13, Remap
<1> QED
    BY <1>14 DEF M

\* A new request joins the line at its end.
LEMMA Joined ==
    ASSUME NEW E, NEW L \in Seq(E), NEW e \in E, NEW R, NEW A \in Seq(R), NEW a \in R,
           InLine(L, A), \A k \in DOMAIN A : A[k].id # a.id,
           Concerns(e) <=> a.ask \in Wanting, About(e) = a.id
    PROVE  InLine(Append(L, e), Append(A, a))
<1> DEFINE M == Append(L, e)
           B == Append(A, a)
           n == Len(L)
           c == Len(A)
<1>1. /\ DOMAIN L = 1..n /\ DOMAIN M = 1..(n + 1) /\ M[n + 1] = e
      /\ \A i \in 1..n : M[i] = L[i]
      /\ DOMAIN A = 1..c /\ DOMAIN B = 1..(c + 1) /\ B[c + 1] = a
      /\ \A k \in 1..c : B[k] = A[k]
      /\ n \in Nat /\ c \in Nat
    OBVIOUS
<1> HIDE DEF M, B, n, c
<1>2. ASSUME NEW i \in 1..n, Concerns(L[i])
      PROVE  About(L[i]) # a.id
    BY <1>1, <1>2 DEF InLine
<1>3. \A i \in DOMAIN M : Concerns(M[i]) =>
          \E k \in DOMAIN B : B[k].ask \in Wanting /\ B[k].id = About(M[i])
    <2>1. ASSUME NEW i \in 1..n, Concerns(M[i])
          PROVE  \E k \in DOMAIN B : B[k].ask \in Wanting /\ B[k].id = About(M[i])
        <3>1. PICK k \in 1..c : A[k].ask \in Wanting /\ A[k].id = About(L[i])
            BY <2>1, <1>1 DEF InLine
        <3> QED  BY <3>1, <1>1, SMTT(30)
    <2>2. c + 1 \in DOMAIN B /\ \A i \in DOMAIN M : i \in 1..n \/ i = n + 1
        BY <1>1
    <2> QED  BY <2>1, <2>2, <1>1
<1>4. \A k \in DOMAIN B : B[k].ask \in Wanting =>
          \E i \in DOMAIN M : Concerns(M[i]) /\ About(M[i]) = B[k].id
    <2>1. ASSUME NEW k \in 1..c, B[k].ask \in Wanting
          PROVE  \E i \in DOMAIN M : Concerns(M[i]) /\ About(M[i]) = B[k].id
        <3>1. PICK i \in 1..n : Concerns(L[i]) /\ About(L[i]) = A[k].id
            BY <2>1, <1>1 DEF InLine
        <3> QED  BY <3>1, <1>1
    <2>2. n + 1 \in DOMAIN M /\ \A k \in DOMAIN B : k \in 1..c \/ k = c + 1
        BY <1>1
    <2> QED  BY <2>1, <2>2, <1>1
<1>5. ASSUME NEW i \in DOMAIN M, NEW k \in DOMAIN B, Concerns(M[i]), About(M[i]) = B[k].id
      PROVE  \/ i \in 1..n /\ k \in 1..c /\ Concerns(L[i]) /\ About(L[i]) = A[k].id
             \/ i = n + 1 /\ k = c + 1
    <2>1. (i \in 1..n \/ i = n + 1) /\ (k \in 1..c \/ k = c + 1)
        BY <1>1
    <2> QED  BY <2>1, <1>1, <1>2, <1>5
<1>6. ASSUME NEW i \in DOMAIN M, NEW j \in DOMAIN M, NEW k \in DOMAIN B, NEW l \in DOMAIN B,
             Concerns(M[i]), About(M[i]) = B[k].id, Concerns(M[j]), About(M[j]) = B[l].id
      PROVE  i < j <=> k < l
    <2>1. CASE i \in 1..n /\ j \in 1..n
        <3>1. n + 1 \notin 1..n
            BY <1>1
        <3>2. /\ k \in 1..c /\ Concerns(L[i]) /\ About(L[i]) = A[k].id
              /\ l \in 1..c /\ Concerns(L[j]) /\ About(L[j]) = A[l].id
            BY <3>1, <2>1, <1>5, <1>6
        <3> QED  BY <3>2, <2>1, <1>1 DEF InLine
    <2>2. CASE i = n + 1 \/ j = n + 1
        <3>1. /\ (i \in 1..n /\ k \in 1..c) \/ (i = n + 1 /\ k = c + 1)
              /\ (j \in 1..n /\ l \in 1..c) \/ (j = n + 1 /\ l = c + 1)
            BY <1>5, <1>6
        <3> QED  BY <3>1, <2>2, <1>1
    <2> QED  BY <2>1, <2>2, <1>1
<1> QED
    BY <1>3, <1>4, <1>6 DEF InLine, M, B

---------------------------------------------------------------------------
(* What the hooks answer.                                                  *)

\* The best rule of a packet for which one rule alone scores.
LEMMA OneRule ==
    ASSUME NEW p, NEW i \in 1..7, Score(my_filter[i].rule, p) \in Nat \ {0},
           \A j \in 1..7 \ {i} : Score(my_filter[j].rule, p) = 0
    PROVE  Hooks(p) # {}
<1>1. \A j \in 1..7 : Score(my_filter[j].rule, p) <= Score(my_filter[i].rule, p)
    OBVIOUS
<1>2. my_filter[i].hook \in Hooks(p)
    BY <1>1, FilterSubtypes DEF Hooks
<1> QED
    BY <1>2

\* A ping and a message find their hook.
LEMMA PingHooked ==
    ASSUME NEW r PROVE Hooks(Iq("get", r, "ping")) # {}
<1> DEFINE p == Iq("get", r, "ping")
<1>1. /\ p["type"] = "iq" /\ p["subtype"] = "get" /\ p["ns"] = "ping"
    BY DEF Iq
<1>2. my_filter[5].rule = [type |-> "iq", subtype |-> "get", id |-> AnyValue, ns |-> "ping",
                           from |-> AnyValue, partial |-> AnyValue]
    BY DEF my_filter, Rule, NoRule
<1> HIDE DEF p
<1>3. Score(my_filter[5].rule, p) = 7
    BY <1>1, <1>2 DEF Score, AnyValue
<1>4. \A j \in 1..7 \ {5} : Score(my_filter[j].rule, p) = 0
    <2>1. ASSUME NEW j \in 1..7 \ {5} PROVE my_filter[j].rule["subtype"] \notin {AnyValue, "get"}
        BY FilterSubtypes DEF AnyValue
    <2> QED  BY <2>1, <1>1, FilterSubtypes, OtherSubtype
<1> QED
    BY <1>3, <1>4, OneRule DEF p

LEMMA MessageHooked ==
    ASSUME NEW r PROVE Hooks([Iq("normal", r, None) EXCEPT !.type = "message"]) # {}
<1> DEFINE p == [Iq("normal", r, None) EXCEPT !.type = "message"]
<1>1. /\ p["type"] = "message" /\ p["subtype"] = "normal"
    BY DEF Iq
<1>2. my_filter[7].rule = [type |-> "message", subtype |-> "normal", id |-> AnyValue,
                           ns |-> AnyValue, from |-> AnyValue, partial |-> AnyValue]
    BY DEF my_filter, Rule, NoRule
<1> HIDE DEF p
<1>3. Score(my_filter[7].rule, p) = 3
    BY <1>1, <1>2 DEF Score, AnyValue
<1>4. \A j \in 1..7 \ {7} : Score(my_filter[j].rule, p) = 0
    <2>1. ASSUME NEW j \in 1..7 \ {7}
          PROVE  my_filter[j].rule["subtype"] \notin {AnyValue, "normal"}
        BY FilterSubtypes DEF AnyValue
    <2> QED  BY <2>1, <1>1, FilterSubtypes, OtherSubtype
<1> QED
    BY <1>3, <1>4, OneRule DEF p

\* What a request makes the device send: one answer, about the request, if it
\* wants one, else nothing.
LEMMA RequestAnswered ==
    ASSUME NEW r \in Requests, NEW a \in Asks, NEW h \in Hooks(Request(r, a).pak)
    PROVE  IF a \in Wanting
           THEN \E m \in DeviceEls : /\ Sends(h, Request(r, a).pak, a) = <<m>>
                                     /\ Concerns(m) /\ About(m) = r
           ELSE Sends(h, Request(r, a).pak, a) = <<>>
<1> DEFINE p == Request(r, a).pak
<1>1. r \in Ids /\ None \in Ids /\ p.id = r
    BY DEF Ids, Request, Pak, Iq
<1>2. ASSUME NEW n \in {"pong", "receipt", "async"}, NEW i \in Ids, NEW l \in Ids
      PROVE  /\ Reply(n, i, l) \in DeviceEls /\ Concerns(Reply(n, i, l))
             /\ About(Reply(n, i, l)) = IF n = "async" THEN l ELSE i
    <2>1. Reply(n, i, l).name = n /\ Reply(n, i, l).id = i /\ Reply(n, i, l).linkid = l
        BY DEF Reply
    <2> QED  BY <2>1, ReplyType DEF Concerns, About
<1>3. CASE a = "ping"
    <2>1. p["subtype"] = "get"
        BY <1>3 DEF Request, Pak, Iq
    <2>2. h = "on_ping"
        BY <2>1, HookBySubtype
    <2>3. Sends(h, p, a) = <<Reply("pong", p.id, None)>>
        BY <2>2 DEF Sends, on_ping
    <2>4. Sends(h, p, a) = <<Reply("pong", r, None)>>
        BY <2>3, <1>1
    <2> QED  BY <2>4, <1>1, <1>2, <1>3 DEF Wanting
<1>4. CASE a = "time"
    <2>1. p["subtype"] = "set"
        BY <1>4 DEF Request, Pak, Iq
    <2>2. h = "on_time"
        BY <2>1, HookBySubtype
    <2> QED  BY <2>2, <1>4 DEF Sends, Wanting
<1>5. CASE a \notin {"ping", "time"}
    <2>1. p["subtype"] = "normal"
        BY <1>5 DEF Request, Pak, Iq
    <2>2. h = "on_message"
        BY <2>1, HookBySubtype
    <2>3. Sends(h, p, a) = on_message(p, a)
        BY <2>2 DEF Sends
    <2>4. CASE a = "switch"
        <3>1. Sends(h, p, a) = <<Reply("receipt", r, r)>>
            BY <2>3, <2>4, <1>1 DEF on_message
        <3> QED  BY <3>1, <1>1, <1>2, <2>4 DEF Wanting
    <2>5. CASE a = "commamd"
        <3>1. Sends(h, p, a) = <<Reply("receipt", r, None)>>
            BY <2>3, <2>5, <1>1 DEF on_message
        <3> QED  BY <3>1, <1>1, <1>2, <2>5 DEF Wanting
    <2>6. CASE a = "async"
        <3>1. Sends(h, p, a) = <<Reply("async", None, r)>>
            BY <2>3, <2>6, <1>1 DEF on_message
        <3> QED  BY <3>1, <1>1, <1>2, <2>6 DEF Wanting
    <2>7. CASE a \notin {"switch", "commamd", "async"}
        BY <2>3, <2>7, <1>5 DEF on_message, Wanting
    <2> QED  BY <2>4, <2>5, <2>6, <2>7
<1> QED
    BY <1>3, <1>4, <1>5

\* And it finds a hook, if it wants an answer.
LEMMA RequestHooked ==
    ASSUME NEW r \in Requests, NEW a \in Wanting PROVE Hooks(Request(r, a).pak) # {}
<1>1. CASE a = "ping"
    <2>1. Request(r, a).pak = Iq("get", r, "ping")
        BY <1>1 DEF Request, Pak
    <2> QED  BY <2>1, PingHooked
<1>2. CASE a # "ping"
    <2>1. Request(r, a).pak = [Iq("normal", r, None) EXCEPT !.type = "message"]
        BY <1>2 DEF Request, Pak, Wanting
    <2> QED  BY <2>1, MessageHooked
<1> QED
    BY <1>1, <1>2

\* Results and errors make the device send nothing that answers a request.
LEMMA ResultsUnanswered ==
    ASSUME NEW p \in Paks, p.subtype \in {"result", "error"}, NEW h \in Hooks(p), NEW ask
    PROVE  \A i \in 1..Len(Sends(h, p, ask)) : ~Concerns(Sends(h, p, ask)[i])
<1>1. h \in {"on_result", "on_roster", "on_bing", "on_error"}
    BY HookBySubtype
<1>2. p.id \in Ids
    BY DEF Paks
<1> DEFINE ses == [name |-> "session", id |-> p.id]
<1>3. ses \in DeviceEls /\ El("presence") \in DeviceEls /\ El("info") \in DeviceEls
    BY <1>2, SessionType, Names
<1>4. ~Concerns(ses) /\ ~Concerns(El("presence")) /\ ~Concerns(El("info"))
    BY DEF Concerns, El
<1>5. CASE h = "on_result"
    <2>1. Sends(h, p, ask) = <<El("presence"), El("info")>>
        BY <1>3, <1>5, Chain DEF Sends, on_result, on_presence
    <2> QED  BY <2>1, <1>4
<1>6. CASE h = "on_bing"
    <2>1. Sends(h, p, ask) = <<ses, El("presence")>>
        BY <1>3, <1>6, Chain DEF Sends, on_bing, on_presence
    <2> HIDE DEF ses
    <2> QED  BY <2>1, <1>4
<1>7. CASE h \in {"on_roster", "on_error"}
    <2>1. Sends(h, p, ask) = <<>>
        BY <1>7 DEF Sends
    <2> QED  BY <2>1
<1> QED
    BY <1>1, <1>5, <1>6, <1>7

---------------------------------------------------------------------------
(* The steps keep the line.                                                *)

\* All that is in the line.
Els == DeviceEls \union ServerEls

\* What concerns no request.
Silent(els) == els \in Seq(Els) /\ \A i \in 1..Len(els) : ~Concerns(els[i])

\* A packet under way to the device is a request, or answers the device.
Proper(e) == e.name = "packet" =>
    \/ \E r \in Requests, a \in Asks : e = Request(r, a)
    \/ e.ask = None /\ e.pak.subtype \in {"result", "error"}

Line == answers \o toServer \o toDevice

LineInv ==
    /\ TypeOK
    /\ link = "connecting" => asked = <<>> /\ answers = <<>> /\ toDevice = <<>>
    /\ link = "up" => /\ InLine(Line, asked)
                      /\ \A i \in 1..Len(toDevice) : Proper(toDevice[i])

LEMMA LineTypes ==
    /\ TypeOK => answers \in Seq(Els) /\ toServer \in Seq(Els) /\ toDevice \in Seq(Els)
    /\ TypeOK' => answers' \in Seq(Els) /\ toServer' \in Seq(Els) /\ toDevice' \in Seq(Els)
<1>1. DeviceEls \subseteq Els /\ ServerEls \subseteq Els /\ Replies \subseteq Els
    BY DEF Els, DeviceEls
<1>2. \A s \in Seq(DeviceEls) \union Seq(ServerEls) \union Seq(Replies) : s \in Seq(Els)
    BY <1>1, SeqMonotonic
<1> QED
    BY <1>2 DEF TypeOK

\* A channel is its first element and the rest.
LEMMA FirstAndRest ==
    ASSUME NEW E, NEW s \in Seq(E), s # <<>>
    PROVE  /\ Head(s) \in E /\ Tail(s) \in Seq(E) /\ <<Head(s)>> \in Seq(E)
           /\ s = <<Head(s)>> \o Tail(s)
<1> DEFINE h == Head(s)
           t == Tail(s)
<1>1. /\ h = s[1] /\ h \in E /\ t \in Seq(E) /\ Len(s) \in Nat \ {0} /\ Len(t) = Len(s) - 1
      /\ \A i \in 1..Len(t) : t[i] = s[i + 1]
    BY Take
<1> HIDE DEF h, t
<1> DEFINE u == <<h>> \o t
<1>2. /\ u \in Seq(E) /\ Len(u) = 1 + Len(t) /\ <<h>> \in Seq(E)
      /\ \A i \in 1..Len(u) : u[i] = IF i <= 1 THEN h ELSE t[i - 1]
    BY <1>1, Two, Put
<1> HIDE DEF u
<1>3. Len(u) = Len(s)
    BY <1>1, <1>2
<1>4. ASSUME NEW i \in 1..Len(s) PROVE u[i] = s[i]
    <2>1. CASE i = 1
        BY <2>1, <1>1, <1>2, <1>3
    <2>2. CASE i > 1
        <3>1. i - 1 \in 1..Len(t) /\ (i - 1) + 1 = i
            BY <2>2, <1>1
        <3>2. t[i - 1] = s[i]
            BY <3>1, <1>1
        <3> QED  BY <3>2, <2>2, <1>2, <1>3
    <2> QED  BY <2>1, <2>2, <1>1
<1>5. s = u
    BY <1>2, <1>3, <1>4, SeqEqual
<1> QED
    BY <1>1, <1>2, <1>5 DEF u, h, t

LEMMA Regroup ==
    /\ \A s, t \in Seq(Els) : s \o t \in Seq(Els)
    /\ \A s, t, u \in Seq(Els) : (s \o t) \o u = s \o (t \o u)
<1>1. ASSUME NEW s \in Seq(Els), NEW t \in Seq(Els) PROVE s \o t \in Seq(Els)
    BY ConcatProperties
<1>2. ASSUME NEW s \in Seq(Els), NEW t \in Seq(Els), NEW u \in Seq(Els)
      PROVE  (s \o t) \o u = s \o (t \o u)
    BY ConcatAssociative
<1> QED
    BY <1>1, <1>2

LEMMA SilentNothing == Silent(<<>>)
    BY DEF Silent

LEMMA SilentOne == ASSUME NEW e \in Els, ~Concerns(e) PROVE Silent(<<e>>)
    BY Two DEF Silent

\* The device takes what concerns no request, and sends only such.
LEMMA PassesBy ==
    ASSUME NEW P \in Seq(Els), NEW S \in Seq(Els), NEW D \in Seq(Els), D # <<>>,
           ~Concerns(Head(D)), NEW els, Silent(els), NEW reqs, InLine(P \o S \o D, reqs)
    PROVE  InLine(P \o (S \o els) \o Tail(D), reqs)
<1> DEFINE h == Head(D)
           t == Tail(D)
           X == P \o S
<1>1. h \in Els /\ t \in Seq(Els) /\ <<h>> \in Seq(Els) /\ D = <<h>> \o t
    BY FirstAndRest
<1>2. X \in Seq(Els) /\ els \in Seq(Els)
    BY Regroup DEF Silent
<1>3. Silent(<<h>>)
    BY <1>1, SilentOne
<1>4. P \o (S \o els) = X \o els
    BY <1>2, Regroup, SMTT(30)
<1>5. InLine(X \o D, reqs)
    OBVIOUS
<1> HIDE DEF h, t, X
<1>6. X \o D = X \o <<h>> \o t
    <2>1. (X \o <<h>>) \o t = X \o (<<h>> \o t)
        BY <1>1, <1>2, Regroup
    <2> QED  BY <1>1, <2>1
<1>7. InLine(X \o <<h>> \o t, reqs)
    BY <1>5, <1>6
<1>8. InLine(X \o els \o t, reqs)
    BY <1>1, <1>2, <1>3, <1>7, Replaced DEF Silent
<1> QED
    BY <1>4, <1>8 DEF t

\* The device takes a request and sends the answer.
LEMMA Answered ==
    ASSUME NEW P \in Seq(Els), NEW S \in Seq(Els), NEW D \in Seq(Els), D # <<>>,
           Concerns(Head(D)), NEW m \in Els, Concerns(m), About(m) = About(Head(D)),
           NEW reqs, InLine(P \o S \o D, reqs)
    PROVE  InLine(P \o (S \o <<m>>) \o Tail(D), reqs)
<1> DEFINE h == Head(D)
           t == Tail(D)
           X == P \o S
<1>1. h \in Els /\ t \in Seq(Els) /\ <<h>> \in Seq(Els) /\ D = <<h>> \o t
    BY FirstAndRest
<1>2. X \in Seq(Els) /\ <<m>> \in Seq(Els)
    BY Regroup, Two
<1>3. P \o (S \o <<m>>) = X \o <<m>>
    BY <1>2, Regroup
<1>4. InLine(X \o D, reqs) /\ Concerns(h) /\ About(m) = About(h)
    OBVIOUS
<1> HIDE DEF h, t, X
<1>5. X \o D = X \o <<h>> \o t
    BY <1>1, <1>2, Regroup, SMTT(30)
<1>6. InLine(X \o <<h>> \o t, reqs)
    BY <1>4, <1>5
<1>7. InLine(X \o <<m>> \o t, reqs)
    BY <1>1, <1>2, <1>4, <1>6, Swapped
<1> QED
    BY <1>3, <1>7 DEF t

\* The server takes an answer: the line is the same.
LEMMA AnswerTaken ==
    ASSUME NEW P \in Seq(Els), NEW S \in Seq(Els), NEW D \in Seq(Els), S # <<>>
    PROVE  Append(P, Head(S)) \o Tail(S) \o D = P \o S \o D
<1> DEFINE h == Head(S)
           t == Tail(S)
<1>1. h \in Els /\ t \in Seq(Els) /\ <<h>> \in Seq(Els) /\ S = <<h>> \o t
    BY FirstAndRest
<1> HIDE DEF h, t
<1>2. Append(P, h) = P \o <<h>>
    BY <1>1, AppendIsConcat
<1>3. (P \o <<h>>) \o t = P \o S
    BY <1>1, Regroup
<1> QED
    BY <1>2, <1>3 DEF h, t

\* The server takes what concerns no request.
LEMMA SilenceTaken ==
    ASSUME NEW P \in Seq(Els), NEW S \in Seq(Els), NEW D \in Seq(Els), S # <<>>,
           ~Concerns(Head(S)), NEW reqs, InLine(P \o S \o D, reqs)
    PROVE  InLine(P \o Tail(S) \o D, reqs)
<1> DEFINE h == Head(S)
           t == Tail(S)
           Z == t \o D
<1>1. h \in Els /\ t \in Seq(Els) /\ <<h>> \in Seq(Els) /\ S = <<h>> \o t
    BY FirstAndRest
<1>2. Silent(<<h>>) /\ Silent(<<>>)
    BY <1>1, SilentOne, SilentNothing
<1> HIDE DEF h, t
<1>3. Z \in Seq(Els) /\ P \o <<h>> \in Seq(Els)
    BY <1>1, Regroup
<1>4. P \o S = (P \o <<h>>) \o t
    BY <1>1, Regroup, SMTT(30)
<1>5. ((P \o <<h>>) \o t) \o D = (P \o <<h>>) \o Z
    BY <1>1, <1>3, Regroup, SMTT(30)
<1>6. (P \o t) \o D = P \o Z
    BY <1>1, Regroup
<1> HIDE DEF Z
<1>7. InLine(P \o <<h>> \o Z, reqs)
    BY <1>4, <1>5
<1>8. InLine(P \o <<>> \o Z, reqs)
    BY <1>2, <1>3, <1>7, Replaced DEF Silent
<1>9. P \o <<>> = P
    BY ConcatEmptySeq
<1> QED
    BY <1>6, <1>8, <1>9 DEF t

\* What concerns no request joins the line at its end.
LEMMA SilenceJoins ==
    ASSUME NEW P \in Seq(Els), NEW S \in Seq(Els), NEW D \in Seq(Els), NEW els, Silent(els),
           NEW reqs, InLine(P \o S \o D, reqs)
    PROVE  InLine(P \o S \o (D \o els), reqs)
<1> DEFINE X == P \o S
           L == X \o D
<1>1. X \in Seq(Els) /\ L \in Seq(Els) /\ els \in Seq(Els) /\ L \o els \in Seq(Els)
    BY Regroup DEF Silent
<1>2. X \o (D \o els) = L \o els
    BY <1>1, Regroup, SMTT(30)
<1>3. InLine(L, reqs)
    OBVIOUS
<1> HIDE DEF X, L
<1>4. L \o <<>> \o <<>> = L /\ L \o els \o <<>> = L \o els
    BY <1>1, ConcatEmptySeq
<1>5. InLine(L \o <<>> \o <<>>, reqs)
    BY <1>3, <1>4
<1>6. <<>> \in Seq(Els)
    OBVIOUS
<1>7. InLine(L \o els \o <<>>, reqs)
    BY <1>1, <1>5, <1>6, SilentNothing, Replaced DEF Silent
<1> QED
    BY <1>2, <1>4, <1>7 DEF X

\* The names of elements that concern no request.
LEMMA NamedSilent ==
    ASSUME NEW e, e.name \notin {"pong", "receipt", "async", "packet"} PROVE ~Concerns(e)
    BY DEF Concerns

\* What on_stream sends for an element other than a packet concerns no request.
LEMMA StreamSilent ==
    ASSUME TypeOK, NEW e \in ServerEls,
           \/ e.name = "start" /\ UNCHANGED toServer
           \/ OnFeatures(e) \/ OnChallenge(e) \/ OnSuccess(e) \/ OnError(e)
    PROVE  /\ e.name \notin {"pong", "receipt", "async", "packet"}
           /\ \E els : Silent(els) /\ toServer' = toServer \o els
<1>1. e.name \notin {"pong", "receipt", "async", "packet"}
    BY DEF OnFeatures, OnChallenge, OnSuccess, OnError
<1>2. ASSUME NEW n \in {"header", "response", "bind"} PROVE Silent(<<El(n)>>) /\ El(n) \in DeviceEls
    <2>1. El(n) \in Els /\ El(n).name = n /\ El(n) \in DeviceEls
        BY <1>2, Names DEF El, Els
    <2> QED  BY <2>1, <1>2, NamedSilent, SilentOne
<1>3. CASE UNCHANGED toServer
    <2>1. toServer' = toServer \o <<>>
        BY <1>3, ConcatEmptySeq DEF TypeOK
    <2> QED  BY <2>1, <1>1, SilentNothing
<1>4. CASE OnFeatures(e) /\ authorized
    <2> DEFINE ses == [name |-> "session", id |-> "auth"]
               b == IF "bind" \in e.offers THEN <<El("bind")>> ELSE <<>>
               t == IF "session" \in e.offers THEN <<ses>> ELSE <<>>
    <2>1. ses \in Els /\ ses.name = "session"
        BY SessionType DEF Ids, Els
    <2>2. Silent(<<ses>>)
        BY <2>1, NamedSilent, SilentOne
    <2>3. Silent(b) /\ Silent(t)
        BY <2>2, <1>2, SilentNothing
    <2>4. toServer' = toServer \o (b \o t)
        BY <1>4 DEF OnFeatures, StartServices, Send
    <2> HIDE DEF b, t
    <2>5. Silent(b \o t)
        <3>1. /\ b \in Seq(Els) /\ t \in Seq(Els)
              /\ \A i \in 1..Len(b) : ~Concerns(b[i])
              /\ \A i \in 1..Len(t) : ~Concerns(t[i])
            BY <2>3 DEF Silent
        <3>2. /\ b \o t \in Seq(Els) /\ Len(b \o t) = Len(b) + Len(t)
              /\ \A i \in 1..Len(b \o t) : (b \o t)[i] = IF i <= Len(b) THEN b[i] ELSE t[i - Len(b)]
            BY <3>1, Put
        <3>3. ASSUME NEW i \in 1..Len(b \o t) PROVE ~Concerns((b \o t)[i])
            <4>1. CASE i <= Len(b)
                BY <4>1, <3>1, <3>2
            <4>2. CASE i > Len(b)
                <5>1. i - Len(b) \in 1..Len(t)
                    BY <4>2, <3>1, <3>2
                <5> QED  BY <5>1, <4>2, <3>1, <3>2
            <4> QED  BY <4>1, <4>2, <3>1, <3>2
        <3> QED  BY <3>2, <3>3 DEF Silent
    <2> QED  BY <2>4, <2>5, <1>1
<1>5. CASE OnFeatures(e) /\ ~authorized
    <2>1. ASSUME NEW k \in {"md5", "plain"} PROVE Silent(<<[name |-> "auth", mech |-> k]>>)
        <3> DEFINE a == [name |-> "auth", mech |-> k]
        <3>1. a \in Els /\ a.name = "auth"
            BY DEF DeviceEls, Els
        <3> HIDE DEF a
        <3>2. Silent(<<a>>)
            BY <3>1, NamedSilent, SilentOne
        <3> QED  BY <3>2 DEF a
    <2>2. \/ toServer' = toServer \o <<[name |-> "auth", mech |-> "md5"]>>
          \/ toServer' = toServer \o <<[name |-> "auth", mech |-> "plain"]>>
          \/ toServer' = toServer \o <<>>
        BY <1>5 DEF OnFeatures, StartSasl, Send
    <2> QED  BY <2>1, <2>2, <1>1, SilentNothing
<1>6. CASE OnChallenge(e) /\ ~UNCHANGED toServer
    <2>1. toServer' = toServer \o <<El("response")>>
        BY <1>6 DEF OnChallenge, Send
    <2> QED  BY <2>1, <1>1, <1>2
<1>7. CASE OnSuccess(e)
    <2>1. toServer' = toServer \o <<El("header")>>
        BY <1>7 DEF OnSuccess, Send
    <2> QED  BY <2>1, <1>1, <1>2
<1> QED
    BY <1>3, <1>4, <1>5, <1>6, <1>7 DEF OnError

\* The device takes an element: the line stays in order.
LEMMA RecvInLine ==
    ASSUME LineInv, TypeOK', ec_recv
    PROVE  InLine(Line', asked') /\ \A i \in 1..Len(toDevice') : Proper(toDevice'[i])
<1> DEFINE e == Head(toDevice)
<1>1. /\ TypeOK /\ link = "up" /\ toDevice # <<>> /\ toDevice' = Tail(toDevice)
      /\ answers' = answers /\ asked' = asked
      /\ InLine(Line, asked) /\ \A i \in 1..Len(toDevice) : Proper(toDevice[i])
    BY DEF LineInv, ec_recv, server
<1>2. /\ e = toDevice[1] /\ e \in ServerEls /\ Len(toDevice) \in Nat \ {0}
      /\ Len(Tail(toDevice)) = Len(toDevice) - 1
      /\ \A i \in 1..Len(Tail(toDevice)) : Tail(toDevice)[i] = toDevice[i + 1]
    BY <1>1, Take DEF TypeOK
<1>3. \A i \in 1..Len(toDevice') : Proper(toDevice'[i])
    <2>1. \A i \in 1..Len(toDevice') : i + 1 \in 1..Len(toDevice)
        BY <1>1, <1>2
    <2> QED  BY <2>1, <1>1, <1>2
<1>4. Proper(e)
    BY <1>1, <1>2
<1>5. answers \in Seq(Els) /\ toServer \in Seq(Els) /\ toDevice \in Seq(Els)
    BY <1>1, LineTypes
<1>6. ASSUME ~Concerns(e), NEW els, Silent(els), toServer' = toServer \o els
      PROVE  InLine(Line', asked')
    <2>1. InLine(answers \o (toServer \o els) \o Tail(toDevice), asked)
        BY <1>1, <1>5, <1>6, PassesBy DEF Line
    <2> QED  BY <2>1, <1>1, <1>6 DEF Line
<1>7. CASE ~OnPacket(e)
    <2>1. \/ e.name = "start" /\ UNCHANGED toServer
          \/ OnFeatures(e) \/ OnChallenge(e) \/ OnSuccess(e) \/ OnError(e)
        BY <1>7 DEF ec_recv
    <2> HIDE DEF e
    <2>2. PICK els : Silent(els) /\ toServer' = toServer \o els
        BY <2>1, <1>1, <1>2, StreamSilent
    <2>3. ~Concerns(e)
        BY <2>1, <1>1, <1>2, StreamSilent, NamedSilent
    <2> QED  BY <2>2, <2>3, <1>3, <1>6
<1>8. CASE OnPacket(e) /\ e.ask = None /\ e.pak.subtype \in {"result", "error"}
    <2>1. ~Concerns(e)
        BY <1>8 DEF OnPacket, Concerns, Wanting, None
    <2>2. e.pak \in Paks
        BY <1>2, <1>8 DEF OnPacket, ServerEls
    <2>3. CASE UNCHANGED toServer
        <3>1. toServer' = toServer \o <<>>
            BY <2>3, <1>5, ConcatEmptySeq
        <3> QED  BY <3>1, <2>1, <1>3, <1>6, SilentNothing
    <2>4. CASE ~UNCHANGED toServer
        <3>1. PICK h \in Hooks(e.pak) : Send(Sends(h, e.pak, e.ask))
            BY <2>4, <1>8 DEF OnPacket
        <3> DEFINE els == Sends(h, e.pak, e.ask)
        <3>2. els \in Seq(DeviceEls)
            BY <2>2, SendsType
        <3>3. \A i \in 1..Len(els) : ~Concerns(els[i])
            BY <2>2, <1>8, ResultsUnanswered
        <3> HIDE DEF els
        <3>4. els \in Seq(Els)
            BY <3>2, SeqMonotonic DEF Els
        <3>5. Silent(els) /\ toServer' = toServer \o els
            BY <3>1, <3>3, <3>4 DEF Silent, Send, els
        <3> QED  BY <3>5, <2>1, <1>3, <1>6
    <2> QED  BY <2>3, <2>4
<1>9. CASE OnPacket(e) /\ \E r \in Requests, a \in Asks : e = Request(r, a)
    <2>1. PICK r \in Requests, a \in Asks : e = Request(r, a)
        BY <1>9
    <2>2. e.ask = a /\ e.name = "packet" /\ e.pak.id = r
        BY <2>1 DEF Request, Pak, Iq
    <2>3. About(e) = r /\ (Concerns(e) <=> a \in Wanting)
        BY <2>2 DEF About, Concerns
    <2>4. CASE a \in Wanting
        <3>1. PICK h \in Hooks(e.pak) : Send(Sends(h, e.pak, e.ask))
            BY <1>9, <2>1, <2>4, RequestHooked DEF OnPacket
        <3>2. PICK m \in DeviceEls : /\ Sends(h, e.pak, e.ask) = <<m>>
                                     /\ Concerns(m) /\ About(m) = r
            BY <3>1, <2>1, <2>2, <2>4, RequestAnswered
        <3>3. toServer' = toServer \o <<m>> /\ m \in Els
            BY <3>1, <3>2 DEF Send, Els
        <3>4. InLine(answers \o (toServer \o <<m>>) \o Tail(toDevice), asked)
            BY <1>1, <1>5, <3>2, <3>3, <2>3, <2>4, Answered DEF Line
        <3> QED  BY <3>3, <3>4, <1>1, <1>3 DEF Line
    <2>5. CASE a \notin Wanting
        <3>1. toServer' = toServer \o <<>>
            <4>1. ASSUME NEW h \in Hooks(e.pak), Send(Sends(h, e.pak, e.ask))
                  PROVE  toServer' = toServer \o <<>>
                BY <4>1, <2>1, <2>2, <2>5, RequestAnswered DEF Send
            <4>2. ASSUME UNCHANGED toServer PROVE toServer' = toServer \o <<>>
                BY <4>2, <1>5, ConcatEmptySeq
            <4> QED  BY <4>1, <4>2, <1>9 DEF OnPacket
        <3> QED  BY <3>1, <2>3, <2>5, <1>3, <1>6, SilentNothing
    <2> QED  BY <2>4, <2>5
<1> QED
    BY <1>4, <1>7, <1>8, <1>9 DEF Proper, OnPacket

\* What the server says while it negotiates concerns no request.
LEMMA AnswerSilent ==
    ASSUME NEW m \in DeviceEls, Negotiates(m)
    PROVE  /\ ~Concerns(m)
           /\ \E els : /\ Silent(els) /\ Answer(els)
                       /\ \A i \in 1..Len(els) : Proper(els[i])
<1>1. m.name \in {"header", "auth", "response", "bind", "session"}
    BY DEF Negotiates
<1>2. ~Concerns(m)
    BY <1>1, NamedSilent
<1>3. ASSUME NEW n \in {"start", "challenge", "blank", "success", "failure"}
      PROVE  El(n) \in Els /\ ~Concerns(El(n)) /\ Proper(El(n))
    <2>1. El(n) \in Els /\ El(n).name = n
        BY <1>3, Names DEF El, Els
    <2> QED  BY <2>1, <1>3, NamedSilent DEF Proper
<1>4. ASSUME NEW n \in {"challenge", "blank", "success", "failure"}, Answer(<<El(n)>>)
      PROVE  \E els : /\ Silent(els) /\ Answer(els)
                      /\ \A i \in 1..Len(els) : Proper(els[i])
    <2> DEFINE e == El(n)
    <2>1. e \in Els /\ ~Concerns(e) /\ Proper(e) /\ Answer(<<e>>)
        BY <1>3, <1>4
    <2> HIDE DEF e
    <2>2. Silent(<<e>>) /\ Len(<<e>>) = 1 /\ <<e>>[1] = e
        BY <2>1, SilentOne
    <2>3. \A i \in 1..Len(<<e>>) : Proper(<<e>>[i])
        BY <2>1, <2>2
    <2> QED  BY <2>1, <2>2, <2>3
<1>5. ASSUME NEW s \in Mechanisms \union Services, Answer(<<El("start"), Features(s)>>)
      PROVE  \E els : /\ Silent(els) /\ Answer(els)
                      /\ \A i \in 1..Len(els) : Proper(els[i])
    <2> DEFINE e == El("start")
               f == Features(s)
    <2>1. e \in Els /\ ~Concerns(e) /\ Proper(e)
        BY <1>3
    <2>2. f \in Els /\ f.name = "features"
        BY DEF Features, ServerEls, Els
    <2>3. ~Concerns(f) /\ Proper(f)
        BY <2>2, NamedSilent DEF Proper
    <2>4. Answer(<<e, f>>)
        BY <1>5
    <2> HIDE DEF e, f
    <2> DEFINE els == <<e, f>>
    <2>5. els \in Seq(Els) /\ Len(els) = 2 /\ els[1] = e /\ els[2] = f
        BY <2>1, <2>2, Two
    <2> HIDE DEF els
    <2>6. \A i \in 1..Len(els) : ~Concerns(els[i]) /\ Proper(els[i])
        BY <2>1, <2>3, <2>5
    <2> QED  BY <2>4, <2>5, <2>6 DEF Silent, els
<1>6. ASSUME NEW t \in {"result", "error"}, NEW i \in Ids, NEW n \in {None, "bind"},
             Answer(<<Pak(Iq(t, i, n), None)>>)
      PROVE  \E els : /\ Silent(els) /\ Answer(els)
                      /\ \A j \in 1..Len(els) : Proper(els[j])
    <2> DEFINE e == Pak(Iq(t, i, n), None)
    <2>1. Iq(t, i, n) \in Paks /\ Iq(t, i, n).subtype = t
        BY <1>6 DEF Iq, Paks
    <2>2. e \in Els /\ e.name = "packet" /\ e.ask = None /\ e.pak.subtype = t
        BY <2>1 DEF Pak, ServerEls, Els
    <2>3. Answer(<<e>>)
        BY <1>6
    <2> HIDE DEF e
    <2>4. ~Concerns(e) /\ Proper(e)
        BY <2>2, <1>6 DEF Concerns, Wanting, None, Proper
    <2>5. Silent(<<e>>) /\ Len(<<e>>) = 1 /\ <<e>>[1] = e
        BY <2>2, <2>4, SilentOne
    <2>6. \A j \in 1..Len(<<e>>) : Proper(<<e>>[j])
        BY <2>4, <2>5
    <2> QED  BY <2>3, <2>5, <2>6
<1>7. CASE m.name = "session"
    <2>1. m.id \in Ids /\ None \in Ids
        BY <1>7 DEF DeviceEls, Replies, Ids
    <2>2. \/ Answer(<<Pak(Iq("result", m.id, None), None)>>)
          \/ Answer(<<Pak(Iq("error", m.id, None), None)>>)
        BY <1>7 DEF Negotiates
    <2>3. \E els : /\ Silent(els) /\ Answer(els)
                   /\ \A j \in 1..Len(els) : Proper(els[j])
        BY <2>1, <2>2, <1>6
    <2> QED  BY <2>3, <1>2
<1>8. CASE m.name = "bind"
    <2>1. None \in Ids
        BY DEF Ids
    <2>2. \/ Answer(<<Pak(Iq("result", None, "bind"), None)>>)
          \/ Answer(<<Pak(Iq("error", None, "bind"), None)>>)
        BY <1>8 DEF Negotiates
    <2>3. \E els : /\ Silent(els) /\ Answer(els)
                   /\ \A j \in 1..Len(els) : Proper(els[j])
        BY <2>1, <2>2, <1>6
    <2> QED  BY <2>3, <1>2
<1>9. CASE m.name \notin {"session", "bind"}
    <2>1. \/ \E n \in {"success", "failure", "challenge", "blank"} : Answer(<<El(n)>>)
          \/ \E s \in Mechanisms \union Services : Answer(<<El("start"), Features(s)>>)
        BY <1>9 DEF Negotiates, Verdict, Challenges
    <2>2. \E els : /\ Silent(els) /\ Answer(els)
                   /\ \A j \in 1..Len(els) : Proper(els[j])
        BY <2>1, <1>4, <1>5
    <2> QED  BY <2>2, <1>2
<1> QED
    BY <1>7, <1>8, <1>9

\* What is under way stays proper, and what joins it is.
LEMMA ProperJoins ==
    ASSUME NEW D \in Seq(Els), NEW els \in Seq(Els), \A i \in 1..Len(D) : Proper(D[i]),
           \A i \in 1..Len(els) : Proper(els[i])
    PROVE  \A i \in 1..Len(D \o els) : Proper((D \o els)[i])
<1>1. /\ Len(D \o els) = Len(D) + Len(els) /\ Len(D) \in Nat /\ Len(els) \in Nat
      /\ \A i \in 1..Len(D \o els) :
            (D \o els)[i] = IF i <= Len(D) THEN D[i] ELSE els[i - Len(D)]
    BY Put
<1>2. ASSUME NEW i \in 1..Len(D \o els) PROVE Proper((D \o els)[i])
    <2>1. CASE i <= Len(D)
        BY <2>1, <1>1
    <2>2. CASE i > Len(D)
        <3>1. i - Len(D) \in 1..Len(els)
            BY <2>2, <1>1
        <3> QED  BY <3>1, <2>2, <1>1
    <2> QED  BY <2>1, <2>2, <1>1
<1> QED
    BY <1>2

\* The server takes an element: the line stays in order.
LEMMA TakesInLine ==
    ASSUME LineInv, TypeOK', ServerTakes
    PROVE  InLine(Line', asked') /\ \A i \in 1..Len(toDevice') : Proper(toDevice'[i])
<1> DEFINE m == Head(toServer)
<1>1. /\ TypeOK /\ toServer # <<>> /\ toServer' = Tail(toServer) /\ Takes(m) /\ asked' = asked
      /\ InLine(Line, asked) /\ \A i \in 1..Len(toDevice) : Proper(toDevice[i])
    BY DEF LineInv, ServerTakes
<1>2. m \in DeviceEls /\ m \in Els
    BY <1>1, Take DEF TypeOK, Els
<1>3. answers \in Seq(Els) /\ toServer \in Seq(Els) /\ toDevice \in Seq(Els)
    BY <1>1, LineTypes
<1>4. Tail(toServer) \in Seq(Els)
    BY <1>1, <1>3, FirstAndRest
<1>5. ASSUME ~Concerns(m), answers' = answers, NEW els, Silent(els), toDevice' = toDevice \o els,
             \A i \in 1..Len(els) : Proper(els[i])
      PROVE  InLine(Line', asked') /\ \A i \in 1..Len(toDevice') : Proper(toDevice'[i])
    <2>1. InLine(answers \o Tail(toServer) \o toDevice, asked)
        BY <1>1, <1>3, <1>5, SilenceTaken DEF Line
    <2>2. InLine(answers \o Tail(toServer) \o (toDevice \o els), asked)
        BY <2>1, <1>3, <1>4, <1>5, SilenceJoins
    <2>3. \A i \in 1..Len(toDevice \o els) : Proper((toDevice \o els)[i])
        BY <1>1, <1>3, <1>5, ProperJoins DEF Silent
    <2> QED  BY <2>2, <2>3, <1>1, <1>5 DEF Line
<1>6. CASE Negotiates(m) /\ answers' = answers
    <2>1. PICK els : /\ Silent(els) /\ Answer(els)
                     /\ \A i \in 1..Len(els) : Proper(els[i])
        BY <1>2, <1>6, AnswerSilent
    <2>2. ~Concerns(m) /\ toDevice' = toDevice \o els
        BY <2>1, <1>2, <1>6, AnswerSilent DEF Answer
    <2> HIDE DEF m
    <2> QED  BY <2>1, <2>2, <1>5, <1>6
<1>7. CASE m.name \in {"presence", "info"} /\ answers' = answers /\ toDevice' = toDevice
    <2>1. ~Concerns(m)
        BY <1>7, NamedSilent
    <2>2. toDevice' = toDevice \o <<>>
        BY <1>7, <1>3, ConcatEmptySeq
    <2>3. \A i \in 1..Len(<<>>) : Proper(<<>>[i])
        OBVIOUS
    <2> HIDE DEF m
    <2> QED  BY <2>1, <2>2, <2>3, <1>5, <1>7, SilentNothing
<1>8. CASE answers' = Append(answers, m) /\ toDevice' = toDevice
    <2>1. Line' = Append(answers, m) \o Tail(toServer) \o toDevice
        BY <1>1, <1>8 DEF Line
    <2>2. Line' = Line
        BY <2>1, <1>1, <1>3, AnswerTaken DEF Line
    <2> QED  BY <2>2, <1>1, <1>8
<1> QED
    BY <1>1, <1>6, <1>7, <1>8 DEF Takes

\* The server asks: the request joins the line.
LEMMA AsksInLine ==
    ASSUME LineInv, TypeOK', ServerAsks
    PROVE  InLine(Line', asked') /\ \A i \in 1..Len(toDevice') : Proper(toDevice'[i])
<1>1. /\ TypeOK /\ InLine(Line, asked) /\ \A i \in 1..Len(toDevice) : Proper(toDevice[i])
      /\ answers' = answers /\ toServer' = toServer
    BY DEF LineInv, ServerAsks
<1>2. PICK r \in Requests, a \in Asks :
          /\ \A i \in DOMAIN asked : asked[i].id # r
          /\ asked' = Append(asked, [id |-> r, ask |-> a])
          /\ Answer(<<Request(r, a)>>)
    BY DEF ServerAsks
<1> DEFINE e == Request(r, a)
           q == [id |-> r, ask |-> a]
<1>3. e \in Els /\ e.name = "packet" /\ e.ask = a /\ e.pak.id = r
    BY RequestType DEF Els, Request, Pak, Iq
<1>4. About(e) = q.id /\ (Concerns(e) <=> q.ask \in Wanting)
    BY <1>3 DEF About, Concerns
<1>5. Proper(e)
    BY DEF Proper
<1>6. toDevice' = toDevice \o <<e>>
    BY <1>2 DEF Answer
<1>7. q \in [id : Requests, ask : Asks] /\ asked \in Seq([id : Requests, ask : Asks])
      /\ asked' = Append(asked, q) /\ \A i \in DOMAIN asked : asked[i].id # q.id
    BY <1>1, <1>2 DEF TypeOK
<1> HIDE DEF e, q
<1>8. answers \in Seq(Els) /\ toServer \in Seq(Els) /\ toDevice \in Seq(Els)
    BY <1>1, LineTypes
<1>9. <<e>> \in Seq(Els) /\ Len(<<e>>) = 1 /\ <<e>>[1] = e
    BY <1>3, Two
<1>10. Line \in Seq(Els)
    BY <1>8, Regroup DEF Line
<1>11. Line' = Append(Line, e)
    <2>1. Line' = (answers \o toServer) \o (toDevice \o <<e>>)
        BY <1>1, <1>6 DEF Line
    <2> DEFINE X == answers \o toServer
    <2>2. X \in Seq(Els)
        BY <1>8, Regroup
    <2>3. Line' = X \o (toDevice \o <<e>>) /\ Line = X \o toDevice
        BY <2>1 DEF Line
    <2> HIDE DEF X
    <2>4. X \o (toDevice \o <<e>>) = (X \o toDevice) \o <<e>>
        BY <2>2, <1>8, <1>9, Regroup
    <2>5. Append(Line, e) = Line \o <<e>>
        BY <1>3, <1>10, AppendIsConcat
    <2> QED  BY <2>3, <2>4, <2>5
<1>12. InLine(Append(Line, e), Append(asked, q))
    BY <1>1, <1>3, <1>4, <1>7, <1>10, Joined
<1>13. \A i \in 1..Len(<<e>>) : Proper(<<e>>[i])
    BY <1>5, <1>9
<1>14. \A i \in 1..Len(toDevice') : Proper(toDevice'[i])
    BY <1>1, <1>6, <1>8, <1>9, <1>13, ProperJoins
<1> QED
    BY <1>7, <1>11, <1>12, <1>14

\* The stream is closed: what the server says last concerns no request.
LEMMA ClosesInLine ==
    ASSUME LineInv, TypeOK', ServerCloses
    PROVE  InLine(Line', asked') /\ \A i \in 1..Len(toDevice') : Proper(toDevice'[i])
<1>1. /\ TypeOK /\ InLine(Line, asked) /\ \A i \in 1..Len(toDevice) : Proper(toDevice[i])
      /\ answers' = answers /\ toServer' = toServer /\ asked' = asked
    BY DEF LineInv, ServerCloses
<1> DEFINE s == El("stop")
           r == El("error")
<1>2. /\ s \in Els /\ ~Concerns(s) /\ Proper(s)
      /\ r \in Els /\ ~Concerns(r) /\ Proper(r)
    <2>1. s \in Els /\ s.name = "stop" /\ r \in Els /\ r.name = "error"
        BY Names DEF El, Els
    <2> QED  BY <2>1, NamedSilent DEF Proper
<1>3. Answer(<<s>>) \/ Answer(<<r, s>>)
    BY DEF ServerCloses
<1> HIDE DEF s, r
<1>4. PICK els \in {<<s>>, <<r, s>>} : toDevice' = toDevice \o els
    BY <1>3 DEF Answer
<1>5. els \in Seq(Els) /\ \A i \in 1..Len(els) : els[i] \in {s, r}
    BY <1>2, <1>4, Two
<1>6. Silent(els) /\ \A i \in 1..Len(els) : Proper(els[i])
    BY <1>2, <1>5 DEF Silent
<1>7. answers \in Seq(Els) /\ toServer \in Seq(Els) /\ toDevice \in Seq(Els)
    BY <1>1, LineTypes
<1>8. InLine(answers \o toServer \o (toDevice \o els), asked)
    BY <1>1, <1>6, <1>7, SilenceJoins DEF Line
<1>9. \A i \in 1..Len(toDevice \o els) : Proper((toDevice \o els)[i])
    BY <1>1, <1>5, <1>6, <1>7, ProperJoins
<1> QED
    BY <1>1, <1>4, <1>8, <1>9 DEF Line

LEMMA LineInit == Init => LineInv
<1> SUFFICES ASSUME Init PROVE LineInv
    OBVIOUS
<1>1. TypeOK
    BY InitType, SessionAssumption
<1>2. link = "none"
    BY DEF Init
<1> QED
    BY <1>1, <1>2 DEF LineInv

\* Every step keeps the line in order.
LEMMA LineStep == LineInv /\ [Next]_vars => LineInv'
<1> SUFFICES ASSUME LineInv, [Next]_vars PROVE LineInv'
    OBVIOUS
<1>1. TypeOK /\ TypeOK'
    BY TypeStep, SessionAssumption DEF LineInv
<1>2. CASE UNCHANGED <<net, asked, answers>>
    BY <1>1, <1>2 DEF LineInv, Line, net
<1>3. CASE GotIp
    BY <1>2, <1>3 DEF GotIp, server
<1>4. CASE ec_task
    BY <1>1, <1>4 DEF ec_task, j_connect, NewConnection, LineInv
<1>5. CASE Connected
    <2>1. /\ link' = "up" /\ asked' = <<>> /\ answers' = <<>> /\ toDevice' = <<>>
          /\ toServer' = <<El("header")>>
        BY <1>5 DEF Connected, LineInv, device, server
    <2> DEFINE h == El("header")
    <2>2. h \in Els /\ h.name = "header"
        BY Names DEF El, Els
    <2>3. ~Concerns(h)
        BY <2>2, NamedSilent
    <2>4. toServer' = <<h>>
        BY <2>1
    <2> HIDE DEF h
    <2>5. <<h>> \in Seq(Els) /\ <<>> \o <<h>> = <<h>> /\ <<h>> \o <<>> = <<h>>
        BY <2>2, Two, ConcatEmptySeq
    <2>6. Line' = <<h>>
        BY <2>1, <2>4, <2>5 DEF Line
    <2>7. InLine(<<h>>, <<>>)
        BY <2>3 DEF InLine
    <2> QED  BY <2>1, <2>6, <2>7, <1>1 DEF LineInv
<1>6. CASE ec_recv
    <2>1. link' = "up"
        BY <1>6 DEF ec_recv
    <2> QED  BY <2>1, <1>1, <1>6, RecvInLine DEF LineInv
<1>7. CASE ServerTakes
    <2>1. link' = "up"
        BY <1>7 DEF ServerTakes
    <2> QED  BY <2>1, <1>1, <1>7, TakesInLine DEF LineInv
<1>8. CASE ServerAsks
    <2>1. link' = "up"
        BY <1>8 DEF ServerAsks
    <2> QED  BY <2>1, <1>1, <1>8, AsksInLine DEF LineInv
<1>9. CASE ServerCloses
    <2>1. link' = "up"
        BY <1>9 DEF ServerCloses
    <2> QED  BY <2>1, <1>1, <1>9, ClosesInLine DEF LineInv
<1>10. CASE Breaks
    <2>1. link' = "dead"
        BY <1>10 DEF Breaks
    <2> QED  BY <2>1, <1>1 DEF LineInv
<1>11. CASE ConnectFails
    BY <1>1, <1>11 DEF ConnectFails, LineInv
<1>12. CASE UNCHANGED vars
    BY <1>2, <1>12 DEF vars, server
<1> QED
    BY <1>3, <1>4, <1>5, <1>6, <1>7, <1>8, <1>9, <1>10, <1>11, <1>12 DEF Next

\* For every set of requests and of what they ask for, however the answers, the
\* negotiation and a close of the stream are interleaved: each request that
\* wants an answer is answered once and in the order of the asking, by on_ping
\* and on_message.
THEOREM AnsweredInOrderHolds == Spec => []AnsweredInOrder
<1>1. LineInv => AnsweredInOrder
    BY DEF LineInv, AnsweredInOrder, Line
<1> QED
    BY <1>1, LineInit, LineStep, PTL DEF Spec
====
