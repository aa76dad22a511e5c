---- MODULE EcIo ----
(***************************************************************************)
(* ec/user/ec_io.c: the one TCP connection of the firmware and its queue   *)
(* of frames that wait to be sent.  Every function below runs on the       *)
(* single thread of the SDK: the callbacks of espconn and the calls of the *)
(* two clients never interrupt one another, so each is one action.         *)
(*                                                                         *)
(* The espconn library is external: `link' is what it and the struct       *)
(* ec_espconn say of the connection, `inflight' the frames it accepted and *)
(* has not yet reported sent, `dnsPending' the host name queries it has    *)
(* not yet answered.  A frame is the number of the ec_io_send that offered *)
(* it; 0 is the NULL pointer of a queue node.                              *)
(***************************************************************************)
EXTENDS Integers, Sequences

CONSTANTS
    QueueSize,              \* EC_IO_QUEUE_SIZE
    MaxSends,               \* bound: calls of ec_io_send
    MaxConnects             \* bound: calls of ec_io_connet

ASSUME EcIoAssumption ==
    /\ QueueSize \in Nat /\ QueueSize >= 2
    /\ MaxSends \in Nat
    /\ MaxConnects \in Nat

VARIABLES
    count, head, font,      \* queue_count, queue_head, queue_font
    slots,                  \* queue_list[i].psent
    sendFlag,               \* ec_send_flag
    ipKnown,                \* ec_ip.addr # 0
    handle,                 \* ec_io_notify_handle and ec_io_recv_handle are set
    link,                   \* ec_espconn, as espconn sees it
    inflight,               \* frames accepted by espconn, not yet reported sent
    dnsPending,             \* unanswered queries of espconn_gethostbyname
    fault,                  \* "hang": deinit_queue never returns;
                            \* "null": a write through proto.tcp = NULL
    sends, connects,        \* calls made so far
    wire,                   \* history: frames accepted by espconn since ec_io_connet
    disturbed               \* history: since ec_io_connet, espconn refused a
                            \* frame or the connection broke

queueVars == <<count, head, font, slots>>
connVars  == <<ipKnown, handle, dnsPending>>
vars == <<queueVars, sendFlag, connVars, link, inflight, fault, sends, connects,
          wire, disturbed>>

Null   == 0
Slot   == 0 .. QueueSize - 1
Links  == {"zeroed",        \* memset: no proto.tcp
           "idle",          \* set up by ec_io_connet, no TCP connection
           "connecting", "up",
           "down"}          \* closed by the peer or in error
Faults == {"none", "hang", "null"}

---------------------------------------------------------------------------
(* The circular queue.                                                     *)

QueueInit ==
    /\ count = 0 /\ head = 0 /\ font = 0
    /\ slots = [s \in Slot |-> Null]

init_queue ==
    /\ count' = 0 /\ head' = 0 /\ font' = 0
    /\ slots' = [s \in Slot |-> Null]

\* Slip: off by one.
queue_isEmty_OffByOne == font - head <= 1

queue_isEmty == head = font

\* Slip: the test for a full queue is missing.
queue_push_NoLimit(f) ==
    /\ slots' = [slots EXCEPT ![font % QueueSize] = f]
    /\ count' = count + 1
    /\ font'  = font + 1
    /\ UNCHANGED head

\* Slip: the queue counts as full one frame early.
queue_push_EarlyFull(f) ==
    IF count >= QueueSize - 2 THEN UNCHANGED queueVars ELSE queue_push_NoLimit(f)

\* A full queue loses the frame: nobody reads the result of queue_push.
queue_push(f) ==
    IF count = QueueSize - 1
    THEN UNCHANGED queueVars
    ELSE /\ slots' = [slots EXCEPT ![font % QueueSize] = f]
         /\ count' = count + 1
         /\ font'  = font + 1
         /\ UNCHANGED head

\* Slip: the newest frame instead of the oldest.
queue_get_Newest == slots[(font - 1) % QueueSize]

queue_get == slots[head]

\* Slip: the node keeps its pointer after os_free.
queue_pop_KeepsPointer ==
    /\ count' = count - 1
    /\ head'  = (head + 1) % QueueSize
    /\ UNCHANGED <<font, slots>>

\* queue_pop, with the os_free and the clearing of the node that follow it.
queue_pop ==
    /\ slots' = [slots EXCEPT ![head] = Null]
    /\ count' = count - 1
    /\ head'  = (head + 1) % QueueSize
    /\ UNCHANGED font

\* The loop of deinit_queue ends when head meets font: head stays below
\* QueueSize, so it does exactly when font does too.
DeinitReturns == font < QueueSize

deinit_queue ==
    LET pops == (font - head) % QueueSize
    IN  /\ slots' = [s \in Slot |->
                        IF (s - head) % QueueSize < pops THEN Null ELSE slots[s]]
        /\ count' = count - pops
        /\ head'  = font
        /\ UNCHANGED font

\* The frames that wait, oldest first.
FrameAt(i) == slots[(head + i) % QueueSize]
Waiting == [i \in 1 .. count |-> FrameAt(i - 1)]

---------------------------------------------------------------------------
(* espconn.                                                                *)

\* The results of espconn_send: "OK", "MAXNUM" (its buffer is full) or "ERR"
\* (ESPCONN_ARG, ESPCONN_MEM and the rest, which ec_io treats alike).  Without
\* a connection, or without data, it is ESPCONN_ARG.
SendResult(l, f) ==
    IF l = "up" /\ f # Null THEN {"OK", "MAXNUM", "ERR"} ELSE {"ERR"}

\* What espconn_connect makes of the link: an error leaves it as it is, and so
\* does ESPCONN_ISCONN.
ConnectResult(l) ==
    {l} \union (IF l \in {"idle", "down"} THEN {"connecting"} ELSE {})

Accepted(f, rest) ==
    /\ inflight' = Append(rest, f)
    /\ wire' = Append(wire, f)
    /\ UNCHANGED disturbed

\* A frame that espconn refuses is a disturbance.  The NULL pointer that
\* ec_send_cb finds in a queue that is drained and does not look empty is no
\* frame: espconn answers ESPCONN_ARG, the flag stays FALSE, and that is all.
Refused(f, rest) ==
    /\ inflight' = rest
    /\ disturbed' = (disturbed \/ f # Null)
    /\ UNCHANGED wire

---------------------------------------------------------------------------
(* The interface of the clients.                                           *)

Init ==
    /\ QueueInit
    /\ sendFlag = FALSE
    /\ ipKnown = FALSE /\ handle = FALSE /\ dnsPending = 0
    /\ link = "zeroed"
    /\ inflight = <<>>
    /\ fault = "none"
    /\ sends = 0 /\ connects = 0
    /\ wire = <<>>
    /\ disturbed = FALSE

Running == fault = "none"

Hang ==
    /\ fault' = "hang"
    /\ UNCHANGED <<queueVars, sendFlag, connVars, link, inflight, wire, disturbed>>

\* ec_io_send when nothing waits and the last frame was reported sent.
SendDirect(l, f) ==
    /\ sendFlag' = FALSE
    /\ \E r \in SendResult(l, f) :
          \/ r = "OK" /\ Accepted(f, inflight) /\ UNCHANGED queueVars
          \/ r = "MAXNUM" /\ Refused(f, inflight) /\ queue_push(f)
          \/ r = "ERR" /\ Refused(f, inflight) /\ UNCHANGED queueVars

\* ec_io_send when the frame must wait.
SendLater(f) ==
    /\ queue_push(f)
    /\ UNCHANGED <<sendFlag, inflight, wire, disturbed>>

\* Slip: ec_send_flag is not tested.
ec_io_send_NoFlag(l) ==
    /\ sends < MaxSends
    /\ sends' = sends + 1
    /\ IF queue_isEmty THEN SendDirect(l, sends') ELSE SendLater(sends')

\* Slip: the frames that wait are not looked at.
ec_io_send_Overtakes(l) ==
    /\ sends < MaxSends
    /\ sends' = sends + 1
    /\ SendDirect(l, sends')

ec_io_send(l) ==
    /\ sends < MaxSends
    /\ sends' = sends + 1
    /\ IF queue_isEmty /\ sendFlag THEN SendDirect(l, sends') ELSE SendLater(sends')

Send ==
    /\ Running
    /\ ec_io_send(link)
    /\ UNCHANGED <<connVars, link, fault, connects>>

\* ec_io_connet, from the reset of the queue to sendFlag, then the host:
\* dotted, it is connected to at once; a name is looked up.  With a cached
\* answer espconn_gethostbyname fills ec_ip and the function returns.
LookupCached  == ipKnown' = TRUE /\ link' = "idle" /\ UNCHANGED dnsPending
LookupStarted == dnsPending' = dnsPending + 1 /\ link' = "idle" /\ UNCHANGED ipKnown
LookupFailed  == link' = "idle" /\ UNCHANGED <<ipKnown, dnsPending>>
DottedHost    == link' \in ConnectResult("idle") /\ UNCHANGED <<ipKnown, dnsPending>>

Connet ==
    /\ Running
    /\ connects < MaxConnects
    /\ connects' = connects + 1
    /\ UNCHANGED sends
    /\ IF ~DeinitReturns THEN Hang
       ELSE /\ init_queue
            /\ inflight' = <<>> /\ wire' = <<>> /\ disturbed' = FALSE
            /\ sendFlag' = TRUE
            /\ LookupCached \/ LookupStarted \/ LookupFailed \/ DottedHost
            /\ UNCHANGED <<handle, fault>>

\* e_soc_creat and io_connect register their two callbacks after ec_io_connet.
Regist ==
    /\ Running
    /\ handle' = TRUE
    /\ UNCHANGED <<queueVars, sendFlag, ipKnown, dnsPending, link, inflight,
                   fault, sends, connects, wire, disturbed>>

Close ==
    /\ Running
    /\ UNCHANGED <<sends, connects>>
    /\ IF ~DeinitReturns THEN Hang
       ELSE /\ deinit_queue
            /\ link' = "zeroed"
            /\ inflight' = <<>> /\ wire' = <<>>
            /\ handle' = FALSE
            /\ UNCHANGED <<sendFlag, ipKnown, dnsPending, fault, disturbed>>

\* ec_io_reconnect, which no client calls.
Reconnect ==
    /\ Running
    /\ link' \in ConnectResult(link)
    /\ UNCHANGED <<queueVars, sendFlag, connVars, inflight, fault, sends,
                   connects, wire, disturbed>>

---------------------------------------------------------------------------
(* The callbacks of espconn.                                               *)

\* ec_connect_cb.  Both clients answer the notification with one ec_io_send:
\* the HTTP request, or the header of the XMPP stream.
ConnectCb ==
    /\ Running
    /\ link = "connecting"
    /\ link' = "up"
    /\ \/ handle /\ ec_io_send("up")
       \/ ~handle /\ UNCHANGED <<queueVars, sendFlag, inflight, sends, wire, disturbed>>
    /\ UNCHANGED <<connVars, fault, connects>>

\* Slip: the flag is raised and the queue is not looked at.
SentCb_NoDrain ==
    /\ Running
    /\ link = "up" /\ inflight # <<>>
    /\ sendFlag' = TRUE
    /\ inflight' = Tail(inflight)
    /\ UNCHANGED <<queueVars, wire, disturbed, connVars, link, fault, sends, connects>>

\* ec_send_cb: the oldest frame espconn holds has been delivered.
SentCb ==
    /\ Running
    /\ link = "up" /\ inflight # <<>>
    /\ IF queue_isEmty
       THEN /\ sendFlag' = TRUE
            /\ inflight' = Tail(inflight)
            /\ UNCHANGED <<queueVars, wire, disturbed>>
       ELSE /\ sendFlag' = FALSE
            /\ \E r \in SendResult(link, queue_get) :
                  \/ r = "OK" /\ Accepted(queue_get, Tail(inflight)) /\ queue_pop
                  \/ r # "OK" /\ Refused(queue_get, Tail(inflight)) /\ UNCHANGED queueVars
    /\ UNCHANGED <<connVars, link, fault, sends, connects>>

\* ec_recon_cb and ec_discon_cb; the second is registered once connected.
Broken(from) ==
    /\ Running
    /\ link \in from
    /\ link' = "down"
    /\ sendFlag' = FALSE
    /\ inflight' = <<>>
    /\ disturbed' = TRUE
    /\ UNCHANGED <<queueVars, connVars, fault, sends, connects, wire>>

ReconCb  == Broken({"connecting", "up"})
DisconCb == Broken({"up"})

\* ec_dns_cb.  An answer may be late: nothing cancels a query when the
\* connection is closed or set up anew.
DnsCb ==
    /\ Running
    /\ dnsPending > 0
    /\ dnsPending' = dnsPending - 1
    /\ \/ UNCHANGED <<link, fault>>                 \* no address
       \/ /\ ipKnown
          /\ UNCHANGED <<link, fault>>
       \/ /\ ~ipKnown
          /\ IF link = "zeroed"
             THEN fault' = "null" /\ UNCHANGED link
             ELSE link' \in ConnectResult(link) /\ UNCHANGED fault
    /\ UNCHANGED <<queueVars, sendFlag, ipKnown, handle, inflight, sends, connects,
                   wire, disturbed>>

Next ==
    \/ Connet \/ Regist \/ Send \/ Close \/ Reconnect
    \/ ConnectCb \/ SentCb \/ ReconCb \/ DisconCb \/ DnsCb

Spec == Init /\ [][Next]_vars

\* The end of an attempt to connect.
ConnectEnds == ConnectCb \/ (link = "connecting" /\ ReconCb)

\* espconn reports every frame it accepted as sent, or the connection as
\* broken; it ends every attempt to connect and answers every query.  The
\* clients owe nothing, and no connection has to break.
FairSpec ==
    /\ Spec
    /\ WF_vars(SentCb)
    /\ WF_vars(ConnectEnds)
    /\ WF_vars(DnsCb)

---------------------------------------------------------------------------
(* Properties.                                                             *)

\* The ranges of the variables; queue_count never reaches EC_IO_QUEUE_SIZE.
TypeOK ==
    /\ count \in 0 .. QueueSize - 1
    /\ head \in 0 .. QueueSize - 1
    /\ font \in Nat
    /\ slots \in [Slot -> Nat]
    /\ sendFlag \in BOOLEAN
    /\ ipKnown \in BOOLEAN /\ handle \in BOOLEAN
    /\ dnsPending \in Nat
    /\ link \in Links
    /\ inflight \in Seq(Nat)
    /\ fault \in Faults
    /\ sends \in Nat /\ connects \in Nat
    /\ wire \in Seq(Nat)
    /\ disturbed \in BOOLEAN

\* The comment at the head of ec_io.c: the next frame is sent only when the
\* last one is done.  espconn never holds two frames, and ec_send_flag allows a
\* direct send only when it holds none.
OneFrameAtATime ==
    /\ Len(inflight) <= 1
    /\ sendFlag => inflight = <<>>

\* Frames reach the network in the order of the ec_io_send calls and none
\* twice, over the frames already sent and those that still wait, whether they
\* went directly, through the queue, or were taken back after MAXNUM.
FramesInOrder ==
    LET all == wire \o Waiting
    IN  \A i, j \in 1 .. Len(all) : i < j => all[i] < all[j]

\* queue_count, queue_head and queue_font agree with the nodes that hold
\* data: those from head on, count of them, and no other.  A node outside
\* would be leaked, an empty one inside would be sent as NULL and freed twice.
QueueHoldsFrames ==
    \A s \in Slot : slots[s] # Null <=> (s - head) % QueueSize < count

\* ec_send_flag, ec_io.c:18: FALSE says that data cannot be sent, and the head
\* of the file: the next frame may go once the last one is done.  On a connection
\* that did not break and on which espconn refused nothing, what waits has a
\* frame in espconn before it, whose report will send it.  The code does not keep
\* this: see OnlyTheWrapLosesWakeups.
NoLostWakeup ==
    (link = "up" /\ Running /\ count > 0 /\ ~disturbed) => inflight # <<>>

\* What strands the frames that wait is the font that is never wrapped, and
\* nothing else.  From the eighth frame queued on, the queue never looks empty
\* again: ec_send_cb sends the NULL pointer of a drained queue, the flag stays
\* FALSE with nothing in espconn, and every later ec_io_send only queues.
\* Before that, no order of sends and reports loses a wake-up.
OnlyTheWrapLosesWakeups ==
    (link = "up" /\ Running /\ ~disturbed /\ count > 0 /\ inflight = <<>>)
        => font >= QueueSize

\* A frame offered to ec_io is sent or kept, unless the queue is full or
\* espconn refused it: the two paths of ec_io_send leave no third one.
NoFrameVanishes ==
    [][(sends' # sends /\ ~disturbed' /\ count < QueueSize - 1) =>
          \/ count' > 0 /\ Waiting'[count'] = sends'
          \/ wire' # <<>> /\ wire'[Len(wire')] = sends']_vars

\* What waits behind a frame that espconn holds is sent, before and after the
\* font has passed EC_IO_QUEUE_SIZE, on a connection that is not disturbed, given
\* up or hung.  Once it has passed, frames queued while espconn holds nothing
\* are not promised anything: they stay (NoLostWakeup is refuted).
QueueDrains ==
    (inflight # <<>> /\ count > 0 /\ link = "up" /\ ~disturbed)
        ~> (count = 0 \/ disturbed \/ link # "up" \/ ~Running)

\* The abstract sender of frames.
FS == INSTANCE FrameSender WITH
        Capacity <- QueueSize - 1,
        offered  <- sends,
        pending  <- Waiting,
        out      <- inflight

SendsFramesOneByOne == FS!ChSpec
====
