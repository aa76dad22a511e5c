---- MODULE Provision ----
(***************************************************************************)
(* The life of the socket from the factory to its XMPP session, and over   *)
(* power losses:                                                           *)
(*   ec/user/user_main.c     boot, the task and its queue of one signal    *)
(*   ec/server/server.c      the access point's server takes a configuration*)
(*   ec/wifi/wifi.c          the station and the timer that watches it     *)
(*   ec/user/user_regiset.c  registration over HTTP                        *)
(*   ec/user/user_config.c   the three flash sectors                       *)
(* Callbacks, timers and the task run one after the other on the SDK's     *)
(* thread; only a power loss cuts a handler short, and it matters in       *)
(* CFG_Save, whose five flash operations are counted.                      *)
(***************************************************************************)
EXTENDS Naturals, Sequences

CONSTANTS
    Configs,                \* configurations the app may send
    None,                   \* no configuration: erased flash, zeroed RAM
    Mixed,                  \* what two configurations leave when the second
                            \* is written over the first
    MaxPosts,               \* bound: configurations received
    MaxFlaps,               \* bound: the station loses its association
    MaxFails,               \* bound: an attempt to associate fails
    MaxRefusals,            \* bound: the server refuses a registration
    MaxLosses,              \* bound: power losses and resets
    MaxCutSaves             \* bound: of these, how many cut CFG_Save short

ASSUME ProvisionAssumption ==
    /\ None \notin Configs /\ Mixed \notin Configs /\ None # Mixed
    /\ {MaxPosts, MaxFlaps, MaxFails, MaxRefusals, MaxLosses, MaxCutSaves} \subseteq Nat

VARIABLES
    on,                     \* powered and past system_on_done_cb
    flash,                  \* the sectors CFG_LOCATION + 0, 1, 2
    reg, jcfg, wcfg,        \* user_isRegisrer = 1, j_config, w_config
    url,                    \* http_register_url
    taskQ,                  \* ec_task_queue
    server,                 \* the configuration server listens
    opmode,                 \* WiFi mode
    sta, staCfg,            \* status and configuration of the station
    lastSta, polling,       \* lastWifiStatus, WiFiLinker is armed
    http,                   \* the registration request under way
    session,                \* configuration of the XMPP session
    bounds                  \* how much of each bound is used

ram  == <<reg, jcfg, wcfg, url, taskQ, server, opmode, lastSta, polling>>
net  == <<sta, staCfg, http, session>>
vars == <<on, flash, ram, net, bounds>>

Contents == Configs \union {None, Mixed}
Signals  == {"SIG_CG", "SIG_ST", "SIG_RG", "SIG_LG"}
Bounds   == [posts |-> MaxPosts, flaps |-> MaxFlaps, fails |-> MaxFails,
             refusals |-> MaxRefusals,
             losses |-> MaxLosses, cuts |-> MaxCutSaves]

\* Uses one unit of the bound b.
Use(b) ==
    /\ bounds[b] < Bounds[b]
    /\ bounds' = [bounds EXCEPT ![b] = @ + 1]

---------------------------------------------------------------------------
(* The task queue: ec_task_queue[1], and posts whose result nobody reads.  *)

\* Slip: the queue grows.
system_os_post_Unbounded(sig) == taskQ' = Append(taskQ, sig)

system_os_post(sig) ==
    taskQ' = IF Len(taskQ) < 1 THEN Append(taskQ, sig) ELSE taskQ

---------------------------------------------------------------------------
(* The flash.  A write clears bits: over erased flash it stores the data,  *)
(* over other data it leaves the conjunction of both.                      *)

Written(old, new) == IF old \in {None, new} THEN new ELSE Mixed

\* Slip: the configuration of the station is not written.
SaveOps_NoStation == <<"erase 0", "erase 1", "write 0", "write 1">>

\* The operations of CFG_Save, in order.  The third sector is not erased.
SaveOps == <<"erase 0", "erase 1", "write 0", "write 1", "write 2">>

FlashOp(f, op) ==
    [flag |-> (f.flag /\ op # "erase 0") \/ op = "write 0",
     j |-> IF op = "erase 1" THEN None
           ELSE IF op = "write 1" THEN Written(f.j, jcfg) ELSE f.j,
     w |-> IF op = "write 2" THEN Written(f.w, wcfg) ELSE f.w]

\* The flash after the first n operations of CFG_Save.
FlashAfter(n) ==
    LET f[k \in 0 .. n] == IF k = 0 THEN flash ELSE FlashOp(f[k - 1], SaveOps[k])
    IN  f[n]

CFG_Save == reg' = TRUE /\ flash' = FlashAfter(Len(SaveOps))

---------------------------------------------------------------------------
(* Power.                                                                  *)

Lost ==
    /\ on' = FALSE
    /\ reg' = FALSE /\ jcfg' = None /\ wcfg' = None /\ url' = None
    /\ taskQ' = <<>> /\ server' = FALSE /\ opmode' = "none"
    /\ lastSta' = "idle" /\ polling' = FALSE
    /\ sta' = "idle" /\ staCfg' = None
    /\ http' = None /\ session' = None

Init ==
    /\ on = FALSE
    /\ flash = [flag |-> FALSE, j |-> None, w |-> None]
    /\ reg = FALSE /\ jcfg = None /\ wcfg = None /\ url = None
    /\ taskQ = <<>> /\ server = FALSE /\ opmode = "none"
    /\ lastSta = "idle" /\ polling = FALSE
    /\ sta = "idle" /\ staCfg = None
    /\ http = None /\ session = None
    /\ bounds = [b \in DOMAIN Bounds |-> 0]

\* Power is lost between two handlers, or the device resets: a configuration
\* or an answer of the server without a field that is looked for is read
\* through NULL by json_parse_config or json_parse_register.
PowerLoss ==
    /\ on /\ Use("losses")
    /\ Lost
    /\ UNCHANGED flash

\* Slip: the registration is not looked at.
Boot_NoTest ==
    /\ ~on /\ on' = TRUE
    /\ reg' = flash.flag /\ jcfg' = flash.j /\ wcfg' = flash.w
    /\ system_os_post("SIG_CG")
    /\ UNCHANGED <<flash, url, server, opmode, lastSta, polling, net, bounds>>

\* system_on_done_cb, with CFG_Load.
Boot ==
    /\ ~on /\ on' = TRUE
    /\ reg' = flash.flag /\ jcfg' = flash.j /\ wcfg' = flash.w
    /\ system_os_post(IF flash.flag THEN "SIG_ST" ELSE "SIG_CG")
    /\ UNCHANGED <<flash, url, server, opmode, lastSta, polling, net, bounds>>

---------------------------------------------------------------------------
(* ec_task: one disjunct for each signal.                                  *)

\* wifi_ap_set and server_init.
ServeAsAccessPoint ==
    /\ opmode' = "softap" /\ server' = TRUE
    /\ UNCHANGED <<polling, net>>

\* wifi_connect(w_config): lastWifiStatus is not reset.
wifi_connect ==
    /\ opmode' = "station"
    /\ staCfg' = wcfg /\ sta' = "connecting"
    /\ polling' = TRUE
    /\ UNCHANGED <<server, http, session>>

\* http_register_jab: ec_io_connet takes the connection from any session.
http_register_jab ==
    /\ http' = url /\ session' = None
    /\ UNCHANGED <<opmode, server, polling, sta, staCfg>>

\* xmpp_init: ec_io_connet takes the connection from any request.
xmpp_init ==
    /\ session' = jcfg /\ http' = None
    /\ UNCHANGED <<opmode, server, polling, sta, staCfg>>

ec_task ==
    /\ on /\ taskQ # <<>>
    /\ taskQ' = Tail(taskQ)
    /\ \/ Head(taskQ) = "SIG_CG" /\ ServeAsAccessPoint
       \/ Head(taskQ) = "SIG_ST" /\ wifi_connect
       \/ Head(taskQ) = "SIG_RG" /\ http_register_jab
       \/ Head(taskQ) = "SIG_LG" /\ xmpp_init
    /\ UNCHANGED <<on, flash, reg, jcfg, wcfg, url, lastSta, bounds>>

---------------------------------------------------------------------------
(* The configuration server.                                               *)

\* json_parse_config copies the address without its end: over a longer one it
\* leaves that one's tail.
UrlAfter(c) == IF url \in {None, c} THEN {c} ELSE {c, Mixed}

\* server_recv_data, for a request that arrives in one segment; the server is
\* reached at the access point, and later at the station's own address.
server_recv_data ==
    /\ on /\ server /\ (opmode = "softap" \/ sta = "gotip")
    /\ Use("posts")
    /\ \E c \in Configs :
          /\ jcfg' = c /\ wcfg' = c
          /\ url' \in UrlAfter(c)
    /\ system_os_post("SIG_ST")
    /\ UNCHANGED <<on, flash, reg, server, opmode, lastSta, polling, net>>

---------------------------------------------------------------------------
(* The station.                                                            *)

StaAssociate ==
    /\ on /\ sta = "connecting" /\ staCfg \in Configs
    /\ sta' = "gotip"
    /\ UNCHANGED <<on, flash, ram, staCfg, http, session, bounds>>

\* STATION_WRONG_PASSWORD, STATION_NO_AP_FOUND or STATION_CONNECT_FAIL.
StaFail ==
    /\ on /\ sta = "connecting" /\ (staCfg \in Configs => Use("fails"))
    /\ (staCfg \notin Configs => UNCHANGED bounds)
    /\ sta' = "failed"
    /\ UNCHANGED <<on, flash, ram, staCfg, http, session>>

StaDrop ==
    /\ on /\ sta = "gotip" /\ Use("flaps")
    /\ sta' \in {"connecting", "failed"}
    /\ UNCHANGED <<on, flash, ram, staCfg, http, session>>

\* Slip: the registration is not looked at.
wifiConnectCb_NoTest(status) ==
    IF status = "gotip" THEN system_os_post("SIG_LG") ELSE UNCHANGED taskQ

\* wifiConnectCb.
wifiConnectCb(status) ==
    IF status = "gotip"
    THEN system_os_post(IF reg THEN "SIG_LG" ELSE "SIG_RG")
    ELSE UNCHANGED taskQ

\* Slip: an association that failed is not tried again.
wifi_check_ip_NoRetry ==
    /\ on /\ polling
    /\ IF sta # lastSta
       THEN lastSta' = sta /\ wifiConnectCb(sta)
       ELSE UNCHANGED <<lastSta, taskQ>>
    /\ UNCHANGED <<on, flash, reg, jcfg, wcfg, url, server, opmode, polling,
                   net, bounds>>

\* wifi_check_ip: the timer sees the status of the station at its ticks only.
wifi_check_ip ==
    /\ on /\ polling
    /\ sta' = IF sta = "failed" THEN "connecting" ELSE sta
    /\ IF sta # lastSta
       THEN lastSta' = sta /\ wifiConnectCb(sta)
       ELSE UNCHANGED <<lastSta, taskQ>>
    /\ UNCHANGED <<on, flash, reg, jcfg, wcfg, url, server, opmode, polling,
                   staCfg, http, session, bounds>>

---------------------------------------------------------------------------
(* The answer to the registration: on_message_complete calls http_success, *)
(* then closes the connection.                                             *)

Answered == on /\ http \in Configs /\ sta = "gotip"

HttpSuccess ==
    /\ Answered
    /\ CFG_Save
    /\ system_os_post("SIG_LG")
    /\ http' = None
    /\ UNCHANGED <<on, jcfg, wcfg, url, server, opmode, lastSta, polling,
                   sta, staCfg, session, bounds>>

\* Power is lost after n of the operations of CFG_Save.
HttpSuccessCutShort ==
    /\ Answered
    /\ \E n \in 0 .. Len(SaveOps) : flash' = FlashAfter(n)
    /\ bounds.losses < MaxLosses /\ Use("cuts")
    /\ Lost

\* http_success with an error_code other than "0": nothing tries again.
HttpRefused ==
    /\ Answered /\ Use("refusals")
    /\ http' = None
    /\ UNCHANGED <<on, flash, ram, sta, staCfg, session>>

---------------------------------------------------------------------------
\* j_error of user_xmpp.c: log in again.
j_error ==
    /\ on /\ session # None
    /\ system_os_post("SIG_LG")
    /\ UNCHANGED <<on, flash, reg, jcfg, wcfg, url, server, opmode, lastSta,
                   polling, net, bounds>>

Next ==
    \/ Boot \/ PowerLoss \/ ec_task \/ server_recv_data
    \/ StaAssociate \/ StaFail \/ StaDrop \/ wifi_check_ip
    \/ HttpSuccess \/ HttpSuccessCutShort \/ HttpRefused
    \/ j_error

Spec == Init /\ [][Next]_vars

\* The SDK runs the task and the timer, and the access point takes the station.
\* Nobody owes an answer to the registration: the request has no timeout
\* (http.c:252), and a host name that is still cached is not even connected to
\* (ec_io.c:416).
FairSpec ==
    /\ Spec
    /\ WF_vars(Boot) /\ WF_vars(ec_task) /\ WF_vars(wifi_check_ip)
    /\ WF_vars(StaAssociate)

---------------------------------------------------------------------------
(* Properties.                                                             *)

\* The ranges of the variables.
TypeOK ==
    /\ on \in BOOLEAN /\ reg \in BOOLEAN /\ server \in BOOLEAN /\ polling \in BOOLEAN
    /\ flash \in [flag : BOOLEAN, j : Contents, w : Contents]
    /\ {jcfg, wcfg, url, staCfg, http, session} \subseteq Contents
    /\ taskQ \in Seq(Signals) /\ Len(taskQ) <= 1
    /\ opmode \in {"none", "softap", "station"}
    /\ {sta, lastSta} \subseteq {"idle", "connecting", "failed", "gotip"}
    /\ bounds \in [DOMAIN Bounds -> Nat]

\* A pending SIG_LG and an open session mean that a registration was saved,
\* whichever of the four places that post SIG_LG posted it, and over power
\* losses.  The account of the session is the one that was saved, if the app
\* told the device only one: a second configuration overwrites j_config of a
\* registered device (user_main.c:34), and the next login takes it as it is.
LoginNeedsRegistration ==
    /\ (taskQ = <<"SIG_LG">> \/ session # None) => reg /\ flash.flag
    /\ (session # None /\ bounds.posts <= 1) => session = flash.j

\* A device that will boot as a station has something in both sectors that
\* tell it what to join and whom to call; without it, the device would never
\* get a network, and would not open its access point to be told again.
RegisteredMeansConfigured == flash.flag => flash.j # None /\ flash.w # None

\* It does as long as no power loss cuts CFG_Save short.
WholeSavesConfigure == bounds.cuts = 0 => RegisteredMeansConfigured

\* The access point is opened by an unregistered device only, so a registered
\* one cannot be configured from outside its network after a reboot.
AccessPointOnlyUnregistered ==
    [][opmode' = "softap" /\ opmode # "softap" => ~reg]_vars

\* A configured device comes to its login, over failed and lost associations,
\* lost signals and power losses: session # None says that xmpp_init was called
\* for the account, what follows is in XmppSession.  It need not when nobody ever
\* answers its registration, which is not tried again; when it is configured
\* again while it runs, which wifi_check_ip need not notice; when the server
\* refuses it; or when a save was cut short.
ConfiguredComesToLogin ==
    [](jcfg # None => <>(\/ session # None \/ ~on
                         \/ bounds.posts > 1 \/ bounds.refusals > 0 \/ bounds.cuts > 0
                         \/ [](http # None)))
====
