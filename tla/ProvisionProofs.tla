---- MODULE ProvisionProofs ----
(***************************************************************************)
(* Proofs about Provision, for every set of configurations and every       *)
(* number of faults.                                                       *)
(***************************************************************************)
EXTENDS Provision, SequenceTheorems, TLAPS

---------------------------------------------------------------------------
(* The inductive invariant.                                                *)

\* A device without power remembers its flash only.
OffIsBlank ==
    ~on => /\ ~reg /\ jcfg = None /\ wcfg = None /\ url = None
           /\ taskQ = <<>> /\ ~server /\ ~polling
           /\ http = None /\ session = None

\* user_isRegisrer is set together with the first sector, and read from it.
RegisteredInFlash == reg => flash.flag

\* Whoever has an address to register at has a configuration to save.
ToldBeforeAsking == (url # None \/ http # None) => jcfg # None /\ wcfg # None

\* SIG_CG is posted at boot, before anything else happens.
FirstSignal ==
    taskQ = <<"SIG_CG">> => ~reg /\ ~server /\ ~polling /\ http = None /\ session = None

\* A device that was told nothing has nothing to register and nothing saved.
UntoldIsBlank == bounds.posts = 0 => url = None /\ http = None /\ ~flash.flag

\* What a registered device was told is what it saved, while it was told once.
ToldIsSaved == bounds.posts <= 1 /\ reg => jcfg = flash.j

\* The connection carries the registration or the session, not both.
OneConnection == http # None => session = None

\* The second half of LoginNeedsRegistration.
SavedAccount == (session # None /\ bounds.posts <= 1) => session = flash.j

Account == UntoldIsBlank /\ ToldIsSaved /\ OneConnection /\ SavedAccount

IndInv ==
    /\ TypeOK
    /\ OffIsBlank /\ RegisteredInFlash /\ ToldBeforeAsking /\ FirstSignal
    /\ LoginNeedsRegistration /\ WholeSavesConfigure
    /\ Account

---------------------------------------------------------------------------
(* The queue of one signal.                                                *)

TaskQOK == taskQ \in Seq(Signals) /\ Len(taskQ) <= 1

\* Between nothing and more than one.
LEMMA JustOne ==
    ASSUME NEW n \in Nat, n # 0, n <= 1
    PROVE  n = 1
OBVIOUS

\* A queue that is not empty holds one signal, and nothing is left after it.
LEMMA OneSignal ==
    ASSUME NEW S, NEW q \in Seq(S), q # <<>>, Len(q) <= 1
    PROVE  /\ Head(q) \in S
           /\ q = <<Head(q)>>
           /\ Tail(q) = <<>>
<1>1. Len(q) = 1
  <2>1. Len(q) \in Nat
    BY LenProperties
  <2>2. Len(q) # 0
    BY EmptySeq
  <2> QED
    BY <2>1, <2>2, JustOne
<1>2. Head(q) \in S /\ Head(q) = q[1]
  BY <1>1, HeadTailProperties
<1>3. Tail(q) = <<>>
  <2>1. Tail(q) \in Seq(S) /\ Len(Tail(q)) = 0
    BY <1>1, HeadTailProperties
  <2> QED BY <2>1, EmptySeq
<1>4. q = <<q[1]>>
  <2>1. <<q[1]>> \in Seq(S) /\ Len(<<q[1]>>) = 1 /\ <<q[1]>>[1] = q[1]
    BY <1>2
  <2> QED BY <1>1, <2>1, SeqEqual
<1> QED
  BY <1>2, <1>3, <1>4

\* A signal is posted to an empty queue or lost.
LEMMA Posted ==
    ASSUME TaskQOK, NEW sig \in Signals, system_os_post(sig)
    PROVE  TaskQOK' /\ (taskQ' = taskQ \/ taskQ' = <<sig>>)
<1>1. CASE Len(taskQ) < 1
  <2>1. taskQ = <<>>
    BY <1>1, EmptySeq DEF TaskQOK
  <2>2. taskQ' = <<sig>>
    BY <1>1, <2>1 DEF system_os_post
  <2> QED BY <2>2 DEF TaskQOK
<1>2. CASE ~(Len(taskQ) < 1)
  BY <1>2 DEF system_os_post, TaskQOK
<1> QED
  BY <1>1, <1>2

---------------------------------------------------------------------------
(* The flash.                                                              *)

FlashOK(f) == f \in [flag : BOOLEAN, j : Contents, w : Contents]

\* What is written is a content, and something when the new data is something.
LEMMA WrittenType ==
    ASSUME NEW old \in Contents, NEW new \in Contents
    PROVE  Written(old, new) \in Contents /\ (new # None => Written(old, new) # None)
BY ProvisionAssumption DEF Written, Contents

\* The operations keep the shape of the flash.
LEMMA FlashOpType ==
    ASSUME NEW f, FlashOK(f), NEW op, jcfg \in Contents, wcfg \in Contents
    PROVE  FlashOK(FlashOp(f, op))
<1>1. None \in Contents
  BY DEF Contents
<1>2. Written(f.j, jcfg) \in Contents /\ Written(f.w, wcfg) \in Contents
  BY WrittenType DEF FlashOK
<1> QED
  BY <1>1, <1>2 DEF FlashOK, FlashOp

\* The stages of CFG_Save.
F1 == FlashOp(flash, "erase 0")
F2 == FlashOp(F1, "erase 1")
F3 == FlashOp(F2, "write 0")
F4 == FlashOp(F3, "write 1")
F5 == FlashOp(F4, "write 2")

G(k) == IF k = 0 THEN flash ELSE IF k = 1 THEN F1 ELSE IF k = 2 THEN F2
        ELSE IF k = 3 THEN F3 ELSE IF k = 4 THEN F4 ELSE F5

\* Each stage is what the next operation makes of the one before.
LEMMA StageStep ==
    ASSUME NEW k \in 1 .. 5
    PROVE  G(k) = FlashOp(G(k - 1), SaveOps[k])
<1>1. /\ SaveOps[1] = "erase 0" /\ SaveOps[2] = "erase 1" /\ SaveOps[3] = "write 0"
      /\ SaveOps[4] = "write 1" /\ SaveOps[5] = "write 2"
  BY DEF SaveOps
<1>2. CASE k = 1
  <2>1. k - 1 = 0 /\ G(0) = flash /\ G(1) = F1
    BY <1>2 DEF G
  <2> QED
    BY <1>1, <1>2, <2>1 DEF F1
<1>3. CASE k = 2
  <2>1. k - 1 = 1 /\ G(1) = F1 /\ G(2) = F2
    BY <1>3 DEF G
  <2> QED
    BY <1>1, <1>3, <2>1 DEF F2
<1>4. CASE k = 3
  <2>1. k - 1 = 2 /\ G(2) = F2 /\ G(3) = F3
    BY <1>4 DEF G
  <2> QED
    BY <1>1, <1>4, <2>1 DEF F3
<1>5. CASE k = 4
  <2>1. k - 1 = 3 /\ G(3) = F3 /\ G(4) = F4
    BY <1>5 DEF G
  <2> QED
    BY <1>1, <1>5, <2>1 DEF F4
<1>6. CASE k = 5
  <2>1. k - 1 = 4 /\ G(4) = F4 /\ G(5) = F5
    BY <1>6 DEF G
  <2> QED
    BY <1>1, <1>6, <2>1 DEF F5
<1> QED
  BY <1>2, <1>3, <1>4, <1>5, <1>6

\* The recursive function of FlashAfter runs through these stages.
LEMMA Stages ==
    ASSUME NEW n \in 0 .. 5
    PROVE  FlashAfter(n) = G(n)
<1> DEFINE Rec(f) == f = [k \in 0 .. n |-> IF k = 0 THEN flash ELSE FlashOp(f[k - 1], SaveOps[k])]
<1> DEFINE g == [k \in 0 .. n |-> G(k)]
<1>1. Rec(g)
  <2>1. ASSUME NEW k \in 0 .. n, k # 0
        PROVE  G(k) = FlashOp(g[k - 1], SaveOps[k])
    <3>1. k - 1 \in 0 .. n /\ k \in 1 .. 5
      BY <2>1
    <3>2. g[k - 1] = G(k - 1)
      BY <3>1
    <3> HIDE DEF g
    <3> QED
      BY <3>1, <3>2, StageStep
  <2>2. G(0) = flash
    BY DEF G
  <2>3. ASSUME NEW k \in 0 .. n
        PROVE  g[k] = IF k = 0 THEN flash ELSE FlashOp(g[k - 1], SaveOps[k])
    BY <2>1, <2>2
  <2> QED
    BY <2>3
<1>2. PICK f : Rec(f) /\ f = (CHOOSE h : Rec(h))
  BY <1>1
<1>3. FlashAfter(n) = f[n]
  BY <1>2 DEF FlashAfter
<1>4. f[0] = G(0)
  BY <1>2 DEF G
<1>5. ASSUME NEW k \in 1 .. n, f[k - 1] = G(k - 1)
      PROVE  f[k] = G(k)
  <2>1. f[k] = FlashOp(f[k - 1], SaveOps[k])
    BY <1>2
  <2>2. k \in 1 .. 5
    OBVIOUS
  <2> QED
    BY <1>5, <2>1, <2>2, StageStep
<1>6. /\ n >= 1 => f[1] = G(1)
      /\ n >= 2 => f[2] = G(2)
      /\ n >= 3 => f[3] = G(3)
      /\ n >= 4 => f[4] = G(4)
      /\ n >= 5 => f[5] = G(5)
  <2> HIDE DEF Rec, g
  <2>1. n >= 1 => f[1] = G(1)
    BY <1>4, <1>5
  <2>2. n >= 2 => f[2] = G(2)
    BY <2>1, <1>5
  <2>3. n >= 3 => f[3] = G(3)
    BY <2>2, <1>5
  <2>4. n >= 4 => f[4] = G(4)
    BY <2>3, <1>5
  <2>5. n >= 5 => f[5] = G(5)
    BY <2>4, <1>5
  <2> QED
    BY <2>1, <2>2, <2>3, <2>4, <2>5
<1>7. n \in {0, 1, 2, 3, 4, 5}
  OBVIOUS
<1> QED
  BY <1>3, <1>4, <1>6, <1>7

\* CFG_Save has five operations.
LEMMA FiveOps == Len(SaveOps) = 5
BY DEF SaveOps

\* Wherever CFG_Save is cut, the flash keeps its shape.
LEMMA FlashAfterType ==
    ASSUME FlashOK(flash), jcfg \in Contents, wcfg \in Contents, NEW n \in 0 .. 5
    PROVE  FlashOK(FlashAfter(n))
<1>1. FlashOK(F1) BY FlashOpType DEF F1
<1>2. FlashOK(F2) BY <1>1, FlashOpType DEF F2
<1>3. FlashOK(F3) BY <1>2, FlashOpType DEF F3
<1>4. FlashOK(F4) BY <1>3, FlashOpType DEF F4
<1>5. FlashOK(F5) BY <1>4, FlashOpType DEF F5
<1>6. FlashOK(G(n))
  BY <1>1, <1>2, <1>3, <1>4, <1>5 DEF G
<1> QED
  BY <1>6, Stages

\* A whole CFG_Save registers the device, with a configuration in both sectors
\* if there is one to save, whatever was in the third, which it does not erase.
LEMMA WholeSave ==
    ASSUME FlashOK(flash), jcfg \in Contents, wcfg \in Contents, jcfg # None, wcfg # None
    PROVE  /\ FlashAfter(5).flag
           /\ FlashAfter(5).j # None
           /\ FlashAfter(5).w # None
           /\ FlashAfter(5).j = jcfg
<1>1. FlashAfter(5) = F5
  BY Stages DEF G
<1>2. F5.flag = TRUE
  BY DEF F5, F4, F3, FlashOp
<1>3. F5.j = Written(None, jcfg)
  BY DEF F5, F4, F3, F2, FlashOp
<1>4. F5.w = Written(flash.w, wcfg)
  BY DEF F5, F4, F3, F2, F1, FlashOp
<1>5. flash.w \in Contents /\ None \in Contents
  BY DEF FlashOK, Contents
<1> QED
  BY <1>1, <1>2, <1>3, <1>4, <1>5, WrittenType DEF Written

---------------------------------------------------------------------------
(* The bounds.                                                             *)

BoundsOK == bounds \in [DOMAIN Bounds -> Nat]

\* The names of the bounds.
LEMMA BoundNames ==
    DOMAIN Bounds = {"posts", "flaps", "fails", "refusals", "losses", "cuts"}
BY DEF Bounds

\* Using a bound counts it, and no other.
LEMMA Used ==
    ASSUME BoundsOK, NEW b \in DOMAIN Bounds, Use(b)
    PROVE  /\ BoundsOK'
           /\ b # "cuts" => bounds'.cuts = bounds.cuts
           /\ b = "cuts" => bounds'.cuts # 0
           /\ b # "posts" => bounds'.posts = bounds.posts
           /\ b = "posts" => bounds'.posts = bounds.posts + 1
<1>1. bounds' = [bounds EXCEPT ![b] = bounds[b] + 1]
  BY DEF Use
<1>2. bounds[b] \in Nat /\ bounds.cuts \in Nat
  BY BoundNames DEF BoundsOK
<1>3. BoundsOK'
  BY <1>1, <1>2, BoundNames DEF BoundsOK
<1> QED
  BY <1>1, <1>2, <1>3, BoundNames DEF BoundsOK

---------------------------------------------------------------------------
(* The steps.                                                              *)

\* The initial state.
LEMMA Initially == Init => IndInv
<1> SUFFICES ASSUME Init PROVE IndInv
  OBVIOUS
<1>1. taskQ \in Seq(Signals) /\ Len(taskQ) <= 1 /\ taskQ = <<>>
  BY DEF Init
<1>2. flash \in [flag : BOOLEAN, j : Contents, w : Contents] /\ ~flash.flag
  BY DEF Init, Contents
<1>3. bounds \in [DOMAIN Bounds -> Nat]
  BY DEF Init
<1>4. TypeOK
  BY <1>1, <1>2, <1>3 DEF Init, TypeOK, Contents
<1>5. taskQ # <<"SIG_LG">> /\ taskQ # <<"SIG_CG">>
  BY <1>1
<1> QED
  BY <1>1, <1>2, <1>4, <1>5
     DEF Init, IndInv, OffIsBlank, RegisteredInFlash, ToldBeforeAsking, FirstSignal,
         LoginNeedsRegistration, WholeSavesConfigure, RegisteredMeansConfigured,
         Account, UntoldIsBlank, ToldIsSaved, OneConnection, SavedAccount

\* Steps that leave the account, the connection and what is saved alone.
LEMMA AccountUntouched ==
    ASSUME IndInv, UNCHANGED <<flash, reg, jcfg, url, http, session>>,
           bounds'.posts = bounds.posts
    PROVE  Account'
BY DEF IndInv, Account, UntoldIsBlank, ToldIsSaved, OneConnection, SavedAccount

\* Power is lost and the flash is whole or, if CFG_Save was cut, counted as cut.
LEMMA LostKeepsInv ==
    ASSUME IndInv, Lost, FlashOK(flash'), BoundsOK',
           \/ flash' = flash /\ bounds'.cuts = bounds.cuts
           \/ bounds'.cuts # 0,
           bounds'.posts = bounds.posts, flash' = flash \/ bounds.posts # 0
    PROVE  IndInv'
<1>1. taskQ' \in Seq(Signals) /\ Len(taskQ') <= 1 /\ taskQ' = <<>>
  BY DEF Lost
<1>2. TypeOK'
  BY <1>1 DEF Lost, TypeOK, Contents, FlashOK, BoundsOK
<1>3. taskQ' # <<"SIG_LG">> /\ taskQ' # <<"SIG_CG">>
  BY <1>1
<1>4. WholeSavesConfigure'
  BY DEF IndInv, WholeSavesConfigure, RegisteredMeansConfigured
<1>5. Account'
  BY DEF Lost, IndInv, Account, UntoldIsBlank, ToldIsSaved, OneConnection, SavedAccount
<1> QED
  BY <1>1, <1>2, <1>3, <1>4, <1>5
     DEF Lost, IndInv, OffIsBlank, RegisteredInFlash, ToldBeforeAsking, FirstSignal,
         LoginNeedsRegistration, Account, SavedAccount

\* What the step leaves alone keeps WholeSavesConfigure.
LEMMA FlashUntouched ==
    ASSUME IndInv, flash' = flash, bounds'.cuts = bounds.cuts
    PROVE  WholeSavesConfigure' /\ FlashOK(flash')
BY DEF IndInv, TypeOK, FlashOK, WholeSavesConfigure, RegisteredMeansConfigured

\* Booting.
LEMMA BootKeepsInv ==
    ASSUME IndInv, Boot
    PROVE  IndInv'
<1> DEFINE sig == IF flash.flag THEN "SIG_ST" ELSE "SIG_CG"
<1>1. sig \in Signals /\ sig # "SIG_LG" /\ TaskQOK
  BY DEF Signals, IndInv, TypeOK, TaskQOK
<1>2. TaskQOK' /\ (taskQ' = taskQ \/ taskQ' = <<sig>>)
  BY <1>1, Posted DEF Boot
<1>3. /\ ~on /\ on' /\ url = None /\ taskQ = <<>> /\ ~server /\ ~polling
      /\ http = None /\ session = None
  BY DEF Boot, IndInv, OffIsBlank
<1>4. WholeSavesConfigure' /\ FlashOK(flash')
  BY FlashUntouched DEF Boot
<1>5. TypeOK'
  BY <1>2, <1>4 DEF IndInv, TypeOK, TaskQOK, FlashOK, Boot, ram, net
<1>6. taskQ' # <<"SIG_LG">>
  BY <1>1, <1>2, <1>3
<1>7. taskQ' = <<"SIG_CG">> => ~flash.flag
  BY <1>2, <1>3
<1>8. Account'
  BY <1>3 DEF Boot, net, IndInv, Account, UntoldIsBlank, ToldIsSaved, OneConnection, SavedAccount
<1> QED
  BY <1>3, <1>4, <1>5, <1>6, <1>7, <1>8
     DEF Boot, net, IndInv, OffIsBlank, RegisteredInFlash, ToldBeforeAsking, FirstSignal,
         LoginNeedsRegistration, Account, SavedAccount

\* The task handles its signal.
LEMMA TaskKeepsInv ==
    ASSUME IndInv, ec_task
    PROVE  IndInv'
<1>1. taskQ \in Seq(Signals) /\ Len(taskQ) <= 1 /\ taskQ # <<>>
  BY DEF IndInv, TypeOK, ec_task
<1>2. taskQ = <<Head(taskQ)>> /\ Tail(taskQ) = <<>>
  BY <1>1, OneSignal
<1>3. /\ taskQ' = <<>> /\ taskQ' # <<"SIG_LG">> /\ taskQ' # <<"SIG_CG">>
      /\ TaskQOK'
  <2>1. taskQ' = <<>>
    BY <1>2 DEF ec_task
  <2>2. <<>> \in Seq(Signals) /\ Len(<<>>) = 0
    OBVIOUS
  <2> QED
    BY <2>1, <2>2 DEF TaskQOK
<1>4. /\ on /\ on' /\ flash' = flash /\ bounds' = bounds
      /\ reg' = reg /\ jcfg' = jcfg /\ wcfg' = wcfg /\ url' = url /\ lastSta' = lastSta
  BY DEF ec_task
<1>5. WholeSavesConfigure' /\ FlashOK(flash') /\ BoundsOK'
  BY <1>4, FlashUntouched DEF IndInv, TypeOK, BoundsOK
<1>6. Head(taskQ) = "SIG_LG" => reg /\ flash.flag
  BY <1>2 DEF IndInv, LoginNeedsRegistration
<1>7. /\ opmode' \in {"none", "softap", "station"}
      /\ server' \in BOOLEAN /\ polling' \in BOOLEAN
      /\ sta' \in {"idle", "connecting", "failed", "gotip"}
      /\ {staCfg', http', session'} \subseteq Contents
      /\ http' # None => jcfg # None /\ wcfg # None
      /\ session' # None => reg /\ flash.flag
  <2>1. /\ None \in Contents
        /\ session # None => reg /\ flash.flag
    BY DEF Contents, IndInv, LoginNeedsRegistration
  <2>2. CASE Head(taskQ) = "SIG_CG" /\ ServeAsAccessPoint
    BY <2>1, <2>2 DEF ServeAsAccessPoint, net, IndInv, TypeOK, ToldBeforeAsking
  <2>3. CASE Head(taskQ) = "SIG_ST" /\ wifi_connect
    BY <2>1, <2>3 DEF wifi_connect, IndInv, TypeOK, ToldBeforeAsking
  <2>4. CASE Head(taskQ) = "SIG_RG" /\ http_register_jab
    BY <2>1, <2>4 DEF http_register_jab, IndInv, TypeOK, ToldBeforeAsking
  <2>5. CASE Head(taskQ) = "SIG_LG" /\ xmpp_init
    BY <1>6, <2>1, <2>5 DEF xmpp_init, IndInv, TypeOK, ToldBeforeAsking
  <2> QED
    BY <2>2, <2>3, <2>4, <2>5 DEF ec_task
<1>8. TypeOK'
  BY <1>3, <1>4, <1>5, <1>7 DEF IndInv, TypeOK, TaskQOK, FlashOK, BoundsOK
<1>9. Account'
  <2>1. /\ bounds.posts = 0 => url = None /\ http = None /\ ~flash.flag
        /\ bounds.posts <= 1 /\ reg => jcfg = flash.j
        /\ http # None => session = None
        /\ (session # None /\ bounds.posts <= 1) => session = flash.j
    BY DEF IndInv, Account, UntoldIsBlank, ToldIsSaved, OneConnection, SavedAccount
  <2>2. /\ bounds.posts = 0 => http' = None
        /\ http' # None => session' = None
        /\ (session' # None /\ bounds.posts <= 1) => session' = flash.j
    <3>1. CASE Head(taskQ) = "SIG_CG" /\ ServeAsAccessPoint
      BY <2>1, <3>1 DEF ServeAsAccessPoint, net
    <3>2. CASE Head(taskQ) = "SIG_ST" /\ wifi_connect
      BY <2>1, <3>2 DEF wifi_connect
    <3>3. CASE Head(taskQ) = "SIG_RG" /\ http_register_jab
      BY <2>1, <3>3 DEF http_register_jab
    <3>4. CASE Head(taskQ) = "SIG_LG" /\ xmpp_init
      BY <1>6, <2>1, <3>4 DEF xmpp_init
    <3> QED
      BY <3>1, <3>2, <3>3, <3>4 DEF ec_task
  <2> QED
    BY <1>4, <2>1, <2>2 DEF Account, UntoldIsBlank, ToldIsSaved, OneConnection, SavedAccount
<1> QED
  BY <1>3, <1>4, <1>5, <1>7, <1>8, <1>9
     DEF IndInv, OffIsBlank, RegisteredInFlash, ToldBeforeAsking, FirstSignal,
         LoginNeedsRegistration, Account, SavedAccount

\* A configuration arrives.
LEMMA ServerKeepsInv ==
    ASSUME IndInv, server_recv_data
    PROVE  IndInv'
<1>1. PICK c \in Configs : jcfg' = c /\ wcfg' = c /\ url' \in UrlAfter(c)
  BY DEF server_recv_data
<1>2. "SIG_ST" \in Signals /\ TaskQOK
  BY DEF Signals, IndInv, TypeOK, TaskQOK
<1>3. TaskQOK' /\ (taskQ' = taskQ \/ taskQ' = <<"SIG_ST">>)
  BY <1>2, Posted DEF server_recv_data
<1>4. BoundsOK' /\ bounds'.cuts = bounds.cuts /\ bounds'.posts = bounds.posts + 1
  BY Used, BoundNames DEF server_recv_data, IndInv, TypeOK, BoundsOK
<1>5. WholeSavesConfigure' /\ FlashOK(flash')
  BY <1>4, FlashUntouched DEF server_recv_data
<1>6. jcfg' # None /\ wcfg' # None /\ {jcfg', wcfg', url'} \subseteq Contents
  BY <1>1, ProvisionAssumption DEF UrlAfter, Contents
<1>7. TypeOK'
  BY <1>3, <1>4, <1>5, <1>6
     DEF server_recv_data, net, IndInv, TypeOK, TaskQOK, FlashOK, BoundsOK
<1>8. taskQ # <<"SIG_CG">>
  BY DEF server_recv_data, IndInv, FirstSignal
<1>9. /\ taskQ' # <<"SIG_CG">>
      /\ taskQ' = <<"SIG_LG">> => taskQ = <<"SIG_LG">>
  BY <1>3, <1>8
<1>10. Account'
  <2>1. bounds.posts \in Nat
    BY BoundNames DEF IndInv, TypeOK
  <2>2. bounds'.posts # 0 /\ (bounds'.posts <= 1 => bounds.posts = 0 /\ bounds.posts <= 1)
    BY <1>4, <2>1
  <2>3. bounds.posts = 0 => ~flash.flag /\ ~reg /\ session = None
    BY DEF IndInv, Account, UntoldIsBlank, RegisteredInFlash, LoginNeedsRegistration
  <2>4. UNCHANGED <<flash, reg, http, session>>
    BY DEF server_recv_data, net
  <2>5. http # None => session = None
    BY DEF IndInv, Account, OneConnection
  <2> QED
    BY <2>2, <2>3, <2>4, <2>5
       DEF Account, UntoldIsBlank, ToldIsSaved, OneConnection, SavedAccount
<1> QED
  BY <1>5, <1>6, <1>7, <1>9, <1>10
     DEF server_recv_data, net, IndInv, OffIsBlank, RegisteredInFlash, ToldBeforeAsking,
         FirstSignal, LoginNeedsRegistration, Account, SavedAccount

\* The status of the station changes, and nothing else but a bound.
LEMMA StationKeepsInv ==
    ASSUME IndInv, on, sta' \in {"idle", "connecting", "failed", "gotip"},
           UNCHANGED <<on, flash, ram, staCfg, http, session>>,
           BoundsOK', bounds'.cuts = bounds.cuts, bounds'.posts = bounds.posts
    PROVE  IndInv'
<1>1. WholeSavesConfigure' /\ FlashOK(flash')
  BY FlashUntouched
<1>2. TypeOK'
  BY <1>1 DEF ram, IndInv, TypeOK, FlashOK, BoundsOK
<1>3. Account'
  BY AccountUntouched DEF ram
<1> QED
  BY <1>1, <1>2, <1>3
     DEF ram, IndInv, OffIsBlank, RegisteredInFlash, ToldBeforeAsking, FirstSignal,
         LoginNeedsRegistration, Account, SavedAccount

\* The three changes of the station's status.
LEMMA AssociationKeepsInv ==
    ASSUME IndInv, StaAssociate \/ StaFail \/ StaDrop
    PROVE  IndInv'
<1>1. /\ on /\ sta' \in {"idle", "connecting", "failed", "gotip"}
      /\ UNCHANGED <<on, flash, ram, staCfg, http, session>>
  BY DEF StaAssociate, StaFail, StaDrop
<1>2. BoundsOK' /\ bounds'.cuts = bounds.cuts /\ bounds'.posts = bounds.posts
  <2>1. BoundsOK
    BY DEF IndInv, TypeOK, BoundsOK
  <2>2. CASE bounds' = bounds
    BY <2>1, <2>2 DEF BoundsOK
  <2>3. CASE Use("fails") \/ Use("flaps")
    BY <2>1, <2>3, Used, BoundNames
  <2> QED
    BY <2>2, <2>3 DEF StaAssociate, StaFail, StaDrop
<1> QED
  BY <1>1, <1>2, StationKeepsInv

\* A tick of the timer that watches the station.
LEMMA TickKeepsInv ==
    ASSUME IndInv, wifi_check_ip
    PROVE  IndInv'
<1> DEFINE sig == IF reg THEN "SIG_LG" ELSE "SIG_RG"
<1>1. sig \in Signals /\ TaskQOK
  BY DEF Signals, IndInv, TypeOK, TaskQOK
<1>2. TaskQOK' /\ (taskQ' = taskQ \/ taskQ' = <<sig>>)
  <2>1. CASE UNCHANGED taskQ
    BY <1>1, <2>1 DEF TaskQOK
  <2>2. CASE system_os_post(sig)
    BY <1>1, <2>2, Posted
  <2> QED
    BY <2>1, <2>2 DEF wifi_check_ip, wifiConnectCb
<1>3. /\ sta' \in {"idle", "connecting", "failed", "gotip"}
      /\ lastSta' \in {"idle", "connecting", "failed", "gotip"}
  BY DEF wifi_check_ip, IndInv, TypeOK
<1>4. WholeSavesConfigure' /\ FlashOK(flash')
  BY FlashUntouched DEF wifi_check_ip
<1>5. TypeOK'
  BY <1>2, <1>3, <1>4 DEF wifi_check_ip, IndInv, TypeOK, TaskQOK, FlashOK
<1>6. taskQ # <<"SIG_CG">>
  BY DEF wifi_check_ip, IndInv, FirstSignal
<1>7. /\ taskQ' # <<"SIG_CG">>
      /\ taskQ' = <<"SIG_LG">> => taskQ = <<"SIG_LG">> \/ reg
  BY <1>2, <1>6
<1>8. Account'
  BY AccountUntouched DEF wifi_check_ip
<1> QED
  BY <1>4, <1>5, <1>7, <1>8
     DEF wifi_check_ip, IndInv, OffIsBlank, RegisteredInFlash, ToldBeforeAsking, FirstSignal,
         LoginNeedsRegistration, Account, SavedAccount

\* The registration is accepted and saved.
LEMMA SuccessKeepsInv ==
    ASSUME IndInv, HttpSuccess
    PROVE  IndInv'
<1>1. on /\ http \in Configs /\ http # None
  BY ProvisionAssumption DEF HttpSuccess, Answered
<1>2. /\ FlashOK(flash) /\ jcfg \in Contents /\ wcfg \in Contents
      /\ jcfg # None /\ wcfg # None
  BY <1>1 DEF IndInv, TypeOK, FlashOK, ToldBeforeAsking
<1>3. reg' = TRUE /\ flash' = FlashAfter(5)
  BY FiveOps DEF HttpSuccess, CFG_Save
<1>4. FlashOK(flash')
  BY <1>2, <1>3, FlashAfterType
<1>5. flash'.flag /\ flash'.j # None /\ flash'.w # None /\ flash'.j = jcfg
  BY <1>2, <1>3, WholeSave
<1>6. "SIG_LG" \in Signals /\ TaskQOK
  BY DEF Signals, IndInv, TypeOK, TaskQOK
<1>7. TaskQOK' /\ (taskQ' = taskQ \/ taskQ' = <<"SIG_LG">>)
  BY <1>6, Posted DEF HttpSuccess
<1>8. taskQ # <<"SIG_CG">>
  BY <1>1 DEF IndInv, FirstSignal
<1>9. taskQ' # <<"SIG_CG">>
  BY <1>7, <1>8
<1>10. TypeOK'
  BY <1>3, <1>4, <1>7 DEF HttpSuccess, IndInv, TypeOK, TaskQOK, FlashOK, Contents
<1>11. Account'
  <2>1. bounds.posts # 0 /\ session = None
    BY <1>1 DEF IndInv, Account, UntoldIsBlank, OneConnection
  <2>2. bounds' = bounds /\ jcfg' = jcfg /\ http' = None /\ session' = session
    BY DEF HttpSuccess
  <2> QED
    BY <1>5, <2>1, <2>2 DEF Account, UntoldIsBlank, ToldIsSaved, OneConnection, SavedAccount
<1> QED
  BY <1>1, <1>2, <1>3, <1>5, <1>9, <1>10, <1>11
     DEF HttpSuccess, IndInv, OffIsBlank, RegisteredInFlash, ToldBeforeAsking, FirstSignal,
         LoginNeedsRegistration, Account, SavedAccount, WholeSavesConfigure, RegisteredMeansConfigured

\* CFG_Save is cut short.
LEMMA CutKeepsInv ==
    ASSUME IndInv, HttpSuccessCutShort
    PROVE  IndInv'
<1>1. FlashOK(flash) /\ jcfg \in Contents /\ wcfg \in Contents /\ BoundsOK
  BY DEF IndInv, TypeOK, FlashOK, BoundsOK
<1>2. FlashOK(flash')
  BY <1>1, FiveOps, FlashAfterType DEF HttpSuccessCutShort
<1>3. BoundsOK' /\ bounds'.cuts # 0 /\ bounds'.posts = bounds.posts
  BY <1>1, Used, BoundNames DEF HttpSuccessCutShort
<1>4. bounds.posts # 0
  <2>1. http # None
    BY ProvisionAssumption DEF HttpSuccessCutShort, Answered
  <2> QED
    BY <2>1 DEF IndInv, Account, UntoldIsBlank
<1> QED
  BY <1>2, <1>3, <1>4, LostKeepsInv DEF HttpSuccessCutShort

\* Power is lost between two handlers.
LEMMA PowerLossKeepsInv ==
    ASSUME IndInv, PowerLoss
    PROVE  IndInv'
<1>1. FlashOK(flash) /\ BoundsOK
  BY DEF IndInv, TypeOK, FlashOK, BoundsOK
<1>2. BoundsOK' /\ bounds'.cuts = bounds.cuts /\ bounds'.posts = bounds.posts
  BY <1>1, Used, BoundNames DEF PowerLoss
<1> QED
  BY <1>1, <1>2, LostKeepsInv DEF PowerLoss, FlashOK

\* The registration is refused.
LEMMA RefusedKeepsInv ==
    ASSUME IndInv, HttpRefused
    PROVE  IndInv'
<1>1. BoundsOK' /\ bounds'.cuts = bounds.cuts /\ bounds'.posts = bounds.posts
  BY Used, BoundNames DEF HttpRefused, IndInv, TypeOK, BoundsOK
<1>2. WholeSavesConfigure' /\ FlashOK(flash')
  BY <1>1, FlashUntouched DEF HttpRefused
<1>3. TypeOK'
  BY <1>1, <1>2 DEF HttpRefused, ram, IndInv, TypeOK, FlashOK, BoundsOK, Contents
<1>4. Account'
  BY <1>1 DEF HttpRefused, ram, IndInv, Account, UntoldIsBlank, ToldIsSaved, OneConnection,
              SavedAccount
<1> QED
  BY <1>2, <1>3, <1>4
     DEF HttpRefused, ram, IndInv, OffIsBlank, RegisteredInFlash, ToldBeforeAsking,
         FirstSignal, LoginNeedsRegistration, Account, SavedAccount

\* The session asks for another login.
LEMMA ErrorKeepsInv ==
    ASSUME IndInv, j_error
    PROVE  IndInv'
<1>1. "SIG_LG" \in Signals /\ TaskQOK
  BY DEF Signals, IndInv, TypeOK, TaskQOK
<1>2. TaskQOK' /\ (taskQ' = taskQ \/ taskQ' = <<"SIG_LG">>)
  BY <1>1, Posted DEF j_error
<1>3. WholeSavesConfigure' /\ FlashOK(flash')
  BY FlashUntouched DEF j_error
<1>4. TypeOK'
  BY <1>2, <1>3 DEF j_error, net, IndInv, TypeOK, TaskQOK, FlashOK
<1>5. taskQ # <<"SIG_CG">> /\ reg /\ flash.flag
  BY DEF j_error, IndInv, FirstSignal, LoginNeedsRegistration
<1>6. taskQ' # <<"SIG_CG">>
  BY <1>2, <1>5
<1>7. Account'
  BY AccountUntouched DEF j_error, net
<1> QED
  BY <1>3, <1>4, <1>5, <1>6, <1>7
     DEF j_error, net, IndInv, OffIsBlank, RegisteredInFlash, ToldBeforeAsking, FirstSignal,
         LoginNeedsRegistration, Account, SavedAccount

\* Nothing changes.
LEMMA StutterKeepsInv ==
    ASSUME IndInv, UNCHANGED vars
    PROVE  IndInv'
<1>1. UNCHANGED <<on, flash, taskQ, bounds, reg, jcfg, wcfg, url, server, opmode, lastSta,
                  polling, sta, staCfg, http, session>>
  BY DEF vars, ram, net
<1>2. TypeOK'
  BY <1>1 DEF IndInv, TypeOK
<1>3. Account'
  BY <1>1, AccountUntouched
<1> QED
  BY <1>1, <1>2, <1>3
     DEF IndInv, OffIsBlank, RegisteredInFlash, ToldBeforeAsking, FirstSignal,
         LoginNeedsRegistration, Account, SavedAccount, WholeSavesConfigure, RegisteredMeansConfigured

---------------------------------------------------------------------------
(* The theorems.                                                           *)

\* The strengthening: every step keeps it.
THEOREM Inductive == Spec => []IndInv
<1>1. IndInv /\ [Next]_vars => IndInv'
  <2> SUFFICES ASSUME IndInv, [Next]_vars PROVE IndInv'
    OBVIOUS
  <2>1. CASE Boot BY <2>1, BootKeepsInv
  <2>2. CASE PowerLoss BY <2>2, PowerLossKeepsInv
  <2>3. CASE ec_task BY <2>3, TaskKeepsInv
  <2>4. CASE server_recv_data BY <2>4, ServerKeepsInv
  <2>5. CASE StaAssociate \/ StaFail \/ StaDrop BY <2>5, AssociationKeepsInv
  <2>6. CASE wifi_check_ip BY <2>6, TickKeepsInv
  <2>7. CASE HttpSuccess BY <2>7, SuccessKeepsInv
  <2>8. CASE HttpSuccessCutShort BY <2>8, CutKeepsInv
  <2>9. CASE HttpRefused BY <2>9, RefusedKeepsInv
  <2>10. CASE j_error BY <2>10, ErrorKeepsInv
  <2>11. CASE UNCHANGED vars BY <2>11, StutterKeepsInv
  <2> QED
    BY <2>1, <2>2, <2>3, <2>4, <2>5, <2>6, <2>7, <2>8, <2>9, <2>10, <2>11 DEF Next
<1> QED
  BY <1>1, Initially, PTL DEF Spec

\* The variables keep their ranges: the task queue never holds two signals.
THEOREM TypeCorrect == Spec => []TypeOK
<1>1. IndInv => TypeOK
  BY DEF IndInv
<1> QED
  BY <1>1, Inductive, PTL

\* Whatever the interleaving of callbacks, faults and power losses, a pending
\* login and an open session mean a registration that was saved, and the session
\* of a device that was told one account has the saved one.
THEOREM LoginIsRegistered == Spec => []LoginNeedsRegistration
<1>1. IndInv => LoginNeedsRegistration
  BY DEF IndInv
<1> QED
  BY <1>1, Inductive, PTL

\* A device registered in flash finds both configurations there, if power never
\* cut CFG_Save short.
THEOREM WholeSavesAreEnough == Spec => []WholeSavesConfigure
<1>1. IndInv => WholeSavesConfigure
  BY DEF IndInv
<1> QED
  BY <1>1, Inductive, PTL

\* Only a device without registration opens its access point.
THEOREM OnlyUnregisteredServe == Spec => AccessPointOnlyUnregistered
<1> DEFINE Opens == opmode' = "softap" /\ opmode # "softap" => ~reg
<1>1. IndInv /\ [Next]_vars => [Opens]_vars
  <2> SUFFICES ASSUME IndInv, Next, opmode' = "softap", opmode # "softap"
               PROVE  ~reg
    BY DEF vars
  <2>1. CASE ec_task
    <3>1. taskQ \in Seq(Signals) /\ Len(taskQ) <= 1 /\ taskQ # <<>>
      BY <2>1 DEF IndInv, TypeOK, ec_task
    <3>2. taskQ = <<Head(taskQ)>>
      BY <3>1, OneSignal
    <3>3. Head(taskQ) = "SIG_CG"
      BY <2>1 DEF ec_task, wifi_connect, http_register_jab, xmpp_init
    <3> QED
      BY <3>2, <3>3 DEF IndInv, FirstSignal
  <2>2. CASE ~ec_task
    BY <2>2 DEF Next, Boot, PowerLoss, Lost, server_recv_data, StaAssociate, StaFail, StaDrop,
                wifi_check_ip, HttpSuccess, HttpSuccessCutShort, HttpRefused, j_error, ram, net
  <2> QED
    BY <2>1, <2>2
<1>2. [][Opens]_vars => AccessPointOnlyUnregistered
  BY PTL DEF AccessPointOnlyUnregistered
<1> QED
  BY <1>1, <1>2, Inductive, PTL DEF Spec
====
