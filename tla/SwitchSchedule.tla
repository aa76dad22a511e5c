---- MODULE SwitchSchedule ----
(***************************************************************************)
(* The plan of the socket: alarms that repeat by the day of the week and   *)
(* delays that act once.                                                   *)
(*   ec/user/user_json.c    json_parse_switch replaces the whole plan      *)
(*   ec/user/user_switch.c  the alarms, the list of delays, their timers   *)
(*   ec/user/user_time.c    the clock, its timer and its task              *)
(*   ec/user/user_muc.c     ec_switch prints the command for the relay     *)
(* Time is real time in milliseconds.  It and system_timestamp are counted *)
(* modulo a week, and the lengths of second, minute, day and week are      *)
(* parameters.  The calendar itself is in CalendarTime.                    *)
(***************************************************************************)
EXTENDS Integers, Sequences, FiniteSets

CONSTANTS
    MsPerSec, SecsPerMin, MinsPerDay, DaysPerWeek,
    AlarmMax,               \* EC_ALARM_MAX, the length of user_alarm
    Plans,                  \* the plans the server may send
    MaxCommands,            \* bound: plans received
    MaxTimeSets             \* bound: times received

MsPerMin    == SecsPerMin * MsPerSec
SecsPerDay  == SecsPerMin * MinsPerDay
SecsPerWeek == SecsPerDay * DaysPerWeek
MsPerWeek   == SecsPerWeek * MsPerSec
Days        == 0 .. DaysPerWeek - 1

\* An entry of switchList or sceneList.  kind is the form of "times": a list of
\* days, "8" for every day, "0" or a scene for once, or anything else.  `clear'
\* is false for a "time" or "enable" of a wrong length.
Entries == [kind : {"days", "daily", "once", "other"}, days : SUBSET Days,
            on : BOOLEAN, min : 0 .. MinsPerDay - 1, at : 0 .. SecsPerWeek - 1,
            clear : BOOLEAN]

ASSUME ScheduleAssumption ==
    /\ {MsPerSec, SecsPerMin, MinsPerDay, DaysPerWeek} \subseteq Nat \ {0}
    /\ AlarmMax \in Nat \ {0}
    /\ Plans \subseteq Seq(Entries)
    /\ MaxCommands \in Nat /\ MaxTimeSets \in Nat

VARIABLES
    now,                    \* real time in ms
    stamp,                  \* system_timestamp, in seconds
    left,                   \* ms until check_time_func, -1: system_time_timer is off
    posted,                 \* time_task_queue holds an event
    alarms,                 \* user_alarm, up to user_alarm_cout: each alarm at the
                            \* place of its entry in the plan
    nodes,                  \* the list of user_delay: serial numbers of its nodes
    timers,                 \* the armed timers: [node, on, at, left, plan]
    fired,                  \* history: the nodes whose timer fired
    lastNode,               \* serial number of the newest node
    plan,                   \* number of the plan in force
    relay,                  \* the last command printed
    acted,                  \* history: what ec_switch was last called for
    overrun,                \* an alarm was written past the end of user_alarm
    timeSets                \* times received so far

clockVars == <<now, left, posted, stamp>>
planVars  == <<alarms, nodes, timers, lastNode, plan>>
vars == <<clockVars, planVars, fired, relay, acted, overrun, timeSets>>

Nobody == [plan |-> 0, by |-> "nobody", on |-> FALSE, early |-> FALSE, at |-> <<0, 0>>]

Init ==
    /\ now = 0 /\ stamp = 0 /\ left = -1 /\ posted = FALSE
    /\ alarms = <<>> /\ nodes = {} /\ timers = {} /\ fired = {} /\ lastNode = 0
    /\ plan = 0
    /\ relay = "none" /\ acted = Nobody
    /\ overrun = FALSE /\ timeSets = 0

Running == ~overrun

\* ec_switch.
Command(on) == IF on THEN "AT+EC_POWERS=OFF" ELSE "AT+EC_POWERS=ON"

\* It is called for an entry of the plan p, or for a command; at is the day and
\* the minute for which an alarm is called.
Switch(on, who, p, early, at) ==
    /\ relay' = Command(on)
    /\ acted' = [plan |-> p, by |-> who, on |-> on, early |-> early, at |-> at]

---------------------------------------------------------------------------
(* The clock.                                                              *)

\* Slip: the period is given in a finer unit than milliseconds.
SetTime_Unit ==
    /\ Running /\ timeSets < MaxTimeSets
    /\ timeSets' = timeSets + 1
    /\ stamp' = now \div MsPerSec
    /\ left' = MsPerMin * MsPerSec
    /\ UNCHANGED <<now, posted, planVars, fired, relay, acted, overrun>>

\* on_time and timer_init: the server tells the time.
SetTime ==
    /\ Running /\ timeSets < MaxTimeSets
    /\ timeSets' = timeSets + 1
    /\ stamp' = now \div MsPerSec
    /\ left' = MsPerMin
    /\ UNCHANGED <<now, posted, planVars, fired, relay, acted, overrun>>

\* check_time_func.  With an event in the queue, system_os_post fails.
check_time_func ==
    /\ Running /\ left = 0
    /\ left' = MsPerMin
    /\ stamp' = (stamp + SecsPerMin) % SecsPerWeek
    /\ posted' = TRUE
    /\ UNCHANGED <<now, planVars, fired, relay, acted, overrun, timeSets>>

\* Slip: Sunday is day 1.
Wday_OneBased(s) == ((s \div SecsPerDay) % DaysPerWeek) + 1

Wday(s) == (s \div SecsPerDay) % DaysPerWeek
Minute(s) == (s \div SecsPerMin) % MinsPerDay

\* check_user_alarm: the places of the alarms of this day and minute.
DueAlarms(wday, minute) ==
    {i \in DOMAIN alarms : wday \in alarms[i].days /\ minute = alarms[i].min}

\* alarm_clock_check.  Of several alarms in one minute the last one prevails.
alarm_clock_check ==
    /\ Running /\ posted
    /\ posted' = FALSE
    /\ LET due == DueAlarms(Wday(stamp), Minute(stamp)) IN
          \/ due = {} /\ UNCHANGED <<relay, acted>>
          \/ \E i \in due :
                /\ \A j \in due : j <= i
                /\ Switch(alarms[i].on, "alarm", alarms[i].plan, FALSE,
                          <<Wday(stamp), Minute(stamp)>>)
    /\ UNCHANGED <<now, left, stamp, planVars, fired, overrun, timeSets>>

---------------------------------------------------------------------------
(* The plan.                                                               *)

\* What add_switch and add_scene may read from an entry: of one that is not
\* clear, variables nobody assigned.
Readings(e) ==
    {r \in [kind : {e.kind}, days : {e.days}, on : BOOLEAN, min : 0 .. MinsPerDay - 1,
            at : 0 .. SecsPerWeek - 1, clear : {e.clear}] : e.clear => r = e}

\* add_user_alarm, for an entry with days.
Alarm(e, p) ==
    [days |-> IF e.kind = "daily" THEN Days ELSE e.days,
     on |-> e.on, min |-> e.min, plan |-> p]

\* The places of the entries that add_user_alarm is called for, and what the
\* table holds after it.  A list of one day is a string of one character, and
\* of these only "8" makes an alarm.
Repeated(read) ==
    {i \in DOMAIN read : \/ read[i].kind = "daily"
                         \/ read[i].kind = "days" /\ Cardinality(read[i].days) > 1}

AlarmsOf(read, p) == [i \in Repeated(read) |-> Alarm(read[i], p)]

\* The places of the entries that add_user_delay is called for.
Delayed(read) ==
    {i \in DOMAIN read : read[i].kind = "once" /\ read[i].at > stamp}

\* add_user_delay: the difference of two times in seconds is given to
\* os_timer_arm, which takes milliseconds.
Timer(read, i, p) ==
    [node |-> lastNode + i, on |-> read[i].on, at |-> read[i].at,
     left |-> read[i].at - stamp, plan |-> p]

\* Slip: the plan is added to the one in force.
stop_all_user_alarm_Keeps(new) ==
    alarms' = [i \in DOMAIN alarms \union DOMAIN new |->
                 IF i \in DOMAIN alarms THEN alarms[i] ELSE new[i]]

\* stop_all_user_alarm, then the new alarms.
stop_all_user_alarm(new) == alarms' = new

\* Slip: the nodes are freed and their timers stay armed.
stop_all_user_delay_KeepsArmed(new) ==
    /\ nodes' = {t.node : t \in new}
    /\ timers' = timers \union new

\* stop_all_user_delay, then the new delays.
stop_all_user_delay(new) ==
    /\ nodes' = {t.node : t \in new}
    /\ timers' = new

\* json_parse_switch.
json_parse_switch ==
    /\ Running /\ plan < MaxCommands
    /\ plan' = plan + 1
    /\ \E p \in Plans :
       \E read \in [DOMAIN p -> UNION {Readings(p[i]) : i \in DOMAIN p}] :
          /\ \A i \in DOMAIN p : read[i] \in Readings(p[i])
          /\ LET new == AlarmsOf(read, plan') IN
                /\ stop_all_user_alarm(new)
                /\ overrun' = (Cardinality(DOMAIN new) > AlarmMax)
          /\ stop_all_user_delay({Timer(read, i, plan') : i \in Delayed(read)})
          /\ lastNode' = lastNode + Len(p)
    /\ UNCHANGED <<clockVars, fired, relay, acted, timeSets>>

\* json_parse_commamd hands ec_switch a variable it never assigned.
json_parse_commamd ==
    /\ Running
    /\ \E b \in BOOLEAN : Switch(b, "command", plan, FALSE, <<0, 0>>)
    /\ UNCHANGED <<clockVars, planVars, fired, overrun, timeSets>>

\* Slip: the timer is armed to repeat.
DelayFires_Repeats ==
    /\ Running
    /\ \E t \in timers :
          /\ t.left = 0
          /\ timers' = (timers \ {t}) \union {[t EXCEPT !.left = 1]}
          /\ fired' = fired \union {t.node}
          /\ Switch(t.on, "delay", t.plan, now \div MsPerSec < t.at, <<0, 0>>)
    /\ UNCHANGED <<clockVars, alarms, nodes, lastNode, plan, overrun, timeSets>>

\* switch_on or switch_off, for a timer of add_user_delay.  The node stays in
\* the list.
DelayFires ==
    /\ Running
    /\ \E t \in timers :
          /\ t.left = 0
          /\ timers' = timers \ {t}
          /\ fired' = fired \union {t.node}
          /\ Switch(t.on, "delay", t.plan, now \div MsPerSec < t.at, <<0, 0>>)
    /\ UNCHANGED <<clockVars, alarms, nodes, lastNode, plan, overrun, timeSets>>

---------------------------------------------------------------------------
\* A millisecond goes by.  The SDK's timers run when they are due, and its
\* task before the next tick of the minute.
Advance ==
    /\ Running
    /\ left # 0 /\ \A t \in timers : t.left # 0
    /\ ~(posted /\ left = 1)
    /\ now' = (now + 1) % MsPerWeek
    /\ left' = IF left > 0 THEN left - 1 ELSE left
    /\ timers' = {[t EXCEPT !.left = @ - 1] : t \in timers}
    /\ UNCHANGED <<stamp, posted, alarms, nodes, lastNode, plan, fired, relay,
                   acted, overrun, timeSets>>

Next ==
    \/ SetTime \/ check_time_func \/ alarm_clock_check
    \/ json_parse_switch \/ json_parse_commamd \/ DelayFires \/ Advance

Spec == Init /\ [][Next]_vars

\* Time goes on, timers fire and the task runs.
FairSpec ==
    /\ Spec
    /\ WF_vars(Advance) /\ WF_vars(check_time_func) /\ WF_vars(DelayFires)
    /\ WF_vars(alarm_clock_check)

---------------------------------------------------------------------------
(* Properties.                                                             *)

\* The ranges of the variables.
TypeOK ==
    /\ now \in 0 .. MsPerWeek - 1 /\ stamp \in 0 .. SecsPerWeek - 1
    /\ left \in -1 .. MsPerMin /\ posted \in BOOLEAN
    /\ DOMAIN alarms \subseteq Nat
    /\ alarms \in [DOMAIN alarms -> [days : SUBSET Days, on : BOOLEAN,
                                     min : 0 .. MinsPerDay - 1, plan : Nat]]
    /\ nodes \subseteq 1 .. lastNode /\ fired \subseteq 1 .. lastNode
    /\ lastNode \in Nat /\ plan \in 0 .. MaxCommands
    /\ timers \subseteq [node : 1 .. lastNode, on : BOOLEAN, at : Nat,
                         left : 0 .. SecsPerWeek, plan : 1 .. plan]
    /\ relay \in {"none", "AT+EC_POWERS=ON", "AT+EC_POWERS=OFF"}
    /\ acted \in [plan : 0 .. plan, by : {"nobody", "alarm", "delay", "command"},
                  on : BOOLEAN, early : BOOLEAN, at : Days \X (0 .. MinsPerDay - 1)]
    /\ overrun \in BOOLEAN /\ timeSets \in 0 .. MaxTimeSets

\* An armed timer lies in a node of the list.  One outside would be run from
\* memory that stop_all_user_delay freed, and no later call could disarm it.
TimersHaveNodes == \A t \in timers : t.node \in nodes

\* A plan that was replaced never acts again, through an alarm whose check
\* was posted before it was replaced or through a timer armed for it.
NoStaleEffect ==
    [][acted' # acted => acted'.plan = plan]_vars

\* The comment above ec_delay_t: a delay acts once only, also while its node
\* waits in the list to be freed with the plan.
DelayActsOnce ==
    /\ \A t \in timers : t.node \notin fired
    /\ \A s, t \in timers : s.node = t.node => s = t

\* On a clock that was set, the day and minute of every alarm in the table come:
\* it acts, or the last of several for that minute does, unless the plan is
\* replaced.  An entry for a single day is not among them: user_json.c:70 puts no
\* alarm into the table for it.
AlarmsAct ==
    \A p \in 1 .. MaxCommands, d \in Days, m \in 0 .. MinsPerDay - 1 :
        (plan = p /\ left >= 0 /\ DueAlarms(d, m) # {})
            ~> (\/ acted.by = "alarm" /\ acted.plan = p /\ acted.at = <<d, m>>
                \/ plan # p \/ overrun)

\* A delay does not act before its time.
DelayNotEarly == ~acted.early
====
