---- MODULE SwitchProofs ----
(***************************************************************************)
(* Proofs about SwitchSchedule: for every set of plans, every length of    *)
(* the week and any number of plans received, no timer outlives its node,  *)
(* a delay acts once, and nothing acts for a plan that was replaced.       *)
(***************************************************************************)
EXTENDS SwitchSchedule, ModArith

\* The parts of TypeOK that the proofs need; an armed timer belongs to the plan
\* in force.
ClockType == now \in Int /\ stamp \in Int /\ plan \in Nat /\ lastNode \in Nat

Timers == [node : Nat, on : BOOLEAN, at : Int, left : Int, plan : Nat]

TimerInv ==
    /\ timers \subseteq Timers
    /\ \A t \in timers : t.node \in 1 .. lastNode /\ t.plan = plan
    /\ fired \subseteq 1 .. lastNode

\* Every alarm in the table is one of the plan in force.
AlarmInv == \A i \in DOMAIN alarms : alarms[i].plan = plan

SwitchInv == ClockType /\ TimerInv /\ AlarmInv /\ TimersHaveNodes /\ DelayActsOnce

\* What is read from an entry is an entry, also where it is not clear.
LEMMA ReadingIsEntry ==
    ASSUME NEW e \in Entries, NEW r \in Readings(e)
    PROVE  r.on \in BOOLEAN /\ r.at \in Int
BY DEF Entries, Readings

\* A week has milliseconds.
LEMMA Product ==
    ASSUME NEW m \in Nat \ {0}, NEW n \in Nat \ {0}
    PROVE  m * n \in Nat \ {0}
OBVIOUS

LEMMA WeekPositive == MsPerWeek \in Nat \ {0} /\ SecsPerWeek \in Nat \ {0}
<1>1. SecsPerDay \in Nat \ {0}
  BY ScheduleAssumption, Product DEF SecsPerDay
<1>2. SecsPerWeek \in Nat \ {0}
  BY <1>1, ScheduleAssumption, Product DEF SecsPerWeek
<1>3. MsPerWeek \in Nat \ {0}
  BY <1>2, ScheduleAssumption, Product DEF MsPerWeek
<1> QED
  BY <1>2, <1>3

\* The timers of a new plan: one for each of its delays, in nodes that nothing
\* was called for before.
LEMMA NewTimers ==
    ASSUME ClockType, NEW q \in Nat, NEW p \in Seq(Entries), NEW read, DOMAIN read = DOMAIN p,
           \A i \in DOMAIN p : read[i] \in Readings(p[i]),
           NEW new, \A t \in new : \E i \in Delayed(read) : t = Timer(read, i, q)
    PROVE  /\ new \subseteq Timers
           /\ \A t \in new : /\ t.node \in lastNode + 1 .. lastNode + Len(p)
                             /\ t.plan = q
           /\ \A s, t \in new : s.node = t.node => s = t
<1>1. DOMAIN read = 1 .. Len(p) /\ Len(p) \in Nat
  OBVIOUS
<1>2. ASSUME NEW i \in 1 .. Len(p) PROVE read[i].on \in BOOLEAN /\ read[i].at \in Int
  <2>1. p[i] \in Entries /\ read[i] \in Readings(p[i])
    BY <1>1
  <2> QED
    BY <2>1, ReadingIsEntry
<1>3. ASSUME NEW t \in new
      PROVE  \E i \in 1 .. Len(p) : t = Timer(read, i, q)
  BY <1>1 DEF Delayed
<1>4. ASSUME NEW i \in 1 .. Len(p)
      PROVE  /\ Timer(read, i, q) \in Timers
             /\ Timer(read, i, q).node = lastNode + i
             /\ Timer(read, i, q).plan = q
  BY <1>2 DEF Timer, Timers, ClockType
<1>5. new \subseteq Timers /\ \A t \in new : t.plan = q
  BY <1>3, <1>4
<1>6. ASSUME NEW t \in new PROVE t.node \in lastNode + 1 .. lastNode + Len(p)
  <2>1. PICK i \in 1 .. Len(p) : t = Timer(read, i, q)
    BY <1>3
  <2> QED
    BY <1>1, <1>4, <2>1 DEF ClockType
<1>7. ASSUME NEW s \in new, NEW t \in new, s.node = t.node PROVE s = t
  <2>1. PICK i \in 1 .. Len(p) : s = Timer(read, i, q)
    BY <1>3
  <2>2. PICK j \in 1 .. Len(p) : t = Timer(read, j, q)
    BY <1>3
  <2>3. lastNode + i = lastNode + j
    BY <1>4, <1>7, <2>1, <2>2
  <2>4. i = j
    BY <1>1, <2>3 DEF ClockType
  <2> QED
    BY <2>1, <2>2, <2>4
<1> QED
  BY <1>5, <1>6, <1>7

\* json_parse_switch replaces the plan: the old timers go with their nodes.
LEMMA PlanStep == SwitchInv /\ json_parse_switch => SwitchInv'
<1> SUFFICES ASSUME SwitchInv, json_parse_switch PROVE SwitchInv'
  OBVIOUS
<1>1. /\ plan' = plan + 1 /\ UNCHANGED <<now, stamp, fired>>
      /\ plan' \in Nat
  BY DEF json_parse_switch, clockVars, SwitchInv, ClockType
<1>2. PICK p \in Plans :
       \E read \in [DOMAIN p -> UNION {Readings(p[i]) : i \in DOMAIN p}] :
          /\ \A i \in DOMAIN p : read[i] \in Readings(p[i])
          /\ alarms' = AlarmsOf(read, plan')
          /\ stop_all_user_delay({Timer(read, i, plan') : i \in Delayed(read)})
          /\ lastNode' = lastNode + Len(p)
  BY DEF json_parse_switch, stop_all_user_alarm
<1>3. PICK read \in [DOMAIN p -> UNION {Readings(p[i]) : i \in DOMAIN p}] :
          /\ \A i \in DOMAIN p : read[i] \in Readings(p[i])
          /\ alarms' = AlarmsOf(read, plan')
          /\ stop_all_user_delay({Timer(read, i, plan') : i \in Delayed(read)})
          /\ lastNode' = lastNode + Len(p)
  BY <1>2
<1> DEFINE new == {Timer(read, i, plan') : i \in Delayed(read)}
<1>4. p \in Seq(Entries) /\ Len(p) \in Nat
  BY ScheduleAssumption
<1>5. /\ new \subseteq Timers
      /\ \A t \in new : t.node \in lastNode + 1 .. lastNode + Len(p) /\ t.plan = plan'
      /\ \A s, t \in new : s.node = t.node => s = t
  <2>1. DOMAIN read = DOMAIN p /\ \A i \in DOMAIN p : read[i] \in Readings(p[i])
    BY <1>3
  <2>2. plan' \in Nat /\ ClockType
    BY <1>1 DEF SwitchInv
  <2>3. \A t \in new : \E i \in Delayed(read) : t = Timer(read, i, plan')
    OBVIOUS
  <2> HIDE DEF new
  <2> QED
    BY <1>4, <2>1, <2>2, <2>3, NewTimers
<1>6. timers' = new /\ nodes' = {t.node : t \in new}
  BY <1>3 DEF stop_all_user_delay
<1> HIDE DEF new
<1>7. lastNode \in Nat /\ lastNode' = lastNode + Len(p) /\ fired' \subseteq 1 .. lastNode
  BY <1>1, <1>3 DEF SwitchInv, ClockType, TimerInv
<1>8. ClockType'
  BY <1>1, <1>4, <1>7 DEF ClockType, SwitchInv
<1>9. TimerInv'
  <2>1. fired' \subseteq 1 .. lastNode'
    BY <1>4, <1>7
  <2>2. \A t \in new : t.node \in 1 .. lastNode'
    BY <1>4, <1>5, <1>7
  <2> QED
    BY <1>5, <1>6, <2>1, <2>2 DEF TimerInv
<1>10. AlarmInv'
  BY <1>3 DEF AlarmInv, AlarmsOf, Alarm
<1>11. TimersHaveNodes'
  BY <1>6 DEF TimersHaveNodes
<1>12. DelayActsOnce'
  <2>1. \A t \in new : t.node \notin fired'
    BY <1>4, <1>5, <1>7
  <2> QED
    BY <1>5, <1>6, <2>1 DEF DelayActsOnce
<1> QED
  BY <1>8, <1>9, <1>10, <1>11, <1>12 DEF SwitchInv

\* switch_on and switch_off: the timer that fired is not armed any more.
LEMMA FireStep == SwitchInv /\ DelayFires => SwitchInv'
<1> SUFFICES ASSUME SwitchInv, DelayFires PROVE SwitchInv'
  OBVIOUS
<1>1. PICK t \in timers : timers' = timers \ {t} /\ fired' = fired \union {t.node}
  BY DEF DelayFires
<1>2. UNCHANGED <<now, stamp, plan, lastNode, nodes, alarms>>
  BY DEF DelayFires, clockVars
<1>3. \A s \in timers' : s \in timers /\ s.node # t.node
  BY <1>1 DEF SwitchInv, DelayActsOnce
<1>4. TimerInv'
  BY <1>1, <1>2, <1>3 DEF SwitchInv, TimerInv
<1>5. DelayActsOnce' /\ TimersHaveNodes'
  BY <1>1, <1>2, <1>3 DEF SwitchInv, DelayActsOnce, TimersHaveNodes
<1> QED
  BY <1>2, <1>4, <1>5 DEF SwitchInv, ClockType, AlarmInv

\* Time goes by for every timer alike.
LEMMA AdvanceStep == SwitchInv /\ Advance => SwitchInv'
<1> SUFFICES ASSUME SwitchInv, Advance PROVE SwitchInv'
  OBVIOUS
<1>1. /\ timers' = {[t EXCEPT !.left = @ - 1] : t \in timers}
      /\ now' = (now + 1) % MsPerWeek
      /\ UNCHANGED <<stamp, plan, lastNode, nodes, alarms, fired>>
  BY DEF Advance
<1> DEFINE Later(t) == [t EXCEPT !.left = @ - 1]
<1>2. ASSUME NEW t \in timers
      PROVE  Later(t) \in Timers /\ Later(t).node = t.node /\ Later(t).plan = t.plan
  BY DEF SwitchInv, TimerInv, Timers
<1>3. \A u \in timers' : \E t \in timers : /\ u = Later(t)
                                           /\ u \in Timers /\ u.node = t.node /\ u.plan = t.plan
  <2>1. timers' = {Later(t) : t \in timers}
    BY <1>1
  <2> HIDE DEF Later
  <2> QED
    BY <2>1, <1>2, Zenon
<1>4. ClockType'
  <2>1. (now + 1) % MsPerWeek \in Int
    BY WeekPositive, DivMod DEF SwitchInv, ClockType
  <2> QED
    BY <1>1, <2>1 DEF SwitchInv, ClockType
<1>5. TimerInv'
  BY <1>1, <1>3 DEF SwitchInv, TimerInv
<1>6. TimersHaveNodes'
  BY <1>1, <1>3 DEF SwitchInv, TimersHaveNodes
<1>7. DelayActsOnce'
  <2>1. \A u \in timers' : u.node \notin fired'
    BY <1>1, <1>3 DEF SwitchInv, DelayActsOnce
  <2>2. ASSUME NEW u \in timers', NEW v \in timers', u.node = v.node PROVE u = v
    <3>1. PICK s \in timers : u = Later(s) /\ u.node = s.node
      BY <1>3
    <3>2. PICK t \in timers : v = Later(t) /\ v.node = t.node
      BY <1>3
    <3>3. s = t
      BY <2>2, <3>1, <3>2 DEF SwitchInv, DelayActsOnce
    <3> QED
      BY <3>1, <3>2, <3>3
  <2> QED
    BY <2>1, <2>2 DEF DelayActsOnce
<1> QED
  BY <1>1, <1>4, <1>5, <1>6, <1>7 DEF SwitchInv, AlarmInv

\* Every handler keeps the invariant.
LEMMA SwitchStep == SwitchInv /\ [Next]_vars => SwitchInv'
<1> SUFFICES ASSUME SwitchInv, [Next]_vars PROVE SwitchInv'
  OBVIOUS
<1> USE DEF SwitchInv, ClockType, TimerInv, AlarmInv, TimersHaveNodes, DelayActsOnce
<1>1. ASSUME UNCHANGED <<planVars, fired>>, now' \in Int, stamp' \in Int
      PROVE  SwitchInv'
  BY <1>1 DEF planVars
<1>2. CASE SetTime
  <2>1. now \div MsPerSec \in Int
    BY ScheduleAssumption, DivMod
  <2> QED
    BY <1>1, <1>2, <2>1 DEF SetTime
<1>3. CASE check_time_func
  <2> DEFINE t == stamp + SecsPerMin
  <2>1. t \in Int /\ SecsPerWeek \in Nat \ {0}
    BY ScheduleAssumption, WeekPositive
  <2>2. t % SecsPerWeek \in Int
    BY <2>1, DivMod
  <2> QED
    BY <1>1, <1>3, <2>2 DEF check_time_func
<1>4. CASE alarm_clock_check
  BY <1>1, <1>4 DEF alarm_clock_check
<1>5. CASE json_parse_commamd
  BY <1>1, <1>5 DEF json_parse_commamd, clockVars
<1>6. CASE UNCHANGED vars
  BY <1>1, <1>6 DEF vars, clockVars
<1> QED
  BY <1>2, <1>3, <1>4, <1>5, <1>6, PlanStep, FireStep, AdvanceStep DEF Next

LEMMA SwitchInvAlways == Spec => []SwitchInv
<1>1. Init => SwitchInv
  BY DEF Init, SwitchInv, ClockType, TimerInv, AlarmInv, TimersHaveNodes, DelayActsOnce
<1> QED
  BY <1>1, SwitchStep, PTL DEF Spec

---------------------------------------------------------------------------
(* Types.                                                                  *)

Alarms == [days : SUBSET Days, on : BOOLEAN, min : 0 .. MinsPerDay - 1, plan : Nat]

ActsOf(p) == [plan : 0 .. p, by : {"nobody", "alarm", "delay", "command"},
              on : BOOLEAN, early : BOOLEAN, at : Days \X (0 .. MinsPerDay - 1)]

TimersOf(p, n) == [node : 1 .. n, on : BOOLEAN, at : Nat, left : 0 .. SecsPerWeek, plan : 1 .. p]

\* The four parts of TypeOK: the clock, the alarms, the delays and the relay.
ClockOK ==
    /\ now \in 0 .. MsPerWeek - 1 /\ stamp \in 0 .. SecsPerWeek - 1
    /\ left \in -1 .. MsPerMin /\ posted \in BOOLEAN /\ timeSets \in 0 .. MaxTimeSets

AlarmsOK == DOMAIN alarms \subseteq Nat /\ alarms \in [DOMAIN alarms -> Alarms]

DelaysOK ==
    /\ nodes \subseteq 1 .. lastNode /\ fired \subseteq 1 .. lastNode
    /\ lastNode \in Nat /\ plan \in 0 .. MaxCommands
    /\ timers \subseteq TimersOf(plan, lastNode)

RelayOK ==
    /\ relay \in {"none", "AT+EC_POWERS=ON", "AT+EC_POWERS=OFF"}
    /\ acted \in ActsOf(plan)
    /\ overrun \in BOOLEAN

LEMMA TypeParts == TypeOK <=> ClockOK /\ AlarmsOK /\ DelaysOK /\ RelayOK
  BY DEF TypeOK, ClockOK, AlarmsOK, DelaysOK, RelayOK, Alarms, ActsOf, TimersOf

LEMMA TypePartsNext == TypeOK' <=> ClockOK' /\ AlarmsOK' /\ DelaysOK' /\ RelayOK'
  BY DEF TypeOK, ClockOK, AlarmsOK, DelaysOK, RelayOK, Alarms, ActsOf, TimersOf

\* The units of time are positive.
LEMMA Units ==
    /\ MsPerSec \in Nat \ {0} /\ SecsPerMin \in Nat \ {0}
    /\ MinsPerDay \in Nat \ {0} /\ DaysPerWeek \in Nat \ {0}
    /\ MsPerMin \in Nat \ {0} /\ SecsPerDay \in Nat \ {0}
    /\ SecsPerWeek \in Nat \ {0} /\ MsPerWeek \in Nat \ {0}
    /\ MsPerWeek = SecsPerWeek * MsPerSec
<1>1. MsPerMin \in Nat \ {0} /\ SecsPerDay \in Nat \ {0}
  BY ScheduleAssumption, Product DEF MsPerMin, SecsPerDay
<1> QED
  BY <1>1, ScheduleAssumption, WeekPositive, Zenon DEF MsPerWeek

\* A number below n rounds of m is in a round below n.
LEMMA RoundBelow ==
    ASSUME NEW m \in Nat \ {0}, NEW n \in Nat \ {0}, NEW a \in 0 .. n * m - 1
    PROVE  a \div m \in 0 .. n - 1
<1>1. /\ a \in Int /\ a % m \in 0 .. m - 1 /\ a \div m \in Int
      /\ a = m * (a \div m) + (a % m)
  BY DivMod
<1> DEFINE q == a \div m
<1>2. q \in Int /\ m * q <= a /\ a < m * q + m
  BY <1>1
<1> HIDE DEF q
<1>3. n * m \in Int /\ a < n * m /\ 0 <= a
  OBVIOUS
<1>4. q >= 0
  <2>1. CASE q <= -1
    <3>1. m * q <= -m
      BY <2>1, <1>2
    <3> QED
      BY <3>1, <1>2, <1>3
  <2> QED
    BY <2>1, <1>2
<1>5. q < n
  <2>1. CASE q >= n
    <3>1. m * q >= n * m
      BY <2>1, <1>2
    <3> QED
      BY <3>1, <1>2, <1>3
  <2> QED
    BY <2>1, <1>2
<1> QED
  BY <1>2, <1>4, <1>5 DEF q

\* The day and the minute of a moment of the week.
LEMMA WhenType ==
    ASSUME ClockOK
    PROVE  <<Wday(stamp), Minute(stamp)>> \in Days \X (0 .. MinsPerDay - 1)
<1>1. stamp \div SecsPerDay \in Int /\ stamp \div SecsPerMin \in Int
  BY Units, DivMod DEF ClockOK
<1>2. Wday(stamp) \in 0 .. DaysPerWeek - 1 /\ Minute(stamp) \in 0 .. MinsPerDay - 1
  BY <1>1, Units, DivMod DEF Wday, Minute
<1> QED
  BY <1>2 DEF Days

\* What is called for a plan not newer than p, acts for it.
LEMMA ActType ==
    ASSUME NEW p \in Nat, NEW q \in 0 .. p, NEW on \in BOOLEAN, NEW early \in BOOLEAN,
           NEW who \in {"alarm", "delay", "command"},
           NEW at \in Days \X (0 .. MinsPerDay - 1), Switch(on, who, q, early, at)
    PROVE  acted' \in ActsOf(p) /\ relay' \in {"none", "AT+EC_POWERS=ON", "AT+EC_POWERS=OFF"}
BY DEF Switch, Command, ActsOf

\* What is read from an entry of a plan has the fields of an entry.
LEMMA ReadingType ==
    ASSUME NEW e \in Entries, NEW r \in Readings(e)
    PROVE  /\ r.kind \in {"days", "daily", "once", "other"} /\ r.days \in SUBSET Days
           /\ r.on \in BOOLEAN /\ r.min \in 0 .. MinsPerDay - 1
           /\ r.at \in 0 .. SecsPerWeek - 1
BY DEF Entries, Readings

LEMMA InitTypes == Init => TypeOK
<1> SUFFICES ASSUME Init PROVE ClockOK /\ AlarmsOK /\ DelaysOK /\ RelayOK
  BY TypeParts
<1>1. ClockOK
  <2>1. /\ now = 0 /\ stamp = 0 /\ left = -1 /\ posted = FALSE /\ timeSets = 0
        /\ MaxTimeSets \in Nat
    BY ScheduleAssumption DEF Init
  <2>2. posted \in BOOLEAN
    BY <2>1
  <2>3. now \in 0 .. MsPerWeek - 1 /\ stamp \in 0 .. SecsPerWeek - 1 /\ left \in -1 .. MsPerMin
    BY <2>1, Units
  <2>4. timeSets \in 0 .. MaxTimeSets
    BY <2>1
  <2> QED
    BY <2>2, <2>3, <2>4 DEF ClockOK
<1>2. AlarmsOK
  BY DEF Init, AlarmsOK
<1>3. DelaysOK
  BY ScheduleAssumption DEF Init, DelaysOK
<1>4. <<0, 0>> \in Days \X (0 .. MinsPerDay - 1)
  BY Units DEF Days
<1>5. Nobody \in ActsOf(0)
  BY <1>4 DEF Nobody, ActsOf
<1>6. RelayOK
  BY <1>5 DEF Init, RelayOK
<1> QED
  BY <1>1, <1>2, <1>3, <1>6

\* A new plan has alarms and delays of its own, and the command of an earlier
\* one is still that of a plan not newer.
LEMMA PlanTypes == TypeOK /\ SwitchInv /\ json_parse_switch => TypeOK'
<1> SUFFICES ASSUME ClockOK, AlarmsOK, DelaysOK, RelayOK, SwitchInv, json_parse_switch
             PROVE  ClockOK' /\ AlarmsOK' /\ DelaysOK' /\ RelayOK'
  BY TypeParts, TypePartsNext
<1>1. /\ plan' = plan + 1 /\ UNCHANGED <<clockVars, fired, relay, acted, timeSets>>
      /\ plan < MaxCommands /\ overrun' \in BOOLEAN
  BY DEF json_parse_switch
<1>2. PICK p \in Plans :
       \E read \in [DOMAIN p -> UNION {Readings(p[i]) : i \in DOMAIN p}] :
          /\ \A i \in DOMAIN p : read[i] \in Readings(p[i])
          /\ alarms' = AlarmsOf(read, plan')
          /\ stop_all_user_delay({Timer(read, i, plan') : i \in Delayed(read)})
          /\ lastNode' = lastNode + Len(p)
  BY DEF json_parse_switch, stop_all_user_alarm
<1>3. PICK read \in [DOMAIN p -> UNION {Readings(p[i]) : i \in DOMAIN p}] :
          /\ \A i \in DOMAIN p : read[i] \in Readings(p[i])
          /\ alarms' = AlarmsOf(read, plan')
          /\ stop_all_user_delay({Timer(read, i, plan') : i \in Delayed(read)})
          /\ lastNode' = lastNode + Len(p)
  BY <1>2
<1>4. p \in Seq(Entries) /\ Len(p) \in Nat /\ DOMAIN p = 1 .. Len(p) /\ DOMAIN read = 1 .. Len(p)
  BY <1>3, ScheduleAssumption
<1>5. ASSUME NEW i \in 1 .. Len(p)
      PROVE  /\ read[i].kind \in {"days", "daily", "once", "other"} /\ read[i].days \in SUBSET Days
             /\ read[i].on \in BOOLEAN /\ read[i].min \in 0 .. MinsPerDay - 1
             /\ read[i].at \in 0 .. SecsPerWeek - 1
  <2>1. p[i] \in Entries /\ read[i] \in Readings(p[i])
    BY <1>3, <1>4
  <2> QED
    BY <2>1, ReadingType
<1>6. plan \in Nat /\ plan' \in 1 .. MaxCommands /\ plan' \in Nat
  BY <1>1, ScheduleAssumption DEF DelaysOK
<1>7. ClockOK'
  BY <1>1, Units DEF ClockOK, clockVars
<1>8. AlarmsOK'
  <2>1. ASSUME NEW i \in 1 .. Len(p) PROVE Alarm(read[i], plan') \in Alarms
    BY <1>5, <1>6 DEF Alarm, Alarms
  <2>2. Repeated(read) \subseteq 1 .. Len(p)
    BY <1>4 DEF Repeated
  <2>3. alarms' = [i \in Repeated(read) |-> Alarm(read[i], plan')]
    BY <1>3 DEF AlarmsOf
  <2>4. DOMAIN alarms' \subseteq Nat
    BY <2>2, <2>3, <1>4
  <2> QED
    BY <2>1, <2>2, <2>3, <2>4 DEF AlarmsOK
<1>9. DelaysOK'
  <2> DEFINE new == {Timer(read, i, plan') : i \in Delayed(read)}
  <2>1. lastNode \in Nat /\ lastNode' \in Nat /\ lastNode' = lastNode + Len(p)
    BY <1>3, <1>4 DEF DelaysOK
  <2>2. stamp \in 0 .. SecsPerWeek - 1
    BY DEF ClockOK
  <2>3. ASSUME NEW i \in Delayed(read)
        PROVE  Timer(read, i, plan') \in TimersOf(plan', lastNode')
    <3>1. i \in 1 .. Len(p) /\ read[i].at > stamp
      BY <1>4 DEF Delayed
    <3>2. read[i].at \in 0 .. SecsPerWeek - 1 /\ read[i].on \in BOOLEAN
      BY <3>1, <1>5
    <3>3. ASSUME NEW x \in 0 .. SecsPerWeek - 1, NEW y \in 0 .. SecsPerWeek - 1, x > y
          PROVE  x - y \in 0 .. SecsPerWeek /\ x \in Nat
      BY <3>3, Units
    <3>4. read[i].at - stamp \in 0 .. SecsPerWeek /\ read[i].at \in Nat
      BY <3>1, <3>2, <2>2, <3>3
    <3>5. lastNode + i \in 1 .. lastNode' /\ plan' \in 1 .. plan'
      BY <3>1, <2>1, <1>4, <1>6
    <3> QED
      BY <3>2, <3>4, <3>5 DEF Timer, TimersOf
  <2>4. timers' = new /\ nodes' = {t.node : t \in new}
    BY <1>3 DEF stop_all_user_delay
  <2>5. timers' \subseteq TimersOf(plan', lastNode')
    BY <2>3, <2>4
  <2>6. nodes' \subseteq 1 .. lastNode'
    BY <2>4, <2>5 DEF TimersOf
  <2>7. fired' \subseteq 1 .. lastNode'
    BY <1>1, <1>4, <2>1 DEF DelaysOK
  <2> QED
    BY <2>1, <2>5, <2>6, <2>7, <1>6 DEF DelaysOK
<1>10. RelayOK'
  <2>1. \A q \in 0 .. plan : q \in 0 .. plan'
    BY <1>1, <1>6
  <2>2. acted' \in ActsOf(plan')
    BY <1>1, <2>1 DEF RelayOK, ActsOf
  <2> QED
    BY <1>1, <2>2 DEF RelayOK
<1> QED
  BY <1>7, <1>8, <1>9, <1>10

\* The handlers of the clock.
LEMMA ClockTypes ==
    ASSUME TypeOK, SetTime \/ check_time_func
    PROVE  TypeOK'
<1>1. ClockOK /\ AlarmsOK /\ DelaysOK /\ RelayOK
  BY TypeParts, TypePartsNext
<1>2. UNCHANGED <<now, planVars, fired, relay, acted, overrun>>
  BY DEF SetTime, check_time_func
<1>3. AlarmsOK' /\ DelaysOK' /\ RelayOK'
  BY <1>1, <1>2 DEF AlarmsOK, DelaysOK, RelayOK, planVars
<1>4. left' = MsPerMin /\ posted' \in BOOLEAN
  BY <1>1 DEF SetTime, check_time_func, ClockOK
<1>5. timeSets' \in 0 .. MaxTimeSets
  BY <1>1, ScheduleAssumption DEF SetTime, check_time_func, ClockOK
<1>6. stamp' \in 0 .. SecsPerWeek - 1
  <2>1. CASE SetTime
    <3>1. now \in 0 .. SecsPerWeek * MsPerSec - 1
      BY <1>1, Units DEF ClockOK
    <3>2. now \div MsPerSec \in 0 .. SecsPerWeek - 1
      BY <3>1, Units, RoundBelow
    <3> QED
      BY <2>1, <3>2 DEF SetTime
  <2>2. CASE check_time_func
    <3>1. stamp + SecsPerMin \in Int
      BY <1>1, Units DEF ClockOK
    <3> QED
      BY <2>2, <3>1, Units, DivMod DEF check_time_func
  <2> QED
    BY <2>1, <2>2
<1>7. ClockOK'
  BY <1>1, <1>2, <1>4, <1>5, <1>6, Units DEF ClockOK
<1> QED
  BY <1>3, <1>7, TypeParts, TypePartsNext

\* What calls ec_switch: an alarm, the timer of a delay, a command.
LEMMA ActTypes ==
    ASSUME TypeOK, SwitchInv, alarm_clock_check \/ DelayFires \/ json_parse_commamd
    PROVE  TypeOK'
<1>1. ClockOK /\ AlarmsOK /\ DelaysOK /\ RelayOK /\ plan \in Nat
  BY TypeParts, TypePartsNext DEF DelaysOK
<1>2. /\ UNCHANGED <<now, left, stamp, alarms, nodes, lastNode, plan, overrun, timeSets>>
      /\ posted' \in BOOLEAN
  BY <1>1 DEF alarm_clock_check, DelayFires, json_parse_commamd, clockVars, planVars, ClockOK
<1>3. ClockOK' /\ AlarmsOK'
  BY <1>1, <1>2 DEF ClockOK, AlarmsOK
<1>4. DelaysOK'
  <2>1. CASE DelayFires
    <3>1. PICK t \in timers : timers' = timers \ {t} /\ fired' = fired \union {t.node}
      BY <2>1 DEF DelayFires
    <3>2. t.node \in 1 .. lastNode
      BY <1>1 DEF DelaysOK, TimersOf
    <3> QED
      BY <1>1, <1>2, <3>1, <3>2 DEF DelaysOK
  <2>2. CASE ~DelayFires
    <3>1. UNCHANGED <<timers, fired>>
      BY <2>2 DEF alarm_clock_check, json_parse_commamd, planVars
    <3> QED
      BY <1>1, <1>2, <3>1 DEF DelaysOK
  <2> QED
    BY <2>1, <2>2
<1>5. CASE acted' = acted /\ relay' = relay
  <2>1. RelayOK'
    BY <1>1, <1>2, <1>5 DEF RelayOK
  <2> QED
    BY <1>3, <1>4, <2>1, TypeParts, TypePartsNext
<1>6. ASSUME NEW on \in BOOLEAN, NEW early \in BOOLEAN, NEW who \in {"alarm", "delay", "command"},
             NEW at \in Days \X (0 .. MinsPerDay - 1), Switch(on, who, plan, early, at)
      PROVE  TypeOK'
  <2>1. plan \in 0 .. plan
    BY <1>1
  <2>2. acted' \in ActsOf(plan') /\ relay' \in {"none", "AT+EC_POWERS=ON", "AT+EC_POWERS=OFF"}
    BY <1>1, <1>2, <1>6, <2>1, ActType
  <2>3. RelayOK'
    BY <1>1, <1>2, <2>2 DEF RelayOK
  <2> QED
    BY <1>3, <1>4, <2>3, TypeParts, TypePartsNext
<1>7. <<0, 0>> \in Days \X (0 .. MinsPerDay - 1)
  BY Units DEF Days
<1>8. CASE alarm_clock_check /\ ~(acted' = acted /\ relay' = relay)
  <2> DEFINE when == <<Wday(stamp), Minute(stamp)>>
  <2>1. when \in Days \X (0 .. MinsPerDay - 1)
    BY <1>1, WhenType
  <2>2. PICK i \in DueAlarms(Wday(stamp), Minute(stamp)) :
            Switch(alarms[i].on, "alarm", alarms[i].plan, FALSE, when)
    BY <1>8 DEF alarm_clock_check
  <2>3. i \in DOMAIN alarms
    BY DEF DueAlarms
  <2>4. alarms[i].on \in BOOLEAN /\ alarms[i].plan = plan
    BY <1>1, <2>3 DEF AlarmsOK, Alarms, SwitchInv, AlarmInv
  <2> HIDE DEF when
  <2> QED
    BY <1>6, <2>1, <2>2, <2>4
<1>9. CASE DelayFires
  <2>1. PICK t \in timers : Switch(t.on, "delay", t.plan, now \div MsPerSec < t.at, <<0, 0>>)
    BY <1>9 DEF DelayFires
  <2>2. t.on \in BOOLEAN /\ t.plan = plan
    BY <1>1 DEF DelaysOK, TimersOf, SwitchInv, TimerInv
  <2>3. (now \div MsPerSec < t.at) \in BOOLEAN
    OBVIOUS
  <2> QED
    BY <1>6, <1>7, <2>1, <2>2, <2>3
<1>10. CASE json_parse_commamd
  <2>1. PICK b \in BOOLEAN : Switch(b, "command", plan, FALSE, <<0, 0>>)
    BY <1>10 DEF json_parse_commamd
  <2> QED
    BY <1>6, <1>7, <2>1
<1> QED
  BY <1>5, <1>8, <1>9, <1>10

\* Time goes by.
LEMMA AdvanceTypes == TypeOK /\ Advance => TypeOK'
<1> SUFFICES ASSUME ClockOK, AlarmsOK, DelaysOK, RelayOK, Advance
             PROVE  ClockOK' /\ AlarmsOK' /\ DelaysOK' /\ RelayOK'
  BY TypeParts, TypePartsNext
<1>1. /\ UNCHANGED <<stamp, posted, alarms, nodes, lastNode, plan, fired, relay, acted,
                     overrun, timeSets>>
      /\ left # 0 /\ left' = IF left > 0 THEN left - 1 ELSE left
      /\ now' = (now + 1) % MsPerWeek
  BY DEF Advance
<1>2. now' \in 0 .. MsPerWeek - 1
  <2>1. now + 1 \in Int
    BY Units DEF ClockOK
  <2> QED
    BY <1>1, <2>1, Units, DivMod
<1>3. left' \in -1 .. MsPerMin
  BY <1>1, Units DEF ClockOK
<1>4. ClockOK' /\ AlarmsOK' /\ RelayOK'
  BY <1>1, <1>2, <1>3 DEF ClockOK, AlarmsOK, RelayOK
<1> DEFINE Later(t) == [t EXCEPT !.left = @ - 1]
<1>5. ASSUME NEW t \in timers PROVE Later(t) \in TimersOf(plan, lastNode)
  <2>1. t \in TimersOf(plan, lastNode) /\ t.left # 0
    BY DEF Advance, DelaysOK
  <2>2. t.left - 1 \in 0 .. SecsPerWeek
    BY <2>1, Units DEF TimersOf
  <2> QED
    BY <2>1, <2>2 DEF TimersOf
<1>6. timers' \subseteq TimersOf(plan, lastNode)
  <2>1. timers' = {Later(t) : t \in timers}
    BY DEF Advance
  <2> HIDE DEF Later
  <2> QED
    BY <2>1, <1>5, Zenon
<1>7. DelaysOK'
  BY <1>1, <1>6 DEF DelaysOK
<1> QED
  BY <1>4, <1>7

\* For every set of plans and every length of the units of time: the ranges of
\* the clock, of the alarms, of the timers and of what acts.
THEOREM SwitchTypes == Spec => []TypeOK
<1>1. Init => TypeOK
  BY InitTypes
<1>2. TypeOK /\ SwitchInv /\ [Next]_vars => TypeOK'
  <2> SUFFICES ASSUME TypeOK, SwitchInv, [Next]_vars PROVE TypeOK'
    OBVIOUS
  <2>1. CASE UNCHANGED vars
    BY <2>1 DEF vars, clockVars, planVars, TypeOK
  <2> QED
    BY <2>1, PlanTypes, ClockTypes, ActTypes, AdvanceTypes DEF Next
<1> QED
  BY <1>1, <1>2, SwitchInvAlways, PTL DEF Spec

\* For every set of plans: an armed timer lies in a node of the list, also after
\* any number of plans replaced one another (stop_all_user_delay).
THEOREM TimersHaveNodesHolds == Spec => []TimersHaveNodes
<1>1. SwitchInv => TimersHaveNodes
  BY DEF SwitchInv
<1> QED
  BY <1>1, SwitchInvAlways, PTL

\* For every set of plans: no timer of a delay that acted is armed, and no two
\* timers share a node (add_user_delay, switch_on and switch_off).
THEOREM DelayActsOnceHolds == Spec => []DelayActsOnce
<1>1. SwitchInv => DelayActsOnce
  BY DEF SwitchInv
<1> QED
  BY <1>1, SwitchInvAlways, PTL

\* For every set of plans: whatever acts, acts for the plan in force, though the
\* check of the minute is posted before it looks at the alarms.
THEOREM NoStaleEffectHolds == Spec => NoStaleEffect
<1>1. SwitchInv /\ [Next]_vars => [acted' # acted => acted'.plan = plan]_vars
  <2> SUFFICES ASSUME SwitchInv, [Next]_vars, acted' # acted PROVE acted'.plan = plan
    OBVIOUS
  <2>1. CASE alarm_clock_check
    <3>1. PICK i \in DueAlarms(Wday(stamp), Minute(stamp)) :
             acted' = [plan |-> alarms[i].plan, by |-> "alarm", on |-> alarms[i].on,
                       early |-> FALSE, at |-> <<Wday(stamp), Minute(stamp)>>]
      BY <2>1 DEF alarm_clock_check, Switch
    <3>2. alarms[i].plan = plan
      BY DEF DueAlarms, SwitchInv, AlarmInv
    <3> QED
      BY <3>1, <3>2
  <2>2. CASE DelayFires
    <3>1. PICK t \in timers : acted'.plan = t.plan
      BY <2>2 DEF DelayFires, Switch
    <3> QED
      BY <3>1 DEF SwitchInv, TimerInv
  <2>3. CASE json_parse_commamd
    BY <2>3 DEF json_parse_commamd, Switch
  <2> QED
    BY <2>1, <2>2, <2>3 DEF Next, vars, SetTime, check_time_func, json_parse_switch, Advance
<1> QED
  BY <1>1, SwitchInvAlways, PTL DEF Spec, NoStaleEffect
====
