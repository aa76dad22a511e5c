---- MODULE I2cMaster ----
(***************************************************************************)
(* driver_lib/driver/i2c_master.c: the two wires of an I2C bus driven by   *)
(* hand, and a slave that knows of the master only what it sees on them.   *)
(* Every call of i2c_master_setDC is a step, so a call of the driver is a  *)
(* list of settings of the wires; where the list says so SDA is read.      *)
(*                                                                         *)
(* External: the application, which makes calls in the order of the        *)
(* protocol, the slave, which changes SDA only after SCL fell, and the     *)
(* wires: SDA is low if the master or the slave pulls it.                  *)
(***************************************************************************)
EXTENDS Naturals, Sequences, SequencesExt

CONSTANTS Bits,         \* 8
          Words,        \* the bytes on the bus, the first bit first
          ClearClocks   \* 28, the clocks of i2c_master_init

I2cAssumption ==
    /\ Bits \in Nat \ {0} /\ ClearClocks \in Nat
    /\ Words # {} /\ Words \subseteq [1..Bits -> {0, 1}]

\* 28 clocks are more than those of two bytes of 8 bits, and one more than a
\* multiple of the 9 of a byte and its acknowledge: the slave is not left
\* acknowledging.
I2cClocks == 2 * Bits < ClearClocks /\ ClearClocks % (Bits + 1) = 1

VARIABLES
    m_nLastSDA, m_nLastSCL,
    sda, scl,           \* what the master puts on the wires
    todo,               \* the settings the running call has still to make
    call,               \* the call that runs, or the last one
    retVal,             \* the bits it has read
    phase,              \* what the protocol lets the application call next
    slave,              \* what the slave does, its byte, the level it gives SDA, and
                        \* how many bits of a byte it gave or, up to one, how many
                        \* bytes it took since the start
    heard,              \* history: what the slave saw since the call began
    cut                 \* history: the reset came when the slave had a whole byte

i2cVars == <<m_nLastSDA, m_nLastSCL, sda, scl, todo, call, retVal, phase, slave, heard, cut>>

Modes  == {"idle", "takes", "acks", "gives", "waits", "deaf"}
Phases == {"idle", "address", "sent read", "sent write", "got read", "got write",
           "read", "answer", "stop"}

\* A setting of the wires, and one after which SDA is read.
DC(a, c)   == <<a, c, FALSE>>
GetDC(a, c) == <<a, c, TRUE>>

Repeat(n, s) == FlattenSeq([i \in 1..n |-> s])

\* The settings of i2c_master_start, _stop, _setAck, _getAck, _readByte and
\* _writeByte; where they hold a wire they take its last level.
Start == <<DC(1, m_nLastSCL), DC(1, 1), DC(0, 1)>>

\* Slip: i2c_master_stop that does not pull SDA first
StopFrom_High(lastSCL) == <<DC(0, lastSCL), DC(1, 1)>>

StopFrom(lastSCL) == <<DC(0, lastSCL), DC(0, 1), DC(1, 1)>>

setAck(level) ==
    <<DC(m_nLastSDA, 0), DC(level, 0), DC(level, 1), DC(level, 0), DC(1, 0)>>

getAck == <<DC(m_nLastSDA, 0), DC(1, 0), GetDC(1, 1), DC(1, 0)>>

readByte == <<DC(m_nLastSDA, 0)>> \o Repeat(Bits, <<DC(1, 0), GetDC(1, 1)>>) \o <<DC(1, 0)>>

\* Slip: i2c_master_writeByte that changes SDA while SCL is high
writeByte_NoLow(w) ==
    <<DC(m_nLastSDA, 0)>>
      \o FlattenSeq([i \in 1..Bits |-> <<DC(w[i], 0), DC(w[i], 1)>>])

writeByte(w) ==
    <<DC(m_nLastSDA, 0)>>
      \o FlattenSeq([i \in 1..Bits |-> <<DC(w[i], 0), DC(w[i], 1), DC(w[i], 0)>>])

\* Slip: i2c_master_init with fewer clocks
Clear_Nine ==
    <<DC(1, 0), DC(0, 0), DC(1, 0)>> \o Repeat(Bits + 1, <<DC(1, 0), DC(1, 1)>>)
      \o StopFrom(1)

\* i2c_master_init: clocks enough for a slave to come to the end of what it was
\* doing, then a stop.
Clear ==
    <<DC(1, 0), DC(0, 0), DC(1, 0)>> \o Repeat(ClearClocks, <<DC(1, 0), DC(1, 1)>>)
      \o StopFrom(1)

\* The slave, one that has put bit n of a byte on SDA, and one that leaves SDA
\* alone.
Slave(mode, byte, pull, n) == [mode |-> mode, byte |-> byte, pull |-> pull, n |-> n]

Giving(w, n) == Slave("gives", w, w[n], n)

Free(mode) == Slave(mode, <<>>, 1, 0)

\* i2c_master_gpio_init: the wires are high; the slave may be anywhere in a
\* transfer that a reset has cut.
I2cInit ==
    /\ m_nLastSDA = 0 /\ m_nLastSCL = 0
    /\ sda = 1 /\ scl = 1
    /\ todo = Clear /\ call = <<"init">> /\ retVal = <<>> /\ phase = "idle"
    /\ slave \in {Free("idle"), Free("deaf"), Slave("waits", <<1>>, 1, 0)}
              \union {Slave("takes", Append(SubSeq(w, 1, k - 1), 1), 1, n) :
                         w \in Words, k \in 1..Bits, n \in {0, 1}}
              \union {Giving(w, k) : w \in Words, k \in 1..Bits}
              \union {Slave("acks", w, 0, n) : w \in Words, n \in {0, 1}}
    /\ heard = <<>>
    /\ cut = (slave.mode = "takes" /\ Len(slave.byte) = Bits)

\* SCL fell: the slave takes its turn.
Turns(s) ==
    IF s.mode = "takes" /\ Len(s.byte) = Bits
    THEN {[slave |-> Slave("acks", s.byte, ack, s.n), hears |-> <<<<"byte", s.byte>>>>] :
            ack \in {0, 1}}
    ELSE IF s.mode = "acks"
    THEN {[slave |-> next, hears |-> <<<<"acks", s.pull>>>>] :
            next \in IF s.pull = 1 THEN {Free("deaf")}
                     ELSE IF s.n = 0 /\ s.byte[Bits] = 1 THEN {Giving(w, 1) : w \in Words}
                     ELSE {Slave("takes", <<>>, 1, 1)}}
    ELSE IF s.mode = "gives"
    THEN {IF s.n = Bits
          THEN [slave |-> Free("waits"), hears |-> <<<<"given", s.byte>>>>]
          ELSE [slave |-> Giving(s.byte, s.n + 1), hears |-> <<>>]}
    ELSE IF s.mode = "waits" /\ s.byte # <<>>
    THEN {[slave |-> next, hears |-> <<<<"answer", s.byte[1]>>>>] :
            next \in IF s.byte[1] = 1 THEN {Free("deaf")} ELSE {Giving(w, 1) : w \in Words}}
    ELSE {[slave |-> s, hears |-> <<>>]}

\* What the slave makes of a change of the wires, SDA as it sees it: a change of
\* SDA while SCL is high starts or stops, a rise of SCL tells a bit; if both
\* change at once nobody can say what the slave sees.
Reactions(s, oldSDA, oldSCL, newSDA, newSCL) ==
    IF oldSCL # newSCL /\ oldSDA # newSDA
    THEN {[slave |-> s, hears |-> <<<<"unclear">>>>]}
    ELSE IF oldSCL = 1 /\ newSCL = 1 /\ oldSDA # newSDA
    THEN {IF newSDA = 0
          THEN [slave |-> Free("takes"), hears |-> <<<<"start">>>>]
          ELSE [slave |-> Free("idle"), hears |-> <<<<"stop">>>>]}
    ELSE IF oldSCL = 0 /\ newSCL = 1 /\ s.mode \in {"takes", "waits"}
    THEN {[slave |-> [s EXCEPT !.byte = Append(@, newSDA)], hears |-> <<>>]}
    ELSE IF oldSCL = 1 /\ newSCL = 0
    THEN Turns(s)
    ELSE {[slave |-> s, hears |-> <<>>]}

\* i2c_master_setDC, and i2c_master_getDC where the call reads SDA.
i2c_master_setDC ==
    /\ todo # <<>>
    /\ LET a == todo[1][1]
           c == todo[1][2]
       IN  /\ m_nLastSDA' = a /\ m_nLastSCL' = c
           /\ sda' = a /\ scl' = c
           /\ \E r \in Reactions(slave, sda * slave.pull, scl, a * slave.pull, c) :
                 /\ slave' = r.slave
                 /\ heard' = heard \o r.hears
                 /\ retVal' = IF todo[1][3] THEN Append(retVal, a * r.slave.pull) ELSE retVal
    /\ todo' = Tail(todo)
    /\ UNCHANGED <<call, phase, cut>>

Call(c, settings, next) ==
    /\ call' = c /\ todo' = settings /\ phase' = next
    /\ heard' = <<>> /\ retVal' = <<>>
    /\ UNCHANGED <<m_nLastSDA, m_nLastSCL, sda, scl, slave, cut>>

\* The protocol: a byte is sent after a start or after one the slave
\* acknowledged, and its acknowledge is asked for; bytes are read while the
\* master acknowledges them; a start or a stop does not come while the slave
\* gives a byte.
Ready(phases) == todo = <<>> /\ phase \in phases

Acked == retVal = <<0>>

MayLeave == Ready({"got write", "stop"}) \/ (Ready({"got read"}) /\ ~Acked)

i2c_master_start ==
    /\ Ready({"idle"}) \/ MayLeave
    /\ Call(<<"start">>, Start, "address")

i2c_master_stop ==
    /\ MayLeave
    /\ Call(<<"stop">>, StopFrom(m_nLastSCL), "idle")

i2c_master_writeByte(w) ==
    /\ Ready({"address"}) \/ (Ready({"got write"}) /\ Acked)
    /\ Call(<<"byte", w>>, writeByte(w),
            IF phase = "address" /\ w[Bits] = 1 THEN "sent read" ELSE "sent write")

i2c_master_checkAck ==
    /\ Ready({"sent read", "sent write"})
    /\ Call(<<"check">>, getAck, IF phase = "sent read" THEN "got read" ELSE "got write")

i2c_master_readByte ==
    /\ Ready({"read"}) \/ (Ready({"got read"}) /\ Acked)
    /\ Call(<<"read">>, readByte, "answer")

\* i2c_master_send_ack and i2c_master_send_nack.
i2c_master_send_ack(level) ==
    /\ Ready({"answer"})
    /\ Call(<<"answer", level>>, setAck(level), IF level = 0 THEN "read" ELSE "stop")

I2cNext ==
    \/ i2c_master_setDC
    \/ i2c_master_start \/ i2c_master_stop
    \/ \E w \in Words : i2c_master_writeByte(w)
    \/ i2c_master_checkAck \/ i2c_master_readByte
    \/ \E level \in {0, 1} : i2c_master_send_ack(level)

I2cSpec == I2cInit /\ [][I2cNext]_i2cVars

I2cTypeOK ==
    /\ m_nLastSDA \in {0, 1} /\ m_nLastSCL \in {0, 1} /\ sda \in {0, 1} /\ scl \in {0, 1}
    /\ todo \in Seq({0, 1} \X {0, 1} \X BOOLEAN)
    /\ retVal \in Seq({0, 1}) /\ Len(retVal) <= Bits
    /\ phase \in Phases
    /\ slave.mode \in Modes /\ slave.pull \in {0, 1} /\ slave.n \in 0..Bits
    /\ slave.byte \in Seq({0, 1}) /\ Len(slave.byte) <= Bits
    /\ cut \in BOOLEAN

\* What a call means to the slave.
Meant ==
    IF call[1] = "check" THEN <<"acks", retVal[1]>>
    ELSE IF call[1] = "read" THEN <<"given", retVal>>
    ELSE call

\* Master and slave understand each other: i2c_master_init frees the bus
\* whatever a reset interrupted, and at the end of every later call the slave
\* has seen that call and nothing else, be it the byte the master sent, the
\* byte it read or the level of an acknowledge; no other change of the wires
\* passes for a start or a stop.  Not so after a reset at the last bit of a
\* byte: the slave may then pull SDA, for an acknowledge, when the stop comes.
I2cUnderstood ==
    (todo = <<>> /\ ~cut) =>
        IF call = <<"init">>
        THEN slave = Free("idle") /\ Last(heard) = <<"stop">>
        ELSE heard = <<Meant>>
====
