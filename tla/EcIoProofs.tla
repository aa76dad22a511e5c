---- MODULE EcIoProofs ----
(***************************************************************************)
(* Proofs about EcIo, for every size of the queue and every number of      *)
(* calls.                                                                  *)
(***************************************************************************)
EXTENDS EcIo, ModArith, SequenceTheorems

---------------------------------------------------------------------------
(* The inductive invariant.                                                *)

\* queue_font counts pushes without wrapping, queue_head wraps: they agree
\* with queue_count modulo the size.
Aligned == font % QueueSize = (head + count) % QueueSize

\* ec_send_flag allows a direct send only when the queue is seen as empty.
FlagMeansEmpty == sendFlag => queue_isEmty

\* On an undisturbed connection the flag is up or espconn owes a callback, until
\* queue_font passes EC_IO_QUEUE_SIZE.
FlagOrFrame ==
    ~disturbed => /\ link \in {"idle", "connecting"} => sendFlag
                  /\ link = "up" => sendFlag \/ inflight # <<>> \/ font >= QueueSize
                  /\ link # "down"

QueueInv == QueueHoldsFrames /\ Aligned

IndInv == TypeOK /\ QueueInv /\ OneFrameAtATime /\ FlagMeansEmpty /\ FlagOrFrame

QueueType ==
    /\ count \in 0 .. QueueSize - 1
    /\ head \in 0 .. QueueSize - 1
    /\ font \in Nat
    /\ slots \in [Slot -> Nat]

---------------------------------------------------------------------------
(* Sequences of frames.                                                    *)

\* The empty sequence of frames.
LEMMA NoFrames == <<>> \in Seq(Nat) /\ Len(<<>>) = 0
OBVIOUS

\* Between nothing and more than one.
LEMMA JustOne ==
    ASSUME NEW n \in Nat, n # 0, n <= 1
    PROVE  n = 1
OBVIOUS

\* A sequence of one frame.
LEMMA OneFrame ==
    ASSUME NEW q \in Seq(Nat), q # <<>>, Len(q) <= 1
    PROVE  Len(q) = 1 /\ Tail(q) = <<>>
<1>1. Len(q) = 1
  <2>1. Len(q) \in Nat
    BY LenProperties
  <2>2. Len(q) # 0
    BY EmptySeq
  <2> QED
    BY <2>1, <2>2, JustOne
<1>2. Tail(q) \in Seq(Nat) /\ Len(Tail(q)) = 0
  BY <1>1, HeadTailProperties
<1> QED
  BY <1>1, <1>2, EmptySeq

---------------------------------------------------------------------------
(* The operations of the queue.                                            *)

\* The size of the queue may be divided by.
LEMMA SizePositive == QueueSize \in Nat \ {0}
BY EcIoAssumption

\* The distance of a slot from head, without a remainder.
LEMMA Distance ==
    ASSUME NEW s \in Slot, QueueType
    PROVE  (s - head) % QueueSize = IF s >= head THEN s - head ELSE s - head + QueueSize
BY SizePositive, RingDifference DEF Slot, QueueType

\* Where the i-th frame from head is.
LEMMA Place ==
    ASSUME NEW i \in 0 .. QueueSize, QueueType
    PROVE  (head + i) % QueueSize =
              IF head + i < QueueSize THEN head + i ELSE head + i - QueueSize
BY SizePositive, RingSum DEF QueueType

\* A queue seen as empty is empty.  (The converse fails once queue_font has
\* passed EC_IO_QUEUE_SIZE.)
LEMMA EmptyMeansNone ==
    ASSUME QueueType, QueueInv, queue_isEmty
    PROVE  count = 0
<1>1. head % QueueSize = (head + 0) % QueueSize /\ (head + 0) % QueueSize = head
  BY EcIoAssumption, Place DEF QueueType
<1>2. (head + count) % QueueSize =
         IF head + count < QueueSize THEN head + count ELSE head + count - QueueSize
  BY EcIoAssumption, Place DEF QueueType
<1>3. head % QueueSize = (head + count) % QueueSize
  BY DEF QueueInv, Aligned, queue_isEmty
<1> QED
  BY <1>1, <1>2, <1>3, EcIoAssumption DEF QueueType

\* A queue without a frame that does not look empty is one whose font has passed
\* EC_IO_QUEUE_SIZE.
LEMMA DrainedAndNotEmpty ==
    ASSUME QueueType, QueueInv, count = 0, ~queue_isEmty
    PROVE  font >= QueueSize
<1> SUFFICES ASSUME font < QueueSize
             PROVE  FALSE
  BY EcIoAssumption DEF QueueType
<1>1. font % QueueSize = (head + 0) % QueueSize
  BY DEF QueueInv, Aligned
<1>2. (head + 0) % QueueSize = head
  BY EcIoAssumption, Place DEF QueueType
<1>3. font % QueueSize = font
  <2>1. font \in 0 .. QueueSize - 1
    BY EcIoAssumption DEF QueueType
  <2> QED
    BY <2>1, DivMod, RemainderIs, EcIoAssumption, SizePositive
<1> QED
  BY <1>1, <1>2, <1>3 DEF queue_isEmty

\* init_queue leaves a consistent, empty queue.
LEMMA InitQueue ==
    ASSUME init_queue
    PROVE  QueueType' /\ QueueInv' /\ count' = 0 /\ queue_isEmty'
<1>1. QueueType'
  BY EcIoAssumption DEF init_queue, QueueType, Slot, Null
<1>2. Aligned'
  BY DEF init_queue, Aligned
<1>3. QueueHoldsFrames'
  <2> SUFFICES ASSUME NEW s \in Slot
               PROVE  (slots[s] # Null <=> (s - head) % QueueSize < count)'
    BY DEF QueueHoldsFrames
  <2>1. (s - 0) % QueueSize \in 0 .. QueueSize - 1
    BY SizePositive, DivMod DEF Slot
  <2> QED
    BY <2>1 DEF init_queue, Null, Slot
<1> QED
  BY <1>1, <1>2, <1>3 DEF QueueInv, init_queue, queue_isEmty

\* queue_push keeps the queue consistent: it writes the slot after the last.
LEMMA Push ==
    ASSUME QueueType, QueueInv, NEW f \in Nat \ {0}, queue_push(f)
    PROVE  QueueType' /\ QueueInv'
<1>1. CASE count = QueueSize - 1
  BY <1>1 DEF queue_push, queueVars, QueueType, QueueInv, QueueHoldsFrames, Aligned
<1>2. CASE count # QueueSize - 1
  <2>1. /\ slots' = [slots EXCEPT ![font % QueueSize] = f]
        /\ count' = count + 1
        /\ font' = font + 1
        /\ head' = head
    BY <1>2 DEF queue_push
  <2>2. font % QueueSize \in Slot
    <3>1. font \in Int
      BY DEF QueueType
    <3> QED
      BY <3>1, SizePositive, DivMod DEF Slot
  <2>3. QueueType'
    BY <1>2, <2>1, <2>2, EcIoAssumption DEF QueueType
  <2>4. font % QueueSize =
           IF head + count < QueueSize THEN head + count ELSE head + count - QueueSize
    BY Place, EcIoAssumption DEF QueueInv, Aligned, QueueType
  <2>5. Aligned'
    <3>1. (font + 1) % QueueSize =
             IF font % QueueSize = QueueSize - 1 THEN 0 ELSE (font % QueueSize) + 1
      <4>1. font \in Int
        BY DEF QueueType
      <4> QED
        BY <4>1, SizePositive, RingSuccessor
    <3>2. (head + (count + 1)) % QueueSize =
             IF head + (count + 1) < QueueSize
             THEN head + (count + 1) ELSE head + (count + 1) - QueueSize
      BY <1>2, EcIoAssumption, Place DEF QueueType
    <3> QED
      BY <1>2, <2>1, <2>4, <3>1, <3>2, EcIoAssumption DEF Aligned, QueueType
  <2>6. QueueHoldsFrames'
    <3> SUFFICES ASSUME NEW s \in Slot
                 PROVE  slots'[s] # Null <=> (s - head) % QueueSize < count + 1
      BY <2>1 DEF QueueHoldsFrames
    <3>1. (s - head) % QueueSize = IF s >= head THEN s - head ELSE s - head + QueueSize
      BY Distance
    <3>2. slots[s] # Null <=> (s - head) % QueueSize < count
      BY DEF QueueInv, QueueHoldsFrames
    <3>3. CASE s = font % QueueSize
      <4>1. slots'[s] = f
        BY <2>1, <2>2, <3>3 DEF QueueType
      <4>2. (s - head) % QueueSize = count
        BY <2>4, <3>1, <3>3, EcIoAssumption DEF QueueType, Slot
      <4> QED
        BY <4>1, <4>2 DEF Null, QueueType
    <3>4. CASE s # font % QueueSize
      <4>1. slots'[s] = slots[s]
        BY <2>1, <3>4 DEF QueueType
      <4>2. (s - head) % QueueSize # count
        BY <2>4, <3>1, <3>4, EcIoAssumption DEF QueueType, Slot
      <4>3. (s - head) % QueueSize \in Int
        BY <3>1, EcIoAssumption DEF QueueType, Slot
      <4> QED
        BY <3>2, <4>1, <4>2, <4>3 DEF QueueType
    <3> QED
      BY <3>3, <3>4
  <2> QED
    BY <2>3, <2>5, <2>6 DEF QueueInv
<1> QED
  BY <1>1, <1>2

\* The head slot holds data exactly when some frame waits.
LEMMA HeadHoldsFrame ==
    ASSUME QueueType, QueueInv
    PROVE  slots[head] # Null <=> count > 0
<1>1. head \in Slot
  BY DEF QueueType, Slot
<1>2. (head - head) % QueueSize = 0
  BY <1>1, Distance DEF QueueType
<1>3. slots[head] # Null <=> (head - head) % QueueSize < count
  BY <1>1 DEF QueueInv, QueueHoldsFrames
<1> QED
  BY <1>2, <1>3 DEF QueueType

\* queue_pop keeps a queue that holds a frame consistent.
LEMMA Pop ==
    ASSUME QueueType, QueueInv, count > 0, queue_pop
    PROVE  QueueType' /\ QueueInv'
<1>1. /\ slots' = [slots EXCEPT ![head] = Null]
      /\ count' = count - 1
      /\ head' = (head + 1) % QueueSize
      /\ font' = font
  BY DEF queue_pop
<1>2. head' = IF head + 1 < QueueSize THEN head + 1 ELSE 0
  <2>1. (head + 1) % QueueSize =
           IF head + 1 < QueueSize THEN head + 1 ELSE head + 1 - QueueSize
    BY EcIoAssumption, Place
  <2> QED
    BY <1>1, <2>1, EcIoAssumption DEF QueueType
<1>3. head \in Slot /\ head' \in 0 .. QueueSize - 1
  BY <1>2, EcIoAssumption DEF QueueType, Slot
<1>4. QueueType'
  BY <1>1, <1>3, EcIoAssumption DEF QueueType, Null
<1>5. Aligned'
  <2>1. (head + count) % QueueSize =
           IF head + count < QueueSize THEN head + count ELSE head + count - QueueSize
    BY EcIoAssumption, Place DEF QueueType
  <2>2. (head' + count') % QueueSize =
           IF head' + count' < QueueSize THEN head' + count' ELSE head' + count' - QueueSize
    <3>1. count' \in 0 .. QueueSize
      BY <1>4, EcIoAssumption DEF QueueType
    <3> QED
      BY <1>3, <3>1, SizePositive, RingSum
  <2>3. (head' + count') % QueueSize = (head + count) % QueueSize
    BY <1>1, <1>2, <1>4, <2>1, <2>2, EcIoAssumption DEF QueueType
  <2> QED
    BY <1>1, <2>3 DEF QueueInv, Aligned
<1>6. QueueHoldsFrames'
  <2> SUFFICES ASSUME NEW s \in Slot
               PROVE  slots'[s] # Null <=> (s - head') % QueueSize < count'
    BY DEF QueueHoldsFrames
  <2>1. (s - head) % QueueSize = IF s >= head THEN s - head ELSE s - head + QueueSize
    BY Distance
  <2>2. (s - head') % QueueSize = IF s >= head' THEN s - head' ELSE s - head' + QueueSize
    BY <1>3, SizePositive, RingDifference DEF Slot
  <2>3. slots[s] # Null <=> (s - head) % QueueSize < count
    BY DEF QueueInv, QueueHoldsFrames
  <2>4. CASE s = head
    <3>1. slots'[s] = Null
      BY <1>1, <1>3, <2>4 DEF QueueType
    <3>2. (s - head') % QueueSize = QueueSize - 1
      BY <1>2, <2>2, <2>4, EcIoAssumption DEF QueueType, Slot
    <3>3. count' < QueueSize - 1
      BY <1>1, EcIoAssumption DEF QueueType
    <3> QED
      BY <3>1, <3>2, <3>3, <1>4, EcIoAssumption DEF QueueType
  <2>5. CASE s # head
    <3>1. slots'[s] = slots[s]
      BY <1>1, <2>5 DEF QueueType
    <3>2. (s - head') % QueueSize = ((s - head) % QueueSize) - 1
      <4>1. CASE s > head
        BY <1>2, <2>1, <2>2, <4>1, EcIoAssumption DEF QueueType, Slot
      <4>2. CASE s < head
        <5>1. (s - head) % QueueSize = s - head + QueueSize
          BY <2>1, <4>2 DEF QueueType, Slot
        <5>2. (s - head') % QueueSize = s - head + QueueSize - 1
          <6>1. CASE head + 1 < QueueSize
            BY <1>2, <2>2, <4>2, <6>1, EcIoAssumption DEF QueueType, Slot
          <6>2. CASE head + 1 = QueueSize
            BY <1>2, <2>2, <6>2, EcIoAssumption DEF QueueType, Slot
          <6> QED
            BY <6>1, <6>2, EcIoAssumption DEF QueueType
        <5> QED
          BY <5>1, <5>2, EcIoAssumption, SMTT(30) DEF QueueType, Slot
      <4> QED
        BY <2>5, <4>1, <4>2 DEF QueueType, Slot
    <3>3. (s - head) % QueueSize \in Int
      BY <2>1, EcIoAssumption DEF QueueType, Slot
    <3> QED
      BY <1>1, <2>3, <3>1, <3>2, <3>3 DEF QueueType
  <2> QED
    BY <2>4, <2>5
<1> QED
  BY <1>4, <1>5, <1>6 DEF QueueInv

\* When deinit_queue returns, it has removed exactly the frames that waited.
LEMMA Deinit ==
    ASSUME QueueType, QueueInv, DeinitReturns, deinit_queue
    PROVE  QueueType' /\ QueueInv' /\ count' = 0 /\ queue_isEmty'
<1>1. font \in 0 .. QueueSize - 1
  BY EcIoAssumption DEF QueueType, DeinitReturns
<1>2. font = IF head + count < QueueSize THEN head + count ELSE head + count - QueueSize
  <2>1. (head + count) % QueueSize =
           IF head + count < QueueSize THEN head + count ELSE head + count - QueueSize
    BY EcIoAssumption, Place DEF QueueType
  <2>2. font % QueueSize = font
    BY <1>1, DivMod, RemainderIs, EcIoAssumption, SizePositive
  <2> QED
    BY <2>1, <2>2 DEF QueueInv, Aligned
<1>3. (font - head) % QueueSize = count
  <2>1. (font - head) % QueueSize =
           IF font >= head THEN font - head ELSE font - head + QueueSize
    BY <1>1, Distance DEF Slot
  <2> QED
    BY <1>1, <1>2, <2>1, EcIoAssumption DEF QueueType
<1>4. /\ slots' = [s \in Slot |-> IF (s - head) % QueueSize < count THEN Null ELSE slots[s]]
      /\ count' = 0
      /\ head' = font
      /\ font' = font
  BY <1>3 DEF deinit_queue, QueueType
<1>5. \A s \in Slot : slots'[s] = Null
  BY <1>4 DEF QueueInv, QueueHoldsFrames
<1>6. QueueType'
  BY <1>1, <1>4, EcIoAssumption DEF QueueType, Null
<1>7. Aligned'
  BY <1>1, <1>4 DEF Aligned
<1>8. QueueHoldsFrames'
  <2> SUFFICES ASSUME NEW s \in Slot
               PROVE  slots'[s] # Null <=> (s - head') % QueueSize < count'
    BY DEF QueueHoldsFrames
  <2>1. (s - head') % QueueSize = IF s >= head' THEN s - head' ELSE s - head' + QueueSize
    BY <1>1, <1>4, SizePositive, RingDifference DEF Slot
  <2> QED
    BY <1>1, <1>4, <1>5, <2>1, EcIoAssumption DEF Slot
<1> QED
  BY <1>4, <1>6, <1>7, <1>8 DEF QueueInv, queue_isEmty

---------------------------------------------------------------------------
(* The steps of ec_io keep the invariant.                                  *)

\* ec_io_send, whatever the state l of the link it is called in.
LEMMA SendKeeps ==
    ASSUME IndInv, NEW l, ec_io_send(l)
    PROVE  /\ QueueType' /\ QueueInv' /\ OneFrameAtATime' /\ FlagMeansEmpty'
           /\ sends' \in Nat /\ sendFlag' \in BOOLEAN /\ disturbed' \in BOOLEAN
           /\ inflight' \in Seq(Nat) /\ wire' \in Seq(Nat)
           /\ font' >= font
           /\ ~disturbed' => ~disturbed
           /\ ~disturbed' /\ (sendFlag \/ inflight # <<>>) => sendFlag' \/ inflight' # <<>>
           /\ ~disturbed' /\ l # "up" /\ sendFlag => sendFlag'
<1>1. /\ QueueType /\ QueueInv
      /\ sendFlag \in BOOLEAN /\ disturbed \in BOOLEAN
      /\ inflight \in Seq(Nat) /\ wire \in Seq(Nat) /\ sends \in Nat
  BY DEF IndInv, TypeOK, QueueType
<1>2. sends' = sends + 1 /\ sends' \in Nat \ {0} /\ sends' \in Nat
  BY <1>1 DEF ec_io_send
<1>0. UNCHANGED queueVars \/ queue_push(sends') => font' >= font
  BY <1>1 DEF queueVars, queue_push, QueueType
<1>3. CASE queue_isEmty /\ sendFlag
  <2>1. SendDirect(l, sends')
    BY <1>3 DEF ec_io_send
  <2>2. inflight = <<>> /\ Len(inflight) = 0
    BY <1>1, <1>3 DEF IndInv, OneFrameAtATime
  <2>3. sendFlag' = FALSE
    BY <2>1 DEF SendDirect
  <2>4. PICK r \in SendResult(l, sends') :
           \/ r = "OK" /\ Accepted(sends', inflight) /\ UNCHANGED queueVars
           \/ r = "MAXNUM" /\ Refused(sends', inflight) /\ queue_push(sends')
           \/ r = "ERR" /\ Refused(sends', inflight) /\ UNCHANGED queueVars
    BY <2>1 DEF SendDirect
  <2>5. CASE r = "OK"
    <3>1. Accepted(sends', inflight) /\ UNCHANGED queueVars
      BY <2>4, <2>5
    <3>2. inflight' = <<sends'>> /\ wire' = Append(wire, sends') /\ disturbed' = disturbed
      BY <2>2, <3>1 DEF Accepted
    <3>3. QueueType' /\ QueueInv'
      BY <1>1, <3>1 DEF queueVars, QueueType, QueueInv, QueueHoldsFrames, Aligned
    <3>4. l = "up"
      BY <2>4, <2>5 DEF SendResult
    <3>5. inflight' \in Seq(Nat) /\ Len(inflight') = 1 /\ inflight' # <<>> /\ wire' \in Seq(Nat)
      BY <1>1, <1>2, <3>2
    <3>6. OneFrameAtATime' /\ FlagMeansEmpty'
      BY <2>3, <3>5 DEF OneFrameAtATime, FlagMeansEmpty
    <3>7. sendFlag' \in BOOLEAN /\ disturbed' \in BOOLEAN /\ (~disturbed' => ~disturbed)
      BY <1>1, <2>3, <3>2
    <3> QED
      BY <1>0, <1>2, <3>1, <3>3, <3>4, <3>5, <3>6, <3>7
  <2>6. CASE r # "OK"
    <3>1. Refused(sends', inflight) /\ (UNCHANGED queueVars \/ queue_push(sends'))
      BY <2>4, <2>6
    <3>2. inflight' = inflight /\ wire' = wire /\ disturbed' = TRUE
      BY <1>2, <3>1 DEF Refused, Null
    <3>3. QueueType' /\ QueueInv'
      <4>1. CASE UNCHANGED queueVars
        BY <1>1, <4>1 DEF queueVars, QueueType, QueueInv, QueueHoldsFrames, Aligned
      <4>2. CASE queue_push(sends')
        BY <1>1, <1>2, <4>2, Push
      <4> QED
        BY <3>1, <4>1, <4>2
    <3>4. OneFrameAtATime' /\ FlagMeansEmpty'
      BY <2>2, <2>3, <3>2 DEF OneFrameAtATime, FlagMeansEmpty
    <3>5. /\ sendFlag' \in BOOLEAN /\ disturbed' \in BOOLEAN
          /\ inflight' \in Seq(Nat) /\ wire' \in Seq(Nat)
      BY <1>1, <2>3, <3>2
    <3> QED
      BY <1>0, <1>2, <3>1, <3>2, <3>3, <3>4, <3>5
  <2> QED
    BY <2>5, <2>6
<1>4. CASE ~(queue_isEmty /\ sendFlag)
  <2>1. queue_push(sends') /\ UNCHANGED <<sendFlag, inflight, wire, disturbed>>
    BY <1>4 DEF ec_io_send, SendLater
  <2>2. ~sendFlag
    BY <1>4 DEF IndInv, FlagMeansEmpty
  <2>3. QueueType' /\ QueueInv'
    BY <1>1, <1>2, <2>1, Push
  <2> QED
    BY <1>0, <1>1, <1>2, <2>1, <2>2, <2>3 DEF IndInv, OneFrameAtATime, FlagMeansEmpty
<1> QED
  BY <1>3, <1>4

\* Steps that touch neither the queue nor what espconn holds.
LEMMA QueueUntouched ==
    ASSUME IndInv, UNCHANGED <<queueVars, sendFlag, inflight>>
    PROVE  QueueType' /\ QueueInv' /\ OneFrameAtATime' /\ FlagMeansEmpty'
BY DEF IndInv, TypeOK, QueueType, QueueInv, QueueHoldsFrames, Aligned, OneFrameAtATime,
       FlagMeansEmpty, queueVars, queue_isEmty

\* The types of the variables that are not part of the queue.
RestType ==
    /\ sendFlag \in BOOLEAN
    /\ ipKnown \in BOOLEAN /\ handle \in BOOLEAN
    /\ dnsPending \in Nat
    /\ link \in Links
    /\ inflight \in Seq(Nat)
    /\ fault \in Faults
    /\ sends \in Nat /\ connects \in Nat
    /\ wire \in Seq(Nat)
    /\ disturbed \in BOOLEAN

\* The type invariant, in a part on the queue and a part on the rest.
LEMMA TypeSplit == TypeOK <=> QueueType /\ RestType
BY DEF TypeOK, QueueType, RestType

\* ec_io_send keeps the invariant.
LEMMA SendStep == IndInv /\ Send => IndInv'
<1> SUFFICES ASSUME IndInv, Send PROVE IndInv'
  OBVIOUS
<1>1. ec_io_send(link) /\ UNCHANGED <<connVars, link, fault, connects>>
  BY DEF Send
<1>2. RestType
  BY TypeSplit DEF IndInv
<1>3. RestType'
  BY <1>1, <1>2, SendKeeps DEF RestType, connVars
<1>4. FlagOrFrame'
  <2> SUFFICES ASSUME ~disturbed'
               PROVE  /\ link \in {"idle", "connecting"} => sendFlag'
                      /\ link = "up" => sendFlag' \/ inflight' # <<>> \/ font' >= QueueSize
                      /\ link # "down"
    BY <1>1 DEF FlagOrFrame
  <2>1. ~disturbed /\ font' >= font /\ QueueType /\ QueueType'
    BY <1>1, SendKeeps, TypeSplit DEF IndInv
  <2>2. /\ link \in {"idle", "connecting"} => sendFlag
        /\ link = "up" => sendFlag \/ inflight # <<>> \/ font >= QueueSize
        /\ link # "down"
    BY <2>1 DEF IndInv, FlagOrFrame
  <2>3. font >= QueueSize => font' >= QueueSize
    BY <2>1, EcIoAssumption DEF QueueType
  <2> QED
    BY <1>1, <2>2, <2>3, SendKeeps
<1> QED
  BY <1>1, <1>3, <1>4, SendKeeps, TypeSplit DEF IndInv, TypeOK, QueueType, RestType

\* ec_connect_cb keeps the invariant, with the ec_io_send of its client.
LEMMA ConnectCbStep == IndInv /\ ConnectCb => IndInv'
<1> SUFFICES ASSUME IndInv, ConnectCb PROVE IndInv'
  OBVIOUS
<1>1. /\ link = "connecting" /\ link' = "up"
      /\ UNCHANGED <<connVars, fault, connects>>
  BY DEF ConnectCb
<1>2. RestType /\ (~disturbed => sendFlag)
  BY <1>1, TypeSplit DEF IndInv, FlagOrFrame
<1>3. CASE ec_io_send("up")
  <2>1. RestType'
    BY <1>1, <1>2, <1>3, SendKeeps DEF RestType, connVars, Links
  <2>2. FlagOrFrame'
    BY <1>1, <1>2, <1>3, SendKeeps DEF FlagOrFrame
  <2> QED
    BY <1>3, <2>1, <2>2, SendKeeps DEF IndInv, TypeOK, QueueType, RestType
<1>4. CASE UNCHANGED <<queueVars, sendFlag, inflight, sends, wire, disturbed>>
  <2>1. RestType'
    BY <1>1, <1>2, <1>4 DEF RestType, connVars, Links
  <2>2. FlagOrFrame'
    BY <1>1, <1>2, <1>4 DEF FlagOrFrame
  <2> QED
    BY <1>4, <2>1, <2>2, QueueUntouched DEF IndInv, TypeOK, QueueType, RestType
<1> QED
  BY <1>3, <1>4 DEF ConnectCb

\* ec_io_connet keeps the invariant: it starts the queue anew.
LEMMA ConnetStep == IndInv /\ Connet => IndInv'
<1> SUFFICES ASSUME IndInv, Connet PROVE IndInv'
  OBVIOUS
<1>1. RestType /\ connects' \in Nat /\ sends' = sends
  BY TypeSplit DEF IndInv, Connet, RestType
<1>2. CASE ~DeinitReturns
  <2>1. Hang
    BY <1>2 DEF Connet
  <2>2. RestType'
    BY <1>1, <2>1 DEF Hang, RestType, connVars, Faults
  <2>3. FlagOrFrame'
    BY <2>1 DEF IndInv, Hang, queueVars, FlagOrFrame
  <2> QED
    BY <2>1, <2>2, <2>3, QueueUntouched, TypeSplit
    DEF IndInv, Hang, TypeOK, QueueType, RestType
<1>3. CASE DeinitReturns
  <2>1. /\ init_queue
        /\ inflight' = <<>> /\ wire' = <<>> /\ disturbed' = FALSE /\ sendFlag' = TRUE
        /\ LookupCached \/ LookupStarted \/ LookupFailed \/ DottedHost
        /\ UNCHANGED <<handle, fault>>
    BY <1>3 DEF Connet
  <2>2. QueueType' /\ QueueInv' /\ FlagMeansEmpty'
    BY <2>1, InitQueue DEF FlagMeansEmpty
  <2>3. link' \in {"idle", "connecting"} /\ ipKnown' \in BOOLEAN /\ dnsPending' \in Nat
    <3>1. ipKnown \in BOOLEAN /\ dnsPending \in Nat /\ dnsPending + 1 \in Nat
      BY <1>1 DEF RestType
    <3>2. CASE LookupCached
      BY <3>1, <3>2 DEF LookupCached
    <3>3. CASE LookupStarted
      BY <3>1, <3>3 DEF LookupStarted
    <3>4. CASE LookupFailed
      BY <3>1, <3>4 DEF LookupFailed
    <3>5. CASE DottedHost
      BY <3>1, <3>5 DEF DottedHost, ConnectResult
    <3> QED
      BY <2>1, <3>2, <3>3, <3>4, <3>5
  <2>4. RestType'
    BY <1>1, <2>1, <2>3, NoFrames DEF RestType, Links
  <2>5. OneFrameAtATime'
    BY <2>1 DEF OneFrameAtATime
  <2>6. FlagOrFrame'
    BY <2>1, <2>3 DEF FlagOrFrame
  <2> QED
    BY <2>2, <2>4, <2>5, <2>6 DEF IndInv, TypeOK, QueueType, RestType
<1> QED
  BY <1>2, <1>3

\* ec_io_close keeps the invariant: the queue it leaves is empty, though not
\* at its start.
LEMMA CloseStep == IndInv /\ Close => IndInv'
<1> SUFFICES ASSUME IndInv, Close PROVE IndInv'
  OBVIOUS
<1>1. QueueType /\ QueueInv /\ RestType /\ UNCHANGED <<sends, connects>>
  BY TypeSplit DEF IndInv, Close
<1>2. CASE ~DeinitReturns
  <2>1. Hang
    BY <1>2 DEF Close
  <2>2. RestType'
    BY <1>1, <2>1 DEF Hang, RestType, connVars, Faults
  <2>3. FlagOrFrame'
    BY <2>1 DEF IndInv, Hang, queueVars, FlagOrFrame
  <2> QED
    BY <2>1, <2>2, <2>3, QueueUntouched DEF IndInv, Hang, TypeOK, QueueType, RestType
<1>3. CASE DeinitReturns
  <2>1. /\ deinit_queue
        /\ link' = "zeroed" /\ inflight' = <<>> /\ wire' = <<>> /\ handle' = FALSE
        /\ UNCHANGED <<sendFlag, ipKnown, dnsPending, fault, disturbed>>
    BY <1>3 DEF Close
  <2>2. QueueType' /\ QueueInv' /\ FlagMeansEmpty'
    BY <1>1, <1>3, <2>1, Deinit DEF FlagMeansEmpty
  <2>3. RestType'
    BY <1>1, <2>1, NoFrames DEF RestType, Links
  <2>4. OneFrameAtATime'
    BY <2>1 DEF OneFrameAtATime
  <2>5. FlagOrFrame'
    BY <2>1 DEF FlagOrFrame
  <2> QED
    BY <2>2, <2>3, <2>4, <2>5 DEF IndInv, TypeOK, QueueType, RestType
<1> QED
  BY <1>2, <1>3

\* ec_send_cb keeps the invariant: it sends the oldest frame or raises the flag.
LEMMA SentCbStep == IndInv /\ SentCb => IndInv'
<1> SUFFICES ASSUME IndInv, SentCb PROVE IndInv'
  OBVIOUS
<1>1. QueueType /\ QueueInv /\ RestType
  BY TypeSplit DEF IndInv
<1>2. /\ link = "up" /\ UNCHANGED <<connVars, link, fault, sends, connects>>
      /\ inflight \in Seq(Nat) /\ Len(inflight) = 1 /\ Tail(inflight) = <<>>
  <2>1. inflight # <<>> /\ inflight \in Seq(Nat) /\ Len(inflight) <= 1
    BY <1>1 DEF SentCb, IndInv, OneFrameAtATime, RestType
  <2> QED
    BY <2>1, OneFrame DEF SentCb
<1>3. CASE queue_isEmty
  <2>1. /\ sendFlag' = TRUE /\ inflight' = <<>>
        /\ UNCHANGED <<queueVars, wire, disturbed>>
    BY <1>2, <1>3 DEF SentCb
  <2>2. QueueType' /\ QueueInv' /\ FlagMeansEmpty'
    BY <1>1, <1>3, <2>1 DEF queueVars, QueueType, QueueInv, QueueHoldsFrames, Aligned,
                            FlagMeansEmpty, queue_isEmty
  <2>3. RestType'
    BY <1>1, <1>2, <2>1 DEF RestType, connVars
  <2>4. OneFrameAtATime'
    BY <2>1 DEF OneFrameAtATime
  <2>5. FlagOrFrame'
    BY <1>2, <2>1 DEF FlagOrFrame
  <2> QED
    BY <2>2, <2>3, <2>4, <2>5 DEF IndInv, TypeOK, QueueType, RestType
<1>4. CASE ~queue_isEmty
  <2>1. sendFlag' = FALSE
    BY <1>4 DEF SentCb
  <2>2. PICK r \in SendResult(link, queue_get) :
           \/ r = "OK" /\ Accepted(queue_get, Tail(inflight)) /\ queue_pop
           \/ r # "OK" /\ Refused(queue_get, Tail(inflight)) /\ UNCHANGED queueVars
    BY <1>4 DEF SentCb
  <2>3. queue_get \in Nat
    BY <1>1 DEF queue_get, QueueType, Slot
  <2>4. CASE r = "OK"
    <3>1. /\ inflight' = <<queue_get>> /\ wire' = Append(wire, queue_get)
          /\ disturbed' = disturbed /\ queue_pop
      BY <1>2, <2>2, <2>4 DEF Accepted
    <3>2. count > 0
      BY <1>1, <2>2, <2>4, HeadHoldsFrame DEF SendResult, queue_get
    <3>3. QueueType' /\ QueueInv'
      BY <1>1, <3>1, <3>2, Pop
    <3>4. wire' \in Seq(Nat) /\ inflight' \in Seq(Nat) /\ Len(inflight') = 1 /\ inflight' # <<>>
      BY <1>1, <2>3, <3>1 DEF RestType
    <3>5. RestType'
      BY <1>1, <1>2, <2>1, <3>1, <3>4 DEF RestType, connVars
    <3>6. OneFrameAtATime' /\ FlagMeansEmpty'
      BY <2>1, <3>4 DEF OneFrameAtATime, FlagMeansEmpty
    <3>7. FlagOrFrame'
      BY <1>2, <3>4 DEF FlagOrFrame
    <3> QED
      BY <3>3, <3>5, <3>6, <3>7 DEF IndInv, TypeOK, QueueType, RestType
  <2>5. CASE r # "OK"
    <3>1. /\ inflight' = <<>> /\ disturbed' = (disturbed \/ queue_get # Null)
          /\ wire' = wire /\ UNCHANGED queueVars
      BY <1>2, <2>2, <2>5 DEF Refused
    <3>2. QueueType' /\ QueueInv'
      BY <1>1, <3>1 DEF queueVars, QueueType, QueueInv, QueueHoldsFrames, Aligned
    <3>3. RestType'
      BY <1>1, <1>2, <2>1, <3>1, NoFrames DEF RestType, connVars
    <3>4. OneFrameAtATime' /\ FlagMeansEmpty'
      BY <2>1, <3>1 DEF OneFrameAtATime, FlagMeansEmpty
    <3>5. FlagOrFrame'
      <4>1. CASE queue_get # Null
        BY <3>1, <4>1 DEF FlagOrFrame
      <4>2. CASE queue_get = Null
        <5>1. count = 0
          BY <1>1, <4>2, HeadHoldsFrame DEF queue_get, QueueType
        <5>2. font' >= QueueSize
          BY <1>1, <1>4, <3>1, <5>1, DrainedAndNotEmpty DEF queueVars
        <5> QED
          BY <1>2, <5>2 DEF FlagOrFrame
      <4> QED
        BY <4>1, <4>2
    <3> QED
      BY <3>2, <3>3, <3>4, <3>5 DEF IndInv, TypeOK, QueueType, RestType
  <2> QED
    BY <2>4, <2>5
<1> QED
  BY <1>3, <1>4

\* The registration of callbacks keeps the invariant.
LEMMA RegistStep == IndInv /\ Regist => IndInv'
<1> SUFFICES ASSUME IndInv, Regist PROVE IndInv'
  OBVIOUS
<1>1. RestType /\ UNCHANGED <<queueVars, sendFlag, ipKnown, dnsPending, link, inflight,
                             fault, sends, connects, wire, disturbed>> /\ handle' = TRUE
  BY TypeSplit DEF IndInv, Regist
<1>2. RestType' /\ FlagOrFrame'
  BY <1>1 DEF RestType, queueVars, IndInv, FlagOrFrame
<1> QED
  BY <1>1, <1>2, QueueUntouched DEF IndInv, TypeOK, QueueType, RestType

\* ec_io_reconnect keeps the invariant.
LEMMA ReconnectStep == IndInv /\ Reconnect => IndInv'
<1> SUFFICES ASSUME IndInv, Reconnect PROVE IndInv'
  OBVIOUS
<1>1. /\ RestType
      /\ UNCHANGED <<queueVars, sendFlag, connVars, inflight, fault, sends,
                     connects, wire, disturbed>>
      /\ \/ link' = link
         \/ link \in {"idle", "down"} /\ link' = "connecting"
  BY TypeSplit DEF IndInv, Reconnect, ConnectResult
<1>2. RestType' /\ FlagOrFrame'
  BY <1>1 DEF RestType, Links, connVars, queueVars, IndInv, FlagOrFrame
<1> QED
  BY <1>1, <1>2, QueueUntouched DEF IndInv, TypeOK, QueueType, RestType

\* A connection that breaks keeps the invariant, for ec_send_flag falls.
LEMMA BrokenStep ==
    ASSUME IndInv, NEW from, Broken(from)
    PROVE  IndInv'
<1>1. /\ RestType /\ QueueType /\ QueueInv
      /\ link' = "down" /\ sendFlag' = FALSE /\ inflight' = <<>> /\ disturbed' = TRUE
      /\ UNCHANGED <<queueVars, connVars, fault, sends, connects, wire>>
  BY TypeSplit DEF IndInv, Broken
<1>2. QueueType' /\ QueueInv'
  BY <1>1 DEF queueVars, QueueType, QueueInv, QueueHoldsFrames, Aligned
<1>3. RestType'
  BY <1>1, NoFrames DEF RestType, Links, connVars
<1>4. OneFrameAtATime' /\ FlagMeansEmpty' /\ FlagOrFrame'
  BY <1>1, NoFrames DEF OneFrameAtATime, FlagMeansEmpty, FlagOrFrame
<1> QED
  BY <1>2, <1>3, <1>4 DEF IndInv, TypeOK, QueueType, RestType

\* A late or timely answer of the name server keeps the invariant.
LEMMA DnsCbStep == IndInv /\ DnsCb => IndInv'
<1> SUFFICES ASSUME IndInv, DnsCb PROVE IndInv'
  OBVIOUS
<1>1. /\ RestType
      /\ dnsPending' = dnsPending - 1 /\ dnsPending > 0
      /\ UNCHANGED <<queueVars, sendFlag, ipKnown, handle, inflight, sends, connects,
                     wire, disturbed>>
  BY TypeSplit DEF IndInv, DnsCb
<1>2. /\ fault' \in {fault, "null"}
      /\ \/ link' = link
         \/ link \in {"idle", "down"} /\ link' = "connecting"
  BY DEF DnsCb, ConnectResult
<1>3. RestType'
  <2>1. dnsPending' \in Nat
    BY <1>1 DEF RestType
  <2> QED
    BY <1>1, <1>2, <2>1 DEF RestType, Links, Faults
<1>4. FlagOrFrame'
  BY <1>1, <1>2 DEF queueVars, IndInv, FlagOrFrame
<1> QED
  BY <1>1, <1>3, <1>4, QueueUntouched DEF IndInv, TypeOK, QueueType, RestType

\* The invariant holds at boot.
LEMMA InitInv == Init => IndInv
<1> SUFFICES ASSUME Init PROVE IndInv
  OBVIOUS
<1>1. QueueType
  BY EcIoAssumption DEF Init, QueueInit, QueueType, Slot, Null
<1>2. QueueHoldsFrames
  <2> SUFFICES ASSUME NEW s \in Slot
               PROVE  slots[s] # Null <=> (s - head) % QueueSize < count
    BY DEF QueueHoldsFrames
  <2>1. (s - head) % QueueSize = IF s >= head THEN s - head ELSE s - head + QueueSize
    BY <1>1, Distance
  <2> QED
    BY <1>1, <2>1, EcIoAssumption DEF Init, QueueInit, QueueType, Slot, Null
<1>3. Aligned
  BY DEF Init, QueueInit, Aligned
<1>4. RestType
  BY NoFrames DEF Init, RestType, Links, Faults
<1>5. OneFrameAtATime /\ FlagMeansEmpty /\ FlagOrFrame
  BY NoFrames DEF Init, OneFrameAtATime, FlagMeansEmpty, FlagOrFrame
<1> QED
  BY <1>1, <1>2, <1>3, <1>4, <1>5, TypeSplit DEF IndInv, QueueInv

\* Every handler keeps the invariant.
LEMMA NextInv == IndInv /\ [Next]_vars => IndInv'
<1> SUFFICES ASSUME IndInv, [Next]_vars PROVE IndInv'
  OBVIOUS
<1>1. CASE UNCHANGED vars
  <2>1. RestType' /\ FlagOrFrame'
    BY <1>1, TypeSplit DEF vars, connVars, queueVars, RestType, IndInv, FlagOrFrame
  <2> QED
    BY <1>1, <2>1, QueueUntouched DEF vars, IndInv, TypeOK, QueueType, RestType
<1>2. CASE Connet \/ Regist \/ Send \/ Close \/ Reconnect
  BY <1>2, ConnetStep, RegistStep, SendStep, CloseStep, ReconnectStep
<1>3. CASE ConnectCb \/ SentCb \/ ReconCb \/ DisconCb \/ DnsCb
  BY <1>3, ConnectCbStep, SentCbStep, BrokenStep, DnsCbStep DEF ReconCb, DisconCb
<1> QED
  BY <1>1, <1>2, <1>3 DEF Next

---------------------------------------------------------------------------
(* The theorems.                                                           *)

\* The inductive invariant holds in every state of ec_io.
THEOREM Inductive == Spec => []IndInv
<1> QED
  BY InitInv, NextInv, PTL DEF Spec

\* Every variable keeps its range: in particular queue_count stays below
\* EC_IO_QUEUE_SIZE although queue_font grows without bound.
THEOREM TypeCorrect == Spec => []TypeOK
<1>1. IndInv => TypeOK
  BY DEF IndInv
<1> QED
  BY <1>1, Inductive, PTL

\* espconn never holds two frames of ec_io: the rule stated at the head of
\* ec_io.c, kept by ec_send_flag over both ways to send.
THEOREM OneFrameAtATimeHolds == Spec => []OneFrameAtATime
<1>1. IndInv => OneFrameAtATime
  BY DEF IndInv
<1> QED
  BY <1>1, Inductive, PTL

\* The nodes of the queue that hold data are those its counters say, also
\* after queue_font has passed EC_IO_QUEUE_SIZE.
THEOREM QueueHoldsFramesHolds == Spec => []QueueHoldsFrames
<1>1. IndInv => QueueHoldsFrames
  BY DEF IndInv, QueueInv
<1> QED
  BY <1>1, Inductive, PTL

\* While nothing was refused and the connection lasts, frames that wait have a
\* callback of espconn to wait for, up to the eighth frame queued: for every size
\* of the queue, only the font that is never wrapped strands them.
THEOREM OnlyTheWrapLosesWakeupsHolds == Spec => []OnlyTheWrapLosesWakeups
<1>1. IndInv => OnlyTheWrapLosesWakeups
  <2> SUFFICES ASSUME IndInv, link = "up", count > 0, ~disturbed, inflight = <<>>
               PROVE  font >= QueueSize
    BY DEF OnlyTheWrapLosesWakeups
  <2>1. /\ QueueType /\ QueueInv /\ (sendFlag \/ font >= QueueSize)
        /\ (sendFlag => head = font)
    BY TypeSplit DEF IndInv, FlagOrFrame, FlagMeansEmpty, queue_isEmty
  <2>2. head # font
    BY <2>1, EmptyMeansNone DEF queue_isEmty, QueueType
  <2> QED
    BY <2>1, <2>2
<1> QED
  BY <1>1, Inductive, PTL

---------------------------------------------------------------------------
(* ec_io implements the sender of frames.                                  *)

\* The i-th node from head, without a remainder.
LEMMA FrameAtPlace ==
    ASSUME QueueType, NEW i \in 0 .. QueueSize
    PROVE  /\ FrameAt(i) = slots[IF head + i < QueueSize THEN head + i ELSE head + i - QueueSize]
           /\ FrameAt(i) \in Nat
<1>1. FrameAt(i) = slots[IF head + i < QueueSize THEN head + i ELSE head + i - QueueSize]
  BY Place DEF FrameAt
<1>2. (IF head + i < QueueSize THEN head + i ELSE head + i - QueueSize) \in Slot
  BY EcIoAssumption DEF QueueType, Slot
<1> QED
  BY <1>1, <1>2 DEF QueueType

\* What the sequence of the frames that wait is made of.
WaitingFrames ==
    /\ Waiting \in Seq(Nat)
    /\ Len(Waiting) = count
    /\ \A i \in 1 .. count : Waiting[i] = FrameAt(i - 1)

\* What waits is a sequence of frames.
LEMMA WaitingIsSeq == QueueType => WaitingFrames
<1> SUFFICES ASSUME QueueType PROVE WaitingFrames
  OBVIOUS
<1>1. \A i \in 1 .. count : FrameAt(i - 1) \in Nat
  <2> SUFFICES ASSUME NEW i \in 1 .. count
               PROVE  FrameAt(i - 1) \in Nat
    OBVIOUS
  <2>1. i - 1 \in 0 .. QueueSize
    BY EcIoAssumption DEF QueueType
  <2> QED
    BY <2>1, FrameAtPlace
<1>2. Waiting \in [1 .. count -> Nat] /\ count \in Nat
  BY <1>1, EcIoAssumption DEF Waiting, QueueType
<1>3. Waiting \in Seq(Nat)
  BY <1>2, SeqDef
<1>4. Len(Waiting) = count
  BY <1>2, <1>3, LenProperties
<1> QED
  BY <1>3, <1>4 DEF Waiting, WaitingFrames

\* The same, after the step.
LEMMA WaitingStaysSeq == QueueType' => WaitingFrames'
BY WaitingIsSeq, PTL

\* A pushed frame waits behind the others.
LEMMA PushWaits ==
    ASSUME QueueType, QueueInv, NEW f \in Nat \ {0}, queue_push(f), count # QueueSize - 1
    PROVE  Waiting' = Append(Waiting, f)
<1>1. /\ slots' = [slots EXCEPT ![font % QueueSize] = f]
      /\ count' = count + 1
      /\ head' = head
  BY DEF queue_push
<1>2. font % QueueSize =
         IF head + count < QueueSize THEN head + count ELSE head + count - QueueSize
  BY Place, EcIoAssumption DEF QueueInv, Aligned, QueueType
<1>3. QueueType'
  BY Push
<1>4. \A i \in 0 .. count - 1 : FrameAt(i)' = FrameAt(i)
  <2> SUFFICES ASSUME NEW i \in 0 .. count - 1
               PROVE  slots'[(head' + i) % QueueSize] = slots[(head + i) % QueueSize]
    BY DEF FrameAt
  <2>1. (head + i) % QueueSize =
           IF head + i < QueueSize THEN head + i ELSE head + i - QueueSize
    BY Place, EcIoAssumption DEF QueueType
  <2>2. (head + i) % QueueSize \in Slot /\ (head + i) % QueueSize # font % QueueSize
    BY <1>2, <2>1, SizePositive, RingApart DEF QueueType, Slot
  <2> QED
    BY <1>1, <2>2 DEF QueueType
<1>5. slots'[(head' + count) % QueueSize] = f
  <2>1. font % QueueSize \in Slot
    BY <1>2, EcIoAssumption DEF QueueType, Slot
  <2> QED
    BY <1>1, <2>1 DEF QueueType, QueueInv, Aligned
<1>6. WaitingFrames /\ WaitingFrames'
  BY <1>3, WaitingIsSeq, WaitingStaysSeq
<1>7. /\ Append(Waiting, f) \in Seq(Nat)
      /\ Len(Append(Waiting, f)) = count + 1
      /\ \A i \in 1 .. count : Append(Waiting, f)[i] = Waiting[i]
      /\ Append(Waiting, f)[count + 1] = f
  BY <1>6, AppendProperties DEF WaitingFrames
<1>8. ASSUME NEW i \in 1 .. count + 1
      PROVE  Waiting'[i] = Append(Waiting, f)[i]
  <2>1. Waiting'[i] = slots'[(head' + (i - 1)) % QueueSize]
    BY <1>1, <1>6 DEF WaitingFrames, FrameAt
  <2>2. CASE i = count + 1
    <3>1. i - 1 = count
      BY <2>2 DEF QueueType
    <3> QED
      BY <1>5, <1>7, <2>1, <2>2, <3>1
  <2>3. CASE i # count + 1
    <3>1. i \in 1 .. count
      BY <2>3 DEF QueueType
    <3>2. i - 1 \in 0 .. count - 1
      BY <3>1 DEF QueueType
    <3>3. slots'[(head' + (i - 1)) % QueueSize] = FrameAt(i - 1)
      BY <1>4, <3>2 DEF FrameAt
    <3> QED
      BY <1>6, <1>7, <2>1, <3>1, <3>3 DEF WaitingFrames
  <2> QED
    BY <2>2, <2>3
<1> QED
  BY <1>1, <1>6, <1>7, <1>8, SeqEqual DEF WaitingFrames

\* queue_pop takes the oldest of the frames that wait.
LEMMA PopOldest ==
    ASSUME QueueType, QueueInv, count > 0, queue_pop
    PROVE  Waiting # <<>> /\ Head(Waiting) = queue_get /\ Waiting' = Tail(Waiting)
<1>1. /\ slots' = [slots EXCEPT ![head] = Null]
      /\ count' = count - 1
      /\ head' = (head + 1) % QueueSize
  BY DEF queue_pop
<1>2. head' = IF head + 1 < QueueSize THEN head + 1 ELSE 0
  <2>1. (head + 1) % QueueSize =
           IF head + 1 < QueueSize THEN head + 1 ELSE head + 1 - QueueSize
    BY EcIoAssumption, Place
  <2> QED
    BY <1>1, <2>1, EcIoAssumption DEF QueueType
<1>3. QueueType'
  BY Pop
<1>4. ASSUME NEW i \in 0 .. count - 2, NEW j \in 1 .. count - 1, j = i + 1
      PROVE  slots'[(head' + i) % QueueSize] = FrameAt(j)
  <2>1. (head' + i) % QueueSize =
           IF head' + i < QueueSize THEN head' + i ELSE head' + i - QueueSize
    <3>1. i \in 0 .. QueueSize
      BY EcIoAssumption DEF QueueType
    <3> QED
      BY <1>3, <3>1, SizePositive, RingSum DEF QueueType
  <2>2. (head + j) % QueueSize =
           IF head + j < QueueSize THEN head + j ELSE head + j - QueueSize
    BY Place, EcIoAssumption DEF QueueType
  <2>3. /\ (head' + i) % QueueSize = (head + j) % QueueSize
        /\ (head + j) % QueueSize \in Slot
        /\ (head + j) % QueueSize # head
    <3>1. CASE head + 1 < QueueSize
      BY <1>2, <1>4, <2>1, <2>2, <3>1, EcIoAssumption, SMTT(30) DEF QueueType, Slot
    <3>2. CASE head + 1 = QueueSize
      BY <1>2, <1>4, <2>1, <2>2, <3>2, EcIoAssumption DEF QueueType, Slot
    <3> QED
      BY <3>1, <3>2, EcIoAssumption DEF QueueType
  <2> QED
    BY <1>1, <2>3 DEF FrameAt, QueueType
<1>5. WaitingFrames /\ WaitingFrames'
  BY <1>3, WaitingIsSeq, WaitingStaysSeq
<1>6. Waiting # <<>>
  BY <1>5, EmptySeq DEF WaitingFrames, QueueType
<1>7. Head(Waiting) = queue_get
  <2>1. Head(Waiting) = Waiting[1] /\ Waiting[1] = FrameAt(0)
    BY <1>5, <1>6 DEF WaitingFrames, QueueType
  <2>2. FrameAt(0) = slots[head]
    BY FrameAtPlace, EcIoAssumption DEF QueueType
  <2> QED
    BY <2>1, <2>2 DEF queue_get
<1>8. /\ Tail(Waiting) \in Seq(Nat)
      /\ Len(Tail(Waiting)) = count - 1
      /\ \A i \in 1 .. count - 1 : Tail(Waiting)[i] = Waiting[i + 1]
  BY <1>5, <1>6, HeadTailProperties DEF WaitingFrames
<1>9. ASSUME NEW i \in 1 .. count - 1
      PROVE  Waiting'[i] = Tail(Waiting)[i]
  <2>1. i - 1 \in 0 .. count - 2 /\ i = (i - 1) + 1 /\ i + 1 \in 1 .. count /\ (i + 1) - 1 = i
    BY DEF QueueType
  <2>2. Waiting'[i] = slots'[(head' + (i - 1)) % QueueSize]
    BY <1>1, <1>5 DEF WaitingFrames, FrameAt
  <2>3. slots'[(head' + (i - 1)) % QueueSize] = FrameAt(i)
    BY <1>4, <2>1
  <2>4. Waiting[i + 1] = FrameAt(i)
    BY <1>5, <2>1 DEF WaitingFrames
  <2> QED
    BY <1>8, <2>2, <2>3, <2>4
<1>10. Waiting' = Tail(Waiting)
  BY <1>1, <1>5, <1>8, <1>9, SeqEqual DEF WaitingFrames
<1> QED
  BY <1>6, <1>7, <1>10

\* A queue that counts no frame holds none.
LEMMA NoneWaits == QueueType /\ count = 0 => Waiting = <<>>
BY WaitingIsSeq, EmptySeq DEF WaitingFrames

\* The same, after the step.
LEMMA NoneWaitsNext == (QueueType /\ count = 0 => Waiting = <<>>)'
BY NoneWaits, PTL

\* Steps that leave the queue alone leave the frames that wait alone.
LEMMA WaitingUnchanged ==
    ASSUME UNCHANGED queueVars
    PROVE  Waiting' = Waiting
BY DEF queueVars, Waiting, FrameAt

\* ec_io_send is SendNow, Wait or Refuse.
LEMMA SendRefines ==
    ASSUME IndInv, NEW l, ec_io_send(l)
    PROVE  FS!SendNow \/ FS!Wait \/ FS!Refuse
<1>1. /\ QueueType /\ QueueInv /\ sends \in Nat /\ sends' = sends + 1
      /\ sends' \in Nat \ {0} /\ WaitingFrames
  BY TypeSplit, WaitingIsSeq DEF IndInv, RestType, ec_io_send
<1>2. ASSUME queue_push(sends'), UNCHANGED <<inflight, wire>>
      PROVE  FS!Wait \/ FS!Refuse
  <2>1. CASE count = QueueSize - 1
    <3>1. UNCHANGED queueVars
      BY <1>2, <2>1 DEF queue_push
    <3> QED
      BY <1>1, <1>2, <3>1, WaitingUnchanged DEF FS!Refuse
  <2>2. CASE count # QueueSize - 1
    <3>1. Waiting' = Append(Waiting, sends')
      BY <1>1, <1>2, <2>2, PushWaits
    <3>2. Len(Waiting) < QueueSize - 1
      BY <1>1, <2>2, EcIoAssumption DEF WaitingFrames, QueueType
    <3> QED
      BY <1>1, <1>2, <3>1, <3>2 DEF FS!Wait
  <2> QED
    BY <2>1, <2>2
<1>3. CASE queue_isEmty /\ sendFlag
  <2>1. inflight = <<>> /\ Waiting = <<>>
    BY <1>1, <1>3, EmptyMeansNone, NoneWaits DEF IndInv, OneFrameAtATime
  <2>2. PICK r \in SendResult(l, sends') :
           \/ r = "OK" /\ Accepted(sends', inflight) /\ UNCHANGED queueVars
           \/ r = "MAXNUM" /\ Refused(sends', inflight) /\ queue_push(sends')
           \/ r = "ERR" /\ Refused(sends', inflight) /\ UNCHANGED queueVars
    BY <1>3 DEF ec_io_send, SendDirect
  <2>3. CASE Accepted(sends', inflight) /\ UNCHANGED queueVars
    <3>1. inflight' = <<sends'>> /\ wire' = Append(wire, sends') /\ Waiting' = Waiting
      BY <2>1, <2>3, WaitingUnchanged DEF Accepted
    <3> QED
      BY <1>1, <2>1, <3>1 DEF FS!SendNow
  <2>4. CASE Refused(sends', inflight) /\ queue_push(sends')
    BY <1>2, <2>4 DEF Refused
  <2>5. CASE Refused(sends', inflight) /\ UNCHANGED queueVars
    BY <1>1, <2>5, WaitingUnchanged DEF Refused, FS!Refuse
  <2> QED
    BY <2>2, <2>3, <2>4, <2>5
<1>4. CASE ~(queue_isEmty /\ sendFlag)
  BY <1>2, <1>4 DEF ec_io_send, SendLater
<1> QED
  BY <1>3, <1>4

\* ec_send_cb is Acknowledge.
LEMMA SentCbRefines ==
    ASSUME IndInv, SentCb
    PROVE  FS!Acknowledge
<1>1. /\ QueueType /\ QueueInv
      /\ inflight # <<>> /\ Tail(inflight) = <<>> /\ UNCHANGED sends
  <2>1. inflight # <<>> /\ inflight \in Seq(Nat) /\ Len(inflight) <= 1
    BY TypeSplit DEF SentCb, IndInv, OneFrameAtATime, RestType
  <2> QED
    BY <2>1, OneFrame, TypeSplit DEF SentCb, IndInv
<1>2. CASE queue_isEmty
  <2>1. inflight' = <<>> /\ UNCHANGED <<queueVars, wire>>
    BY <1>1, <1>2 DEF SentCb
  <2> QED
    BY <1>1, <2>1, WaitingUnchanged DEF FS!Acknowledge
<1>3. CASE ~queue_isEmty
  <2>1. PICK r \in SendResult(link, queue_get) :
           \/ r = "OK" /\ Accepted(queue_get, Tail(inflight)) /\ queue_pop
           \/ r # "OK" /\ Refused(queue_get, Tail(inflight)) /\ UNCHANGED queueVars
    BY <1>3 DEF SentCb
  <2>2. CASE r = "OK"
    <3>1. inflight' = <<queue_get>> /\ wire' = Append(wire, queue_get) /\ queue_pop
      BY <1>1, <2>1, <2>2 DEF Accepted
    <3>2. count > 0
      BY <1>1, <2>1, <2>2, HeadHoldsFrame DEF SendResult, queue_get
    <3>3. Waiting # <<>> /\ Head(Waiting) = queue_get /\ Waiting' = Tail(Waiting)
      BY <1>1, <3>1, <3>2, PopOldest
    <3> QED
      BY <1>1, <3>1, <3>3 DEF FS!Acknowledge
  <2>3. CASE r # "OK"
    <3>1. inflight' = <<>> /\ UNCHANGED <<wire, queueVars>>
      BY <1>1, <2>1, <2>3 DEF Refused
    <3> QED
      BY <1>1, <3>1, WaitingUnchanged DEF FS!Acknowledge
  <2> QED
    BY <2>2, <2>3
<1> QED
  BY <1>2, <1>3

\* Every handler of ec_io is a step of the abstract sender or a stutter.
LEMMA NextRefines == IndInv /\ [Next]_vars => [FS!ChNext]_(FS!chVars)
<1> SUFFICES ASSUME IndInv, [Next]_vars PROVE FS!ChNext \/ UNCHANGED FS!chVars
  BY DEF FS!chVars
<1> USE DEF FS!ChNext, FS!chVars
<1>1. QueueType /\ QueueInv
  BY TypeSplit DEF IndInv
<1>2. CASE UNCHANGED <<queueVars, inflight, sends, wire>>
  BY <1>2, WaitingUnchanged
<1>3. CASE Connet
  <2>1. CASE ~DeinitReturns
    BY <1>2, <1>3, <2>1 DEF Connet, Hang
  <2>2. CASE DeinitReturns
    <3>1. init_queue /\ inflight' = <<>> /\ wire' = <<>> /\ UNCHANGED sends
      BY <1>3, <2>2 DEF Connet
    <3>2. Waiting' = <<>>
      BY <3>1, InitQueue, NoneWaitsNext
    <3> QED
      BY <3>1, <3>2 DEF FS!Abandon
  <2> QED
    BY <2>1, <2>2
<1>4. CASE Close
  <2>1. CASE ~DeinitReturns
    BY <1>2, <1>4, <2>1 DEF Close, Hang
  <2>2. CASE DeinitReturns
    <3>1. deinit_queue /\ inflight' = <<>> /\ wire' = <<>> /\ UNCHANGED sends
      BY <1>4, <2>2 DEF Close
    <3>2. Waiting' = <<>>
      BY <1>1, <2>2, <3>1, Deinit, NoneWaitsNext
    <3> QED
      BY <3>1, <3>2 DEF FS!Abandon
  <2> QED
    BY <2>1, <2>2
<1>5. CASE Send
  BY <1>5, SendRefines DEF Send
<1>6. CASE ConnectCb
  BY <1>2, <1>6, SendRefines DEF ConnectCb
<1>7. CASE SentCb
  BY <1>7, SentCbRefines
<1>8. CASE ReconCb \/ DisconCb
  BY <1>8, WaitingUnchanged DEF ReconCb, DisconCb, Broken, FS!Break
<1>9. CASE Regist \/ Reconnect \/ DnsCb \/ UNCHANGED vars
  BY <1>2, <1>9 DEF Regist, Reconnect, DnsCb, vars
<1> QED
  BY <1>3, <1>4, <1>5, <1>6, <1>7, <1>8, <1>9 DEF Next

\* ec_io is a sender of frames one by one, in order: every function of ec_io.c
\* is one of the steps of FrameSender or invisible to it.
THEOREM ImplementsFrameSender == Spec => SendsFramesOneByOne
<1>1. Init => FS!ChInit
  <2> SUFFICES ASSUME Init PROVE FS!ChInit
    OBVIOUS
  <2>1. Waiting = <<>>
    BY InitInv, TypeSplit, NoneWaits DEF IndInv, Init, QueueInit
  <2> QED
    BY <2>1 DEF Init, FS!ChInit
<1> QED
  BY <1>1, Inductive, NextRefines, PTL DEF Spec, SendsFramesOneByOne, FS!ChSpec

---------------------------------------------------------------------------
(* The order of the frames, proved from the refinement: what holds of every *)
(* sender of frames (FrameSender) holds of ec_io.c.                         *)


---------------------------------------------------------------------------
(* Sequences of frames that rise and stay below a number.                  *)

Rises(s, n) ==
    /\ \A i \in 1 .. Len(s) : s[i] <= n
    /\ \A i, j \in 1 .. Len(s) : i < j => s[i] < s[j]

\* A frame with a new number may come behind the others.
LEMMA RisesOn ==
    ASSUME NEW s \in Seq(Nat), NEW n \in Nat, Rises(s, n)
    PROVE  Append(s, n + 1) \in Seq(Nat) /\ Rises(Append(s, n + 1), n + 1)
<1>1. /\ Append(s, n + 1) \in Seq(Nat)
      /\ Len(Append(s, n + 1)) = Len(s) + 1
      /\ \A i \in 1 .. Len(s) : Append(s, n + 1)[i] = s[i]
      /\ Append(s, n + 1)[Len(s) + 1] = n + 1
  BY AppendProperties
<1>2. Len(s) \in Nat /\ \A i \in 1 .. Len(s) : s[i] \in Nat
  BY ElementOfSeq, LenProperties
<1>3. ASSUME NEW i \in 1 .. Len(s) + 1
      PROVE  Append(s, n + 1)[i] <= n + 1
  BY <1>1, <1>2, <1>3 DEF Rises
<1>4. ASSUME NEW i \in 1 .. Len(s) + 1, NEW j \in 1 .. Len(s) + 1, i < j
      PROVE  Append(s, n + 1)[i] < Append(s, n + 1)[j]
  <2>1. i \in 1 .. Len(s)
    BY <1>2, <1>4
  <2>2. CASE j = Len(s) + 1
    BY <1>1, <1>2, <2>1, <2>2 DEF Rises
  <2>3. CASE j # Len(s) + 1
    <3>1. j \in 1 .. Len(s)
      BY <1>2, <2>3
    <3> QED
      BY <1>1, <1>2, <1>4, <2>1, <3>1 DEF Rises
  <2> QED
    BY <2>2, <2>3
<1> QED
  BY <1>1, <1>3, <1>4 DEF Rises

\* A bound may be raised.
LEMMA RisesBelow ==
    ASSUME NEW s \in Seq(Nat), NEW n \in Nat, Rises(s, n)
    PROVE  Rises(s, n + 1)
<1>1. \A i \in 1 .. Len(s) : s[i] \in Nat
  BY ElementOfSeq
<1> QED
  BY <1>1 DEF Rises

\* Concatenation, for frames.
LEMMA Joined ==
    ASSUME NEW h \in Seq(Nat), NEW r \in Seq(Nat)
    PROVE  /\ h \o r \in Seq(Nat)
           /\ Len(h \o r) = Len(h) + Len(r)
           /\ \A i \in 1 .. Len(h) + Len(r) :
                 (h \o r)[i] = IF i <= Len(h) THEN h[i] ELSE r[i - Len(h)]
BY ConcatProperties

LEMMA JoinedThrice ==
    ASSUME NEW s \in Seq(Nat), NEW h \in Seq(Nat), NEW r \in Seq(Nat)
    PROVE  (s \o h) \o r = s \o (h \o r)
BY ConcatAssociative, SMTT(30)

\* A sequence is its first frame and the rest.
LEMMA FirstAndRest ==
    ASSUME NEW t \in Seq(Nat), NEW h \in Seq(Nat), NEW r \in Seq(Nat),
           Len(h) = 1, h[1] = t[1], Len(t) = Len(r) + 1,
           \A i \in 1 .. Len(r) : r[i] = t[i + 1]
    PROVE  h \o r = t
<1>1. /\ h \o r \in Seq(Nat)
      /\ Len(h \o r) = Len(h) + Len(r)
      /\ \A i \in 1 .. Len(h) + Len(r) :
            (h \o r)[i] = IF i <= Len(h) THEN h[i] ELSE r[i - Len(h)]
  BY Joined, Zenon
<1>2. Len(h \o r) = Len(t)
  BY <1>1, LenProperties
<1>3. ASSUME NEW i \in 1 .. Len(t) PROVE (h \o r)[i] = t[i]
  <2>1. CASE i = 1
    BY <1>1, <1>3, <2>1, LenProperties
  <2>2. CASE i # 1
    <3>1. i - 1 \in 1 .. Len(r) /\ (i - 1) + 1 = i /\ i \in 1 .. Len(h) + Len(r) /\ ~(i <= 1)
      BY <1>3, <2>2, LenProperties
    <3>2. (h \o r)[i] = r[i - 1]
      BY <1>1, <3>1
    <3> QED
      BY <3>1, <3>2
  <2> QED
    BY <2>1, <2>2
<1> QED
  BY <1>1, <1>2, <1>3, SeqEqual

\* A frame behind what waits is a frame behind all.
LEMMA AppendBehind ==
    ASSUME NEW s \in Seq(Nat), NEW t \in Seq(Nat), NEW f \in Nat
    PROVE  s \o Append(t, f) = Append(s \o t, f)
<1>1. PICK h \in Seq(Nat) : h = <<f>>
  <2>1. <<f>> \in Seq(Nat)
    OBVIOUS
  <2> QED
    BY <2>1, Zenon
<1>2. Append(t, f) = t \o h /\ Append(s \o t, f) = (s \o t) \o h
  BY <1>1, Joined, AppendIsConcat
<1>3. (s \o t) \o h = s \o (t \o h)
  BY JoinedThrice, Zenon
<1> QED
  BY <1>2, <1>3, Zenon

\* The oldest frame goes from the waiting line to the wire: the two together
\* stay what they are.
LEMMA HandedOn ==
    ASSUME NEW s \in Seq(Nat), NEW t \in Seq(Nat), t # <<>>
    PROVE  Append(s, Head(t)) \o Tail(t) = s \o t
<1>1. /\ Head(t) \in Nat /\ Tail(t) \in Seq(Nat) /\ Len(Tail(t)) = Len(t) - 1
      /\ \A i \in 1 .. Len(Tail(t)) : Tail(t)[i] = t[i + 1]
      /\ Head(t) = t[1]
  BY HeadTailProperties
<1>2. PICK h \in Seq(Nat) : h = <<Head(t)>> /\ Len(h) = 1 /\ h[1] = t[1]
  <2>1. <<Head(t)>> \in Seq(Nat) /\ Len(<<Head(t)>>) = 1 /\ <<Head(t)>>[1] = t[1]
    BY <1>1
  <2> QED
    BY <2>1, Zenon
<1>3. Len(t) = Len(Tail(t)) + 1
  BY <1>1, EmptySeq
<1>4. Append(s, Head(t)) = s \o h
  BY <1>1, <1>2, AppendIsConcat
<1>5. h \o Tail(t) = t
  BY <1>1, <1>2, <1>3, FirstAndRest, Zenon
<1>6. (s \o h) \o Tail(t) = s \o (h \o Tail(t))
  <2>1. h \in Seq(Nat) /\ Tail(t) \in Seq(Nat)
    BY <1>1, <1>2
  <2> QED
    BY <2>1, JoinedThrice, Zenon
<1> QED
  BY <1>4, <1>5, <1>6, Zenon

---------------------------------------------------------------------------
(* The order of the frames.                                                *)

\* The frames on the wire and those that wait, one after the other, rise up to
\* the number of the last ec_io_send.
Ordered ==
    /\ wire \in Seq(Nat) /\ Waiting \in Seq(Nat) /\ sends \in Nat
    /\ Rises(wire \o Waiting, sends)

\* Every step of a sender of frames keeps them in order.
LEMMA OrderedStep ==
    ASSUME Ordered, [FS!ChNext]_(FS!chVars), wire' \in Seq(Nat), Waiting' \in Seq(Nat)
    PROVE  Ordered'
<1>1. wire \o Waiting \in Seq(Nat)
  BY Joined DEF Ordered
<1>2. CASE FS!SendNow
  <2>1. /\ Waiting = <<>> /\ Waiting' = <<>> /\ sends' = sends + 1
        /\ wire' = Append(wire, sends + 1)
    BY <1>2 DEF FS!SendNow
  <2>2. wire \o Waiting = wire /\ wire' \o Waiting' = wire'
    BY <2>1, ConcatEmptySeq DEF Ordered
  <2> QED
    BY <2>1, <2>2, RisesOn DEF Ordered
<1>3. CASE FS!Wait
  <2>1. /\ Waiting' = Append(Waiting, sends + 1) /\ sends' = sends + 1 /\ wire' = wire
    BY <1>3 DEF FS!Wait
  <2>2. wire \o Append(Waiting, sends + 1) = Append(wire \o Waiting, sends + 1)
    <3>1. wire \in Seq(Nat) /\ Waiting \in Seq(Nat) /\ sends + 1 \in Nat
      BY <1>1 DEF Ordered
    <3> QED
      BY <3>1, AppendBehind, Zenon
  <2>3. Rises(Append(wire \o Waiting, sends + 1), sends + 1)
    BY <1>1, RisesOn DEF Ordered
  <2>4. Rises(wire' \o Waiting', sends')
    BY <2>1, <2>2, <2>3
  <2> QED
    BY <2>1, <2>4 DEF Ordered
<1>4. CASE FS!Refuse
  <2>1. Waiting' = Waiting /\ wire' = wire /\ sends' = sends + 1
    BY <1>4 DEF FS!Refuse
  <2>2. Rises(wire \o Waiting, sends + 1)
    BY <1>1, RisesBelow DEF Ordered
  <2>3. Rises(wire' \o Waiting', sends')
    BY <2>1, <2>2
  <2> QED
    BY <2>1, <2>3 DEF Ordered
<1>5. CASE FS!Acknowledge
  <2>1. CASE UNCHANGED <<Waiting, wire>>
    BY <1>5, <2>1 DEF FS!Acknowledge, Ordered
  <2>2. CASE Waiting # <<>> /\ wire' = Append(wire, Head(Waiting)) /\ Waiting' = Tail(Waiting)
    BY <1>5, <2>2, HandedOn DEF FS!Acknowledge, Ordered
  <2> QED
    BY <1>5, <2>1, <2>2 DEF FS!Acknowledge
<1>6. CASE FS!Abandon
  <2>1. wire' \o Waiting' = <<>> /\ sends' = sends
    BY <1>6, ConcatEmptySeq DEF FS!Abandon
  <2> QED
    BY <2>1 DEF Ordered, Rises
<1>7. CASE FS!Break \/ UNCHANGED FS!chVars
  BY <1>7 DEF FS!Break, FS!chVars, Ordered
<1> QED
  BY <1>2, <1>3, <1>4, <1>5, <1>6, <1>7 DEF FS!ChNext

\* Both are sequences of frames.
LEMMA FrameTypes == IndInv => wire \in Seq(Nat) /\ Waiting \in Seq(Nat)
BY TypeSplit, WaitingIsSeq DEF IndInv, RestType, WaitingFrames

LEMMA FrameTypesNext == (IndInv => wire \in Seq(Nat) /\ Waiting \in Seq(Nat))'
BY FrameTypes, PTL

\* The order holds in every state of ec_io.
LEMMA OrderedAlways == Spec => []Ordered
<1>1. Init => Ordered
  <2> SUFFICES ASSUME Init PROVE Ordered
    OBVIOUS
  <2>1. Waiting = <<>> /\ wire = <<>> /\ sends = 0
    BY InitInv, TypeSplit, NoneWaits DEF IndInv, Init, QueueInit
  <2>2. wire \o Waiting = <<>>
    BY <2>1, ConcatEmptySeq
  <2> QED
    BY <2>1, <2>2 DEF Ordered, Rises
<1>2. Ordered /\ IndInv /\ IndInv' /\ [Next]_vars => Ordered'
  BY FrameTypesNext, NextRefines, OrderedStep
<1> QED
  BY <1>1, <1>2, Inductive, PTL DEF Spec

\* Frames reach the network in the order of the ec_io_send calls and none twice,
\* for every size of the queue: over the direct way, the queue, and what was
\* taken back after ESPCONN_MAXNUM.
THEOREM FramesInOrderHolds == Spec => []FramesInOrder
<1>1. Ordered => FramesInOrder
  BY DEF Ordered, Rises, FramesInOrder
<1> QED
  BY <1>1, OrderedAlways, PTL

---------------------------------------------------------------------------
(* No frame vanishes.                                                      *)

\* ec_io_send keeps the frame or has sent it.
LEMMA SendKeepsFrame ==
    ASSUME IndInv, IndInv', NEW l, ec_io_send(l), ~disturbed', count < QueueSize - 1
    PROVE  \/ count' > 0 /\ Waiting'[count'] = sends'
           \/ wire' # <<>> /\ wire'[Len(wire')] = sends'
<1>1. /\ QueueType /\ QueueInv /\ sends' \in Nat \ {0} /\ WaitingFrames /\ WaitingFrames'
      /\ wire \in Seq(Nat)
  BY TypeSplit, WaitingIsSeq, WaitingStaysSeq, SMTT(30) DEF IndInv, RestType, QueueType, TypeOK, ec_io_send
<1>2. ASSUME queue_push(sends')
      PROVE  count' > 0 /\ Waiting'[count'] = sends'
  <2>1. Waiting' = Append(Waiting, sends') /\ count' = count + 1
    BY <1>1, <1>2, PushWaits DEF QueueType, queue_push
  <2>2. Append(Waiting, sends')[count + 1] = sends'
    BY <1>1, AppendProperties DEF WaitingFrames
  <2> QED
    BY <1>1, <2>1, <2>2 DEF QueueType
<1>3. CASE queue_isEmty /\ sendFlag
  <2>1. PICK r \in SendResult(l, sends') :
           \/ r = "OK" /\ Accepted(sends', inflight) /\ UNCHANGED queueVars
           \/ r = "MAXNUM" /\ Refused(sends', inflight) /\ queue_push(sends')
           \/ r = "ERR" /\ Refused(sends', inflight) /\ UNCHANGED queueVars
    BY <1>3 DEF ec_io_send, SendDirect
  <2>2. wire' = Append(wire, sends')
    BY <1>1, <2>1 DEF Refused, Accepted, Null
  <2> QED
    BY <1>1, <2>2, AppendProperties
<1>4. CASE ~(queue_isEmty /\ sendFlag)
  BY <1>2, <1>4 DEF ec_io_send, SendLater
<1> QED
  BY <1>3, <1>4

\* A frame offered to ec_io is sent or kept, unless the queue is full or espconn
\* refused it, for every size of the queue.
THEOREM NoFrameVanishesHolds == Spec => NoFrameVanishes
<1>1. IndInv /\ IndInv' /\ [Next]_vars =>
        [sends' # sends /\ ~disturbed' /\ count < QueueSize - 1 =>
            \/ count' > 0 /\ Waiting'[count'] = sends'
            \/ wire' # <<>> /\ wire'[Len(wire')] = sends']_vars
  <2> SUFFICES ASSUME IndInv, IndInv', [Next]_vars,
                      sends' # sends, ~disturbed', count < QueueSize - 1
               PROVE  \/ count' > 0 /\ Waiting'[count'] = sends'
                      \/ wire' # <<>> /\ wire'[Len(wire')] = sends'
    OBVIOUS
  <2>1. Send \/ ConnectCb
    BY DEF Next, vars, Connet, Regist, Close, Reconnect, SentCb, ReconCb, DisconCb,
           Broken, DnsCb
  <2>2. CASE Send
    BY <2>2, SendKeepsFrame DEF Send
  <2>3. CASE ConnectCb
    BY <2>3, SendKeepsFrame DEF ConnectCb
  <2> QED
    BY <2>1, <2>2, <2>3
<1> QED
  BY <1>1, Inductive, PTL DEF Spec, NoFrameVanishes
====
