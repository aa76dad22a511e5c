---- MODULE DriverProofs ----
(***************************************************************************)
(* Proofs about the drivers.  KeyDebounce: for every set of keys, no key   *)
(* is left without an interrupt or a timer, and the driver knows the level *)
(* of a key wherever no edge was missed.  UartRx: for every length of      *)
(* FIFO, ring and queue, and however many bytes have come, the application *)
(* gets what the FIFO took, in order and once.  UartTx: the line gets the  *)
(* bytes of the blocks that were taken, in order and once, whatever        *)
(* characters go past the ring, and UART_CheckOutputFinished returns TRUE  *)
(* only where nothing is left.  Drivers: all of this, and what BusProofs   *)
(* shows of the SDIO slave and the I2C master, for the drivers side by     *)
(* side.                                                                   *)
(***************************************************************************)
EXTENDS Drivers, BusProofs, FiniteSetTheorems

---------------------------------------------------------------------------
(* Keys.                                                                   *)

\* What KnowsTheLevel needs in the other states: a key whose edge is in the
\* status register, or being served, is not where the driver takes it to be,
\* and the pin is still as key_50ms_cb read it.
Known(k) ==
    ~missed[k] =>
        /\ at[k] = "none" /\ ~key_50ms[k] =>
              pin[k] = IF status[k] THEN 1 - key_level[k] ELSE key_level[k]
        /\ at[k] = "served" => pin[k] = 1 - key_level[k]
        /\ at[k] = "high" => pin[k] = 1
        /\ at[k] = "low" => pin[k] = 0

KeyInv == KeyTypeOK /\ NeverAlone /\ \A k \in Keys : Known(k)

\* Every handler, timer and edge keeps the types.
LEMMA TypeStep == KeyTypeOK /\ [KeyNext]_keyVars => KeyTypeOK'
<1> SUFFICES ASSUME KeyTypeOK, [KeyNext]_keyVars PROVE KeyTypeOK'
    OBVIOUS
<1> USE DEF KeyTypeOK, Edges, Places, Calls, Set
<1>1. CASE UNCHANGED keyVars
    BY <1>1 DEF keyVars
<1>2. ASSUME NEW k \in Keys, Edge(k) PROVE KeyTypeOK'
    BY <1>2 DEF Edge
<1>3. ASSUME NEW k \in Keys, Interrupt(k) PROVE KeyTypeOK'
    BY <1>3 DEF Interrupt
<1>4. ASSUME NEW k \in Keys, Down(k) PROVE KeyTypeOK'
    BY <1>4 DEF Down
<1>5. ASSUME NEW k \in Keys, Up(k) PROVE KeyTypeOK'
    BY <1>5 DEF Up
<1>6. ASSUME NEW k \in Keys, Look(k) PROVE KeyTypeOK'
    BY <1>6 DEF Look
<1>7. ASSUME NEW k \in Keys, key_50ms_cb_high(k) PROVE KeyTypeOK'
    BY <1>7 DEF key_50ms_cb_high
<1>8. ASSUME NEW k \in Keys, key_50ms_cb_low(k) PROVE KeyTypeOK'
    BY <1>8 DEF key_50ms_cb_low
<1>9. ASSUME NEW k \in Keys, key_5s_cb(k) PROVE KeyTypeOK'
    BY <1>9 DEF key_5s_cb
<1> QED
    BY <1>1, <1>2, <1>3, <1>4, <1>5, <1>6, <1>7, <1>8, <1>9 DEF KeyNext, Driver

\* A step keeps every key watched: it either leaves a key alone or moves it on
\* to the next place that is going to look at it.
LEMMA WatchedStep == KeyTypeOK /\ NeverAlone /\ [KeyNext]_keyVars => NeverAlone'
<1> SUFFICES ASSUME KeyTypeOK, NeverAlone, [KeyNext]_keyVars PROVE NeverAlone'
    OBVIOUS
<1> USE DEF KeyTypeOK, NeverAlone, Edges, Places, Calls, Set
<1>1. CASE UNCHANGED keyVars
    BY <1>1 DEF keyVars
<1>2. ASSUME NEW k \in Keys, Edge(k) PROVE NeverAlone'
    BY <1>2 DEF Edge
<1>3. ASSUME NEW k \in Keys, Interrupt(k) PROVE NeverAlone'
    BY <1>3 DEF Interrupt
<1>4. ASSUME NEW k \in Keys, Down(k) PROVE NeverAlone'
    BY <1>4 DEF Down
<1>5. ASSUME NEW k \in Keys, Up(k) PROVE NeverAlone'
    BY <1>5 DEF Up
<1>6. ASSUME NEW k \in Keys, Look(k) PROVE NeverAlone'
    BY <1>6 DEF Look
<1>7. ASSUME NEW k \in Keys, key_50ms_cb_high(k) PROVE NeverAlone'
    BY <1>7 DEF key_50ms_cb_high
<1>8. ASSUME NEW k \in Keys, key_50ms_cb_low(k) PROVE NeverAlone'
    BY <1>8 DEF key_50ms_cb_low
<1>9. ASSUME NEW k \in Keys, key_5s_cb(k) PROVE NeverAlone'
    BY <1>9 DEF key_5s_cb
<1> QED
    BY <1>1, <1>2, <1>3, <1>4, <1>5, <1>6, <1>7, <1>8, <1>9 DEF KeyNext, Driver

\* A step keeps what is known of a key: an edge is what the interrupt waits
\* for, or it is missed.
LEMMA KnownStep ==
    ASSUME KeyInv, [KeyNext]_keyVars, NEW k \in Keys
    PROVE  Known(k)'
<1> USE DEF KeyInv, KeyTypeOK, NeverAlone, Known, Edges, Places, Calls, Set
<1>1. CASE UNCHANGED keyVars
    BY <1>1 DEF keyVars
<1>2. ASSUME NEW j \in Keys, Edge(j) PROVE Known(k)'
    <2>1. CASE j # k
        <3>1. /\ pin'[k] = pin[k] /\ status'[k] = status[k] /\ missed'[k] = missed[k]
              /\ UNCHANGED <<key_level, key_50ms, at>>
            BY <1>2, <2>1 DEF Edge
        <3> QED
            BY <3>1
    <2>2. CASE j = k
        <3> DEFINE edge == IF pin[k] = 1 THEN "NEGEDGE" ELSE "POSEDGE"
        <3>1. /\ pin'[k] = 1 - pin[k]
              /\ status'[k] = (status[k] \/ intr[k] = edge)
              /\ missed'[k] = (missed[k] \/ (intr[k] # edge /\ ~key_50ms[k]))
              /\ UNCHANGED <<key_level, key_50ms, at, intr>>
            BY <1>2, <2>2 DEF Edge
        <3>2. ~missed'[k] /\ ~key_50ms[k] => intr[k] = edge /\ ~missed[k]
            BY <3>1
        <3>3. edge \in {"NEGEDGE", "POSEDGE"} /\ edge # "DISABLE"
            OBVIOUS
        <3>4. SUFFICES ASSUME ~missed'[k] PROVE Known(k)'
            BY DEF Known
        <3>5. CASE key_50ms[k]
            BY <3>1, <3>5
        <3>6. CASE ~key_50ms[k]
            <4>1. intr[k] = edge /\ ~missed[k] /\ at[k] = "none"
                BY <3>2, <3>3, <3>4, <3>6
            <4>2. status'[k] /\ at'[k] = "none"
                BY <4>1, <3>1
            <4>3. pin'[k] = 1 - key_level[k]
                BY <4>1, <3>1, <3>6
            <4> QED
                BY <4>2, <4>3, <3>1
        <3> QED
            BY <3>5, <3>6
    <2> QED
        BY <2>1, <2>2
<1>3. ASSUME NEW j \in Keys, Interrupt(j) PROVE Known(k)'
    BY <1>3 DEF Interrupt
<1>4. ASSUME NEW j \in Keys, Down(j) PROVE Known(k)'
    BY <1>4 DEF Down
<1>5. ASSUME NEW j \in Keys, Up(j) PROVE Known(k)'
    BY <1>5 DEF Up
<1>6. ASSUME NEW j \in Keys, Look(j) PROVE Known(k)'
    BY <1>6 DEF Look
<1>7. ASSUME NEW j \in Keys, key_50ms_cb_high(j) PROVE Known(k)'
    BY <1>7 DEF key_50ms_cb_high
<1>8. ASSUME NEW j \in Keys, key_50ms_cb_low(j) PROVE Known(k)'
    BY <1>8 DEF key_50ms_cb_low
<1>9. ASSUME NEW j \in Keys, key_5s_cb(j) PROVE Known(k)'
    BY <1>9 DEF key_5s_cb
<1> QED
    BY <1>1, <1>2, <1>3, <1>4, <1>5, <1>6, <1>7, <1>8, <1>9 DEF KeyNext, Driver

LEMMA KeyInvInit == KeyInit => KeyInv
<1> SUFFICES ASSUME KeyInit PROVE KeyInv
    OBVIOUS
<1> USE DEF KeyInit, All
<1>1. KeyTypeOK
    BY DEF KeyTypeOK, Edges, Places, Calls
<1>2. NeverAlone
    BY DEF NeverAlone
<1>3. ASSUME NEW k \in Keys PROVE Known(k)
    <2>1. missed[k] = (pin[k] = 0) /\ pin[k] \in {0, 1}
        OBVIOUS
    <2> QED
        BY <2>1 DEF Known
<1> QED
    BY <1>1, <1>2, <1>3 DEF KeyInv

\* The invariant of the driver of the keys.
LEMMA KeyInvAlways == KeySpec => []KeyInv
<1>1. KeyInv /\ [KeyNext]_keyVars => KeyInv'
    BY TypeStep, WatchedStep, KnownStep DEF KeyInv
<1> QED
    BY KeyInvInit, <1>1, PTL DEF KeySpec

\* For every set of keys: at rest, and unless an edge was missed, the driver
\* takes a key to be down exactly while it is.
THEOREM LevelIsKnown == KeySpec => []KnowsTheLevel
<1>1. KeyInv => KnowsTheLevel
    BY DEF KeyInv, KnowsTheLevel, Known
<1> QED
    BY KeyInvAlways, <1>1, PTL

\* For every set of keys: a key that no handler works on has the interrupt
\* waiting for its next edge, or the timer of 50 ms going to look at it
\* (key_intr_handler, key_50ms_cb and key_5s_cb in any order), and what the
\* driver makes of its level is right but for the edges it missed.
THEOREM KeysAreWatched == KeySpec => []KeyWatched
<1>1. KeyInv /\ KnowsTheLevel => KeyWatched
    BY DEF KeyInv, KeyWatched
<1> QED
    BY KeyInvAlways, LevelIsKnown, <1>1, PTL

\* For every set of keys: no handler leaves a variable outside its range.
THEOREM KeyTypes == KeySpec => []KeyTypeOK
<1>1. KeyInv => KeyTypeOK
    BY DEF KeyInv
<1> QED
    BY KeyInvAlways, <1>1, PTL
---------------------------------------------------------------------------
(* Numbers, and runs of them.                                              *)

LEMMA NumberIs ==
    ASSUME Count \in Nat \ {0}, NEW a \in 0..(Count - 1), NEW b \in 0..Count
    PROVE  Number(a + b) = Wrap(Count, a + b) /\ Number(a + b) \in 0..(Count - 1)
<1>1. (a + b) % Count = Wrap(Count, a + b) /\ Wrap(Count, a + b) \in 0..(Count - 1)
    BY RingWrap
<1> QED
    BY <1>1 DEF Number

LEMMA RunIs ==
    ASSUME Count \in Nat \ {0}, NEW a \in 0..(Count - 1), NEW n \in 0..Count
    PROVE  /\ Run(a, n) \in Seq(0..(Count - 1)) /\ Len(Run(a, n)) = n
           /\ \A i \in 1..n : /\ Run(a, n)[i] = Wrap(Count, a + (i - 1))
                              /\ Run(a, n)[i] \in 0..(Count - 1)
<1>1. ASSUME NEW i \in 1..n
      PROVE  /\ Number(a + i - 1) = Wrap(Count, a + (i - 1))
             /\ Number(a + i - 1) \in 0..(Count - 1)
    <2>1. i - 1 \in 0..Count /\ a + i - 1 = a + (i - 1)
        OBVIOUS
    <2> QED  BY <2>1, NumberIs
<1> QED
    BY <1>1 DEF Run

---------------------------------------------------------------------------
(* The receiving side of the UART.                                         *)

RxUsed == RxSize - rx_space

\* The inductive invariant says of each byte what ReceivedInOrder says of the
\* whole, and that a build without UART_BUFF_EN leaves the ring alone.
RxInv ==
    /\ RxTypeOK /\ rx_heard
    /\ ~buffEn => RxUsed = 0
    /\ rx_in = Wrap(RxSize, rx_out + RxUsed)
    /\ kept = Wrap(Count, wanted + (RxUsed + Len(rx_fifo)))
    /\ \A i \in 0..(RxUsed - 1) : rx_buff[Wrap(RxSize, rx_out + i)] = Wrap(Count, wanted + i)
    /\ \A i \in 1..Len(rx_fifo) : rx_fifo[i] = Wrap(Count, wanted + (RxUsed + (i - 1)))

---------------------------------------------------------------------------
(* Numbers and places.                                                     *)

LEMMA RxSizes ==
    ASSUME UartRxAssumption
    PROVE  /\ RxFifoLen \in Nat \ {0} /\ RxSize \in Nat \ {0} /\ RxFifoLen < RxSize
           /\ Count \in Nat \ {0} /\ RxFifoLen + RxSize < Count
           /\ QueueLen \in Nat \ {0} /\ MaxRead \in Nat \ {0}
    BY DEF UartRxAssumption

LEMMA RxPlaceIs ==
    ASSUME UartRxAssumption, NEW a \in 0..(RxSize - 1), NEW b \in 0..RxSize
    PROVE  (a + b) % RxSize = Wrap(RxSize, a + b) /\ (a + b) % RxSize \in 0..(RxSize - 1)
<1>1. RxSize \in Nat \ {0}
    BY RxSizes
<1>2. (a + b) % RxSize = IF a + b < RxSize THEN a + b ELSE a + b - RxSize
    BY <1>1, RingSum
<1>3. (a + b) % RxSize = Wrap(RxSize, a + b)
    BY <1>1, <1>2 DEF Wrap
<1>4. Wrap(RxSize, a + b) \in 0..(RxSize - 1)
    BY <1>1 DEF Wrap
<1> QED
    BY <1>3, <1>4

\* What a type-correct state gives to arithmetic.
LEMMA RxRanges ==
    ASSUME UartRxAssumption, RxTypeOK
    PROVE  /\ RxUsed \in 0..(RxSize - 1) /\ rx_space \in 1..RxSize /\ rx_space = RxSize - RxUsed
           /\ Len(rx_fifo) \in 0..RxFifoLen /\ rx_fifo \in Seq(0..(Count - 1))
           /\ rx_in \in 0..(RxSize - 1) /\ rx_out \in 0..(RxSize - 1)
           /\ kept \in 0..(Count - 1) /\ wanted \in 0..(Count - 1)
<1>1. rx_space \in 1..RxSize /\ RxSize \in Nat
    BY RxSizes DEF RxTypeOK
<1>2. RxUsed \in 0..(RxSize - 1) /\ rx_space = RxSize - RxUsed
    BY <1>1 DEF RxUsed
<1>3. rx_fifo \in Seq(0..(Count - 1)) /\ Len(rx_fifo) <= RxFifoLen /\ RxFifoLen \in Nat
    BY RxSizes DEF RxTypeOK
<1>4. Len(rx_fifo) \in 0..RxFifoLen
    BY <1>3, LenProperties
<1>5. /\ rx_in \in 0..(RxSize - 1) /\ rx_out \in 0..(RxSize - 1)
      /\ kept \in 0..(Count - 1) /\ wanted \in 0..(Count - 1)
    BY DEF RxTypeOK
<1> QED
    BY <1>1, <1>2, <1>3, <1>4, <1>5

---------------------------------------------------------------------------

LEMMA RxInitInv == ASSUME UartRxAssumption, RxInit PROVE RxInv
<1>1. RxUsed = 0 /\ Len(rx_fifo) = 0 /\ rx_in = 0 /\ rx_out = 0 /\ kept = 0 /\ wanted = 0
    BY RxSizes DEF RxInit, RxUsed
<1>2. rx_buff \in [0..(RxSize - 1) -> 0..(Count - 1)]
    BY RxSizes DEF RxInit
<1>3. rx_fifo \in Seq(0..(Count - 1))
    BY DEF RxInit
<1>4. rx_ena \in BOOLEAN /\ rx_heard \in BOOLEAN /\ rx_heard /\ buffEn \in BOOLEAN
    BY Zenon DEF RxInit
<1>5. RxTypeOK
    BY <1>1, <1>2, <1>3, <1>4, RxSizes DEF RxInit, RxTypeOK
<1> QED
    BY <1>1, <1>4, <1>5, RxSizes DEF RxInv, Wrap

\* The FIFO takes a byte, or loses it.
LEMMA ByteStep ==
    ASSUME UartRxAssumption, RxInv, NEW err \in SUBSET {"FRM_ERR"}, Byte(err)
    PROVE  RxInv'
<1>1. /\ UNCHANGED <<buffEn, rx_ena, events, rx_buff, rx_in, rx_out, rx_space, wanted, rx_heard>>
      /\ RxUsed' = RxUsed
    BY DEF Byte, rx_ring, RxUsed
<1>2. rx_int_st' \subseteq {"FRM_ERR", "OVF"}
    BY DEF Byte, RxInv, RxTypeOK
<1>3. RxTypeOK
    BY DEF RxInv
<1>4. CASE Len(rx_fifo) < RxFifoLen
    <2>1. rx_fifo' = Append(rx_fifo, kept) /\ kept' = Number(kept + 1)
        BY <1>4 DEF Byte
    <2>2. /\ Len(rx_fifo') = Len(rx_fifo) + 1 /\ rx_fifo' \in Seq(0..(Count - 1))
          /\ \A i \in 1..Len(rx_fifo) : rx_fifo'[i] = rx_fifo[i]
          /\ rx_fifo'[Len(rx_fifo) + 1] = kept
        BY <2>1, <1>3, RxRanges
    <2>3. kept' = Wrap(Count, kept + 1) /\ kept' \in 0..(Count - 1)
        <3>1. kept \in 0..(Count - 1) /\ 1 \in 0..Count
            BY <1>3, RxRanges, RxSizes, SMTT(30)
        <3> QED  BY <2>1, <3>1, RxSizes, NumberIs
    <2>4. kept' = Wrap(Count, wanted + (RxUsed + Len(rx_fifo')))
        <3> DEFINE n == RxUsed + Len(rx_fifo)
        <3>4. /\ RxUsed \in 0..(RxSize - 1) /\ Len(rx_fifo) \in 0..RxFifoLen
              /\ wanted \in 0..(Count - 1) /\ Len(rx_fifo') = Len(rx_fifo) + 1
            BY <2>2, <1>3, RxRanges
        <3>1. /\ Count \in Nat \ {0} /\ wanted \in 0..(Count - 1) /\ n \in Nat /\ n + 1 <= Count
              /\ RxUsed + Len(rx_fifo') = n + 1
            BY <3>4, RxSizes
        <3>2. kept = Wrap(Count, wanted + n)
            BY DEF RxInv
        <3> HIDE DEF n
        <3> QED  BY <3>1, <3>2, <2>3, WrapTwice
    <2>5. \A i \in 1..Len(rx_fifo') : rx_fifo'[i] = Wrap(Count, wanted + (RxUsed + (i - 1)))
        <3>1. \A i \in 1..Len(rx_fifo) : rx_fifo'[i] = Wrap(Count, wanted + (RxUsed + (i - 1)))
            BY <2>2 DEF RxInv
        <3>2. rx_fifo'[Len(rx_fifo) + 1] = Wrap(Count, wanted + (RxUsed + Len(rx_fifo)))
            BY <2>2 DEF RxInv
        <3>3. /\ Len(rx_fifo) \in Nat /\ Len(rx_fifo') = Len(rx_fifo) + 1
              /\ Len(rx_fifo) + 1 - 1 = Len(rx_fifo)
            BY <2>2, <1>3, RxRanges
        <3>4. \A i \in 1..Len(rx_fifo') : i \in 1..Len(rx_fifo) \/ i = Len(rx_fifo) + 1
            BY <3>3
        <3> QED  BY <3>1, <3>2, <3>3, <3>4
    <2>6. RxTypeOK'
        <3>1. Len(rx_fifo') <= RxFifoLen
            BY <2>2, <1>3, <1>4, RxRanges, RxSizes
        <3> QED  BY <2>2, <2>3, <3>1, <1>1, <1>2, <1>3 DEF RxTypeOK
    <2> QED  BY <2>4, <2>5, <2>6, <1>1 DEF RxInv
<1>5. CASE ~(Len(rx_fifo) < RxFifoLen)
    <2>1. UNCHANGED <<rx_fifo, kept>>
        BY <1>5 DEF Byte
    <2>2. RxTypeOK'
        BY <2>1, <1>1, <1>2, <1>3 DEF RxTypeOK
    <2> QED  BY <2>1, <2>2, <1>1 DEF RxInv
<1> QED
    BY <1>4, <1>5

\* The handler of the interrupt posts, and moves no byte.
LEMMA RxHandlerStep == ASSUME UartRxAssumption, RxInv, RxHandler PROVE RxInv'
<1>1. /\ UNCHANGED <<buffEn, rx_fifo, rx_buff, rx_in, rx_out, rx_space, kept, wanted, rx_heard>>
      /\ RxUsed' = RxUsed
    BY DEF RxHandler, FrameError, Received, Overflow, rx_ring, RxUsed
<1>2. rx_ena' \in BOOLEAN
    BY Zenon DEF RxHandler, FrameError, Received, Overflow, uart_rx_intr_disable, RxInv, RxTypeOK
<1>3. events' \in 0..QueueLen
    <2>1. events \in 0..QueueLen /\ QueueLen \in Nat
        BY RxSizes DEF RxInv, RxTypeOK
    <2> QED  BY <2>1 DEF RxHandler, FrameError, Received, Overflow
<1>5. rx_int_st' \subseteq {"FRM_ERR", "OVF"}
    BY DEF RxHandler, FrameError, Received, Overflow, RxInv, RxTypeOK
<1>4. RxTypeOK'
    BY <1>1, <1>2, <1>3, <1>5 DEF RxInv, RxTypeOK
<1> QED
    BY <1>1, <1>4 DEF RxInv

\* What is in the FIFO is dropped, and the numbers with it.
LEMMA RxResetStep == ASSUME UartRxAssumption, RxInv, RxResetFifo PROVE RxInv'
<1>1. /\ UNCHANGED <<buffEn, rx_int_st, rx_ena, events, rx_buff, rx_in, rx_out, rx_space,
                     wanted, rx_heard>>
      /\ RxUsed' = RxUsed /\ rx_fifo' = <<>> /\ Len(rx_fifo') = 0
    BY DEF RxResetFifo, rx_ring, RxUsed
<1>2. RxTypeOK
    BY DEF RxInv
<1>3. kept' = Wrap(Count, kept + (Count - Len(rx_fifo))) /\ kept' \in 0..(Count - 1)
    <2>1. Count - Len(rx_fifo) \in 0..Count
        BY <1>2, RxRanges, RxSizes, SMTT(30)
    <2>2. kept' = Number(kept + (Count - Len(rx_fifo)))
        BY <1>2, RxRanges, RxSizes DEF RxResetFifo
    <2> QED  BY <2>1, <2>2, <1>2, RxRanges, RxSizes, NumberIs
<1>4. kept' = Wrap(Count, wanted + (RxUsed + Len(rx_fifo')))
    <2> DEFINE n == RxUsed + Len(rx_fifo)
    <2>1. /\ Count \in Nat \ {0} /\ wanted \in 0..(Count - 1) /\ n \in Nat /\ n <= Count
          /\ Len(rx_fifo) \in Nat /\ Len(rx_fifo) <= n /\ n - Len(rx_fifo) = RxUsed + Len(rx_fifo')
        BY <1>1, <1>2, RxRanges, RxSizes, SMTT(30)
    <2>2. kept = Wrap(Count, wanted + n)
        BY DEF RxInv
    <2> HIDE DEF n
    <2>3. Wrap(Count, kept + (Count - Len(rx_fifo))) = Wrap(Count, wanted + (n - Len(rx_fifo)))
        BY <2>1, <2>2, WrapBack
    <2> QED  BY <2>1, <2>3, <1>3
<1>5. RxTypeOK'
    BY <1>1, <1>2, <1>3, RxSizes, SMTT(30) DEF RxTypeOK
<1> QED
    BY <1>1, <1>4, <1>5 DEF RxInv

---------------------------------------------------------------------------
(* The task.                                                               *)

\* The FIFO goes behind what the ring holds.
LEMMA RxEnqStep ==
    ASSUME UartRxAssumption, RxInv, Uart_rx_buff_enq, events' \in 0..QueueLen,
           UNCHANGED <<buffEn, rx_int_st, kept, wanted, rx_heard>>, buffEn
    PROVE  RxInv'
<1> DEFINE n == Len(rx_fifo)
<1>1. RxTypeOK
    BY DEF RxInv
<1>2. /\ RxSize \in Nat \ {0} /\ Count \in Nat \ {0} /\ RxUsed \in 0..(RxSize - 1)
      /\ rx_space \in 1..RxSize /\ rx_space = RxSize - RxUsed /\ n \in Nat /\ n <= RxFifoLen
      /\ RxFifoLen \in Nat /\ RxFifoLen + RxSize < Count
      /\ rx_in \in 0..(RxSize - 1) /\ rx_out \in 0..(RxSize - 1)
      /\ wanted \in 0..(Count - 1)
    BY <1>1, RxRanges, RxSizes
<1>3. CASE n >= rx_space
    <2>1. UNCHANGED <<rx_fifo, rx_buff, rx_in, rx_out, rx_space, rx_ena>> /\ RxUsed' = RxUsed
        BY <1>3 DEF Uart_rx_buff_enq, rx_ring, RxUsed
    <2>2. RxTypeOK'
        BY <2>1, <1>1 DEF RxTypeOK
    <2> QED  BY <2>1, <2>2 DEF RxInv
<1>4. CASE ~(n >= rx_space)
    <2>1. /\ rx_fifo' = <<>> /\ UNCHANGED rx_out
          /\ rx_buff' = [i \in DOMAIN rx_buff |-> IF (i - rx_in) % RxSize < n
                                           THEN rx_fifo[((i - rx_in) % RxSize) + 1] ELSE rx_buff[i]]
          /\ rx_in' = (rx_in + n) % RxSize /\ rx_space' = rx_space - n
          /\ rx_ena' = TRUE \/ rx_ena' = rx_ena
        BY <1>4 DEF Uart_rx_buff_enq, uart_rx_intr_enable
    <2>2. DOMAIN rx_buff = 0..(RxSize - 1) /\ rx_buff \in [0..(RxSize - 1) -> 0..(Count - 1)]
        BY <1>1 DEF RxTypeOK
    <2>3. n < rx_space /\ RxUsed' = RxUsed + n /\ Len(rx_fifo') = 0
        BY <1>2, <1>4, <2>1 DEF RxUsed
    <2>4. rx_in' = Wrap(RxSize, rx_in + n) /\ rx_in' \in 0..(RxSize - 1)
        <3>1. n \in 0..RxSize
            BY <2>3, <1>2
        <3>2. rx_in' = (rx_in + n) % RxSize
            BY <2>1
        <3> HIDE DEF n
        <3> QED  BY <3>1, <3>2, <1>2, RxPlaceIs
    <2>5. rx_in' = Wrap(RxSize, rx_out' + RxUsed')
        <3>1. Wrap(RxSize, Wrap(RxSize, rx_out + RxUsed) + n) = Wrap(RxSize, rx_out + (RxUsed + n))
            <4>1. /\ RxUsed \in Nat /\ n \in Nat /\ RxUsed + n <= RxSize
                  /\ RxSize \in Nat \ {0} /\ rx_out \in 0..(RxSize - 1)
                BY <1>2, <2>3
            <4> HIDE DEF n
            <4> QED  BY <4>1 DEF Wrap
        <3>2. rx_in = Wrap(RxSize, rx_out + RxUsed)
            BY DEF RxInv
        <3>3. rx_out' + RxUsed' = rx_out + (RxUsed + n)
            BY <2>1, <2>3
        <3> HIDE DEF n
        <3> QED  BY <3>1, <3>2, <3>3, <2>4
    <2>6. ASSUME NEW i \in 0..(RxSize - 1)
          PROVE  /\ (i - rx_in) % RxSize = IF i >= rx_in THEN i - rx_in ELSE i - rx_in + RxSize
                 /\ (i - rx_in) % RxSize \in 0..(RxSize - 1)
        <3>1. (i - rx_in) % RxSize = IF i >= rx_in THEN i - rx_in ELSE i - rx_in + RxSize
            BY <1>2, RingDifference
        <3>2. (IF i >= rx_in THEN i - rx_in ELSE i - rx_in + RxSize) \in 0..(RxSize - 1)
            BY <1>2
        <3> QED  BY <3>1, <3>2
    <2>7. ASSUME NEW k \in 0..(RxUsed' - 1)
          PROVE  rx_buff'[Wrap(RxSize, rx_out + k)] = Wrap(Count, wanted + k)
        <3> DEFINE x == Wrap(RxSize, rx_out + k)
                   d == (x - rx_in) % RxSize
        <3>1. k \in 0..(RxUsed + n - 1) /\ k \in 0..RxSize /\ n \in 0..(RxSize - RxUsed)
            BY <1>2, <2>3
        <3>2. x \in 0..(RxSize - 1)
            BY <3>1, <1>2, RxPlaceIs
        <3>3. rx_buff'[x] = IF d < n THEN rx_fifo[d + 1] ELSE rx_buff[x]
            BY <3>2, <2>1, <2>2
        <3>4. d = IF x >= rx_in THEN x - rx_in ELSE x - rx_in + RxSize
            BY <3>2, <2>6
        <3> HIDE DEF d
        <3>5. (k < RxUsed => ~(d < n)) /\ (k >= RxUsed => d = k - RxUsed)
            <4>1. x = Wrap(RxSize, rx_out + k) /\ rx_in = Wrap(RxSize, rx_out + RxUsed)
                BY DEF RxInv
            <4> HIDE DEF x, n
            <4>2. /\ RxSize \in Nat \ {0} /\ rx_out \in 0..(RxSize - 1)
                  /\ RxUsed \in 0..(RxSize - 1)
                BY <1>2
            <4> QED  BY <4>1, <4>2, <3>1, <3>4 DEF Wrap
        <3>6. CASE k < RxUsed
            <4>1. k \in 0..(RxUsed - 1)
                BY <3>1, <3>6, <1>2
            <4> QED  BY <4>1, <3>3, <3>5, <3>6 DEF RxInv
        <3>7. CASE k >= RxUsed
            <4>1. d = k - RxUsed /\ d < n /\ d + 1 \in 1..n /\ RxUsed + ((d + 1) - 1) = k
                BY <3>1, <3>5, <3>7, <1>2
            <4>2. rx_fifo[d + 1] = Wrap(Count, wanted + (RxUsed + ((d + 1) - 1)))
                BY <4>1 DEF RxInv
            <4>3. rx_buff'[x] = rx_fifo[d + 1]
                BY <4>1, <3>3
            <4> QED  BY <4>1, <4>2, <4>3
        <3> QED  BY <3>6, <3>7, <3>1, <1>2
    <2>8. rx_buff' \in [0..(RxSize - 1) -> 0..(Count - 1)]
        <3>1. ASSUME NEW i \in 0..(RxSize - 1) PROVE rx_buff'[i] \in 0..(Count - 1)
            <4>1. CASE (i - rx_in) % RxSize < n
                <5>1. ((i - rx_in) % RxSize) + 1 \in 1..n
                    BY <4>1, <2>6, <1>2
                <5>2. rx_fifo[((i - rx_in) % RxSize) + 1] \in 0..(Count - 1)
                    BY <5>1, <1>1, RxRanges, ElementOfSeq
                <5> QED  BY <5>2, <4>1, <2>1, <2>2
            <4>2. CASE ~((i - rx_in) % RxSize < n)
                BY <4>2, <2>1, <2>2
            <4> QED  BY <4>1, <4>2
        <3> QED  BY <3>1, <2>1, <2>2
    <2>9. rx_space' \in 1..RxSize /\ rx_fifo' \in Seq(0..(Count - 1)) /\ Len(rx_fifo') <= RxFifoLen
        BY <1>2, <2>1, <2>3
    <2>10. rx_ena' \in BOOLEAN
        BY <2>1, <1>1, Zenon DEF RxTypeOK
    <2>11. RxTypeOK'
        BY <2>1, <2>4, <2>8, <2>9, <2>10, <1>1 DEF RxTypeOK
    <2>12. kept' = Wrap(Count, wanted' + (RxUsed' + Len(rx_fifo')))
        BY <2>3, <1>2 DEF RxInv
    <2>13. \A i \in 0..(RxUsed' - 1) : rx_buff'[Wrap(RxSize, rx_out' + i)] = Wrap(Count, wanted' + i)
        <3>1. rx_out' = rx_out /\ wanted' = wanted
            BY <2>1
        <3> QED  BY <3>1, <2>7, Zenon
    <2>14. \A i \in 1..Len(rx_fifo') : rx_fifo'[i] = Wrap(Count, wanted' + (RxUsed' + (i - 1)))
        BY <2>3
    <2>15. rx_heard' /\ buffEn'
        BY DEF RxInv
    <2> QED  BY <2>5, <2>11, <2>12, <2>13, <2>14, <2>15, Zenon DEF RxInv
<1> QED
    BY <1>3, <1>4

\* The task without UART_BUFF_EN echoes the FIFO.
LEMMA EchoStep ==
    ASSUME UartRxAssumption, RxInv, ~buffEn, Give(rx_fifo), rx_fifo' = <<>>, uart_rx_intr_enable,
           UNCHANGED <<rx_ring, buffEn, rx_int_st, kept>>, events' \in 0..QueueLen
    PROVE  RxInv'
<1>1. RxTypeOK /\ RxUsed = 0 /\ rx_heard
    BY DEF RxInv
<1>2. /\ UNCHANGED <<rx_buff, rx_in, rx_out, rx_space>> /\ RxUsed' = RxUsed /\ Len(rx_fifo') = 0
      /\ rx_fifo' \in Seq(0..(Count - 1))
    BY DEF rx_ring, RxUsed
<1>3. /\ Count \in Nat \ {0} /\ Len(rx_fifo) \in 0..Count /\ wanted \in 0..(Count - 1)
      /\ rx_fifo \in Seq(0..(Count - 1))
    BY <1>1, RxRanges, RxSizes
<1>4. rx_fifo = Run(wanted, Len(rx_fifo))
    <2>1. /\ Run(wanted, Len(rx_fifo)) \in Seq(0..(Count - 1))
          /\ Len(Run(wanted, Len(rx_fifo))) = Len(rx_fifo)
          /\ \A i \in 1..Len(rx_fifo) : Run(wanted, Len(rx_fifo))[i] = Wrap(Count, wanted + (i - 1))
        BY <1>3, RxSizes, RunIs
    <2>2. \A i \in 1..Len(rx_fifo) : rx_fifo[i] = Wrap(Count, wanted + (i - 1))
        BY <1>1, <1>3 DEF RxInv
    <2> QED  BY <2>1, <2>2, <1>3, SeqEqual
<1>5. rx_heard'
    BY <1>1, <1>4, Zenon DEF Give
<1>6. wanted' = Wrap(Count, wanted + Len(rx_fifo)) /\ wanted' \in 0..(Count - 1)
    BY <1>3, RxSizes, NumberIs DEF Give
<1>7. kept' = Wrap(Count, wanted' + (RxUsed' + Len(rx_fifo')))
    <2>1. kept = Wrap(Count, wanted + Len(rx_fifo))
        BY <1>1, <1>3 DEF RxInv
    <2>2. kept' = wanted'
        BY <2>1, <1>6
    <2>3. RxUsed' + Len(rx_fifo') = 0
        BY <1>1, <1>2
    <2> QED  BY <2>2, <2>3, <1>3, <1>6 DEF Wrap
<1>8. rx_ena' \in BOOLEAN /\ rx_heard' \in BOOLEAN /\ buffEn' \in BOOLEAN
    BY <1>1, <1>5, Zenon DEF uart_rx_intr_enable, RxTypeOK
<1>9. RxTypeOK'
    BY <1>1, <1>2, <1>6, <1>8, RxSizes, SMTT(30) DEF RxTypeOK
<1> QED
    BY <1>1, <1>2, <1>5, <1>7, <1>9 DEF RxInv

LEMMA TaskStep == ASSUME UartRxAssumption, RxInv, RecvTask PROVE RxInv'
<1>1. events' \in 0..QueueLen
    BY RxSizes DEF RecvTask, RxInv, RxTypeOK
<1>2. CASE buffEn
    BY <1>1, <1>2, RxEnqStep DEF RecvTask
<1>3. CASE ~buffEn
    BY <1>1, <1>3, EchoStep DEF RecvTask
<1> QED
    BY <1>2, <1>3

---------------------------------------------------------------------------
(* The application reads.                                                  *)

LEMMA ReadStep ==
    ASSUME UartRxAssumption, RxInv, NEW n \in 1..MaxRead, Read(n)
    PROVE  RxInv'
<1>1. RxTypeOK /\ rx_heard /\ buffEn
    BY DEF RxInv, Read
<1>2. /\ RxSize \in Nat \ {0} /\ Count \in Nat \ {0} /\ RxUsed \in 0..(RxSize - 1)
      /\ rx_space \in 1..RxSize /\ rx_space = RxSize - RxUsed /\ Len(rx_fifo) \in 0..RxFifoLen
      /\ RxFifoLen \in Nat /\ RxFifoLen + RxSize < Count
      /\ rx_in \in 0..(RxSize - 1) /\ rx_out \in 0..(RxSize - 1)
      /\ wanted \in 0..(Count - 1) /\ n \in Nat
    BY <1>1, RxRanges, RxSizes
<1> DEFINE m == IF n > RxSize - rx_space THEN RxSize - rx_space ELSE n
           Spot(i) == IF rx_out <= rx_in THEN rx_out + i ELSE (rx_out + i) % RxSize
           bytes == [i \in 1..m |-> rx_buff[Spot(i - 1)]]
<1>3. /\ Give(bytes) /\ rx_out' = Spot(m) /\ rx_space' = rx_space + m
      /\ UNCHANGED <<rx_buff, rx_in, buffEn, rx_fifo, rx_int_st, events, kept>>
      /\ rx_ena' = TRUE \/ rx_ena' = rx_ena
    BY DEF Read, rx_buff_deq, uart_rx_intr_enable
<1>4. m \in 0..RxUsed /\ m \in Nat
    BY <1>2
<1> HIDE DEF m
<1>5. rx_in = Wrap(RxSize, rx_out + RxUsed)
    BY DEF RxInv
<1>6. ASSUME NEW k \in 0..RxUsed PROVE Spot(k) = Wrap(RxSize, rx_out + k)
    <2>1. CASE rx_out <= rx_in
        BY <2>1, <1>2, <1>5 DEF Wrap
    <2>2. CASE ~(rx_out <= rx_in)
        <3>1. k \in 0..RxSize /\ Spot(k) = (rx_out + k) % RxSize
            BY <2>2, <1>2
        <3> QED  BY <3>1, <1>2, RxPlaceIs
    <2> QED  BY <2>1, <2>2
<1> HIDE DEF Spot
<1>7. \A k \in 0..(RxUsed - 1) : rx_buff[Wrap(RxSize, rx_out + k)] = Wrap(Count, wanted + k)
    BY DEF RxInv
<1>8. bytes = Run(wanted, m) /\ Len(bytes) = m
    <2>1. \A i \in 1..m : i - 1 \in 0..(RxUsed - 1) /\ i - 1 \in 0..RxUsed
        BY <1>2, <1>4
    <2>2. \A i \in 1..m : rx_buff[Spot(i - 1)] = Wrap(Count, wanted + (i - 1))
        BY <2>1, <1>6, <1>7
    <2>3. m \in 0..Count
        BY <1>2, <1>4
    <2>4. /\ Run(wanted, m) \in Seq(0..(Count - 1)) /\ Len(Run(wanted, m)) = m
          /\ \A i \in 1..m : Run(wanted, m)[i] = Wrap(Count, wanted + (i - 1))
        BY <2>3, <1>2, RxSizes, RunIs
    <2>5. \A i \in 1..m : Wrap(Count, wanted + (i - 1)) \in 0..(Count - 1)
        BY <2>3, <1>2 DEF Wrap
    <2>6. bytes \in Seq(0..(Count - 1)) /\ Len(bytes) = m /\ \A i \in 1..m : bytes[i] = Run(wanted, m)[i]
        BY <2>2, <2>4, <2>5, <1>4
    <2> HIDE DEF bytes
    <2> QED  BY <2>4, <2>6, SeqEqual
<1> HIDE DEF bytes
<1>9. rx_heard'
    BY <1>1, <1>3, <1>8, Zenon DEF Give
<1>10. wanted' = Wrap(Count, wanted + m) /\ wanted' \in 0..(Count - 1)
    <2>1. m \in 0..Count /\ wanted' = Number(wanted + m)
        BY <1>2, <1>3, <1>4, <1>8 DEF Give
    <2> QED  BY <2>1, <1>2, RxSizes, NumberIs
<1>11. rx_out' = Wrap(RxSize, rx_out + m) /\ rx_out' \in 0..(RxSize - 1)
    <2>1. rx_out' = Wrap(RxSize, rx_out + m)
        BY <1>3, <1>4, <1>6
    <2> QED  BY <2>1, <1>2, <1>4 DEF Wrap
<1>12. RxUsed' = RxUsed - m /\ rx_space' \in 1..RxSize
    BY <1>2, <1>3, <1>4 DEF RxUsed
<1>13. rx_in' = Wrap(RxSize, rx_out' + RxUsed')
    BY <1>2, <1>3, <1>4, <1>5, <1>11, <1>12 DEF Wrap
<1>14. kept' = Wrap(Count, wanted' + (RxUsed' + Len(rx_fifo')))
    <2>1. kept = Wrap(Count, wanted + (RxUsed + Len(rx_fifo)))
        BY DEF RxInv
    <2>2. kept' = kept /\ Len(rx_fifo') = Len(rx_fifo)
        BY <1>3
    <2> QED  BY <2>1, <2>2, <1>2, <1>4, <1>10, <1>12 DEF Wrap
<1>15. ASSUME NEW k \in 0..(RxUsed' - 1)
       PROVE  rx_buff'[Wrap(RxSize, rx_out' + k)] = Wrap(Count, wanted' + k)
    <2>1. m + k \in 0..(RxUsed - 1) /\ k \in Nat
        BY <1>2, <1>4, <1>12
    <2>2. Wrap(RxSize, rx_out' + k) = Wrap(RxSize, rx_out + (m + k))
        BY <2>1, <1>2, <1>4, <1>11 DEF Wrap
    <2>3. Wrap(Count, wanted' + k) = Wrap(Count, wanted + (m + k))
        BY <2>1, <1>2, <1>4, <1>10 DEF Wrap
    <2> QED  BY <2>1, <2>2, <2>3, <1>3, <1>7
<1>16. ASSUME NEW i \in 1..Len(rx_fifo')
       PROVE  rx_fifo'[i] = Wrap(Count, wanted' + (RxUsed' + (i - 1)))
    <2>1. i \in 1..Len(rx_fifo) /\ rx_fifo'[i] = rx_fifo[i]
        BY <1>3
    <2>2. rx_fifo[i] = Wrap(Count, wanted + (RxUsed + (i - 1)))
        BY <2>1 DEF RxInv
    <2> QED  BY <2>1, <2>2, <1>2, <1>4, <1>10, <1>12 DEF Wrap
<1>17. rx_ena' \in BOOLEAN /\ rx_heard' \in BOOLEAN /\ buffEn'
    BY <1>1, <1>3, <1>9, Zenon DEF RxTypeOK
<1>18. RxTypeOK'
    BY <1>1, <1>3, <1>10, <1>11, <1>12, <1>17 DEF RxTypeOK
<1> QED
    BY <1>9, <1>13, <1>14, <1>15, <1>16, <1>17, <1>18, Zenon DEF RxInv

---------------------------------------------------------------------------
(* The theorem.                                                            *)

LEMMA RxStep == ASSUME UartRxAssumption, RxInv, [RxNext]_rxVars PROVE RxInv'
<1>1. CASE UNCHANGED rxVars
    BY <1>1 DEF rxVars, RxInv, RxTypeOK, RxUsed
<1>2. CASE \E err \in {{}, {"FRM_ERR"}} : Byte(err)
    BY <1>2, ByteStep
<1>3. CASE RxNext
    BY <1>2, <1>3, RxHandlerStep, TaskStep, ReadStep, RxResetStep DEF RxNext
<1> QED
    BY <1>1, <1>3

\* The whole from its bytes.
LEMMA RxInOrder == ASSUME UartRxAssumption, RxInv PROVE ReceivedInOrder
<1> DEFINE val(i) == rx_buff[(rx_out + i - 1) % RxSize]
           held == [i \in 1..RxUsed |-> val(i)]
           total == RxUsed + Len(rx_fifo)
<1>1. RxTypeOK /\ rx_heard
    BY DEF RxInv
<1>2. /\ RxSize \in Nat \ {0} /\ Count \in Nat \ {0} /\ RxUsed \in 0..(RxSize - 1)
      /\ rx_space = RxSize - RxUsed /\ Len(rx_fifo) \in 0..RxFifoLen /\ rx_fifo \in Seq(0..(Count - 1))
      /\ RxFifoLen \in Nat /\ RxFifoLen + RxSize < Count
      /\ rx_in \in 0..(RxSize - 1) /\ rx_out \in 0..(RxSize - 1)
      /\ wanted \in 0..(Count - 1)
    BY <1>1, RxRanges, RxSizes
<1>3. total \in 0..Count
    BY <1>2
<1>4. /\ held \in Seq(0..(Count - 1)) /\ Len(held) = RxUsed
      /\ \A i \in 1..RxUsed : held[i] = Wrap(Count, wanted + (i - 1))
    <2>1. ASSUME NEW i \in 1..RxUsed
          PROVE  /\ val(i) = Wrap(Count, wanted + (i - 1))
                 /\ Wrap(Count, wanted + (i - 1)) \in 0..(Count - 1)
        <3>1. /\ i - 1 \in 0..RxSize /\ i - 1 \in 0..(RxUsed - 1) /\ i - 1 \in 0..Count
              /\ rx_out + i - 1 = rx_out + (i - 1)
            BY <1>2
        <3>2. (rx_out + (i - 1)) % RxSize = Wrap(RxSize, rx_out + (i - 1))
            BY <3>1, <1>2, RxPlaceIs
        <3>3. rx_buff[Wrap(RxSize, rx_out + (i - 1))] = Wrap(Count, wanted + (i - 1))
            BY <3>1 DEF RxInv
        <3>4. Wrap(Count, wanted + (i - 1)) \in 0..(Count - 1)
            BY <3>1, <1>2 DEF Wrap
        <3> QED  BY <3>1, <3>2, <3>3, <3>4
    <2> HIDE DEF val
    <2> QED  BY <2>1, <1>2
<1> HIDE DEF held
<1>5. /\ held \o rx_fifo \in Seq(0..(Count - 1)) /\ Len(held \o rx_fifo) = total
      /\ \A i \in 1..total : (held \o rx_fifo)[i] = IF i <= RxUsed THEN held[i] ELSE rx_fifo[i - RxUsed]
    BY <1>2, <1>4, ConcatProperties
<1>6. \A i \in 1..total : (held \o rx_fifo)[i] = Wrap(Count, wanted + (i - 1))
    <2>1. ASSUME NEW i \in 1..total, i <= RxUsed
          PROVE (held \o rx_fifo)[i] = Wrap(Count, wanted + (i - 1))
        BY <2>1, <1>2, <1>4, <1>5
    <2>2. ASSUME NEW i \in 1..total, ~(i <= RxUsed)
          PROVE  (held \o rx_fifo)[i] = Wrap(Count, wanted + (i - 1))
        <3>1. i - RxUsed \in 1..Len(rx_fifo) /\ RxUsed + ((i - RxUsed) - 1) = i - 1
            BY <2>2, <1>2
        <3>2. rx_fifo[i - RxUsed] = Wrap(Count, wanted + (RxUsed + ((i - RxUsed) - 1)))
            BY <3>1 DEF RxInv
        <3> QED  BY <3>1, <3>2, <2>2, <1>5
    <2> QED  BY <2>1, <2>2
<1>7. held \o rx_fifo = Run(wanted, total)
    <2>1. /\ Run(wanted, total) \in Seq(0..(Count - 1)) /\ Len(Run(wanted, total)) = total
          /\ \A i \in 1..total : Run(wanted, total)[i] = Wrap(Count, wanted + (i - 1))
        BY <1>2, <1>3, RxSizes, RunIs
    <2> HIDE DEF total
    <2> QED  BY <2>1, <1>5, <1>6, SeqEqual
<1>8. kept = Number(wanted + total)
    <2>1. kept = Wrap(Count, wanted + total)
        BY DEF RxInv
    <2> HIDE DEF total
    <2> QED  BY <2>1, <1>2, <1>3, RxSizes, NumberIs
<1>9. (rx_out + RxUsed - rx_in) % RxSize = 0
    <2>1. rx_in = Wrap(RxSize, rx_out + RxUsed)
        BY DEF RxInv
    <2>2. \/ rx_out + RxUsed - rx_in = RxSize * 0 + 0
          \/ rx_out + RxUsed - rx_in = RxSize * 1 + 0
        BY <2>1, <1>2 DEF Wrap
    <2> QED  BY <2>2, <1>2, RemainderIs
<1>10. /\ wanted + total = wanted + RxUsed + Len(rx_fifo) /\ RxUsed = RxSize - rx_space
    BY <1>2
<1> QED
    BY <1>1, <1>7, <1>8, <1>9, <1>10 DEF ReceivedInOrder, held, total

\* The application gets what the FIFO took, in order and once, for every size
\* of FIFO, ring and queue: ReceivedInOrder.
THEOREM ReceivedInOrderHolds == ASSUME UartRxAssumption PROVE RxSpec => []ReceivedInOrder
<1>1. RxInit => RxInv
    BY RxInitInv
<1>2. RxInv /\ [RxNext]_rxVars => RxInv'
    BY RxStep
<1>3. RxInv => ReceivedInOrder
    BY RxInOrder
<1> QED
    BY <1>1, <1>2, <1>3, PTL DEF RxSpec

\* The places in the ring and its room, the queue of the task and the flags stay
\* in their ranges: RxTypeOK.
THEOREM RxTypes == ASSUME UartRxAssumption PROVE RxSpec => []RxTypeOK
<1>1. RxInit => RxInv
    BY RxInitInv
<1>2. RxInv /\ [RxNext]_rxVars => RxInv'
    BY RxStep
<1>3. RxInv => RxTypeOK
    BY Zenon DEF RxInv
<1> QED
    BY <1>1, <1>2, <1>3, PTL DEF RxSpec

---------------------------------------------------------------------------
(* The sending side of the UART.                                           *)

TxUsed == TxSize - tx_space

TxHeld == Numbered(tx_fifo, Len(tx_fifo))

\* The inductive invariant: SentInOrder, with sums that wrap once; the interrupt
\* is masked where the FIFO was seen empty, so that nothing can fill it before
\* the look at the ring; and a character that is about to be written has ended
\* what UART_CheckOutputFinished saw.
TxInv ==
    /\ TxTypeOK /\ tx_told
    /\ tx_in = Wrap(TxSize, tx_out + TxUsed)
    /\ tx_taken = Wrap(Count, tx_due + (TxHeld + TxUsed))
    /\ \A i \in 0..(TxUsed - 1) :
          tx_buff[Wrap(TxSize, tx_out + i)] = Wrap(Count, tx_due + (TxHeld + i))
    /\ \A i \in 1..Len(tx_fifo) :
          tx_fifo[i] # Single => tx_fifo[i] = Wrap(Count, tx_due + Numbered(tx_fifo, i - 1))
    /\ tx_at = "fifo empty" => tx_fifo = <<>> /\ ~empty_ena
    /\ finished => tx_at # "writes" /\ tx_fifo = <<>> /\ tx_space = TxSize

---------------------------------------------------------------------------
(* Counting the bytes of blocks.                                           *)

LEMMA CountType ==
    ASSUME NEW f, NEW n \in Nat
    PROVE  /\ IsFiniteSet({i \in 1..n : f[i] # Single})
           /\ Numbered(f, n) \in Nat /\ Numbered(f, n) <= n
<1>1. IsFiniteSet(1..n) /\ Cardinality(1..n) = n
    BY FS_Interval
<1>2. {i \in 1..n : f[i] # Single} \in SUBSET (1..n)
    OBVIOUS
<1>3. /\ IsFiniteSet({i \in 1..n : f[i] # Single})
      /\ Cardinality({i \in 1..n : f[i] # Single}) <= n
    BY <1>1, <1>2, FS_Subset
<1>4. Cardinality({i \in 1..n : f[i] # Single}) \in Nat
    BY <1>3, FS_CardinalityType
<1> QED
    BY <1>3, <1>4 DEF Numbered

LEMMA CountNone ==
    ASSUME NEW f
    PROVE  Numbered(f, 0) = 0
<1>1. Numbered(f, 0) \in Nat /\ Numbered(f, 0) <= 0
    <2>1. 0 \in Nat
        OBVIOUS
    <2> QED  BY ONLY <2>1, CountType, Zenon
<1> QED
    BY <1>1

\* One byte more.
LEMMA CountNext ==
    ASSUME NEW f, NEW n \in Nat
    PROVE  Numbered(f, n + 1) = IF f[n + 1] = Single THEN Numbered(f, n) ELSE Numbered(f, n) + 1
<1> DEFINE T == {i \in 1..n : f[i] # Single}
<1>1. IsFiniteSet(T) /\ n + 1 \notin T
    <2>1. IsFiniteSet(T)
        BY ONLY n \in Nat, CountType, Zenon
    <2>2. n + 1 \notin 1..n
        OBVIOUS
    <2>3. \A i \in T : i \in 1..n
        BY Zenon
    <2> HIDE DEF T
    <2> QED  BY ONLY <2>1, <2>2, <2>3, Zenon
<1>2. CASE f[n + 1] = Single
    <2>1. {i \in 1..n + 1 : f[i] # Single} = T
        BY <1>2
    <2> QED  BY <2>1, <1>2 DEF Numbered
<1>3. CASE f[n + 1] # Single
    <2>1. {i \in 1..n + 1 : f[i] # Single} = T \cup {n + 1}
        BY <1>3
    <2>2. Cardinality(T \cup {n + 1}) = Cardinality(T) + 1
        BY <1>1, FS_AddElement
    <2> QED  BY <2>1, <2>2, <1>3 DEF Numbered
<1> QED
    BY <1>2, <1>3

\* Only the bytes that are counted matter.
LEMMA CountSame ==
    ASSUME NEW f, NEW g, NEW n \in Nat, \A i \in 1..n : f[i] = g[i]
    PROVE  Numbered(f, n) = Numbered(g, n)
<1>1. {i \in 1..n : f[i] # Single} = {i \in 1..n : g[i] # Single}
    OBVIOUS
<1> QED
    BY <1>1 DEF Numbered

\* Without the first byte.
LEMMA CountTail ==
    ASSUME NEW f, NEW g, NEW n \in Nat, \A i \in 1..n : g[i] = f[i + 1]
    PROVE  Numbered(g, n) = Numbered(f, n + 1) - Numbered(f, 1)
<1> DEFINE Bad == {k \in 0..n : Numbered(g, k) # Numbered(f, k + 1) - Numbered(f, 1)}
<1>1. SUFFICES ASSUME Bad # {} PROVE FALSE
    OBVIOUS
<1>2. Bad \in SUBSET Nat
    OBVIOUS
<1>3. PICK u \in Bad : \A v \in Bad : v >= u
    <2> HIDE DEF Bad
    <2> QED  BY <1>1, <1>2, LeastNatural
<1>4. u # 0
    <2>1. Numbered(f, 1) \in Nat /\ Numbered(g, 0) = 0
        BY CountType, CountNone
    <2>2. Numbered(g, 0) = Numbered(f, 0 + 1) - Numbered(f, 1)
        BY <2>1
    <2> QED  BY <2>2, <1>3
<1>5. /\ u - 1 \in Nat /\ u - 1 \notin Bad /\ (u - 1) + 1 = u /\ u \in Nat /\ u \in 1..n
    BY <1>3, <1>4
<1>6. Numbered(g, u - 1) = Numbered(f, u) - Numbered(f, 1)
    BY <1>5
<1>7. Numbered(g, u) = IF f[u + 1] = Single THEN Numbered(g, u - 1) ELSE Numbered(g, u - 1) + 1
    <2>1. g[u] = f[u + 1]
        BY <1>5
    <2>2. Numbered(g, (u - 1) + 1) =
              IF g[(u - 1) + 1] = Single THEN Numbered(g, u - 1) ELSE Numbered(g, u - 1) + 1
        BY <1>5, CountNext
    <2> QED  BY <2>1, <2>2, <1>5
<1>8. Numbered(f, u + 1) = IF f[u + 1] = Single THEN Numbered(f, u) ELSE Numbered(f, u) + 1
    BY <1>5, CountNext
<1>9. Numbered(f, u) \in Nat /\ Numbered(f, 1) \in Nat
    BY <1>5, CountType
<1>10. Numbered(g, u) = Numbered(f, u + 1) - Numbered(f, 1)
    BY <1>6, <1>7, <1>8, <1>9
<1> QED
    BY <1>3, <1>10, Zenon

\* Behind n bytes come bytes of blocks only.
LEMMA CountAll ==
    ASSUME NEW f, NEW n \in Nat, NEW d \in Nat, \A i \in 1..d : f[n + i] # Single
    PROVE  \A k \in 0..d : Numbered(f, n + k) = Numbered(f, n) + k
<1> DEFINE Bad == {k \in 0..d : Numbered(f, n + k) # Numbered(f, n) + k}
<1>1. SUFFICES ASSUME Bad # {} PROVE FALSE
    OBVIOUS
<1>2. Bad \in SUBSET Nat
    OBVIOUS
<1>3. PICK u \in Bad : \A v \in Bad : v >= u
    <2> HIDE DEF Bad
    <2> QED  BY <1>1, <1>2, LeastNatural
<1>9. Numbered(f, n) \in Nat
    BY CountType
<1>4. u # 0
    BY <1>9
<1>5. /\ u - 1 \in Nat /\ u - 1 \notin Bad /\ n + (u - 1) \in Nat /\ u \in Nat /\ u \in 1..d
      /\ (n + (u - 1)) + 1 = n + u
    BY <1>3, <1>4
<1>6. Numbered(f, n + (u - 1)) = Numbered(f, n) + (u - 1)
    BY <1>5
<1>7. Numbered(f, n + u) = Numbered(f, n + (u - 1)) + 1
    <2>1. f[n + u] # Single
        BY <1>5
    <2>2. Numbered(f, (n + (u - 1)) + 1) =
              IF f[(n + (u - 1)) + 1] = Single THEN Numbered(f, n + (u - 1))
              ELSE Numbered(f, n + (u - 1)) + 1
        BY <1>5, CountNext
    <2> QED  BY <2>1, <2>2, <1>5
<1>8. Numbered(f, n + u) = Numbered(f, n) + u
    BY <1>5, <1>6, <1>7, <1>9
<1> QED
    BY <1>3, <1>8, Zenon

---------------------------------------------------------------------------
(* Numbers and places.                                                     *)

LEMMA TxSizes ==
    ASSUME UartTxAssumption
    PROVE  /\ TxFifoLen \in Nat \ {0} /\ TxSize \in Nat \ {0} /\ Count \in Nat \ {0}
           /\ TxFifoLen + TxSize < Count
           /\ EmptyThreshold \in Nat /\ MaxBlock \in Nat \ {0}
    BY DEF UartTxAssumption

LEMMA TxPlaceIs ==
    ASSUME UartTxAssumption, NEW a \in 0..(TxSize - 1), NEW b \in 0..TxSize
    PROVE  (a + b) % TxSize = Wrap(TxSize, a + b) /\ (a + b) % TxSize \in 0..(TxSize - 1)
<1>1. TxSize \in Nat \ {0}
    BY TxSizes
<1>2. (a + b) % TxSize = Wrap(TxSize, a + b) /\ Wrap(TxSize, a + b) \in 0..(TxSize - 1)
    BY <1>1, RingWrap
<1> QED
    BY <1>2

\* What a type-correct state gives to arithmetic.
LEMMA TxRanges ==
    ASSUME UartTxAssumption, TxTypeOK
    PROVE  /\ TxUsed \in 0..TxSize /\ tx_space \in 0..TxSize /\ tx_space = TxSize - TxUsed
           /\ Len(tx_fifo) \in 0..TxFifoLen /\ tx_fifo \in Seq(0..Count)
           /\ TxHeld \in Nat /\ TxHeld <= Len(tx_fifo) /\ TxHeld + TxSize < Count
           /\ tx_in \in 0..(TxSize - 1) /\ tx_out \in 0..(TxSize - 1)
           /\ tx_taken \in 0..(Count - 1) /\ tx_due \in 0..(Count - 1)
<1>1. tx_space \in 0..TxSize /\ TxSize \in Nat
    BY TxSizes DEF TxTypeOK
<1>2. TxUsed \in 0..TxSize /\ tx_space = TxSize - TxUsed
    BY <1>1 DEF TxUsed
<1>3. tx_fifo \in Seq(0..Count) /\ Len(tx_fifo) <= TxFifoLen /\ TxFifoLen \in Nat
    BY TxSizes DEF TxTypeOK
<1>4. Len(tx_fifo) \in 0..TxFifoLen /\ Len(tx_fifo) \in Nat
    BY <1>3, LenProperties
<1>5. TxHeld \in Nat /\ TxHeld <= Len(tx_fifo)
    BY <1>4, CountType DEF TxHeld
<1>6. TxHeld + TxSize < Count
    BY <1>4, <1>5, TxSizes
<1>7. /\ tx_in \in 0..(TxSize - 1) /\ tx_out \in 0..(TxSize - 1)
      /\ tx_taken \in 0..(Count - 1) /\ tx_due \in 0..(Count - 1)
    BY DEF TxTypeOK
<1> QED
    BY <1>1, <1>2, <1>3, <1>4, <1>5, <1>6, <1>7

---------------------------------------------------------------------------

LEMMA TxInitInv == ASSUME UartTxAssumption, TxInit PROVE TxInv
<1>1. /\ TxUsed = 0 /\ Len(tx_fifo) = 0 /\ tx_in = 0 /\ tx_out = 0 /\ tx_taken = 0 /\ tx_due = 0
      /\ tx_space = TxSize
    BY TxSizes DEF TxInit, TxUsed
<1>2. tx_buff \in [0..(TxSize - 1) -> 0..(Count - 1)]
    BY TxSizes DEF TxInit
<1>3. tx_fifo = <<>> /\ tx_fifo \in Seq(0..Count)
    BY DEF TxInit
<1>4. /\ empty_ena \in BOOLEAN /\ tx_told \in BOOLEAN /\ tx_told /\ finished \in BOOLEAN
      /\ ~empty_ena /\ tx_at = "none" /\ tx_at \in TxPlaces
    BY Zenon DEF TxInit, TxPlaces
<1>5. TxTypeOK
    BY <1>1, <1>2, <1>3, <1>4, TxSizes DEF TxTypeOK
<1>6. TxHeld = 0
    BY <1>1, CountNone DEF TxHeld
<1> QED
    BY <1>1, <1>3, <1>4, <1>5, <1>6, TxSizes DEF TxInv, Wrap

\* A task goes on and no byte moves.
LEMMA NothingMoves ==
    ASSUME TxInv, UNCHANGED <<tx_fifo, tx_ring, tx_taken, tx_due, tx_told>>,
           tx_at' \in TxPlaces, empty_ena' \in BOOLEAN, finished' \in BOOLEAN,
           tx_at' = "fifo empty" => tx_fifo = <<>> /\ ~empty_ena',
           finished' => tx_at' # "writes" /\ tx_fifo = <<>> /\ tx_space = TxSize
    PROVE  TxInv'
<1>1. /\ UNCHANGED <<tx_fifo, tx_buff, tx_in, tx_out, tx_space, tx_taken, tx_due, tx_told>>
      /\ TxUsed' = TxUsed /\ TxHeld' = TxHeld
    BY DEF tx_ring, TxUsed, TxHeld
<1>2. TxTypeOK'
    BY <1>1, Zenon DEF TxInv, TxTypeOK
<1>3. \A i \in 1..Len(tx_fifo') :
          tx_fifo'[i] # Single => tx_fifo'[i] = Wrap(Count, tx_due' + Numbered(tx_fifo', i - 1))
    BY <1>1 DEF TxInv
<1>4. \A i \in 0..(TxUsed' - 1) :
          tx_buff'[Wrap(TxSize, tx_out' + i)] = Wrap(Count, tx_due' + (TxHeld' + i))
    BY <1>1 DEF TxInv
<1>5. /\ tx_told' /\ tx_in' = Wrap(TxSize, tx_out' + TxUsed')
      /\ tx_taken' = Wrap(Count, tx_due' + (TxHeld' + TxUsed'))
    <2>1. tx_told
        BY Zenon DEF TxInv
    <2>2. tx_in' = Wrap(TxSize, tx_out' + TxUsed')
        BY <1>1 DEF TxInv
    <2>3. tx_taken' = Wrap(Count, tx_due' + (TxHeld' + TxUsed'))
        BY <1>1 DEF TxInv
    <2> QED  BY <1>1, <2>1, <2>2, <2>3
<1>6. /\ tx_at' = "fifo empty" => tx_fifo' = <<>> /\ ~empty_ena'
      /\ finished' => tx_at' # "writes" /\ tx_fifo' = <<>> /\ tx_space' = TxSize
    BY <1>1, Zenon
<1> QED
    BY <1>2, <1>3, <1>4, <1>5, <1>6, Zenon DEF TxInv

LEMMA RoomStep == ASSUME UartTxAssumption, TxInv, Room PROVE TxInv'
<1>1. /\ UNCHANGED <<tx_fifo, empty_ena, tx_ring, tx_taken, tx_due, tx_told>>
      /\ tx_at' = "writes" /\ ~finished'
    BY Zenon DEF Room
<1>2. tx_at' \in TxPlaces /\ finished' \in BOOLEAN /\ empty_ena' \in BOOLEAN
    BY <1>1, Zenon DEF TxPlaces, Room, TxInv, TxTypeOK
<1> QED
    BY <1>1, <1>2, NothingMoves

\* The FIFO is empty only where the interrupt is masked.
LEMMA LookAtFifoStep == ASSUME UartTxAssumption, TxInv, LookAtFifo PROVE TxInv'
<1>1. /\ UNCHANGED <<tx_fifo, empty_ena, tx_ring, finished, tx_taken, tx_due, tx_told>>
      /\ tx_at' = IF tx_fifo = <<>> THEN "fifo empty" ELSE "fifo busy"
    BY Zenon DEF LookAtFifo
<1>2. tx_at' \in TxPlaces /\ finished' \in BOOLEAN /\ empty_ena' \in BOOLEAN /\ tx_at' # "writes"
    BY <1>1, Zenon DEF TxPlaces, TxInv, TxTypeOK
<1>3. tx_fifo = <<>> => ~empty_ena
    <2>1. tx_fifo = <<>> => Len(tx_fifo) <= EmptyThreshold
        BY TxSizes
    <2> QED  BY <2>1, Zenon DEF LookAtFifo, Pending
<1>4. finished' => tx_fifo = <<>> /\ tx_space = TxSize
    BY <1>1, Zenon DEF TxInv
<1>5. tx_at' = "fifo empty" => tx_fifo = <<>> /\ ~empty_ena'
    BY <1>1, <1>3
<1> QED
    BY <1>1, <1>2, <1>4, <1>5, NothingMoves, Zenon

LEMMA LookAtRingStep == ASSUME UartTxAssumption, TxInv, LookAtRing PROVE TxInv'
<1>1. /\ UNCHANGED <<tx_fifo, empty_ena, tx_ring, tx_taken, tx_due, tx_told>>
      /\ tx_at' = "none" /\ finished' = (tx_at = "fifo empty" /\ tx_space = TxSize)
    BY Zenon DEF LookAtRing
<1>2. tx_at' \in TxPlaces /\ finished' \in BOOLEAN /\ empty_ena' \in BOOLEAN
    BY <1>1, Zenon DEF TxPlaces, TxInv, TxTypeOK
<1>3. finished' => tx_fifo = <<>> /\ tx_space = TxSize
    BY <1>1, Zenon DEF TxInv
<1>4. tx_at' # "fifo empty" /\ tx_at' # "writes"
    BY <1>1
<1> QED
    BY <1>1, <1>2, <1>3, <1>4, NothingMoves, Zenon

\* A character goes into the FIFO, or is lost.
LEMMA WriteStep == ASSUME UartTxAssumption, TxInv, Write PROVE TxInv'
<1>1. /\ UNCHANGED <<empty_ena, tx_buff, tx_in, tx_out, tx_space, finished, tx_taken, tx_due,
                     tx_told>>
      /\ tx_at = "writes" /\ tx_at' = "none" /\ TxUsed' = TxUsed
    BY Zenon DEF Write, tx_ring, TxUsed
<1>2. TxTypeOK /\ ~finished /\ tx_told
    BY <1>1, Zenon DEF TxInv
<1>3. /\ Len(tx_fifo) \in 0..TxFifoLen /\ Len(tx_fifo) \in Nat /\ tx_fifo \in Seq(0..Count)
      /\ TxFifoLen \in Nat /\ Count \in Nat
    BY <1>2, TxRanges, TxSizes
<1>4. CASE Len(tx_fifo) < TxFifoLen
    <2>1. tx_fifo' = Append(tx_fifo, Single)
        BY <1>4 DEF Write
    <2>2. /\ Len(tx_fifo') = Len(tx_fifo) + 1 /\ tx_fifo' \in Seq(0..Count) /\ Len(tx_fifo') <= TxFifoLen
          /\ \A i \in 1..Len(tx_fifo) : tx_fifo'[i] = tx_fifo[i]
          /\ tx_fifo'[Len(tx_fifo) + 1] = Single
        BY <2>1, <1>3, <1>4 DEF Single
    <2>3. \A n \in 0..Len(tx_fifo) : Numbered(tx_fifo', n) = Numbered(tx_fifo, n)
        <3>1. ASSUME NEW n \in 0..Len(tx_fifo) PROVE Numbered(tx_fifo', n) = Numbered(tx_fifo, n)
            <4>1. n \in Nat /\ \A i \in 1..n : tx_fifo'[i] = tx_fifo[i]
                BY <2>2, <1>3
            <4> QED  BY <4>1, CountSame
        <3> QED  BY <3>1
    <2>4. TxHeld' = TxHeld
        <3>1. Numbered(tx_fifo', Len(tx_fifo) + 1) = Numbered(tx_fifo', Len(tx_fifo))
            BY <2>2, <1>3, CountNext
        <3>2. Numbered(tx_fifo', Len(tx_fifo)) = Numbered(tx_fifo, Len(tx_fifo))
            BY <2>3, <1>3
        <3> QED  BY <3>1, <3>2, <2>2 DEF TxHeld
    <2>5. ASSUME NEW i \in 1..Len(tx_fifo'), tx_fifo'[i] # Single
          PROVE  tx_fifo'[i] = Wrap(Count, tx_due + Numbered(tx_fifo', i - 1))
        <3>1. i \in 1..Len(tx_fifo) /\ i - 1 \in 0..Len(tx_fifo)
            BY <2>2, <2>5, <1>3
        <3>2. tx_fifo'[i] = tx_fifo[i] /\ Numbered(tx_fifo', i - 1) = Numbered(tx_fifo, i - 1)
            BY <3>1, <2>2, <2>3
        <3> QED  BY <3>1, <3>2, <2>5 DEF TxInv
    <2>6. TxTypeOK'
        BY <2>2, <1>1, <1>2, Zenon DEF TxTypeOK, TxPlaces
    <2> QED  BY <2>4, <2>5, <2>6, <1>1, <1>2 DEF TxInv
<1>5. CASE ~(Len(tx_fifo) < TxFifoLen)
    <2>1. tx_fifo' = tx_fifo /\ TxHeld' = TxHeld
        BY <1>5 DEF Write, TxHeld
    <2>2. TxTypeOK'
        BY <2>1, <1>1, <1>2, Zenon DEF TxTypeOK, TxPlaces
    <2> QED  BY <2>1, <2>2, <1>1, <1>2 DEF TxInv
<1> QED
    BY <1>4, <1>5

\* The numbers after a step on.
LEMMA DueMoves ==
    ASSUME UartTxAssumption, TxTypeOK, NEW m \in Nat, tx_due' = Wrap(Count, tx_due + m),
           NEW n \in Nat, m + n <= Count
    PROVE  Wrap(Count, tx_due' + n) = Wrap(Count, tx_due + (m + n))
<1>1. Count \in Nat \ {0} /\ tx_due \in 0..(Count - 1)
    BY TxRanges, TxSizes
<1> QED
    BY <1>1, WrapTwice

\* The line takes the number it is due to see, or a character.
LEMMA ShiftStep == ASSUME UartTxAssumption, TxInv, Shift PROVE TxInv'
<1> DEFINE m == Numbered(tx_fifo, 1)
<1>1. /\ UNCHANGED <<empty_ena, tx_buff, tx_in, tx_out, tx_space, tx_at, finished, tx_taken>>
      /\ tx_fifo # <<>> /\ tx_fifo' = Tail(tx_fifo) /\ TxUsed' = TxUsed
    BY DEF Shift, tx_ring, TxUsed
<1>2. TxTypeOK /\ ~finished /\ tx_told /\ tx_at # "fifo empty"
    BY <1>1, Zenon DEF TxInv
<1>3. /\ Len(tx_fifo) \in 0..TxFifoLen /\ Len(tx_fifo) \in Nat /\ tx_fifo \in Seq(0..Count)
      /\ TxFifoLen \in Nat /\ Count \in Nat \ {0} /\ tx_due \in 0..(Count - 1)
      /\ TxUsed \in 0..TxSize /\ TxSize \in Nat /\ TxHeld + TxSize < Count
      /\ TxFifoLen < Count
    <2>1. /\ Len(tx_fifo) \in 0..TxFifoLen /\ tx_fifo \in Seq(0..Count)
          /\ tx_due \in 0..(Count - 1) /\ TxUsed \in 0..TxSize /\ TxHeld + TxSize < Count
        BY <1>2, TxRanges
    <2>2. TxFifoLen \in Nat /\ Count \in Nat \ {0} /\ TxSize \in Nat /\ TxFifoLen + TxSize < Count
        BY TxSizes
    <2> QED  BY <2>1, <2>2
<1>4. /\ Len(tx_fifo') = Len(tx_fifo) - 1 /\ Len(tx_fifo') \in Nat /\ tx_fifo' \in Seq(0..Count)
      /\ \A i \in 1..Len(tx_fifo') : tx_fifo'[i] = tx_fifo[i + 1]
      /\ Head(tx_fifo) = tx_fifo[1]
    BY <1>1, <1>3, HeadTailProperties
<1>5. m = IF tx_fifo[1] = Single THEN 0 ELSE 1
    <2>1. Numbered(tx_fifo, 0 + 1) =
              IF tx_fifo[0 + 1] = Single THEN Numbered(tx_fifo, 0) ELSE Numbered(tx_fifo, 0) + 1
        BY CountNext
    <2> QED  BY <2>1, CountNone
<1>6. \A n \in 0..Len(tx_fifo') : Numbered(tx_fifo', n) = Numbered(tx_fifo, n + 1) - m
    <2>1. ASSUME NEW n \in 0..Len(tx_fifo')
          PROVE  Numbered(tx_fifo', n) = Numbered(tx_fifo, n + 1) - Numbered(tx_fifo, 1)
        <3>1. n \in Nat /\ \A i \in 1..n : tx_fifo'[i] = tx_fifo[i + 1]
            BY <1>4
        <3> QED  BY <3>1, CountTail
    <2> QED  BY <2>1
<1> HIDE DEF m
<1>7. TxHeld' = TxHeld - m /\ TxHeld' \in Nat /\ TxHeld \in Nat /\ m \in Nat
    <2>1. Numbered(tx_fifo', Len(tx_fifo')) = Numbered(tx_fifo, Len(tx_fifo') + 1) - m
        BY <1>4, <1>6
    <2>2. Numbered(tx_fifo', Len(tx_fifo')) \in Nat
        BY <1>4, CountType
    <2>3. Len(tx_fifo') + 1 = Len(tx_fifo)
        BY <1>3, <1>4
    <2>4. TxHeld \in Nat /\ m \in Nat
        BY <1>2, <1>5, TxRanges
    <2> QED  BY <2>1, <2>2, <2>3, <2>4 DEF TxHeld
<1>8. tx_due' = Wrap(Count, tx_due + m) /\ tx_due' \in 0..(Count - 1)
    <2>1. CASE tx_fifo[1] = Single
        BY <2>1, <1>3, <1>4, <1>5 DEF Shift, Wrap
    <2>2. CASE tx_fifo[1] # Single
        <3>1. tx_due' = Number(tx_due + 1) /\ 1 \in 0..Count
            BY <2>2, <1>3, <1>4 DEF Shift
        <3> QED  BY <3>1, <2>2, <1>3, <1>5, TxSizes, NumberIs
    <2> QED  BY <2>1, <2>2
<1>9. tx_told'
    <2>1. CASE tx_fifo[1] = Single
        BY <2>1, <1>2, <1>4 DEF Shift
    <2>2. CASE tx_fifo[1] # Single
        <3>1. tx_fifo[1] = Wrap(Count, tx_due + Numbered(tx_fifo, 0))
            <4>1. 1 \in 1..Len(tx_fifo) /\ 1 - 1 = 0
                BY <1>3, <1>4
            <4>2. tx_fifo[1] = Wrap(Count, tx_due + Numbered(tx_fifo, 1 - 1))
                BY <4>1, <2>2 DEF TxInv
            <4> QED  BY <4>1, <4>2
        <3>2. tx_fifo[1] = tx_due
            BY <3>1, <1>3, CountNone DEF Wrap
        <3>3. tx_told' = (tx_told /\ Head(tx_fifo) = tx_due)
            BY <2>2, <1>4, Zenon DEF Shift
        <3> QED  BY <3>2, <3>3, <1>2, <1>4, Zenon
    <2> QED  BY <2>1, <2>2
<1>10. \A n \in Nat : m + n <= Count => Wrap(Count, tx_due' + n) = Wrap(Count, tx_due + (m + n))
    BY <1>2, <1>7, <1>8, DueMoves
<1>11. tx_taken' = Wrap(Count, tx_due' + (TxHeld' + TxUsed'))
    <2>1. tx_taken = Wrap(Count, tx_due + (TxHeld + TxUsed))
        BY DEF TxInv
    <2>2. TxHeld' + TxUsed' \in Nat /\ m + (TxHeld' + TxUsed') = TxHeld + TxUsed /\ TxHeld + TxUsed <= Count
        BY <1>1, <1>3, <1>7
    <2> QED  BY <2>1, <2>2, <1>1, <1>10
<1>12. ASSUME NEW i \in 0..(TxUsed' - 1)
       PROVE  tx_buff'[Wrap(TxSize, tx_out' + i)] = Wrap(Count, tx_due' + (TxHeld' + i))
    <2>1. i \in 0..(TxUsed - 1)
        BY <1>1
    <2>2. tx_buff[Wrap(TxSize, tx_out + i)] = Wrap(Count, tx_due + (TxHeld + i))
        BY <2>1 DEF TxInv
    <2>3. TxHeld' + i \in Nat /\ m + (TxHeld' + i) = TxHeld + i /\ TxHeld + i <= Count
        BY <2>1, <1>3, <1>7
    <2> QED  BY <2>2, <2>3, <1>1, <1>10
<1>13. ASSUME NEW i \in 1..Len(tx_fifo'), tx_fifo'[i] # Single
       PROVE  tx_fifo'[i] = Wrap(Count, tx_due' + Numbered(tx_fifo', i - 1))
    <2>1. i + 1 \in 1..Len(tx_fifo) /\ (i + 1) - 1 = i /\ i - 1 \in 0..Len(tx_fifo') /\ (i - 1) + 1 = i
          /\ i - 1 \in Nat /\ i \in Nat
        <3>1. Len(tx_fifo) \in Nat /\ Len(tx_fifo') = Len(tx_fifo) - 1
            BY <1>3, <1>4
        <3> QED  BY ONLY <3>1, i \in 1..Len(tx_fifo')
    <2>2. tx_fifo'[i] = tx_fifo[i + 1]
        BY <1>4
    <2>3. tx_fifo[i + 1] = Wrap(Count, tx_due + Numbered(tx_fifo, i))
        BY <2>1, <2>2, <1>13 DEF TxInv
    <2>4. Numbered(tx_fifo', i - 1) = Numbered(tx_fifo, i) - m
        BY <2>1, <1>6
    <2>5. Numbered(tx_fifo', i - 1) \in Nat /\ Numbered(tx_fifo, i) \in Nat /\ Numbered(tx_fifo, i) <= i
        BY <2>1, CountType
    <2>6. m + Numbered(tx_fifo', i - 1) = Numbered(tx_fifo, i)
        BY <2>4, <2>5, <1>7
    <2>7. Numbered(tx_fifo, i) <= Count
        <3>1. i <= Len(tx_fifo)
            BY <1>4, <1>3
        <3>2. Len(tx_fifo) <= Count
            BY <1>3
        <3> QED  BY <3>1, <3>2, <2>1, <2>5, <1>3
    <2> QED  BY <2>2, <2>3, <2>5, <2>6, <2>7, <1>10
<1>14. TxTypeOK'
    <2>1. Len(tx_fifo') <= TxFifoLen
        BY <1>3, <1>4
    <2>2. tx_told' \in BOOLEAN
        BY <1>9, Zenon
    <2> QED  BY <2>1, <2>2, <1>1, <1>2, <1>4, <1>8, Zenon DEF TxTypeOK
<1>15. tx_in' = Wrap(TxSize, tx_out' + TxUsed')
    BY <1>1 DEF TxInv
<1>16. ~finished' /\ tx_at' # "fifo empty"
    BY <1>1, <1>2
<1> QED
    BY <1>9, <1>11, <1>12, <1>13, <1>14, <1>15, <1>16, Zenon DEF TxInv

\* What is in the FIFO is gone, and the numbers with it.
LEMMA TxResetStep == ASSUME UartTxAssumption, TxInv, TxResetFifo PROVE TxInv'
<1>1. /\ UNCHANGED <<empty_ena, tx_buff, tx_in, tx_out, tx_space, tx_at, finished, tx_taken,
                     tx_told>>
      /\ tx_at = "none" /\ tx_fifo' = <<>> /\ Len(tx_fifo') = 0 /\ TxUsed' = TxUsed
    BY DEF TxResetFifo, tx_ring, TxUsed
<1>2. TxTypeOK /\ tx_told
    BY Zenon DEF TxInv
<1>3. /\ Count \in Nat \ {0} /\ tx_due \in 0..(Count - 1) /\ TxUsed \in 0..TxSize
      /\ TxSize \in Nat /\ TxHeld \in Nat /\ TxHeld + TxSize < Count
    BY <1>2, TxRanges, TxSizes
<1>4. tx_due' = Wrap(Count, tx_due + TxHeld) /\ tx_due' \in 0..(Count - 1)
    <2>1. tx_due' = Number(tx_due + TxHeld) /\ TxHeld \in 0..Count
        BY <1>3 DEF TxResetFifo, TxHeld
    <2> QED  BY <2>1, <1>3, TxSizes, NumberIs
<1>5. TxHeld' = 0
    BY <1>1, CountNone DEF TxHeld
<1>6. \A n \in Nat : TxHeld + n <= Count =>
          Wrap(Count, tx_due' + n) = Wrap(Count, tx_due + (TxHeld + n))
    BY <1>2, <1>3, <1>4, DueMoves
<1>7. tx_taken' = Wrap(Count, tx_due' + (TxHeld' + TxUsed'))
    <2>1. tx_taken = Wrap(Count, tx_due + (TxHeld + TxUsed))
        BY DEF TxInv
    <2>2. TxUsed \in Nat /\ TxHeld + TxUsed <= Count /\ TxHeld' + TxUsed' = TxUsed
        BY <1>1, <1>3, <1>5
    <2> QED  BY <2>1, <2>2, <1>1, <1>6
<1>8. ASSUME NEW i \in 0..(TxUsed' - 1)
      PROVE  tx_buff'[Wrap(TxSize, tx_out' + i)] = Wrap(Count, tx_due' + (TxHeld' + i))
    <2>1. i \in 0..(TxUsed - 1)
        BY <1>1
    <2>2. tx_buff[Wrap(TxSize, tx_out + i)] = Wrap(Count, tx_due + (TxHeld + i))
        BY <2>1 DEF TxInv
    <2>3. i \in Nat /\ TxHeld + i <= Count /\ TxHeld' + i = i
        BY <2>1, <1>3, <1>5
    <2> QED  BY <2>2, <2>3, <1>1, <1>6
<1>9. TxTypeOK'
    <2>1. tx_fifo' \in Seq(0..Count) /\ Len(tx_fifo') <= TxFifoLen
        BY <1>1, TxSizes
    <2> QED  BY <2>1, <1>1, <1>2, <1>4, Zenon DEF TxTypeOK
<1>10. tx_in' = Wrap(TxSize, tx_out' + TxUsed')
    BY <1>1 DEF TxInv
<1>11. /\ tx_at' # "fifo empty" /\ tx_at' # "writes"
       /\ finished' => tx_space' = TxSize
    <2>1. finished => tx_space = TxSize
        BY DEF TxInv
    <2> QED  BY <2>1, <1>1
<1>12. tx_told'
    BY <1>1, <1>2, Zenon
<1> QED
    BY <1>1, <1>7, <1>8, <1>9, <1>10, <1>11, <1>12 DEF TxInv

---------------------------------------------------------------------------
(* The ring.                                                               *)

\* The ring takes a block behind what it holds.
LEMMA TakenStep ==
    ASSUME UartTxAssumption, TxInv, NEW n \in 1..MaxBlock, n <= tx_space,
           Uart_Buf_Cpy(Run(tx_taken, n)), tx_taken' = Number(tx_taken + n),
           UNCHANGED <<tx_fifo, tx_out, tx_due, tx_told>>,
           tx_at' = "none", ~finished', finished' \in BOOLEAN, empty_ena' \in BOOLEAN
    PROVE  TxInv'
<1>1. TxTypeOK /\ tx_told
    BY Zenon DEF TxInv
<1>2. /\ TxSize \in Nat \ {0} /\ Count \in Nat \ {0} /\ TxSize < Count
      /\ TxUsed \in 0..TxSize /\ tx_space = TxSize - TxUsed /\ tx_space \in 0..TxSize
      /\ tx_in \in 0..(TxSize - 1) /\ tx_out \in 0..(TxSize - 1)
      /\ tx_taken \in 0..(Count - 1) /\ tx_due \in 0..(Count - 1)
      /\ TxHeld \in Nat /\ TxHeld + TxSize < Count
    <2>1. /\ TxUsed \in 0..TxSize /\ tx_space = TxSize - TxUsed /\ tx_space \in 0..TxSize
          /\ tx_in \in 0..(TxSize - 1) /\ tx_out \in 0..(TxSize - 1)
          /\ tx_taken \in 0..(Count - 1) /\ tx_due \in 0..(Count - 1)
          /\ TxHeld \in Nat /\ TxHeld + TxSize < Count
        BY <1>1, TxRanges
    <2>2. TxSize \in Nat \ {0} /\ Count \in Nat \ {0} /\ TxSize < Count
        BY TxSizes
    <2> QED  BY <2>1, <2>2
<1>3. n \in Nat /\ n \in 0..Count /\ n \in 0..TxSize /\ TxUsed + n <= TxSize
    BY <1>2, TxSizes
<1> DEFINE data == Run(tx_taken, n)
<1>4. /\ Len(data) = n
      /\ \A i \in 1..n : data[i] = Wrap(Count, tx_taken + (i - 1)) /\ data[i] \in 0..(Count - 1)
    BY <1>2, <1>3, TxSizes, RunIs
<1>5. /\ tx_buff' = [i \in DOMAIN tx_buff |-> IF (i - tx_in) % TxSize < n
                                       THEN data[((i - tx_in) % TxSize) + 1] ELSE tx_buff[i]]
      /\ tx_in' = (tx_in + n) % TxSize /\ tx_space' = tx_space - n
    BY <1>4 DEF Uart_Buf_Cpy
<1> HIDE DEF data
<1>6. DOMAIN tx_buff = 0..(TxSize - 1) /\ tx_buff \in [0..(TxSize - 1) -> 0..(Count - 1)]
    BY <1>1 DEF TxTypeOK
<1>7. TxUsed' = TxUsed + n /\ TxHeld' = TxHeld /\ tx_space' \in 0..TxSize
    <2>1. tx_space' = tx_space - n
        BY <1>5, Zenon
    <2>2. tx_space' \in 0..TxSize /\ TxSize - tx_space' = TxUsed + n
        BY <2>1, <1>2, <1>3
    <2>3. TxUsed' = TxSize - tx_space'
        BY Zenon DEF TxUsed
    <2>4. TxHeld' = TxHeld
        BY Zenon DEF TxHeld
    <2> QED  BY <2>2, <2>3, <2>4, Zenon
<1>8. tx_in' = Wrap(TxSize, tx_in + n) /\ tx_in' \in 0..(TxSize - 1)
    BY <1>2, <1>3, <1>5, TxPlaceIs
<1>9. tx_in = Wrap(TxSize, tx_out + TxUsed) /\ tx_taken = Wrap(Count, tx_due + (TxHeld + TxUsed))
    BY DEF TxInv
<1>10. tx_in' = Wrap(TxSize, tx_out' + TxUsed')
    <2>1. Wrap(TxSize, Wrap(TxSize, tx_out + TxUsed) + n) = Wrap(TxSize, tx_out + (TxUsed + n))
        BY <1>2, <1>3 DEF Wrap
    <2> QED  BY <2>1, <1>7, <1>8, <1>9
<1>11. \A d \in 0..n : Wrap(Count, tx_taken + d) = Wrap(Count, tx_due + (TxHeld + (TxUsed + d)))
    <2>1. ASSUME NEW d \in 0..n
          PROVE  Wrap(Count, tx_taken + d) = Wrap(Count, tx_due + (TxHeld + (TxUsed + d)))
        <3> DEFINE a == TxHeld + TxUsed
        <3>1. d \in Nat /\ a \in Nat /\ a + d <= Count /\ a + d = TxHeld + (TxUsed + d)
            BY <1>2, <1>3
        <3>2. tx_taken = Wrap(Count, tx_due + a)
            BY <1>9
        <3> HIDE DEF a
        <3>3. Wrap(Count, Wrap(Count, tx_due + a) + d) = Wrap(Count, tx_due + (a + d))
            <4>1. Count \in Nat \ {0} /\ tx_due \in 0..(Count - 1)
                BY <1>2
            <4> QED  BY <3>1, <4>1, WrapTwice
        <3> QED  BY <3>1, <3>2, <3>3
    <2> QED  BY <2>1
<1>12. tx_taken' = Wrap(Count, tx_due' + (TxHeld' + TxUsed')) /\ tx_taken' \in 0..(Count - 1)
    <2>1. tx_taken' = Wrap(Count, tx_taken + n) /\ tx_taken' \in 0..(Count - 1)
        BY <1>2, <1>3, TxSizes, NumberIs
    <2>2. n \in 0..n
        BY <1>3
    <2> QED  BY <2>1, <2>2, <1>7, <1>11
<1>13. ASSUME NEW i \in 0..(TxSize - 1)
       PROVE  /\ (i - tx_in) % TxSize = IF i >= tx_in THEN i - tx_in ELSE i - tx_in + TxSize
              /\ (i - tx_in) % TxSize \in 0..(TxSize - 1)
    <2>1. (i - tx_in) % TxSize = IF i >= tx_in THEN i - tx_in ELSE i - tx_in + TxSize
        BY <1>2, RingDifference
    <2>2. (IF i >= tx_in THEN i - tx_in ELSE i - tx_in + TxSize) \in 0..(TxSize - 1)
        BY <1>2
    <2> QED  BY <2>1, <2>2
<1>14. ASSUME NEW k \in 0..(TxUsed' - 1)
       PROVE  tx_buff'[Wrap(TxSize, tx_out' + k)] = Wrap(Count, tx_due' + (TxHeld' + k))
    <2> DEFINE x == Wrap(TxSize, tx_out + k)
               d == (x - tx_in) % TxSize
    <2>1. k \in 0..(TxUsed + n - 1) /\ k \in 0..TxSize
        BY <1>2, <1>3, <1>7
    <2>2. x \in 0..(TxSize - 1)
        BY <2>1, <1>2, RingWrap
    <2>3. tx_buff'[x] = IF d < n THEN data[d + 1] ELSE tx_buff[x]
        BY <2>2, <1>5, <1>6
    <2>4. d = IF x >= tx_in THEN x - tx_in ELSE x - tx_in + TxSize
        BY <2>2, <1>13
    <2> HIDE DEF d
    <2>5. (k < TxUsed => ~(d < n)) /\ (k >= TxUsed => d = k - TxUsed)
        <3>1. x = Wrap(TxSize, tx_out + k)
            OBVIOUS
        <3> HIDE DEF x
        <3> QED  BY <3>1, <2>1, <2>4, <1>2, <1>3, <1>9 DEF Wrap
    <2>6. CASE k < TxUsed
        <3>1. k \in 0..(TxUsed - 1)
            BY <2>1, <2>6, <1>2
        <3>2. tx_buff[x] = Wrap(Count, tx_due + (TxHeld + k))
            BY <3>1 DEF TxInv
        <3> QED  BY <3>2, <2>3, <2>5, <2>6, <1>7
    <2>7. CASE k >= TxUsed
        <3>1. d = k - TxUsed /\ d < n /\ d + 1 \in 1..n /\ d \in 0..n /\ (d + 1) - 1 = d
              /\ TxUsed + d = k
            BY <2>1, <2>5, <2>7, <1>2, <1>3
        <3>2. tx_buff'[x] = Wrap(Count, tx_taken + d)
            BY <3>1, <2>3, <1>4
        <3>3. Wrap(Count, tx_taken + d) = Wrap(Count, tx_due + (TxHeld + k))
            BY <3>1, <1>11
        <3> QED  BY <3>2, <3>3, <1>7
    <2> QED  BY <2>1, <2>6, <2>7, <1>2
<1>15. tx_buff' \in [0..(TxSize - 1) -> 0..(Count - 1)]
    <2>1. ASSUME NEW i \in 0..(TxSize - 1) PROVE tx_buff'[i] \in 0..(Count - 1)
        <3>1. CASE (i - tx_in) % TxSize < n
            <4>1. ((i - tx_in) % TxSize) + 1 \in 1..n
                BY <3>1, <1>3, <1>13
            <4> QED  BY <4>1, <3>1, <1>4, <1>5, <1>6
        <3>2. CASE ~((i - tx_in) % TxSize < n)
            BY <3>2, <1>5, <1>6
        <3> QED  BY <3>1, <3>2
    <2> QED  BY <2>1, <1>5, <1>6
<1>16. TxTypeOK'
    <2>1. /\ tx_fifo' = tx_fifo /\ tx_out' = tx_out /\ tx_due' = tx_due /\ tx_told' = tx_told
          /\ tx_at' \in TxPlaces
        BY DEF TxPlaces
    <2> QED  BY <2>1, <1>1, <1>7, <1>8, <1>12, <1>15 DEF TxTypeOK
<1>17. \A i \in 1..Len(tx_fifo') :
           tx_fifo'[i] # Single => tx_fifo'[i] = Wrap(Count, tx_due' + Numbered(tx_fifo', i - 1))
    BY DEF TxInv
<1>18. tx_told'
    BY <1>1
<1> QED
    BY <1>10, <1>12, <1>14, <1>16, <1>17, <1>18, Zenon DEF TxInv

\* tx_buff_enq, with or without room for the block.
LEMMA TxEnqStep ==
    ASSUME UartTxAssumption, TxInv, NEW n \in 1..MaxBlock, tx_buff_enq(n)
    PROVE  TxInv'
<1>1. /\ UNCHANGED <<tx_fifo, tx_out, tx_at, tx_due, tx_told>>
      /\ tx_at = "none" /\ tx_at' = "none" /\ empty_ena' = TRUE /\ finished' = FALSE
    BY Zenon DEF tx_buff_enq
<1>2. ~finished' /\ finished' \in BOOLEAN /\ empty_ena' \in BOOLEAN /\ tx_at' \in TxPlaces
    BY <1>1, Zenon DEF TxPlaces
<1>3. CASE n <= tx_space
    <2>1. Uart_Buf_Cpy(Run(tx_taken, n)) /\ tx_taken' = Number(tx_taken + n)
        BY <1>3 DEF tx_buff_enq
    <2> QED  BY <2>1, <1>1, <1>2, <1>3, TakenStep
<1>4. CASE ~(n <= tx_space)
    <2>1. UNCHANGED <<tx_fifo, tx_ring, tx_taken, tx_due, tx_told>>
        BY <1>1, <1>4 DEF tx_buff_enq, tx_ring
    <2> QED  BY <2>1, <1>1, <1>2, NothingMoves
<1> QED
    BY <1>3, <1>4

\* What the interrupt does, with as many bytes as the ring holds and the FIFO has
\* room for.
Inserts(d) ==
    /\ d \in 0..TxUsed /\ Len(tx_fifo) + d <= TxFifoLen
    /\ tx_fifo_insert(d)
    /\ tx_at # "fifo empty" /\ empty_ena' \in BOOLEAN
    /\ UNCHANGED <<tx_buff, tx_in, tx_at, finished, tx_taken, tx_due, tx_told>>

\* d bytes go from the ring to the FIFO.
LEMMA InsertStep ==
    ASSUME UartTxAssumption, TxInv, NEW d, Inserts(d)
    PROVE  TxInv'
<1>1. TxTypeOK /\ tx_told
    BY Zenon DEF TxInv
<1>2. /\ TxSize \in Nat \ {0} /\ Count \in Nat \ {0} /\ TxUsed \in 0..TxSize
      /\ tx_space = TxSize - TxUsed /\ tx_out \in 0..(TxSize - 1) /\ tx_due \in 0..(Count - 1)
      /\ TxHeld \in Nat /\ TxHeld + TxSize < Count
      /\ tx_fifo \in Seq(0..Count) /\ Len(tx_fifo) \in Nat
    <2>1. /\ TxUsed \in 0..TxSize /\ tx_space = TxSize - TxUsed /\ tx_out \in 0..(TxSize - 1)
          /\ tx_due \in 0..(Count - 1) /\ TxHeld \in Nat /\ TxHeld + TxSize < Count
          /\ tx_fifo \in Seq(0..Count) /\ Len(tx_fifo) \in 0..TxFifoLen
        BY <1>1, TxRanges
    <2>2. TxSize \in Nat \ {0} /\ Count \in Nat \ {0} /\ TxFifoLen \in Nat
        BY TxSizes
    <2> QED  BY <2>1, <2>2
<1>3. d \in Nat /\ d \in 0..TxSize /\ d \in 0..TxUsed /\ Len(tx_fifo) + d <= TxFifoLen
    <2>1. d \in 0..TxUsed /\ Len(tx_fifo) + d <= TxFifoLen
        BY Zenon DEF Inserts
    <2> QED  BY <2>1, <1>2
<1>0. /\ tx_at # "fifo empty" /\ empty_ena' \in BOOLEAN
      /\ UNCHANGED <<tx_buff, tx_in, tx_at, finished, tx_taken, tx_due, tx_told>>
    BY Zenon DEF Inserts
<1> DEFINE g == [i \in 1..d |-> tx_buff[(tx_out + i - 1) % TxSize]]
<1>4. /\ tx_fifo' = tx_fifo \o g /\ tx_out' = (tx_out + d) % TxSize /\ tx_space' = tx_space + d
      /\ TxUsed' = TxUsed - d
    <2>1. tx_fifo_insert(d)
        BY Zenon DEF Inserts
    <2>2. tx_fifo' = tx_fifo \o g /\ tx_out' = (tx_out + d) % TxSize /\ tx_space' = tx_space + d
        BY <2>1 DEF tx_fifo_insert
    <2>3. TxUsed' = TxUsed - d
        BY <2>2, <1>2, <1>3 DEF TxUsed
    <2> QED  BY <2>2, <2>3
<1>5. ASSUME NEW i \in 1..d
      PROVE  /\ tx_buff[(tx_out + i - 1) % TxSize] = Wrap(Count, tx_due + (TxHeld + (i - 1)))
             /\ Wrap(Count, tx_due + (TxHeld + (i - 1))) \in 0..(Count - 1)
    <2>1. /\ i - 1 \in 0..TxSize /\ i - 1 \in 0..(TxUsed - 1) /\ TxHeld + (i - 1) \in 0..Count
          /\ tx_out + i - 1 = tx_out + (i - 1)
        BY <1>2, <1>3
    <2>2. (tx_out + (i - 1)) % TxSize = Wrap(TxSize, tx_out + (i - 1))
        BY <2>1, <1>2, TxPlaceIs
    <2>3. tx_buff[Wrap(TxSize, tx_out + (i - 1))] = Wrap(Count, tx_due + (TxHeld + (i - 1)))
        BY <2>1 DEF TxInv
    <2> QED  BY <2>1, <2>2, <2>3, <1>2, RingWrap
<1>6. /\ Len(g) = d /\ g \in Seq(0..Count)
      /\ \A i \in 1..d : /\ g[i] = Wrap(Count, tx_due + (TxHeld + (i - 1)))
                         /\ g[i] \in 0..(Count - 1)
    <2>1. \A i \in 1..d : g[i] = Wrap(Count, tx_due + (TxHeld + (i - 1))) /\ g[i] \in 0..(Count - 1)
        BY <1>5
    <2>2. \A i \in 1..d : g[i] \in 0..Count
        BY <2>1, <1>2
    <2> QED  BY <2>1, <2>2, <1>3
<1> HIDE DEF g
<1>7. /\ tx_fifo' \in Seq(0..Count) /\ Len(tx_fifo') = Len(tx_fifo) + d
      /\ \A i \in 1..Len(tx_fifo) + d :
            tx_fifo'[i] = IF i <= Len(tx_fifo) THEN tx_fifo[i] ELSE g[i - Len(tx_fifo)]
    BY <1>2, <1>4, <1>6, ConcatProperties
<1>8. \A n \in 0..Len(tx_fifo) : Numbered(tx_fifo', n) = Numbered(tx_fifo, n)
    <2>1. ASSUME NEW n \in 0..Len(tx_fifo) PROVE Numbered(tx_fifo', n) = Numbered(tx_fifo, n)
        <3>1. n \in Nat
            BY <1>2
        <3>2. ASSUME NEW i \in 1..n PROVE tx_fifo'[i] = tx_fifo[i]
            <4>1. i <= Len(tx_fifo) /\ i \in 1..Len(tx_fifo) + d
                BY <1>2, <1>3
            <4> QED  BY <4>1, <1>7
        <3> QED  BY <3>1, <3>2, CountSame
    <2> QED  BY <2>1
<1>9. \A k \in 0..d : Numbered(tx_fifo', Len(tx_fifo) + k) = TxHeld + k
    <2>1. \A i \in 1..d : tx_fifo'[Len(tx_fifo) + i] # Single
        <3>1. ASSUME NEW i \in 1..d PROVE tx_fifo'[Len(tx_fifo) + i] # Single
            <4>1. /\ Len(tx_fifo) + i \in 1..Len(tx_fifo) + d /\ ~(Len(tx_fifo) + i <= Len(tx_fifo))
                  /\ (Len(tx_fifo) + i) - Len(tx_fifo) = i
                BY <1>2, <1>3
            <4>2. tx_fifo'[Len(tx_fifo) + i] = g[i] /\ g[i] \in 0..(Count - 1)
                BY <4>1, <1>6, <1>7
            <4> QED  BY <4>2, <1>2 DEF Single
        <3> QED  BY <3>1
    <2>2. \A k \in 0..d : Numbered(tx_fifo', Len(tx_fifo) + k) = Numbered(tx_fifo', Len(tx_fifo)) + k
        BY <2>1, <1>2, <1>3, CountAll
    <2>3. Numbered(tx_fifo', Len(tx_fifo)) = TxHeld
        BY <1>2, <1>8 DEF TxHeld
    <2> QED  BY <2>2, <2>3
<1>10. TxHeld' = TxHeld + d
    BY <1>3, <1>7, <1>9 DEF TxHeld
<1>11. tx_out' = Wrap(TxSize, tx_out + d) /\ tx_out' \in 0..(TxSize - 1)
    BY <1>2, <1>3, <1>4, TxPlaceIs
<1>12. tx_in' = Wrap(TxSize, tx_out' + TxUsed')
    <2>1. tx_in = Wrap(TxSize, tx_out + TxUsed)
        BY DEF TxInv
    <2>2. Wrap(TxSize, Wrap(TxSize, tx_out + d) + (TxUsed - d)) = Wrap(TxSize, tx_out + TxUsed)
        BY <1>2, <1>3 DEF Wrap
    <2> QED  BY <2>1, <2>2, <1>0, <1>4, <1>11
<1>13. tx_taken' = Wrap(Count, tx_due' + (TxHeld' + TxUsed'))
    <2>1. tx_taken = Wrap(Count, tx_due + (TxHeld + TxUsed))
        BY DEF TxInv
    <2>2. TxHeld' + TxUsed' = TxHeld + TxUsed
        BY <1>2, <1>3, <1>4, <1>10
    <2> QED  BY <2>1, <2>2, <1>0
<1>14. ASSUME NEW k \in 0..(TxUsed' - 1)
       PROVE  tx_buff'[Wrap(TxSize, tx_out' + k)] = Wrap(Count, tx_due' + (TxHeld' + k))
    <2>1. d + k \in 0..(TxUsed - 1) /\ k \in Nat /\ TxHeld' + k = TxHeld + (d + k)
        BY <1>2, <1>3, <1>4, <1>10
    <2>2. Wrap(TxSize, tx_out' + k) = Wrap(TxSize, tx_out + (d + k))
        BY <2>1, <1>2, <1>3, <1>11 DEF Wrap
    <2>3. tx_buff[Wrap(TxSize, tx_out + (d + k))] = Wrap(Count, tx_due + (TxHeld + (d + k)))
        BY <2>1 DEF TxInv
    <2> QED  BY <2>1, <2>2, <2>3, <1>0
<1>15. ASSUME NEW i \in 1..Len(tx_fifo'), tx_fifo'[i] # Single
       PROVE  tx_fifo'[i] = Wrap(Count, tx_due' + Numbered(tx_fifo', i - 1))
    <2>1. CASE i <= Len(tx_fifo)
        <3>1. i \in 1..Len(tx_fifo) /\ i - 1 \in 0..Len(tx_fifo) /\ tx_fifo'[i] = tx_fifo[i]
            BY <2>1, <1>2, <1>7
        <3>2. tx_fifo[i] = Wrap(Count, tx_due + Numbered(tx_fifo, i - 1))
            BY <3>1, <1>15 DEF TxInv
        <3> QED  BY <3>1, <3>2, <1>0, <1>8
    <2>2. CASE ~(i <= Len(tx_fifo))
        <3> DEFINE k == i - Len(tx_fifo)
        <3>1. k \in 1..d /\ k - 1 \in 0..d /\ i - 1 = Len(tx_fifo) + (k - 1)
            BY <2>2, <1>2, <1>3, <1>7
        <3>2. tx_fifo'[i] = Wrap(Count, tx_due + (TxHeld + (k - 1)))
            BY <3>1, <2>2, <1>6, <1>7
        <3>3. Numbered(tx_fifo', i - 1) = TxHeld + (k - 1)
            BY <3>1, <1>9
        <3> QED  BY <3>2, <3>3, <1>0
    <2> QED  BY <2>1, <2>2
<1>16. finished' => tx_at' # "writes" /\ tx_fifo' = <<>> /\ tx_space' = TxSize
    <2>1. SUFFICES ASSUME finished
                   PROVE  tx_at # "writes" /\ tx_fifo' = <<>> /\ tx_space' = TxSize
        BY <1>0
    <2>2. tx_at # "writes" /\ tx_fifo = <<>> /\ tx_space = TxSize
        BY <2>1, Zenon DEF TxInv
    <2>3. d = 0 /\ Len(tx_fifo) = 0
        BY <2>2, <1>2, <1>3
    <2>4. Len(tx_fifo') = 0 /\ tx_space' = TxSize
        BY <2>2, <2>3, <1>2, <1>4, <1>7
    <2> QED  BY <2>2, <2>4, <1>7, EmptySeq
<1>17. TxTypeOK'
    <2>1. /\ tx_buff' = tx_buff /\ tx_in' = tx_in /\ tx_at' = tx_at /\ finished' = finished
          /\ tx_taken' = tx_taken /\ tx_due' = tx_due /\ tx_told' = tx_told
        BY <1>0
    <2>2. Len(tx_fifo') <= TxFifoLen /\ tx_space' \in 0..TxSize
        <3>1. Len(tx_fifo') = Len(tx_fifo) + d /\ tx_space' = tx_space + d
            BY <1>4, <1>7, Zenon
        <3> QED  BY <3>1, <1>2, <1>3
    <2> QED  BY <2>1, <2>2, <1>0, <1>1, <1>7, <1>11 DEF TxTypeOK
<1>18. tx_told' /\ tx_at' # "fifo empty"
    BY <1>0, <1>1
<1> QED
    BY <1>12, <1>13, <1>14, <1>15, <1>16, <1>17, <1>18, Zenon DEF TxInv

\* The interrupt fills the FIFO.
LEMMA TxHandlerStep == ASSUME UartTxAssumption, TxInv, TxHandler PROVE TxInv'
<1> DEFINE left == TxSize - tx_space
           room == TxFifoLen - Len(tx_fifo)
<1>1. /\ UNCHANGED <<tx_buff, tx_in, tx_at, finished, tx_taken, tx_due, tx_told>>
      /\ \/ left > room /\ tx_fifo_insert(room) /\ empty_ena' = TRUE
         \/ ~(left > room) /\ tx_fifo_insert(left) /\ empty_ena' = FALSE
    BY DEF TxHandler
<1>2. tx_at # "fifo empty"
    BY Zenon DEF TxHandler, Pending, TxInv
<1>3. /\ TxUsed \in 0..TxSize /\ TxSize \in Nat /\ left = TxUsed
      /\ TxFifoLen \in Nat /\ Len(tx_fifo) \in 0..TxFifoLen
    BY TxRanges, TxSizes DEF TxInv, TxUsed
<1>4. empty_ena' \in BOOLEAN
    BY <1>1, Zenon
<1>5. CASE left > room /\ tx_fifo_insert(room)
    <2>1. room \in 0..TxUsed /\ Len(tx_fifo) + room <= TxFifoLen
        BY <1>3, <1>5
    <2>2. Inserts(room)
        BY <2>1, <1>1, <1>2, <1>4, <1>5 DEF Inserts
    <2> QED  BY <2>2, InsertStep
<1>6. CASE ~(left > room) /\ tx_fifo_insert(left)
    <2>1. left \in 0..TxUsed /\ Len(tx_fifo) + left <= TxFifoLen
        BY <1>3, <1>6
    <2>2. Inserts(left)
        BY <2>1, <1>1, <1>2, <1>4, <1>6 DEF Inserts
    <2> QED  BY <2>2, InsertStep
<1> QED
    BY <1>1, <1>5, <1>6

---------------------------------------------------------------------------
(* The theorems.                                                           *)

LEMMA TxStep == ASSUME UartTxAssumption, TxInv, [TxNext]_txVars PROVE TxInv'
<1>1. CASE UNCHANGED txVars
    BY <1>1 DEF txVars, tx_ring, TxInv, TxTypeOK, TxUsed, TxHeld, Numbered
<1>2. CASE TxNext
    BY <1>2, ShiftStep, TxHandlerStep, TxEnqStep, RoomStep, WriteStep, LookAtFifoStep,
       LookAtRingStep, TxResetStep DEF TxNext
<1> QED
    BY <1>1, <1>2

\* The sums of the invariant are those of SentInOrder.
LEMMA TxInOrder == ASSUME UartTxAssumption, TxInv PROVE SentInOrder
<1> DEFINE used == TxSize - tx_space
           held == Numbered(tx_fifo, Len(tx_fifo))
<1>1. TxTypeOK /\ tx_told /\ used = TxUsed /\ held = TxHeld
    BY Zenon DEF TxInv, TxUsed, TxHeld
<1>2. /\ TxSize \in Nat \ {0} /\ Count \in Nat \ {0} /\ TxUsed \in 0..TxSize
      /\ tx_in \in 0..(TxSize - 1) /\ tx_out \in 0..(TxSize - 1) /\ tx_due \in 0..(Count - 1)
      /\ TxHeld \in Nat /\ TxHeld + TxSize < Count
      /\ Len(tx_fifo) \in Nat /\ Len(tx_fifo) <= Count /\ tx_fifo \in Seq(0..Count)
    <2>1. /\ TxUsed \in 0..TxSize /\ tx_in \in 0..(TxSize - 1) /\ tx_out \in 0..(TxSize - 1)
          /\ tx_due \in 0..(Count - 1) /\ TxHeld \in Nat /\ TxHeld + TxSize < Count
          /\ Len(tx_fifo) \in 0..TxFifoLen /\ tx_fifo \in Seq(0..Count)
        BY <1>1, TxRanges
    <2>2. /\ TxSize \in Nat \ {0} /\ Count \in Nat \ {0} /\ TxFifoLen \in Nat
          /\ TxFifoLen + TxSize < Count
        BY TxSizes
    <2> QED  BY <2>1, <2>2
<1>3. ASSUME NEW i \in DOMAIN tx_fifo, tx_fifo[i] # Single
      PROVE  tx_fifo[i] = Number(tx_due + Numbered(tx_fifo, i - 1))
    <2>1. i \in 1..Len(tx_fifo) /\ i - 1 \in Nat
        BY <1>2, LenProperties
    <2>2. Numbered(tx_fifo, i - 1) \in Nat /\ Numbered(tx_fifo, i - 1) <= i - 1
        BY <2>1, CountType
    <2>3. Numbered(tx_fifo, i - 1) \in 0..Count
        BY <2>1, <2>2, <1>2
    <2>4. tx_fifo[i] = Wrap(Count, tx_due + Numbered(tx_fifo, i - 1))
        BY <2>1, <1>3 DEF TxInv
    <2> QED  BY <2>3, <2>4, <1>2, TxSizes, NumberIs
<1>4. ASSUME NEW i \in 0..(TxUsed - 1)
      PROVE  tx_buff[(tx_out + i) % TxSize] = Number(tx_due + TxHeld + i)
    <2>1. i \in 0..TxSize /\ TxHeld + i \in 0..Count /\ tx_due + TxHeld + i = tx_due + (TxHeld + i)
        BY <1>2
    <2>2. (tx_out + i) % TxSize = Wrap(TxSize, tx_out + i)
        BY <2>1, <1>2, TxPlaceIs
    <2>3. Number(tx_due + (TxHeld + i)) = Wrap(Count, tx_due + (TxHeld + i))
        BY <2>1, <1>2, TxSizes, NumberIs
    <2>4. tx_buff[Wrap(TxSize, tx_out + i)] = Wrap(Count, tx_due + (TxHeld + i))
        BY DEF TxInv
    <2> QED  BY <2>1, <2>2, <2>3, <2>4
<1>5. tx_taken = Number(tx_due + TxHeld + TxUsed)
    <2>1. TxHeld + TxUsed \in 0..Count /\ tx_due + TxHeld + TxUsed = tx_due + (TxHeld + TxUsed)
        BY <1>2
    <2>2. Number(tx_due + (TxHeld + TxUsed)) = Wrap(Count, tx_due + (TxHeld + TxUsed))
        BY <2>1, <1>2, TxSizes, NumberIs
    <2>3. tx_taken = Wrap(Count, tx_due + (TxHeld + TxUsed))
        BY DEF TxInv
    <2> QED  BY <2>1, <2>2, <2>3
<1>6. (tx_out + TxUsed - tx_in) % TxSize = 0
    <2>1. tx_in = Wrap(TxSize, tx_out + TxUsed)
        BY DEF TxInv
    <2>2. \/ tx_out + TxUsed - tx_in = TxSize * 0 + 0
          \/ tx_out + TxUsed - tx_in = TxSize * 1 + 0
        BY <2>1, <1>2 DEF Wrap
    <2> QED  BY <2>2, <1>2, RemainderIs
<1> QED
    BY <1>1, <1>3, <1>4, <1>5, <1>6 DEF SentInOrder

\* The invariant, where the assumption about the sizes holds.
LEMMA TxInvAlways == ASSUME UartTxAssumption PROVE TxSpec => []TxInv
<1>1. TxInit => TxInv
    BY TxInitInv
<1>2. TxInv /\ [TxNext]_txVars => TxInv'
    BY TxStep
<1> QED
    BY <1>1, <1>2, PTL DEF TxSpec

\* The line gets the bytes of the blocks that were taken, in order and once, for
\* every size of FIFO, ring and block and whatever goes past the ring: SentInOrder.
THEOREM SentInOrderHolds == ASSUME UartTxAssumption PROVE TxSpec => []SentInOrder
<1>1. TxInv => SentInOrder
    BY TxInOrder
<1> QED
    BY <1>1, TxInvAlways, PTL

\* UART_CheckOutputFinished returns TRUE only where the ring and the FIFO are
\* empty, and they stay so until something is written: FinishedIsFinished.
THEOREM FinishedHolds == ASSUME UartTxAssumption PROVE TxSpec => []FinishedIsFinished
<1>1. TxInv => FinishedIsFinished
    BY Zenon DEF TxInv, FinishedIsFinished
<1> QED
    BY <1>1, TxInvAlways, PTL

\* The ring's places and its room, the FIFO and the masks stay in their ranges:
\* TxTypeOK.
THEOREM TxTypes == ASSUME UartTxAssumption PROVE TxSpec => []TxTypeOK
<1>1. TxInv => TxTypeOK
    BY Zenon DEF TxInv
<1> QED
    BY <1>1, TxInvAlways, PTL

---------------------------------------------------------------------------
(* The drivers side by side.                                               *)

DriversAssumption ==
    UartRxAssumption /\ UartTxAssumption /\ SdioAssumption /\ I2cAssumption /\ I2cClocks

\* A step of one driver is a stutter of every other.
LEMMA StepsOfParts ==
    ASSUME [Next]_vars
    PROVE  /\ [KeyNext]_keyVars /\ [RxNext]_rxVars /\ [TxNext]_txVars
           /\ [SdioNext]_sdioVars /\ [I2cNext]_i2cVars
<1>1. CASE KeyNext /\ UNCHANGED <<part, rxVars, txVars, sdioVars, i2cVars>>
    BY <1>1
<1>2. CASE RxNext /\ UNCHANGED <<part, keyVars, txVars, sdioVars, i2cVars>>
    BY <1>2
<1>3. CASE TxNext /\ UNCHANGED <<part, keyVars, rxVars, sdioVars, i2cVars>>
    BY <1>3
<1>4. CASE SdioNext /\ UNCHANGED <<part, keyVars, rxVars, txVars, i2cVars>>
    BY <1>4
<1>5. CASE I2cNext /\ UNCHANGED <<part, keyVars, rxVars, txVars, sdioVars>>
    BY <1>5
<1>6. CASE UNCHANGED vars
    BY <1>6 DEF vars
<1> QED
    BY <1>1, <1>2, <1>3, <1>4, <1>5, <1>6 DEF Next

\* The composition implements each of its parts.
THEOREM DriversArePart ==
    Spec => KeySpec /\ RxSpec /\ TxSpec /\ SdioSpec /\ I2cSpec
<1>1. Init => KeyInit /\ RxInit /\ TxInit /\ SdioInit /\ I2cInit
    BY Zenon DEF Init
<1>2. [Next]_vars => /\ [KeyNext]_keyVars /\ [RxNext]_rxVars /\ [TxNext]_txVars
                     /\ [SdioNext]_sdioVars /\ [I2cNext]_i2cVars
    BY StepsOfParts
<1> QED
    BY <1>1, <1>2, PTL DEF Spec, KeySpec, RxSpec, TxSpec, SdioSpec, I2cSpec

\* What the UART takes and sends, what the SDIO slave hands to its host and what
\* the I2C master and its slave tell each other arrives once and in order, in
\* every behaviour of the drivers and for every value of their constants: InOrder.
\* Of the SDIO slave this is claimed as long as its handler has not met a load
\* within a step.
THEOREM DriversInOrder == ASSUME DriversAssumption PROVE Spec => []InOrder
<1>0. UartRxAssumption /\ UartTxAssumption /\ SdioAssumption /\ I2cAssumption /\ I2cClocks
    BY DEF DriversAssumption
<1>1. RxSpec => []ReceivedInOrder
    BY <1>0, ReceivedInOrderHolds
<1>2. (TxSpec => []SentInOrder) /\ (TxSpec => []FinishedIsFinished)
    BY <1>0, SentInOrderHolds, FinishedHolds
<1>3. (SdioSpec => []BuffersKept) /\ (SdioSpec => []LoadedInOrder)
    BY <1>0, BuffersKeptHolds, LoadedInOrderHolds
<1>4. I2cSpec => []I2cUnderstood
    BY <1>0, I2cUnderstoodHolds
<1>5. ReceivedInOrder /\ SentInOrder /\ FinishedIsFinished /\ BuffersKept /\ LoadedInOrder /\ I2cUnderstood
          => InOrder
    BY Zenon DEF InOrder
<1> QED
    BY <1>1, <1>2, <1>3, <1>4, <1>5, DriversArePart, PTL

\* No handler, task, timer or call of any of the drivers leaves a variable
\* outside its range: TypeOK.
THEOREM DriversTypes == ASSUME DriversAssumption PROVE Spec => []TypeOK
<1>0. UartRxAssumption /\ UartTxAssumption /\ SdioAssumption /\ I2cAssumption /\ I2cClocks
    BY DEF DriversAssumption
<1>1. KeySpec => []KeyTypeOK
    BY KeyTypes
<1>2. RxSpec => []RxTypeOK
    BY <1>0, RxTypes
<1>3. TxSpec => []TxTypeOK
    BY <1>0, TxTypes
<1>4. SdioSpec => []SdioTypeOK
    BY <1>0, SdioTypes
<1>5. I2cSpec => []I2cTypeOK
    BY <1>0, I2cTypes
<1>6. KeyTypeOK /\ RxTypeOK /\ TxTypeOK /\ SdioTypeOK /\ I2cTypeOK => TypeOK
    BY Zenon DEF TypeOK
<1> QED
    BY <1>1, <1>2, <1>3, <1>4, <1>5, <1>6, DriversArePart, PTL
====
