---- MODULE UartRx ----
(***************************************************************************)
(* driver_lib/driver/uart.c, what is received.  Bytes come over the line   *)
(* into the FIFO of the device; the interrupt posts an event, the task     *)
(* moves the FIFO into a ring buffer, the application empties the ring     *)
(* with rx_buff_deq.  Built without UART_BUFF_EN the task echoes the FIFO. *)
(*                                                                         *)
(* Bytes are numbered as the FIFO takes them, modulo Count, so that a byte *)
(* tells its place in the order.  The line, the FIFO and its interrupts    *)
(* are external: a byte that finds the FIFO full is lost and raises OVF;   *)
(* FULL and TOUT are one condition, that the FIFO holds bytes, and stay    *)
(* up while it does (TOUT comes when the line has been quiet for a while,  *)
(* at any time therefore).                                                 *)
(***************************************************************************)
EXTENDS Integers, Sequences, FiniteSets, Numbering

CONSTANTS RxFifoLen,  \* UART_FIFO_LEN
          RxSize,     \* UART_RX_BUFFER_SIZE
          QueueLen,   \* uart_recvTaskQueueLen
          MaxRead     \* the most the application asks for at once

UartRxAssumption ==
    /\ RxFifoLen \in Nat \ {0} /\ RxSize \in Nat /\ RxFifoLen < RxSize
    /\ QueueLen \in Nat \ {0} /\ MaxRead \in Nat \ {0}
    /\ Count \in Nat /\ RxFifoLen + RxSize < Count

VARIABLES
    buffEn,                            \* UART_BUFF_EN, constant in a build
    rx_fifo,                           \* the receive FIFO
    rx_int_st,                         \* the other interrupts that are raised
    rx_ena,                            \* FULL and TOUT are enabled
    events,                            \* events in the queue of uart_recvTask
    rx_buff, rx_in, rx_out, rx_space,  \* pRxBuffer
    kept,                              \* history: the number of the next byte the FIFO takes
    wanted,                            \* history: the number of the next byte to be given
    rx_heard                           \* history: every byte given had the number wanted

rxVars == <<buffEn, rx_fifo, rx_int_st, rx_ena, events, rx_buff, rx_in, rx_out, rx_space,
            kept, wanted, rx_heard>>

rx_ring == <<rx_buff, rx_in, rx_out, rx_space>>

\* uart_init: uart_config empties the FIFO and enables the interrupts,
\* Uart_Buf_Init sets up an empty ring.
RxInit ==
    /\ buffEn \in BOOLEAN
    /\ rx_fifo = <<>> /\ rx_int_st = {} /\ rx_ena = TRUE /\ events = 0
    /\ rx_buff = [i \in 0..(RxSize - 1) |-> 0]
    /\ rx_in = 0 /\ rx_out = 0 /\ rx_space = RxSize
    /\ kept = 0 /\ wanted = 0 /\ rx_heard = TRUE

\* A byte comes over the line, whole or with a wrong stop bit.
Byte(err) ==
    /\ IF Len(rx_fifo) < RxFifoLen
       THEN /\ rx_fifo' = Append(rx_fifo, kept)
            /\ kept' = Number(kept + 1)
            /\ rx_int_st' = rx_int_st \union err
       ELSE /\ rx_int_st' = rx_int_st \union err \union {"OVF"}
            /\ UNCHANGED <<rx_fifo, kept>>
    /\ UNCHANGED <<buffEn, rx_ena, events, rx_ring, wanted, rx_heard>>

uart_rx_intr_disable == rx_ena' = FALSE

uart_rx_intr_enable == rx_ena' = TRUE

\* uart0_rx_intr_handler: a framing error goes first, then FULL and TOUT; the
\* event is dropped if the queue is full.
FrameError ==
    /\ "FRM_ERR" \in rx_int_st
    /\ rx_int_st' = rx_int_st \ {"FRM_ERR"}
    /\ UNCHANGED <<buffEn, rx_fifo, rx_ena, events, rx_ring, kept, wanted, rx_heard>>

Received ==
    /\ "FRM_ERR" \notin rx_int_st /\ rx_ena /\ rx_fifo # <<>>
    /\ uart_rx_intr_disable
    /\ events' = IF events < QueueLen THEN events + 1 ELSE events
    /\ UNCHANGED <<buffEn, rx_fifo, rx_int_st, rx_ring, kept, wanted, rx_heard>>

Overflow ==
    /\ "FRM_ERR" \notin rx_int_st /\ ~(rx_ena /\ rx_fifo # <<>>) /\ "OVF" \in rx_int_st
    /\ rx_int_st' = rx_int_st \ {"OVF"}
    /\ UNCHANGED <<buffEn, rx_fifo, rx_ena, events, rx_ring, kept, wanted, rx_heard>>

RxHandler == FrameError \/ Received \/ Overflow

\* Bytes reach the application, or the line they are echoed to.
Give(bytes) ==
    /\ wanted' = Number(wanted + Len(bytes))
    /\ rx_heard' = (rx_heard /\ bytes = Run(wanted, Len(bytes)))

\* Uart_rx_buff_enq: the FIFO goes into the ring if some space is left after
\* it; if not, nothing is read and the interrupt stays as it is.
Uart_rx_buff_enq ==
    LET fifo_len == Len(rx_fifo)
    IN  IF fifo_len >= rx_space
        THEN UNCHANGED <<rx_fifo, rx_ring, rx_ena>>
        ELSE /\ rx_fifo' = <<>>
             /\ rx_buff' = [i \in DOMAIN rx_buff |->
                           LET at == (i - rx_in) % RxSize
                           IN  IF at < fifo_len THEN rx_fifo[at + 1] ELSE rx_buff[i]]
             /\ rx_in' = (rx_in + fifo_len) % RxSize
             /\ rx_space' = rx_space - fifo_len
             /\ UNCHANGED rx_out
             /\ IF rx_space' >= RxFifoLen THEN uart_rx_intr_enable ELSE UNCHANGED rx_ena

\* uart_recvTask.
RecvTask ==
    /\ events > 0
    /\ events' = events - 1
    /\ IF buffEn
       THEN Uart_rx_buff_enq /\ UNCHANGED <<wanted, rx_heard>>
       ELSE Give(rx_fifo) /\ rx_fifo' = <<>> /\ uart_rx_intr_enable /\ UNCHANGED rx_ring
    /\ UNCHANGED <<buffEn, rx_int_st, kept>>

\* Slip: rx_buff_deq that leaves the enabling of the interrupt to the task
rx_buff_deq_NoEnable(data_len) ==
    LET buf_len == RxSize - rx_space
        len_tmp == IF data_len > buf_len THEN buf_len ELSE data_len
        Place(i) == IF rx_out <= rx_in THEN rx_out + i ELSE (rx_out + i) % RxSize
    IN  /\ Give([i \in 1..len_tmp |-> rx_buff[Place(i - 1)]])
        /\ rx_out' = Place(len_tmp)
        /\ rx_space' = rx_space + len_tmp
        /\ UNCHANGED <<rx_buff, rx_in, rx_ena>>

\* rx_buff_deq copies from pOutPos on, around the end of the ring only if
\* pInPos has been around it.
rx_buff_deq(data_len) ==
    LET buf_len == RxSize - rx_space
        len_tmp == IF data_len > buf_len THEN buf_len ELSE data_len
        linear  == rx_out <= rx_in
        Place(i) == IF linear THEN rx_out + i ELSE (rx_out + i) % RxSize
    IN  /\ Give([i \in 1..len_tmp |-> rx_buff[Place(i - 1)]])
        /\ rx_out' = Place(len_tmp)
        /\ rx_space' = rx_space + len_tmp
        /\ IF rx_space' >= RxFifoLen THEN uart_rx_intr_enable ELSE UNCHANGED rx_ena
        /\ UNCHANGED <<rx_buff, rx_in>>

Read(n) ==
    /\ buffEn
    /\ rx_buff_deq(n)
    /\ UNCHANGED <<buffEn, rx_fifo, rx_int_st, events, kept>>

\* UART_ResetFifo: what is in the FIFO is gone, the next byte takes its place.
RxResetFifo ==
    /\ rx_fifo' = <<>>
    /\ kept' = Number(kept + Count - Len(rx_fifo))
    /\ UNCHANGED <<buffEn, rx_int_st, rx_ena, events, rx_ring, wanted, rx_heard>>

RxNext ==
    \/ \E err \in {{}, {"FRM_ERR"}} : Byte(err)
    \/ RxHandler
    \/ RecvTask
    \/ \E n \in 1..MaxRead : Read(n)
    \/ RxResetFifo

RxSpec == RxInit /\ [][RxNext]_rxVars

\* The handler, the task and the application that empties the ring get their
\* turns; a byte takes longer than the handler, so framing errors do not keep
\* it from the rest for ever.
RxFairness ==
    /\ WF_rxVars(RxHandler) /\ SF_rxVars(Received)
    /\ WF_rxVars(RecvTask)
    /\ WF_rxVars(\E n \in 1..MaxRead : Read(n))

RxFairSpec == RxSpec /\ RxFairness

RxTypeOK ==
    /\ buffEn \in BOOLEAN /\ rx_ena \in BOOLEAN /\ rx_heard \in BOOLEAN
    /\ rx_fifo \in Seq(0..(Count - 1)) /\ Len(rx_fifo) <= RxFifoLen
    /\ rx_int_st \subseteq {"FRM_ERR", "OVF"}
    /\ events \in 0..QueueLen
    /\ rx_buff \in [0..(RxSize - 1) -> 0..(Count - 1)]
    /\ rx_in \in 0..(RxSize - 1) /\ rx_out \in 0..(RxSize - 1)
    /\ rx_space \in 1..RxSize
    /\ kept \in 0..(Count - 1) /\ wanted \in 0..(Count - 1)

\* What the FIFO took comes out of rx_buff_deq, or out of the echo, in the order
\* it came in, each byte once: what has been given, the ring from pOutPos to
\* pInPos and the FIFO are one run of bytes.
ReceivedInOrder ==
    /\ rx_heard
    /\ LET used == RxSize - rx_space
           held == [i \in 1..used |-> rx_buff[(rx_out + i - 1) % RxSize]]
       IN  /\ held \o rx_fifo = Run(wanted, used + Len(rx_fifo))
           /\ kept = Number(wanted + used + Len(rx_fifo))
           /\ (rx_out + used - rx_in) % RxSize = 0

\* No byte stays in the FIFO for ever: a ring that was too full to take it and
\* left the interrupt disabled does not stop the line once the application reads.
FifoMoves == (rx_fifo # <<>>) ~> (rx_fifo = <<>>)
====
