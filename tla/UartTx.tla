---- MODULE UartTx ----
(***************************************************************************)
(* driver_lib/driver/uart.c built with UART_BUFF_EN, what is sent: blocks  *)
(* of bytes go through the ring of tx_buff_enq, which the interrupt of an  *)
(* empty FIFO drains; single characters are written to the FIFO past the   *)
(* ring.  The interrupt comes between any two steps of a task, and before  *)
(* its next step if it is raised.                                          *)
(*                                                                         *)
(* The bytes of blocks are numbered as the ring takes them, modulo Count.  *)
(* External: the line takes the first byte of the FIFO at any time, the    *)
(* interrupt is up while the FIFO holds no more than EmptyThreshold bytes, *)
(* and a write to a full FIFO is lost.                                     *)
(***************************************************************************)
EXTENDS Integers, Sequences, FiniteSets, Numbering

CONSTANTS TxFifoLen,       \* UART_FIFO_LEN
          EmptyThreshold,  \* UART_TX_EMPTY_THRESH_VAL
          TxSize,          \* UART_TX_BUFFER_SIZE
          MaxBlock         \* the longest block a task sends

UartTxAssumption ==
    /\ TxFifoLen \in Nat /\ 2 < TxFifoLen /\ TxSize \in Nat \ {0}
    /\ EmptyThreshold \in 0..(TxFifoLen - 1) /\ MaxBlock \in Nat \ {0}
    /\ Count \in Nat /\ TxFifoLen + TxSize < Count

VARIABLES
    tx_fifo,                           \* the transmit FIFO
    empty_ena,                         \* UART_TXFIFO_EMPTY_INT_ENA
    tx_buff, tx_in, tx_out, tx_space,  \* pTxBuffer
    tx_at,                             \* where the running task is: before the writing of
                                       \* a character, or past a look at the FIFO
    finished,                          \* the last UART_CheckOutputFinished returned TRUE
                                       \* and nothing was written since
    tx_taken,                          \* history: the number of the next byte of a block
    tx_due,                            \* history: the number the line has to see next
    tx_told                            \* history: the line saw the numbers in their turn

txVars == <<tx_fifo, empty_ena, tx_buff, tx_in, tx_out, tx_space, tx_at, finished,
            tx_taken, tx_due, tx_told>>

tx_ring == <<tx_buff, tx_in, tx_out, tx_space>>

\* A character that went past the ring.
Single == Count

TxPlaces == {"none", "writes", "fifo empty", "fifo busy"}

\* The bytes of blocks among the first n of bytes.
Numbered(bytes, n) == Cardinality({i \in 1..n : bytes[i] # Single})

Pending == empty_ena /\ Len(tx_fifo) <= EmptyThreshold

\* uart_init.
TxInit ==
    /\ tx_fifo = <<>> /\ empty_ena = FALSE
    /\ tx_buff = [i \in 0..(TxSize - 1) |-> 0]
    /\ tx_in = 0 /\ tx_out = 0 /\ tx_space = TxSize
    /\ tx_at = "none" /\ finished = FALSE
    /\ tx_taken = 0 /\ tx_due = 0 /\ tx_told = TRUE

\* The line takes a byte.
Shift ==
    /\ tx_fifo # <<>>
    /\ tx_fifo' = Tail(tx_fifo)
    /\ IF Head(tx_fifo) = Single
       THEN UNCHANGED <<tx_due, tx_told>>
       ELSE /\ tx_due' = Number(tx_due + 1)
            /\ tx_told' = (tx_told /\ Head(tx_fifo) = tx_due)
    /\ UNCHANGED <<empty_ena, tx_ring, tx_at, finished, tx_taken>>

\* Uart_Buf_Cpy: a copy to the end of the ring and one from its start.
Uart_Buf_Cpy(data) ==
    /\ tx_buff' = [i \in DOMAIN tx_buff |->
                  LET k == (i - tx_in) % TxSize
                  IN  IF k < Len(data) THEN data[k + 1] ELSE tx_buff[i]]
    /\ tx_in' = (tx_in + Len(data)) % TxSize
    /\ tx_space' = tx_space - Len(data)

\* Slip: tx_buff_enq that enables the interrupt only for a block it took
tx_buff_enq_OnlyTaken(data_len) ==
    /\ tx_at = "none" /\ ~Pending
    /\ IF data_len <= tx_space
       THEN Uart_Buf_Cpy(Run(tx_taken, data_len)) /\ tx_taken' = Number(tx_taken + data_len)
       ELSE UNCHANGED <<tx_buff, tx_in, tx_space, tx_taken>>
    /\ empty_ena' = (data_len <= tx_space)
    /\ finished' = FALSE
    /\ UNCHANGED <<tx_fifo, tx_out, tx_at, tx_due, tx_told>>

\* Slip: tx_buff_enq that leaves room for less than it copies
tx_buff_enq_OneOver(data_len) ==
    /\ tx_at = "none" /\ ~Pending
    /\ IF data_len <= tx_space + 1
       THEN Uart_Buf_Cpy(Run(tx_taken, data_len)) /\ tx_taken' = Number(tx_taken + data_len)
       ELSE UNCHANGED <<tx_buff, tx_in, tx_space, tx_taken>>
    /\ empty_ena' = TRUE
    /\ finished' = FALSE
    /\ UNCHANGED <<tx_fifo, tx_out, tx_at, tx_due, tx_told>>

\* tx_buff_enq: a block that does not fit is dropped as a whole; the interrupt
\* is masked meanwhile and enabled in the end.
tx_buff_enq(data_len) ==
    /\ tx_at = "none" /\ ~Pending
    /\ IF data_len <= tx_space
       THEN Uart_Buf_Cpy(Run(tx_taken, data_len)) /\ tx_taken' = Number(tx_taken + data_len)
       ELSE UNCHANGED <<tx_buff, tx_in, tx_space, tx_taken>>
    /\ empty_ena' = TRUE
    /\ finished' = FALSE
    /\ UNCHANGED <<tx_fifo, tx_out, tx_at, tx_due, tx_told>>

\* tx_fifo_insert.
tx_fifo_insert(data_len) ==
    /\ tx_fifo' = tx_fifo \o [i \in 1..data_len |-> tx_buff[(tx_out + i - 1) % TxSize]]
    /\ tx_out' = (tx_out + data_len) % TxSize
    /\ tx_space' = tx_space + data_len

\* tx_start_uart_buffer in uart0_rx_intr_handler: the interrupt is enabled
\* again only if more is left than the FIFO has room for.
TxHandler ==
    /\ Pending
    /\ LET data_len    == TxSize - tx_space
           fifo_remain == TxFifoLen - Len(tx_fifo)
       IN  IF data_len > fifo_remain
           THEN tx_fifo_insert(fifo_remain) /\ empty_ena' = TRUE
           ELSE tx_fifo_insert(data_len) /\ empty_ena' = FALSE
    /\ UNCHANGED <<tx_buff, tx_in, tx_at, finished, tx_taken, tx_due, tx_told>>

\* uart_tx_one_char waits for room, uart_tx_one_char_no_wait goes on without;
\* the interrupt may come before the write.
Room ==
    /\ tx_at = "none" /\ ~Pending /\ Len(tx_fifo) < TxFifoLen - 2
    /\ tx_at' = "writes"
    /\ finished' = FALSE
    /\ UNCHANGED <<tx_fifo, empty_ena, tx_ring, tx_taken, tx_due, tx_told>>

Write ==
    /\ tx_at = "writes" /\ ~Pending
    /\ tx_fifo' = IF Len(tx_fifo) < TxFifoLen THEN Append(tx_fifo, Single) ELSE tx_fifo
    /\ tx_at' = "none"
    /\ UNCHANGED <<empty_ena, tx_ring, finished, tx_taken, tx_due, tx_told>>

\* UART_CheckOutputFinished looks at the FIFO, then at the ring, until both are
\* empty or the time is over.
LookAtFifo ==
    /\ tx_at = "none" /\ ~Pending
    /\ tx_at' = IF tx_fifo = <<>> THEN "fifo empty" ELSE "fifo busy"
    /\ UNCHANGED <<tx_fifo, empty_ena, tx_ring, finished, tx_taken, tx_due, tx_told>>

\* Slip: UART_CheckOutputFinished that forgets what it saw of the FIFO
LookAtRing_RingOnly ==
    /\ tx_at \in {"fifo empty", "fifo busy"} /\ ~Pending
    /\ finished' = (tx_space = TxSize)
    /\ tx_at' = "none"
    /\ UNCHANGED <<tx_fifo, empty_ena, tx_ring, tx_taken, tx_due, tx_told>>

LookAtRing ==
    /\ tx_at \in {"fifo empty", "fifo busy"} /\ ~Pending
    /\ finished' = (tx_at = "fifo empty" /\ tx_space = TxSize)
    /\ tx_at' = "none"
    /\ UNCHANGED <<tx_fifo, empty_ena, tx_ring, tx_taken, tx_due, tx_told>>

\* UART_ResetFifo: what is in the FIFO is gone; the line goes on behind it.
TxResetFifo ==
    /\ tx_at = "none" /\ ~Pending
    /\ tx_fifo' = <<>>
    /\ tx_due' = Number(tx_due + Numbered(tx_fifo, Len(tx_fifo)))
    /\ UNCHANGED <<empty_ena, tx_ring, tx_at, finished, tx_taken, tx_told>>

TxNext ==
    \/ Shift
    \/ TxHandler
    \/ \E n \in 1..MaxBlock : tx_buff_enq(n)
    \/ Room \/ Write
    \/ LookAtFifo \/ LookAtRing
    \/ TxResetFifo

TxSpec == TxInit /\ [][TxNext]_txVars

\* The line sends, the interrupt is taken, a task goes on.
TxFairness ==
    /\ WF_txVars(Shift)
    /\ WF_txVars(TxHandler)
    /\ WF_txVars(Write) /\ WF_txVars(LookAtRing)

TxFairSpec == TxSpec /\ TxFairness

TxTypeOK ==
    /\ tx_fifo \in Seq(0..Count) /\ Len(tx_fifo) <= TxFifoLen
    /\ empty_ena \in BOOLEAN /\ finished \in BOOLEAN /\ tx_told \in BOOLEAN
    /\ tx_buff \in [0..(TxSize - 1) -> 0..(Count - 1)]
    /\ tx_in \in 0..(TxSize - 1) /\ tx_out \in 0..(TxSize - 1)
    /\ tx_space \in 0..TxSize
    /\ tx_at \in TxPlaces
    /\ tx_taken \in 0..(Count - 1) /\ tx_due \in 0..(Count - 1)

\* The bytes of the blocks that were taken reach the line in their order, each
\* once, whatever is written between them: the FIFO and the ring behind it
\* are one run of bytes.
SentInOrder ==
    /\ tx_told
    /\ LET used == TxSize - tx_space
           held == Numbered(tx_fifo, Len(tx_fifo))
       IN  /\ \A i \in DOMAIN tx_fifo :
                 tx_fifo[i] # Single => tx_fifo[i] = Number(tx_due + Numbered(tx_fifo, i - 1))
           /\ \A i \in 0..(used - 1) :
                 tx_buff[(tx_out + i) % TxSize] = Number(tx_due + held + i)
           /\ tx_taken = Number(tx_due + held + used)
           /\ (tx_out + used - tx_in) % TxSize = 0

\* Where UART_CheckOutputFinished returns TRUE the ring and the FIFO are empty,
\* though it looks at them one after the other.
FinishedIsFinished == finished => tx_fifo = <<>> /\ tx_space = TxSize

\* A byte that was taken leaves the ring: while the ring holds bytes the
\* interrupt that drains it stays enabled.
RingDrains ==
    \A p \in 0..(TxSize - 1) :
        (tx_space < TxSize /\ tx_out = p) ~> (tx_space = TxSize \/ tx_out # p)
====
