---- MODULE SdioSlave ----
(***************************************************************************)
(* driver_lib/driver/sdio_slv.c: data for an SDIO host is collected in     *)
(* buffers that wander between two lists, what the host writes is handed   *)
(* to a callback.  sdio_load_data is called by a task, where the interrupt *)
(* may come anywhere since its masking is commented out (lines 323, 334),  *)
(* or by the callback, within the handler.  Its loop, its end and the      *)
(* handler are steps between which the other and the host go on.  Where    *)
(* one meets the lists of the other half mended the model ends (torn).     *)
(*                                                                         *)
(* Bytes are numbered as they are loaded, modulo Count.  The host is       *)
(* external: it reads what the status register offers and writes when the  *)
(* link to it is started.                                                  *)
(***************************************************************************)
EXTENDS Integers, Sequences, SequencesExt, Numbering

CONSTANTS Bufs,     \* RX_BUFFER_NUM
          BufSize,  \* RX_BUFFER_SIZE
          MaxLoad   \* the most that is loaded at once

SdioAssumption ==
    /\ Bufs \in Nat \ {0} /\ BufSize \in Nat \ {0} /\ MaxLoad \in Nat
    /\ Count \in Nat /\ Bufs * BufSize < Count

VARIABLES
    tosend,       \* the buffers from pHead_ToSend to pTail_ToSend
    sended,       \* the free ones, from pHead_Sended to pTail_Sended
    buffer,       \* what each holds, up to its tail
    has_read,
    load,         \* where sdio_load_data is, and the bytes it has left, for the
                  \* task and for the callback
    rxlink,       \* the link to the host is started: the host may read the
                  \* buffer rx_que points to
    txlink,       \* the host may write
    sdio_status,  \* SLC_HOST_CONF_W2
    sdio_int_st,  \* the interrupts that are raised
    sdio_at,      \* where the handler is
    sdio_taken,   \* history: the number of the next byte loaded
    sdio_due,     \* history: the number the host has to read next
    sdio_told,    \* history: the host read the numbers in their turn
    sdio_read,    \* history: the host has read the first buffer to be sent, and
                  \* the handler has not freed it yet
    stopped,      \* history: no buffer is ever offered again
    torn          \* history: the lists or a buffer are in pieces

lists    == <<tosend, sended>>
history  == <<sdio_taken, sdio_due, sdio_told, sdio_read>>
sdioVars == <<lists, buffer, has_read, load, rxlink, txlink, sdio_status, sdio_int_st, sdio_at,
              history, stopped, torn>>

Loaders == {"task", "callback"}

\* sdio_slave_init.
SdioInit ==
    /\ tosend = <<>> /\ sended = [i \in 1..Bufs |-> i]
    /\ buffer = [i \in 1..Bufs |-> <<>>]
    /\ has_read = TRUE /\ load = [w \in Loaders |-> [at |-> "none", todo |-> 0]]
    /\ rxlink = FALSE /\ txlink = TRUE
    /\ sdio_status = [wr_busy |-> FALSE, rx_length |-> 0, intr_no |-> {}]
    /\ sdio_int_st = {} /\ sdio_at = "none"
    /\ sdio_taken = 0 /\ sdio_due = 0 /\ sdio_told = TRUE /\ sdio_read = FALSE
    /\ stopped = FALSE /\ torn = FALSE

\* rx_buff_load_done: nothing is started for an empty buffer.  before is the
\* status the handler has made of the register so far.
rx_buff_load_done(before, rx_len) ==
    IF rx_len = 0
    THEN sdio_status' = before /\ UNCHANGED rxlink
    ELSE /\ sdio_status' = [before EXCEPT !.intr_no = @ \union {"RX_AVAILIBLE"},
                                     !.rx_length = rx_len]
         /\ rxlink' = TRUE

---------------------------------------------------------------------------
(* sdio_load_data.  The task waits while the handler runs, the callback is *)
(* part of it.                                                             *)

MayRun(w) == sdio_at = (IF w = "task" THEN "none" ELSE "callback")

Goes(w, at, todo) == load' = [load EXCEPT ![w] = [at |-> at, todo |-> todo]]

\* The callback loads where the task is within a turn, or about to put a buffer
\* into an empty queue.
Nested(w) == w = "callback" /\ load["task"].at \in {"copies", "chains", "closes"}

\* Without a free buffer it returns at once.
sdio_load_data(w, len) ==
    /\ MayRun(w) /\ load[w].at = "none" /\ sended # <<>> /\ ~Nested(w)
    /\ Goes(w, "between", len)
    /\ UNCHANGED <<lists, buffer, has_read, rxlink, txlink, sdio_status, sdio_int_st, sdio_at,
                   history, stopped, torn>>

\* A turn of the loop looks at the first free buffer, ...
Turn(w) ==
    /\ MayRun(w) /\ load[w].at = "between" /\ load[w].todo > 0 /\ sended # <<>>
    /\ Goes(w, "copies", load[w].todo)
    /\ UNCHANGED <<lists, buffer, has_read, rxlink, txlink, sdio_status, sdio_int_st, sdio_at,
                   history, stopped, torn>>

\* ... fills it up, ...
Fills(w) ==
    /\ MayRun(w) /\ load[w].at = "copies"
    /\ LET room == BufSize - Len(buffer[Head(sended)])
           n    == IF load[w].todo < room THEN load[w].todo ELSE room
       IN  /\ buffer' = [buffer EXCEPT ![Head(sended)] = @ \o Run(sdio_taken, n)]
           /\ sdio_taken' = Number(sdio_taken + n)
           /\ IF load[w].todo < room
              THEN Goes(w, "between", 0)
              ELSE Goes(w, "chains", load[w].todo - n)
    /\ UNCHANGED <<lists, has_read, rxlink, txlink, sdio_status, sdio_int_st, sdio_at,
                   sdio_due, sdio_told, sdio_read, stopped, torn>>

\* ... and puts it, full, behind those to be sent.  Nothing offers it if it is
\* the first of them, now (line 389 looks for an empty queue) or later.
Chains(w) ==
    /\ MayRun(w) /\ load[w].at = "chains"
    /\ tosend' = Append(tosend, Head(sended)) /\ sended' = Tail(sended)
    /\ stopped' = (stopped \/ tosend = <<>>)
    /\ Goes(w, "between", IF Tail(sended) = <<>> THEN 0 ELSE load[w].todo)
    /\ UNCHANGED <<buffer, has_read, rxlink, txlink, sdio_status, sdio_int_st, sdio_at,
                   history, torn>>

\* After the loop: is there nothing to be sent?
LooksAtQueue(w) ==
    /\ MayRun(w) /\ load[w].at = "between" /\ load[w].todo = 0
    /\ Goes(w, IF tosend = <<>> THEN "closes" ELSE "none", 0)
    /\ UNCHANGED <<lists, buffer, has_read, rxlink, txlink, sdio_status, sdio_int_st, sdio_at,
                   history, stopped, torn>>

\* Then the first free buffer is taken, full or not, and offered by
\* sdio_try_to_load, ...
Offers(w) ==
    /\ MayRun(w) /\ load[w].at = "closes"
    /\ tosend' = <<Head(sended)>> /\ sended' = Tail(sended)
    /\ IF has_read
       THEN /\ rx_buff_load_done(sdio_status, Len(buffer[Head(sended)]))
            /\ stopped' = (stopped \/ buffer[Head(sended)] = <<>>)
            /\ Goes(w, "offers", 0)
       ELSE UNCHANGED <<rxlink, sdio_status, stopped>> /\ Goes(w, "none", 0)
    /\ UNCHANGED <<buffer, has_read, txlink, sdio_int_st, sdio_at, history, torn>>

\* ... which takes note of it when the host, and the handler, may be through.
LoadEnds(w) ==
    /\ MayRun(w) /\ load[w].at = "offers"
    /\ has_read' = FALSE
    /\ stopped' = (stopped \/ tosend = <<>>)
    /\ Goes(w, "none", 0)
    /\ UNCHANGED <<lists, buffer, rxlink, txlink, sdio_status, sdio_int_st, sdio_at, history, torn>>

Loads(w) ==
    Turn(w) \/ Fills(w) \/ Chains(w) \/ LooksAtQueue(w) \/ Offers(w) \/ LoadEnds(w)

---------------------------------------------------------------------------
(* Host and handler.                                                       *)

\* The host reads the bytes it is offered, ...
HostReads ==
    /\ rxlink /\ "RX_AVAILIBLE" \in sdio_status.intr_no
    /\ LET bytes == SubSeq(buffer[Head(tosend)], 1, sdio_status.rx_length)
       IN  /\ sdio_due' = Number(sdio_due + Len(bytes))
           /\ sdio_told' = (sdio_told /\ bytes = Run(sdio_due, Len(bytes)))
    /\ rxlink' = FALSE /\ sdio_read' = TRUE
    /\ sdio_int_st' = sdio_int_st \union {"RX_EOF"}
    /\ UNCHANGED <<lists, buffer, has_read, load, txlink, sdio_status, sdio_at, sdio_taken,
                   stopped, torn>>

\* ... and writes.
HostWrites ==
    /\ txlink
    /\ txlink' = FALSE
    /\ sdio_int_st' = sdio_int_st \union {"TX_EOF"}
    /\ UNCHANGED <<lists, buffer, has_read, load, rxlink, sdio_status, sdio_at, history, stopped,
                   torn>>

\* Slip: the free buffers are filled before those that came back earlier.
sdio_read_done_process_First(before) ==
    LET done  == Head(tosend)
        clean == [buffer EXCEPT ![done] = <<>>]
        free  == <<done>> \o sended
    IN  /\ buffer' = clean
        /\ IF Len(tosend) > 1
           THEN /\ tosend' = Tail(tosend) /\ sended' = free
                /\ has_read' = FALSE
                /\ rx_buff_load_done(before, Len(clean[tosend[2]]))
           ELSE IF clean[Head(free)] # <<>>
           THEN /\ tosend' = <<Head(free)>> /\ sended' = Tail(free)
                /\ has_read' = FALSE
                /\ rx_buff_load_done(before, Len(clean[Head(free)]))
           ELSE /\ tosend' = <<>> /\ sended' = free
                /\ has_read' = TRUE
                /\ sdio_status' = before /\ UNCHANGED rxlink

\* Slip: only what is full or on its way is offered.
sdio_read_done_process_FullOnly(before) ==
    LET done == Head(tosend)
    IN  /\ buffer' = [buffer EXCEPT ![done] = <<>>]
        /\ tosend' = Tail(tosend) /\ sended' = Append(sended, done)
        /\ has_read' = (Tail(tosend) = <<>>)
        /\ IF Len(tosend) > 1
           THEN rx_buff_load_done(before, Len(buffer[tosend[2]]))
           ELSE sdio_status' = before /\ UNCHANGED rxlink

\* sdio_read_done_process: the buffer is free again, behind the others; the next
\* one to be sent is offered, or the one that is being filled.
sdio_read_done_process(before) ==
    LET done  == Head(tosend)
        clean == [buffer EXCEPT ![done] = <<>>]
        free  == Append(sended, done)
    IN  /\ buffer' = clean
        /\ IF Len(tosend) > 1
           THEN /\ tosend' = Tail(tosend) /\ sended' = free
                /\ has_read' = FALSE
                /\ rx_buff_load_done(before, Len(clean[tosend[2]]))
           ELSE IF clean[Head(free)] # <<>>
           THEN /\ tosend' = <<Head(free)>> /\ sended' = Tail(free)
                /\ has_read' = FALSE
                /\ rx_buff_load_done(before, Len(clean[Head(free)]))
           ELSE /\ tosend' = <<>> /\ sended' = free
                /\ has_read' = TRUE
                /\ sdio_status' = before /\ UNCHANGED rxlink

\* The handler frees a buffer while the task mends the lists, or takes away the
\* buffer that the task is filling.
Interrupts ==
    /\ "RX_EOF" \in sdio_int_st
    /\ \/ load["task"].at = "chains"
       \/ /\ load["task"].at = "copies" /\ Len(tosend) = 1
          /\ buffer[Head(sended)] # <<>>

\* sdio_slave_isr up to the callback: the status it saw is cleared;
\* rx_buff_read_done and tx_buff_write_done change the register.
Isr ==
    /\ sdio_at = "none" /\ sdio_int_st # {} /\ ~Interrupts
    /\ LET read    == IF "RX_EOF" \in sdio_int_st
                      THEN [sdio_status EXCEPT !.rx_length = 0,
                                          !.intr_no = @ \ {"RX_AVAILIBLE"}]
                      ELSE sdio_status
           written == IF "TX_EOF" \in sdio_int_st
                      THEN [read EXCEPT !.wr_busy = TRUE,
                                        !.intr_no = @ \ {"TX_AVAILIBLE"}]
                      ELSE read
       IN  IF "RX_EOF" \in sdio_int_st
           THEN sdio_read_done_process(written) /\ sdio_read' = FALSE
           ELSE sdio_status' = written /\ UNCHANGED <<lists, buffer, has_read, rxlink, sdio_read>>
    /\ sdio_at' = IF "TX_EOF" \in sdio_int_st THEN "callback" ELSE "end"
    /\ sdio_int_st' = {}
    /\ UNCHANGED <<load, txlink, sdio_taken, sdio_due, sdio_told, stopped, torn>>

\* The callback is through: tx_buff_handle_done.
HandleDone ==
    /\ sdio_at = "callback" /\ load["callback"].at = "none"
    /\ sdio_status' = [sdio_status EXCEPT !.wr_busy = FALSE, !.intr_no = @ \union {"TX_AVAILIBLE"}]
    /\ txlink' = TRUE
    /\ sdio_at' = "end"
    /\ UNCHANGED <<lists, buffer, has_read, load, rxlink, sdio_int_st, history, stopped, torn>>

\* The end of sdio_slave_isr clears what was raised in the meantime: a buffer
\* that was read is never freed.
IsrEnd ==
    /\ sdio_at = "end"
    /\ sdio_int_st' = {}
    /\ stopped' = (stopped \/ "RX_EOF" \in sdio_int_st)
    /\ sdio_at' = "none"
    /\ UNCHANGED <<lists, buffer, has_read, load, rxlink, txlink, sdio_status, history, torn>>

\* Task and handler meet within a step of the load, or a load that was
\* interrupted goes on and finds no free buffer, which it does not look for.
Tears ==
    /\ \/ sdio_at = "none" /\ Interrupts
       \/ \E w \in Loaders : MayRun(w) /\ load[w].at = "none" /\ sended # <<>> /\ Nested(w)
       \/ \E w \in Loaders : MayRun(w) /\ load[w].at = "between" /\ load[w].todo > 0 /\ sended = <<>>
    /\ torn' = TRUE
    /\ UNCHANGED <<lists, buffer, has_read, load, rxlink, txlink, sdio_status, sdio_int_st, sdio_at,
                   history, stopped>>

SdioNext ==
    /\ ~torn
    /\ \/ \E w \in Loaders, n \in 0..MaxLoad : sdio_load_data(w, n)
       \/ \E w \in Loaders : Loads(w)
       \/ HostReads \/ HostWrites
       \/ Isr \/ HandleDone \/ IsrEnd
       \/ Tears

SdioSpec == SdioInit /\ [][SdioNext]_sdioVars

TaskLoads == ~torn /\ Loads("task")
CallbackLoads == ~torn /\ Loads("callback")

\* The host reads what it is offered; the handler is entered and ends, and so
\* does the callback; a host that goes on writing leaves the task time to run.
SdioFairness ==
    /\ WF_sdioVars(~torn /\ HostReads)
    /\ WF_sdioVars(~torn /\ Isr) /\ WF_sdioVars(~torn /\ IsrEnd)
    /\ SF_sdioVars(~torn /\ HandleDone)
    /\ SF_sdioVars(TaskLoads) /\ WF_sdioVars(CallbackLoads)

SdioFairSpec == SdioSpec /\ SdioFairness

SdioTypeOK ==
    /\ tosend \in Seq(1..Bufs) /\ sended \in Seq(1..Bufs)
    /\ \A b \in 1..Bufs : buffer[b] \in Seq(0..(Count - 1)) /\ Len(buffer[b]) <= BufSize
    /\ has_read \in BOOLEAN /\ rxlink \in BOOLEAN /\ txlink \in BOOLEAN
    /\ sdio_status \in [wr_busy : BOOLEAN, rx_length : 0..BufSize,
                   intr_no : SUBSET {"RX_AVAILIBLE", "TX_AVAILIBLE"}]
    /\ sdio_int_st \subseteq {"RX_EOF", "TX_EOF"}
    /\ sdio_at \in {"none", "callback", "end"}
    /\ sdio_taken \in 0..(Count - 1) /\ sdio_due \in 0..(Count - 1)
    /\ sdio_told \in BOOLEAN /\ sdio_read \in BOOLEAN
    /\ stopped \in BOOLEAN /\ torn \in BOOLEAN
    /\ load \in [Loaders -> [at : {"none", "between", "copies", "chains", "closes", "offers"},
                             todo : 0..MaxLoad]]

\* What has been loaded and not read yet, in the order of the lists.
Held ==
    LET queue == IF sdio_read THEN Tail(tosend) ELSE tosend
    IN  FlattenSeq([i \in DOMAIN queue |-> buffer[queue[i]]])
          \o FlattenSeq([i \in DOMAIN sended |-> buffer[sended[i]]])

\* As long as task and handler have not met within a step of the load, every
\* buffer is in one of the lists, in one place: none is lost to the driver or
\* handed out twice, though handler and callback come between the steps.
BuffersKept ==
    ~torn =>
       /\ Len(tosend) + Len(sended) = Bufs
       /\ \A b \in 1..Bufs : \E i \in 1..Bufs : (tosend \o sended)[i] = b

\* As long as task and handler have not met within a step of the load, the host
\* reads what was loaded in its order, each byte once, however the loads were
\* cut into buffers and a load of the callback into one of the task.
LoadedInOrder ==
    ~torn =>
       /\ sdio_told
       /\ Held = Run(sdio_due, Len(Held)) /\ sdio_taken = Number(sdio_due + Len(Held))

\* A buffer that holds bytes is read and freed.  The code has four ways to stop
\* for good instead (stopped), and no other: a load fills a buffer while nothing
\* is to be sent, so that line 389 offers nothing; a load ends on an empty buffer
\* and rx_buff_load_done starts nothing, but has_read is gone; the handler frees
\* the buffer before sdio_try_to_load sets has_read; or the end of the handler
\* clears the report of the host.
SdioFlows ==
    \A b \in 1..Bufs : (buffer[b] # <<>>) ~> (buffer[b] = <<>> \/ stopped \/ torn)
====
