---- MODULE Drivers ----
(***************************************************************************)
(* The drivers side by side: the keys (KeyDebounce), both ways of the UART *)
(* (UartRx, UartTx), the SDIO slave (SdioSlave) and the I2C master         *)
(* (I2cMaster).  They share nothing, so a behaviour is one of a single     *)
(* driver, the part; the others rest where they started.                   *)
(***************************************************************************)
EXTENDS KeyDebounce, UartRx, UartTx, SdioSlave, I2cMaster

\* The driver that is at work.
VARIABLE part

Init ==
    /\ part \in {"keys", "rx", "tx", "sdio", "i2c"}
    /\ KeyInit /\ (part # "keys" => \A k \in Keys : pin[k] = 1)
    /\ RxInit /\ (part # "rx" => buffEn)
    /\ TxInit
    /\ SdioInit
    /\ I2cInit /\ (part # "i2c" => slave = Free("idle"))

Next ==
    \/ part = "keys" /\ KeyNext /\ UNCHANGED <<part, rxVars, txVars, sdioVars, i2cVars>>
    \/ part = "rx" /\ RxNext /\ UNCHANGED <<part, keyVars, txVars, sdioVars, i2cVars>>
    \/ part = "tx" /\ TxNext /\ UNCHANGED <<part, keyVars, rxVars, sdioVars, i2cVars>>
    \/ part = "sdio" /\ SdioNext /\ UNCHANGED <<part, keyVars, rxVars, txVars, i2cVars>>
    \/ part = "i2c" /\ I2cNext /\ UNCHANGED <<part, keyVars, rxVars, txVars, sdioVars>>

vars == <<part, keyVars, rxVars, txVars, sdioVars, i2cVars>>

\* KeyFairness, RxFairness, TxFairness and SdioFairness, each while its driver is
\* the part.
Fairness ==
    /\ \A k \in Keys : /\ WF_keyVars(part = "keys" /\ Driver(k))
                        /\ WF_keyVars(part = "keys" /\ Look(k))
    /\ WF_rxVars(part = "rx" /\ RxHandler) /\ SF_rxVars(part = "rx" /\ Received)
    /\ WF_rxVars(part = "rx" /\ RecvTask)
    /\ WF_rxVars(part = "rx" /\ \E n \in 1..MaxRead : Read(n))
    /\ WF_txVars(part = "tx" /\ Shift) /\ WF_txVars(part = "tx" /\ TxHandler)
    /\ WF_txVars(part = "tx" /\ Write) /\ WF_txVars(part = "tx" /\ LookAtRing)
    /\ WF_sdioVars(part = "sdio" /\ ~torn /\ HostReads)
    /\ WF_sdioVars(part = "sdio" /\ ~torn /\ Isr) /\ WF_sdioVars(part = "sdio" /\ ~torn /\ IsrEnd)
    /\ SF_sdioVars(part = "sdio" /\ ~torn /\ HandleDone)
    /\ SF_sdioVars(part = "sdio" /\ TaskLoads) /\ WF_sdioVars(part = "sdio" /\ CallbackLoads)

Spec == Init /\ [][Next]_vars /\ Fairness

---------------------------------------------------------------------------
\* The properties of the parts, stated in their modules.

TypeOK ==
    /\ KeyTypeOK /\ RxTypeOK /\ TxTypeOK /\ SdioTypeOK /\ I2cTypeOK

\* What each driver passes on arrives once and in order, the SDIO slave's as long
\* as its handler has not met a load within a step.
InOrder ==
    /\ ReceivedInOrder
    /\ SentInOrder /\ FinishedIsFinished
    /\ BuffersKept /\ LoadedInOrder
    /\ I2cUnderstood

\* A press ends, the FIFO and the ring of the UART move on, and a buffer of the
\* SDIO slave is read, or the slave has stopped in one of the ways SdioFlows names.
WaitingMovesOn == PressEnds /\ FifoMoves /\ RingDrains /\ SdioFlows
====
