---- MODULE MCDrivers ----
(***************************************************************************)
(* TLC instance of Drivers: two keys, short rings, lists and loads, and    *)
(* an I2C bus as it is.                                                    *)
(***************************************************************************)
EXTENDS Drivers

ASSUME UartRxAssumption /\ UartTxAssumption /\ SdioAssumption
ASSUME I2cAssumption /\ I2cClocks

\* Addresses to read from and to write to, and a byte of data.
MCWords == {<<1, 0, 1, 0, 0, 0, 0, 1>>, <<1, 0, 1, 0, 0, 0, 0, 0>>, <<0, 1, 1, 1, 1, 1, 1, 0>>}
====
