---- MODULE MCEcIo ----
(* TLC instance of EcIo: the bounds are in the cfg files. *)
EXTENDS EcIo
====
