---- MODULE MCProvision ----
(* TLC instance of Provision. *)
EXTENDS Provision
====
