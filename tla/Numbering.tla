---- MODULE Numbering ----
(***************************************************************************)
(* Bytes that tell their place in an order: the drivers copy a byte as it  *)
(* is, so each is stood for by its number, modulo Count.  A driver that    *)
(* holds fewer than Count bytes at once loses, doubles or swaps none of    *)
(* them unless a number comes out of turn.                                 *)
(***************************************************************************)
EXTENDS Integers

CONSTANT Count

Number(i) == i % Count

\* n bytes, the first with the number of from.
Run(from, n) == [i \in 1..n |-> Number(from + i - 1)]
====
