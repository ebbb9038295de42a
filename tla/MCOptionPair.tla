----------------------------- MODULE MCOptionPair -----------------------------
(* OptionPair, with its inductive invariants, for TLC. *)
EXTENDS OptionPairInvariant
===============================================================================
