--------------------------- MODULE MCOptionCallbacks ---------------------------
(* OptionCallbacks for TLC. *)
EXTENDS OptionCallbacksInvariant
===============================================================================
