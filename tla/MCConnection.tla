------------------------------ MODULE MCConnection ------------------------------
(* Connection for TLC. *)
EXTENDS ConnectionInvariant

\* Two sizes of which all bytes differ; 255 is IAC.
TwoSizes == {<<80, 24>>, <<511, 65280>>}
===============================================================================
