------------------------------ MODULE MCNewEnviron ------------------------------
(* NewEnviron for TLC: names and values that need escaping. *)
EXTENDS NewEnvironInvariant

\* A name that is itself VAR, and a value that is ESC.
SpecialNames == {<<0>>}
SpecialValues == {<<>>, <<2>>}

Both == <<[type |-> "uservar", name |-> <<0>>], [type |-> "var", name |-> <<0>>]>>
Asked == {<<>>, Tail(Both)}
===============================================================================
