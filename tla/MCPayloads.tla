------------------------------- MODULE MCPayloads -------------------------------
(* Payloads for TLC: names and values made of the bytes that mean something. *)
EXTENDS Payloads

Lists(set, n) == UNION {[1..k -> set] : k \in 0..n}

\* 0 to 3 are VAR, VALUE, ESC and USERVAR; 65 is no special byte.
Names == {<<>>, <<65>>, <<0>>, <<2, 3>>}

Reqs == Lists([type : {"var", "uservar"}, name : Names], 2)

Rsps == Lists([type : {"var", "uservar"}, name : Names,
               value : {<<>>, <<<<>>>>, <<<<1, 65>>>>, <<<<2>>>>}], 2)

Ads == {ad \in [separator : {32, 59}, charsets : Lists({<<>>, <<65>>, <<59, 66>>}, 3)] :
          \A i \in DOMAIN ad.charsets :
             \A j \in DOMAIN ad.charsets[i] : ad.charsets[i][j] # ad.separator}

\* Strings, arrays, and tables of both in tables, one within the other.  VAL in
\* a string, VAR and TABLE_CLOSE in an array have no meaning there.
Flat ==
    {Msdp!variable(<<65>>, Msdp!string_value(s)) : s \in {<<>>, <<2, 66>>}}
    \cup {Msdp!variable(<<65>>, Msdp!array_value(a)) : a \in Lists({<<>>, <<1, 4>>}, 2)}
Tables(variables) ==
    {Msdp!variable(<<84>>, Msdp!table_value(t)) : t \in Lists(variables, 2)}
Vars == LET inner == Tables(Flat) IN Flat \cup inner \cup Tables(Flat \cup inner)

\* A table of a string and an array.
Mixed == {Msdp!variable(<<84>>, Msdp!table_value(
              <<Msdp!variable(<<65>>, Msdp!array_value(<<<<66>>>>)),
                Msdp!variable(<<67>>, Msdp!string_value(<<68>>))>>))}
None == {}
===============================================================================
