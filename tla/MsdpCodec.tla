------------------------------- MODULE MsdpCodec -------------------------------
(***************************************************************************)
(* The content of MSDP subnegotiations: the encoder of one variable and    *)
(* the decoder, which passes on any number of them.  A variable has a name *)
(* and a value: a string, an array of strings, or a table of variables.    *)
(***************************************************************************)
EXTENDS Naturals, SequencesExt

CONSTANT MaxDepth   \* of tables within tables

\* msdp/detail/protocol.hpp.
var == 1
val == 2
table_open == 3
table_close == 4
array_open == 5
array_close == 6

Byte == 0..255

string_value(bytes) == [kind |-> "string", items |-> bytes]
array_value(strings) == [kind |-> "array", items |-> strings]
table_value(variables) == [kind |-> "table", items |-> variables]

variable(name, val_) == [name |-> name, value_ |-> val_]

\* What is one level of nesting below: nothing is below a table of level 0.
inner(levels, n) == IF n = 0 THEN {} ELSE levels[n - 1]

\* What a program may send: tables with up to n levels of tables below them.
Nested[n \in 0..MaxDepth] ==
    [name   : Seq(Byte),
     value_ : [kind : {"string"}, items : Seq(Byte)]
              \cup [kind : {"array"}, items : Seq(Seq(Byte))]
              \cup [kind : {"table"}, items : Seq(inner(Nested, n))]]

encode_array(arr) ==
    <<array_open>> \o FlattenSeq([i \in DOMAIN arr |-> <<val>> \o arr[i]]) \o <<array_close>>

\* Every entry of a table has its own pair of brackets; "entries" is how they
\* are encoded.
bracketed(content) == <<table_open>> \o content \o <<table_close>>

encoding(v, entries) ==
    <<var>> \o v.name \o <<val>> \o
       (CASE v.value_.kind = "string" -> v.value_.items
          [] v.value_.kind = "array"  -> encode_array(v.value_.items)
          [] v.value_.kind = "table"  -> FlattenSeq(
                [i \in DOMAIN v.value_.items |-> bracketed(entries[v.value_.items[i]])]))

encoded[n \in 0..MaxDepth] == [v \in Nested[n] |-> encoding(v, inner(encoded, n))]

encode_variable(v) == encoded[MaxDepth][v]

-------------------------------------------------------------------------------
(***************************************************************************)
(* The decoder.  current_var_ is a stack of pointers: to var_, to the last *)
(* entry of its table, to the last entry of that one's table, and so on.   *)
(* Here it holds the variables themselves, each without the entry that is  *)
(* above it; closing a variable puts it into the one below.  "out" is what *)
(* has been passed to cont_.  "undefined" is a pop_back() of an empty      *)
(* stack or a back() of an empty array: what happens then, and after, is   *)
(* anything.                                                               *)
(***************************************************************************)
new_variable == variable(<<>>, string_value(<<>>))

new_parser == [current_var_ |-> <<>>, state_ |-> "idle", out |-> <<>>, undefined |-> FALSE]

top(p) == p.current_var_[Len(p.current_var_)]

with_top(p, v) == [p EXCEPT !.current_var_[Len(p.current_var_)] = v]

value_becomes(p, val_) == with_top(p, [top(p) EXCEPT !.value_ = val_])

into(outer, entry) == [outer EXCEPT !.value_.items = Append(@, entry)]

open_variable(p) == [p EXCEPT !.current_var_ = Append(@, new_variable)]

\* Mutant: a variable goes to cont_ as soon as it is closed, whatever is open
\* around it.
emit_when_closed(p) ==
    CASE p.current_var_ = <<>> -> [p EXCEPT !.undefined = TRUE]
      [] OTHER -> [p EXCEPT !.current_var_ = Front(@), !.out = Append(@, top(p))]

close_variable(p) ==
    LET below == Front(p.current_var_) IN
    CASE p.current_var_ = <<>> -> [p EXCEPT !.undefined = TRUE]
      [] Len(p.current_var_) = 1 ->
            [p EXCEPT !.current_var_ = <<>>, !.out = Append(@, top(p))]
      [] OTHER ->
            [p EXCEPT !.current_var_ = Append(Front(below), into(Last(below), top(p)))]

to(p, state) == [p EXCEPT !.state_ = state]

parse_idle(p, data) ==
    CASE data = var         -> to(open_variable(p), "name")
      [] data = table_close -> to(close_variable(p), "idle")
      [] OTHER              -> p

parse_name(p, data) ==
    IF data = val THEN to(value_becomes(p, string_value(<<>>)), "value")
    ELSE with_top(p, [top(p) EXCEPT !.name = Append(@, data)])

parse_value(p, data) ==
    CASE data = array_open  -> to(value_becomes(p, array_value(<<>>)), "array")
      [] data = table_open  -> to(value_becomes(p, table_value(<<>>)), "idle")
      [] data = table_close -> to(close_variable(p), "idle")
      [] data = var         -> to(open_variable(close_variable(p)), "name")
      [] OTHER -> value_becomes(p, string_value(Append(top(p).value_.items, data)))

parse_array(p, data) ==
    LET strings == top(p).value_.items IN
    CASE data = array_close -> to(close_variable(p), "idle")
      [] data = val         -> value_becomes(p, array_value(Append(strings, <<>>)))
      [] OTHER ->
            IF strings = <<>> THEN [p EXCEPT !.undefined = TRUE]
            ELSE value_becomes(p,
                     array_value(Append(Front(strings), Append(Last(strings), data))))

parse(p, data) ==
    IF p.undefined THEN p
    ELSE CASE p.state_ = "idle"  -> parse_idle(p, data)
           [] p.state_ = "name"  -> parse_name(p, data)
           [] p.state_ = "value" -> parse_value(p, data)
           [] p.state_ = "array" -> parse_array(p, data)

\* var_ with everything in it that is still open; a closed one has no name.
finish(p) ==
    LET open == p.current_var_
        within[i \in 1..Len(open)] ==
            IF i = Len(open) THEN open[i] ELSE into(open[i], within[i + 1])
    IN IF p.undefined \/ open = <<>> \/ open[1].name = <<>> THEN p
       ELSE [p EXCEPT !.out = Append(@, within[1])]
===============================================================================
