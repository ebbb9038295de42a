------------------------------ MODULE CharsetCodec ------------------------------
(***************************************************************************)
(* The content of CHARSET subnegotiations as charset::server reads them: a *)
(* list that is delimited by whatever byte stands in front of it.          *)
(***************************************************************************)
EXTENDS Naturals, Sequences, Wires

\* charset/detail/protocol.hpp.
request == 1

Byte == 0..255

\* The charsets that have been read, and the one that is being read.
list == [advertised : Seq(Seq(Byte)), charset : Seq(Byte)]
new_list == [advertised |-> <<>>, charset |-> <<>>]

\* A charset that has ended is advertised unless it is empty.
ended(l) ==
    IF l.charset = <<>> THEN l
    ELSE [advertised |-> Append(l.advertised, l.charset), charset |-> <<>>]

read_byte(delimiter) == [z \in list \X Byte |->
    IF z[2] = delimiter THEN ended(z[1]) ELSE [z[1] EXCEPT !.charset = Append(@, z[2])]]

read_list(data) == Folded(read_byte(data[2]), new_list, SubSeq(data, 3, Len(data)))

\* Mutant: the last charset needs a separator behind it.
advertised_if_separated(data) ==
    IF Len(data) < 2 \/ Head(data) # request THEN <<>> ELSE read_list(data).advertised

\* server::handle_subnegotiation: the list it passes to on_charsets_advertised,
\* which is not emitted when there is nothing in it.
advertised_charsets(data) ==
    IF Len(data) < 2 \/ Head(data) # request THEN <<>> ELSE ended(read_list(data)).advertised
===============================================================================
