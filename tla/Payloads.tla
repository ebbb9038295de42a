-------------------------------- MODULE Payloads --------------------------------
(***************************************************************************)
(* What the options put into their subnegotiations, and what the same      *)
(* option at the other end makes of it, for the options whose content has  *)
(* a syntax: NEW-ENVIRON in both directions, CHARSET and MSDP.  One        *)
(* message is encoded, and its content parsed byte by byte as the loops of *)
(* for_each_request, for_each_response, charset::server and msdp decode    *)
(* do.  Stream shows that the content arrives as it was written.           *)
(*                                                                         *)
(* The specification is called PayloadsSpec, and its parts accordingly, so *)
(* that NewEnvironProofs can speak of this module and of NewEnviron.       *)
(***************************************************************************)
EXTENDS NewEnvironCodec

CONSTANTS
    Requests,       \* the lists a program may give to request_variables
    Responses,      \* the lists of variables a server may report
    Advertisements, \* the lists of charsets, with their separators, of the
                    \* other end of CHARSET, which is not part of telnetpp
    Variables,      \* the variables a program may give to msdp send
    MaxDepth        \* how deep their tables are nested

Charset == INSTANCE CharsetCodec
Msdp == INSTANCE MsdpCodec

ASSUME PayloadsAssumption ==
    /\ \A reqs \in Requests : reqs \in Seq(request)
    /\ \A rsps \in Responses : rsps \in Seq(response)
    /\ \A ad \in Advertisements :
          ad.separator \in Byte /\ ad.charsets \in Seq(Seq(Byte \ {ad.separator}))
    /\ MaxDepth \in Nat
    /\ \A v \in Variables : v \in Msdp!Nested[MaxDepth] /\ v.name # <<>>

VARIABLES
    message,    \* what is sent, and by which option
    unread,     \* the part of the content that has not been parsed
    parser,     \* the parser of that option
    received    \* what the signals of the option have been emitted with

payloads_vars == <<message, unread, parser, received>>

send_request_variables(reqs) ==
    /\ message = [option |-> "request", of |-> reqs]
    /\ unread = request_content(reqs)
    /\ parser = request_parsing_state

send_responses(rsps) ==
    /\ message = [option |-> "response", of |-> rsps]
    /\ unread = response_content(is, rsps)
    /\ parser = parsing_state

\* A separator between the charsets; telnetpp does not ask for one around them.
advertise_charsets(ad) ==
    /\ message = [option |-> "charset", of |-> ad]
    /\ unread = <<Charset!request, ad.separator>> \o
          FlattenSeq([i \in DOMAIN ad.charsets |->
              IF i = 1 THEN ad.charsets[i] ELSE <<ad.separator>> \o ad.charsets[i]])
    /\ parser = <<>>

send_variable(v) ==
    /\ message = [option |-> "msdp", of |-> v]
    /\ unread = Msdp!encode_variable(v)
    /\ parser = Msdp!new_parser

PayloadsInit ==
    /\ received = <<>>
    /\ \/ \E reqs \in Requests : send_request_variables(reqs)
       \/ \E rsps \in Responses : send_responses(rsps)
       \/ \E ad \in Advertisements : advertise_charsets(ad)
       \/ \E v \in Variables : send_variable(v)

-------------------------------------------------------------------------------
ongoing(option) == message.option = option /\ received = <<>>

next_byte(parsed) ==
    /\ unread # <<>>
    /\ parser' = parsed
    /\ unread' = Tail(unread)
    /\ UNCHANGED <<message, received>>

\* "received" is a sequence of one: the parser is done.
emit(output) ==
    /\ received' = <<output>>
    /\ unread' = <<>>
    /\ UNCHANGED <<message, parser>>

read_requests ==
    /\ ongoing("request")
    /\ \/ next_byte(parse_request_byte(parser, Head(unread)))
       \/ unread = <<>> /\ emit(parse_request_end(parser).out)

read_responses ==
    /\ ongoing("response")
    /\ \/ next_byte(parse_byte(parser, Head(unread)))
       \/ unread = <<>> /\ emit(parse_end(parser).out)

handle_charsets ==
    /\ ongoing("charset")
    /\ emit(Charset!advertised_charsets(unread))

decode ==
    /\ ongoing("msdp")
    /\ \/ next_byte(Msdp!parse(parser, Head(unread)))
       \/ unread = <<>> /\ emit(Msdp!finish(parser).out)

PayloadsNext == read_requests \/ read_responses \/ handle_charsets \/ decode

PayloadsSpec == PayloadsInit /\ [][PayloadsNext]_payloads_vars

-------------------------------------------------------------------------------
(***************************************************************************)
(* Properties.                                                             *)
(***************************************************************************)
Arrived(option) == message.option = option /\ received # <<>>

\* A variable without a name at the end of the content is taken for the end.
Named(list) ==
    IF list # <<>> /\ Last(list).name = <<>> THEN Front(list) ELSE list

\* A NEW-ENVIRON server is asked for the variables that the client's program
\* asked for, each with its type and name, whatever bytes the names are made
\* of; only an empty name at the end is lost.
RequestsArrive == Arrived("request") => received = <<Named(message.of)>>

\* A NEW-ENVIRON client is told what the server wrote: an empty value and no
\* value stay apart, and no byte of a name or a value is taken for the end of
\* it.
ResponsesArrive == Arrived("response") => received = <<Named(message.of)>>

\* The CHARSET server offers its program the charsets that were advertised, in
\* their order, whichever byte separates them and however often.
CharsetsArrive ==
    Arrived("charset") => received = <<Only(message.of.charsets, Seq(Byte) \ {<<>>})>>

MsdpArrives == received = <<<<message.of>>>> /\ ~parser.undefined

\* MSDP has no escapes: bytes that mean nothing where they stand.
name_text == Seq(Byte \ {Msdp!val})
string_text ==
    Seq(Byte \ {Msdp!var, Msdp!table_open, Msdp!table_close, Msdp!array_open})
array_text == Seq(Byte \ {Msdp!val, Msdp!array_close})

\* Variables without an array or an empty table in them, ...
NoArrays[n \in 0..MaxDepth] ==
    {v \in Msdp!Nested[n] :
        /\ v.name \in name_text
        /\ \/ v.value_.kind = "string" /\ v.value_.items \in string_text
           \/ /\ v.value_.kind = "table" /\ v.value_.items # <<>>
              /\ v.value_.items \in Seq(Msdp!inner(NoArrays, n))}

\* ... and those that end with an array.
ArrayLast[n \in 0..MaxDepth] ==
    {v \in Msdp!Nested[n] :
        /\ v.name \in name_text
        /\ \/ v.value_.kind = "array" /\ v.value_.items \in Seq(array_text)
           \/ /\ v.value_.kind = "table" /\ v.value_.items # <<>>
              /\ Front(v.value_.items) \in Seq(Msdp!inner(NoArrays, n))
              /\ Last(v.value_.items) \in Msdp!inner(ArrayLast, n)}

\* The other end of MSDP receives the variable that was sent, however deep its
\* tables are nested, if none of them is empty and nothing comes after an
\* array: the decoder takes the bracket behind an array for that of the table
\* around it.
ArraysAtTheEndArrive ==
    (/\ Arrived("msdp")
     /\ message.of \in NoArrays[MaxDepth] \cup ArrayLast[MaxDepth]) => MsdpArrives

\* include/telnetpp/options/msdp/detail/encoder.hpp:8, "Encode a list of MSDP
\* variables into a sequence of bytes", and decoder.hpp:10, "Decode a byte
\* stream into a list of MSDP variables": what one writes the other reads.
VariablesArrive == Arrived("msdp") => MsdpArrives
===============================================================================
