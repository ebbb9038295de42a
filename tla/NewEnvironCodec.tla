---------------------------- MODULE NewEnvironCodec ----------------------------
(***************************************************************************)
(* The content of NEW-ENVIRON subnegotiations: what server and client      *)
(* write (append_variable, append_escaped), and the two parsers, one for   *)
(* the requests a server reads and one for the responses a client reads.   *)
(* A byte is its number.  An optional value is a sequence of at most one.  *)
(***************************************************************************)
EXTENDS Naturals, SequencesExt, Wires

\* new_environ/detail/protocol.hpp: one number means two things, depending on
\* where it stands.
is == 0
send == 1
info == 2

var == 0
value == 1
esc == 2
uservar == 3

variable_type == {"var", "uservar"}

Byte == 0..255

\* What requests and responses are, to the programs.
request == [type : variable_type, name : Seq(Byte)]
response ==
    {rsp \in [type : variable_type, name : Seq(Byte), value : Seq(Seq(Byte))] : Len(rsp.value) <= 1}

type_to_byte(type) == IF type = "var" THEN var ELSE uservar
byte_to_type(by) == IF by = var THEN "var" ELSE "uservar"

-------------------------------------------------------------------------------
(***************************************************************************)
(* Writing.                                                                *)
(***************************************************************************)
append_escaped(content) == FlattenSeq([i \in DOMAIN content |->
    IF content[i] \in {var, value, esc, uservar}
    THEN <<esc, content[i]>> ELSE <<content[i]>>])

\* server::append_variable, with and without a value.
append_variable(rsp) ==
    <<type_to_byte(rsp.type)>> \o append_escaped(rsp.name)
        \o (IF rsp.value = <<>> THEN <<>> ELSE <<value>> \o append_escaped(rsp.value[1]))

response_content(command, rsps) ==
    <<command>> \o FlattenSeq([i \in DOMAIN rsps |-> append_variable(rsps[i])])

request_content(reqs) ==
    <<send>> \o FlattenSeq([i \in DOMAIN reqs |->
        <<type_to_byte(reqs[i].type)>> \o append_escaped(reqs[i].name)])

-------------------------------------------------------------------------------
(***************************************************************************)
(* The request parser.  "out" is what it has passed to its continuation.   *)
(***************************************************************************)
\* The type of a fresh request is not read before it is set.
fresh_request == [type |-> "var", name |-> <<>>]

request_parser == [state : {"send", "type", "name", "name_esc"}, req : request, out : Seq(request)]

request_parsing_state == [state |-> "send", req |-> fresh_request, out |-> <<>>]

\* Mutant: the name of the previous request is not cleared.
request_name_kept(p, by) ==
    CASE by = esc             -> [p EXCEPT !.state = "name_esc"]
      [] by \in {var, uservar} ->
            [p EXCEPT !.out = Append(@, p.req), !.req.type = byte_to_type(by)]
      [] OTHER                -> [p EXCEPT !.req.name = Append(@, by)]

parse_request_send(p, by) == [p EXCEPT !.state = "type"]

parse_request_type(p, by) ==
    [p EXCEPT !.req.type = byte_to_type(by), !.state = "name"]

parse_request_name(p, by) ==
    CASE by = esc             -> [p EXCEPT !.state = "name_esc"]
      [] by \in {var, uservar} ->
            [p EXCEPT !.out = Append(@, p.req),
                      !.req = [fresh_request EXCEPT !.type = byte_to_type(by)]]
      [] OTHER                -> [p EXCEPT !.req.name = Append(@, by)]

parse_request_name_esc(p, by) ==
    [p EXCEPT !.req.name = Append(@, by), !.state = "name"]

parse_request_byte(p, by) ==
    CASE p.state = "send"     -> parse_request_send(p, by)
      [] p.state = "type"     -> parse_request_type(p, by)
      [] p.state = "name"     -> parse_request_name(p, by)
      [] p.state = "name_esc" -> parse_request_name_esc(p, by)

parse_request_end(p) ==
    IF p.req.name = <<>> THEN p ELSE [p EXCEPT !.out = Append(@, p.req)]

request_step == [z \in request_parser \X Byte |-> parse_request_byte(z[1], z[2])]

for_each_request(data) ==
    parse_request_end(Folded(request_step, request_parsing_state, data)).out

-------------------------------------------------------------------------------
(***************************************************************************)
(* The response parser.                                                    *)
(***************************************************************************)
fresh_response == [type |-> "var", name |-> <<>>, value |-> <<>>]

\* A value that is being read is there to be added to.
response_parser ==
    {p \in [state : {"is_or_info", "type", "name", "name_esc", "value", "value_esc"},
            rsp : response, out : Seq(response)] :
        p.state \in {"value", "value_esc"} => Len(p.rsp.value) = 1}

parsing_state == [state |-> "is_or_info", rsp |-> fresh_response, out |-> <<>>]

parse_is_or_info(p, by) == [p EXCEPT !.state = "type"]

parse_type(p, by) == [p EXCEPT !.rsp.type = byte_to_type(by), !.state = "name"]

\* VAR or USERVAR: this response is complete, the next begins.
next_response(p, by) ==
    [p EXCEPT !.out = Append(@, p.rsp),
              !.rsp = [fresh_response EXCEPT !.type = byte_to_type(by)],
              !.state = "name"]

parse_name(p, by) ==
    CASE by \in {var, uservar} -> next_response(p, by)
      [] by = esc             -> [p EXCEPT !.state = "name_esc"]
      [] by = value           -> [p EXCEPT !.rsp.value = <<<<>>>>, !.state = "value"]
      [] OTHER                -> [p EXCEPT !.rsp.name = Append(@, by)]

parse_name_esc(p, by) == [p EXCEPT !.rsp.name = Append(@, by), !.state = "name"]

parse_value(p, by) ==
    CASE by \in {var, uservar} -> next_response(p, by)
      [] by = esc             -> [p EXCEPT !.state = "value_esc"]
      [] OTHER                -> [p EXCEPT !.rsp.value[1] = Append(@, by)]

\* Mutant: the parser goes back to the name after an escape in a value.
value_esc_to_name(p, by) == [p EXCEPT !.rsp.value[1] = Append(@, by), !.state = "name"]

parse_value_esc(p, by) == [p EXCEPT !.rsp.value[1] = Append(@, by), !.state = "value"]

parse_byte(p, by) ==
    CASE p.state = "is_or_info" -> parse_is_or_info(p, by)
      [] p.state = "type"       -> parse_type(p, by)
      [] p.state = "name"       -> parse_name(p, by)
      [] p.state = "name_esc"   -> parse_name_esc(p, by)
      [] p.state = "value"      -> parse_value(p, by)
      [] p.state = "value_esc"  -> parse_value_esc(p, by)

parse_end(p) ==
    IF p.rsp.name = <<>> THEN p ELSE [p EXCEPT !.out = Append(@, p.rsp)]

response_step == [z \in response_parser \X Byte |-> parse_byte(z[1], z[2])]

for_each_response(data) ==
    parse_end(Folded(response_step, parsing_state, data)).out
===============================================================================
