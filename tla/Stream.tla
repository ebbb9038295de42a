--------------------------------- MODULE Stream ---------------------------------
(***************************************************************************)
(* One direction of a connection, as bytes: session::write generates the   *)
(* bytes of an element (include/telnetpp/generator.hpp), the channel hands *)
(* them over in chunks of any size, and the parser of the reading session  *)
(* (include/telnetpp/parser.hpp) turns each chunk into elements again.     *)
(* That the elements come out as they went in, in the same order and       *)
(* whatever the chunks, is what the wires of Session and OptionPair take   *)
(* for granted.                                                            *)
(*                                                                         *)
(* A byte is represented by its name.  Text and the content of             *)
(* subnegotiations may hold any byte, and an option code may be any byte.  *)
(***************************************************************************)
EXTENDS Naturals, SequencesExt

CONSTANTS
    Bytes,      \* the bytes that occur
    Writes,     \* the elements that a telnetpp session may write
    MaxWire,    \* bound on the bytes in the channel when an element is written
    MaxForeign, \* bound on the bytes in the channel from another program
    MaxContent  \* bound on the content another program subnegotiates

negotiation_type == {"will", "wont", "do", "dont"}

\* Elements.
text(bytes) == [kind |-> "text", bytes |-> bytes]
command(value) == [kind |-> "command", value |-> value]
negotiation(request, code) == [kind |-> "negotiation", request |-> request, code |-> code]
subnegotiation(option, content) ==
    [kind |-> "subnegotiation", option |-> option, content |-> content]

Element ==
    [kind : {"text"}, bytes : Seq(Bytes)]
    \cup [kind : {"command"}, value : Bytes]
    \cup [kind : {"negotiation"}, request : negotiation_type, code : Bytes]
    \cup [kind : {"subnegotiation"}, option : Bytes, content : Seq(Bytes)]

\* What may be written: anything, except that a negotiation verb, SB or IAC is
\* no command.
ASSUME StreamAssumption ==
    /\ {"iac", "sb", "se", "will"} \subseteq Bytes
    /\ Writes \subseteq Element
    /\ \A elem \in Writes :
          /\ elem.kind = "command" => elem.value \notin negotiation_type \cup {"iac", "sb"}
          /\ elem.kind = "negotiation" => elem.request \in Bytes
    /\ MaxWire \in Nat /\ MaxForeign \in Nat /\ MaxContent \in Nat

VARIABLES
    foreign,    \* is the writer another program, which may send any bytes?
    parser,     \* the parser's members
    wire,       \* bytes written and not yet read
    expected,   \* the items written and not yet emitted by the parser
    bytewise    \* a parser that reads what another program writes at once

vars == <<foreign, parser, wire, expected, bytewise>>

parsing_state ==
    {"idle", "iac", "negotiation", "subnegotiation", "content", "content_iac"}

\* A new parser.  Its last two members are uninitialized until state
\* negotiation or content is entered, and not read before.
new_parser == [state |-> "idle", plain_data |-> <<>>, content |-> <<>>,
               type |-> "will", option |-> "iac", out |-> <<>>]

\* "out" is what a call of the parser has passed to its continuation; when the
\* call returns nothing remembers it.
returned(p) == [p EXCEPT !.out = <<>>]

\* An element, as the reader's callbacks can tell: text arrives in pieces, so
\* only its bytes count.
Texts(bytes) == [j \in DOMAIN bytes |-> text(<<bytes[j]>>)]
ItemsOf(elem) == IF elem.kind = "text" THEN Texts(elem.bytes) ELSE <<elem>>
Items(elems) == FlattenSeq([i \in DOMAIN elems |-> ItemsOf(elems[i])])

Init ==
    /\ foreign \in BOOLEAN
    /\ parser = new_parser
    /\ wire = <<>>
    /\ expected = <<>>
    /\ bytewise = new_parser

-------------------------------------------------------------------------------
(***************************************************************************)
(* Generating.                                                             *)
(***************************************************************************)
generate_escaped(bytes) ==
    LET escaped(by) == IF by = "iac" THEN <<"iac", "iac">> ELSE <<by>>
    IN FlattenSeq([i \in DOMAIN bytes |-> escaped(bytes[i])])

generate_command(cmd) == <<"iac", cmd.value>>

generate_negotiation(neg) == <<"iac", neg.request, neg.code>>

generate_subnegotiation(sub) ==
    <<"iac", "sb", sub.option>> \o generate_escaped(sub.content) \o <<"iac", "se">>

generate(elem) ==
    CASE elem.kind = "text"           -> generate_escaped(elem.bytes)
      [] elem.kind = "command"        -> generate_command(elem)
      [] elem.kind = "negotiation"    -> generate_negotiation(elem)
      [] elem.kind = "subnegotiation" -> generate_subnegotiation(elem)

-------------------------------------------------------------------------------
(***************************************************************************)
(* Parsing: p is the parser, by the next byte.                             *)
(***************************************************************************)
emit(p, elem) == [p EXCEPT !.out = Append(@, elem)]

emit_plain_data(p) ==
    IF p.plain_data = <<>> THEN p
    ELSE [emit(p, text(p.plain_data)) EXCEPT !.plain_data = <<>>]

parse_idle(p, by) ==
    IF by = "iac" THEN [p EXCEPT !.state = "iac"]
    ELSE [p EXCEPT !.plain_data = Append(@, by)]

parse_iac(p, by) ==
    LET q == emit_plain_data(p) IN
    CASE by = "iac" -> [p EXCEPT !.plain_data = Append(@, by), !.state = "idle"]
      [] by \in negotiation_type -> [q EXCEPT !.type = by, !.state = "negotiation"]
      [] by = "sb" -> [q EXCEPT !.state = "subnegotiation"]
      [] OTHER -> [emit(q, command(by)) EXCEPT !.state = "idle"]

parse_negotiation(p, by) ==
    [emit(p, negotiation(p.type, by)) EXCEPT !.state = "idle"]

parse_subnegotiation(p, by) ==
    [p EXCEPT !.option = by, !.content = <<>>, !.state = "content"]

parse_subnegotiation_content(p, by) ==
    IF by = "iac" THEN [p EXCEPT !.state = "content_iac"]
    ELSE [p EXCEPT !.content = Append(@, by)]

parse_subnegotiation_content_iac(p, by) ==
    IF by = "se"
    THEN [emit(p, subnegotiation(p.option, p.content)) EXCEPT !.state = "idle"]
    ELSE [p EXCEPT !.content = Append(@, by), !.state = "content"]

parse_byte(p, by) ==
    CASE p.state = "idle"           -> parse_idle(p, by)
      [] p.state = "iac"            -> parse_iac(p, by)
      [] p.state = "negotiation"    -> parse_negotiation(p, by)
      [] p.state = "subnegotiation" -> parse_subnegotiation(p, by)
      [] p.state = "content"        -> parse_subnegotiation_content(p, by)
      [] p.state = "content_iac"    -> parse_subnegotiation_content_iac(p, by)

\* The parser when it has been fed these bytes, one by one.
fed(p, data) ==
    LET after[i \in 0..Len(data)] ==
            IF i = 0 THEN p ELSE parse_byte(after[i - 1], data[i])
    IN after[Len(data)]

\* mutants: the text at the end of a chunk is kept for the next; every chunk
\* is taken to start outside any sequence
parse_keeping(p, data) == fed(p, data)
parse_afresh(p, data) == emit_plain_data(fed([p EXCEPT !.state = "idle"], data))

\* parser::operator(): the whole chunk, and then the text at its end.
parse(p, data) == emit_plain_data(fed(p, data))

-------------------------------------------------------------------------------
\* session::write, all the bytes of the element one behind the other.
write(elem) ==
    /\ ~foreign
    /\ Len(wire) <= MaxWire
    /\ wire' = wire \o generate(elem)
    /\ expected' = expected \o Items(<<elem>>)
    /\ UNCHANGED <<foreign, parser, bytewise>>

\* Another program's byte means what a parser that gets it alone makes of it.
room(p, by) ==
    \/ p.state \notin {"content", "content_iac"}
    \/ Len(p.content) < MaxContent
    \/ by = IF p.state = "content" THEN "iac" ELSE "se"

foreign_write(by) ==
    /\ foreign
    /\ Len(wire) < MaxForeign
    /\ room(bytewise, by)
    /\ wire' = Append(wire, by)
    /\ LET p == parse(bytewise, <<by>>)
       IN bytewise' = returned(p) /\ expected' = expected \o Items(p.out)
    /\ UNCHANGED <<foreign, parser>>

\* session::async_read: the channel has n bytes for the parser.
async_read(n) ==
    /\ LET p == parse(parser, SubSeq(wire, 1, n))
       IN /\ parser' = returned(p)
          /\ expected' = SubSeq(expected, Len(Items(p.out)) + 1, Len(expected))
    /\ wire' = SubSeq(wire, n + 1, Len(wire))
    /\ UNCHANGED <<foreign, bytewise>>

Next ==
    \/ \E elem \in Writes : write(elem)
    \/ \E by \in Bytes : foreign_write(by)
    \/ \E n \in 1..Len(wire) : async_read(n)

Spec == Init /\ [][Next]_vars

-------------------------------------------------------------------------------
(***************************************************************************)
(* Properties.                                                             *)
(***************************************************************************)

\* A parser; it has text at hand only outside of commands and negotiations.
Parser ==
    {p \in [state : parsing_state, plain_data : Seq(Bytes), content : Seq(Bytes),
            type : negotiation_type, option : Bytes, out : Seq(Element)] :
        p.state \in {"idle", "iac"} \/ p.plain_data = <<>>}

\* What a parser remembers of what it has read, text aside.
Fresh(p) == [p EXCEPT !.plain_data = <<>>, !.out = <<>>]

\* The variables keep their types, and a parser keeps no text from one chunk
\* to the next.
TypeOK ==
    /\ foreign \in BOOLEAN
    /\ \A p \in {parser, bytewise} : p \in Parser /\ p = Fresh(p)
    /\ wire \in Seq(Bytes)

\* Whatever the chunks, and wherever they cut a sequence in two, the parser
\* emits what was written and in the order it was written: nothing is lost,
\* invented, torn, or overtaken.
InOrder == [][
    LET n == Len(wire) - Len(wire')
    IN n > 0 => IsPrefix(Items(parse(parser, SubSeq(wire, 1, n)).out), expected)]_vars

\* Nothing is held back: when the channel is empty the reader has everything
\* that was written, text at the end of a chunk included.
Prompt == wire = <<>> => expected = <<>>
===============================================================================
