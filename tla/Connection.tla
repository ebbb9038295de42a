------------------------------- MODULE Connection -------------------------------
(***************************************************************************)
(* A program built on the library: the server of examples/rot13server, one *)
(* of its connections, and the terminal at the other end.  The server asks *)
(* for ECHO, SUPPRESS-GA, NAWS and TERMINAL-TYPE as it accepts the         *)
(* connection, prints the size and the type of the terminal, and sends     *)
(* back whatever is typed, in rot13, until the connection dies.            *)
(*                                                                         *)
(* The server runs on one thread.  A read it has asked for may deliver any *)
(* number of elements; while its handlers run the terminal goes on, and    *)
(* the connection may break.  The terminal is a telnetpp program with      *)
(* naws::server and a server of TERMINAL-TYPE, which telnetpp lacks.       *)
(* Elements arrive whole and in order (Stream).                            *)
(***************************************************************************)
EXTENDS Wires

CONSTANTS
    TerminalCalls,  \* the options that the terminal's program turns on and off
    Keys,           \* the bytes that may be typed
    Sizes,          \* the sizes the terminal's window may have
    MaxWire         \* bound: the terminal's program calls nothing while as
                    \* many elements as this are on their way

Byte == 0..255
window_dimension == 0..(256 * 256 - 1)

Options == {"echo", "suppress_ga", "naws", "terminal_type"}
Ends == {"server", "terminal"}

ASSUME ConnectionAssumption ==
    /\ TerminalCalls \subseteq Options
    /\ Keys \subseteq Byte
    /\ Sizes \subseteq window_dimension \X window_dimension
    /\ MaxWire \in Nat

Other(e) == IF e = "server" THEN "terminal" ELSE "server"

\* Which end has the server_option: rot13's for the first two, the terminal's
\* for the others.
server_option(e, o) == (e = "server") = (o \in {"echo", "suppress_ga"})

local_positive(e, o)  == IF server_option(e, o) THEN "will" ELSE "do"
local_negative(e, o)  == IF server_option(e, o) THEN "wont" ELSE "dont"
remote_positive(e, o) == local_positive(Other(e), o)

internal_state == {"inactive", "activating", "active", "deactivating"}

\* Elements.
text(by) == [kind |-> "text", of |-> by]
negotiation(verb, o) == [kind |-> "negotiation", of |-> o, verb |-> verb]
subnegotiation(o, content) == [kind |-> "subnegotiation", of |-> o, content |-> content]

\* terminal_type/detail/protocol.hpp, and the terminal's answer.
is == 0
send == 1
request_content == <<send>>
terminal_answer == <<is, 120>>

VARIABLES
    state_,         \* option::state_, by end and option
    wire,           \* the elements each end has yet to read
    alive,          \* the socket's is_alive()
    connections_,   \* this one is not yet accepted, "serving" or "removed"
    reading,        \* the server's read: "no", "outstanding" or "handling"
    left,           \* elements of the read at hand that are still to be handled
    window_size_,   \* the terminal's naws::server::window_size_, if any
    announced,      \* what the server's listener was last told of it
    terminal_type_requests_,    \* listeners that wait for the terminal type
    unechoed        \* history: bytes typed, and not yet read back

options == <<state_, wire>>
socket == <<alive, connections_, reading, left>>
listeners == <<window_size_, announced, terminal_type_requests_>>
vars == <<state_, wire, alive, connections_, reading, left,
          window_size_, announced, terminal_type_requests_, unechoed>>

Init ==
    /\ state_ = [e \in Ends |-> [o \in Options |-> "inactive"]]
    /\ wire = [e \in Ends |-> <<>>]
    /\ alive = TRUE
    /\ connections_ = "none"
    /\ reading = "no"
    /\ left = 0
    /\ window_size_ = <<>>
    /\ announced = <<>>
    /\ terminal_type_requests_ = 0
    /\ unechoed = <<>>

active(e, o) == state_[e][o] = "active"
requesting(e, o) == state_[e][o] \in {"activating", "deactivating"}

-------------------------------------------------------------------------------
become(e, o, s) == state_' = [state_ EXCEPT ![e][o] = s]

\* What is written to a dead socket goes nowhere.
sent(elems) == IF alive THEN elems ELSE <<>>
write(e, elems) == wire' = [wire EXCEPT ![Other(e)] = @ \o sent(elems)]

\* An end has read one element, and written others meanwhile.
read_and_write(e, elems) ==
    wire' = [wire EXCEPT ![e] = Tail(@), ![Other(e)] = @ \o sent(elems)]

\* naws::server::report_window_size: the dimensions, high byte first.
report_window_size(size) ==
    IF size = <<>> THEN <<>>
    ELSE <<subnegotiation("naws",
             <<size[1] \div 256, size[1] % 256, size[2] \div 256, size[2] % 256>>)>>

\* Mutants: the size is reported only when it is set; the terminal type is
\* requested in the constructor, and never again.
never_reports(e, o, s) ==
    IF e = "server" /\ o = "terminal_type" /\ s = "active"
    THEN <<subnegotiation(o, request_content)>> ELSE <<>>
never_asks(e, o, s) ==
    IF e = "terminal" /\ o = "naws" /\ s = "active"
    THEN report_window_size(window_size_) ELSE <<>>

\* What the handlers connected to on_state_changed write as an option comes to
\* be in state s.
on_state_changed(e, o, s) ==
    IF s # "active" THEN <<>>
    ELSE CASE e = "server" /\ o = "terminal_type" -> <<subnegotiation(o, request_content)>>
           [] e = "terminal" /\ o = "naws" -> report_window_size(window_size_)
           [] OTHER -> <<>>

\* option::negotiate: the state afterwards, and what is written; a positive
\* answer before the handlers, a negative one behind them.
negotiated(e, elem) ==
    IF elem.verb = remote_positive(e, elem.of) THEN "active" ELSE "inactive"

replies(e, elem) ==
    LET o == elem.of
        s == negotiated(e, elem)
        answer(verb) == IF requesting(e, o) THEN <<>> ELSE <<negotiation(verb, o)>>
        signal == IF state_[e][o] = s THEN <<>> ELSE on_state_changed(e, o, s)
    IN IF s = "active" THEN answer(local_positive(e, o)) \o signal
       ELSE signal \o answer(local_negative(e, o))

negotiate(e, elem) ==
    /\ elem.kind = "negotiation"
    /\ become(e, elem.of, negotiated(e, elem))
    /\ read_and_write(e, replies(e, elem))

-------------------------------------------------------------------------------
(***************************************************************************)
(* The terminal.                                                           *)
(***************************************************************************)
calls == alive /\ Len(wire["server"]) + Len(wire["terminal"]) < MaxWire

\* option::activate and deactivate; a call that changes nothing still emits
\* on_state_changed.
activate(o) ==
    /\ calls
    /\ \/ /\ state_["terminal"][o] = "inactive"
          /\ become("terminal", o, "activating")
          /\ write("terminal", <<negotiation(local_positive("terminal", o), o)>>)
       \/ /\ active("terminal", o)
          /\ write("terminal", on_state_changed("terminal", o, "active"))
          /\ UNCHANGED state_
    /\ UNCHANGED <<socket, listeners, unechoed>>

deactivate(o) ==
    /\ calls
    /\ active("terminal", o)
    /\ become("terminal", o, "deactivating")
    /\ write("terminal", <<negotiation(local_negative("terminal", o), o)>>)
    /\ UNCHANGED <<socket, listeners, unechoed>>

\* naws::server::set_window_size
set_window_size(size) ==
    /\ calls
    /\ window_size_' = size
    /\ write("terminal", IF active("terminal", "naws") THEN report_window_size(size) ELSE <<>>)
    /\ UNCHANGED <<state_, socket, announced, terminal_type_requests_, unechoed>>

type_key(by) ==
    /\ calls
    /\ write("terminal", <<text(by)>>)
    /\ unechoed' = Append(unechoed, by)
    /\ UNCHANGED <<state_, socket, listeners>>

\* The terminal's session reads an element; its TERMINAL-TYPE server answers
\* SEND with IS.
terminal_reads ==
    /\ alive
    /\ wire["terminal"] # <<>>
    /\ LET elem == Head(wire["terminal"]) IN
       \/ negotiate("terminal", elem) /\ UNCHANGED unechoed
       \/ /\ elem.kind = "subnegotiation"
          /\ read_and_write("terminal",
                 IF active("terminal", elem.of)
                 THEN <<subnegotiation(elem.of, terminal_answer)>> ELSE <<>>)
          /\ UNCHANGED <<state_, unechoed>>
       \/ /\ elem.kind = "text"
          /\ read_and_write("terminal", <<>>)
          /\ unechoed' = Tail(unechoed)
          /\ UNCHANGED state_
    /\ UNCHANGED <<socket, listeners>>

-------------------------------------------------------------------------------
(***************************************************************************)
(* The server.                                                             *)
(***************************************************************************)
\* Mutant: the last letter is left as it is.
rot13_short_of_z(by) ==
    CASE by \in 65..89  -> 65 + ((by - 65 + 13) % 26)
      [] by \in 97..121 -> 97 + ((by - 97 + 13) % 26)
      [] by = 0         -> 10
      [] OTHER          -> by

rot13_encode(by) ==
    CASE by \in 65..90  -> 65 + ((by - 65 + 13) % 26)
      [] by \in 97..122 -> 97 + ((by - 97 + 13) % 26)
      [] by = 0         -> 10
      [] OTHER          -> by

\* The constructor of connection: every option is activated.
connection ==
    LET activated == <<"echo", "suppress_ga", "naws", "terminal_type">> IN
    /\ state_' = [state_ EXCEPT !["server"] = [o \in Options |-> "activating"]]
    /\ write("server", [i \in DOMAIN activated |->
           negotiation(local_positive("server", activated[i]), activated[i])])

\* server::new_connection: a listener waits for the terminal type, and the
\* first read is scheduled.
new_connection ==
    /\ connections_ = "none"
    /\ alive
    /\ connection
    /\ connections_' = "serving"
    /\ reading' = "outstanding"
    /\ terminal_type_requests_' = 1
    /\ UNCHANGED <<alive, left, window_size_, announced, unechoed>>

\* The read that the server asked for ends with n elements; with none if the
\* socket died, and what was on the way is lost with it.
read_arrives(n) ==
    /\ reading = "outstanding"
    /\ reading' = "handling"
    /\ left' = n
    /\ IF n = 0 THEN ~alive /\ wire' = [wire EXCEPT !["server"] = <<>>]
       ELSE UNCHANGED wire
    /\ UNCHANGED <<state_, alive, connections_, listeners, unechoed>>

\* naws::client::handle_subnegotiation and on_window_size_changed.
window_size_read(content) ==
    IF Len(content) = 4
    THEN <<content[1] * 256 + content[2], content[3] * 256 + content[4]>>
    ELSE announced

\* terminal_type::client::handle_subnegotiation, on_terminal_type_detected and
\* announce_terminal_type.
announce_terminal_type(content) ==
    IF content # <<>> /\ Head(content) = is THEN 0 ELSE terminal_type_requests_

handle_subnegotiation(elem) ==
    /\ elem.kind = "subnegotiation"
    /\ read_and_write("server", <<>>)
    /\ announced' = IF elem.of = "naws" /\ active("server", "naws")
                    THEN window_size_read(elem.content) ELSE announced
    /\ terminal_type_requests_' =
          IF elem.of = "terminal_type" /\ active("server", "terminal_type")
          THEN announce_terminal_type(elem.content) ELSE terminal_type_requests_
    /\ UNCHANGED <<state_, window_size_>>

\* server::read_handler
read_handler(elem) ==
    /\ elem.kind = "text"
    /\ read_and_write("server", <<text(rot13_encode(elem.of))>>)
    /\ UNCHANGED <<state_, listeners>>

\* session::async_read, the next of the elements.
handle ==
    /\ reading = "handling"
    /\ left > 0
    /\ left' = left - 1
    /\ LET elem == Head(wire["server"]) IN
       \/ negotiate("server", elem) /\ UNCHANGED listeners
       \/ handle_subnegotiation(elem)
       \/ read_handler(elem)
    /\ UNCHANGED <<alive, connections_, reading, unechoed>>

connection_death_handler ==
    /\ reading' = "no"
    /\ connections_' = "removed"

\* Mutant: a connection that dies while its elements are handled is not removed.
checks_before_reading ==
    /\ reading = "handling"
    /\ left = 0
    /\ reading' = IF alive THEN "outstanding" ELSE "no"
    /\ UNCHANGED <<options, alive, left, connections_, listeners, unechoed>>

\* The callback of schedule_read at the end of a read.
read_complete ==
    /\ reading = "handling"
    /\ left = 0
    /\ IF alive
       THEN reading' = "outstanding" /\ UNCHANGED connections_
       ELSE connection_death_handler
    /\ UNCHANGED <<options, alive, left, listeners, unechoed>>

\* The peer hangs up, the network fails, or connection::close() is called.
close ==
    /\ alive
    /\ connections_ = "serving"
    /\ alive' = FALSE
    /\ UNCHANGED <<options, connections_, reading, left, listeners, unechoed>>

server_runs ==
    \/ \E n \in 0..Len(wire["server"]) : read_arrives(n)
    \/ handle
    \/ read_complete

Next ==
    \/ \E o \in TerminalCalls : activate(o) \/ deactivate(o)
    \/ \E size \in Sizes : set_window_size(size)
    \/ \E by \in Keys : type_key(by)
    \/ terminal_reads
    \/ new_connection
    \/ server_runs
    \/ close

Spec == Init /\ [][Next]_vars

\* io_context::run goes on, the network delivers, and the terminal reads.
FairSpec == Spec /\ WF_vars(server_runs) /\ WF_vars(terminal_reads)

-------------------------------------------------------------------------------
(***************************************************************************)
(* Properties.                                                             *)
(***************************************************************************)
typing == [kind : {"text"}, of : Byte]
element ==
    typing
    \cup [kind : {"negotiation"}, of : Options, verb : {"will", "wont", "do", "dont"}]
    \cup [kind : {"subnegotiation"}, of : Options, content : Seq(Byte)]

\* The variables keep their types, and a connection is in the server's list
\* exactly as long as it has one read under way.
TypeOK ==
    /\ state_ \in [Ends -> [Options -> internal_state]]
    /\ wire \in [Ends -> Seq(element)]
    /\ unechoed \in Seq(Byte)
    /\ alive \in BOOLEAN
    /\ left \in 0..Len(wire["server"])
    /\ \A size \in {window_size_, announced} \ {<<>>} :
          size \in window_dimension \X window_dimension
    /\ terminal_type_requests_ \in {0, 1}
    /\ connections_ \in {"none", "serving", "removed"}
    /\ reading \in {"no", "outstanding", "handling"}
    /\ (connections_ = "serving") <=> (reading # "no")

\* While NAWS is on and nothing is on its way to the server, its listener has
\* been told the size that the terminal's window has: also one that was set
\* before the option was on, while it was being turned off, or between.
SizeFollows ==
    (/\ alive
     /\ active("server", "naws") /\ active("terminal", "naws")
     /\ wire["server"] = <<>>
     /\ window_size_ # <<>>) => announced = window_size_

\* The other half of the alphabet.  A terminal sends NUL behind a carriage
\* return, and gets a line feed.
Rot13(by) ==
    CASE by \in (65..77) \cup (97..109)  -> by + 13
      [] by \in (78..90) \cup (110..122) -> by - 13
      [] by = 0                          -> 10
      [] OTHER                           -> by

Typed(elems) == Project(elems, [elem \in typing |-> elem.of])
Encoded(bytes) == [i \in DOMAIN bytes |-> Rot13(bytes[i])]

\* What is typed comes back in rot13, each byte once and in the order of
\* typing, whatever is negotiated in between and however the reads divide it:
\* as long as the connection is alive, what is on its way back and what is yet
\* to be encoded are together what the terminal waits for.
EchoInOrder ==
    alive => Typed(wire["terminal"]) \o Encoded(Typed(wire["server"])) = Encoded(unechoed)

\* The listener for the terminal type is not left waiting while both ends have
\* TERMINAL-TYPE, however often it was turned off and on before.
TypeAnnounced ==
    <>[](alive /\ active("server", "terminal_type") /\ active("terminal", "terminal_type"))
        => []<>(terminal_type_requests_ = 0)

\* A connection that has died is removed, whatever it was doing.
DeadConnectionsRemoved ==
    (connections_ = "serving" /\ ~alive) ~> (connections_ = "removed")
===============================================================================
