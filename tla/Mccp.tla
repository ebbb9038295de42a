---------------------------------- MODULE Mccp ----------------------------------
(***************************************************************************)
(* The compression option (src/options/mccp): what the option pair of      *)
(* OptionPair does to the two codecs it controls.  The server owns the     *)
(* compressor of everything its program writes, the client the             *)
(* decompressor of everything its program reads, and each is switched on   *)
(* and off by calls of the program, by subnegotiations, by on_state_changed*)
(* handlers and by the compressed stream itself.  All of it travels on one *)
(* connection, in order; the question is whether the decompressor is       *)
(* always in the mode in which the text that reaches it was written.       *)
(*                                                                         *)
(* The codecs are connected as test/mccp_server_test.cpp does: the program *)
(* passes its text through the codec and the codec's output to             *)
(* session::write, so that negotiations and subnegotiations go             *)
(* uncompressed; the reader passes the text its session gives it through   *)
(* its codec.                                                              *)
(***************************************************************************)
EXTENDS Wires

CONSTANT MaxWire    \* bound: no text or subnegotiation is added to a longer wire

ASSUME MccpAssumption == MaxWire \in Nat

Ends == {"server", "client"}
Other(e) == IF e = "server" THEN "client" ELSE "server"

local_positive(e)  == IF e = "server" THEN "will" ELSE "do"
local_negative(e)  == IF e = "server" THEN "wont" ELSE "dont"
remote_positive(e) == local_positive(Other(e))
remote_negative(e) == local_negative(Other(e))

negotiation_type == {"will", "wont", "do", "dont"}
internal_state == {"inactive", "activating", "active", "deactivating"}

\* What a piece of text is to zlib: not compressed at all; the beginning, a
\* further part or the end of a stream; or a stream that ends where it begins.
Compressed == {"begin", "more", "end", "empty"}
Text == {"plain"} \cup Compressed

VARIABLES
    state_,             \* option::state_ at each end
    wire,               \* wire[e]: what the other end has written and e has not read
    compression_active_,\* server::compression_active_
    compressor,         \* the server's codec: engaged_, and the state of its stream_
    decompressor        \* the client's

codecs == <<compression_active_, compressor, decompressor>>
vars == <<state_, wire, compression_active_, compressor, decompressor>>

\* codec::engaged_; stream_ absent ("none"), in use, or after Z_DATA_ERROR.
codec == [engaged_ : BOOLEAN, stream_ : {"none", "open", "corrupted"}]
Idle == [engaged_ |-> FALSE, stream_ |-> "none"]

Init ==
    /\ state_ = [e \in Ends |-> "inactive"]
    /\ wire = [e \in Ends |-> <<>>]
    /\ compression_active_ = FALSE
    /\ compressor = Idle
    /\ decompressor = Idle

active(e) == state_[e] = "active"
requesting(e) == state_[e] \in {"activating", "deactivating"}

-------------------------------------------------------------------------------
(***************************************************************************)
(* The codecs.                                                             *)
(***************************************************************************)
\* codec::start; do_start does nothing, so a stream in use goes on.
start(c) == [c EXCEPT !.engaged_ = TRUE]

\* What compressor::do_finish writes: the end of the stream, of a new one if
\* nothing has been compressed yet.
finish_output(c) == IF c.stream_ = "none" THEN "empty" ELSE "end"

\* codec::operator() over compressor::transform_chunk: the text that comes out,
\* and the codec afterwards.
compress_output(c) ==
    IF ~c.engaged_ THEN "plain" ELSE IF c.stream_ = "none" THEN "begin" ELSE "more"
compress(c) == IF c.engaged_ THEN [c EXCEPT !.stream_ = "open"] ELSE c

\* Does the codec make of the text what it was before it was compressed?
understands(c, text) ==
    \/ ~c.engaged_ /\ text = "plain"
    \/ c.engaged_ /\ c.stream_ = "none" /\ text \in {"begin", "empty"}
    \/ c.engaged_ /\ c.stream_ = "open" /\ text \in {"more", "end"}

\* codec::operator() over decompressor::transform_chunk, which ends with the
\* stream and throws corrupted_stream_error at anything but the stream.
decompress(c, text) ==
    CASE ~c.engaged_ -> c
      [] c.engaged_ /\ ~understands(c, text) -> [c EXCEPT !.stream_ = "corrupted"]
      [] OTHER -> IF text \in {"end", "empty"} THEN Idle ELSE [c EXCEPT !.stream_ = "open"]

-------------------------------------------------------------------------------
become(e, s) == state_' = [state_ EXCEPT ![e] = s]

\* session::write, of several elements.
write(e, elems) == wire' = [wire EXCEPT ![Other(e)] = @ \o elems]

read(e) == wire' = [wire EXCEPT ![e] = Tail(@)]

read_and_write(e, elems) ==
    wire' = [wire EXCEPT ![e] = Tail(@), ![Other(e)] = @ \o elems]

\* The handlers that the constructors connect to on_state_changed, called when
\* the state has become s: what they write, and what becomes of the codecs.
handler_writes(e) ==
    IF e = "server" /\ compression_active_ THEN <<finish_output(compressor)>> ELSE <<>>

\* Mutant: a server that takes the end of its option for the end of compression.
careless_handler(e, s) ==
    IF e = "server"
    THEN UNCHANGED codecs
    ELSE /\ decompressor' = IF s = "active" THEN decompressor ELSE Idle
         /\ UNCHANGED <<compression_active_, compressor>>

on_state_changed(e, s) ==
    IF e = "server"
    THEN /\ compression_active_' = FALSE
         /\ compressor' = IF compression_active_ THEN Idle ELSE compressor
         /\ UNCHANGED decompressor
    ELSE /\ decompressor' = IF s = "active" THEN decompressor ELSE Idle
         /\ UNCHANGED <<compression_active_, compressor>>

(***************************************************************************)
(* Mutants: none of them is part of Next.                                  *)
(***************************************************************************)
\* A server that forgets that it is not compressing any more.
forgetful_finish ==
    /\ active("server")
    /\ compression_active_
    /\ write("server", <<finish_output(compressor)>>)
    /\ compressor' = Idle
    /\ UNCHANGED <<state_, compression_active_, decompressor>>

\* A server that switches its codec off without ending the stream.
abrupt_finish ==
    /\ active("server")
    /\ compression_active_
    /\ compressor' = Idle
    /\ compression_active_' = FALSE
    /\ UNCHANGED <<state_, wire, decompressor>>

\* The active() test dropped.
unguarded_start ==
    /\ Len(wire["client"]) < MaxWire
    /\ write("server", <<"sub">>)
    /\ compressor' = start(compressor)
    /\ compression_active_' = TRUE
    /\ UNCHANGED <<state_, decompressor>>
-------------------------------------------------------------------------------
(***************************************************************************)
(* The calls of the programs.                                              *)
(***************************************************************************)
\* option::activate: on an active option it only emits on_state_changed.
activate(e) ==
    \/ /\ state_[e] = "inactive"
       /\ become(e, "activating")
       /\ write(e, <<local_positive(e)>>)
       /\ UNCHANGED codecs
    \/ /\ state_[e] = "active"
       /\ write(e, handler_writes(e))
       /\ on_state_changed(e, "active")
       /\ UNCHANGED state_

\* option::deactivate.
deactivate(e) ==
    \/ /\ state_[e] = "active"
       /\ become(e, "deactivating")
       /\ write(e, <<local_negative(e)>>)
       /\ UNCHANGED codecs
    \/ /\ state_[e] = "inactive"
       /\ write(e, handler_writes(e))
       /\ on_state_changed(e, "inactive")
       /\ UNCHANGED state_

\* server::start_compression; nothing happens unless the option is active.
start_compression ==
    /\ active("server")
    /\ Len(wire["client"]) < MaxWire
    /\ write("server", <<"sub">>)
    /\ compressor' = start(compressor)
    /\ compression_active_' = TRUE
    /\ UNCHANGED <<state_, decompressor>>

\* server::finish_compression.
finish_compression ==
    /\ active("server")
    /\ compression_active_
    /\ write("server", <<finish_output(compressor)>>)
    /\ compressor' = Idle
    /\ compression_active_' = FALSE
    /\ UNCHANGED <<state_, decompressor>>

\* The server's program writes a piece of text.
write_text ==
    /\ Len(wire["client"]) < MaxWire
    /\ write("server", <<compress_output(compressor)>>)
    /\ compressor' = compress(compressor)
    /\ UNCHANGED <<state_, compression_active_, decompressor>>

-------------------------------------------------------------------------------
(***************************************************************************)
(* What is read.                                                           *)
(***************************************************************************)
\* option::negotiate, to state s.  on_state_changed is emitted if that changes
\* the state; a positive answer is written before, a negative one after.
answer(e, verb) == IF requesting(e) THEN <<>> ELSE <<verb>>
signal_writes(e, s) == IF state_[e] = s THEN <<>> ELSE handler_writes(e)

negotiate_to(e, s, elems) ==
    /\ become(e, s)
    /\ read_and_write(e, elems)
    /\ IF state_[e] = s THEN UNCHANGED codecs ELSE on_state_changed(e, s)

negotiate(e) ==
    /\ wire[e] # <<>>
    /\ \/ /\ Head(wire[e]) = remote_positive(e)
          /\ negotiate_to(e, "active",
                 answer(e, local_positive(e)) \o signal_writes(e, "active"))
       \/ /\ Head(wire[e]) = remote_negative(e)
          /\ negotiate_to(e, "inactive",
                 signal_writes(e, "inactive") \o answer(e, local_negative(e)))

\* option::subnegotiate and client::handle_subnegotiation.
subnegotiate ==
    /\ wire["client"] # <<>>
    /\ Head(wire["client"]) = "sub"
    /\ decompressor' = IF active("client") THEN start(decompressor) ELSE decompressor
    /\ read("client")
    /\ UNCHANGED <<state_, compression_active_, compressor>>

\* The client's program reads a piece of text.
read_text ==
    /\ wire["client"] # <<>>
    /\ Head(wire["client"]) \in Text
    /\ decompressor' = decompress(decompressor, Head(wire["client"]))
    /\ read("client")
    /\ UNCHANGED <<state_, compression_active_, compressor>>

Next ==
    \/ \E e \in Ends : activate(e) \/ deactivate(e) \/ negotiate(e)
    \/ start_compression \/ finish_compression \/ write_text
    \/ subnegotiate \/ read_text

Spec == Init /\ [][Next]_vars

-------------------------------------------------------------------------------
(***************************************************************************)
(* Properties.                                                             *)
(***************************************************************************)

\* The variables keep their types; compression_active_ is what the server
\* believes of its codec, and an option that is not on compresses nothing.
TypeOK ==
    /\ state_ \in [Ends -> internal_state]
    /\ wire \in [Ends -> Seq(negotiation_type \cup {"sub"} \cup Text)]
    /\ compressor \in codec
    /\ decompressor \in codec
    /\ compression_active_ = compressor.engaged_
    /\ compression_active_ => state_["server"] \in {"active", "deactivating"}

\* A text that is next to be read by the client's program.
Arriving == wire["client"] # <<>> /\ Head(wire["client"]) \in Text

\* While the client's option is active its program reads what the server's
\* program wrote: no text reaches the decompressor in a mode it was not
\* written in, whatever was started, finished, withdrawn and offered again
\* since.
ActiveClientUnderstands ==
    (Arriving /\ active("client")) => understands(decompressor, Head(wire["client"]))

\* Between these two ends the decompressor is never given anything but its
\* stream, and corrupted_stream_error is never thrown, while the option is
\* being deactivated included.
NeverCorrupted == decompressor.stream_ # "corrupted"

\* When all that was written has been read the two codecs are in the same
\* mode, at the same place of the same stream.
CodecsAgree ==
    (\A e \in Ends : wire[e] = <<>>) => compressor = decompressor

\* Text and handlers make no difference to the negotiation: this is still the
\* option pair, and all that OptionPair proves of it holds here.
Negotiating(e) == Only(wire[e], negotiation_type \cup {"sub"})

Pair == INSTANCE OptionPair WITH
    wire <- [e \in Ends |-> Negotiating(e)], Unchecked <- {}

ImplementsOptionPair == Pair!Spec
===============================================================================
