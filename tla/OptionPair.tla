------------------------------ MODULE OptionPair ------------------------------
(***************************************************************************)
(* One Telnet option negotiated between its two ends: a server_option on   *)
(* one machine, a client_option for the same option code on the other.     *)
(* Both are instances of the class template telnetpp::option               *)
(* (include/telnetpp/option.hpp); they differ only in the four negotiation *)
(* verbs the template is given.                                            *)
(*                                                                         *)
(* This is the negotiation when negotiate() is one atomic step: nothing is *)
(* connected to on_state_changed, so a received negotiation is handled and *)
(* answered before anything else runs at that end.  OptionCallbacks opens  *)
(* that step up and shows when it still implements this module; Session    *)
(* puts several options, with their routes, on one connection.             *)
(***************************************************************************)
EXTENDS Naturals, Sequences, FiniteSets

CONSTANTS
    Unchecked,  \* the ends whose option class writes subnegotiations without
                \* asking active() first (terminal_type::client, msdp, charset)
    MaxWire     \* bound: nothing is added to a wire longer than this by
                \* write_subnegotiation (negotiations are never refused)

Ends == {"server", "client"}

ASSUME PairAssumption == Unchecked \subseteq Ends /\ MaxWire \in Nat

Other(e) == IF e = "server" THEN "client" ELSE "server"

\* The verbs that client_option and server_option give the template.
local_positive(e)  == IF e = "server" THEN "will" ELSE "do"
dont_from_server(e) == IF e = "server" THEN "dont" ELSE "wont"       \* mutant
local_negative(e)  == IF e = "server" THEN "wont" ELSE "dont"
remote_positive(e) == IF e = "server" THEN "do" ELSE "will"
remote_negative(e) == IF e = "server" THEN "dont" ELSE "wont"

Verbs(e) == {remote_positive(e), remote_negative(e)}

negotiation_type == {"will", "wont", "do", "dont"}

internal_state == {"inactive", "activating", "active", "deactivating"}

VARIABLES
    state_,     \* option::state_ of the option at each end
    wire        \* wire[e]: what the other end has written and e has not read

vars == <<state_, wire>>

Init ==
    /\ state_ = [e \in Ends |-> "inactive"]
    /\ wire = [e \in Ends |-> <<>>]

active(e) == state_[e] = "active"

\* A request of this end is on its way and unanswered.
requesting(e) == state_[e] \in {"activating", "deactivating"}

-------------------------------------------------------------------------------
become(e, s) == state_' = [state_ EXCEPT ![e] = s]

\* session::write puts one element on the connection, behind all before it.
write(e, elem) == wire' = [wire EXCEPT ![Other(e)] = Append(@, elem)]

read(e) == wire' = [wire EXCEPT ![e] = Tail(@)]

read_and_write(e, elem) ==
    wire' = [wire EXCEPT ![e] = Tail(@), ![Other(e)] = Append(@, elem)]

(***************************************************************************)
(* Mutants: the handlers as a plausible slip would leave them.  None of    *)
(* them is part of Next; the properties are measured against them.         *)
(***************************************************************************)
\* activate() that only asks whether the option is active.
impatient_activate(e) ==
    /\ ~active(e)
    /\ become(e, "activating")
    /\ write(e, local_positive(e))

\* An active option that is told to stop, and stops without answering.
silent_negotiate(e) ==
    /\ wire[e] # <<>>
    /\ \/ /\ Head(wire[e]) = remote_positive(e)
          /\ become(e, "active")
          /\ \/ ~requesting(e) /\ read_and_write(e, local_positive(e))
             \/ requesting(e) /\ read(e)
       \/ Head(wire[e]) = remote_negative(e) /\ become(e, "inactive") /\ read(e)

\* Every verb is answered, even one that is itself an answer.
talkative_negotiate(e) ==
    /\ wire[e] # <<>>
    /\ \/ /\ Head(wire[e]) = remote_positive(e)
          /\ become(e, "active")
          /\ read_and_write(e, local_positive(e))
       \/ /\ Head(wire[e]) = remote_negative(e)
          /\ become(e, "inactive")
          /\ read_and_write(e, local_negative(e))

\* The active() test dropped.
unguarded_subnegotiation(e) ==
    /\ Len(wire[Other(e)]) < MaxWire
    /\ write(e, "sub")
    /\ UNCHANGED state_
-------------------------------------------------------------------------------
\* option::activate.  In the three other states it writes nothing and changes
\* nothing: the step is a stutter.
activate(e) ==
    /\ state_[e] = "inactive"
    /\ become(e, "activating")
    /\ write(e, local_positive(e))

\* option::deactivate.
deactivate(e) ==
    /\ state_[e] = "active"
    /\ become(e, "deactivating")
    /\ write(e, local_negative(e))

\* option::negotiate.  Whatever the state, the option ends up doing what the
\* verb says; it answers unless the verb is itself the answer to its request.
negotiate(e) ==
    /\ wire[e] # <<>>
    /\ \/ /\ Head(wire[e]) = remote_positive(e)
          /\ become(e, "active")
          /\ \/ ~requesting(e) /\ read_and_write(e, local_positive(e))
             \/ requesting(e) /\ read(e)
       \/ /\ Head(wire[e]) = remote_negative(e)
          /\ become(e, "inactive")
          /\ \/ ~requesting(e) /\ read_and_write(e, local_negative(e))
             \/ requesting(e) /\ read(e)

\* option::write_subnegotiation, behind the active() test that naws::server,
\* new_environ::server and mccp::server make and the Unchecked ends do not.
write_subnegotiation(e) ==
    /\ active(e) \/ e \in Unchecked
    /\ Len(wire[Other(e)]) < MaxWire
    /\ write(e, "sub")
    /\ UNCHANGED state_

\* option::subnegotiate: handed to handle_subnegotiation if active(), dropped
\* otherwise.  Neither touches the negotiation.
subnegotiate(e) ==
    /\ wire[e] # <<>>
    /\ Head(wire[e]) = "sub"
    /\ read(e)
    /\ UNCHANGED state_

Next ==
    \E e \in Ends :
        \/ activate(e)
        \/ deactivate(e)
        \/ write_subnegotiation(e)
        \/ negotiate(e)
        \/ subnegotiate(e)

Spec == Init /\ [][Next]_vars

\* The calls an application makes of its own accord.
AppCall == \E e \in Ends : activate(e) \/ deactivate(e) \/ write_subnegotiation(e)

\* What is written arrives, and the reader keeps asking for more.
FairSpec == Spec /\ \A e \in Ends : WF_vars(negotiate(e) \/ subnegotiate(e))

-------------------------------------------------------------------------------
(***************************************************************************)
(* Properties.                                                             *)
(***************************************************************************)

\* Every end is in one of the four states, and only the verbs its template
\* arguments name as remote, and subnegotiations, can be waiting for it.
TypeOK ==
    /\ state_ \in [Ends -> internal_state]
    /\ wire \in [Ends -> Seq(negotiation_type \cup {"sub"})]
    /\ \A e \in Ends : wire[e] \in Seq(Verbs(e) \cup {"sub"})

Negotiations(e) == {i \in DOMAIN wire[e] : wire[e][i] # "sub"}

Settled == \A e \in Ends : Negotiations(e) = {}

\* Once no negotiation is under way the two ends agree on whether the option
\* is on, and neither is left waiting in activating or deactivating for an
\* answer that will not come.
Agreement ==
    Settled => /\ state_["server"] = state_["client"]
               /\ state_["server"] \in {"inactive", "active"}

\* An end is only ever sent what the protocol lets it receive: an inactive or
\* active option never hears what it already is (which it would answer, and be
\* answered, for ever), a request to deactivate is never cancelled by the
\* remote (the case option.hpp is "lenient" about), and two ends that both
\* have the option never refuse it.
ConformingPeer ==
    \A e \in Ends : wire[e] # <<>> =>
        /\ Head(wire[e]) = remote_positive(e) => state_[e] \in {"inactive", "activating"}
        /\ Head(wire[e]) = remote_negative(e) => state_[e] \in {"active", "deactivating"}

\* No more than two negotiations are ever in flight, counting both directions.
FewInFlight ==
    Cardinality(Negotiations("server")) + Cardinality(Negotiations("client")) <= 2

\* A subnegotiation written by an option that checks active() finds its peer
\* active, or already on its way out and entitled to drop it: it never
\* overtakes, and is never overtaken by, the negotiation that allows it.
NoStraySubnegotiation ==
    \A e \in Ends : (wire[e] # <<>> /\ Other(e) \notin Unchecked) =>
        (Head(wire[e]) = "sub" => state_[e] \in {"active", "deactivating"})

\* Every activate() and deactivate() that was sent is eventually answered.
RequestsAnswered ==
    \A e \in Ends : requesting(e) ~> ~requesting(e)

\* Negotiation loops are avoided: unless the application keeps calling, the
\* exchange of negotiations dies down.
LoopFree == []<>Settled \/ []<><<AppCall>>_vars
===============================================================================
