---------------------------- MODULE OptionCallbacks ----------------------------
(***************************************************************************)
(* The option pair of OptionPair with on_state_changed opened up.  The     *)
(* signal is emitted synchronously from the middle of activate(),          *)
(* deactivate() and negotiate() (include/telnetpp/option.hpp), and the     *)
(* functions connected to it may call the same option again before the     *)
(* call that emitted it has returned.  One case matters most: an active    *)
(* option that the remote turns off emits the signal first and writes the  *)
(* answer afterwards (lines 172-174), so whatever the handler does comes   *)
(* between the change of state and its answer.                             *)
(*                                                                         *)
(* An end runs on one thread: while a handler of its is running nothing    *)
(* else is read and the application calls nothing; the other end, on       *)
(* another machine, goes on.                                               *)
(***************************************************************************)
EXTENDS Naturals, Sequences

CONSTANTS
    HandlerCalls,   \* the operations that connected handlers may call
    Unchecked,      \* as in OptionPair
    MaxWire,        \* bound on write_subnegotiation, as in OptionPair
    MaxDepth        \* bound on handlers running inside one another

Ends == {"server", "client"}
Operations == {"activate", "deactivate", "write_subnegotiation"}

ASSUME CallbacksAssumption ==
    /\ HandlerCalls \subseteq Operations
    /\ Unchecked \subseteq Ends
    /\ MaxWire \in Nat
    /\ MaxDepth \in Nat \ {0}

Other(e) == IF e = "server" THEN "client" ELSE "server"

local_positive(e)  == IF e = "server" THEN "will" ELSE "do"
local_negative(e)  == IF e = "server" THEN "wont" ELSE "dont"
remote_positive(e) == IF e = "server" THEN "do" ELSE "will"
remote_negative(e) == IF e = "server" THEN "dont" ELSE "wont"

Verbs(e) == {remote_positive(e), remote_negative(e)}

negotiation_type == {"will", "wont", "do", "dont"}

internal_state == {"inactive", "activating", "active", "deactivating"}

VARIABLES
    state_,     \* option::state_ at each end
    wire,       \* wire[e]: what the other end has written and e has not read
    depth,      \* how many on_state_changed handlers are running at each end
    owed,       \* what the negotiate() below them writes when they return
    told,       \* active() when on_state_changed was last emitted
    handlers_call   \* the operations that the handlers of this program call

vars == <<state_, wire, depth, owed, told, handlers_call>>

Init ==
    /\ state_ = [e \in Ends |-> "inactive"]
    /\ wire = [e \in Ends |-> <<>>]
    /\ depth = [e \in Ends |-> 0]
    /\ owed = [e \in Ends |-> <<>>]
    /\ told = [e \in Ends |-> FALSE]
    /\ handlers_call \in SUBSET HandlerCalls

active(e) == state_[e] = "active"

requesting(e) == state_[e] \in {"activating", "deactivating"}

\* Who may call an operation at e: the application while nothing runs there,
\* a handler while one does.
may_call(e, operation) == depth[e] = 0 \/ operation \in handlers_call

-------------------------------------------------------------------------------
become(e, s) == state_' = [state_ EXCEPT ![e] = s]

write(e, elem) == wire' = [wire EXCEPT ![Other(e)] = Append(@, elem)]

read(e) == wire' = [wire EXCEPT ![e] = Tail(@)]

read_and_write(e, elem) ==
    wire' = [wire EXCEPT ![e] = Tail(@), ![Other(e)] = Append(@, elem)]

\* on_state_changed() starts the handlers; isActive is what active() says.
on_state_changed(e, isActive) ==
    /\ depth[e] < MaxDepth
    /\ depth' = [depth EXCEPT ![e] = @ + 1]
    /\ told' = [told EXCEPT ![e] = isActive]

quiet == UNCHANGED <<depth, told>>
owe_nothing_more == UNCHANGED owed

(***************************************************************************)
(* Mutants, as in OptionPair: no part of Next.                             *)
(***************************************************************************)
\* activate() that takes a request to deactivate back by sending another.
impatient_activate(e) ==
    /\ may_call(e, "activate")
    /\ \/ /\ state_[e] \in {"inactive", "deactivating"}
          /\ become(e, "activating")
          /\ write(e, local_positive(e))
          /\ quiet
       \/ /\ state_[e] = "active"
          /\ on_state_changed(e, TRUE)
          /\ UNCHANGED <<state_, wire>>
    /\ owe_nothing_more

\* The signal only for a request that got what it asked for.
signals_success_only(e) ==
    /\ requesting(e)
    /\ \/ /\ Head(wire[e]) = remote_positive(e)
          /\ become(e, "active")
          /\ on_state_changed(e, TRUE)
       \/ /\ Head(wire[e]) = remote_negative(e)
          /\ become(e, "inactive")
          /\ IF state_[e] = "deactivating" THEN quiet ELSE on_state_changed(e, FALSE)
    /\ read(e)
    /\ owe_nothing_more

\* The answer behind the signal forgotten.
forgets_to_answer(e) ==
    /\ active(e)
    /\ \/ /\ Head(wire[e]) = remote_positive(e)
          /\ read_and_write(e, local_positive(e))
          /\ UNCHANGED state_
          /\ quiet
       \/ /\ Head(wire[e]) = remote_negative(e)
          /\ become(e, "inactive")
          /\ read(e)
          /\ on_state_changed(e, FALSE)
    /\ owe_nothing_more

\* The answer sent by the innermost handler instead of the outermost.
answers_too_early(e) ==
    /\ depth[e] > 0
    /\ depth' = [depth EXCEPT ![e] = @ - 1]
    /\ wire' = [wire EXCEPT ![Other(e)] = @ \o owed[e]]
    /\ UNCHANGED <<state_, owed, told>>
-------------------------------------------------------------------------------
\* option::activate.
activate(e) ==
    /\ may_call(e, "activate")
    /\ \/ /\ state_[e] = "inactive"
          /\ become(e, "activating")
          /\ write(e, local_positive(e))
          /\ quiet
       \/ /\ state_[e] = "active"
          /\ on_state_changed(e, TRUE)
          /\ UNCHANGED <<state_, wire>>
    /\ owe_nothing_more

\* option::deactivate.
deactivate(e) ==
    /\ may_call(e, "deactivate")
    /\ \/ /\ state_[e] = "active"
          /\ become(e, "deactivating")
          /\ write(e, local_negative(e))
          /\ quiet
       \/ /\ state_[e] = "inactive"
          /\ on_state_changed(e, FALSE)
          /\ UNCHANGED <<state_, wire>>
    /\ owe_nothing_more

\* option::negotiate in state inactive: agree, then signal; refuse in silence.
negotiate_inactive(e) ==
    /\ state_[e] = "inactive"
    /\ \/ /\ Head(wire[e]) = remote_positive(e)
          /\ become(e, "active")
          /\ read_and_write(e, local_positive(e))
          /\ on_state_changed(e, TRUE)
       \/ /\ Head(wire[e]) = remote_negative(e)
          /\ read_and_write(e, local_negative(e))
          /\ UNCHANGED state_
          /\ quiet
    /\ owe_nothing_more

\* ... in state activating or deactivating: the verb is the answer.
negotiate_requesting(e) ==
    /\ requesting(e)
    /\ \/ /\ Head(wire[e]) = remote_positive(e)
          /\ become(e, "active")
          /\ on_state_changed(e, TRUE)
       \/ /\ Head(wire[e]) = remote_negative(e)
          /\ become(e, "inactive")
          /\ on_state_changed(e, FALSE)
    /\ read(e)
    /\ owe_nothing_more

\* ... in state active: confirm in silence; or stop, signal, and only then
\* answer.
negotiate_active(e) ==
    /\ active(e)
    /\ \/ /\ Head(wire[e]) = remote_positive(e)
          /\ read_and_write(e, local_positive(e))
          /\ UNCHANGED <<state_, owed>>
          /\ quiet
       \/ /\ Head(wire[e]) = remote_negative(e)
          /\ become(e, "inactive")
          /\ read(e)
          /\ on_state_changed(e, FALSE)
          /\ owed' = [owed EXCEPT ![e] = <<local_negative(e)>>]

negotiate(e) ==
    /\ depth[e] = 0
    /\ wire[e] # <<>>
    /\ negotiate_inactive(e) \/ negotiate_requesting(e) \/ negotiate_active(e)

\* The innermost handlers return; with the outermost, the negotiate() that
\* emitted the signal goes on to the write_negotiation behind it.
handlers_return(e) ==
    /\ depth[e] > 0
    /\ depth' = [depth EXCEPT ![e] = @ - 1]
    /\ IF depth[e] = 1
       THEN /\ wire' = [wire EXCEPT ![Other(e)] = @ \o owed[e]]
            /\ owed' = [owed EXCEPT ![e] = <<>>]
       ELSE UNCHANGED <<wire, owed>>
    /\ UNCHANGED <<state_, told>>

write_subnegotiation(e) ==
    /\ may_call(e, "write_subnegotiation")
    /\ active(e) \/ e \in Unchecked
    /\ Len(wire[Other(e)]) < MaxWire
    /\ write(e, "sub")
    /\ UNCHANGED <<state_, depth, owed, told>>

subnegotiate(e) ==
    /\ depth[e] = 0
    /\ wire[e] # <<>>
    /\ Head(wire[e]) = "sub"
    /\ read(e)
    /\ UNCHANGED <<state_, depth, owed, told>>

Next ==
    /\ \E e \in Ends :
          \/ activate(e)
          \/ deactivate(e)
          \/ write_subnegotiation(e)
          \/ negotiate(e)
          \/ subnegotiate(e)
          \/ handlers_return(e)
    /\ UNCHANGED handlers_call

Spec == Init /\ [][Next]_vars

\* The reader keeps asking for more, and the event loop gets round to it
\* however often the application keeps the thread busy in between; a handler
\* makes a finite number of calls: however often it starts other handlers, it
\* returns in the end.
FairSpec ==
    /\ Spec
    /\ \A e \in Ends :
          /\ SF_vars((negotiate(e) \/ subnegotiate(e)) /\ UNCHANGED handlers_call)
          /\ \A d \in 1..MaxDepth :
                SF_vars(depth[e] = d /\ handlers_return(e) /\ UNCHANGED handlers_call)

-------------------------------------------------------------------------------
(***************************************************************************)
(* Properties.                                                             *)
(***************************************************************************)

\* The variables keep their types, and a reply is owed only by a negotiate()
\* that has not returned.
TypeOK ==
    /\ state_ \in [Ends -> internal_state]
    /\ wire \in [Ends -> Seq(negotiation_type \cup {"sub"})]
    /\ \A e \in Ends : wire[e] \in Seq(Verbs(e) \cup {"sub"})
    /\ depth \in [Ends -> 0..MaxDepth]
    /\ DOMAIN owed = Ends
    /\ \A e \in Ends : /\ owed[e] \in {<<>>, <<local_negative(e)>>}
                       /\ owed[e] # <<>> => depth[e] > 0
    /\ told \in [Ends -> BOOLEAN]
    /\ handlers_call \subseteq HandlerCalls

\* What a handler is told stays true until the next time it is told: an
\* application that remembers active() from the last on_state_changed never
\* believes in an option that is off, nor gives up one that is on, except
\* while its own request to turn it off is under way.
ToldTheTruth ==
    \A e \in Ends : told[e] <=> state_[e] \in {"active", "deactivating"}

\* What the connection sees of the rule that q_method_test.cpp opens with: an
\* end with a request outstanding puts no negotiation on the connection.
SilentWhileRequesting ==
    \A e \in Ends :
        (requesting(e) /\ Len(wire'[Other(e)]) > Len(wire[Other(e)])) =>
            wire'[Other(e)][Len(wire'[Other(e)])] = "sub"

\* test/q_method_test.cpp:15-17, "a client/server must remember whether it is
\* being disabled (in addition to whether it is being enabled.)  It must not
\* send any further negotiations until the previous negotiation is complete."
OneNegotiationAtATime == [][SilentWhileRequesting]_vars

\* The handlers of this program never turn the option on again.
NeverReactivate == "activate" \notin handlers_call

\* The rule holds as long as no handler calls activate(), whatever else the
\* handlers call and however they are nested.
OneAtATimeUnlessReactivated == [][NeverReactivate => SilentWhileRequesting]_vars

\* What e will read, the reply that a handler at the other end delays included.
Sent(e) == wire[e] \o owed[Other(e)]

Negotiations(e) == {i \in DOMAIN Sent(e) : Sent(e)[i] # "sub"}

Settled == \A e \in Ends : Negotiations(e) = {}

\* Whatever the handlers call, the ends agree on the option when no
\* negotiation is under way, and neither waits for an answer that is not
\* coming.
Agreement ==
    Settled => /\ state_["server"] = state_["client"]
               /\ state_["server"] \in {"inactive", "active"}

\* Every request that was sent is answered, handlers or no handlers.
RequestsAnswered ==
    \A e \in Ends : requesting(e) ~> ~requesting(e)

Atomic == INSTANCE OptionPair WITH wire <- [e \in Ends |-> Sent(e)]

\* The option pair in which a negotiation and its answer are one step is what
\* the other machine sees of this one, as long as no handler calls activate():
\* a reply that a handler is delaying is already as good as sent.
StepsOfOptionPair ==
    /\ NeverReactivate => Atomic!Init
    /\ [][NeverReactivate => [Atomic!Next]_(Atomic!vars)]_vars

\* ... and as fair: OptionPair can read whenever something is waiting, and only
\* reading shortens what is waiting.
ImplementsOptionPair ==
    /\ StepsOfOptionPair
    /\ NeverReactivate => \A e \in Ends :
          []<>(Sent(e) = <<>>) \/ []<><<Len(Sent(e)') < Len(Sent(e))>>_vars
===============================================================================
