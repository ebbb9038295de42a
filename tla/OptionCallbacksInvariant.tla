------------------------ MODULE OptionCallbacksInvariant ------------------------
(***************************************************************************)
(* The inductive invariant of OptionCallbacks: the phases of OptionPair,   *)
(* and those that a handler opens when it calls activate() between a       *)
(* change of state and the answer to what caused it.                       *)
(***************************************************************************)
EXTENDS OptionCallbacks, Wires

\* The negotiations that e will read, in order, the delayed one included.
ToBeRead(e) == Only(wire[e], negotiation_type) \o owed[Other(e)]

\* The states of e and of the other end, and what each has yet to read of the
\* other: sent by e, and sent to e.
phase(e, mine, its, sent, received) ==
    /\ state_[e] = mine /\ state_[Other(e)] = its
    /\ ToBeRead(Other(e)) = sent /\ ToBeRead(e) = received

\* No negotiation under way.
Balanced(e) ==
    \/ phase(e, "inactive", "inactive", <<>>, <<>>)
    \/ phase(e, "active", "active", <<>>, <<>>)

\* Activation, and the next request sent before the answer has been read.
Activation(e) ==
    LET yes == local_positive(e)
        no  == local_negative(e)
    IN  \/ phase(e, "activating", "inactive", <<yes>>, <<>>)
        \/ phase(e, "activating", "active", <<>>, <<remote_positive(e)>>)
        \/ phase(e, "activating", "activating", <<yes>>, <<remote_positive(e)>>)
        \/ phase(e, "deactivating", "activating", <<yes, no>>, <<>>)

\* Deactivation, likewise.
Deactivation(e) ==
    LET yes == local_positive(e)
        no  == local_negative(e)
    IN  \/ phase(e, "deactivating", "active", <<no>>, <<>>)
        \/ phase(e, "deactivating", "inactive", <<>>, <<remote_negative(e)>>)
        \/ phase(e, "deactivating", "deactivating", <<no>>, <<remote_negative(e)>>)
        \/ phase(e, "activating", "deactivating", <<no, yes>>, <<>>)

\* What a handler of e makes of it that offers the option again before e has
\* written that it stops: the offer overtakes the answer and is taken back by
\* it, so that the other end turns the option on, off again, and refuses.
Reactivation(e) ==
    LET yes == local_positive(e)
        no  == local_negative(e)
    IN  \/ phase(e, "activating", "deactivating", <<yes, no>>, <<>>)
        \/ phase(e, "activating", "activating", <<yes, no>>, <<>>)
        \/ phase(e, "activating", "active", <<no>>, <<>>)
        \/ phase(e, "activating", "deactivating", <<no>>, <<remote_negative(e)>>)
        \/ phase(e, "activating", "inactive", <<>>, <<remote_negative(e)>>)
        \/ phase(e, "activating", "activating", <<no, yes>>, <<>>)

\* The two ends are always in one of these phases, seen from one of them.
Phases ==
    \E e \in Ends : Balanced(e) \/ Activation(e) \/ Deactivation(e) \/ Reactivation(e)

\* An end that owes an answer has stopped, and has not gone on again unless a
\* handler has activated it.
Owing ==
    \A e \in Ends : owed[e] # <<>> =>
        \/ state_[e] = "inactive"
        \/ state_[e] = "activating" /\ ~NeverReactivate

Inductive == TypeOK /\ ToldTheTruth /\ Owing /\ Phases
===============================================================================
