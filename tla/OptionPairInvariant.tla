-------------------------- MODULE OptionPairInvariant --------------------------
(***************************************************************************)
(* The inductive invariants of OptionPair: every combination of the two    *)
(* states with the negotiations in flight that can occur (Phases), and     *)
(* where subnegotiations can be among them (Covered).                      *)
(***************************************************************************)
EXTENDS OptionPair

\* The negotiations on a wire, with any number of subnegotiations around them:
\* none, v only, or v1 and behind it v2.
Quiet(w) == \A i \in 1..Len(w) : w[i] = "sub"

One(w, v) == \E k \in 1..Len(w) :
    /\ w[k] = v
    /\ \A i \in 1..Len(w) : i # k => w[i] = "sub"

Two(w, v1, v2) == \E k, l \in 1..Len(w) :
    /\ k < l
    /\ w[k] = v1
    /\ w[l] = v2
    /\ \A i \in 1..Len(w) : (i # k /\ i # l) => w[i] = "sub"

at(e, mine, its) == state_[e] = mine /\ state_[Other(e)] = its

\* What e has sent is on wire[Other(e)].
SentNothing(e)        == Quiet(wire[Other(e)])
SentPositive(e)       == One(wire[Other(e)], local_positive(e))
SentNegative(e)       == One(wire[Other(e)], local_negative(e))
SentBoth(e)           == Two(wire[Other(e)], local_positive(e), local_negative(e))
SentNegativeFirst(e)  == Two(wire[Other(e)], local_negative(e), local_positive(e))

\* No negotiation under way.
Balanced(e) ==
    /\ at(e, "inactive", "inactive") \/ at(e, "active", "active")
    /\ SentNothing(e) /\ SentNothing(Other(e))

\* Activation: e offers, the other end has agreed; or both offered at once.
Offered(e) ==
    at(e, "activating", "inactive") /\ SentPositive(e) /\ SentNothing(Other(e))
Accepted(e) ==
    at(e, "activating", "active") /\ SentNothing(e) /\ SentPositive(Other(e))
BothOffered(e) ==
    at(e, "activating", "activating") /\ SentPositive(e) /\ SentPositive(Other(e))

\* Deactivation, likewise.
Withdrawn(e) ==
    at(e, "deactivating", "active") /\ SentNegative(e) /\ SentNothing(Other(e))
Released(e) ==
    at(e, "deactivating", "inactive") /\ SentNothing(e) /\ SentNegative(Other(e))
BothWithdrawn(e) ==
    at(e, "deactivating", "deactivating") /\ SentNegative(e) /\ SentNegative(Other(e))

\* The next request sent before the other end has read the answer to its own.
WithdrawnEarly(e) ==
    at(e, "deactivating", "activating") /\ SentBoth(e) /\ SentNothing(Other(e))
OfferedEarly(e) ==
    at(e, "activating", "deactivating") /\ SentNegativeFirst(e) /\ SentNothing(Other(e))

OneSided(e) ==
    \/ Offered(e)   \/ Accepted(e) \/ WithdrawnEarly(e)
    \/ Withdrawn(e) \/ Released(e) \/ OfferedEarly(e)

Phase(e) ==
    \/ Balanced(e) \/ BothOffered(e) \/ BothWithdrawn(e)
    \/ OneSided(e) \/ OneSided(Other(e))

\* The two ends are always in one of these phases of the negotiation: no other
\* pair of states with no other negotiations between them is reachable.
Phases == \A e \in Ends : Phase(e)

\* A subnegotiation that waits for e behind a refusal has an agreement between
\* the two, and one that waits behind nothing finds e active or deactivating.
CoveredAt(e) ==
    /\ \A i \in 1..Len(wire[e]) : wire[e][i] = "sub" =>
          \/ state_[e] \in {"active", "deactivating"}
          \/ \E j \in 1..Len(wire[e]) : j < i /\ wire[e][j] = remote_positive(e)
    /\ \A i, j \in 1..Len(wire[e]) :
          (j < i /\ wire[e][i] = "sub" /\ wire[e][j] = remote_negative(e)) =>
             \E k \in 1..Len(wire[e]) :
                j < k /\ k < i /\ wire[e][k] = remote_positive(e)

\* What an end that checks active() has written is covered, all along the wire.
Covered == \A e \in Ends : Other(e) \notin Unchecked => CoveredAt(e)
===============================================================================
