--------------------------- MODULE NewEnvironInvariant ---------------------------
(***************************************************************************)
(* The inductive invariants of NewEnviron: what the client's copy will be  *)
(* when it has read what is on its way, and how the requests that it waits *)
(* for are divided among the two wires.                                    *)
(***************************************************************************)
EXTENDS NewEnviron

\* The negotiations alone, which are an OptionPair (NewEnvironProofs), whatever
\* is written between them.
Negotiations(e) == Only(wire[e], Pair!negotiation_type)

-------------------------------------------------------------------------------
\* What the client is told by what is on its way, message after message.
Read == [data \in Seq(Byte) |-> for_each_response(data)]
Coming == FlattenSeq([i \in DOMAIN content["client"] |-> Read[content["client"][i]]])

\* Messages say what they said when they were written.
Readable ==
    \A i \in 1..Len(content["client"]) : for_each_response(content["client"][i]) \in Seq(Reports)

\* A client that reads all of it knows every variable that it is not behind in.
Copied == \A k \in Keys \ behind : Folded(told, known, Coming)[k] = variables_[k]

\* A map in memory: an answer can list it.
FinitelyMany == IsFiniteSet({k \in Keys : variables_[k] # <<>>})

-------------------------------------------------------------------------------
\* On its way to the client there is nothing behind a refusal; nothing at all
\* for a client that has been off since it last read one; and an acceptance
\* before anything for one that waits for it.
InOrder ==
    LET w == wire["client"]
    IN  /\ \A i, j \in 1..Len(w) : i < j /\ w[i] = "wont" => w[j] # "sub"
        /\ state_["client"] = "inactive" => content["client"] = <<>>
        /\ state_["client"] = "activating" /\ w # <<>> => Head(w) # "sub"

\* The answers on their way to the client.
Answers == Len(Only(content["client"], {data \in Seq(Byte) : Head(data) = is}))

\* The last n elements of w are requests, behind a negotiation if any.
Requested(w, n) ==
    /\ n \in 0..Len(w)
    /\ \A i \in 1..Len(w) : i > Len(w) - n => w[i] = "sub"
    /\ n < Len(w) => w[Len(w) - n] # "sub"

Refused == \E i \in 1..Len(wire["client"]) : wire["client"][i] = "wont"

\* What a client waits for has been answered or will be, unless the server has
\* turned the option off, which the client is about to read.
Awaiting ==
    IF state_["client"] \in {"inactive", "deactivating"} THEN awaited = 0
    ELSE IF Refused THEN awaited >= Answers
    ELSE \E n \in 0..Len(wire["server"]) : Requested(wire["server"], n) /\ awaited = Answers + n

\* What every step preserves, given the phases of the negotiation.
Inductive ==
    /\ TypeOK
    /\ Readable
    /\ Copied
    /\ FinitelyMany
    /\ InOrder
    /\ Awaiting
===============================================================================
