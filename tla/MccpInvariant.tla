----------------------------- MODULE MccpInvariant -----------------------------
(***************************************************************************)
(* The inductive invariant of Mccp: the modes that the compressor has been *)
(* in while it wrote what the client has not read, and the mode of the     *)
(* decompressor among them.                                                *)
(***************************************************************************)
EXTENDS Mccp

\* The modes of a codec whose stream is in order.
Modes == {Idle, start(Idle), compress(start(Idle))}

\* What the server may write when its codec goes from the mode before to the
\* mode after.  WILL is written with the option off.
Writes(before, elem, after) ==
    \/ elem = "will" /\ before = Idle /\ after = Idle
    \/ elem \in negotiation_type \ {"will"} /\ after = before
    \/ elem = "sub" /\ after = start(before)
    \/ elem = compress_output(before) /\ after = compress(before)
    \/ elem = finish_output(before) /\ before.engaged_ /\ after = Idle

\* The codec was in the mode first before it wrote the elements of w, and in
\* the mode last afterwards; passed[i] is its mode behind the first i of them.
Leads(w, first, last) ==
    \E passed \in [0..Len(w) -> Modes] :
        /\ passed[0] = first
        /\ passed[Len(w)] = last
        /\ \A i \in 1..Len(w) : Writes(passed[i - 1], w[i], passed[i])

\* What the decompressor is, when the compressor was in this mode before it
\* wrote what the client reads next.
Follows(mode) ==
    /\ state_["client"] = "active" => decompressor = mode
    /\ state_["client"] = "deactivating" => decompressor \in {mode, Idle}
    /\ state_["client"] \in {"inactive", "activating"} => decompressor = Idle

\* The decompressor of an active client is in the mode in which the compressor
\* wrote what is read next, and all that is on the wire leads from there to the
\* mode that the compressor is in now.
CodecsFollow ==
    /\ compressor \in Modes
    /\ \E mode \in Modes : Leads(wire["client"], mode, compressor) /\ Follows(mode)

\* With the types, what every step preserves.
Inductive == TypeOK /\ CodecsFollow
===============================================================================
