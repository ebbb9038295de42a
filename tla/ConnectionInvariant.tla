--------------------------- MODULE ConnectionInvariant ---------------------------
(***************************************************************************)
(* The inductive invariant of Connection: what can be under way of NAWS,   *)
(* the option whose listener is to know the size of the window, between    *)
(* the two ends.  The other options of the connection share its wires, but *)
(* what is theirs does not touch it.                                       *)
(***************************************************************************)
EXTENDS Connection

\* The elements of NAWS, and those that an end has yet to read.
Naws == [kind : {"negotiation"}, of : {"naws"}, verb : {"will", "wont", "do", "dont"}]
        \cup [kind : {"subnegotiation"}, of : {"naws"}, content : Seq(Byte)]
Ahead(e) == Only(wire[e], Naws)

will == negotiation("will", "naws")
wont == negotiation("wont", "naws")
do   == negotiation("do", "naws")
dont == negotiation("dont", "naws")

\* From the m-th to the n-th, w holds nothing but subnegotiations.
Reports(w, m, n) == \A i \in m..n : w[i].kind = "subnegotiation"

\* The last element of w reports the size.
Reported(w, size) == w # <<>> /\ <<w[Len(w)]>> = report_window_size(size)

\* Server and terminal are in states s and t, and have yet to read w and v.
\* "size" is the window's and "told" what the listener was last told.
\*
\* In the last four phases but one, the terminal's WILL or WONT or both are
\* among its reports.
Phase(s, t, w, v, size, told) ==
    \/ s = "inactive" /\ t = "inactive" /\ w = <<>> /\ v = <<>>
    \/ s = "inactive" /\ t = "activating" /\ w = <<will>> /\ v = <<>>
    \/ s = "activating" /\ t = "inactive" /\ w = <<>> /\ v = <<do>>
    \/ s = "activating" /\ t = "activating" /\ w = <<will>> /\ v = <<do>>
    \/ s = "active" /\ t = "activating" /\ w = <<>> /\ v = <<do>>
    \/ s = "inactive" /\ t = "deactivating" /\ w = <<>> /\ v = <<dont>>
    \/ /\ s = "activating" /\ t = "active" /\ v = <<>>
       /\ w # <<>> /\ w[1] = will /\ Reports(w, 2, Len(w))
       /\ size # <<>> => Reported(w, size)
    \/ /\ s = "activating" /\ t = "deactivating" /\ v = <<>>
       /\ Len(w) >= 2 /\ w[1] = will /\ Reports(w, 2, Len(w) - 1) /\ w[Len(w)] = wont
    \/ /\ s = "active" /\ t = "active" /\ v = <<>>
       /\ Reports(w, 1, Len(w))
       /\ size # <<>> => Reported(w, size) \/ (w = <<>> /\ told = size)
    \/ /\ s = "active" /\ t = "deactivating" /\ v = <<>>
       /\ w # <<>> /\ Reports(w, 1, Len(w) - 1) /\ w[Len(w)] = wont

NawsPhase ==
    Phase(state_["server"]["naws"], state_["terminal"]["naws"], Ahead("server"), Ahead("terminal"),
          window_size_, announced)

\* Before the server has accepted the connection, only the terminal has asked.
Unaccepted ==
    connections_ = "none" =>
        /\ state_["server"]["naws"] = "inactive"
        /\ state_["terminal"]["naws"] \in {"inactive", "activating"}

\* Of a connection that is alive.
SizeOnItsWay == alive => NawsPhase /\ Unaccepted

Inductive == TypeOK /\ SizeOnItsWay /\ EchoInOrder
===============================================================================
