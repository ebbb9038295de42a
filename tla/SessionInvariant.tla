---------------------------- MODULE SessionInvariant ----------------------------
(***************************************************************************)
(* The inductive invariant of Session: routes are registered as a whole,   *)
(* nothing comes of an option that is not installed, and the two ends of   *)
(* each code are in one of the phases of OptionPair, or in one of a        *)
(* refusal.                                                                *)
(***************************************************************************)
EXTENDS Session

\* The routes of an option are registered together.
Routes ==
    \A o \in Options :
        LET route(verb) == negotiation_router_[machine(o)][<<verb, option_code(o)>>]
        IN  /\ route(remote_positive(role(o))) = route(remote_negative(role(o)))
            /\ installed(o) => subnegotiation_router_[machine(o)][option_code(o)] # NoRoute

\* An option that is not installed is off, or has asked in vain.
OnlyInstalled ==
    \A o \in Options : ~installed(o) =>
        \/ state_[o] = "inactive"
        \/ state_[o] = "activating" /\ ActivateUninstalled

\* The phases, as an end in role r sees them: its state and the other's, and
\* the negotiations it has sent and received that are not yet read.
Phase(r, mine, its, sent, received) ==
    LET yes    == local_positive(r)
        no     == local_negative(r)
        itsYes == remote_positive(r)
        itsNo  == remote_negative(r)
        at(m, i, s, v) == mine = m /\ its = i /\ sent = s /\ received = v
    IN  \* No negotiation under way.
        \/ at("inactive", "inactive", <<>>, <<>>)
        \/ at("active", "active", <<>>, <<>>)
        \* Activation, and the next request before the answer has been read.
        \/ at("activating", "inactive", <<yes>>, <<>>)
        \/ at("activating", "active", <<>>, <<itsYes>>)
        \/ at("activating", "activating", <<yes>>, <<itsYes>>)
        \/ at("deactivating", "activating", <<yes, no>>, <<>>)
        \* Deactivation, likewise.
        \/ at("deactivating", "active", <<no>>, <<>>)
        \/ at("deactivating", "inactive", <<>>, <<itsNo>>)
        \/ at("deactivating", "deactivating", <<no>>, <<itsNo>>)
        \/ at("activating", "deactivating", <<no, yes>>, <<>>)
        \* The other machine has refused; and it may then have installed the
        \* option, and asked for it itself.
        \/ at("activating", "inactive", <<>>, <<itsNo>>)
        \/ at("activating", "activating", <<>>, <<itsNo, itsYes>>)

\* Every end that an option could have.  An option that does not exist is off.
Places == Machines \X Roles \X Codes

status(o) == IF o \in Options THEN state_[o] ELSE "inactive"

ToBeRead(o) == Only(Between(o), negotiation_type)

InPhase(o) ==
    LET p == Counterpart(o)
    IN Phase(role(o), status(o), status(p), ToBeRead(p), ToBeRead(o))

\* The two ends of every code, in either direction.
Phases == \A o \in Places : InPhase(o) \/ InPhase(Counterpart(o))

Inductive ==
    /\ TypeOK
    /\ Routes
    /\ OnlyInstalled
    /\ ~ActivateUninstalled => Phases
===============================================================================
