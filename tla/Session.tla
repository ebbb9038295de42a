-------------------------------- MODULE Session --------------------------------
(***************************************************************************)
(* Two telnetpp::sessions joined by a connection (src/session.cpp), each   *)
(* with the options its program has constructed and, sooner or later,      *)
(* installed.  What is added to OptionPair: the routes.  A negotiation is  *)
(* routed by verb and option code, a subnegotiation by option code alone,  *)
(* the last registration of a key wins (include/telnetpp/detail/router.hpp *)
(* and registration.hpp), and a negotiation without a route is refused.    *)
(*                                                                         *)
(* One step of async_read handles one element.  The code handles a whole   *)
(* chunk before it lets anything else run, which is a special case.  No    *)
(* on_state_changed handler is connected (see OptionCallbacks).            *)
(***************************************************************************)
EXTENDS Wires

CONSTANTS
    Codes,              \* option codes
    Options,            \* the option objects: <<machine, role, code>>
    Installed,          \* those installed before anything is read or written
    ActivateUninstalled,\* may a program activate an option it did not install?
    MaxWire             \* bound: write_subnegotiation adds to no longer wire

Machines == {"a", "b"}
Roles == {"server", "client"}

ASSUME SessionAssumption ==
    /\ Options \subseteq Machines \X Roles \X Codes
    /\ Installed \subseteq Options
    /\ ActivateUninstalled \in BOOLEAN
    /\ MaxWire \in Nat

Peer(m) == IF m = "a" THEN "b" ELSE "a"
Opposite(r) == IF r = "server" THEN "client" ELSE "server"

machine(o) == o[1]
role(o) == o[2]
option_code(o) == o[3]

\* The option at the other end of the same negotiation, if there is one.
Counterpart(o) == <<Peer(machine(o)), Opposite(role(o)), option_code(o)>>

local_positive(r)  == IF r = "server" THEN "will" ELSE "do"
local_negative(r)  == IF r = "server" THEN "wont" ELSE "dont"
remote_positive(r) == local_positive(Opposite(r))
remote_negative(r) == local_negative(Opposite(r))

negotiation_type == {"will", "wont", "do", "dont"}

\* DO and DONT are for a server, WILL and WONT for a client.
Addressee(verb) == IF verb \in {"do", "dont"} THEN "server" ELSE "client"

\* Elements.  The "to" of a subnegotiation is not on the wire and no route
\* looks at it: it remembers which role the writer wrote it for.
negotiation(verb, c) == [what |-> verb, code |-> c, to |-> Addressee(verb)]
subnegotiation(c, r) == [what |-> "sub", code |-> c, to |-> r]

internal_state == {"inactive", "activating", "active", "deactivating"}

NoRoute == <<>>

VARIABLES
    state_,                 \* option::state_ of each option
    negotiation_router_,    \* [machine -> [verb, code -> option or NoRoute]]
    subnegotiation_router_, \* [machine -> [code -> option or NoRoute]]
    wire                    \* wire[m]: elements written to m and not yet read

vars == <<state_, negotiation_router_, subnegotiation_router_, wire>>
routes == <<negotiation_router_, subnegotiation_router_>>

\* The options installed at m before the connection starts: where several
\* want the subnegotiations of a code, whichever was installed last has them.
InstalledAt(m) == {o \in Installed : machine(o) = m}

Init ==
    /\ state_ = [o \in Options |-> "inactive"]
    /\ wire = [m \in Machines |-> <<>>]
    /\ negotiation_router_ =
          [m \in Machines |-> [k \in negotiation_type \X Codes |->
              LET o == <<m, Addressee(k[1]), k[2]>>
              IN IF o \in Installed THEN o ELSE NoRoute]]
    /\ \E last \in [Machines -> [Codes -> Options \cup {NoRoute}]] :
          /\ \A m \in Machines, c \in Codes :
                LET candidates == {o \in InstalledAt(m) : option_code(o) = c}
                IN IF candidates = {} THEN last[m][c] = NoRoute
                                      ELSE last[m][c] \in candidates
          /\ subnegotiation_router_ = last

active(o) == state_[o] = "active"
requesting(o) == state_[o] \in {"activating", "deactivating"}

installed(o) ==
    negotiation_router_[machine(o)][<<remote_positive(role(o)), option_code(o)>>] = o

-------------------------------------------------------------------------------
become(o, s) == state_' = [state_ EXCEPT ![o] = s]

\* session::write.
write(m, elem) == wire' = [wire EXCEPT ![Peer(m)] = Append(@, elem)]

\* An element read, and possibly one written in answer to it.
read(m) == wire' = [wire EXCEPT ![m] = Tail(@)]
read_and_write(m, elem) ==
    wire' = [wire EXCEPT ![m] = Tail(@), ![Peer(m)] = Append(@, elem)]

(***************************************************************************)
(* Mutants: none of them is part of Next.                                  *)
(***************************************************************************)
\* Both verbs of the remote registered, whoever the remote may be.
register_both_roles(o) ==
    negotiation_router_' =
        [negotiation_router_ EXCEPT
            ![machine(o)] = [k \in DOMAIN @ |-> IF k[2] = option_code(o) THEN o ELSE @[k]]]

\* The subnegotiation route forgotten.
register_nothing(o) == UNCHANGED subnegotiation_router_

\* A session that takes DO and WONT for the same side of the negotiation.
confused_route(m, neg) ==
    LET result == IF neg.what \in {"will", "do"} THEN "dont" ELSE "wont"
    IN  /\ read_and_write(m, negotiation(result, neg.code))
        /\ UNCHANGED state_

\* Every verb answered, even one that is itself an answer.
talkative_negotiate(o, verb) ==
    LET positive == verb = remote_positive(role(o))
        answer == IF positive THEN local_positive(role(o)) ELSE local_negative(role(o))
    IN  /\ become(o, IF positive THEN "active" ELSE "inactive")
        /\ read_and_write(machine(o), negotiation(answer, option_code(o)))
-------------------------------------------------------------------------------
\* register_server_option and register_client_option.
register_negotiation(o) ==
    negotiation_router_' =
        [negotiation_router_ EXCEPT
            ![machine(o)] = [k \in DOMAIN @ |->
                IF k \in {remote_positive(role(o)), remote_negative(role(o))} \X {option_code(o)}
                THEN o ELSE @[k]]]

register_subnegotiation(o) ==
    subnegotiation_router_' =
        [subnegotiation_router_ EXCEPT ![machine(o)][option_code(o)] = o]

install(o) ==
    /\ register_negotiation(o)
    /\ register_subnegotiation(o)
    /\ UNCHANGED <<state_, wire>>

activate(o) ==
    /\ ActivateUninstalled \/ installed(o)
    /\ state_[o] = "inactive"
    /\ become(o, "activating")
    /\ write(machine(o), negotiation(local_positive(role(o)), option_code(o)))
    /\ UNCHANGED routes

deactivate(o) ==
    /\ state_[o] = "active"
    /\ become(o, "deactivating")
    /\ write(machine(o), negotiation(local_negative(role(o)), option_code(o)))
    /\ UNCHANGED routes

write_subnegotiation(o) ==
    /\ active(o)
    /\ Len(wire[Peer(machine(o))]) < MaxWire
    /\ write(machine(o), subnegotiation(option_code(o), Opposite(role(o))))
    /\ UNCHANGED state_
    /\ UNCHANGED routes

\* option::negotiate, called with a verb that was routed to it.
negotiate(o, verb) ==
    LET positive == verb = remote_positive(role(o))
        answer == IF positive THEN local_positive(role(o)) ELSE local_negative(role(o))
    IN  /\ become(o, IF positive THEN "active" ELSE "inactive")
        /\ IF requesting(o)
           THEN read(machine(o))
           ELSE read_and_write(machine(o), negotiation(answer, option_code(o)))

\* The route of the session's constructor: WILL and WONT are answered with
\* DONT, DO and DONT with WONT.
unregistered_route(m, neg) ==
    LET result == IF neg.what \in {"will", "wont"} THEN "dont" ELSE "wont"
    IN  /\ read_and_write(m, negotiation(result, neg.code))
        /\ UNCHANGED state_

route_negotiation(m, neg) ==
    LET route == negotiation_router_[m][<<neg.what, neg.code>>]
    IN  \/ route # NoRoute /\ negotiate(route, neg.what)
        \/ route = NoRoute /\ unregistered_route(m, neg)

\* option::subnegotiate hands the content on or drops it, and changes nothing
\* here; without a route it is dropped.
route_subnegotiation(m) == read(m) /\ UNCHANGED state_

async_read(m) ==
    /\ wire[m] # <<>>
    /\ IF Head(wire[m]).what = "sub"
       THEN route_subnegotiation(m)
       ELSE route_negotiation(m, Head(wire[m]))
    /\ UNCHANGED routes

Next ==
    \/ \E o \in Options :
          install(o) \/ activate(o) \/ deactivate(o) \/ write_subnegotiation(o)
    \/ \E m \in Machines : async_read(m)

Spec == Init /\ [][Next]_vars

AppCall == \E o \in Options :
    install(o) \/ activate(o) \/ deactivate(o) \/ write_subnegotiation(o)

\* The program asks for another read after each one (the empty callback).
FairSpec == Spec /\ \A m \in Machines : WF_vars(async_read(m))

-------------------------------------------------------------------------------
(***************************************************************************)
(* Properties.                                                             *)
(***************************************************************************)

\* What is on a wire: a verb is for the role that it addresses.
element ==
    {elem \in [what : negotiation_type \cup {"sub"}, code : Codes, to : Roles] :
        elem.what # "sub" => elem.to = Addressee(elem.what)}

\* The variables keep their types, and a route leads to an option of the same
\* machine, code and, for negotiations, role.
TypeOK ==
    /\ state_ \in [Options -> internal_state]
    /\ wire \in [Machines -> Seq(element)]
    /\ negotiation_router_ \in
          [Machines -> [negotiation_type \X Codes -> Options \cup {NoRoute}]]
    /\ \A m \in Machines, verb \in negotiation_type, c \in Codes :
          negotiation_router_[m][<<verb, c>>] \in {<<m, Addressee(verb), c>>, NoRoute}
    /\ subnegotiation_router_ \in [Machines -> [Codes -> Options \cup {NoRoute}]]
    /\ \A m \in Machines, c \in Codes :
          subnegotiation_router_[m][c] \in {<<m, r, c>> : r \in Roles} \cup {NoRoute}

Pending(o) == {i \in DOMAIN wire[machine(o)] :
    LET elem == wire[machine(o)][i]
    IN elem.what # "sub" /\ elem.code = option_code(o) /\ elem.to = role(o)}

Settled == \A m \in Machines : \A i \in DOMAIN wire[m] : wire[m][i].what = "sub"

\* An option is on at one end exactly if it is on at the other, whenever no
\* negotiation of the two is under way; and it is never on at an end whose
\* program did not install it, or has no such option.
Agreement ==
    \A o \in Options :
        LET p == Counterpart(o)
        IN (Pending(o) = {} /\ Pending(p) = {}) =>
              /\ ~requesting(o)
              /\ active(o) => p \in Options /\ active(p) /\ installed(p)

\* Negotiation loops are avoided (test/q_method_test.cpp:7-10): unless the
\* programs keep calling, the exchange of negotiations dies down, options that
\* one end does not know included.
LoopFree == []<>Settled \/ []<><<AppCall>>_vars

\* The option that the next element for m was written for, if it is a
\* subnegotiation and the option is active and waiting for it.
Awaiting(m) ==
    {o \in Options : /\ machine(o) = m /\ active(o)
                     /\ wire[m] # <<>>
                     /\ Head(wire[m]) = subnegotiation(option_code(o), role(o))}

\* README.md:109, "It is even possible in some cases that both sides of the
\* connection can be both client and server for the same option": what the
\* counterpart of an active option wrote for it is handed to that option.
SubnegotiationsReachTheirOption ==
    \A m \in Machines : \A o \in Awaiting(m) :
        subnegotiation_router_[m][option_code(o)] = o

\* The same where a machine has each option code in one role only.
SubnegotiationsReachOnlyOption ==
    \A m \in Machines : \A o \in Awaiting(m) :
        <<m, Opposite(role(o)), option_code(o)>> \notin Options =>
            subnegotiation_router_[m][option_code(o)] = o

\* What is on its way to the option o, or to where it would be.
Addressed(o) ==
    [elem \in {x \in element : x.code = option_code(o) /\ x.to = role(o)} |-> elem.what]

Between(o) == Project(wire[machine(o)], Addressed(o))

\* The two ends of the option with code c that m serves.
End(m, c, r) == <<IF r = "server" THEN m ELSE Peer(m), r, c>>

\* Each option that both ends have installed beforehand, on its own, is the
\* option pair: the elements of other options and of the opposite role, in
\* between on the same connection, make no difference.
Pair(m, c) == INSTANCE OptionPair WITH
    state_ <- [r \in Roles |-> state_[End(m, c, r)]],
    wire <- [r \in Roles |-> Between(End(m, c, r))],
    Unchecked <- {}

Paired == {o \in Installed : role(o) = "server" /\ Counterpart(o) \in Installed}

ImplementsPairs ==
    /\ \A o \in Paired : Pair(machine(o), option_code(o))!Init
    /\ [][\A o \in Paired :
            \/ Pair(machine(o), option_code(o))!Next
            \/ UNCHANGED Pair(machine(o), option_code(o))!vars]_vars
===============================================================================
