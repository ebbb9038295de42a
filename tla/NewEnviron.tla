------------------------------- MODULE NewEnviron -------------------------------
(***************************************************************************)
(* The NEW-ENVIRON option (src/options/new_environ): a server that holds   *)
(* environment variables and a client that is told of them, over the       *)
(* option pair of OptionPair.  The server reports every change while it is *)
(* active, and answers requests; the client passes on what it is told, and *)
(* its program keeps it.  Changes made while the option is off are not     *)
(* reported, and what arrives while it is off is dropped: the question is  *)
(* what the copy is then worth.                                            *)
(***************************************************************************)
EXTENDS NewEnvironCodec

CONSTANTS
    Names,      \* the names of the variables; either type may have each
    Values,     \* the values they may be given
    Queries,    \* the lists of requests the client's program may make
    MaxWire     \* bound: no program writes a subnegotiation while this much is
                \* under way, both directions together (answers are never
                \* refused), nor a request while as many are unanswered

Keys == [type : variable_type, name : Names]

\* The value of a variable, if there is such a variable; all variables; and
\* what one end tells the other of a variable.
Optional == {<<>>} \cup {<<v>> : v \in Values}
Copies == [Keys -> Optional]
Reports == [type : variable_type, name : Names, value : Optional]

\* An empty name is taken for the end of a message (Payloads); programs that
\* use one are left out here.
ASSUME NewEnvironAssumption ==
    /\ Names \subseteq Seq(Byte) \ {<<>>}
    /\ Values \subseteq Seq(Byte)
    /\ Queries \subseteq Seq([type : variable_type, name : Names])
    /\ MaxWire \in Nat

VARIABLES
    state_,     \* option::state_ at each end
    wire,       \* the negotiations and "sub"s each end has not yet read
    content,    \* the content of those "sub"s, in the same order
    variables_, \* server::variables_ and user_variables_; <<>>: no such variable
    known,      \* what the client's program has been told of each variable
    behind,     \* history: variables whose last change has not been written,
                \* or was written and dropped by the client
    awaited     \* history: unanswered requests that the client wrote since it
                \* last called activate(), or agreed to be active

pair == <<state_, wire>>
vars == <<state_, wire, content, variables_, known, behind, awaited>>

\* request_variables asks without asking active() first.
Pair == INSTANCE OptionPair WITH Unchecked <- {"client"}

Ends == Pair!Ends
Other(e) == Pair!Other(e)
active(e) == Pair!active(e)

Init ==
    /\ Pair!Init
    /\ content = [e \in Ends |-> <<>>]
    /\ variables_ = [k \in Keys |-> <<>>]
    /\ known = [k \in Keys |-> <<>>]
    /\ behind = {}
    /\ awaited = 0

-------------------------------------------------------------------------------
\* The variables that a message to the client is about.
Mentioned(data) ==
    LET rsps == for_each_response(data)
    IN {[type |-> rsps[i].type, name |-> rsps[i].name] : i \in DOMAIN rsps}

with_value(k, v) == [type |-> k.type, name |-> k.name, value |-> v]

\* option::write_subnegotiation, by a program.
write_subnegotiation(e, data) ==
    /\ Len(wire[e]) + Len(wire[Other(e)]) < MaxWire
    /\ Pair!write_subnegotiation(e)
    /\ content' = [content EXCEPT ![Other(e)] = Append(@, data)]

\* server::broadcast_variable_update, or broadcast_variable_deletion.
broadcast(k, v) ==
    /\ write_subnegotiation("server", response_content(info, <<with_value(k, v)>>))
    /\ behind' = behind \ {k}

(***************************************************************************)
(* Mutants: none of them is part of Next.                                  *)
(***************************************************************************)
\* A change is reported before it is made.
report_old_value(k, v) ==
    /\ variables_' = [variables_ EXCEPT ![k] = v]
    /\ IF active("server")
       THEN broadcast(k, variables_[k])
       ELSE /\ behind' = IF v = variables_[k] THEN behind ELSE behind \cup {k}
            /\ UNCHANGED <<pair, content>>
    /\ UNCHANGED <<known, awaited>>

\* One answer for each variable that is reported.
answer_each(data, rsps) ==
    /\ wire' = [wire EXCEPT !["server"] = Tail(@),
                            !["client"] = @ \o [i \in DOMAIN rsps |-> "sub"]]
    /\ UNCHANGED state_
    /\ content' = [content EXCEPT
          !["server"] = Tail(@),
          !["client"] = @ \o [i \in DOMAIN rsps |-> response_content(is, <<rsps[i]>>)]]
    /\ behind' = behind \ {[type |-> rsps[i].type, name |-> rsps[i].name] : i \in DOMAIN rsps}
    /\ UNCHANGED <<variables_, known, awaited>>
-------------------------------------------------------------------------------
(***************************************************************************)
(* The calls of the programs.                                              *)
(***************************************************************************)
activate(e) ==
    /\ Pair!activate(e)
    /\ UNCHANGED <<content, variables_, known, behind, awaited>>

deactivate(e) ==
    /\ Pair!deactivate(e)
    /\ awaited' = IF e = "client" THEN 0 ELSE awaited
    /\ UNCHANGED <<content, variables_, known, behind>>

\* What the four server functions do to a variable, and broadcast if active.
change(k, v) ==
    /\ variables_' = [variables_ EXCEPT ![k] = v]
    /\ IF active("server")
       THEN broadcast(k, v)
       ELSE /\ behind' = IF v = variables_[k] THEN behind ELSE behind \cup {k}
            /\ UNCHANGED <<pair, content>>
    /\ UNCHANGED <<known, awaited>>

set_variable(name, v) == change([type |-> "var", name |-> name], <<v>>)
delete_variable(name) == change([type |-> "var", name |-> name], <<>>)
set_user_variable(name, v) == change([type |-> "uservar", name |-> name], <<v>>)
delete_user_variable(name) == change([type |-> "uservar", name |-> name], <<>>)

\* client::request_variables; an empty list asks for everything.
request_variables(reqs) ==
    /\ awaited < MaxWire
    /\ write_subnegotiation("client", request_content(reqs))
    /\ awaited' =
          IF state_["client"] \in {"activating", "active"} THEN awaited + 1 ELSE awaited
    /\ UNCHANGED <<variables_, known, behind>>

-------------------------------------------------------------------------------
(***************************************************************************)
(* What is read.                                                           *)
(***************************************************************************)
\* option::negotiate.  A client that is not active any more has nothing to
\* wait for.
negotiate(e) ==
    /\ Pair!negotiate(e)
    /\ awaited' = IF e = "client" /\ state_'["client"] # "active" THEN 0 ELSE awaited
    /\ UNCHANGED <<content, variables_, known, behind>>

\* The variables the server holds, VARs first, each kind in the order of the
\* names in the code's map (any order here).
AllHeld ==
    LET held(type) == SetToSeq({k \in Keys : k.type = type /\ variables_[k] # <<>>})
    IN held("var") \o held("uservar")

\* The requests of the client for which there is a variable.
Held(reqs) ==
    Only(reqs, {k \in Keys : variables_[k] # <<>>})

\* server::handle_subnegotiation
responses(data) ==
    LET keys == IF Len(data) = 1 THEN AllHeld ELSE Held(for_each_request(data))
    IN [i \in DOMAIN keys |-> with_value(keys[i], variables_[keys[i]])]

answer(data, rsps) ==
    /\ Pair!read_and_write("server", "sub")
    /\ UNCHANGED state_
    /\ content' = [content EXCEPT !["server"] = Tail(@),
                                  !["client"] = Append(@, response_content(is, rsps))]
    /\ behind' = behind \ {[type |-> rsps[i].type, name |-> rsps[i].name] : i \in DOMAIN rsps}
    /\ UNCHANGED <<variables_, known, awaited>>

subnegotiate_server ==
    /\ wire["server"] # <<>>
    /\ Head(wire["server"]) = "sub"
    /\ LET data == Head(content["server"]) IN
       IF active("server")
       THEN answer(data, responses(data))
       ELSE /\ Pair!subnegotiate("server")
            /\ content' = [content EXCEPT !["server"] = Tail(@)]
            /\ UNCHANGED <<variables_, known, behind, awaited>>

\* client::handle_subnegotiation, and the program that it calls.
on_variable_changed(copy, rsp) ==
    [copy EXCEPT ![[type |-> rsp.type, name |-> rsp.name]] = rsp.value]

told == [z \in Copies \X Reports |-> on_variable_changed(z[1], z[2])]

\* Later messages that the client has yet to read are about these.
MentionedLater == UNION {Mentioned(content["client"][i]) : i \in 2..Len(content["client"])}

subnegotiate_client ==
    /\ Pair!subnegotiate("client")
    /\ content' = [content EXCEPT !["client"] = Tail(@)]
    /\ LET data == Head(content["client"]) IN
       IF active("client")
       THEN /\ known' = Folded(told, known, for_each_response(data))
            /\ awaited' = IF Head(data) = is THEN awaited - 1 ELSE awaited
            /\ UNCHANGED behind
       ELSE /\ behind' = behind \cup (Mentioned(data) \ MentionedLater)
            /\ UNCHANGED <<known, awaited>>
    /\ UNCHANGED variables_

Next ==
    \/ \E e \in Ends : activate(e) \/ deactivate(e) \/ negotiate(e)
    \/ \E name \in Names :
          \/ \E v \in Values : set_variable(name, v) \/ set_user_variable(name, v)
          \/ delete_variable(name)
          \/ delete_user_variable(name)
    \/ \E reqs \in Queries : request_variables(reqs)
    \/ subnegotiate_server
    \/ subnegotiate_client

Spec == Init /\ [][Next]_vars

-------------------------------------------------------------------------------
(***************************************************************************)
(* Properties.                                                             *)
(***************************************************************************)
\* The variables keep their types; every subnegotiation has its content; and no
\* answer comes that was not asked for.
TypeOK ==
    /\ Pair!TypeOK
    /\ content \in [Ends -> Seq(Seq(Byte))]
    /\ \A e \in Ends : Len(content[e]) = Len(Only(wire[e], {"sub"}))
    /\ variables_ \in Copies
    /\ known \in Copies
    /\ behind \subseteq Keys
    /\ awaited \in Nat

\* Once the client has read what the server wrote, its copy is right in every
\* variable but those whose last change was made, or arrived, while the option
\* was off: however changes and answers to requests were interleaved, an older
\* value never replaces a newer one.
UpToDate ==
    content["client"] = <<>> =>
        \A k \in Keys \ behind : known[k] = variables_[k]

\* A client is answered once for each request it makes while it is active, or
\* has asked to be, and stays so: also when the server has nothing to say, and
\* whatever negotiations the requests and the answers met on the way.
EveryRequestAnswered ==
    (\A e \in Ends : wire[e] = <<>>) => awaited = 0
===============================================================================
