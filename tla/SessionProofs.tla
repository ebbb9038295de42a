------------------------------ MODULE SessionProofs ------------------------------
(***************************************************************************)
(* Session, for every set of codes and options, installed or not.          *)
(***************************************************************************)
EXTENDS SessionInvariant, WiresProofs

LEMMA RoleFacts ==
    ASSUME NEW r \in Roles
    PROVE  /\ Opposite(r) \in Roles /\ Opposite(Opposite(r)) = r /\ Opposite(r) # r
           /\ {local_positive(r), local_negative(r), remote_positive(r), remote_negative(r)}
                = negotiation_type
           /\ local_positive(r) # local_negative(r) /\ remote_positive(r) # remote_negative(r)
           /\ local_positive(Opposite(r)) = remote_positive(r)
           /\ local_negative(Opposite(r)) = remote_negative(r)
           /\ remote_positive(Opposite(r)) = local_positive(r)
           /\ remote_negative(Opposite(r)) = local_negative(r)
           /\ Addressee(local_positive(r)) = Opposite(r) /\ Addressee(local_negative(r)) = Opposite(r)
           /\ Addressee(remote_positive(r)) = r /\ Addressee(remote_negative(r)) = r
           /\ \A verb \in negotiation_type :
                  Addressee(verb) = r <=> verb \in {remote_positive(r), remote_negative(r)}
BY DEF Roles, Opposite, local_positive, local_negative, remote_positive, remote_negative,
       negotiation_type, Addressee

LEMMA MachineFacts ==
    ASSUME NEW m \in Machines
    PROVE  /\ Peer(m) \in Machines /\ Peer(Peer(m)) = m /\ Peer(m) # m
           /\ \A n \in Machines : n = m \/ n = Peer(m)
BY DEF Machines, Peer

LEMMA PlaceFacts ==
    ASSUME NEW o \in Places
    PROVE  /\ machine(o) \in Machines /\ role(o) \in Roles /\ option_code(o) \in Codes
           /\ o = <<machine(o), role(o), option_code(o)>>
           /\ Counterpart(o) \in Places
           /\ machine(Counterpart(o)) = Peer(machine(o))
           /\ role(Counterpart(o)) = Opposite(role(o))
           /\ option_code(Counterpart(o)) = option_code(o)
           /\ Counterpart(Counterpart(o)) = o /\ Counterpart(o) # o
<1>1. /\ machine(o) \in Machines /\ role(o) \in Roles /\ option_code(o) \in Codes
      /\ o = <<machine(o), role(o), option_code(o)>>
  BY DEF Places, machine, role, option_code
<1>2. Peer(machine(o)) \in Machines /\ Peer(Peer(machine(o))) = machine(o) /\ Peer(machine(o)) # machine(o)
  BY <1>1, MachineFacts
<1>3. Opposite(role(o)) \in Roles /\ Opposite(Opposite(role(o))) = role(o)
  BY <1>1, RoleFacts
<1>. QED BY <1>1, <1>2, <1>3 DEF Places, Counterpart, machine, role, option_code

\* The place of an element: the option it is for.
LEMMA PlaceIs ==
    ASSUME NEW m \in Machines, NEW r \in Roles, NEW c \in Codes
    PROVE  /\ <<m, r, c>> \in Places
           /\ machine(<<m, r, c>>) = m /\ role(<<m, r, c>>) = r /\ option_code(<<m, r, c>>) = c
           /\ \A o \in Places : machine(o) = m /\ role(o) = r /\ option_code(o) = c <=> o = <<m, r, c>>
BY DEF Places, machine, role, option_code

LEMMA OptionFacts ==
    /\ Options \subseteq Places /\ Installed \subseteq Options
    /\ NoRoute \notin Places
    /\ MaxWire \in Nat /\ ActivateUninstalled \in BOOLEAN
BY SessionAssumption DEF Places, NoRoute

LEMMA ElementFacts ==
    /\ \A verb \in negotiation_type, c \in Codes :
          /\ negotiation(verb, c) \in element
          /\ negotiation(verb, c).what = verb /\ negotiation(verb, c).code = c
          /\ negotiation(verb, c).to = Addressee(verb)
    /\ \A c \in Codes, r \in Roles :
          /\ subnegotiation(c, r) \in element
          /\ subnegotiation(c, r).what = "sub" /\ subnegotiation(c, r).code = c
          /\ subnegotiation(c, r).to = r
    /\ \A elem \in element :
          /\ elem.what \in negotiation_type \cup {"sub"} /\ elem.code \in Codes /\ elem.to \in Roles
          /\ elem.what # "sub" => elem.what \in negotiation_type /\ elem.to = Addressee(elem.what)
    /\ "sub" \notin negotiation_type
BY DEF negotiation, subnegotiation, element, negotiation_type, Addressee, Roles

-------------------------------------------------------------------------------
(***************************************************************************)
(* Types, and the routes.                                                  *)
(***************************************************************************)
RouteTypes ==
    /\ negotiation_router_ \in
          [Machines -> [negotiation_type \X Codes -> Options \cup {NoRoute}]]
    /\ \A m \in Machines, verb \in negotiation_type, c \in Codes :
          negotiation_router_[m][<<verb, c>>] \in {<<m, Addressee(verb), c>>, NoRoute}
    /\ subnegotiation_router_ \in [Machines -> [Codes -> Options \cup {NoRoute}]]
    /\ \A m \in Machines, c \in Codes :
          subnegotiation_router_[m][c] \in {<<m, r, c>> : r \in Roles} \cup {NoRoute}

LEMMA TypeUnfolded ==
    TypeOK <=> /\ state_ \in [Options -> internal_state]
               /\ wire \in [Machines -> Seq(element)]
               /\ RouteTypes
BY DEF TypeOK, RouteTypes

LEMMA StateFacts ==
    /\ internal_state = {"inactive", "activating", "active", "deactivating"}
BY DEF internal_state

LEMMA BecomeFacts ==
    ASSUME state_ \in [Options -> internal_state], NEW o \in Options, NEW s \in internal_state,
           become(o, s)
    PROVE  /\ state_' \in [Options -> internal_state]
           /\ state_'[o] = s
           /\ \A q \in Options : q # o => state_'[q] = state_[q]
BY DEF become

LEMMA WriteFacts ==
    ASSUME wire \in [Machines -> Seq(element)], NEW m \in Machines, NEW elem \in element,
           write(m, elem)
    PROVE  /\ wire' \in [Machines -> Seq(element)]
           /\ wire'[m] = wire[m] /\ wire'[Peer(m)] = Append(wire[Peer(m)], elem)
<1>1. Peer(m) \in Machines /\ Peer(m) # m
  BY MachineFacts
<1> HIDE DEF Machines
<1>. QED BY <1>1 DEF write

LEMMA ReadFacts ==
    ASSUME wire \in [Machines -> Seq(element)], NEW m \in Machines, wire[m] # <<>>, read(m)
    PROVE  /\ wire' \in [Machines -> Seq(element)]
           /\ wire'[m] = Tail(wire[m]) /\ wire'[Peer(m)] = wire[Peer(m)]
<1>1. Peer(m) \in Machines /\ Peer(m) # m
  BY MachineFacts
<1>2. Tail(wire[m]) \in Seq(element)
  OBVIOUS
<1>. QED BY <1>1, <1>2 DEF read

LEMMA ReadAndWriteFacts ==
    ASSUME wire \in [Machines -> Seq(element)], NEW m \in Machines, wire[m] # <<>>,
           NEW elem \in element, read_and_write(m, elem)
    PROVE  /\ wire' \in [Machines -> Seq(element)]
           /\ wire'[m] = Tail(wire[m]) /\ wire'[Peer(m)] = Append(wire[Peer(m)], elem)
<1>1. Peer(m) \in Machines /\ Peer(m) # m
  BY MachineFacts
<1>2. Tail(wire[m]) \in Seq(element) /\ Append(wire[Peer(m)], elem) \in Seq(element)
  BY <1>1
<1>. QED BY <1>1, <1>2 DEF read_and_write

LEMMA InitType == Init => TypeOK
<1> SUFFICES ASSUME Init PROVE TypeOK
  OBVIOUS
<1>1. state_ \in [Options -> internal_state]
  BY StateFacts DEF Init
<1>2. wire \in [Machines -> Seq(element)]
  BY DEF Init
<1>3. ASSUME NEW m \in Machines, NEW k \in negotiation_type \X Codes
      PROVE  negotiation_router_[m][k] =
                IF <<m, Addressee(k[1]), k[2]>> \in Installed THEN <<m, Addressee(k[1]), k[2]>> ELSE NoRoute
  BY <1>3 DEF Init
<1>4. negotiation_router_ \in [Machines -> [negotiation_type \X Codes -> Options \cup {NoRoute}]]
  BY OptionFacts DEF Init
<1>5. \A m \in Machines, verb \in negotiation_type, c \in Codes :
          negotiation_router_[m][<<verb, c>>] \in {<<m, Addressee(verb), c>>, NoRoute}
  <2> SUFFICES ASSUME NEW m \in Machines, NEW verb \in negotiation_type, NEW c \in Codes
               PROVE  negotiation_router_[m][<<verb, c>>] \in {<<m, Addressee(verb), c>>, NoRoute}
    OBVIOUS
  <2>1. <<verb, c>> \in negotiation_type \X Codes /\ <<verb, c>>[1] = verb /\ <<verb, c>>[2] = c
    OBVIOUS
  <2>. QED BY <1>3, <2>1
<1>6. PICK last \in [Machines -> [Codes -> Options \cup {NoRoute}]] :
          /\ subnegotiation_router_ = last
          /\ \A m \in Machines, c \in Codes :
                \/ last[m][c] = NoRoute
                \/ last[m][c] \in {o \in InstalledAt(m) : option_code(o) = c}
  BY DEF Init
<1>7. ASSUME NEW m \in Machines, NEW c \in Codes
      PROVE  subnegotiation_router_[m][c] \in {<<m, r, c>> : r \in Roles} \cup {NoRoute}
  <2>1. CASE subnegotiation_router_[m][c] = NoRoute
    BY <2>1
  <2>2. CASE subnegotiation_router_[m][c] \in {o \in InstalledAt(m) : option_code(o) = c}
    <3>1. PICK o \in InstalledAt(m) : option_code(o) = c /\ subnegotiation_router_[m][c] = o
      BY <2>2
    <3>2. o \in Places /\ machine(o) = m
      BY <3>1, OptionFacts DEF InstalledAt
    <3>3. o = <<m, role(o), c>> /\ role(o) \in Roles
      BY <3>1, <3>2, PlaceFacts
    <3>. QED BY <3>1, <3>3
  <2>. QED BY <1>6, <2>1, <2>2
<1>. QED BY <1>1, <1>2, <1>4, <1>5, <1>6, <1>7, TypeUnfolded DEF RouteTypes

\* The routes of a newly installed option.
LEMMA InstallFacts ==
    ASSUME RouteTypes, NEW o \in Options, install(o)
    PROVE  /\ RouteTypes'
           /\ \A m \in Machines, verb \in negotiation_type, c \in Codes :
                 negotiation_router_'[m][<<verb, c>>] =
                    IF o = <<m, Addressee(verb), c>> THEN o ELSE negotiation_router_[m][<<verb, c>>]
           /\ \A m \in Machines, c \in Codes :
                 subnegotiation_router_'[m][c] =
                    IF m = machine(o) /\ c = option_code(o) THEN o ELSE subnegotiation_router_[m][c]
<1> DEFINE keys == negotiation_type \X Codes
           n == negotiation_router_
           s == subnegotiation_router_
           mm == machine(o)
           cc == option_code(o)
           mine == {remote_positive(role(o)), remote_negative(role(o))} \X {cc}
           f == [k \in keys |-> IF k \in mine THEN o ELSE n[mm][k]]
           g == [c \in Codes |-> IF c = cc THEN o ELSE s[mm][c]]
<1>1. o \in Places /\ mm \in Machines /\ role(o) \in Roles /\ cc \in Codes /\ o = <<mm, role(o), cc>>
  BY OptionFacts, PlaceFacts
<1>2. /\ n \in [Machines -> [keys -> Options \cup {NoRoute}]]
      /\ s \in [Machines -> [Codes -> Options \cup {NoRoute}]]
  BY DEF RouteTypes
<1>3. DOMAIN n[mm] = keys /\ n[mm] \in [keys -> Options \cup {NoRoute}]
      /\ s[mm] \in [Codes -> Options \cup {NoRoute}]
  BY <1>1, <1>2
<1>4. n' = [n EXCEPT ![mm] = f]
  BY <1>3 DEF install, register_negotiation
<1>5. s' = [s EXCEPT ![mm] = g]
  <2>1. s' = [s EXCEPT ![mm][cc] = o]
    BY DEF install, register_subnegotiation
  <2>2. [s[mm] EXCEPT ![cc] = o] = g
    BY <1>1, <1>3
  <2>. QED BY <2>1, <2>2
<1>6. \A verb \in negotiation_type, c \in Codes : <<verb, c>> \in mine <=>
          Addressee(verb) = role(o) /\ c = cc
  BY <1>1, RoleFacts
<1>7. f \in [keys -> Options \cup {NoRoute}] /\ g \in [Codes -> Options \cup {NoRoute}]
  BY <1>3
<1>8. ASSUME NEW verb \in negotiation_type, NEW c \in Codes
      PROVE  f[<<verb, c>>] = IF Addressee(verb) = role(o) /\ c = cc THEN o ELSE n[mm][<<verb, c>>]
  BY <1>6, <1>8
<1>9. \A c \in Codes : g[c] = IF c = cc THEN o ELSE s[mm][c]
  OBVIOUS
<1> HIDE DEF f, g, mine, keys, mm, cc
<1>10. /\ n' \in [Machines -> [keys -> Options \cup {NoRoute}]]
       /\ n'[mm] = f /\ \A m \in Machines : m # mm => n'[m] = n[m]
  BY <1>1, <1>2, <1>4, <1>7
<1>11. /\ s' \in [Machines -> [Codes -> Options \cup {NoRoute}]]
       /\ s'[mm] = g /\ \A m \in Machines : m # mm => s'[m] = s[m]
  BY <1>1, <1>2, <1>5, <1>7
<1>12. ASSUME NEW m \in Machines, NEW verb \in negotiation_type, NEW c \in Codes
       PROVE  n'[m][<<verb, c>>] = IF o = <<m, Addressee(verb), c>> THEN o ELSE n[m][<<verb, c>>]
  <2>1. o = <<m, Addressee(verb), c>> <=> m = mm /\ Addressee(verb) = role(o) /\ c = cc
    BY <1>1
  <2>. QED BY <1>8, <1>10, <2>1
<1>13. ASSUME NEW m \in Machines, NEW c \in Codes
       PROVE  s'[m][c] = IF m = mm /\ c = cc THEN o ELSE s[m][c]
  BY <1>9, <1>11, <1>13
<1>14. ASSUME NEW m \in Machines, NEW verb \in negotiation_type, NEW c \in Codes
       PROVE  n'[m][<<verb, c>>] \in {<<m, Addressee(verb), c>>, NoRoute}
  BY <1>12, <1>14 DEF RouteTypes
<1>15. ASSUME NEW m \in Machines, NEW c \in Codes
       PROVE  s'[m][c] \in {<<m, r, c>> : r \in Roles} \cup {NoRoute}
  <2>1. s[m][c] \in {<<m, r, c>> : r \in Roles} \cup {NoRoute}
    BY DEF RouteTypes
  <2>. QED BY <1>1, <1>13, <2>1
<1>. QED BY <1>10, <1>11, <1>12, <1>13, <1>14, <1>15 DEF RouteTypes, keys, mm, cc

\* What route_negotiation finds: the option that the verb is for, or nothing.
LEMMA RouteFacts ==
    ASSUME RouteTypes, NEW m \in Machines, NEW neg \in element, neg.what \in negotiation_type
    PROVE  LET o == <<m, neg.to, neg.code>>
               route == negotiation_router_[m][<<neg.what, neg.code>>]
           IN  route = NoRoute \/ (route = o /\ o \in Options)
<1>1. neg.to = Addressee(neg.what) /\ neg.code \in Codes
  BY ElementFacts
<1>2. <<neg.what, neg.code>> \in negotiation_type \X Codes
  BY <1>1
<1>3. negotiation_router_[m][<<neg.what, neg.code>>] \in Options \cup {NoRoute}
  BY <1>2 DEF RouteTypes
<1>4. negotiation_router_[m][<<neg.what, neg.code>>] \in {<<m, neg.to, neg.code>>, NoRoute}
  BY <1>1 DEF RouteTypes
<1>. QED BY <1>3, <1>4

-------------------------------------------------------------------------------
(***************************************************************************)
(* What a step does to one option and to what is on its way to and from    *)
(* it, and that it does nothing to any other.                              *)
(***************************************************************************)
LEMMA AddressedFacts ==
    ASSUME NEW m \in Machines, NEW elem \in element
    PROVE  /\ <<m, elem.to, elem.code>> \in Places
           /\ \A q \in Places : machine(q) = m =>
                 (elem \in DOMAIN Addressed(q) <=> q = <<m, elem.to, elem.code>>)
           /\ \A q : elem \in DOMAIN Addressed(q) => Addressed(q)[elem] = elem.what
<1>1. elem.code \in Codes /\ elem.to \in Roles
  BY ElementFacts
<1>2. \A q : elem \in DOMAIN Addressed(q) <=> elem.code = option_code(q) /\ elem.to = role(q)
  BY DEF Addressed
<1>3. \A q : elem \in DOMAIN Addressed(q) => Addressed(q)[elem] = elem.what
  BY DEF Addressed
<1>. QED BY <1>1, <1>2, <1>3, PlaceIs

LEMMA BetweenAppend ==
    ASSUME wire \in [Machines -> Seq(element)], NEW m \in Machines, NEW elem \in element,
           wire'[m] = Append(wire[m], elem), NEW q \in Places, machine(q) = m
    PROVE  Between(q)' = IF q = <<m, elem.to, elem.code>> THEN Append(Between(q), elem.what)
                                                         ELSE Between(q)
<1>1. wire[m] \in Seq(element)
  OBVIOUS
<1>2. Project(Append(wire[m], elem), Addressed(q))
        = Seen(Project(wire[m], Addressed(q)), elem, Addressed(q))
  BY <1>1, ProjectAppend
<1>3. Between(q) = Project(wire[m], Addressed(q))
  BY DEF Between
<1>4. Between(q)' = Project(wire'[m], Addressed(q))
  BY DEF Between
<1>. QED BY <1>2, <1>3, <1>4, AddressedFacts DEF Seen

LEMMA BetweenRead ==
    ASSUME wire \in [Machines -> Seq(element)], NEW m \in Machines, wire[m] # <<>>,
           wire'[m] = Tail(wire[m]), NEW q \in Places, machine(q) = m
    PROVE  IF q = <<m, Head(wire[m]).to, Head(wire[m]).code>>
           THEN /\ Between(q) # <<>> /\ Head(Between(q)) = Head(wire[m]).what
                /\ Between(q)' = Tail(Between(q))
           ELSE Between(q)' = Between(q)
<1>1. wire[m] \in Seq(element)
  OBVIOUS
<1>2. Head(wire[m]) \in element
  BY <1>1
<1>3. /\ Head(wire[m]) \in DOMAIN Addressed(q) =>
           /\ Project(wire[m], Addressed(q)) # <<>>
           /\ Head(Project(wire[m], Addressed(q))) = Addressed(q)[Head(wire[m])]
           /\ Project(Tail(wire[m]), Addressed(q)) = Tail(Project(wire[m], Addressed(q)))
      /\ Head(wire[m]) \notin DOMAIN Addressed(q) =>
           Project(Tail(wire[m]), Addressed(q)) = Project(wire[m], Addressed(q))
  BY <1>1, ProjectRead
<1>4. Between(q) = Project(wire[m], Addressed(q))
  BY DEF Between
<1>5. Between(q)' = Project(wire'[m], Addressed(q))
  BY DEF Between
<1>. QED BY <1>2, <1>3, <1>4, <1>5, AddressedFacts

LEMMA BetweenSame ==
    ASSUME NEW q \in Places, wire'[machine(q)] = wire[machine(q)]
    PROVE  Between(q)' = Between(q)
BY DEF Between

BetweenTypes == negotiation_type \cup {"sub"}

LEMMA BetweenType ==
    ASSUME wire \in [Machines -> Seq(element)], NEW q \in Places
    PROVE  Between(q) \in Seq(BetweenTypes)
<1>1. wire[machine(q)] \in Seq(element)
  BY PlaceFacts
<1>2. Len(wire[machine(q)]) \in Nat
  BY <1>1
<1>3. Between(q) \in Seq(Image(Addressed(q)))
  BY <1>2, ProjectType DEF Between
<1>4. \A elem \in DOMAIN Addressed(q) :
          elem \in element /\ Addressed(q)[elem] \in BetweenTypes
  <2>1. \A elem \in DOMAIN Addressed(q) : elem \in element /\ Addressed(q)[elem] = elem.what
    BY DEF Addressed
  <2>. QED BY <2>1, ElementFacts DEF BetweenTypes
<1>5. Image(Addressed(q)) \subseteq BetweenTypes
  BY <1>4 DEF Image
<1>. QED BY <1>3, <1>5

Moves(o, mine, sent, received) ==
    /\ status(o)' = mine
    /\ Between(Counterpart(o))' = sent
    /\ Between(o)' = received
    /\ \A q \in Places : q # o => status(q)' = status(q)
    /\ \A q \in Places : q \notin {o, Counterpart(o)} => Between(q)' = Between(q)

\* An element written, for the counterpart of o.
LEMMA WriteMoves ==
    ASSUME wire \in [Machines -> Seq(element)], NEW o \in Places, NEW elem \in element,
           write(machine(o), elem),
           elem.to = Opposite(role(o)), elem.code = option_code(o),
           NEW mine, status(o)' = mine, \A q \in Places : q # o => status(q)' = status(q)
    PROVE  Moves(o, mine, Append(Between(Counterpart(o)), elem.what), Between(o))
<1> DEFINE m == machine(o)
           p == Counterpart(o)
<1>1. m \in Machines /\ p \in Places /\ machine(p) = Peer(m) /\ p = <<Peer(m), elem.to, elem.code>>
  BY PlaceFacts
<1>2. Peer(m) \in Machines /\ Peer(m) # m /\ \A n \in Machines : n = m \/ n = Peer(m)
  BY <1>1, MachineFacts
<1>3. wire'[m] = wire[m] /\ wire'[Peer(m)] = Append(wire[Peer(m)], elem)
  BY <1>1, WriteFacts
<1>4. ASSUME NEW q \in Places, machine(q) = m PROVE Between(q)' = Between(q)
  BY <1>3, <1>4, BetweenSame
<1>5. ASSUME NEW q \in Places, machine(q) = Peer(m)
      PROVE  Between(q)' = IF q = p THEN Append(Between(q), elem.what) ELSE Between(q)
  BY <1>1, <1>2, <1>3, <1>5, BetweenAppend
<1>6. \A q \in Places : machine(q) = m \/ machine(q) = Peer(m)
  BY <1>2, PlaceFacts
<1>. QED BY <1>1, <1>4, <1>5, <1>6 DEF Moves

\* An element read, for o.
LEMMA ReadMoves ==
    ASSUME wire \in [Machines -> Seq(element)], NEW m \in Machines, wire[m] # <<>>, read(m),
           NEW o, o = <<m, Head(wire[m]).to, Head(wire[m]).code>>,
           NEW mine, status(o)' = mine, \A q \in Places : q # o => status(q)' = status(q)
    PROVE  /\ Moves(o, mine, Between(Counterpart(o)), Tail(Between(o)))
           /\ Between(o) # <<>> /\ Head(Between(o)) = Head(wire[m]).what
<1> DEFINE p == Counterpart(o)
<1>0. wire[m] \in Seq(element) /\ Head(wire[m]) \in element
  OBVIOUS
<1>1. o \in Places /\ machine(o) = m /\ p \in Places /\ machine(p) = Peer(m)
  BY <1>0, AddressedFacts, PlaceIs, PlaceFacts, ElementFacts
<1>2. Peer(m) \in Machines /\ Peer(m) # m /\ \A n \in Machines : n = m \/ n = Peer(m)
  BY <1>1, MachineFacts
<1>3. wire'[m] = Tail(wire[m]) /\ wire'[Peer(m)] = wire[Peer(m)]
  BY ReadFacts
<1>4. ASSUME NEW q \in Places, machine(q) = Peer(m) PROVE Between(q)' = Between(q)
  BY <1>3, <1>4, BetweenSame
<1>5. ASSUME NEW q \in Places, machine(q) = m
      PROVE  IF q = o
             THEN /\ Between(q) # <<>> /\ Head(Between(q)) = Head(wire[m]).what
                  /\ Between(q)' = Tail(Between(q))
             ELSE Between(q)' = Between(q)
  BY <1>3, <1>5, BetweenRead
<1>6. \A q \in Places : machine(q) = m \/ machine(q) = Peer(m)
  BY <1>2, PlaceFacts
<1>. QED BY <1>1, <1>4, <1>5, <1>6 DEF Moves

\* An element read, and one written in answer.
LEMMA ReadAndWriteMoves ==
    ASSUME wire \in [Machines -> Seq(element)], NEW m \in Machines, wire[m] # <<>>,
           NEW o, o = <<m, Head(wire[m]).to, Head(wire[m]).code>>,
           NEW elem \in element, read_and_write(m, elem),
           elem.to = Opposite(role(o)), elem.code = option_code(o),
           NEW mine, status(o)' = mine, \A q \in Places : q # o => status(q)' = status(q)
    PROVE  /\ Moves(o, mine, Append(Between(Counterpart(o)), elem.what), Tail(Between(o)))
           /\ Between(o) # <<>> /\ Head(Between(o)) = Head(wire[m]).what
<1> DEFINE p == Counterpart(o)
<1>0. wire[m] \in Seq(element) /\ Head(wire[m]) \in element
  OBVIOUS
<1>1. /\ o \in Places /\ machine(o) = m /\ p \in Places /\ machine(p) = Peer(m)
      /\ p = <<Peer(m), elem.to, elem.code>>
  BY <1>0, AddressedFacts, PlaceIs, PlaceFacts, ElementFacts
<1>2. Peer(m) \in Machines /\ Peer(m) # m /\ \A n \in Machines : n = m \/ n = Peer(m)
  BY <1>1, MachineFacts
<1>3. wire'[m] = Tail(wire[m]) /\ wire'[Peer(m)] = Append(wire[Peer(m)], elem)
  BY ReadAndWriteFacts
<1>4. ASSUME NEW q \in Places, machine(q) = Peer(m)
      PROVE  Between(q)' = IF q = p THEN Append(Between(q), elem.what) ELSE Between(q)
  BY <1>1, <1>2, <1>3, <1>4, BetweenAppend
<1>5. ASSUME NEW q \in Places, machine(q) = m
      PROVE  IF q = o
             THEN /\ Between(q) # <<>> /\ Head(Between(q)) = Head(wire[m]).what
                  /\ Between(q)' = Tail(Between(q))
             ELSE Between(q)' = Between(q)
  BY <1>3, <1>5, BetweenRead
<1>6. \A q \in Places : machine(q) = m \/ machine(q) = Peer(m)
  BY <1>2, PlaceFacts
<1>. QED BY <1>1, <1>2, <1>4, <1>5, <1>6 DEF Moves

\* A step that leaves the options alone.
LEMMA StatusSame ==
    ASSUME UNCHANGED state_
    PROVE  \A q : status(q)' = status(q)
BY DEF status

LEMMA StatusBecome ==
    ASSUME state_ \in [Options -> internal_state], NEW o \in Options, NEW s \in internal_state,
           become(o, s)
    PROVE  /\ status(o)' = s
           /\ \A q : q # o => status(q)' = status(q)
BY BecomeFacts DEF status

LEMMA StatusIs ==
    /\ \A o \in Options : status(o) = state_[o]
    /\ \A o : o \notin Options => status(o) = "inactive"
BY DEF status

LEMMA ActivateMoves ==
    ASSUME TypeOK, NEW o \in Options, activate(o)
    PROVE  /\ status(o) = "inactive"
           /\ Moves(o, "activating",
                    Append(Between(Counterpart(o)), local_positive(role(o))), Between(o))
<1> DEFINE elem == negotiation(local_positive(role(o)), option_code(o))
<1>1. o \in Places /\ role(o) \in Roles /\ option_code(o) \in Codes
  BY OptionFacts, PlaceFacts
<1>2. /\ state_ \in [Options -> internal_state] /\ wire \in [Machines -> Seq(element)]
      /\ "activating" \in internal_state
  BY TypeUnfolded, StateFacts
<1>3. local_positive(role(o)) \in negotiation_type
      /\ Addressee(local_positive(role(o))) = Opposite(role(o))
  BY <1>1, RoleFacts
<1>4. elem \in element /\ elem.to = Opposite(role(o)) /\ elem.code = option_code(o)
      /\ elem.what = local_positive(role(o))
  BY <1>1, <1>3, ElementFacts
<1>5. become(o, "activating") /\ write(machine(o), elem) /\ state_[o] = "inactive"
  BY DEF activate
<1>6. status(o)' = "activating" /\ \A q \in Places : q # o => status(q)' = status(q)
  BY <1>2, <1>5, StatusBecome
<1> HIDE DEF elem
<1>7. Moves(o, "activating", Append(Between(Counterpart(o)), elem.what), Between(o))
  BY <1>1, <1>2, <1>4, <1>5, <1>6, WriteMoves
<1>. QED BY <1>4, <1>5, <1>7, StatusIs

LEMMA DeactivateMoves ==
    ASSUME TypeOK, NEW o \in Options, deactivate(o)
    PROVE  /\ status(o) = "active"
           /\ Moves(o, "deactivating",
                    Append(Between(Counterpart(o)), local_negative(role(o))), Between(o))
<1> DEFINE elem == negotiation(local_negative(role(o)), option_code(o))
<1>1. o \in Places /\ role(o) \in Roles /\ option_code(o) \in Codes
  BY OptionFacts, PlaceFacts
<1>2. /\ state_ \in [Options -> internal_state] /\ wire \in [Machines -> Seq(element)]
      /\ "deactivating" \in internal_state
  BY TypeUnfolded, StateFacts
<1>3. local_negative(role(o)) \in negotiation_type
      /\ Addressee(local_negative(role(o))) = Opposite(role(o))
  BY <1>1, RoleFacts
<1>4. elem \in element /\ elem.to = Opposite(role(o)) /\ elem.code = option_code(o)
      /\ elem.what = local_negative(role(o))
  BY <1>1, <1>3, ElementFacts
<1>5. become(o, "deactivating") /\ write(machine(o), elem) /\ state_[o] = "active"
  BY DEF deactivate
<1>6. status(o)' = "deactivating" /\ \A q \in Places : q # o => status(q)' = status(q)
  BY <1>2, <1>5, StatusBecome
<1> HIDE DEF elem
<1>7. Moves(o, "deactivating", Append(Between(Counterpart(o)), elem.what), Between(o))
  BY <1>1, <1>2, <1>4, <1>5, <1>6, WriteMoves
<1>. QED BY <1>4, <1>5, <1>7, StatusIs

LEMMA SubnegotiationMoves ==
    ASSUME TypeOK, NEW o \in Options, write_subnegotiation(o)
    PROVE  /\ status(o) = "active"
           /\ Moves(o, "active", Append(Between(Counterpart(o)), "sub"), Between(o))
<1> DEFINE elem == subnegotiation(option_code(o), Opposite(role(o)))
<1>1. /\ o \in Places /\ role(o) \in Roles /\ option_code(o) \in Codes
      /\ Opposite(role(o)) \in Roles
  BY OptionFacts, PlaceFacts, RoleFacts
<1>2. wire \in [Machines -> Seq(element)]
  BY TypeUnfolded
<1>4. elem \in element /\ elem.to = Opposite(role(o)) /\ elem.code = option_code(o)
      /\ elem.what = "sub"
  BY <1>1, ElementFacts
<1>5. write(machine(o), elem) /\ state_[o] = "active" /\ UNCHANGED state_
  BY DEF write_subnegotiation, active
<1>6. status(o) = "active" /\ \A q : status(q)' = status(q)
  BY <1>5, StatusSame, StatusIs
<1> HIDE DEF elem
<1>7. Moves(o, "active", Append(Between(Counterpart(o)), elem.what), Between(o))
  BY <1>1, <1>2, <1>4, <1>5, <1>6, WriteMoves
<1>. QED BY <1>4, <1>6, <1>7

LEMMA InstallMoves ==
    ASSUME UNCHANGED <<state_, wire>>
    PROVE  \A q \in Places : status(q)' = status(q) /\ Between(q)' = Between(q)
<1>1. UNCHANGED state_ /\ UNCHANGED wire
  OBVIOUS
<1>. QED BY <1>1, StatusSame, BetweenSame

\* What becomes of the next element for m, by what it is and by its route.
Handed(m, o) == o = <<m, Head(wire[m]).to, Head(wire[m]).code>>

LEMMA HandedFacts ==
    ASSUME TypeOK, NEW m \in Machines, async_read(m), NEW o, Handed(m, o)
    PROVE  /\ wire[m] # <<>> /\ wire[m] \in Seq(element) /\ Head(wire[m]) \in element
           /\ o \in Places /\ machine(o) = m /\ role(o) \in Roles /\ option_code(o) \in Codes
           /\ role(o) = Head(wire[m]).to /\ option_code(o) = Head(wire[m]).code
<1>1. wire[m] # <<>> /\ wire \in [Machines -> Seq(element)]
  BY TypeUnfolded DEF async_read
<1>2. wire[m] \in Seq(element) /\ Head(wire[m]) \in element
  BY <1>1
<1>. QED BY <1>1, <1>2, ElementFacts, PlaceIs DEF Handed

LEMMA ReadCases ==
    ASSUME TypeOK, NEW m \in Machines, async_read(m), NEW o, Handed(m, o)
    PROVE  /\ UNCHANGED routes
           /\ LET verb == Head(wire[m]).what
                  route == negotiation_router_[m][<<verb, option_code(o)>>]
              IN  \/ verb = "sub" /\ read(m) /\ UNCHANGED state_
                  \/ /\ verb \in negotiation_type /\ Addressee(verb) = role(o)
                     /\ route = o /\ o \in Options /\ negotiate(o, verb)
                  \/ /\ verb \in negotiation_type /\ Addressee(verb) = role(o)
                     /\ route = NoRoute
                     /\ read_and_write(m, negotiation(local_negative(role(o)), option_code(o)))
                     /\ UNCHANGED state_
<1> DEFINE neg == Head(wire[m])
<1>1. /\ wire[m] # <<>> /\ neg \in element /\ o = <<m, neg.to, neg.code>>
      /\ role(o) = neg.to /\ option_code(o) = neg.code
  BY HandedFacts DEF Handed
<1>2. UNCHANGED routes
  BY DEF async_read
<1>3. CASE neg.what = "sub"
  BY <1>2, <1>3 DEF async_read, route_subnegotiation
<1>4. CASE neg.what # "sub"
  <2>1. neg.what \in negotiation_type /\ neg.to = Addressee(neg.what)
    BY <1>1, <1>4, ElementFacts
  <2>2. route_negotiation(m, neg)
    BY <1>4 DEF async_read
  <2>3. LET route == negotiation_router_[m][<<neg.what, neg.code>>]
        IN route = NoRoute \/ (route = o /\ o \in Options)
    BY <1>1, <2>1, RouteFacts, TypeUnfolded
  <2>4. (IF neg.what \in {"will", "wont"} THEN "dont" ELSE "wont") = local_negative(neg.to)
    BY <2>1 DEF negotiation_type, Addressee, local_negative
  <2>5. o \in Options => o # NoRoute
    BY OptionFacts
  <2>. QED BY <1>1, <1>2, <2>1, <2>2, <2>3, <2>4, <2>5 DEF route_negotiation, unregistered_route
<1>. QED BY <1>3, <1>4

LEMMA DropMoves ==
    ASSUME TypeOK, NEW m \in Machines, async_read(m), NEW o, Handed(m, o),
           read(m), UNCHANGED state_
    PROVE  /\ Moves(o, status(o), Between(Counterpart(o)), Tail(Between(o)))
           /\ Between(o) # <<>> /\ Head(Between(o)) = Head(wire[m]).what
<1>1. wire \in [Machines -> Seq(element)] /\ wire[m] # <<>>
  BY TypeUnfolded, HandedFacts
<1>2. status(o)' = status(o) /\ \A q \in Places : q # o => status(q)' = status(q)
  BY StatusSame
<1>. QED BY <1>1, <1>2, ReadMoves DEF Handed

LEMMA RefuseMoves ==
    ASSUME TypeOK, NEW m \in Machines, async_read(m), NEW o, Handed(m, o),
           read_and_write(m, negotiation(local_negative(role(o)), option_code(o))),
           UNCHANGED state_
    PROVE  /\ Moves(o, status(o),
                    Append(Between(Counterpart(o)), local_negative(role(o))), Tail(Between(o)))
           /\ Between(o) # <<>> /\ Head(Between(o)) = Head(wire[m]).what
<1> DEFINE elem == negotiation(local_negative(role(o)), option_code(o))
<1>1. wire \in [Machines -> Seq(element)] /\ wire[m] # <<>>
      /\ role(o) \in Roles /\ option_code(o) \in Codes
  BY TypeUnfolded, HandedFacts
<1>2. status(o)' = status(o) /\ \A q \in Places : q # o => status(q)' = status(q)
  BY StatusSame
<1>3. local_negative(role(o)) \in negotiation_type
      /\ Addressee(local_negative(role(o))) = Opposite(role(o))
  BY <1>1, RoleFacts
<1>4. elem \in element /\ elem.to = Opposite(role(o)) /\ elem.code = option_code(o)
      /\ elem.what = local_negative(role(o))
  BY <1>1, <1>3, ElementFacts
<1>5. read_and_write(m, elem)
  OBVIOUS
<1> HIDE DEF elem
<1>. QED BY <1>1, <1>2, <1>4, <1>5, ReadAndWriteMoves DEF Handed

\* What option::negotiate makes of its state, and what it answers.
Outcome(r, verb) == IF verb = remote_positive(r) THEN "active" ELSE "inactive"
Answer(r, verb) == IF verb = remote_positive(r) THEN local_positive(r) ELSE local_negative(r)

LEMMA NegotiateMoves ==
    ASSUME TypeOK, NEW m \in Machines, async_read(m), NEW o, Handed(m, o), o \in Options,
           NEW verb, verb = Head(wire[m]).what, negotiate(o, verb)
    PROVE  /\ Moves(o, Outcome(role(o), verb),
                    IF requesting(o) THEN Between(Counterpart(o))
                    ELSE Append(Between(Counterpart(o)), Answer(role(o), verb)),
                    Tail(Between(o)))
           /\ Between(o) # <<>> /\ Head(Between(o)) = verb
<1> DEFINE elem == negotiation(Answer(role(o), verb), option_code(o))
<1>1. wire \in [Machines -> Seq(element)] /\ wire[m] # <<>>
      /\ role(o) \in Roles /\ option_code(o) \in Codes /\ machine(o) = m
      /\ state_ \in [Options -> internal_state]
  BY TypeUnfolded, HandedFacts
<1>2. become(o, Outcome(role(o), verb)) /\ Outcome(role(o), verb) \in internal_state
  BY StateFacts DEF negotiate, Outcome
<1>3. status(o)' = Outcome(role(o), verb) /\ \A q \in Places : q # o => status(q)' = status(q)
  BY <1>1, <1>2, StatusBecome
<1>4. Answer(role(o), verb) \in negotiation_type
      /\ Addressee(Answer(role(o), verb)) = Opposite(role(o))
  BY <1>1, RoleFacts DEF Answer
<1>5. elem \in element /\ elem.to = Opposite(role(o)) /\ elem.code = option_code(o)
      /\ elem.what = Answer(role(o), verb)
  BY <1>1, <1>4, ElementFacts
<1>6. CASE requesting(o)
  <2>1. read(m)
    BY <1>1, <1>6 DEF negotiate
  <2>. QED BY <1>1, <1>3, <1>6, <2>1, ReadMoves DEF Handed
<1>7. CASE ~requesting(o)
  <2>1. read_and_write(m, elem)
    BY <1>1, <1>7 DEF negotiate, Answer
  <2> HIDE DEF elem
  <2>. QED BY <1>1, <1>3, <1>5, <1>7, <2>1, ReadAndWriteMoves DEF Handed
<1>. QED BY <1>6, <1>7

-------------------------------------------------------------------------------
(***************************************************************************)
(* The parts of the inductive invariant that need no phases.               *)
(***************************************************************************)
LEMMA NextType ==
    ASSUME TypeOK, [Next]_vars
    PROVE  TypeOK'
<1>0. /\ state_ \in [Options -> internal_state] /\ wire \in [Machines -> Seq(element)]
      /\ RouteTypes
  BY TypeUnfolded
<1>1. UNCHANGED routes => RouteTypes'
  BY <1>0 DEF RouteTypes, routes
<1>2. TypeOK' <=> /\ state_' \in [Options -> internal_state]
                  /\ wire' \in [Machines -> Seq(element)]
                  /\ RouteTypes'
  BY DEF TypeOK, RouteTypes
<1>3. CASE UNCHANGED vars
  BY <1>0, <1>1, <1>2, <1>3 DEF vars, routes
<1>4. ASSUME NEW o \in Options, install(o) PROVE TypeOK'
  <2>1. RouteTypes'
    BY <1>0, <1>4, InstallFacts
  <2>. QED BY <1>0, <1>2, <1>4, <2>1 DEF install
<1>5. ASSUME NEW o \in Options PROVE
         /\ machine(o) \in Machines
         /\ negotiation(local_positive(role(o)), option_code(o)) \in element
         /\ negotiation(local_negative(role(o)), option_code(o)) \in element
         /\ subnegotiation(option_code(o), Opposite(role(o))) \in element
  BY <1>5, OptionFacts, PlaceFacts, RoleFacts, ElementFacts
<1>6. ASSUME NEW o \in Options, activate(o) PROVE TypeOK'
  <2>1. become(o, "activating") /\ "activating" \in internal_state /\ UNCHANGED routes
        /\ write(machine(o), negotiation(local_positive(role(o)), option_code(o)))
    BY <1>6, StateFacts DEF activate
  <2>2. state_' \in [Options -> internal_state]
    BY <1>0, <2>1, BecomeFacts
  <2>3. wire' \in [Machines -> Seq(element)]
    BY <1>0, <1>5, <2>1, WriteFacts
  <2>. QED BY <1>1, <1>2, <2>1, <2>2, <2>3
<1>7. ASSUME NEW o \in Options, deactivate(o) PROVE TypeOK'
  <2>1. become(o, "deactivating") /\ "deactivating" \in internal_state /\ UNCHANGED routes
        /\ write(machine(o), negotiation(local_negative(role(o)), option_code(o)))
    BY <1>7, StateFacts DEF deactivate
  <2>2. state_' \in [Options -> internal_state]
    BY <1>0, <2>1, BecomeFacts
  <2>3. wire' \in [Machines -> Seq(element)]
    BY <1>0, <1>5, <2>1, WriteFacts
  <2>. QED BY <1>1, <1>2, <2>1, <2>2, <2>3
<1>8. ASSUME NEW o \in Options, write_subnegotiation(o) PROVE TypeOK'
  <2>1. UNCHANGED state_ /\ UNCHANGED routes
        /\ write(machine(o), subnegotiation(option_code(o), Opposite(role(o))))
    BY <1>8 DEF write_subnegotiation
  <2>3. wire' \in [Machines -> Seq(element)]
    BY <1>0, <1>5, <2>1, WriteFacts
  <2>. QED BY <1>0, <1>1, <1>2, <2>1, <2>3
<1>9. ASSUME NEW m \in Machines, async_read(m) PROVE TypeOK'
  <2> DEFINE o == <<m, Head(wire[m]).to, Head(wire[m]).code>>
             verb == Head(wire[m]).what
  <2>1. Handed(m, o)
    BY DEF Handed
  <2> HIDE DEF o
  <2>2. wire[m] # <<>> /\ role(o) \in Roles /\ option_code(o) \in Codes /\ machine(o) = m
    BY <1>9, <2>1, HandedFacts
  <2>3. UNCHANGED routes
    BY <1>9, <2>1, ReadCases
  <2>4. CASE read(m) /\ UNCHANGED state_
    <3>1. wire' \in [Machines -> Seq(element)]
      BY <1>0, <2>2, <2>4, ReadFacts
    <3>. QED BY <1>0, <1>1, <1>2, <2>3, <2>4, <3>1
  <2>5. CASE o \in Options /\ negotiate(o, verb)
    <3>1. become(o, Outcome(role(o), verb)) /\ Outcome(role(o), verb) \in internal_state
      BY <2>5, StateFacts DEF negotiate, Outcome
    <3>2. state_' \in [Options -> internal_state]
      BY <1>0, <2>5, <3>1, BecomeFacts
    <3>3. \/ read(m)
          \/ read_and_write(m, negotiation(Answer(role(o), verb), option_code(o)))
      BY <2>2, <2>5 DEF negotiate, Answer
    <3>4. negotiation(Answer(role(o), verb), option_code(o)) \in element
      <4>1. Answer(role(o), verb) \in negotiation_type
        BY <2>2, RoleFacts DEF Answer
      <4>. QED BY <2>2, <4>1, ElementFacts
    <3>5. wire' \in [Machines -> Seq(element)]
      BY <1>0, <2>2, <3>3, <3>4, ReadFacts, ReadAndWriteFacts
    <3>. QED BY <1>1, <1>2, <2>3, <3>2, <3>5
  <2>6. CASE /\ read_and_write(m, negotiation(local_negative(role(o)), option_code(o)))
             /\ UNCHANGED state_
    <3>1. negotiation(local_negative(role(o)), option_code(o)) \in element
      BY <2>2, RoleFacts, ElementFacts
    <3>2. wire' \in [Machines -> Seq(element)]
      BY <1>0, <2>2, <2>6, <3>1, ReadAndWriteFacts
    <3>. QED BY <1>0, <1>1, <1>2, <2>3, <2>6, <3>2
  <2>. QED BY <1>9, <2>1, <2>4, <2>5, <2>6, ReadCases
<1>. QED BY <1>3, <1>4, <1>6, <1>7, <1>8, <1>9 DEF Next

\* Every variable of both sessions keeps its type, and a route never leads to
\* an option of another machine, of another code or, for a negotiation, of the
\* role that the verb is not for: for any set of options, in any roles.
THEOREM TypeCorrect == Spec => []TypeOK
<1> QED BY InitType, NextType, PTL DEF Spec

LEMMA InstalledIs ==
    ASSUME Routes, NEW o \in Options, NEW verb \in negotiation_type, Addressee(verb) = role(o)
    PROVE  installed(o) <=> negotiation_router_[machine(o)][<<verb, option_code(o)>>] = o
<1>1. role(o) \in Roles
  BY OptionFacts, PlaceFacts
<1>2. verb \in {remote_positive(role(o)), remote_negative(role(o))}
  BY <1>1, RoleFacts
<1>. QED BY <1>2 DEF Routes, installed

\* What installing o does to the routes of any option q.
LEMMA InstallInstalls ==
    ASSUME RouteTypes, NEW o \in Options, install(o), NEW q \in Options
    PROVE  /\ \A verb \in negotiation_type : Addressee(verb) = role(q) =>
                 negotiation_router_'[machine(q)][<<verb, option_code(q)>>] =
                    IF q = o THEN o ELSE negotiation_router_[machine(q)][<<verb, option_code(q)>>]
           /\ installed(q)' <=> q = o \/ installed(q)
<1>1. /\ machine(q) \in Machines /\ role(q) \in Roles /\ option_code(q) \in Codes
      /\ q = <<machine(q), role(q), option_code(q)>>
  BY OptionFacts, PlaceFacts
<1>2. ASSUME NEW verb \in negotiation_type, Addressee(verb) = role(q)
      PROVE  negotiation_router_'[machine(q)][<<verb, option_code(q)>>] =
                IF q = o THEN o ELSE negotiation_router_[machine(q)][<<verb, option_code(q)>>]
  <2>1. negotiation_router_'[machine(q)][<<verb, option_code(q)>>] =
            IF o = <<machine(q), Addressee(verb), option_code(q)>> THEN o
            ELSE negotiation_router_[machine(q)][<<verb, option_code(q)>>]
    BY <1>1, InstallFacts
  <2>. QED BY <1>1, <1>2, <2>1
<1>3. remote_positive(role(q)) \in negotiation_type /\ Addressee(remote_positive(role(q))) = role(q)
  BY <1>1, RoleFacts
<1>. QED BY <1>2, <1>3 DEF installed

LEMMA InitRoutes ==
    ASSUME Init, NEW o \in Options, NEW verb \in negotiation_type, Addressee(verb) = role(o)
    PROVE  negotiation_router_[machine(o)][<<verb, option_code(o)>>] =
              IF o \in Installed THEN o ELSE NoRoute
<1>1. /\ machine(o) \in Machines /\ option_code(o) \in Codes
      /\ o = <<machine(o), role(o), option_code(o)>>
  BY OptionFacts, PlaceFacts
<1> DEFINE k == <<verb, option_code(o)>>
<1>2. k \in negotiation_type \X Codes /\ k[1] = verb /\ k[2] = option_code(o)
  BY <1>1
<1> HIDE DEF k
<1>3. negotiation_router_[machine(o)][k] =
          IF <<machine(o), Addressee(k[1]), k[2]>> \in Installed
          THEN <<machine(o), Addressee(k[1]), k[2]>> ELSE NoRoute
  BY <1>1, <1>2 DEF Init
<1>. QED BY <1>1, <1>2, <1>3 DEF k

\* What the options that were installed beforehand stay.
StillInstalled == \A o \in Installed : installed(o)

LEMMA InitStill == Init => Routes /\ OnlyInstalled /\ StillInstalled
<1> SUFFICES ASSUME Init PROVE Routes /\ OnlyInstalled /\ StillInstalled
  OBVIOUS
<1>1. ASSUME NEW o \in Options
      PROVE  /\ machine(o) \in Machines /\ role(o) \in Roles /\ option_code(o) \in Codes
             /\ o \in Places /\ o # NoRoute
             /\ \A verb \in {remote_positive(role(o)), remote_negative(role(o))} :
                   verb \in negotiation_type /\ Addressee(verb) = role(o)
  BY <1>1, OptionFacts, PlaceFacts, RoleFacts
<1>2. ASSUME NEW o \in Options, NEW verb \in {remote_positive(role(o)), remote_negative(role(o))}
      PROVE  negotiation_router_[machine(o)][<<verb, option_code(o)>>] =
                IF o \in Installed THEN o ELSE NoRoute
  BY <1>1, <1>2, InitRoutes
<1>3. ASSUME NEW o \in Options PROVE installed(o) <=> o \in Installed
  BY <1>1, <1>2, <1>3 DEF installed
<1>4. ASSUME NEW o \in Installed
      PROVE  subnegotiation_router_[machine(o)][option_code(o)] # NoRoute
  <2>1. o \in Options /\ o \in {q \in InstalledAt(machine(o)) : option_code(q) = option_code(o)}
    BY OptionFacts DEF InstalledAt
  <2>2. machine(o) \in Machines /\ option_code(o) \in Codes
    BY <1>1, <2>1
  <2>3. PICK last \in [Machines -> [Codes -> Options \cup {NoRoute}]] :
          /\ subnegotiation_router_ = last
          /\ \A m \in Machines, c \in Codes :
                LET candidates == {q \in InstalledAt(m) : option_code(q) = c}
                IN IF candidates = {} THEN last[m][c] = NoRoute
                                      ELSE last[m][c] \in candidates
    BY DEF Init
  <2>4. last[machine(o)][option_code(o)] \in
            {q \in InstalledAt(machine(o)) : option_code(q) = option_code(o)}
    BY <2>1, <2>2, <2>3
  <2>5. {q \in InstalledAt(machine(o)) : option_code(q) = option_code(o)} \subseteq Options
    BY OptionFacts DEF InstalledAt
  <2>. QED BY <1>1, <2>3, <2>4, <2>5
<1>5. Routes
  BY <1>2, <1>3, <1>4 DEF Routes
<1>6. OnlyInstalled
  BY DEF Init, OnlyInstalled
<1>7. StillInstalled
  BY <1>3, OptionFacts DEF StillInstalled
<1>. QED BY <1>5, <1>6, <1>7

LEMMA RoutesSame ==
    ASSUME UNCHANGED routes
    PROVE  /\ Routes => Routes'
           /\ \A o : installed(o)' <=> installed(o)
BY DEF routes, Routes, installed

\* A step that is not an installation leaves the routes as they are.
LEMMA NextRoutes ==
    ASSUME TypeOK, Next
    PROVE  \/ \E o \in Options : install(o)
           \/ UNCHANGED routes
BY DEF Next, activate, deactivate, write_subnegotiation, async_read

LEMMA NextRoutesKept ==
    ASSUME TypeOK, Routes, [Next]_vars
    PROVE  Routes'
<1>0. RouteTypes
  BY TypeUnfolded
<1>1. CASE UNCHANGED routes
  BY <1>1, RoutesSame
<1>2. ASSUME NEW o \in Options, install(o)
      PROVE  Routes'
  <2>1. ASSUME NEW q \in Options
        PROVE  /\ negotiation_router_'[machine(q)][<<remote_positive(role(q)), option_code(q)>>]
                    = negotiation_router_'[machine(q)][<<remote_negative(role(q)), option_code(q)>>]
               /\ installed(q)' => subnegotiation_router_'[machine(q)][option_code(q)] # NoRoute
    <3>1. /\ machine(q) \in Machines /\ role(q) \in Roles /\ option_code(q) \in Codes
          /\ \A verb \in {remote_positive(role(q)), remote_negative(role(q))} :
                verb \in negotiation_type /\ Addressee(verb) = role(q)
      BY <2>1, OptionFacts, PlaceFacts, RoleFacts
    <3>2. /\ \A verb \in negotiation_type : Addressee(verb) = role(q) =>
                 negotiation_router_'[machine(q)][<<verb, option_code(q)>>] =
                    IF q = o THEN o ELSE negotiation_router_[machine(q)][<<verb, option_code(q)>>]
          /\ installed(q)' <=> q = o \/ installed(q)
      BY <1>0, <1>2, <2>1, InstallInstalls
    <3>3. negotiation_router_[machine(q)][<<remote_positive(role(q)), option_code(q)>>]
            = negotiation_router_[machine(q)][<<remote_negative(role(q)), option_code(q)>>]
      BY <2>1 DEF Routes
    <3>31. installed(q) => subnegotiation_router_[machine(q)][option_code(q)] # NoRoute
      BY <2>1 DEF Routes
    <3>32. installed(q)' => q = o \/ installed(q)
      BY <3>2
    <3>4. subnegotiation_router_'[machine(q)][option_code(q)] =
             IF machine(q) = machine(o) /\ option_code(q) = option_code(o) THEN o
             ELSE subnegotiation_router_[machine(q)][option_code(q)]
      BY <1>0, <1>2, <3>1, InstallFacts
    <3>5. o # NoRoute
      BY OptionFacts
    <3>6. installed(q)' => subnegotiation_router_'[machine(q)][option_code(q)] # NoRoute
      <4>1. CASE q = o
        BY <3>4, <3>5, <4>1
      <4>2. CASE q # o
        BY <3>4, <3>5, <3>31, <3>32, <4>2
      <4>. QED BY <4>1, <4>2
    <3> DEFINE yes == <<remote_positive(role(q)), option_code(q)>>
               no  == <<remote_negative(role(q)), option_code(q)>>
               was == negotiation_router_[machine(q)]
               is  == negotiation_router_'[machine(q)]
    <3>7. is[yes] = (IF q = o THEN o ELSE was[yes]) /\ is[no] = (IF q = o THEN o ELSE was[no])
      BY <3>1, <3>2
    <3>8. was[yes] = was[no]
      BY <3>3
    <3> HIDE DEF yes, no, was, is
    <3>9. is[yes] = is[no]
      BY <3>7, <3>8
    <3>. QED BY <3>6, <3>9 DEF yes, no, is
  <2>. QED BY <2>1 DEF Routes, installed
<1>. QED BY <1>1, <1>2, NextRoutes DEF vars, routes

LEMMA NextStill ==
    ASSUME TypeOK, StillInstalled, [Next]_vars
    PROVE  StillInstalled'
<1>0. RouteTypes
  BY TypeUnfolded
<1>1. CASE UNCHANGED routes
  BY <1>1, RoutesSame DEF StillInstalled
<1>2. ASSUME NEW o \in Options, install(o) PROVE StillInstalled'
  BY <1>0, <1>2, InstallInstalls, OptionFacts DEF StillInstalled
<1>. QED BY <1>1, <1>2, NextRoutes DEF vars, routes

\* An option that is not installed: nothing reaches it, and its program does
\* not call it, or calls activate() on it.
LEMMA NextOnlyInstalled ==
    ASSUME TypeOK, Routes, OnlyInstalled, [Next]_vars
    PROVE  OnlyInstalled'
<1>0. RouteTypes /\ state_ \in [Options -> internal_state]
  BY TypeUnfolded
<1> DEFINE Fine(q) == state_[q] = "inactive" \/ (state_[q] = "activating" /\ ActivateUninstalled)
<1>1. CASE UNCHANGED vars
  BY <1>1, RoutesSame DEF OnlyInstalled, vars, routes
<1>2. ASSUME NEW o \in Options, install(o) PROVE OnlyInstalled'
  <2>1. \A q \in Options : installed(q) => installed(q)'
    BY <1>0, <1>2, InstallInstalls
  <2>. QED BY <1>2, <2>1 DEF OnlyInstalled, install
<1>3. ASSUME NEW o \in Options, NEW s \in internal_state, become(o, s), UNCHANGED routes,
             installed(o) \/ (s = "activating" /\ ActivateUninstalled)
      PROVE  OnlyInstalled'
  <2>1. state_'[o] = s /\ \A q \in Options : q # o => state_'[q] = state_[q]
    BY <1>0, <1>3, BecomeFacts
  <2>2. \A q : installed(q)' <=> installed(q)
    BY <1>3, RoutesSame
  <2>3. ASSUME NEW q \in Options, ~installed(q) PROVE Fine(q)'
    <3>1. Fine(q)
      BY <2>3 DEF OnlyInstalled
    <3>. QED BY <1>3, <2>1, <2>3, <3>1
  <2>. QED BY <2>2, <2>3 DEF OnlyInstalled
<1>4. ASSUME UNCHANGED state_, UNCHANGED routes PROVE OnlyInstalled'
  BY <1>4, RoutesSame DEF OnlyInstalled
<1>5. ASSUME NEW o \in Options, activate(o) PROVE OnlyInstalled'
  BY <1>3, <1>5, StateFacts DEF activate
<1>6. ASSUME NEW o \in Options, deactivate(o) PROVE OnlyInstalled'
  <2>1. installed(o)
    BY <1>6 DEF OnlyInstalled, deactivate
  <2>. QED BY <1>3, <1>6, <2>1, StateFacts DEF deactivate
<1>7. ASSUME NEW o \in Options, write_subnegotiation(o) PROVE OnlyInstalled'
  BY <1>4, <1>7 DEF write_subnegotiation
<1>8. ASSUME NEW m \in Machines, async_read(m) PROVE OnlyInstalled'
  <2> DEFINE o == <<m, Head(wire[m]).to, Head(wire[m]).code>>
             verb == Head(wire[m]).what
             route == negotiation_router_[m][<<verb, option_code(o)>>]
  <2>1. Handed(m, o)
    BY DEF Handed
  <2> HIDE DEF o
  <2>2. UNCHANGED routes /\ machine(o) = m
    BY <1>8, <2>1, ReadCases, HandedFacts
  <2>3. CASE UNCHANGED state_
    BY <1>4, <2>2, <2>3
  <2>4. CASE /\ verb \in negotiation_type /\ Addressee(verb) = role(o)
             /\ route = o /\ o \in Options /\ negotiate(o, verb)
    <3>1. installed(o)
      BY <2>2, <2>4, InstalledIs
    <3>2. become(o, Outcome(role(o), verb)) /\ Outcome(role(o), verb) \in internal_state
      BY <2>4, StateFacts DEF negotiate, Outcome
    <3>. QED BY <1>3, <2>2, <2>4, <3>1, <3>2
  <2>. QED BY <1>8, <2>1, <2>3, <2>4, ReadCases
<1>. QED BY <1>1, <1>2, <1>5, <1>6, <1>7, <1>8 DEF Next

Standing == TypeOK /\ Routes /\ OnlyInstalled /\ StillInstalled

LEMMA StandingHolds == Spec => []Standing
<1>1. Init => Standing
  BY InitType, InitStill DEF Standing
<1>2. Standing /\ [Next]_vars => Standing'
  BY NextType, NextRoutesKept, NextStill, NextOnlyInstalled DEF Standing
<1>. QED BY <1>1, <1>2, PTL DEF Spec

\* A subnegotiation that an active option is waiting for is handed to it, if
\* its machine has no option of that code in the opposite role: whatever is
\* installed when, and in what order.
THEOREM SubnegotiationsReachOnlyOptionHolds == Spec => []SubnegotiationsReachOnlyOption
<1>1. Standing => SubnegotiationsReachOnlyOption
  <2> SUFFICES ASSUME Standing, NEW m \in Machines, NEW o \in Awaiting(m),
                      <<m, Opposite(role(o)), option_code(o)>> \notin Options
               PROVE  subnegotiation_router_[m][option_code(o)] = o
    BY DEF SubnegotiationsReachOnlyOption
  <2>1. o \in Options /\ machine(o) = m /\ active(o)
    BY DEF Awaiting
  <2>2. /\ role(o) \in Roles /\ option_code(o) \in Codes /\ o = <<m, role(o), option_code(o)>>
    BY <2>1, OptionFacts, PlaceFacts
  <2>3. installed(o)
    BY <2>1 DEF Standing, OnlyInstalled, active
  <2>4. subnegotiation_router_[m][option_code(o)] # NoRoute
    BY <2>1, <2>3 DEF Standing, Routes
  <2>5. /\ subnegotiation_router_[m][option_code(o)] \in Options \cup {NoRoute}
        /\ subnegotiation_router_[m][option_code(o)] \in
              {<<m, r, option_code(o)>> : r \in Roles} \cup {NoRoute}
    BY <2>2, TypeUnfolded DEF RouteTypes, Standing
  <2>6. PICK r \in Roles : subnegotiation_router_[m][option_code(o)] = <<m, r, option_code(o)>>
    BY <2>4, <2>5
  <2>7. r = role(o) \/ r = Opposite(role(o))
    BY <2>2 DEF Roles, Opposite
  <2>. QED BY <2>2, <2>4, <2>5, <2>6, <2>7
<1>. QED BY <1>1, StandingHolds, PTL

-------------------------------------------------------------------------------
(***************************************************************************)
(* Each option that both ends have installed, on its own.                  *)
(***************************************************************************)
PairState(o) == [r \in Roles |-> state_[End(machine(o), option_code(o), r)]]
PairWire(o) == [r \in Roles |-> Between(End(machine(o), option_code(o), r))]

LEMMA PairedFacts ==
    ASSUME NEW o \in Paired
    PROVE  /\ o \in Installed /\ o \in Options /\ o \in Places /\ role(o) = "server"
           /\ Counterpart(o) \in Installed /\ Counterpart(o) \in Options
           /\ \A r \in Roles :
                 End(machine(o), option_code(o), r) = IF r = "server" THEN o ELSE Counterpart(o)
<1>1. o \in Installed /\ Counterpart(o) \in Installed /\ role(o) = "server"
  BY DEF Paired
<1>2. o \in Options /\ Counterpart(o) \in Options /\ o \in Places
  BY <1>1, OptionFacts
<1>3. /\ o = <<machine(o), "server", option_code(o)>>
      /\ Counterpart(o) = <<Peer(machine(o)), "client", option_code(o)>>
  BY <1>1, <1>2, PlaceFacts DEF Counterpart, Opposite
<1>4. \A r \in Roles : r = "server" \/ r = "client"
  BY DEF Roles
<1>5. \A r \in Roles :
          End(machine(o), option_code(o), r) = IF r = "server" THEN o ELSE Counterpart(o)
  BY <1>3, <1>4 DEF End
<1>. QED BY <1>1, <1>2, <1>5

\* The pair, seen from the end x.
LEMMA PairSeen ==
    ASSUME NEW o \in Paired, NEW x \in {o, Counterpart(o)}
    PROVE  /\ x \in Options /\ x \in Places /\ x \in Installed /\ Counterpart(x) \in Options
           /\ Counterpart(x) \in Places
           /\ role(x) \in Roles /\ Opposite(role(x)) \in Roles /\ Opposite(role(x)) # role(x)
           /\ \A r \in Roles : r = role(x) \/ r = Opposite(role(x))
           /\ PairState(o)[role(x)] = status(x)
           /\ PairWire(o)[role(x)] = Between(x)
           /\ PairWire(o)[Opposite(role(x))] = Between(Counterpart(x))
           /\ {x, Counterpart(x)} = {o, Counterpart(o)}
           /\ End(machine(o), option_code(o), role(x)) = x
           /\ End(machine(o), option_code(o), Opposite(role(x))) = Counterpart(x)
<1>1. /\ o \in Options /\ o \in Places /\ role(o) = "server"
      /\ Counterpart(o) \in Options /\ o \in Installed /\ Counterpart(o) \in Installed
      /\ \A r \in Roles :
            End(machine(o), option_code(o), r) = IF r = "server" THEN o ELSE Counterpart(o)
  BY PairedFacts
<1>2. /\ Counterpart(Counterpart(o)) = o /\ Counterpart(o) \in Places
      /\ role(Counterpart(o)) = "client"
  BY <1>1, PlaceFacts DEF Opposite
<1>3. /\ Roles = {"server", "client"}
      /\ Opposite("server") = "client" /\ Opposite("client") = "server"
  BY DEF Roles, Opposite
<1>4. x \in Options /\ Counterpart(x) \in Options /\ x \in Places /\ x \in Installed
      /\ Counterpart(x) \in Places
  BY <1>1, <1>2
<1>5. {x, Counterpart(x)} = {o, Counterpart(o)}
  BY <1>2
<1>6. /\ role(x) \in Roles /\ Opposite(role(x)) \in Roles /\ Opposite(role(x)) # role(x)
      /\ \A r \in Roles : r = role(x) \/ r = Opposite(role(x))
  BY <1>1, <1>2, <1>3
<1>7. /\ End(machine(o), option_code(o), role(x)) = x
      /\ End(machine(o), option_code(o), Opposite(role(x))) = Counterpart(x)
  BY <1>1, <1>2, <1>3
<1>. QED BY <1>4, <1>5, <1>6, <1>7, StatusIs DEF PairState, PairWire

LEMMA PairMoves ==
    ASSUME NEW o \in Paired, NEW x \in {o, Counterpart(o)}, NEW mine, NEW sent, NEW received,
           Moves(x, mine, sent, received)
    PROVE  /\ PairState(o)' = [PairState(o) EXCEPT ![role(x)] = mine]
           /\ PairWire(o)' = [PairWire(o) EXCEPT ![role(x)] = received,
                                                 ![Opposite(role(x))] = sent]
<1> DEFINE r == role(x)
           s == Opposite(role(x))
           p == Counterpart(x)
<1>1. /\ x \in Options /\ p \in Options /\ p \in Places /\ p # x
      /\ r \in Roles /\ s \in Roles /\ s # r /\ \A q \in Roles : q = r \/ q = s
      /\ End(machine(o), option_code(o), r) = x
      /\ End(machine(o), option_code(o), s) = p
  BY PairSeen, PlaceFacts
<1>2. /\ status(x)' = mine /\ Between(x)' = received
      /\ status(p)' = status(p) /\ Between(p)' = sent
  BY <1>1 DEF Moves
<1>3. state_'[x] = mine /\ state_'[p] = state_[p]
  BY <1>1, <1>2 DEF status
<1>4. PairState(o)' = [q \in Roles |-> state_'[End(machine(o), option_code(o), q)]]
  BY DEF PairState
<1>5. PairWire(o)' = [q \in Roles |-> Between(End(machine(o), option_code(o), q))']
  BY DEF PairWire
<1> HIDE DEF r, s, p
<1>6. PairState(o)' = [PairState(o) EXCEPT ![r] = mine]
  <2>1. PairState(o)' = [q \in Roles |-> IF q = r THEN mine ELSE state_[p]]
    BY <1>1, <1>3, <1>4
  <2>2. PairState(o) = [q \in Roles |-> IF q = r THEN state_[x] ELSE state_[p]]
    BY <1>1 DEF PairState
  <2>. QED BY <1>1, <2>1, <2>2
<1>7. PairWire(o)' = [PairWire(o) EXCEPT ![r] = received, ![s] = sent]
  <2>1. PairWire(o)' = [q \in Roles |-> IF q = r THEN received ELSE sent]
    BY <1>1, <1>2, <1>5
  <2>2. PairWire(o) = [q \in Roles |-> IF q = r THEN Between(x) ELSE Between(p)]
    BY <1>1 DEF PairWire
  <2>. QED BY <1>1, <2>1, <2>2
<1>. QED BY <1>6, <1>7 DEF r, s

\* The steps of the pair, from how Moves describes those of the session.
LEMMA PairWrites ==
    ASSUME NEW o \in Paired, NEW x \in {o, Counterpart(o)}, NEW mine, NEW v,
           Moves(x, mine, Append(Between(Counterpart(x)), v), Between(x))
    PROVE  /\ Pair(machine(o), option_code(o))!become(role(x), mine)
           /\ Pair(machine(o), option_code(o))!write(role(x), v)
<1>1. /\ role(x) \in Roles /\ Opposite(role(x)) \in Roles /\ Opposite(role(x)) # role(x)
      /\ PairWire(o)[role(x)] = Between(x)
      /\ PairWire(o)[Opposite(role(x))] = Between(Counterpart(x))
  BY PairSeen
<1>2. /\ PairState(o)' = [PairState(o) EXCEPT ![role(x)] = mine]
      /\ PairWire(o)' = [PairWire(o) EXCEPT ![role(x)] = PairWire(o)[role(x)],
                 ![Opposite(role(x))] = Append(PairWire(o)[Opposite(role(x))], v)]
  <2> DEFINE sent == Append(Between(Counterpart(x)), v)
             received == Between(x)
  <2>1. Moves(x, mine, sent, received)
    OBVIOUS
  <2> HIDE DEF sent, received
  <2>2. /\ PairState(o)' = [PairState(o) EXCEPT ![role(x)] = mine]
        /\ PairWire(o)' = [PairWire(o) EXCEPT ![role(x)] = received,
                                              ![Opposite(role(x))] = sent]
    BY <2>1, PairMoves
  <2>. QED BY <1>1, <2>2 DEF sent, received
<1>3. PairWire(o) = [r \in Roles |-> PairWire(o)[r]]
  BY DEF PairWire
<1>4. PairWire(o)' = [PairWire(o) EXCEPT ![Opposite(role(x))] = Append(@, v)]
  <2> DEFINE w == PairWire(o)
             new == Append(w[Opposite(role(x))], v)
  <2>1. w = [r \in Roles |-> w[r]]
    BY <1>3
  <2> HIDE DEF w, new
  <2>2. [w EXCEPT ![role(x)] = w[role(x)], ![Opposite(role(x))] = new]
          = [w EXCEPT ![Opposite(role(x))] = new]
    BY <1>1, <2>1
  <2>. QED BY <1>2, <2>2 DEF w, new
<1>5. Opposite(role(x)) = IF role(x) = "server" THEN "client" ELSE "server"
  BY DEF Opposite
<1>. QED BY <1>2, <1>4, <1>5 DEF PairState, PairWire, Pair!become, Pair!write, Pair!Other

LEMMA PairReads ==
    ASSUME NEW o \in Paired, NEW x \in {o, Counterpart(o)}, NEW mine,
           Moves(x, mine, Between(Counterpart(x)), Tail(Between(x)))
    PROVE  /\ Pair(machine(o), option_code(o))!become(role(x), mine)
           /\ Pair(machine(o), option_code(o))!read(role(x))
<1>1. /\ role(x) \in Roles /\ Opposite(role(x)) \in Roles /\ Opposite(role(x)) # role(x)
      /\ PairWire(o)[role(x)] = Between(x)
      /\ PairWire(o)[Opposite(role(x))] = Between(Counterpart(x))
  BY PairSeen
<1>2. /\ PairState(o)' = [PairState(o) EXCEPT ![role(x)] = mine]
      /\ PairWire(o)' = [PairWire(o) EXCEPT ![role(x)] = Tail(PairWire(o)[role(x)]),
                 ![Opposite(role(x))] = PairWire(o)[Opposite(role(x))]]
  <2> DEFINE sent == Between(Counterpart(x))
             received == Tail(Between(x))
  <2>1. Moves(x, mine, sent, received)
    OBVIOUS
  <2> HIDE DEF sent, received
  <2>2. /\ PairState(o)' = [PairState(o) EXCEPT ![role(x)] = mine]
        /\ PairWire(o)' = [PairWire(o) EXCEPT ![role(x)] = received,
                                              ![Opposite(role(x))] = sent]
    BY <2>1, PairMoves
  <2>. QED BY <1>1, <2>2 DEF sent, received
<1>4. PairWire(o)' = [PairWire(o) EXCEPT ![role(x)] = Tail(@)]
  <2> DEFINE w == PairWire(o)
             new == Tail(w[role(x)])
  <2>1. w = [r \in Roles |-> w[r]]
    BY DEF PairWire
  <2> HIDE DEF w, new
  <2>2. [w EXCEPT ![role(x)] = new, ![Opposite(role(x))] = w[Opposite(role(x))]]
          = [w EXCEPT ![role(x)] = new]
    BY <1>1, <2>1
  <2>. QED BY <1>2, <2>2 DEF w, new
<1>. QED BY <1>2, <1>4 DEF PairState, PairWire, Pair!become, Pair!read

LEMMA PairReadsAndWrites ==
    ASSUME NEW o \in Paired, NEW x \in {o, Counterpart(o)}, NEW mine, NEW v,
           Moves(x, mine, Append(Between(Counterpart(x)), v), Tail(Between(x)))
    PROVE  /\ Pair(machine(o), option_code(o))!become(role(x), mine)
           /\ Pair(machine(o), option_code(o))!read_and_write(role(x), v)
<1>1. /\ role(x) \in Roles /\ Opposite(role(x)) \in Roles /\ Opposite(role(x)) # role(x)
      /\ PairWire(o)[role(x)] = Between(x)
      /\ PairWire(o)[Opposite(role(x))] = Between(Counterpart(x))
  BY PairSeen
<1>2. /\ PairState(o)' = [PairState(o) EXCEPT ![role(x)] = mine]
      /\ PairWire(o)' = [PairWire(o) EXCEPT ![role(x)] = Tail(PairWire(o)[role(x)]),
                 ![Opposite(role(x))] = Append(PairWire(o)[Opposite(role(x))], v)]
  <2> DEFINE sent == Append(Between(Counterpart(x)), v)
             received == Tail(Between(x))
  <2>1. Moves(x, mine, sent, received)
    OBVIOUS
  <2> HIDE DEF sent, received
  <2>2. /\ PairState(o)' = [PairState(o) EXCEPT ![role(x)] = mine]
        /\ PairWire(o)' = [PairWire(o) EXCEPT ![role(x)] = received,
                                              ![Opposite(role(x))] = sent]
    BY <2>1, PairMoves
  <2>. QED BY <1>1, <2>2 DEF sent, received
<1>3. PairWire(o)' = [PairWire(o) EXCEPT ![role(x)] = Tail(@),
                                        ![Opposite(role(x))] = Append(@, v)]
  <2> DEFINE w == PairWire(o)
             one == Tail(w[role(x)])
             other == Append(w[Opposite(role(x))], v)
  <2>1. w = [r \in Roles |-> w[r]]
    BY DEF PairWire
  <2>2. [w EXCEPT ![role(x)] = Tail(@)][Opposite(role(x))] = w[Opposite(role(x))]
    BY <1>1
  <2>. QED BY <1>2, <2>2
<1>5. Opposite(role(x)) = IF role(x) = "server" THEN "client" ELSE "server"
  BY DEF Opposite
<1>. QED BY <1>2, <1>3, <1>5
         DEF PairState, PairWire, Pair!become, Pair!read_and_write, Pair!Other

LEMMA PairVerbs ==
    ASSUME NEW m, NEW c
    PROVE  /\ Pair(m, c)!Ends = Roles
           /\ \A r : /\ Pair(m, c)!local_positive(r) = local_positive(r)
                     /\ Pair(m, c)!local_negative(r) = local_negative(r)
                     /\ Pair(m, c)!Other(r) = Opposite(r)
           /\ \A r \in Roles : /\ Pair(m, c)!remote_positive(r) = remote_positive(r)
                               /\ Pair(m, c)!remote_negative(r) = remote_negative(r)
BY DEF Pair!Ends, Pair!local_positive, Pair!local_negative, Pair!remote_positive,
       Pair!remote_negative, Pair!Other, Roles, Opposite, local_positive, local_negative,
       remote_positive, remote_negative

\* What is on its way to one option is no more than is on its way.
LEMMA BetweenShort ==
    ASSUME wire \in [Machines -> Seq(element)], NEW q \in Places
    PROVE  Len(Between(q)) \in Nat /\ Len(wire[machine(q)]) \in Nat
           /\ Len(Between(q)) <= Len(wire[machine(q)])
<1>1. wire[machine(q)] \in Seq(element)
  BY PlaceFacts
<1>2. Len(wire[machine(q)]) \in Nat
  BY <1>1
<1>. QED BY <1>2, ProjectElements DEF Between

LEMMA PairUntouched ==
    ASSUME NEW o \in Paired, NEW x,
           \A q \in Places : q # x => status(q)' = status(q),
           \A q \in Places : q \notin {x, Counterpart(x)} => Between(q)' = Between(q),
           x \notin {o, Counterpart(o)}, Counterpart(Counterpart(x)) = x
    PROVE  UNCHANGED Pair(machine(o), option_code(o))!vars
<1> DEFINE p == Counterpart(o)
<1>1. /\ o \in Places /\ o \in Options /\ p \in Options /\ p \in Places /\ Counterpart(p) = o
      /\ \A r \in Roles :
            End(machine(o), option_code(o), r) = IF r = "server" THEN o ELSE p
  BY PairedFacts, PlaceFacts
<1>2. Counterpart(x) \notin {o, p}
  BY <1>1
<1>3. /\ status(o)' = status(o) /\ status(p)' = status(p)
      /\ Between(o)' = Between(o) /\ Between(p)' = Between(p)
  BY <1>1, <1>2
<1>4. state_'[o] = state_[o] /\ state_'[p] = state_[p]
  BY <1>1, <1>3 DEF status
<1> HIDE DEF p
<1>5. \A r \in Roles : LET e == End(machine(o), option_code(o), r)
                       IN state_'[e] = state_[e] /\ Between(e)' = Between(e)
  BY <1>1, <1>3, <1>4
<1>6. PairState(o)' = PairState(o)
  BY <1>5 DEF PairState
<1>7. PairWire(o)' = PairWire(o)
  BY <1>5 DEF PairWire
<1>. QED BY <1>6, <1>7 DEF PairState, PairWire, Pair!vars

LEMMA InstallPair ==
    ASSUME NEW o \in Paired, UNCHANGED <<state_, wire>>
    PROVE  UNCHANGED Pair(machine(o), option_code(o))!vars
<1>1. \A q \in Places : status(q)' = status(q) /\ Between(q)' = Between(q)
  BY InstallMoves
<1>2. NoRoute \notin {o, Counterpart(o)} /\ o # Counterpart(o)
      /\ o \in Places /\ o \in Options /\ Counterpart(o) \in Options /\ Counterpart(o) \in Places
      /\ \A r \in Roles :
            End(machine(o), option_code(o), r) = IF r = "server" THEN o ELSE Counterpart(o)
  BY PairedFacts, PlaceFacts, OptionFacts
<1>5. \A r \in Roles : LET e == End(machine(o), option_code(o), r)
                       IN state_'[e] = state_[e] /\ Between(e)' = Between(e)
  BY <1>1, <1>2
<1>6. PairState(o)' = PairState(o) /\ PairWire(o)' = PairWire(o)
  BY <1>5 DEF PairState, PairWire
<1>. QED BY <1>6 DEF PairState, PairWire, Pair!vars

LEMMA PairNext ==
    ASSUME NEW o \in Paired, NEW r \in Roles,
           \/ Pair(machine(o), option_code(o))!activate(r)
           \/ Pair(machine(o), option_code(o))!deactivate(r)
           \/ Pair(machine(o), option_code(o))!write_subnegotiation(r)
           \/ Pair(machine(o), option_code(o))!negotiate(r)
           \/ Pair(machine(o), option_code(o))!subnegotiate(r)
    PROVE  Pair(machine(o), option_code(o))!Next
BY PairVerbs DEF Pair!Next

\* A step of the session that concerns the place x is a step of the pair o, if
\* x is one of its ends.
LEMMA CallImplements ==
    ASSUME TypeOK, NEW o \in Paired, NEW x \in Options,
           activate(x) \/ deactivate(x) \/ write_subnegotiation(x)
    PROVE  \/ Pair(machine(o), option_code(o))!Next
           \/ UNCHANGED Pair(machine(o), option_code(o))!vars
<1> DEFINE m == machine(o)
           c == option_code(o)
           r == role(x)
<1>0. x \in Places /\ Counterpart(Counterpart(x)) = x /\ Counterpart(x) \in Places
      /\ machine(Counterpart(x)) = Peer(machine(x))
  BY OptionFacts, PlaceFacts
<1>1. CASE x \notin {o, Counterpart(o)}
  <2>1. PICK mine, sent, received : Moves(x, mine, sent, received)
    BY ActivateMoves, DeactivateMoves, SubnegotiationMoves
  <2>. QED BY <1>0, <1>1, <2>1, PairUntouched DEF Moves
<1>2. CASE x \in {o, Counterpart(o)}
  <2>1. /\ r \in Roles /\ PairState(o)[r] = status(x)
        /\ PairWire(o)[Opposite(r)] = Between(Counterpart(x))
    BY <1>2, PairSeen
  <2>2. CASE activate(x)
    <3>1. status(x) = "inactive" /\ Moves(x, "activating",
                    Append(Between(Counterpart(x)), local_positive(r)), Between(x))
      BY <2>2, ActivateMoves
    <3>2. Pair(m, c)!become(r, "activating") /\ Pair(m, c)!write(r, local_positive(r))
      BY <1>2, <3>1, PairWrites
    <3>3. Pair(m, c)!activate(r)
      BY <2>1, <3>1, <3>2, PairVerbs DEF Pair!activate, PairState
    <3>. QED BY <2>1, <3>3, PairNext
  <2>3. CASE deactivate(x)
    <3>1. status(x) = "active" /\ Moves(x, "deactivating",
                    Append(Between(Counterpart(x)), local_negative(r)), Between(x))
      BY <2>3, DeactivateMoves
    <3>2. Pair(m, c)!become(r, "deactivating") /\ Pair(m, c)!write(r, local_negative(r))
      BY <1>2, <3>1, PairWrites
    <3>3. Pair(m, c)!deactivate(r)
      BY <2>1, <3>1, <3>2, PairVerbs DEF Pair!deactivate, PairState
    <3>. QED BY <2>1, <3>3, PairNext
  <2>4. CASE write_subnegotiation(x)
    <3>1. status(x) = "active" /\ Moves(x, "active",
                    Append(Between(Counterpart(x)), "sub"), Between(x))
      BY <2>4, SubnegotiationMoves
    <3>2. Pair(m, c)!become(r, "active") /\ Pair(m, c)!write(r, "sub")
      BY <1>2, <3>1, PairWrites
    <3>3. PairState(o)' = PairState(o)
      <4>1. PairState(o)' = [PairState(o) EXCEPT ![r] = "active"]
        BY <1>2, <3>1, PairMoves
      <4>2. PairState(o) = [q \in Roles |-> PairState(o)[q]]
        BY DEF PairState
      <4>. QED BY <2>1, <3>1, <4>1, <4>2
    <3>4. Len(PairWire(o)[Opposite(r)]) < MaxWire
      <4>1. Len(wire[Peer(machine(x))]) < MaxWire
        BY <2>4 DEF write_subnegotiation
      <4>2. /\ Len(Between(Counterpart(x))) \in Nat
            /\ Len(wire[machine(Counterpart(x))]) \in Nat
            /\ Len(Between(Counterpart(x))) <= Len(wire[machine(Counterpart(x))])
        BY <1>0, BetweenShort, TypeUnfolded
      <4>3. MaxWire \in Nat
        BY OptionFacts
      <4>. QED BY <1>0, <2>1, <4>1, <4>2, <4>3
    <3>5. Pair(m, c)!write_subnegotiation(r)
      BY <2>1, <3>1, <3>2, <3>3, <3>4, PairVerbs
         DEF Pair!write_subnegotiation, Pair!active, PairState, PairWire
    <3>. QED BY <2>1, <3>5, PairNext
  <2>. QED BY <2>2, <2>3, <2>4
<1>. QED BY <1>1, <1>2

LEMMA ReadImplements ==
    ASSUME Standing, NEW o \in Paired, NEW n \in Machines, async_read(n)
    PROVE  \/ Pair(machine(o), option_code(o))!Next
           \/ UNCHANGED Pair(machine(o), option_code(o))!vars
<1> DEFINE m == machine(o)
           c == option_code(o)
           x == <<n, Head(wire[n]).to, Head(wire[n]).code>>
           r == role(x)
           verb == Head(wire[n]).what
           route == negotiation_router_[n][<<verb, option_code(x)>>]
           Whole == \/ Pair(machine(o), option_code(o))!Next
                    \/ UNCHANGED Pair(machine(o), option_code(o))!vars
<1>0. TypeOK /\ Routes /\ StillInstalled
  BY DEF Standing
<1>1. Handed(n, x)
  BY DEF Handed
<1> HIDE DEF x
<1>2. x \in Places /\ Counterpart(Counterpart(x)) = x /\ machine(x) = n
  BY <1>0, <1>1, HandedFacts, PlaceFacts
<1>3. \/ verb = "sub" /\ read(n) /\ UNCHANGED state_
      \/ /\ verb \in negotiation_type /\ Addressee(verb) = r
         /\ route = x /\ x \in Options /\ negotiate(x, verb)
      \/ /\ verb \in negotiation_type /\ Addressee(verb) = r
         /\ route = NoRoute
         /\ read_and_write(n, negotiation(local_negative(r), option_code(x)))
         /\ UNCHANGED state_
  BY <1>0, <1>1, ReadCases
<1>4. PICK mine, sent, received : Moves(x, mine, sent, received)
  BY <1>0, <1>1, <1>3, DropMoves, NegotiateMoves, RefuseMoves
<1>5. CASE x \notin {o, Counterpart(o)}
  BY <1>2, <1>4, <1>5, PairUntouched DEF Moves
<1>6. CASE x \in {o, Counterpart(o)}
  <2>1. /\ x \in Options /\ x \in Installed /\ r \in Roles /\ PairState(o)[r] = status(x)
        /\ PairWire(o)[r] = Between(x) /\ status(x) = state_[x]
    BY <1>6, PairSeen, StatusIs
  <2>2. CASE verb = "sub" /\ read(n) /\ UNCHANGED state_
    <3>1. Moves(x, status(x), Between(Counterpart(x)), Tail(Between(x)))
          /\ Between(x) # <<>> /\ Head(Between(x)) = "sub"
      BY <1>0, <1>1, <2>2, DropMoves
    <3>2. Pair(m, c)!read(r)
      BY <1>6, <3>1, PairReads
    <3>3. PairState(o)' = PairState(o)
      BY <2>2 DEF PairState
    <3>4. Pair(m, c)!subnegotiate(r)
      BY <2>1, <3>1, <3>2, <3>3 DEF Pair!subnegotiate, PairState, PairWire
    <3>. QED BY <2>1, <3>4, PairNext
  <2>3. CASE /\ verb \in negotiation_type /\ Addressee(verb) = r
             /\ route = x /\ x \in Options /\ negotiate(x, verb)
    <3>1. /\ Moves(x, Outcome(r, verb),
                   IF requesting(x) THEN Between(Counterpart(x))
                   ELSE Append(Between(Counterpart(x)), Answer(r, verb)),
                   Tail(Between(x)))
          /\ Between(x) # <<>> /\ Head(Between(x)) = verb
      BY <1>0, <1>1, <2>3, NegotiateMoves
    <3>2. verb \in {remote_positive(r), remote_negative(r)}
          /\ remote_positive(r) # remote_negative(r)
      BY <2>1, <2>3, RoleFacts
    <3>3. requesting(x) <=> PairState(o)[r] \in {"activating", "deactivating"}
      BY <2>1 DEF requesting
    <3>4. Pair(m, c)!become(r, Outcome(r, verb))
          /\ IF requesting(x) THEN Pair(m, c)!read(r)
             ELSE Pair(m, c)!read_and_write(r, Answer(r, verb))
      <4>1. CASE requesting(x)
        BY <1>6, <3>1, <4>1, PairReads
      <4>2. CASE ~requesting(x)
        BY <1>6, <3>1, <4>2, PairReadsAndWrites
      <4>. QED BY <4>1, <4>2
    <3>5. Pair(m, c)!requesting(r) <=> requesting(x)
      BY <3>3 DEF Pair!requesting, PairState
    <3>6. PairWire(o)[r] # <<>> /\ Head(PairWire(o)[r]) = verb
      BY <2>1, <3>1
    <3>7. Pair(m, c)!negotiate(r)
      <4>1. CASE verb = remote_positive(r)
        <5>1. Outcome(r, verb) = "active" /\ Answer(r, verb) = Pair(m, c)!local_positive(r)
              /\ verb = Pair(m, c)!remote_positive(r)
          BY <2>1, <4>1, PairVerbs DEF Outcome, Answer
        <5>. QED BY <3>4, <3>5, <3>6, <5>1 DEF Pair!negotiate, PairWire
      <4>2. CASE verb # remote_positive(r)
        <5>1. Outcome(r, verb) = "inactive" /\ Answer(r, verb) = Pair(m, c)!local_negative(r)
              /\ verb = Pair(m, c)!remote_negative(r)
          BY <2>1, <3>2, <4>2, PairVerbs DEF Outcome, Answer
        <5>. QED BY <3>4, <3>5, <3>6, <5>1 DEF Pair!negotiate, PairWire
      <4>. QED BY <4>1, <4>2
    <3>. QED BY <2>1, <3>7, PairNext
  <2>4. CASE verb \in negotiation_type /\ Addressee(verb) = r /\ route = NoRoute
    <3>1. installed(x)
      BY <1>0, <2>1 DEF StillInstalled
    <3>2. route = x
      BY <1>0, <1>2, <2>1, <2>4, <3>1, InstalledIs
    <3>3. x # NoRoute
      BY <1>2, OptionFacts
    <3>. QED BY <2>4, <3>2, <3>3
  <2>. QED BY <1>3, <2>2, <2>3, <2>4
<1>. QED BY <1>5, <1>6

\* Every option that both ends have installed before the connection starts is
\* an OptionPair of its own: the other options, the opposite role of the same
\* one, the installation of yet others and the refusal of what is unknown make
\* no difference to it, for any set of options in any roles.
THEOREM RefinementHolds == Spec => ImplementsPairs
<1> DEFINE Step == \A o \in Paired :
              \/ Pair(machine(o), option_code(o))!Next
              \/ UNCHANGED Pair(machine(o), option_code(o))!vars
<1>1. Init => \A o \in Paired : Pair(machine(o), option_code(o))!Init
  <2> SUFFICES ASSUME Init, NEW o \in Paired PROVE Pair(machine(o), option_code(o))!Init
    OBVIOUS
  <2>1. \A r \in Roles : End(machine(o), option_code(o), r) \in Options
                         /\ End(machine(o), option_code(o), r) \in Places
    BY PairedFacts, OptionFacts
  <2>2. PairState(o) = [r \in Roles |-> "inactive"]
    BY <2>1 DEF Init, PairState
  <2>3. \A q \in Places : Between(q) = <<>>
    <3> SUFFICES ASSUME NEW q \in Places PROVE Between(q) = <<>>
      OBVIOUS
    <3>1. wire[machine(q)] = <<>>
      BY PlaceFacts DEF Init
    <3>. QED BY <3>1, ProjectEmpty DEF Between
  <2>4. PairWire(o) = [r \in Roles |-> <<>>]
    BY <2>1, <2>3 DEF PairWire
  <2>. QED BY <2>2, <2>4, PairVerbs DEF Pair!Init, PairState, PairWire
<1>2. Standing /\ [Next]_vars => [Step]_vars
  <2> SUFFICES ASSUME Standing, Next, NEW o \in Paired
               PROVE  \/ Pair(machine(o), option_code(o))!Next
                      \/ UNCHANGED Pair(machine(o), option_code(o))!vars
    OBVIOUS
  <2>0. TypeOK
    BY DEF Standing
  <2>1. ASSUME NEW x \in Options, install(x)
        PROVE  UNCHANGED Pair(machine(o), option_code(o))!vars
    <3>1. UNCHANGED <<state_, wire>>
      BY <2>1 DEF install
    <3>. QED BY <3>1, InstallPair
  <2>. QED BY <2>0, <2>1, CallImplements, ReadImplements DEF Next
<1>. QED BY <1>1, <1>2, StandingHolds, PTL DEF Spec, ImplementsPairs

-------------------------------------------------------------------------------
(***************************************************************************)
(* The phases, as values: what each handler makes of them, at an end in    *)
(* role r.  Either is Phases for one code, in either direction.            *)
(***************************************************************************)
Either(r, mine, its, sent, received) ==
    \/ Phase(r, mine, its, sent, received)
    \/ Phase(Opposite(r), its, mine, received, sent)

\* What is sent and received in each state of this end.
LEMMA EitherInactive ==
    ASSUME NEW r \in Roles, NEW its, NEW sent, NEW received,
           Either(r, "inactive", its, sent, received)
    PROVE  \/ its = "inactive" /\ sent = <<>> /\ received = <<>>
           \/ its = "activating" /\ sent = <<>> /\ received = <<remote_positive(r)>>
           \/ its = "deactivating" /\ sent = <<local_negative(r)>> /\ received = <<>>
           \/ its = "activating" /\ sent = <<local_negative(r)>> /\ received = <<>>
BY RoleFacts DEF Either, Phase

LEMMA EitherActive ==
    ASSUME NEW r \in Roles, NEW its, NEW sent, NEW received,
           Either(r, "active", its, sent, received)
    PROVE  \/ its = "active" /\ sent = <<>> /\ received = <<>>
           \/ its = "activating" /\ sent = <<local_positive(r)>> /\ received = <<>>
           \/ its = "deactivating" /\ sent = <<>> /\ received = <<remote_negative(r)>>
BY RoleFacts DEF Either, Phase

LEMMA EitherActivating ==
    ASSUME NEW r \in Roles, NEW its, NEW sent, NEW received,
           Either(r, "activating", its, sent, received)
    PROVE  \/ its = "inactive" /\ sent = <<local_positive(r)>> /\ received = <<>>
           \/ its = "active" /\ sent = <<>> /\ received = <<remote_positive(r)>>
           \/ its = "activating" /\ sent = <<local_positive(r)>> /\ received = <<remote_positive(r)>>
           \/ its = "deactivating" /\ sent = <<>>
                 /\ received = <<remote_positive(r), remote_negative(r)>>
           \/ its = "deactivating" /\ sent = <<local_negative(r), local_positive(r)>>
                 /\ received = <<>>
           \/ its = "inactive" /\ sent = <<>> /\ received = <<remote_negative(r)>>
           \/ its = "activating" /\ sent = <<>>
                 /\ received = <<remote_negative(r), remote_positive(r)>>
           \/ its = "activating" /\ sent = <<local_negative(r), local_positive(r)>>
                 /\ received = <<>>
BY RoleFacts DEF Either, Phase

LEMMA EitherDeactivating ==
    ASSUME NEW r \in Roles, NEW its, NEW sent, NEW received,
           Either(r, "deactivating", its, sent, received)
    PROVE  \/ its = "activating" /\ sent = <<local_positive(r), local_negative(r)>>
                 /\ received = <<>>
           \/ its = "active" /\ sent = <<local_negative(r)>> /\ received = <<>>
           \/ its = "inactive" /\ sent = <<>> /\ received = <<remote_negative(r)>>
           \/ its = "deactivating" /\ sent = <<local_negative(r)>>
                 /\ received = <<remote_negative(r)>>
           \/ its = "activating" /\ sent = <<>>
                 /\ received = <<remote_negative(r), remote_positive(r)>>
BY RoleFacts DEF Either, Phase

LEMMA ActivatePhase ==
    ASSUME NEW r \in Roles, NEW its, NEW sent, NEW received,
           Either(r, "inactive", its, sent, received)
    PROVE  Either(r, "activating", its, Append(sent, local_positive(r)), received)
<1>1. local_positive(r) \in negotiation_type /\ local_negative(r) \in negotiation_type
  BY RoleFacts
<1>2. /\ Append(<<>>, local_positive(r)) = <<local_positive(r)>>
      /\ Append(<<local_negative(r)>>, local_positive(r)) = <<local_negative(r), local_positive(r)>>
  BY <1>1, TupleFacts
<1>. QED BY <1>2, EitherInactive, RoleFacts DEF Either, Phase

LEMMA DeactivatePhase ==
    ASSUME NEW r \in Roles, NEW its, NEW sent, NEW received,
           Either(r, "active", its, sent, received)
    PROVE  Either(r, "deactivating", its, Append(sent, local_negative(r)), received)
<1>1. local_positive(r) \in negotiation_type /\ local_negative(r) \in negotiation_type
  BY RoleFacts
<1>2. /\ Append(<<>>, local_negative(r)) = <<local_negative(r)>>
      /\ Append(<<local_positive(r)>>, local_negative(r)) = <<local_positive(r), local_negative(r)>>
  BY <1>1, TupleFacts
<1>. QED BY <1>2, EitherActive, RoleFacts DEF Either, Phase

\* The sequences of verbs that this end may have received.
LEMMA ReceivedFacts ==
    ASSUME NEW r \in Roles
    PROVE  LET yes == remote_positive(r)
               no == remote_negative(r)
           IN  /\ yes # no
               /\ <<yes>> # <<>> /\ Head(<<yes>>) = yes /\ Tail(<<yes>>) = <<>>
               /\ <<no>> # <<>> /\ Head(<<no>>) = no /\ Tail(<<no>>) = <<>>
               /\ <<yes, no>> # <<>> /\ Head(<<yes, no>>) = yes /\ Tail(<<yes, no>>) = <<no>>
               /\ <<no, yes>> # <<>> /\ Head(<<no, yes>>) = no /\ Tail(<<no, yes>>) = <<yes>>
<1>1. remote_positive(r) \in negotiation_type /\ remote_negative(r) \in negotiation_type
      /\ remote_positive(r) # remote_negative(r)
  BY RoleFacts
<1>. QED BY <1>1, TupleFacts

\* What this end may have sent before it answers.
LEMMA AnswerFacts ==
    ASSUME NEW r \in Roles
    PROVE  /\ Append(<<>>, local_positive(r)) = <<local_positive(r)>>
           /\ Append(<<>>, local_negative(r)) = <<local_negative(r)>>
<1>1. local_positive(r) \in negotiation_type /\ local_negative(r) \in negotiation_type
  BY RoleFacts
<1>. QED BY <1>1, TupleFacts

LEMMA NegotiatePhase ==
    ASSUME NEW r \in Roles, NEW mine \in internal_state, NEW its, NEW sent, NEW received,
           received # <<>>, Either(r, mine, its, sent, received)
    PROVE  LET verb == Head(received)
           IN  Either(r, Outcome(r, verb), its,
                      IF mine \in {"activating", "deactivating"} THEN sent
                      ELSE Append(sent, Answer(r, verb)),
                      Tail(received))
<1>1. CASE mine = "inactive"
  <2>1. its = "activating" /\ sent = <<>> /\ received = <<remote_positive(r)>>
    BY <1>1, EitherInactive
  <2>2. Outcome(r, Head(received)) = "active" /\ Append(sent, Answer(r, Head(received))) = <<local_positive(r)>>
        /\ Tail(received) = <<>>
    BY <2>1, ReceivedFacts, AnswerFacts DEF Outcome, Answer
  <2>3. Either(r, "active", "activating", <<local_positive(r)>>, <<>>)
    BY RoleFacts DEF Either, Phase
  <2>. QED BY <1>1, <2>1, <2>2, <2>3
<1>2. CASE mine = "active"
  <2>1. its = "deactivating" /\ sent = <<>> /\ received = <<remote_negative(r)>>
    BY <1>2, EitherActive
  <2>2. Outcome(r, Head(received)) = "inactive" /\ Append(sent, Answer(r, Head(received))) = <<local_negative(r)>>
        /\ Tail(received) = <<>>
    BY <2>1, ReceivedFacts, AnswerFacts DEF Outcome, Answer
  <2>3. Either(r, "inactive", "deactivating", <<local_negative(r)>>, <<>>)
    BY RoleFacts DEF Either, Phase
  <2>. QED BY <1>2, <2>1, <2>2, <2>3
<1>3. CASE mine \in {"activating", "deactivating"}
  <2>1. \/ received = <<remote_positive(r)>> /\ its = "active" /\ sent = <<>>
        \/ received = <<remote_positive(r)>> /\ its = "activating" /\ sent = <<local_positive(r)>>
        \/ received = <<remote_positive(r), remote_negative(r)>> /\ its = "deactivating" /\ sent = <<>>
        \/ received = <<remote_negative(r)>> /\ its = "inactive" /\ sent = <<>>
        \/ received = <<remote_negative(r)>> /\ its = "deactivating" /\ sent = <<local_negative(r)>>
        \/ received = <<remote_negative(r), remote_positive(r)>> /\ its = "activating" /\ sent = <<>>
    BY <1>3, EitherActivating, EitherDeactivating
  <2>2. /\ Outcome(r, remote_positive(r)) = "active" /\ Outcome(r, remote_negative(r)) = "inactive"
    BY RoleFacts DEF Outcome
  <2>3. /\ Either(r, "active", "active", <<>>, <<>>)
        /\ Either(r, "active", "activating", <<local_positive(r)>>, <<>>)
        /\ Either(r, "active", "deactivating", <<>>, <<remote_negative(r)>>)
        /\ Either(r, "inactive", "inactive", <<>>, <<>>)
        /\ Either(r, "inactive", "deactivating", <<local_negative(r)>>, <<>>)
        /\ Either(r, "inactive", "activating", <<>>, <<remote_positive(r)>>)
    BY RoleFacts DEF Either, Phase
  <2>4. Either(r, Outcome(r, Head(received)), its, sent, Tail(received))
    BY <2>1, <2>2, <2>3, ReceivedFacts
  <2>. QED BY <1>3, <2>4
<1>. QED BY <1>1, <1>2, <1>3 DEF internal_state

\* A request for what is not installed, and its refusal.
LEMMA RefusePhase ==
    ASSUME NEW r \in Roles, NEW its, NEW sent, NEW received,
           received # <<>>, Either(r, "inactive", its, sent, received)
    PROVE  Either(r, "inactive", its, Append(sent, local_negative(r)), Tail(received))
<1>1. its = "activating" /\ sent = <<>> /\ received = <<remote_positive(r)>>
  BY EitherInactive
<1>2. Append(sent, local_negative(r)) = <<local_negative(r)>> /\ Tail(received) = <<>>
  BY <1>1, ReceivedFacts, AnswerFacts
<1>3. Either(r, "inactive", "activating", <<local_negative(r)>>, <<>>)
  BY RoleFacts DEF Either, Phase
<1>. QED BY <1>1, <1>2, <1>3

-------------------------------------------------------------------------------
(***************************************************************************)
(* The inductive invariant.                                                *)
(***************************************************************************)
EitherOf(o) ==
    LET p == Counterpart(o)
    IN Either(role(o), status(o), status(p), ToBeRead(p), ToBeRead(o))

LEMMA PhasesAre ==
    /\ Phases <=> \A o \in Places : EitherOf(o)
    /\ \A o \in Places : EitherOf(o) <=> EitherOf(Counterpart(o))
<1>1. ASSUME NEW o \in Places PROVE EitherOf(o) <=> InPhase(o) \/ InPhase(Counterpart(o))
  BY <1>1, PlaceFacts DEF EitherOf, Either, InPhase
<1>2. ASSUME NEW o \in Places PROVE EitherOf(o) <=> EitherOf(Counterpart(o))
  BY <1>1, <1>2, PlaceFacts
<1>. QED BY <1>1, <1>2 DEF Phases

LEMMA PhasesNext ==
    Phases' <=> \A o \in Places :
                   LET p == Counterpart(o)
                   IN Either(role(o), status(o)', status(p)', ToBeRead(p)', ToBeRead(o)')
<1>1. ASSUME NEW o \in Places
      PROVE  (InPhase(o) \/ InPhase(Counterpart(o)))' <=>
                LET p == Counterpart(o)
                IN Either(role(o), status(o)', status(p)', ToBeRead(p)', ToBeRead(o)')
  BY <1>1, PlaceFacts DEF Either, InPhase
<1>. QED BY <1>1 DEF Phases

LEMMA MovePhases ==
    ASSUME Phases, NEW x \in Places, NEW mine, NEW sent, NEW received,
           Moves(x, mine, sent, received),
           Either(role(x), mine, status(Counterpart(x)),
                  Only(sent, negotiation_type), Only(received, negotiation_type))
    PROVE  Phases'
<1> DEFINE p == Counterpart(x)
           Now(o) == Either(role(o), status(o)', status(Counterpart(o))',
                            ToBeRead(Counterpart(o))', ToBeRead(o)')
<1>1. /\ p \in Places /\ Counterpart(p) = x /\ p # x
      /\ role(x) \in Roles /\ role(p) = Opposite(role(x)) /\ Opposite(role(p)) = role(x)
  BY PlaceFacts, RoleFacts
<1>2. /\ status(x)' = mine /\ status(p)' = status(p)
      /\ ToBeRead(p)' = Only(sent, negotiation_type)
      /\ ToBeRead(x)' = Only(received, negotiation_type)
  BY <1>1 DEF Moves, ToBeRead
<1>3. Now(x)
  BY <1>2
<1>4. Now(p)
  BY <1>1, <1>3 DEF Either
<1>5. ASSUME NEW o \in Places, o \notin {x, p} PROVE Now(o)
  <2> DEFINE q == Counterpart(o)
  <2>1. q \in Places /\ q \notin {x, p}
    BY <1>1, <1>5, PlaceFacts
  <2>2. /\ status(o)' = status(o) /\ status(q)' = status(q)
        /\ Between(o)' = Between(o) /\ Between(q)' = Between(q)
    BY <1>5, <2>1 DEF Moves
  <2>3. ToBeRead(o)' = ToBeRead(o) /\ ToBeRead(q)' = ToBeRead(q)
    BY <2>2 DEF ToBeRead
  <2>4. EitherOf(o)
    BY <1>5, PhasesAre
  <2>. QED BY <2>2, <2>3, <2>4 DEF EitherOf
<1> HIDE DEF Now
<1>6. \A o \in Places : Now(o)
  BY <1>3, <1>4, <1>5
<1>. QED BY <1>6, PhasesNext DEF Now

\* What an element written or read does to the negotiations.
LEMMA ToBeReadFacts ==
    ASSUME wire \in [Machines -> Seq(element)], NEW o \in Places
    PROVE  /\ ToBeRead(o) = Only(Between(o), negotiation_type)
           /\ \A v \in BetweenTypes : Only(Append(Between(o), v), negotiation_type) =
                 IF v \in negotiation_type THEN Append(ToBeRead(o), v) ELSE ToBeRead(o)
           /\ Between(o) # <<>> =>
                IF Head(Between(o)) \in negotiation_type
                THEN /\ ToBeRead(o) # <<>> /\ Head(ToBeRead(o)) = Head(Between(o))
                     /\ Only(Tail(Between(o)), negotiation_type) = Tail(ToBeRead(o))
                ELSE Only(Tail(Between(o)), negotiation_type) = ToBeRead(o)
<1> DEFINE w == Between(o)
<1>1. w \in Seq(BetweenTypes)
  BY BetweenType
<1> HIDE DEF w
<1>2. ASSUME NEW v \in BetweenTypes
      PROVE  Only(Append(w, v), negotiation_type) =
                IF v \in negotiation_type THEN Append(Only(w, negotiation_type), v)
                                          ELSE Only(w, negotiation_type)
  BY <1>1, <1>2, KeepAppend
<1>3. ASSUME w # <<>>
      PROVE  /\ Head(w) \in negotiation_type =>
                   /\ Only(w, negotiation_type) # <<>>
                   /\ Head(Only(w, negotiation_type)) = Head(w)
                   /\ Only(Tail(w), negotiation_type) = Tail(Only(w, negotiation_type))
             /\ Head(w) \notin negotiation_type =>
                   Only(Tail(w), negotiation_type) = Only(w, negotiation_type)
  BY <1>1, <1>3, KeepRead
<1>. QED BY <1>2, <1>3 DEF w, ToBeRead

LEMMA CallPhases ==
    ASSUME TypeOK, Phases, NEW x \in Options,
           activate(x) \/ deactivate(x) \/ write_subnegotiation(x)
    PROVE  Phases'
<1> DEFINE r == role(x)
           p == Counterpart(x)
<1>1. x \in Places /\ p \in Places /\ r \in Roles
  BY OptionFacts, PlaceFacts
<1>2. wire \in [Machines -> Seq(element)]
  BY TypeUnfolded
<1>3. Either(r, status(x), status(p), ToBeRead(p), ToBeRead(x))
  BY <1>1, PhasesAre DEF EitherOf
<1>4. ToBeRead(x) = Only(Between(x), negotiation_type)
  BY DEF ToBeRead
<1>5. ASSUME NEW v \in BetweenTypes
      PROVE  Only(Append(Between(p), v), negotiation_type) =
                IF v \in negotiation_type THEN Append(ToBeRead(p), v) ELSE ToBeRead(p)
  BY <1>1, <1>2, <1>5, ToBeReadFacts
<1>6. CASE activate(x)
  <2>1. status(x) = "inactive"
        /\ Moves(x, "activating", Append(Between(p), local_positive(r)), Between(x))
    BY <1>6, ActivateMoves
  <2>2. local_positive(r) \in negotiation_type
    BY <1>1, RoleFacts
  <2>3. Either(r, "activating", status(p), Append(ToBeRead(p), local_positive(r)), ToBeRead(x))
    BY <1>1, <1>3, <2>1, ActivatePhase
  <2>4. Only(Append(Between(p), local_positive(r)), negotiation_type)
          = Append(ToBeRead(p), local_positive(r))
    BY <1>5, <2>2 DEF BetweenTypes
  <2>. QED BY <1>1, <1>4, <2>1, <2>3, <2>4, MovePhases
<1>7. CASE deactivate(x)
  <2>1. status(x) = "active"
        /\ Moves(x, "deactivating", Append(Between(p), local_negative(r)), Between(x))
    BY <1>7, DeactivateMoves
  <2>2. local_negative(r) \in negotiation_type
    BY <1>1, RoleFacts
  <2>3. Either(r, "deactivating", status(p), Append(ToBeRead(p), local_negative(r)), ToBeRead(x))
    BY <1>1, <1>3, <2>1, DeactivatePhase
  <2>4. Only(Append(Between(p), local_negative(r)), negotiation_type)
          = Append(ToBeRead(p), local_negative(r))
    BY <1>5, <2>2 DEF BetweenTypes
  <2>. QED BY <1>1, <1>4, <2>1, <2>3, <2>4, MovePhases
<1>8. CASE write_subnegotiation(x)
  <2>1. status(x) = "active"
        /\ Moves(x, "active", Append(Between(p), "sub"), Between(x))
    BY <1>8, SubnegotiationMoves
  <2>2. Only(Append(Between(p), "sub"), negotiation_type) = ToBeRead(p)
    BY <1>5, ElementFacts DEF BetweenTypes
  <2>. QED BY <1>1, <1>3, <1>4, <2>1, <2>2, MovePhases
<1>. QED BY <1>6, <1>7, <1>8

LEMMA ReadPhases ==
    ASSUME TypeOK, Routes, OnlyInstalled, ~ActivateUninstalled, Phases,
           NEW n \in Machines, async_read(n)
    PROVE  Phases'
<1> DEFINE x == <<n, Head(wire[n]).to, Head(wire[n]).code>>
           r == role(x)
           p == Counterpart(x)
           verb == Head(wire[n]).what
           route == negotiation_router_[n][<<verb, option_code(x)>>]
<1>0. Handed(n, x)
  BY DEF Handed
<1> HIDE DEF x
<1>1. x \in Places /\ p \in Places /\ r \in Roles /\ machine(x) = n
  BY <1>0, HandedFacts, PlaceFacts
<1>2. wire \in [Machines -> Seq(element)] /\ state_ \in [Options -> internal_state]
  BY TypeUnfolded
<1>3. Either(r, status(x), status(p), ToBeRead(p), ToBeRead(x))
  BY <1>1, PhasesAre DEF EitherOf
<1>4. ASSUME NEW v \in BetweenTypes
      PROVE  Only(Append(Between(p), v), negotiation_type) =
                IF v \in negotiation_type THEN Append(ToBeRead(p), v) ELSE ToBeRead(p)
  BY <1>1, <1>2, <1>4, ToBeReadFacts
<1>5. ToBeRead(p) = Only(Between(p), negotiation_type)
  BY DEF ToBeRead
<1>6. ASSUME Between(x) # <<>>, Head(Between(x)) = verb, verb \in negotiation_type
      PROVE  /\ ToBeRead(x) # <<>> /\ Head(ToBeRead(x)) = verb
             /\ Only(Tail(Between(x)), negotiation_type) = Tail(ToBeRead(x))
  BY <1>1, <1>2, <1>6, ToBeReadFacts
<1>7. CASE verb = "sub" /\ read(n) /\ UNCHANGED state_
  <2>1. Moves(x, status(x), Between(p), Tail(Between(x)))
        /\ Between(x) # <<>> /\ Head(Between(x)) = "sub"
    BY <1>0, <1>7, DropMoves
  <2>2. Only(Tail(Between(x)), negotiation_type) = ToBeRead(x)
    BY <1>1, <1>2, <2>1, ToBeReadFacts, ElementFacts
  <2>. QED BY <1>1, <1>3, <1>5, <2>1, <2>2, MovePhases
<1>8. CASE /\ verb \in negotiation_type /\ Addressee(verb) = r
           /\ route = x /\ x \in Options /\ negotiate(x, verb)
  <2> DEFINE sent == IF requesting(x) THEN Between(p)
                     ELSE Append(Between(p), Answer(r, verb))
             kept == IF status(x) \in {"activating", "deactivating"} THEN ToBeRead(p)
                     ELSE Append(ToBeRead(p), Answer(r, verb))
  <2>1. /\ Moves(x, Outcome(r, verb), sent, Tail(Between(x)))
        /\ Between(x) # <<>> /\ Head(Between(x)) = verb
    BY <1>0, <1>8, NegotiateMoves
  <2>2. /\ ToBeRead(x) # <<>> /\ Head(ToBeRead(x)) = verb
        /\ Only(Tail(Between(x)), negotiation_type) = Tail(ToBeRead(x))
    BY <1>6, <1>8, <2>1
  <2>3. status(x) \in internal_state /\ status(x) = state_[x]
    BY <1>2, <1>8, StatusIs
  <2>4. Either(r, Outcome(r, verb), status(p), kept, Tail(ToBeRead(x)))
    BY <1>1, <1>3, <2>2, <2>3, NegotiatePhase
  <2>5. Answer(r, verb) \in negotiation_type
    BY <1>1, RoleFacts DEF Answer
  <2>6. Only(sent, negotiation_type) = kept
    BY <1>4, <1>5, <2>3, <2>5 DEF requesting, BetweenTypes
  <2> HIDE DEF sent, kept
  <2>. QED BY <1>1, <2>1, <2>2, <2>4, <2>6, MovePhases
<1>9. CASE /\ verb \in negotiation_type /\ Addressee(verb) = r /\ route = NoRoute
           /\ read_and_write(n, negotiation(local_negative(r), option_code(x)))
           /\ UNCHANGED state_
  <2>1. /\ Moves(x, status(x), Append(Between(p), local_negative(r)), Tail(Between(x)))
        /\ Between(x) # <<>> /\ Head(Between(x)) = verb
    BY <1>0, <1>9, RefuseMoves
  <2>2. /\ ToBeRead(x) # <<>> /\ Head(ToBeRead(x)) = verb
        /\ Only(Tail(Between(x)), negotiation_type) = Tail(ToBeRead(x))
    BY <1>6, <1>9, <2>1
  <2>3. status(x) = "inactive"
    <3>1. CASE x \in Options
      <4>1. ~installed(x)
        BY <1>1, <1>9, <3>1, InstalledIs, OptionFacts
      <4>. QED BY <3>1, <4>1, StatusIs DEF OnlyInstalled
    <3>2. CASE x \notin Options
      BY <3>2, StatusIs
    <3>. QED BY <3>1, <3>2
  <2>4. Either(r, "inactive", status(p), Append(ToBeRead(p), local_negative(r)), Tail(ToBeRead(x)))
    BY <1>1, <1>3, <2>2, <2>3, RefusePhase
  <2>5. Only(Append(Between(p), local_negative(r)), negotiation_type)
          = Append(ToBeRead(p), local_negative(r))
    <3>1. local_negative(r) \in negotiation_type
      BY <1>1, RoleFacts
    <3>. QED BY <1>4, <3>1 DEF BetweenTypes
  <2>. QED BY <1>1, <2>1, <2>2, <2>3, <2>4, <2>5, MovePhases
<1>. QED BY <1>0, <1>7, <1>8, <1>9, ReadCases

LEMMA SamePhases ==
    ASSUME UNCHANGED <<state_, wire>>, Phases
    PROVE  Phases'
<1>1. \A q \in Places : status(q)' = status(q) /\ Between(q)' = Between(q)
  BY InstallMoves
<1>2. ASSUME NEW o \in Places
      PROVE  LET p == Counterpart(o)
             IN Either(role(o), status(o)', status(p)', ToBeRead(p)', ToBeRead(o)')
  <2> DEFINE p == Counterpart(o)
  <2>1. p \in Places /\ EitherOf(o)
    BY <1>2, PlaceFacts, PhasesAre
  <2>2. ToBeRead(o)' = ToBeRead(o) /\ ToBeRead(p)' = ToBeRead(p)
        /\ status(o)' = status(o) /\ status(p)' = status(p)
    BY <1>1, <1>2, <2>1 DEF ToBeRead
  <2>. QED BY <2>1, <2>2 DEF EitherOf
<1>. QED BY <1>2, PhasesNext

LEMMA InitPhases == Init => Phases
<1> SUFFICES ASSUME Init, NEW o \in Places PROVE InPhase(o)
  BY DEF Phases
<1>1. \A q \in Places : status(q) = "inactive" /\ ToBeRead(q) = <<>>
  <2> SUFFICES ASSUME NEW q \in Places PROVE status(q) = "inactive" /\ ToBeRead(q) = <<>>
    OBVIOUS
  <2>1. status(q) = "inactive"
    BY DEF Init, status
  <2>2. wire[machine(q)] = <<>>
    BY PlaceFacts DEF Init
  <2>3. Between(q) = <<>>
    BY <2>2, ProjectEmpty DEF Between
  <2>4. ToBeRead(q) = <<>>
    BY <2>3, ProjectEmpty DEF ToBeRead, Only
  <2>. QED BY <2>1, <2>4
<1>. QED BY <1>1, PlaceFacts DEF InPhase, Phase

\* The inductive invariant holds: for any options, installed at any time; its
\* phases, as long as no program activates what it has not installed.
THEOREM InductiveHolds == Spec => []Inductive
<1>1. Init => Inductive
  BY InitType, InitStill, InitPhases DEF Inductive
<1>2. Inductive /\ [Next]_vars => Inductive'
  <2> SUFFICES ASSUME Inductive, [Next]_vars PROVE Inductive'
    OBVIOUS
  <2>1. TypeOK /\ Routes /\ OnlyInstalled
    BY DEF Inductive
  <2>2. TypeOK' /\ OnlyInstalled'
    BY <2>1, NextType, NextOnlyInstalled
  <2>3. Routes'
    BY <2>1, NextRoutesKept
  <2>4. ASSUME ~ActivateUninstalled PROVE Phases'
    <3>1. Phases
      BY <2>4 DEF Inductive
    <3>2. ASSUME NEW o \in Options, install(o) PROVE Phases'
      BY <3>1, <3>2, SamePhases DEF install
    <3>3. CASE UNCHANGED vars
      BY <3>1, <3>3, SamePhases DEF vars
    <3>. QED BY <2>1, <2>4, <3>1, <3>2, <3>3, CallPhases, ReadPhases DEF Next
  <2>. QED BY <2>2, <2>3, <2>4 DEF Inductive
<1>. QED BY <1>1, <1>2, PTL DEF Spec

LEMMA NothingPending ==
    ASSUME TypeOK, NEW o \in Places, Pending(o) = {}
    PROVE  ToBeRead(o) = <<>>
<1> DEFINE w == wire[machine(o)]
           v == Between(o)
<1>1. w \in Seq(element)
  BY TypeUnfolded, PlaceFacts
<1>2. v \in Seq(BetweenTypes)
  BY TypeUnfolded, BetweenType
<1>3. Len(w) \in Nat /\ DOMAIN w = 1..Len(w) /\ \A i \in 1..Len(w) : w[i] \in element
  BY <1>1
<1>4. \A j \in 1..Len(v) : \E i \in 1..Len(w) :
          w[i] \in DOMAIN Addressed(o) /\ v[j] = Addressed(o)[w[i]]
  BY <1>3, ProjectElements DEF Between
<1>5. \A elem \in DOMAIN Addressed(o) :
          /\ elem.code = option_code(o) /\ elem.to = role(o)
          /\ Addressed(o)[elem] = elem.what
  BY DEF Addressed
<1>6. ASSUME NEW i \in 1..Len(w), w[i] \in DOMAIN Addressed(o) PROVE w[i].what = "sub"
  BY <1>3, <1>5, <1>6 DEF Pending
<1>7. \A j \in 1..Len(v) : v[j] = "sub"
  BY <1>4, <1>5, <1>6
<1> HIDE DEF v
<1>8. Only(v, negotiation_type) = <<>>
  <2>1. \A j \in 1..Len(v) : v[j] \notin negotiation_type
    BY <1>7, ElementFacts
  <2>. QED BY <1>2, <2>1, KeepNone
<1>. QED BY <1>8 DEF ToBeRead, v

\* As long as no program activates what it has not installed, an option is on
\* at one end exactly if it is on at the other, whenever no negotiation of the
\* two is under way: whatever options there are, known at both ends or at one,
\* and whenever they are installed.
THEOREM AgreementHolds ==
    ASSUME ~ActivateUninstalled
    PROVE  Spec => []Agreement
<1>1. Inductive => Agreement
  <2> SUFFICES ASSUME Inductive, NEW o \in Options,
                      Pending(o) = {}, Pending(Counterpart(o)) = {}
               PROVE  /\ ~requesting(o)
                      /\ active(o) => /\ Counterpart(o) \in Options
                                      /\ active(Counterpart(o)) /\ installed(Counterpart(o))
    BY DEF Agreement
  <2> DEFINE p == Counterpart(o)
             r == role(o)
  <2>1. TypeOK /\ OnlyInstalled /\ Phases
    BY DEF Inductive
  <2>2. o \in Places /\ p \in Places /\ r \in Roles /\ Opposite(r) \in Roles
    BY OptionFacts, PlaceFacts, RoleFacts
  <2>3. ToBeRead(o) = <<>> /\ ToBeRead(p) = <<>>
    BY <2>1, <2>2, NothingPending
  <2>4. Either(r, status(o), status(p), <<>>, <<>>)
    BY <2>1, <2>2, <2>3, PhasesAre DEF EitherOf
  <2>5. /\ local_positive(r) \in negotiation_type /\ local_negative(r) \in negotiation_type
        /\ remote_positive(r) \in negotiation_type /\ remote_negative(r) \in negotiation_type
    BY <2>2, RoleFacts
  <2>6. \A a, b \in negotiation_type : <<a>> # <<>> /\ <<a, b>> # <<>>
    BY TupleFacts
  <2>7. status(o) = status(p) /\ status(o) \in {"inactive", "active"}
    <3>1. status(o) = state_[o] /\ status(o) \in internal_state
      BY <2>1, StatusIs, TypeUnfolded
    <3>2. CASE status(o) = "inactive"
      BY <2>2, <2>4, <2>5, <2>6, <3>2, EitherInactive
    <3>3. CASE status(o) = "active"
      BY <2>2, <2>4, <2>5, <2>6, <3>3, EitherActive
    <3>4. CASE status(o) = "activating"
      BY <2>2, <2>4, <2>5, <2>6, <3>4, EitherActivating
    <3>5. CASE status(o) = "deactivating"
      BY <2>2, <2>4, <2>5, <2>6, <3>5, EitherDeactivating
    <3>. QED BY <3>1, <3>2, <3>3, <3>4, <3>5, StateFacts
  <2>8. ~requesting(o)
    BY <2>7, StatusIs DEF requesting
  <2>9. ASSUME active(o) PROVE p \in Options /\ active(p) /\ installed(p)
    <3>1. status(p) = "active"
      BY <2>7, <2>9, StatusIs DEF active
    <3>2. p \in Options /\ active(p)
      BY <3>1, StatusIs DEF active
    <3>3. installed(p)
      BY <2>1, <3>2 DEF OnlyInstalled, active
    <3>. QED BY <3>2, <3>3
  <2>. QED BY <2>8, <2>9
<1>. QED BY <1>1, InductiveHolds, PTL
===============================================================================
