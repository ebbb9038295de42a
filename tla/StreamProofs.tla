------------------------------ MODULE StreamProofs ------------------------------
(***************************************************************************)
(* What comes out of the parser is what went into the generator, for any   *)
(* bytes, elements and chunks.                                             *)
(*                                                                         *)
(* The argument: a byte adds to what a parser has shown something that     *)
(* depends only on where the parser is in a sequence (ByteShown), so a     *)
(* chunk means the same to a parser that has passed on its text as to one  *)
(* that has not (FedShown); a parser between two elements shows exactly    *)
(* the element whose bytes it gets (GeneratedShown); and so the parser,    *)
(* fed the rest of the channel, would always show what is expected, which  *)
(* is Ahead.                                                               *)
(***************************************************************************)
EXTENDS StreamInvariant, WiresProofs

-------------------------------------------------------------------------------
(***************************************************************************)
(* Elements and items.                                                     *)
(***************************************************************************)

LEMMA ElementTypes ==
    /\ \A bytes \in Seq(Bytes) : text(bytes) \in Element
    /\ \A by \in Bytes : command(by) \in Element
    /\ \A request \in negotiation_type, by \in Bytes : negotiation(request, by) \in Element
    /\ \A option \in Bytes, content \in Seq(Bytes) : subnegotiation(option, content) \in Element
BY DEF Element, text, command, negotiation, subnegotiation

LEMMA OneByte ==
    \A by \in Bytes : <<by>> \in Seq(Bytes) /\ text(<<by>>) \in Element
<1>1. \A by \in Bytes : <<by>> \in Seq(Bytes)
  BY SMT
<1>. QED BY <1>1, ElementTypes

LEMMA TextsAre ==
    /\ Texts(<<>>) = <<>>
    /\ \A bytes \in Seq(Bytes) : Texts(bytes) \in Seq(Element)
    /\ \A bytes \in Seq(Bytes), by \in Bytes :
          Texts(Append(bytes, by)) = Append(Texts(bytes), text(<<by>>))
<1>1. Texts(<<>>) = <<>>
  <2> DEFINE none == <<>>
  <2>1. none \in Seq(Bytes) /\ Len(none) = 0
    BY EmptySeq
  <2> HIDE DEF none
  <2>2. DOMAIN none = 1..0
    BY <2>1, LenProperties
  <2>3. Texts(none) = [j \in 1..0 |-> text(<<none[j]>>)]
    BY <2>2 DEF Texts
  <2> DEFINE t == Texts(none)
  <2>4. t \in Seq(Element)
    <3>1. 0 \in Nat /\ \A j \in 1..0 : text(<<none[j]>>) \in Element
      BY SMT
    <3>. QED BY <2>3, <3>1, IsASeq
  <2>5. DOMAIN t = 1..0
    BY <2>3
  <2>6. Len(t) = 0
    <3> HIDE DEF t
    <3>. QED BY <2>4, <2>5, LenProperties
  <2>. QED BY <2>4, <2>6, EmptySeq DEF none
<1>2. ASSUME NEW bytes \in Seq(Bytes)
      PROVE  Texts(bytes) \in Seq(Element)
  <2>1. Len(bytes) \in Nat /\ DOMAIN bytes = 1..Len(bytes) /\ \A i \in 1..Len(bytes) : bytes[i] \in Bytes
    BY LenProperties, ElementOfSeq
  <2>2. \A x \in Bytes : text(<<x>>) \in Element
    BY OneByte
  <2>. QED BY <2>1, <2>2, IsASeq DEF Texts
<1>3. ASSUME NEW bytes \in Seq(Bytes), NEW by \in Bytes
      PROVE  /\ Texts(bytes) \in Seq(Element)
             /\ Texts(Append(bytes, by)) = Append(Texts(bytes), text(<<by>>))
  <2> DEFINE n == Len(bytes)
             more == Append(bytes, by)
             a == Texts(bytes)
             c == Append(a, text(<<by>>))
  <2>1. n \in Nat /\ DOMAIN bytes = 1..n /\ \A i \in 1..n : bytes[i] \in Bytes
    BY LenProperties, ElementOfSeq
  <2>2. DOMAIN more = 1..(n + 1) /\ more[n + 1] = by /\ \A i \in 1..n : more[i] = bytes[i]
    BY <2>1, AppendProperties, LenProperties
  <2>3. \A x \in Bytes : text(<<x>>) \in Element
    BY OneByte
  <2>4. a = [i \in 1..n |-> text(<<bytes[i]>>)]
    BY <2>1 DEF Texts
  <2>5. a \in Seq(Element) /\ Len(a) = n
    <3>1. \A i \in 1..n : text(<<bytes[i]>>) \in Element
      BY <2>1, <2>3
    <3>2. a \in Seq(Element)
      BY <2>1, <2>4, <3>1, IsASeq
    <3>3. DOMAIN a = 1..n
      BY <2>4
    <3>. QED BY <2>1, <3>2, <3>3, LenProperties
  <2> HIDE DEF a, more
  <2>6. c \in Seq(Element) /\ Len(c) = n + 1 /\ c[n + 1] = text(<<by>>)
        /\ \A i \in 1..n : c[i] = a[i]
    BY <2>3, <2>5, AppendProperties
  <2>7. DOMAIN c = 1..(n + 1) /\ c = [i \in DOMAIN c |-> c[i]]
    <3> HIDE DEF c
    <3>. QED BY <2>6, LenProperties
  <2>8. \A i \in 1..(n + 1) : c[i] = text(<<more[i]>>)
    <3>1. \A i \in 1..(n + 1) : i \in 1..n \/ i = n + 1
      BY <2>1
    <3>2. \A i \in 1..n : c[i] = text(<<more[i]>>)
      BY <2>2, <2>4, <2>6
    <3>. QED BY <2>2, <2>6, <3>1, <3>2
  <2>9. Texts(more) = [i \in 1..(n + 1) |-> text(<<more[i]>>)]
    BY <2>2 DEF Texts
  <2> HIDE DEF c
  <2>10. Texts(more) = c
    BY <2>7, <2>8, <2>9
  <2>. QED BY <2>5, <2>10 DEF a, c, more
<1>. QED BY <1>1, <1>2, <1>3

\* ItemsOf as a function.
itemsOf == [elem \in Element |-> ItemsOf(elem)]

LEMMA ItemsOfType == itemsOf \in [Element -> Seq(Element)]
<1>1. ASSUME NEW elem \in Element PROVE ItemsOf(elem) \in Seq(Element)
  <2>1. CASE elem.kind = "text"
    <3>1. elem.bytes \in Seq(Bytes)
      BY <2>1 DEF Element
    <3>. QED BY <2>1, <3>1, TextsAre DEF ItemsOf
  <2>2. CASE elem.kind # "text"
    <3>1. <<elem>> \in Seq(Element)
      BY SMT
    <3>. QED BY <2>2, <3>1 DEF ItemsOf
  <2>. QED BY <2>1, <2>2
<1>. QED BY <1>1 DEF itemsOf

LEMMA ItemsSpread ==
    ASSUME NEW elems \in Seq(Element)
    PROVE  Items(elems) = Spread(elems, itemsOf)
<1>1. \A i \in DOMAIN elems : elems[i] \in Element
  BY LenProperties, ElementOfSeq
<1>2. [i \in DOMAIN elems |-> ItemsOf(elems[i])] = [i \in DOMAIN elems |-> itemsOf[elems[i]]]
  BY <1>1 DEF itemsOf
<1>. QED BY <1>2 DEF Items, Spread

LEMMA ItemsAre ==
    /\ Items(<<>>) = <<>>
    /\ \A elems \in Seq(Element) : Items(elems) \in Seq(Element)
    /\ \A elems \in Seq(Element), elem \in Element :
          Items(Append(elems, elem)) = Items(elems) \o ItemsOf(elem)
    /\ \A elem \in Element : Items(<<elem>>) = ItemsOf(elem) /\ ItemsOf(elem) \in Seq(Element)
<1>1. Items(<<>>) = <<>>
  BY ItemsSpread, SpreadEmpty, EmptySeq
<1>2. ASSUME NEW elems \in Seq(Element) PROVE Items(elems) \in Seq(Element)
  BY ItemsSpread, SpreadType, ItemsOfType
<1>3. ASSUME NEW elems \in Seq(Element), NEW elem \in Element
      PROVE  Items(Append(elems, elem)) = Items(elems) \o ItemsOf(elem)
  <2>1. Append(elems, elem) \in Seq(Element)
    BY AppendProperties
  <2>2. Spread(Append(elems, elem), itemsOf) = Spread(elems, itemsOf) \o itemsOf[elem]
    BY SpreadAppend, ItemsOfType
  <2>. QED BY <2>1, <2>2, ItemsSpread DEF itemsOf
<1>4. ASSUME NEW elem \in Element
      PROVE  Items(<<elem>>) = ItemsOf(elem) /\ ItemsOf(elem) \in Seq(Element)
  <2>1. ItemsOf(elem) \in Seq(Element)
    BY ItemsOfType DEF itemsOf
  <2>2. <<elem>> = Append(<<>>, elem)
    BY SMT
  <2>3. Items(<<elem>>) = <<>> \o ItemsOf(elem)
    BY <1>1, <1>3, <2>2, EmptySeq
  <2>. QED BY <2>1, <2>3, ConcatEmptySeq
<1>. QED BY <1>1, <1>2, <1>3, <1>4

-------------------------------------------------------------------------------
(***************************************************************************)
(* One byte.                                                               *)
(***************************************************************************)
Members == [state : parsing_state, plain_data : Seq(Bytes), content : Seq(Bytes),
            type : negotiation_type, option : Bytes, out : Seq(Element)]

\* What a byte tells the program: it depends on nothing but where in a sequence
\* the parser is.
Told(p, by) ==
    CASE p.state = "idle" /\ by # "iac" -> <<text(<<by>>)>>
      [] p.state = "iac" /\ by = "iac" -> <<text(<<by>>)>>
      [] p.state = "iac" /\ by \notin negotiation_type \cup {"iac", "sb"} -> <<command(by)>>
      [] p.state = "negotiation" -> <<negotiation(p.type, by)>>
      [] p.state = "content_iac" /\ by = "se" -> <<subnegotiation(p.option, p.content)>>
      [] OTHER -> <<>>

LEMMA ShownType ==
    ASSUME NEW p \in Members
    PROVE  /\ Items(p.out) \in Seq(Element)
           /\ Texts(p.plain_data) \in Seq(Element)
           /\ Shown(p) \in Seq(Element)
<1>1. p.out \in Seq(Element) /\ p.plain_data \in Seq(Bytes)
  BY DEF Members
<1>2. Items(p.out) \in Seq(Element) /\ Texts(p.plain_data) \in Seq(Element)
  BY <1>1, ItemsAre, TextsAre
<1>. QED BY <1>2, ConcatProperties DEF Shown

\* A byte of text.
LEMMA ShownText ==
    ASSUME NEW p \in Members, NEW by \in Bytes, NEW q \in Members,
           q.out = p.out, q.plain_data = Append(p.plain_data, by)
    PROVE  Shown(q) = Shown(p) \o <<text(<<by>>)>>
<1> DEFINE a == Items(p.out)
           b == Texts(p.plain_data)
           x == text(<<by>>)
<1>1. a \in Seq(Element) /\ b \in Seq(Element) /\ x \in Element
  BY ShownType, OneByte
<1>2. p.plain_data \in Seq(Bytes)
  BY DEF Members
<1>3. Texts(Append(p.plain_data, by)) = Append(b, x)
  BY <1>2, TextsAre
<1> HIDE DEF a, b, x
<1>4. a \o Append(b, x) = (a \o b) \o <<x>>
  BY <1>1, SMT
<1>. QED BY <1>3, <1>4 DEF Shown, a, b, x

\* An element that is passed on when no text waits.
LEMMA ShownElement ==
    ASSUME NEW p \in Members, NEW elem \in Element, NEW q \in Members,
           p.plain_data = <<>>, q.out = Append(p.out, elem), q.plain_data = <<>>
    PROVE  Shown(q) = Shown(p) \o ItemsOf(elem)
<1>1. p.out \in Seq(Element)
  BY DEF Members
<1>2. Items(q.out) = Items(p.out) \o ItemsOf(elem)
  BY <1>1, ItemsAre
<1>3. Texts(<<>>) = <<>>
  BY TextsAre
<1>4. Items(p.out) \in Seq(Element) /\ Items(q.out) \in Seq(Element)
  BY ShownType
<1>5. Shown(p) = Items(p.out) /\ Shown(q) = Items(q.out)
  BY <1>3, <1>4, ConcatEmptySeq DEF Shown
<1>. QED BY <1>2, <1>5

\* The text that waits is passed on: nothing more is shown.
LEMMA EmitPlain ==
    ASSUME NEW p \in Members
    PROVE  LET q == emit_plain_data(p) IN
           /\ q \in Members
           /\ q.plain_data = <<>>
           /\ Shown(q) = Shown(p)
           /\ q.state = p.state /\ q.type = p.type /\ q.option = p.option /\ q.content = p.content
<1> DEFINE q == emit_plain_data(p)
<1>1. CASE p.plain_data = <<>>
  BY <1>1 DEF emit_plain_data
<1>2. CASE p.plain_data # <<>>
  <2> DEFINE elem == text(p.plain_data)
  <2>1. p.plain_data \in Seq(Bytes) /\ elem \in Element /\ p.out \in Seq(Element)
    BY ElementTypes DEF Members
  <2>2. Append(p.out, elem) \in Seq(Element) /\ <<>> \in Seq(Bytes)
    BY <2>1, AppendProperties, EmptySeq
  <2>3. ItemsOf(elem) = Texts(p.plain_data)
    BY DEF ItemsOf, text
  <2>4. q = [[p EXCEPT !.out = Append(@, elem)] EXCEPT !.plain_data = <<>>]
    BY <1>2 DEF emit_plain_data, emit
  <2> HIDE DEF elem
  <2>5. /\ q \in Members /\ q.plain_data = <<>> /\ q.out = Append(p.out, elem)
        /\ q.state = p.state /\ q.type = p.type /\ q.option = p.option /\ q.content = p.content
    BY <2>2, <2>4 DEF Members
  <2>6. Items(q.out) = Items(p.out) \o Texts(p.plain_data)
    BY <2>1, <2>3, <2>5, ItemsAre
  <2>7. Shown(q) = Items(q.out)
    <3> HIDE DEF q
    <3>1. Items(q.out) \in Seq(Element)
      BY <2>5, ShownType
    <3>2. Texts(q.plain_data) = <<>>
      BY <2>5, TextsAre
    <3>. QED BY <3>1, <3>2, ConcatEmptySeq DEF Shown
  <2>. QED BY <2>5, <2>6, <2>7 DEF Shown
<1>. QED BY <1>1, <1>2

\* What parse_byte does, case by case: the state it leaves, and what it tells.
LEMMA ByteShown ==
    ASSUME NEW p \in Parser, NEW by \in Bytes
    PROVE  LET q == parse_byte(p, by) IN
           /\ q \in Parser
           /\ Shown(q) = Shown(p) \o Told(p, by)
<1> DEFINE q == parse_byte(p, by)
           Claim == q \in Parser /\ Shown(q) = Shown(p) \o Told(p, by)
<1>1. p \in Members /\ p.state \in parsing_state /\ p.plain_data \in Seq(Bytes)
      /\ p.content \in Seq(Bytes) /\ p.type \in negotiation_type /\ p.option \in Bytes
  BY DEF Parser, Members
<1>2. Shown(p) \in Seq(Element) /\ Shown(p) \o <<>> = Shown(p)
  BY <1>1, ShownType, ConcatEmptySeq
<1>3. Append(p.plain_data, by) \in Seq(Bytes) /\ Append(p.content, by) \in Seq(Bytes)
      /\ <<>> \in Seq(Bytes)
  BY <1>1, AppendProperties, EmptySeq
<1>4. ASSUME p.state \in {"idle", "iac"}, NEW state \in {"idle", "iac"},
             q = [p EXCEPT !.plain_data = Append(@, by), !.state = state],
             Told(p, by) = <<text(<<by>>)>>
      PROVE  Claim
  <2>1. /\ q \in Parser /\ q \in Members
        /\ q.out = p.out /\ q.plain_data = Append(p.plain_data, by)
    BY <1>1, <1>3, <1>4 DEF Parser, Members, parsing_state
  <2> HIDE DEF q
  <2>. QED BY <1>1, <1>4, <2>1, ShownText
<1>5. ASSUME Told(p, by) = <<>>, NEW r, Shown(r) = Shown(p),
             q \in Parser, q.out = r.out, q.plain_data = r.plain_data
      PROVE  Claim
  <2> HIDE DEF q
  <2>1. Shown(q) = Shown(r)
    BY <1>5 DEF Shown
  <2>. QED BY <1>2, <1>5, <2>1
<1>6. ASSUME NEW elem \in Element, elem.kind # "text", Told(p, by) = <<elem>>,
             NEW r \in Members, r.plain_data = <<>>, Shown(r) = Shown(p),
             q = [emit(r, elem) EXCEPT !.state = "idle"]
      PROVE  Claim
  <2>1. r.out \in Seq(Element)
    BY DEF Members
  <2>2. Append(r.out, elem) \in Seq(Element)
    BY <2>1, AppendProperties
  <2>3. /\ q \in Parser /\ q \in Members
        /\ q.out = Append(r.out, elem) /\ q.plain_data = <<>>
    BY <1>6, <2>2 DEF Parser, Members, parsing_state, emit
  <2>4. ItemsOf(elem) = <<elem>>
    BY <1>6 DEF ItemsOf
  <2> HIDE DEF q
  <2>. QED BY <1>6, <2>3, <2>4, ShownElement
<1>7. CASE p.state = "idle"
  <2>1. q = parse_idle(p, by)
    BY <1>7 DEF parse_byte
  <2>2. CASE by = "iac"
    <3>1. Told(p, by) = <<>> /\ q = [p EXCEPT !.state = "iac"]
      BY <1>7, <2>1, <2>2 DEF Told, parse_idle
    <3>2. q \in Parser /\ q.out = p.out /\ q.plain_data = p.plain_data
      BY <1>1, <3>1 DEF Parser, Members, parsing_state
    <3>. QED BY <1>5, <3>1, <3>2
  <2>3. CASE by # "iac"
    <3>1. Told(p, by) = <<text(<<by>>)>>
      BY <1>7, <2>3 DEF Told
    <3>2. q = [p EXCEPT !.plain_data = Append(@, by)]
      BY <2>1, <2>3 DEF parse_idle
    <3>3. q = [p EXCEPT !.plain_data = Append(@, by), !.state = "idle"]
      BY <1>1, <1>7, <3>2 DEF Members
    <3>. QED BY <1>4, <1>7, <3>1, <3>3
  <2>. QED BY <2>2, <2>3
<1>8. CASE p.state = "iac"
  <2> DEFINE r == emit_plain_data(p)
  <2>1. /\ r \in Members /\ r.plain_data = <<>> /\ Shown(r) = Shown(p)
    BY <1>1, EmitPlain
  <2>2. q = parse_iac(p, by)
    BY <1>8 DEF parse_byte
  <2>3. CASE by = "iac"
    <3>1. Told(p, by) = <<text(<<by>>)>>
      BY <1>8, <2>3 DEF Told
    <3>2. q = [p EXCEPT !.plain_data = Append(@, by), !.state = "idle"]
      BY <2>2, <2>3 DEF parse_iac, negotiation_type
    <3>. QED BY <1>4, <1>8, <3>1, <3>2
  <2>4. CASE by \in negotiation_type
    <3>1. by \notin {"iac", "sb"}
      BY <2>4 DEF negotiation_type
    <3>2. Told(p, by) = <<>> /\ q = [r EXCEPT !.type = by, !.state = "negotiation"]
      BY <1>8, <2>2, <2>4, <3>1 DEF Told, parse_iac
    <3> HIDE DEF r
    <3>3. q \in Parser /\ q.out = r.out /\ q.plain_data = r.plain_data
      BY <2>1, <2>4, <3>2 DEF Parser, Members, parsing_state
    <3>. QED BY <1>5, <2>1, <3>2, <3>3
  <2>5. CASE by = "sb"
    <3>1. by \notin negotiation_type
      BY <2>5 DEF negotiation_type
    <3>2. Told(p, by) = <<>> /\ q = [r EXCEPT !.state = "subnegotiation"]
      BY <1>8, <2>2, <2>5, <3>1 DEF Told, parse_iac
    <3> HIDE DEF r
    <3>3. q \in Parser /\ q.out = r.out /\ q.plain_data = r.plain_data
      BY <2>1, <3>2 DEF Parser, Members, parsing_state
    <3>. QED BY <1>5, <2>1, <3>2, <3>3
  <2>6. CASE by \notin negotiation_type \cup {"iac", "sb"}
    <3>1. Told(p, by) = <<command(by)>>
      BY <1>8, <2>6 DEF Told
    <3>2. q = [emit(r, command(by)) EXCEPT !.state = "idle"]
      BY <2>2, <2>6 DEF parse_iac
    <3>3. command(by) \in Element /\ command(by).kind # "text"
      BY ElementTypes DEF command
    <3>. QED BY <1>6, <2>1, <3>1, <3>2, <3>3
  <2>. QED BY <2>3, <2>4, <2>5, <2>6
<1>9. CASE p.state = "negotiation"
  <2> DEFINE elem == negotiation(p.type, by)
  <2>1. p.plain_data = <<>>
    BY <1>9 DEF Parser
  <2>2. Told(p, by) = <<elem>> /\ q = [emit(p, elem) EXCEPT !.state = "idle"]
    BY <1>9 DEF Told, parse_byte, parse_negotiation
  <2>3. elem \in Element /\ elem.kind # "text"
    BY <1>1, ElementTypes DEF negotiation
  <2>. QED BY <1>1, <1>6, <2>1, <2>2, <2>3
<1>10. CASE p.state = "subnegotiation"
  <2>1. p.plain_data = <<>>
    BY <1>10 DEF Parser
  <2>2. Told(p, by) = <<>>
        /\ q = [p EXCEPT !.option = by, !.content = <<>>, !.state = "content"]
    BY <1>10 DEF Told, parse_byte, parse_subnegotiation
  <2>3. q \in Parser /\ q.out = p.out /\ q.plain_data = p.plain_data
    BY <1>1, <1>3, <2>1, <2>2 DEF Parser, Members, parsing_state
  <2>. QED BY <1>5, <2>2, <2>3
<1>11. CASE p.state = "content"
  <2>1. p.plain_data = <<>>
    BY <1>11 DEF Parser
  <2>2. Told(p, by) = <<>> /\ q = parse_subnegotiation_content(p, by)
    BY <1>11 DEF Told, parse_byte
  <2>3. q \in Parser /\ q.out = p.out /\ q.plain_data = p.plain_data
    BY <1>1, <1>3, <2>1, <2>2 DEF Parser, Members, parsing_state, parse_subnegotiation_content
  <2>. QED BY <1>5, <2>2, <2>3
<1>12. CASE p.state = "content_iac"
  <2> DEFINE elem == subnegotiation(p.option, p.content)
  <2>1. p.plain_data = <<>> /\ q = parse_subnegotiation_content_iac(p, by)
    BY <1>12 DEF Parser, parse_byte
  <2>2. CASE by = "se"
    <3>1. Told(p, by) = <<elem>> /\ q = [emit(p, elem) EXCEPT !.state = "idle"]
      BY <1>12, <2>1, <2>2 DEF Told, parse_subnegotiation_content_iac
    <3>2. elem \in Element /\ elem.kind # "text"
      BY <1>1, ElementTypes DEF subnegotiation
    <3>. QED BY <1>1, <1>6, <2>1, <3>1, <3>2
  <2>3. CASE by # "se"
    <3>1. Told(p, by) = <<>>
          /\ q = [p EXCEPT !.content = Append(@, by), !.state = "content"]
      BY <1>12, <2>1, <2>3 DEF Told, parse_subnegotiation_content_iac
    <3>2. q \in Parser /\ q.out = p.out /\ q.plain_data = p.plain_data
      BY <1>1, <1>3, <2>1, <3>1 DEF Parser, Members, parsing_state
    <3>. QED BY <1>5, <3>1, <3>2
  <2>. QED BY <2>2, <2>3
<1>. QED BY <1>1, <1>7, <1>8, <1>9, <1>10, <1>11, <1>12 DEF parsing_state

-------------------------------------------------------------------------------
(***************************************************************************)
(* Parsers that are at the same place.                                     *)
(***************************************************************************)
Alike(p, r) ==
    p.state = r.state /\ p.content = r.content /\ p.type = r.type /\ p.option = r.option

LEMMA FreshAlike ==
    ASSUME NEW p \in Parser, NEW r \in Parser
    PROVE  Fresh(p) = Fresh(r) <=> Alike(p, r)
<1>1. p \in Members /\ r \in Members
  BY DEF Parser, Members
<1>2. Fresh(p) \in Members /\ Fresh(r) \in Members
  BY <1>1, EmptySeq DEF Members, Fresh
<1>3. Fresh(p).plain_data = <<>> /\ Fresh(p).out = <<>> /\ Alike(Fresh(p), p)
      /\ Fresh(r).plain_data = <<>> /\ Fresh(r).out = <<>> /\ Alike(Fresh(r), r)
  BY <1>1 DEF Members, Fresh, Alike
<1>4. ASSUME NEW a \in Members, NEW b \in Members,
             a.plain_data = b.plain_data, a.out = b.out, Alike(a, b)
      PROVE  a = b
  BY <1>4 DEF Members, Alike
<1>5. ASSUME Alike(p, r) PROVE Fresh(p) = Fresh(r)
  <2>1. Alike(Fresh(p), Fresh(r))
    BY <1>3, <1>5 DEF Alike
  <2>. QED BY <1>2, <1>3, <1>4, <2>1
<1>6. ASSUME Fresh(p) = Fresh(r) PROVE Alike(p, r)
  BY <1>3, <1>6 DEF Alike
<1>. QED BY <1>5, <1>6

LEMMA FreshIs ==
    ASSUME NEW p \in Parser
    PROVE  /\ Fresh(p) \in Parser
           /\ Fresh(Fresh(p)) = Fresh(p)
           /\ Alike(Fresh(p), p)
           /\ Shown(Fresh(p)) = <<>>
<1> DEFINE q == Fresh(p)
<1>1. p \in Members
  BY DEF Parser, Members
<1>2. q \in Parser /\ q.plain_data = <<>> /\ q.out = <<>> /\ Alike(q, p)
  BY <1>1, EmptySeq DEF Parser, Members, Fresh, Alike
<1>3. Shown(q) = <<>>
  <2> HIDE DEF q
  <2>1. <<>> \o <<>> = <<>>
    BY EmptySeq, ConcatEmptySeq
  <2>. QED BY <1>2, <2>1, ItemsAre, TextsAre DEF Shown
<1>4. Fresh(q) = q
  <2>1. [q EXCEPT !.plain_data = <<>>, !.out = <<>>] = q
    <3> HIDE DEF q
    <3>. QED BY <1>2 DEF Parser
  <2>. QED BY <2>1 DEF Fresh
<1>. QED BY <1>2, <1>3, <1>4

LEMMA ToldType ==
    ASSUME NEW p \in Parser, NEW by \in Bytes
    PROVE  Told(p, by) \in Seq(Element)
<1>1. p.type \in negotiation_type /\ p.option \in Bytes /\ p.content \in Seq(Bytes)
  BY DEF Parser
<1>2. \A x \in Element : <<x>> \in Seq(Element)
  BY SMT
<1>3. /\ <<text(<<by>>)>> \in Seq(Element)
      /\ <<command(by)>> \in Seq(Element)
      /\ <<negotiation(p.type, by)>> \in Seq(Element)
      /\ <<subnegotiation(p.option, p.content)>> \in Seq(Element)
      /\ <<>> \in Seq(Element)
  BY <1>1, <1>2, OneByte, ElementTypes, EmptySeq
<1>. QED BY <1>3 DEF Told

LEMMA ByteAlike ==
    ASSUME NEW p \in Parser, NEW r \in Parser, NEW by \in Bytes, Alike(p, r)
    PROVE  Told(p, by) = Told(r, by) /\ Alike(parse_byte(p, by), parse_byte(r, by))
<1> DEFINE x == parse_byte(p, by)
           y == parse_byte(r, by)
<1>1. p \in Members /\ r \in Members /\ p.state = r.state /\ p.state \in parsing_state
  BY DEF Parser, Members, Alike
<1>2. Told(p, by) = Told(r, by)
  BY DEF Told, Alike
<1>3. CASE p.state = "iac"
  <2> DEFINE e == emit_plain_data(p)
             f == emit_plain_data(r)
  <2>1. e \in Members /\ f \in Members /\ Alike(e, p) /\ Alike(f, r)
    BY <1>1, EmitPlain DEF Alike
  <2>2. Alike(e, f)
    BY <2>1 DEF Alike
  <2>3. x = parse_iac(p, by) /\ y = parse_iac(r, by)
    BY <1>1, <1>3 DEF parse_byte
  <2>4. CASE by = "iac"
    <3>1. /\ x = [p EXCEPT !.plain_data = Append(@, by), !.state = "idle"]
          /\ y = [r EXCEPT !.plain_data = Append(@, by), !.state = "idle"]
      BY <2>3, <2>4 DEF parse_iac, negotiation_type
    <3>. QED BY <1>1, <1>2, <3>1 DEF Members, Alike
  <2>5. CASE by \in negotiation_type
    <3>1. by \notin {"iac", "sb"}
      BY <2>5 DEF negotiation_type
    <3>2. /\ x = [e EXCEPT !.type = by, !.state = "negotiation"]
          /\ y = [f EXCEPT !.type = by, !.state = "negotiation"]
      BY <2>3, <2>5, <3>1 DEF parse_iac
    <3> HIDE DEF e, f
    <3>. QED BY <1>2, <2>1, <2>2, <3>2 DEF Members, Alike
  <2>6. CASE by = "sb"
    <3>1. by \notin negotiation_type
      BY <2>6 DEF negotiation_type
    <3>2. x = [e EXCEPT !.state = "subnegotiation"] /\ y = [f EXCEPT !.state = "subnegotiation"]
      BY <2>3, <2>6, <3>1 DEF parse_iac
    <3> HIDE DEF e, f
    <3>. QED BY <1>2, <2>1, <2>2, <3>2 DEF Members, Alike
  <2>7. CASE by \notin negotiation_type \cup {"iac", "sb"}
    <3>1. /\ x = [emit(e, command(by)) EXCEPT !.state = "idle"]
          /\ y = [emit(f, command(by)) EXCEPT !.state = "idle"]
      BY <2>3, <2>7 DEF parse_iac
    <3> HIDE DEF e, f
    <3>. QED BY <1>2, <2>1, <2>2, <3>1 DEF Members, Alike, emit
  <2>. QED BY <2>4, <2>5, <2>6, <2>7
<1>4. CASE p.state = "idle"
  <2>1. x = parse_idle(p, by) /\ y = parse_idle(r, by)
    BY <1>1, <1>4 DEF parse_byte
  <2>. QED BY <1>1, <1>2, <2>1 DEF Members, Alike, parse_idle
<1>5. CASE p.state = "negotiation"
  <2>1. x = parse_negotiation(p, by) /\ y = parse_negotiation(r, by)
    BY <1>1, <1>5 DEF parse_byte
  <2>. QED BY <1>1, <1>2, <2>1 DEF Members, Alike, parse_negotiation, emit
<1>6. CASE p.state = "subnegotiation"
  <2>1. x = parse_subnegotiation(p, by) /\ y = parse_subnegotiation(r, by)
    BY <1>1, <1>6 DEF parse_byte
  <2>. QED BY <1>1, <1>2, <2>1 DEF Members, Alike, parse_subnegotiation
<1>7. CASE p.state = "content"
  <2>1. x = parse_subnegotiation_content(p, by) /\ y = parse_subnegotiation_content(r, by)
    BY <1>1, <1>7 DEF parse_byte
  <2>. QED BY <1>1, <1>2, <2>1 DEF Members, Alike, parse_subnegotiation_content
<1>8. CASE p.state = "content_iac"
  <2>1. x = parse_subnegotiation_content_iac(p, by) /\ y = parse_subnegotiation_content_iac(r, by)
    BY <1>1, <1>8 DEF parse_byte
  <2>. QED BY <1>1, <1>2, <2>1 DEF Members, Alike, parse_subnegotiation_content_iac, emit
<1>. QED BY <1>1, <1>3, <1>4, <1>5, <1>6, <1>7, <1>8 DEF parsing_state

-------------------------------------------------------------------------------
(***************************************************************************)
(* Many bytes.                                                             *)
(***************************************************************************)
LEMMA FedExists ==
    ASSUME NEW p \in Parser, NEW data \in Seq(Bytes)
    PROVE  \E g \in [0..Len(data) -> Parser] :
              g[0] = p /\ \A i \in 1..Len(data) : g[i] = parse_byte(g[i - 1], data[i])
<1> DEFINE n == Len(data)
           F == [z \in Parser \X (1..n) |-> parse_byte(z[1], data[z[2]])]
<1>1. n \in Nat /\ \A i \in 1..n : data[i] \in Bytes
  BY LenProperties, ElementOfSeq
<1>2. F \in [Parser \X (1..n) -> Parser]
  <2>1. \A z \in Parser \X (1..n) : parse_byte(z[1], data[z[2]]) \in Parser
    BY <1>1, ByteShown
  <2>. QED BY <2>1
<1>3. \A q \in Parser, i \in 1..n : F[<<q, i>>] = parse_byte(q, data[i])
  OBVIOUS
<1> HIDE DEF F, n
<1>4. PICK g \in [0..n -> Parser] : Repeats(g, p, F, n)
  BY <1>1, <1>2, RepeatsExists
<1>5. ASSUME NEW i \in 1..n PROVE g[i] = parse_byte(g[i - 1], data[i])
  <2>1. i - 1 \in 0..n
    BY <1>1, SMT
  <2>2. g[i] = F[<<g[i - 1], i>>] /\ g[i - 1] \in Parser
    BY <1>4, <2>1 DEF Repeats
  <2>. QED BY <1>3, <2>2
<1>. QED BY <1>4, <1>5 DEF Repeats, n

LEMMA FedIs ==
    ASSUME NEW p \in Parser, NEW data \in Seq(Bytes), NEW g \in [0..Len(data) -> Parser],
           g[0] = p, \A i \in 1..Len(data) : g[i] = parse_byte(g[i - 1], data[i])
    PROVE  fed(p, data) = g[Len(data)]
<1> DEFINE n == Len(data)
           Form(f) == [i \in 0..n |-> IF i = 0 THEN p ELSE parse_byte(f[i - 1], data[i])]
           after == CHOOSE f : f = Form(f)
<1>1. n \in Nat
  BY LenProperties
<1>2. g = Form(g)
  <2>1. ASSUME NEW i \in 0..n
        PROVE  g[i] = IF i = 0 THEN p ELSE parse_byte(g[i - 1], data[i])
    <3>1. i = 0 \/ i \in 1..n
      BY <1>1, SMT
    <3>. QED BY <3>1
  <2>. QED BY <2>1
<1>3. after = Form(after)
  BY <1>2
<1>4. fed(p, data) = after[n]
  BY DEF fed
<1> HIDE DEF after
<1> DEFINE R == {k \in Nat : k <= n => after[k] = g[k]}
<1>5. 0 \in R
  <2>1. 0 \in 0..n
    BY <1>1, SMT
  <2>. QED BY <1>3, <2>1
<1>6. ASSUME NEW k \in Nat, k \in R PROVE k + 1 \in R
  <2>1. k + 1 \in Nat /\ (k + 1) - 1 = k /\ k + 1 # 0
        /\ (k + 1 <= n => k <= n /\ k + 1 \in 1..n /\ k + 1 \in 0..n)
    BY <1>1, SMT
  <2>2. CASE k + 1 <= n
    <3>1. after[k] = g[k]
      BY <1>6, <2>1, <2>2
    <3>2. after[k + 1] = parse_byte(after[k], data[k + 1])
      BY <1>3, <2>1, <2>2
    <3>3. g[k + 1] = parse_byte(g[k], data[k + 1])
      BY <2>1, <2>2
    <3>. QED BY <2>1, <3>1, <3>2, <3>3
  <2>3. CASE ~(k + 1 <= n)
    BY <2>1, <2>3
  <2>. QED BY <2>2, <2>3
<1>7. n \in R
  <2> HIDE DEF R
  <2>. QED BY <1>1, <1>5, <1>6, NaturalsReached
<1>. QED BY <1>1, <1>4, <1>7

LEMMA FedType ==
    ASSUME NEW p \in Parser, NEW data \in Seq(Bytes)
    PROVE  fed(p, data) \in Parser
<1>1. PICK g \in [0..Len(data) -> Parser] :
              g[0] = p /\ \A i \in 1..Len(data) : g[i] = parse_byte(g[i - 1], data[i])
  BY FedExists
<1>2. Len(data) \in 0..Len(data)
  BY LenProperties
<1>. QED BY <1>1, <1>2, FedIs

LEMMA FedEmpty ==
    ASSUME NEW p \in Parser
    PROVE  fed(p, <<>>) = p
<1> DEFINE none == <<>>
<1>1. none \in Seq(Bytes) /\ Len(none) = 0
  BY EmptySeq
<1> HIDE DEF none
<1>2. PICK g \in [0..Len(none) -> Parser] :
              g[0] = p /\ \A i \in 1..Len(none) : g[i] = parse_byte(g[i - 1], none[i])
  BY <1>1, FedExists
<1>3. fed(p, none) = p
  BY <1>1, <1>2, FedIs
<1>. QED BY <1>3 DEF none

LEMMA FedAppend ==
    ASSUME NEW p \in Parser, NEW data \in Seq(Bytes), NEW by \in Bytes
    PROVE  fed(p, Append(data, by)) = parse_byte(fed(p, data), by)
<1> DEFINE n == Len(data)
           more == Append(data, by)
<1>1. n \in Nat /\ more \in Seq(Bytes) /\ Len(more) = n + 1 /\ more[n + 1] = by
      /\ \A i \in 1..n : more[i] = data[i]
  BY AppendProperties, LenProperties
<1> HIDE DEF more
<1>2. PICK g \in [0..Len(more) -> Parser] :
              g[0] = p /\ \A i \in 1..Len(more) : g[i] = parse_byte(g[i - 1], more[i])
  BY <1>1, FedExists
<1>3. fed(p, more) = g[n + 1]
  BY <1>1, <1>2, FedIs
<1> DEFINE h == [i \in 0..n |-> g[i]]
<1>4. h \in [0..n -> Parser]
  BY <1>1, <1>2
<1>5. h[0] = p
  BY <1>1, <1>2
<1>6. ASSUME NEW i \in 1..n PROVE h[i] = parse_byte(h[i - 1], data[i])
  <2>1. i \in 1..(n + 1) /\ i \in 0..n /\ i - 1 \in 0..n
    BY <1>1, SMT
  <2>2. g[i] = parse_byte(g[i - 1], more[i])
    BY <1>1, <1>2, <2>1
  <2>. QED BY <1>1, <2>1, <2>2
<1>7. fed(p, data) = h[n]
  <2> HIDE DEF h
  <2>. QED BY <1>4, <1>5, <1>6, FedIs
<1>8. n \in 0..n /\ n + 1 \in 1..(n + 1) /\ (n + 1) - 1 = n
  BY <1>1, SMT
<1>9. g[n + 1] = parse_byte(g[n], by)
  BY <1>1, <1>2, <1>8
<1>. QED BY <1>3, <1>7, <1>8, <1>9 DEF more

\* A chunk may be cut anywhere.
LEMMA FedConcat ==
    ASSUME NEW p \in Parser, NEW data \in Seq(Bytes)
    PROVE  \A rest \in Seq(Bytes) : fed(p, data \o rest) = fed(fed(p, data), rest)
<1> DEFINE R == {rest \in Seq(Bytes) : fed(p, data \o rest) = fed(fed(p, data), rest)}
<1>0. fed(p, data) \in Parser
  BY FedType
<1>1. <<>> \in R
  BY <1>0, FedEmpty, ConcatEmptySeq, EmptySeq
<1>2. ASSUME NEW rest \in Seq(Bytes), NEW by \in Bytes, rest \in R PROVE Append(rest, by) \in R
  <2>1. Append(rest, by) \in Seq(Bytes) /\ data \o rest \in Seq(Bytes)
        /\ data \o Append(rest, by) = Append(data \o rest, by)
    BY SMT
  <2>2. fed(p, data \o Append(rest, by)) = parse_byte(fed(p, data \o rest), by)
    BY <2>1, FedAppend
  <2>3. fed(fed(p, data), Append(rest, by)) = parse_byte(fed(fed(p, data), rest), by)
    BY <1>0, FedAppend
  <2>. QED BY <1>2, <2>1, <2>2, <2>3
<1>3. \A rest \in Seq(Bytes) : rest \in R
  <2> HIDE DEF R
  <2>. QED BY <1>1, <1>2, SequencesReached
<1>. QED BY <1>3

\* What a chunk means does not depend on the text at hand, nor on what has been
\* passed on.
LEMMA FedShown ==
    ASSUME NEW p \in Parser, NEW r \in Parser, Alike(p, r), Shown(r) = <<>>
    PROVE  \A data \in Seq(Bytes) :
              /\ Shown(fed(p, data)) = Shown(p) \o Shown(fed(r, data))
              /\ Alike(fed(p, data), fed(r, data))
<1> DEFINE R == {data \in Seq(Bytes) :
                    /\ Shown(fed(p, data)) = Shown(p) \o Shown(fed(r, data))
                    /\ Alike(fed(p, data), fed(r, data))}
<1>0. \A q \in Parser : Shown(q) \in Seq(Element)
  BY ShownType DEF Parser, Members
<1>1. <<>> \in R
  BY <1>0, FedEmpty, ConcatEmptySeq, EmptySeq
<1>2. ASSUME NEW data \in Seq(Bytes), NEW by \in Bytes, data \in R PROVE Append(data, by) \in R
  <2> DEFINE x == fed(p, data)
             y == fed(r, data)
  <2>1. x \in Parser /\ y \in Parser /\ Append(data, by) \in Seq(Bytes)
    BY FedType, AppendProperties
  <2>2. Shown(x) = Shown(p) \o Shown(y) /\ Alike(x, y)
    BY <1>2
  <2>3. fed(p, Append(data, by)) = parse_byte(x, by) /\ fed(r, Append(data, by)) = parse_byte(y, by)
    BY FedAppend
  <2> HIDE DEF x, y
  <2>4. Told(x, by) = Told(y, by) /\ Alike(parse_byte(x, by), parse_byte(y, by))
    BY <2>1, <2>2, ByteAlike
  <2>5. /\ Shown(parse_byte(x, by)) = Shown(x) \o Told(x, by)
        /\ Shown(parse_byte(y, by)) = Shown(y) \o Told(y, by)
    BY <2>1, ByteShown
  <2>6. Told(y, by) \in Seq(Element)
    BY <2>1, ToldType
  <2>7. (Shown(p) \o Shown(y)) \o Told(y, by) = Shown(p) \o (Shown(y) \o Told(y, by))
    BY <1>0, <2>1, <2>6, ConcatAssociative, SMTT(30)
  <2>. QED BY <2>1, <2>2, <2>3, <2>4, <2>5, <2>7
<1>3. \A data \in Seq(Bytes) : data \in R
  <2> HIDE DEF R
  <2>. QED BY <1>1, <1>2, SequencesReached
<1>. QED BY <1>3

-------------------------------------------------------------------------------
(***************************************************************************)
(* What the generator writes is what the parser shows.                     *)
(***************************************************************************)

\* generate_escaped, byte by byte.
Escaped(by) == IF by = "iac" THEN <<"iac", "iac">> ELSE <<by>>

LEMMA EscapedType ==
    ASSUME NEW by \in Bytes
    PROVE  Escaped(by) \in Seq(Bytes)
<1>1. "iac" \in Bytes
  BY StreamAssumption
<1>. QED BY <1>1, SMT DEF Escaped

LEMMA EscapedAre ==
    /\ generate_escaped(<<>>) = <<>>
    /\ \A bytes \in Seq(Bytes) : generate_escaped(bytes) \in Seq(Bytes)
    /\ \A bytes \in Seq(Bytes), by \in Bytes :
          generate_escaped(Append(bytes, by)) = generate_escaped(bytes) \o Escaped(by)
<1> DEFINE f == [by \in Bytes |-> Escaped(by)]
<1>1. f \in [Bytes -> Seq(Bytes)] /\ \A by \in Bytes : f[by] = Escaped(by)
  BY EscapedType
<1>2. ASSUME NEW bytes \in Seq(Bytes) PROVE generate_escaped(bytes) = Spread(bytes, f)
  <2>1. \A i \in DOMAIN bytes : bytes[i] \in Bytes
    BY LenProperties, ElementOfSeq
  <2>2. \A i \in DOMAIN bytes : f[bytes[i]] = Escaped(bytes[i])
    BY <2>1
  <2>3. [i \in DOMAIN bytes |-> f[bytes[i]]] = [i \in DOMAIN bytes |-> Escaped(bytes[i])]
    BY <2>2
  <2>. QED BY <2>3 DEF generate_escaped, Spread, Escaped
<1> HIDE DEF f
<1>3. generate_escaped(<<>>) = <<>>
  BY <1>2, SpreadEmpty, EmptySeq
<1>4. \A bytes \in Seq(Bytes) : generate_escaped(bytes) \in Seq(Bytes)
  BY <1>1, <1>2, SpreadType
<1>5. ASSUME NEW bytes \in Seq(Bytes), NEW by \in Bytes
      PROVE  generate_escaped(Append(bytes, by)) = generate_escaped(bytes) \o Escaped(by)
  <2>1. Append(bytes, by) \in Seq(Bytes)
    BY AppendProperties
  <2>2. Spread(Append(bytes, by), f) = Spread(bytes, f) \o f[by]
    BY <1>1, SpreadAppend
  <2>. QED BY <1>1, <1>2, <2>1, <2>2
<1>. QED BY <1>3, <1>4, <1>5

\* Sequences of one, two and three bytes.
LEMMA FedOne ==
    ASSUME NEW p \in Parser, NEW a \in Bytes
    PROVE  /\ <<a>> \in Seq(Bytes)
           /\ fed(p, <<a>>) = parse_byte(p, a)
           /\ parse_byte(p, a) \in Parser
<1>1. <<a>> \in Seq(Bytes) /\ <<a>> = Append(<<>>, a) /\ <<>> \in Seq(Bytes)
  BY SMT
<1>. QED BY <1>1, FedAppend, FedEmpty, ByteShown

LEMMA FedTwo ==
    ASSUME NEW p \in Parser, NEW a \in Bytes, NEW b \in Bytes
    PROVE  /\ <<a, b>> \in Seq(Bytes)
           /\ fed(p, <<a, b>>) = parse_byte(parse_byte(p, a), b)
           /\ parse_byte(parse_byte(p, a), b) \in Parser
<1>1. <<a, b>> \in Seq(Bytes) /\ <<a, b>> = Append(<<a>>, b) /\ <<a>> \in Seq(Bytes)
  BY SMT
<1>2. fed(p, <<a, b>>) = parse_byte(fed(p, <<a>>), b)
  BY <1>1, FedAppend
<1>3. fed(p, <<a>>) = parse_byte(p, a) /\ parse_byte(p, a) \in Parser
  BY FedOne
<1>4. parse_byte(parse_byte(p, a), b) \in Parser
  BY <1>3, ByteShown
<1>. QED BY <1>1, <1>2, <1>3, <1>4

LEMMA FedThree ==
    ASSUME NEW p \in Parser, NEW a \in Bytes, NEW b \in Bytes, NEW c \in Bytes
    PROVE  /\ <<a, b, c>> \in Seq(Bytes)
           /\ fed(p, <<a, b, c>>) = parse_byte(parse_byte(parse_byte(p, a), b), c)
           /\ parse_byte(parse_byte(parse_byte(p, a), b), c) \in Parser
<1>1. <<a, b, c>> \in Seq(Bytes) /\ <<a, b, c>> = Append(<<a, b>>, c) /\ <<a, b>> \in Seq(Bytes)
  BY SMT
<1>2. fed(p, <<a, b, c>>) = parse_byte(fed(p, <<a, b>>), c)
  BY <1>1, FedAppend
<1>3. fed(p, <<a, b>>) = parse_byte(parse_byte(p, a), b) /\ parse_byte(parse_byte(p, a), b) \in Parser
  BY FedTwo
<1>4. parse_byte(parse_byte(parse_byte(p, a), b), c) \in Parser
  BY <1>3, ByteShown
<1>. QED BY <1>1, <1>2, <1>3, <1>4

LEMMA TextGenerated ==
    ASSUME NEW p \in Parser, p.state = "idle"
    PROVE  \A bytes \in Seq(Bytes) :
              /\ fed(p, generate_escaped(bytes)).state = "idle"
              /\ Shown(fed(p, generate_escaped(bytes))) = Shown(p) \o Texts(bytes)
<1> DEFINE R == {bytes \in Seq(Bytes) :
                    /\ fed(p, generate_escaped(bytes)).state = "idle"
                    /\ Shown(fed(p, generate_escaped(bytes))) = Shown(p) \o Texts(bytes)}
<1>0. \A q \in Parser : Shown(q) \in Seq(Element)
  BY ShownType DEF Parser, Members
<1>1. <<>> \in R
  <2>1. Shown(p) \o <<>> = Shown(p)
    BY <1>0, ConcatEmptySeq
  <2>. QED BY <2>1, EscapedAre, TextsAre, FedEmpty, EmptySeq
<1>2. ASSUME NEW bytes \in Seq(Bytes), NEW by \in Bytes, bytes \in R PROVE Append(bytes, by) \in R
  <2> DEFINE g == generate_escaped(bytes)
             q == fed(p, g)
             z == fed(q, Escaped(by))
  <2>1. g \in Seq(Bytes) /\ q \in Parser /\ Escaped(by) \in Seq(Bytes)
        /\ Append(bytes, by) \in Seq(Bytes)
    BY EscapedAre, EscapedType, FedType, AppendProperties
  <2>2. q.state = "idle" /\ Shown(q) = Shown(p) \o Texts(bytes)
    BY <1>2
  <2>3. generate_escaped(Append(bytes, by)) = g \o Escaped(by)
    BY EscapedAre
  <2> HIDE DEF g
  <2>4. fed(p, g \o Escaped(by)) = z
    BY <2>1, FedConcat
  <2> HIDE DEF q
  <2>5. z.state = "idle" /\ Shown(z) = Shown(q) \o <<text(<<by>>)>>
    <3>1. CASE by = "iac"
      <4> DEFINE y == parse_byte(q, by)
      <4>1. Escaped(by) = <<by, by>>
        BY <3>1 DEF Escaped
      <4>2. z = parse_byte(y, by) /\ y \in Parser
        <5>1. z = fed(q, <<by, by>>)
          BY <4>1
        <5>2. y \in Parser
          BY <2>1, FedOne
        <5> HIDE DEF z
        <5>. QED BY <2>1, <5>1, <5>2, FedTwo
      <4>3. y.state = "iac"
        <5>1. y = [q EXCEPT !.state = "iac"]
          BY <2>2, <3>1 DEF parse_byte, parse_idle
        <5>. QED BY <2>1, <5>1 DEF Parser
      <4>4. Shown(y) = Shown(q) \o Told(q, by) /\ Told(q, by) = <<>>
        BY <2>1, <2>2, <3>1, ByteShown DEF Told
      <4>5. Shown(y) = Shown(q)
        BY <1>0, <2>1, <4>4, ConcatEmptySeq
      <4> HIDE DEF y
      <4>6. Told(y, by) = <<text(<<by>>)>> /\ Shown(z) = Shown(y) \o Told(y, by)
        <5>1. Told(y, by) = <<text(<<by>>)>>
          BY <3>1, <4>3 DEF Told
        <5>. QED BY <4>2, <5>1, ByteShown
      <4>7. z.state = "idle"
        <5>1. z = [y EXCEPT !.plain_data = Append(@, by), !.state = "idle"]
          BY <3>1, <4>2, <4>3 DEF parse_byte, parse_iac, negotiation_type
        <5>. QED BY <4>2, <5>1 DEF Parser
      <4>. QED BY <4>5, <4>6, <4>7
    <3>2. CASE by # "iac"
      <4>1. Escaped(by) = <<by>>
        BY <3>2 DEF Escaped
      <4>2. z = parse_byte(q, by)
        BY <2>1, <4>1, FedOne
      <4>3. z = [q EXCEPT !.plain_data = Append(@, by)]
        BY <2>2, <3>2, <4>2 DEF parse_byte, parse_idle
      <4>4. z.state = "idle"
        BY <2>1, <2>2, <4>3 DEF Parser
      <4>5. Told(q, by) = <<text(<<by>>)>>
        BY <2>2, <3>2 DEF Told
      <4>. QED BY <2>1, <4>2, <4>4, <4>5, ByteShown
    <3>. QED BY <3>1, <3>2
  <2>6. Texts(Append(bytes, by)) = Append(Texts(bytes), text(<<by>>))
        /\ Texts(bytes) \in Seq(Element) /\ text(<<by>>) \in Element
    BY TextsAre, OneByte
  <2>7. (Shown(p) \o Texts(bytes)) \o <<text(<<by>>)>> = Shown(p) \o Append(Texts(bytes), text(<<by>>))
    <3> DEFINE a == Shown(p)
               b == Texts(bytes)
               x == text(<<by>>)
    <3>1. a \in Seq(Element) /\ b \in Seq(Element) /\ x \in Element
      BY <1>0, <2>6
    <3> HIDE DEF a, b, x
    <3>2. (a \o b) \o <<x>> = a \o Append(b, x)
      BY <3>1, SMTT(30)
    <3>. QED BY <3>2 DEF a, b, x
  <2> HIDE DEF z
  <2>. QED BY <2>1, <2>2, <2>3, <2>4, <2>5, <2>6, <2>7
<1>3. \A bytes \in Seq(Bytes) : bytes \in R
  <2> HIDE DEF R
  <2>. QED BY <1>1, <1>2, SequencesReached
<1>. QED BY <1>3

LEMMA ContentGenerated ==
    ASSUME NEW p \in Parser, p.state = "content", p.content = <<>>
    PROVE  \A content \in Seq(Bytes) :
              LET q == fed(p, generate_escaped(content)) IN
              /\ q.state = "content" /\ q.option = p.option /\ q.content = content
              /\ Shown(q) = Shown(p)
<1> DEFINE Q(content) == fed(p, generate_escaped(content))
           Holds(content, q) == /\ q.state = "content" /\ q.option = p.option /\ q.content = content
                                /\ Shown(q) = Shown(p)
           R == {content \in Seq(Bytes) : Holds(content, Q(content))}
<1>0. \A q \in Parser : Shown(q) \in Seq(Element) /\ Shown(q) \o <<>> = Shown(q)
  BY ShownType, ConcatEmptySeq DEF Parser, Members
<1>1. <<>> \in R
  BY EscapedAre, FedEmpty, EmptySeq
<1>2. ASSUME NEW content \in Seq(Bytes), NEW by \in Bytes, content \in R
      PROVE  Append(content, by) \in R
  <2> DEFINE g == generate_escaped(content)
             q == fed(p, g)
             z == fed(q, Escaped(by))
  <2>1. g \in Seq(Bytes) /\ q \in Parser /\ Escaped(by) \in Seq(Bytes)
        /\ Append(content, by) \in Seq(Bytes)
    BY EscapedAre, EscapedType, FedType, AppendProperties
  <2>2. Holds(content, q)
    BY <1>2
  <2>3. generate_escaped(Append(content, by)) = g \o Escaped(by)
    BY EscapedAre
  <2> HIDE DEF g
  <2>4. fed(p, g \o Escaped(by)) = z
    BY <2>1, FedConcat
  <2> HIDE DEF q
  <2>5. Holds(Append(content, by), z)
    <3>1. CASE by = "iac"
      <4> DEFINE y == parse_byte(q, by)
      <4>1. Escaped(by) = <<by, by>>
        BY <3>1 DEF Escaped
      <4>2. z = parse_byte(y, by) /\ y \in Parser
        <5>1. z = fed(q, <<by, by>>)
          BY <4>1
        <5>2. y \in Parser
          BY <2>1, FedOne
        <5> HIDE DEF z
        <5>. QED BY <2>1, <5>1, <5>2, FedTwo
      <4>3. y = [q EXCEPT !.state = "content_iac"]
        BY <2>2, <3>1 DEF parse_byte, parse_subnegotiation_content
      <4>4. y.state = "content_iac" /\ y.option = p.option /\ y.content = content
        BY <2>1, <2>2, <4>3 DEF Parser
      <4>5. Told(q, by) = <<>> /\ Shown(y) = Shown(q) \o Told(q, by)
        <5>1. Told(q, by) = <<>>
          BY <2>2 DEF Told
        <5>. QED BY <2>1, <5>1, ByteShown
      <4> HIDE DEF y
      <4>6. z = [y EXCEPT !.content = Append(@, by), !.state = "content"]
        BY <3>1, <4>2, <4>4 DEF parse_byte, parse_subnegotiation_content_iac
      <4>7. z.state = "content" /\ z.option = p.option /\ z.content = Append(content, by)
        BY <4>2, <4>4, <4>6 DEF Parser
      <4>8. Told(y, by) = <<>> /\ Shown(z) = Shown(y) \o Told(y, by)
        <5>1. Told(y, by) = <<>>
          BY <3>1, <4>4 DEF Told
        <5>. QED BY <4>2, <5>1, ByteShown
      <4>. QED BY <1>0, <2>1, <2>2, <4>2, <4>5, <4>7, <4>8
    <3>2. CASE by # "iac"
      <4>1. Escaped(by) = <<by>>
        BY <3>2 DEF Escaped
      <4>2. z = parse_byte(q, by)
        BY <2>1, <4>1, FedOne
      <4>3. z = [q EXCEPT !.content = Append(@, by)]
        BY <2>2, <3>2, <4>2 DEF parse_byte, parse_subnegotiation_content
      <4>4. z.state = "content" /\ z.option = p.option /\ z.content = Append(content, by)
        BY <2>1, <2>2, <4>3 DEF Parser
      <4>5. Told(q, by) = <<>> /\ Shown(z) = Shown(q) \o Told(q, by)
        <5>1. Told(q, by) = <<>>
          BY <2>2 DEF Told
        <5>. QED BY <2>1, <4>2, <5>1, ByteShown
      <4>. QED BY <1>0, <2>1, <2>2, <4>4, <4>5
    <3>. QED BY <3>1, <3>2
  <2> HIDE DEF z
  <2>. QED BY <2>1, <2>3, <2>4, <2>5
<1>3. \A content \in Seq(Bytes) : content \in R
  <2> HIDE DEF R
  <2>. QED BY <1>1, <1>2, SequencesReached
<1>. QED BY <1>3

\* A parser between two elements shows an element that is written, and is
\* between two elements again.
LEMMA Generated ==
    ASSUME NEW p \in Parser, p.state = "idle", NEW elem \in Writes
    PROVE  /\ elem \in Element
           /\ generate(elem) \in Seq(Bytes)
           /\ fed(p, generate(elem)).state = "idle"
           /\ Shown(fed(p, generate(elem))) = Shown(p) \o ItemsOf(elem)
<1> DEFINE g == generate(elem)
           Claim == /\ g \in Seq(Bytes)
                    /\ fed(p, g).state = "idle"
                    /\ Shown(fed(p, g)) = Shown(p) \o ItemsOf(elem)
<1>0. \A q \in Parser : Shown(q) \in Seq(Element) /\ Shown(q) \o <<>> = Shown(q)
  BY ShownType, ConcatEmptySeq DEF Parser, Members
<1>1. elem \in Element /\ "iac" \in Bytes /\ "sb" \in Bytes /\ "se" \in Bytes
  BY StreamAssumption
<1>2. elem.kind \in {"text", "command", "negotiation", "subnegotiation"}
  BY <1>1 DEF Element
<1> DEFINE y == parse_byte(p, "iac")
<1>3. y \in Parser /\ y.state = "iac" /\ Shown(y) = Shown(p)
  <2>1. y = [p EXCEPT !.state = "iac"]
    BY DEF parse_byte, parse_idle
  <2>2. y.state = "iac"
    BY <2>1 DEF Parser
  <2>3. Told(p, "iac") = <<>>
    BY DEF Told
  <2>4. y \in Parser /\ Shown(y) = Shown(p) \o Told(p, "iac")
    BY <1>1, ByteShown
  <2>. QED BY <1>0, <2>2, <2>3, <2>4
<1>4. CASE elem.kind = "text"
  <2>1. elem.bytes \in Seq(Bytes)
    BY <1>1, <1>4 DEF Element
  <2>2. g = generate_escaped(elem.bytes) /\ ItemsOf(elem) = Texts(elem.bytes)
    BY <1>4 DEF generate, ItemsOf
  <2>. QED BY <1>1, <2>1, <2>2, TextGenerated, EscapedAre
<1>5. CASE elem.kind = "command"
  <2>1. elem.value \in Bytes /\ elem.value \notin negotiation_type \cup {"iac", "sb"}
    BY <1>1, <1>5, StreamAssumption DEF Element
  <2>2. g = <<"iac", elem.value>>
    BY <1>5 DEF generate, generate_command
  <2> DEFINE z == parse_byte(y, elem.value)
  <2>3. g \in Seq(Bytes) /\ fed(p, g) = z /\ z \in Parser
    BY <1>1, <2>1, <2>2, FedTwo
  <2> HIDE DEF y, g
  <2>4. elem = command(elem.value) /\ ItemsOf(elem) = <<elem>>
    BY <1>1, <1>5 DEF Element, command, ItemsOf
  <2>5. Told(y, elem.value) = <<command(elem.value)>>
    BY <1>3, <2>1 DEF Told
  <2>6. Shown(z) = Shown(p) \o ItemsOf(elem)
    BY <1>3, <2>1, <2>4, <2>5, ByteShown
  <2>7. z.state = "idle"
    <3> DEFINE r == emit_plain_data(y)
    <3>1. z = [emit(r, command(elem.value)) EXCEPT !.state = "idle"]
      BY <1>3, <2>1 DEF parse_byte, parse_iac
    <3>2. r \in Members
      BY <1>3, EmitPlain DEF Parser, Members
    <3> HIDE DEF r
    <3>. QED BY <3>1, <3>2 DEF Members, emit
  <2>. QED BY <1>1, <2>3, <2>6, <2>7 DEF g
<1>6. CASE elem.kind = "negotiation"
  <2>1. elem.request \in Bytes /\ elem.request \in negotiation_type /\ elem.code \in Bytes
    BY <1>1, <1>6, StreamAssumption DEF Element
  <2>2. g = <<"iac", elem.request, elem.code>>
    BY <1>6 DEF generate, generate_negotiation
  <2> DEFINE r == emit_plain_data(y)
             x == parse_byte(y, elem.request)
             z == parse_byte(x, elem.code)
  <2>3. g \in Seq(Bytes) /\ fed(p, g) = z /\ z \in Parser
    BY <1>1, <2>1, <2>2, FedThree
  <2>4. x \in Parser
    BY <1>3, <2>1, ByteShown
  <2> HIDE DEF y, g
  <2>5. r \in Members
    BY <1>3, EmitPlain DEF Parser, Members
  <2>6. elem.request \notin {"iac", "sb"}
    BY <2>1 DEF negotiation_type
  <2>7. x = [r EXCEPT !.type = elem.request, !.state = "negotiation"]
    BY <1>3, <2>1, <2>6 DEF parse_byte, parse_iac
  <2> HIDE DEF r
  <2>8. x.state = "negotiation" /\ x.type = elem.request
    BY <2>5, <2>7 DEF Members
  <2>9. Shown(x) = Shown(p)
    <3>1. Told(y, elem.request) = <<>>
      BY <1>3, <2>1, <2>6 DEF Told
    <3>2. Shown(x) = Shown(y) \o <<>>
      BY <1>3, <2>1, <3>1, ByteShown
    <3>. QED BY <1>0, <1>3, <3>2
  <2> HIDE DEF x
  <2>10. elem = negotiation(x.type, elem.code) /\ ItemsOf(elem) = <<elem>>
    BY <1>1, <1>6, <2>8 DEF Element, negotiation, ItemsOf
  <2>11. Told(x, elem.code) = <<negotiation(x.type, elem.code)>>
    BY <2>8 DEF Told
  <2>12. Shown(z) = Shown(p) \o ItemsOf(elem)
    <3>1. Shown(z) = Shown(x) \o Told(x, elem.code)
      BY <2>1, <2>4, ByteShown
    <3>2. Told(x, elem.code) = ItemsOf(elem)
      BY <2>10, <2>11
    <3> HIDE DEF z
    <3>. QED BY <2>9, <3>1, <3>2
  <2>13. z.state = "idle"
    <3>1. z = [emit(x, negotiation(x.type, elem.code)) EXCEPT !.state = "idle"]
      BY <2>8 DEF parse_byte, parse_negotiation
    <3>. QED BY <2>4, <3>1 DEF Parser, emit
  <2>. QED BY <1>1, <2>3, <2>12, <2>13 DEF g
<1>7. CASE elem.kind = "subnegotiation"
  <2> DEFINE start == <<"iac", "sb", elem.option>>
             body == generate_escaped(elem.content)
             end == <<"iac", "se">>
             x == parse_byte(y, "sb")
             q == parse_byte(x, elem.option)
             r == fed(q, body)
             s == parse_byte(r, "iac")
             z == parse_byte(s, "se")
  <2>1. elem.option \in Bytes /\ elem.content \in Seq(Bytes)
    BY <1>1, <1>7 DEF Element
  <2>2. g = start \o body \o end
    BY <1>7 DEF generate, generate_subnegotiation
  <2>3. start \in Seq(Bytes) /\ fed(p, start) = q /\ q \in Parser
    BY <1>1, <2>1, FedThree
  <2>4. body \in Seq(Bytes) /\ end \in Seq(Bytes)
    BY <1>1, <2>1, EscapedAre, FedTwo
  <2>5. r \in Parser
    BY <2>3, <2>4, FedType
  <2>6. fed(r, end) = z /\ z \in Parser
    BY <1>1, <2>5, FedTwo
  <2> HIDE DEF start, body, end
  <2>7. start \o body \in Seq(Bytes) /\ g \in Seq(Bytes) /\ fed(p, g) = z
    <3>1. start \o body \in Seq(Bytes)
      BY <2>3, <2>4, ConcatProperties
    <3>2. (start \o body) \o end \in Seq(Bytes)
      BY <2>4, <3>1, ConcatProperties
    <3>3. fed(p, (start \o body) \o end) = fed(fed(p, start \o body), end)
      BY <2>4, <3>1, FedConcat
    <3>4. fed(p, start \o body) = fed(fed(p, start), body)
      BY <2>3, <2>4, FedConcat
    <3>. QED BY <2>2, <2>3, <2>6, <3>1, <3>2, <3>3, <3>4
  <2>8. x \in Parser /\ x.state = "subnegotiation" /\ Shown(x) = Shown(p)
    <3> DEFINE w == emit_plain_data(y)
    <3> HIDE DEF y
    <3>1. w \in Members
      BY <1>3, EmitPlain DEF Parser, Members
    <3>2. "sb" \notin negotiation_type
      BY DEF negotiation_type
    <3>3. x = [w EXCEPT !.state = "subnegotiation"]
      <4>1. x = parse_iac(y, "sb")
        BY <1>3 DEF parse_byte
      <4>2. "sb" # "iac"
        OBVIOUS
      <4>. QED BY <3>2, <4>1, <4>2 DEF parse_iac
    <3> HIDE DEF w
    <3>4. x.state = "subnegotiation"
      BY <3>1, <3>3 DEF Members
    <3>5. Told(y, "sb") = <<>>
      BY <1>3 DEF Told
    <3>6. x \in Parser /\ Shown(x) = Shown(y) \o <<>>
      BY <1>1, <1>3, <3>5, ByteShown
    <3>. QED BY <1>0, <1>3, <3>4, <3>6
  <2> HIDE DEF x
  <2>9. /\ q.state = "content" /\ q.content = <<>> /\ q.option = elem.option
        /\ Shown(q) = Shown(p)
    <3>1. q = [x EXCEPT !.option = elem.option, !.content = <<>>, !.state = "content"]
      BY <2>8 DEF parse_byte, parse_subnegotiation
    <3>2. q.state = "content" /\ q.content = <<>> /\ q.option = elem.option
      BY <2>8, <3>1 DEF Parser
    <3>3. Told(x, elem.option) = <<>>
      BY <2>8 DEF Told
    <3>4. Shown(q) = Shown(x) \o <<>>
      BY <2>1, <2>8, <3>3, ByteShown
    <3>. QED BY <1>0, <2>8, <3>2, <3>4
  <2> HIDE DEF q
  <2>10. /\ r.state = "content" /\ r.content = elem.content /\ r.option = elem.option
         /\ Shown(r) = Shown(p)
    BY <2>1, <2>3, <2>9, ContentGenerated DEF body
  <2> HIDE DEF r
  <2>11. /\ s \in Parser /\ s.state = "content_iac" /\ s.content = elem.content
         /\ s.option = elem.option /\ Shown(s) = Shown(p)
    <3>1. s = [r EXCEPT !.state = "content_iac"]
      BY <2>10 DEF parse_byte, parse_subnegotiation_content
    <3>2. s.state = "content_iac" /\ s.content = elem.content /\ s.option = elem.option
      BY <2>5, <2>10, <3>1 DEF Parser
    <3>3. Told(r, "iac") = <<>>
      BY <2>10 DEF Told
    <3>4. s \in Parser /\ Shown(s) = Shown(r) \o <<>>
      BY <1>1, <2>5, <3>3, ByteShown
    <3>. QED BY <1>0, <2>5, <2>10, <3>2, <3>4
  <2> HIDE DEF s
  <2>12. elem = subnegotiation(s.option, s.content) /\ ItemsOf(elem) = <<elem>>
    BY <1>1, <1>7, <2>11 DEF Element, subnegotiation, ItemsOf
  <2>13. Told(s, "se") = <<subnegotiation(s.option, s.content)>>
    BY <2>11 DEF Told
  <2>14. Shown(z) = Shown(p) \o ItemsOf(elem)
    BY <1>1, <2>11, <2>12, <2>13, ByteShown, ZenonT(40)
  <2>15. z.state = "idle"
    <3>1. z = [emit(s, subnegotiation(s.option, s.content)) EXCEPT !.state = "idle"]
      BY <2>11 DEF parse_byte, parse_subnegotiation_content_iac
    <3>. QED BY <2>11, <3>1 DEF Parser, emit
  <2>. QED BY <1>1, <2>7, <2>14, <2>15
<1>. QED BY <1>1, <1>2, <1>4, <1>5, <1>6, <1>7

-------------------------------------------------------------------------------
(***************************************************************************)
(* A call of the parser.                                                   *)
(***************************************************************************)

\* A call passes on what the parser would show, and leaves a parser that has
\* nothing to show.
LEMMA CallShows ==
    ASSUME NEW p \in Parser, NEW data \in Seq(Bytes)
    PROVE  /\ Items(parse(p, data).out) = Shown(fed(p, data))
           /\ returned(parse(p, data)) = Fresh(fed(p, data))
<1> DEFINE q == fed(p, data)
           r == emit_plain_data(q)
<1>1. q \in Parser /\ q \in Members
  BY FedType DEF Parser, Members
<1>2. r = parse(p, data)
  BY DEF parse
<1> HIDE DEF q
<1>3. /\ r \in Members /\ r.plain_data = <<>> /\ Shown(r) = Shown(q)
      /\ r.state = q.state /\ r.type = q.type /\ r.option = q.option /\ r.content = q.content
  BY <1>1, EmitPlain
<1> HIDE DEF r
<1>4. Items(r.out) = Shown(r)
  BY <1>3, ShownType, TextsAre, ConcatEmptySeq DEF Shown
<1>5. returned(r) = Fresh(q)
  <2> DEFINE a == returned(r)
             b == Fresh(q)
  <2>1. /\ a \in Members /\ b \in Members
        /\ a.state = b.state /\ a.type = b.type /\ a.option = b.option /\ a.content = b.content
        /\ a.plain_data = b.plain_data /\ a.out = b.out
    BY <1>1, <1>3, EmptySeq DEF Members, returned, Fresh
  <2> HIDE DEF a, b
  <2>2. a = b
    BY <2>1 DEF Members
  <2>. QED BY <2>2 DEF a, b
<1>. QED BY <1>2, <1>3, <1>4, <1>5 DEF q

\* What is shown by a chunk and then the rest is what is shown by both at once.
LEMMA CallThenRest ==
    ASSUME NEW p \in Parser, NEW data \in Seq(Bytes), NEW rest \in Seq(Bytes)
    PROVE  LET q == fed(p, data)
               r == fed(Fresh(q), rest)
           IN  /\ q \in Parser /\ Fresh(q) \in Parser /\ Fresh(Fresh(q)) = Fresh(q)
               /\ Shown(q) \in Seq(Element) /\ Shown(r) \in Seq(Element)
               /\ Shown(fed(p, data \o rest)) = Shown(q) \o Shown(r)
               /\ fed(p, data \o rest).state = r.state
               /\ Fresh(fed(p, data \o rest)) = Fresh(r)
<1> DEFINE q == fed(p, data)
           r == fed(Fresh(q), rest)
           z == fed(q, rest)
<1>1. q \in Parser
  BY FedType
<1>2. fed(p, data \o rest) = z
  BY FedConcat
<1> HIDE DEF q
<1>3. Fresh(q) \in Parser /\ Fresh(Fresh(q)) = Fresh(q) /\ Alike(Fresh(q), q) /\ Shown(Fresh(q)) = <<>>
  BY <1>1, FreshIs
<1>4. Alike(q, Fresh(q))
  BY <1>3 DEF Alike
<1>5. Shown(z) = Shown(q) \o Shown(r) /\ Alike(z, r)
  BY <1>1, <1>3, <1>4, FedShown
<1>6. r \in Parser /\ z \in Parser
  BY <1>1, <1>3, FedType
<1> HIDE DEF r, z
<1>7. Fresh(z) = Fresh(r) /\ z.state = r.state
  BY <1>5, <1>6, FreshAlike DEF Alike
<1>8. Shown(q) \in Seq(Element) /\ Shown(r) \in Seq(Element)
  BY <1>1, <1>6, ShownType DEF Parser, Members
<1>. QED BY <1>1, <1>2, <1>3, <1>5, <1>7, <1>8 DEF q, r

-------------------------------------------------------------------------------
(***************************************************************************)
(* The invariant.                                                          *)
(***************************************************************************)
LEMMA InitInductive == Init => Inductive
<1> SUFFICES ASSUME Init PROVE Inductive
  OBVIOUS
<1>1. <<>> \in Seq(Bytes) /\ <<>> \in Seq(Element) /\ "iac" \in Bytes
  BY StreamAssumption, EmptySeq
<1>2. new_parser \in Parser
  BY <1>1 DEF new_parser, Parser, parsing_state, negotiation_type
<1>3. new_parser.plain_data = <<>> /\ new_parser.out = <<>> /\ new_parser.state = "idle"
  BY DEF new_parser
<1>4. new_parser = Fresh(new_parser)
  <2> HIDE DEF new_parser
  <2>1. [new_parser EXCEPT !.plain_data = <<>>, !.out = <<>>] = new_parser
    BY <1>2, <1>3 DEF Parser
  <2>. QED BY <2>1 DEF Fresh
<1>5. Shown(new_parser) = <<>>
  BY <1>2, <1>4, FreshIs
<1>6. fed(new_parser, <<>>) = new_parser
  BY <1>2, FedEmpty
<1> HIDE DEF new_parser
<1>. QED BY <1>1, <1>2, <1>3, <1>4, <1>5, <1>6 DEF Init, Inductive, TypeOK, Ahead

LEMMA WriteInductive ==
    ASSUME Inductive, NEW elem \in Writes, write(elem)
    PROVE  Inductive'
<1> DEFINE p == fed(parser, wire)
           g == generate(elem)
           z == fed(p, g)
<1>1. /\ parser \in Parser /\ wire \in Seq(Bytes) /\ p \in Parser
      /\ ~foreign /\ p.state = "idle" /\ expected = Shown(p)
  BY FedType DEF Inductive, TypeOK, Ahead, write
<1>2. /\ elem \in Element /\ g \in Seq(Bytes) /\ z.state = "idle"
      /\ Shown(z) = Shown(p) \o ItemsOf(elem)
  BY <1>1, Generated
<1>3. wire' = wire \o g /\ wire' \in Seq(Bytes)
  BY <1>1, <1>2, ConcatProperties DEF write
<1> HIDE DEF g
<1>4. fed(parser, wire \o g) = z
  BY <1>1, <1>2, FedConcat
<1> HIDE DEF p
<1>5. expected' = expected \o ItemsOf(elem)
  BY <1>2, ItemsAre DEF write
<1> HIDE DEF z
<1>6. parser' = parser /\ bytewise' = bytewise /\ foreign' = foreign
  BY DEF write
<1>7. TypeOK'
  BY <1>3, <1>6 DEF Inductive, TypeOK
<1>8. Ahead'
  BY <1>1, <1>2, <1>3, <1>4, <1>5, <1>6 DEF Ahead
<1>. QED BY <1>7, <1>8 DEF Inductive

LEMMA ForeignWriteInductive ==
    ASSUME Inductive, NEW by \in Bytes, foreign_write(by)
    PROVE  Inductive'
<1> DEFINE p == fed(parser, wire)
           z == parse_byte(p, by)
           y == parse_byte(bytewise, by)
<1>1. /\ parser \in Parser /\ wire \in Seq(Bytes) /\ p \in Parser /\ foreign
      /\ expected = Shown(p) /\ bytewise = Fresh(p) /\ bytewise \in Parser
  BY FedType DEF Inductive, TypeOK, Ahead, foreign_write
<1>2. wire' = Append(wire, by) /\ wire' \in Seq(Bytes)
  BY <1>1, AppendProperties DEF foreign_write
<1>3. fed(parser, Append(wire, by)) = z
  BY <1>1, FedAppend
<1> HIDE DEF p
<1>4. Alike(bytewise, p) /\ Shown(bytewise) = <<>>
  BY <1>1, FreshIs
<1>5. y \in Parser /\ z \in Parser
  BY <1>1, ByteShown
<1>6. Told(bytewise, by) = Told(p, by) /\ Alike(y, z)
  BY <1>1, <1>4, ByteAlike
<1>7. Shown(z) = Shown(p) \o Told(p, by)
  BY <1>1, ByteShown
<1>8. Shown(y) = Told(p, by)
  <2>1. Shown(y) = <<>> \o Told(bytewise, by) /\ Told(p, by) \in Seq(Element)
    BY <1>1, <1>4, ByteShown, ToldType
  <2>. QED BY <1>6, <2>1, ConcatEmptySeq
<1>9. Fresh(y) = Fresh(z) /\ Fresh(y) \in Parser /\ Fresh(Fresh(y)) = Fresh(y)
  BY <1>5, <1>6, FreshAlike, FreshIs
<1>10. fed(bytewise, <<by>>) = y /\ <<by>> \in Seq(Bytes)
  BY <1>1, FedOne
<1> HIDE DEF y, z
<1>11. Items(parse(bytewise, <<by>>).out) = Shown(y) /\ returned(parse(bytewise, <<by>>)) = Fresh(y)
  BY <1>1, <1>10, CallShows
<1>12. bytewise' = Fresh(y) /\ expected' = expected \o Shown(y)
  BY <1>11 DEF foreign_write
<1>13. parser' = parser /\ foreign' = foreign
  BY DEF foreign_write
<1>14. TypeOK'
  BY <1>2, <1>9, <1>12, <1>13 DEF Inductive, TypeOK
<1>15. Ahead'
  BY <1>1, <1>2, <1>3, <1>7, <1>8, <1>9, <1>12, <1>13 DEF Ahead
<1>. QED BY <1>14, <1>15 DEF Inductive

\* What a read of n bytes passes on is the front of what is expected.
LEMMA ReadShows ==
    ASSUME Inductive, NEW n \in 1..Len(wire)
    PROVE  LET data == SubSeq(wire, 1, n)
               rest == SubSeq(wire, n + 1, Len(wire))
               r == Fresh(fed(parser, data))
           IN  /\ rest \in Seq(Bytes)
               /\ r \in Parser /\ Fresh(r) = r
               /\ Items(parse(parser, data).out) \in Seq(Element)
               /\ Shown(fed(r, rest)) \in Seq(Element)
               /\ returned(parse(parser, data)) = r
               /\ expected = Items(parse(parser, data).out) \o Shown(fed(r, rest))
               /\ fed(parser, wire).state = fed(r, rest).state
               /\ Fresh(fed(parser, wire)) = Fresh(fed(r, rest))
<1> DEFINE data == SubSeq(wire, 1, n)
           rest == SubSeq(wire, n + 1, Len(wire))
           r == Fresh(fed(parser, data))
<1>1. parser \in Parser /\ wire \in Seq(Bytes) /\ expected = Shown(fed(parser, wire))
  BY DEF Inductive, TypeOK, Ahead
<1>2. data \in Seq(Bytes) /\ rest \in Seq(Bytes) /\ data \o rest = wire
  BY <1>1, SMT
<1> HIDE DEF data, rest
<1>3. Items(parse(parser, data).out) = Shown(fed(parser, data)) /\ returned(parse(parser, data)) = r
  BY <1>1, <1>2, CallShows
<1>4. /\ r \in Parser /\ Fresh(r) = r
      /\ Shown(fed(parser, data)) \in Seq(Element)
      /\ Shown(fed(r, rest)) \in Seq(Element)
      /\ Shown(fed(parser, data \o rest)) = Shown(fed(parser, data)) \o Shown(fed(r, rest))
      /\ fed(parser, data \o rest).state = fed(r, rest).state
      /\ Fresh(fed(parser, data \o rest)) = Fresh(fed(r, rest))
  BY <1>1, <1>2, CallThenRest
<1> HIDE DEF r
<1>. QED BY <1>1, <1>2, <1>3, <1>4 DEF data, rest, r

LEMMA ReadInductive ==
    ASSUME Inductive, NEW n \in 1..Len(wire), async_read(n)
    PROVE  Inductive'
<1> DEFINE data == SubSeq(wire, 1, n)
           rest == SubSeq(wire, n + 1, Len(wire))
           r == Fresh(fed(parser, data))
           a == Items(parse(parser, data).out)
           b == Shown(fed(r, rest))
<1>1. /\ rest \in Seq(Bytes) /\ r \in Parser /\ Fresh(r) = r
      /\ a \in Seq(Element) /\ b \in Seq(Element)
      /\ returned(parse(parser, data)) = r
      /\ expected = a \o b
      /\ fed(parser, wire).state = fed(r, rest).state
      /\ Fresh(fed(parser, wire)) = Fresh(fed(r, rest))
  BY ReadShows
<1>2. /\ parser' = returned(parse(parser, data)) /\ wire' = rest
      /\ expected' = SubSeq(expected, Len(a) + 1, Len(expected))
      /\ foreign' = foreign /\ bytewise' = bytewise
  BY DEF async_read
<1>3. foreign \in BOOLEAN /\ bytewise \in Parser /\ bytewise = Fresh(bytewise)
      /\ IF foreign THEN bytewise = Fresh(fed(parser, wire)) ELSE fed(parser, wire).state = "idle"
  BY DEF Inductive, TypeOK, Ahead
<1> HIDE DEF a, b, r, data, rest
<1>4. SubSeq(a \o b, Len(a) + 1, Len(a \o b)) = b
  BY <1>1, SMT
<1>5. expected' = b /\ parser' = r
  BY <1>1, <1>2, <1>4
<1>6. TypeOK'
  BY <1>1, <1>2, <1>3, <1>5 DEF TypeOK
<1>7. fed(parser', wire') = fed(r, rest)
  BY <1>2, <1>5
<1>8. Ahead'
  BY <1>1, <1>2, <1>3, <1>5, <1>7 DEF Ahead, b
<1>. QED BY <1>6, <1>8 DEF Inductive

LEMMA NextInductive == Inductive /\ [Next]_vars => Inductive'
<1> SUFFICES ASSUME Inductive, [Next]_vars PROVE Inductive'
  OBVIOUS
<1>1. CASE UNCHANGED vars
  BY <1>1 DEF vars, Inductive, TypeOK, Ahead
<1>2. CASE Next
  BY <1>2, WriteInductive, ForeignWriteInductive, ReadInductive DEF Next
<1>. QED BY <1>1, <1>2

-------------------------------------------------------------------------------
(***************************************************************************)
(* The theorems.                                                           *)
(***************************************************************************)

\* The invariant of this development holds: fed the rest of the channel, the
\* parser would show exactly what was written and has not been passed on.
THEOREM InductiveHolds == Spec => []Inductive
BY InitInductive, NextInductive, PTL DEF Spec

\* The variables keep their types, and no text is kept from chunk to chunk.
THEOREM TypeCorrect == Spec => []TypeOK
<1>1. Inductive => TypeOK
  BY DEF Inductive
<1>. QED BY <1>1, InductiveHolds, PTL

\* When the channel is empty the reader has everything that was written.
THEOREM PromptHolds == Spec => []Prompt
<1>1. Inductive => Prompt
  <2> SUFFICES ASSUME Inductive, wire = <<>> PROVE expected = <<>>
    BY DEF Prompt
  <2>1. parser \in Parser /\ parser = Fresh(parser) /\ expected = Shown(fed(parser, wire))
    BY DEF Inductive, TypeOK, Ahead
  <2>2. fed(parser, wire) = parser
    BY <2>1, FedEmpty
  <2>. QED BY <2>1, <2>2, FreshIs
<1>. QED BY <1>1, InductiveHolds, PTL

\* Whatever the chunks, every call of the parser emits what was written next.
THEOREM InOrderHolds == Spec => InOrder
<1> DEFINE ReadsAhead == LET n == Len(wire) - Len(wire')
                         IN n > 0 => IsPrefix(Items(parse(parser, SubSeq(wire, 1, n)).out), expected)
<1>1. Inductive /\ [Next]_vars => [ReadsAhead]_vars
  <2> SUFFICES ASSUME Inductive, Next PROVE ReadsAhead
    OBVIOUS
  <2>0. wire \in Seq(Bytes) /\ Len(wire) \in Nat /\ parser \in Parser
    BY LenProperties DEF Inductive, TypeOK
  <2>1. ASSUME NEW elem \in Writes, write(elem) PROVE ReadsAhead
    <3>1. generate(elem) \in Seq(Bytes)
      <4>1. fed(parser, wire) \in Parser /\ fed(parser, wire).state = "idle"
        BY <2>0, <2>1, FedType DEF Inductive, Ahead, write
      <4>. QED BY <4>1, Generated
    <3>2. wire' = wire \o generate(elem)
      BY <2>1 DEF write
    <3>3. Len(wire') = Len(wire) + Len(generate(elem)) /\ Len(generate(elem)) \in Nat
      BY <2>0, <3>1, <3>2, ConcatProperties, LenProperties
    <3>4. ~(Len(wire) - Len(wire') > 0)
      BY <2>0, <3>3
    <3>. QED BY <3>4
  <2>2. ASSUME NEW by \in Bytes, foreign_write(by) PROVE ReadsAhead
    <3>1. Len(wire') = Len(wire) + 1
      BY <2>0, <2>2, AppendProperties DEF foreign_write
    <3>2. ~(Len(wire) - Len(wire') > 0)
      BY <2>0, <3>1
    <3>. QED BY <3>2
  <2>3. ASSUME NEW n \in 1..Len(wire), async_read(n) PROVE ReadsAhead
    <3> DEFINE a == Items(parse(parser, SubSeq(wire, 1, n)).out)
               b == Shown(fed(Fresh(fed(parser, SubSeq(wire, 1, n))), SubSeq(wire, n + 1, Len(wire))))
    <3>1. a \in Seq(Element) /\ b \in Seq(Element) /\ expected = a \o b
      BY ReadShows
    <3>2. Len(wire') = Len(wire) - n
      BY <2>0, <2>3, SMT DEF async_read
    <3>3. Len(wire) - Len(wire') = n
      BY <2>0, <3>2
    <3>4. IsPrefix(a, expected)
      <4> HIDE DEF a, b
      <4>1. Len(a) <= Len(a \o b) /\ SubSeq(a, 1, Len(a)) = SubSeq(a \o b, 1, Len(a))
        BY <3>1, SMT
      <4>. QED BY <3>1, <4>1 DEF IsPrefix
    <3>. QED BY <3>3, <3>4
  <2>. QED BY <2>1, <2>2, <2>3 DEF Next
<1>2. Spec => [][ReadsAhead]_vars
  BY <1>1, InductiveHolds, PTL DEF Spec
<1>. QED BY <1>2 DEF InOrder
===============================================================================
