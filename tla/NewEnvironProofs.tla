---------------------------- MODULE NewEnvironProofs ----------------------------
(***************************************************************************)
(* NewEnviron, for any names, values and lists of requests, and, from      *)
(* "Payloads" on, what is sent in subnegotiations at all: NEW-ENVIRON,     *)
(* CHARSET and MSDP, for any bytes and any nesting.                        *)
(*                                                                         *)
(* The argument: what is written is what is read (ResponsesRead), so that  *)
(* what is on its way to the client is a list of reports; a copy that is   *)
(* told all of them is right in every variable they mention, and as right  *)
(* as it was in the others (FoldedTold), which makes Copied inductive; and *)
(* the negotiations are an OptionPair, whose phases say when a request on  *)
(* its way can still be answered (Awaiting).                               *)
(*                                                                         *)
(* The argument of the second part: what the parser will make of the rest  *)
(* of the content, from where it stands, is what was sent (Ahead).  It     *)
(* holds at the start by what each parser makes of a whole message         *)
(* (RequestsRead, ResponsesRead, VariablesRead), and a byte that is read   *)
(* only moves from the one side to the other.                              *)
(***************************************************************************)
EXTENDS NewEnvironInvariant, Payloads, WiresProofs, FiniteSetTheorems

-------------------------------------------------------------------------------
(***************************************************************************)
(* Writing.                                                                *)
(***************************************************************************)
Special == {var, value, esc, uservar}
escaped == [by \in Byte |-> IF by \in Special THEN <<esc, by>> ELSE <<by>>]

LEMMA ByteFacts ==
    /\ is \in Byte /\ send \in Byte /\ info \in Byte
    /\ var \in Byte /\ value \in Byte /\ esc \in Byte /\ uservar \in Byte
    /\ is # info /\ var # value /\ var # esc /\ var # uservar
    /\ value # esc /\ value # uservar /\ esc # uservar
BY DEF is, send, info, var, value, esc, uservar, Byte

LEMMA EscapedType == escaped \in [Byte -> Seq(Byte)]
<1>1. ASSUME NEW by \in Byte PROVE <<esc, by>> \in Seq(Byte) /\ <<by>> \in Seq(Byte)
  <2>1. esc \in Byte
    BY ByteFacts
  <2>. QED BY <2>1
<1>. QED BY <1>1 DEF escaped

LEMMA EscapedSpread ==
    ASSUME NEW s \in Seq(Byte)
    PROVE  append_escaped(s) = Spread(s, escaped)
<1>1. \A i \in DOMAIN s : s[i] \in Byte
  BY LenProperties, ElementOfSeq
<1>2. [i \in DOMAIN s |-> IF s[i] \in {var, value, esc, uservar} THEN <<esc, s[i]>> ELSE <<s[i]>>]
        = [i \in DOMAIN s |-> escaped[s[i]]]
  BY <1>1 DEF escaped, Special
<1>. QED BY <1>2 DEF append_escaped, Spread

LEMMA EscapedAre ==
    /\ append_escaped(<<>>) = <<>>
    /\ \A s \in Seq(Byte) : append_escaped(s) \in Seq(Byte)
    /\ \A s \in Seq(Byte), by \in Byte :
          append_escaped(Append(s, by)) = append_escaped(s) \o escaped[by]
<1>1. append_escaped(<<>>) = <<>>
  BY EscapedSpread, SpreadEmpty, EmptySeq
<1>2. ASSUME NEW s \in Seq(Byte) PROVE append_escaped(s) \in Seq(Byte)
  BY EscapedSpread, SpreadType, EscapedType
<1>3. ASSUME NEW s \in Seq(Byte), NEW by \in Byte
      PROVE  append_escaped(Append(s, by)) = append_escaped(s) \o escaped[by]
  <2>1. Append(s, by) \in Seq(Byte)
    BY AppendProperties
  <2>2. Spread(Append(s, by), escaped) = Spread(s, escaped) \o escaped[by]
    BY SpreadAppend, EscapedType
  <2>. QED BY <2>1, <2>2, EscapedSpread
<1>. QED BY <1>1, <1>2, <1>3

LEMMA TypesAreBytes ==
    ASSUME NEW type \in variable_type
    PROVE  /\ type_to_byte(type) \in {var, uservar} /\ type_to_byte(type) \in Byte
           /\ byte_to_type(type_to_byte(type)) = type
<1>1. type = "var" \/ type = "uservar"
  BY DEF variable_type
<1>. QED BY <1>1, ByteFacts DEF type_to_byte, byte_to_type

\* append_variable as a function.
appended == [rsp \in response |-> append_variable(rsp)]

LEMMA ResponseMembers ==
    ASSUME NEW rsp \in response
    PROVE  /\ rsp.type \in variable_type /\ rsp.name \in Seq(Byte)
           /\ rsp.value \in Seq(Seq(Byte)) /\ Len(rsp.value) <= 1
           /\ rsp.value # <<>> => /\ Len(rsp.value) = 1 /\ rsp.value[1] \in Seq(Byte)
                                  /\ rsp.value = <<rsp.value[1]>>
           /\ rsp = [type |-> rsp.type, name |-> rsp.name, value |-> rsp.value]
<1>1. /\ rsp.type \in variable_type /\ rsp.name \in Seq(Byte)
      /\ rsp.value \in Seq(Seq(Byte)) /\ Len(rsp.value) <= 1
      /\ rsp = [type |-> rsp.type, name |-> rsp.name, value |-> rsp.value]
  BY DEF response
<1> DEFINE v == rsp.value
           S == Seq(Byte)
<1>2. v \in Seq(S) /\ Len(v) <= 1
  BY <1>1
<1>3. v # <<>> => Len(v) = 1 /\ v[1] \in S /\ v = <<v[1]>>
  <2> SUFFICES ASSUME v # <<>> PROVE Len(v) = 1 /\ v[1] \in S /\ v = <<v[1]>>
    OBVIOUS
  <2> HIDE DEF v, S
  <2>1. Len(v) = 1
    <3>1. Len(v) \in Nat \ {0}
      BY <1>2, EmptySeq, Zenon
    <3>. QED BY <1>2, <3>1, SMT
  <2>2. v[1] \in S
    BY <1>2, <2>1, ElementOfSeq
  <2> DEFINE one == <<v[1]>>
  <2>3. one \in Seq(S) /\ Len(one) = 1 /\ one[1] = v[1]
    BY <2>2
  <2>4. \A i \in 1..Len(v) : v[i] = one[i]
    BY <2>1, <2>3
  <2> HIDE DEF one
  <2>5. v = one
    BY <1>2, <2>1, <2>3, <2>4, SeqEqual
  <2>. QED BY <2>1, <2>2, <2>5 DEF one
<1>. QED BY <1>1, <1>3

LEMMA AppendedType == appended \in [response -> Seq(Byte)]
<1>1. ASSUME NEW rsp \in response PROVE append_variable(rsp) \in Seq(Byte)
  <2> DEFINE a == <<type_to_byte(rsp.type)>>
             b == append_escaped(rsp.name)
             c == IF rsp.value = <<>> THEN <<>> ELSE <<value>> \o append_escaped(rsp.value[1])
  <2>1. a \in Seq(Byte)
    BY ResponseMembers, TypesAreBytes
  <2>2. b \in Seq(Byte)
    BY ResponseMembers, EscapedAre
  <2>3. c \in Seq(Byte)
    <3>1. CASE rsp.value = <<>>
      BY <3>1, EmptySeq
    <3>2. CASE rsp.value # <<>>
      <4>1. <<value>> \in Seq(Byte) /\ append_escaped(rsp.value[1]) \in Seq(Byte)
        BY <3>2, ResponseMembers, EscapedAre, ByteFacts
      <4>. QED BY <3>2, <4>1, ConcatProperties
    <3>. QED BY <3>1, <3>2
  <2>4. append_variable(rsp) = (a \o b) \o c
    BY DEF append_variable
  <2> HIDE DEF a, b, c
  <2>. QED BY <2>1, <2>2, <2>3, <2>4, ConcatProperties
<1>. QED BY <1>1 DEF appended

LEMMA ResponseContentIs ==
    ASSUME NEW command, NEW rsps \in Seq(response)
    PROVE  response_content(command, rsps) = <<command>> \o Spread(rsps, appended)
<1>1. \A i \in DOMAIN rsps : rsps[i] \in response
  BY LenProperties, ElementOfSeq
<1>2. [i \in DOMAIN rsps |-> append_variable(rsps[i])] = [i \in DOMAIN rsps |-> appended[rsps[i]]]
  BY <1>1 DEF appended
<1>. QED BY <1>2 DEF response_content, Spread

-------------------------------------------------------------------------------
(***************************************************************************)
(* Reading responses.                                                      *)
(***************************************************************************)
\* A response parser, written out.
Reader(state, type, name, val, out) ==
    [state |-> state, rsp |-> [type |-> type, name |-> name, value |-> val], out |-> out]

\* A value that is there, with a byte more.
Grown(val, by) == [val EXCEPT ![1] = Append(@, by)]

LEMMA ReaderType ==
    ASSUME NEW state \in {"is_or_info", "type", "name", "name_esc", "value", "value_esc"},
           NEW type \in variable_type, NEW name \in Seq(Byte), NEW val \in Seq(Seq(Byte)),
           NEW out \in Seq(response), Len(val) <= 1,
           state \in {"value", "value_esc"} => Len(val) = 1
    PROVE  Reader(state, type, name, val, out) \in response_parser
<1>1. [type |-> type, name |-> name, value |-> val] \in response
  BY DEF response
<1>. QED BY <1>1 DEF Reader, response_parser

LEMMA ReaderIs ==
    ASSUME NEW p \in response_parser
    PROVE  /\ p = Reader(p.state, p.rsp.type, p.rsp.name, p.rsp.value, p.out)
           /\ p.state \in {"is_or_info", "type", "name", "name_esc", "value", "value_esc"}
           /\ p.rsp \in response /\ p.out \in Seq(response)
           /\ p.state \in {"value", "value_esc"} => Len(p.rsp.value) = 1
<1>1. /\ p.state \in {"is_or_info", "type", "name", "name_esc", "value", "value_esc"}
      /\ p.rsp \in response /\ p.out \in Seq(response)
      /\ p.state \in {"value", "value_esc"} => Len(p.rsp.value) = 1
      /\ p = [state |-> p.state, rsp |-> p.rsp, out |-> p.out]
  BY DEF response_parser
<1>2. p.rsp = [type |-> p.rsp.type, name |-> p.rsp.name, value |-> p.rsp.value]
  BY <1>1, ResponseMembers
<1>. QED BY <1>1, <1>2 DEF Reader

\* What a byte does to a parser that is written out.
LEMMA ReaderBytes ==
    ASSUME NEW type \in variable_type, NEW name \in Seq(Byte), NEW val \in Seq(Seq(Byte)),
           NEW out \in Seq(response), NEW by \in Byte
    PROVE  /\ parse_byte(Reader("is_or_info", type, name, val, out), by)
                = Reader("type", type, name, val, out)
           /\ parse_byte(Reader("type", type, name, val, out), by)
                = Reader("name", byte_to_type(by), name, val, out)
           /\ by \in {var, uservar} => \A state \in {"name", "value"} :
                parse_byte(Reader(state, type, name, val, out), by)
                  = Reader("name", byte_to_type(by), <<>>, <<>>,
                           Append(out, [type |-> type, name |-> name, value |-> val]))
           /\ parse_byte(Reader("name", type, name, val, out), esc)
                = Reader("name_esc", type, name, val, out)
           /\ parse_byte(Reader("name", type, name, val, out), value)
                = Reader("value", type, name, <<<<>>>>, out)
           /\ by \notin Special => parse_byte(Reader("name", type, name, val, out), by)
                = Reader("name", type, Append(name, by), val, out)
           /\ parse_byte(Reader("name_esc", type, name, val, out), by)
                = Reader("name", type, Append(name, by), val, out)
           /\ parse_byte(Reader("value", type, name, val, out), esc)
                = Reader("value_esc", type, name, val, out)
           /\ parse_byte(Reader("value_esc", type, name, val, out), by)
                = Reader("value", type, name, Grown(val, by), out)
<1>0. fresh_response = [type |-> "var", name |-> <<>>, value |-> <<>>]
  BY DEF fresh_response
<1>1. /\ parse_byte(Reader("is_or_info", type, name, val, out), by)
           = Reader("type", type, name, val, out)
      /\ parse_byte(Reader("type", type, name, val, out), by)
           = Reader("name", byte_to_type(by), name, val, out)
  BY DEF Reader, parse_byte, parse_is_or_info, parse_type
<1>2. ASSUME by \in {var, uservar}
      PROVE  /\ parse_byte(Reader("name", type, name, val, out), by)
                  = Reader("name", byte_to_type(by), <<>>, <<>>,
                           Append(out, [type |-> type, name |-> name, value |-> val]))
             /\ parse_byte(Reader("value", type, name, val, out), by)
                  = Reader("name", byte_to_type(by), <<>>, <<>>,
                           Append(out, [type |-> type, name |-> name, value |-> val]))
  BY <1>2, ByteFacts DEF Reader, parse_byte, parse_name, parse_value, next_response, fresh_response
<1>3. /\ parse_byte(Reader("name", type, name, val, out), esc)
           = Reader("name_esc", type, name, val, out)
      /\ parse_byte(Reader("name", type, name, val, out), value)
           = Reader("value", type, name, <<<<>>>>, out)
  BY ByteFacts DEF Reader, parse_byte, parse_name
<1>4. by \notin Special => parse_byte(Reader("name", type, name, val, out), by)
           = Reader("name", type, Append(name, by), val, out)
  BY ByteFacts DEF Reader, parse_byte, parse_name, Special
<1>5. parse_byte(Reader("name_esc", type, name, val, out), by)
           = Reader("name", type, Append(name, by), val, out)
  BY DEF Reader, parse_byte, parse_name_esc
<1>6. parse_byte(Reader("value", type, name, val, out), esc)
           = Reader("value_esc", type, name, val, out)
  BY ByteFacts DEF Reader, parse_byte, parse_value
<1>7. parse_byte(Reader("value_esc", type, name, val, out), by)
           = Reader("value", type, name, Grown(val, by), out)
  BY DEF Reader, parse_byte, parse_value_esc, Grown
<1>. QED BY <1>1, <1>2, <1>3, <1>4, <1>5, <1>6, <1>7

LEMMA PlainValueByte ==
    ASSUME NEW type, NEW name, NEW val, NEW out, NEW by, by \notin {var, uservar, esc}
    PROVE  parse_byte(Reader("value", type, name, val, out), by)
              = Reader("value", type, name, Grown(val, by), out)
BY DEF Reader, parse_byte, parse_value, Grown

LEMMA ResponseStep ==
    /\ \A p \in response_parser, by \in Byte : At(response_step, p, by) = parse_byte(p, by)
    /\ Steps(response_step, response_parser, Byte)
<1>1. ASSUME NEW p \in response_parser, NEW by \in Byte
      PROVE  At(response_step, p, by) = parse_byte(p, by)
  <2>1. <<p, by>> \in response_parser \X Byte /\ <<p, by>>[1] = p /\ <<p, by>>[2] = by
    OBVIOUS
  <2>. QED BY <2>1 DEF At, response_step
<1>2. ASSUME NEW p \in response_parser, NEW by \in Byte
      PROVE  parse_byte(p, by) \in response_parser
  <2> DEFINE type == p.rsp.type
             name == p.rsp.name
             val == p.rsp.value
             out == p.out
  <2>1. /\ p = Reader(p.state, type, name, val, out)
        /\ p.state \in {"is_or_info", "type", "name", "name_esc", "value", "value_esc"}
        /\ out \in Seq(response) /\ p.rsp \in response
        /\ p.state \in {"value", "value_esc"} => Len(val) = 1
    BY ReaderIs
  <2>2. /\ type \in variable_type /\ name \in Seq(Byte) /\ val \in Seq(Seq(Byte)) /\ Len(val) <= 1
        /\ [type |-> type, name |-> name, value |-> val] \in response
    BY <2>1, ResponseMembers
  <2>3. /\ Append(name, by) \in Seq(Byte) /\ <<>> \in Seq(Byte)
        /\ <<>> \in Seq(Seq(Byte)) /\ Len(<<>>) = 0
    BY <2>2, AppendProperties, EmptySeq
  <2>4. /\ <<<<>>>> \in Seq(Seq(Byte)) /\ Len(<<<<>>>>) = 1
        /\ Append(out, [type |-> type, name |-> name, value |-> val]) \in Seq(response)
    <3>1. <<<<>>>> \in Seq(Seq(Byte)) /\ Len(<<<<>>>>) = 1
      <4> DEFINE none == <<>>
                 S == Seq(Byte)
      <4>1. none \in S
        BY <2>3
      <4> HIDE DEF none, S
      <4>2. <<none>> \in Seq(S) /\ Len(<<none>>) = 1
        BY <4>1
      <4>. QED BY <4>2 DEF none, S
    <3>. QED BY <2>1, <2>2, <3>1, AppendProperties
  <2>5. byte_to_type(by) \in variable_type
    BY DEF byte_to_type, variable_type
  <2>6. p.state \in {"value", "value_esc"} =>
           /\ Grown(val, by) \in Seq(Seq(Byte))
           /\ Len(Grown(val, by)) = 1
    <3> SUFFICES ASSUME Len(val) = 1
                 PROVE  /\ Grown(val, by) \in Seq(Seq(Byte))
                        /\ Len(Grown(val, by)) = 1
      BY <2>1
    <3> DEFINE S == Seq(Byte)
               x == Append(val[1], by)
    <3>1. val \in Seq(S) /\ 1 \in 1..Len(val)
      BY <2>2
    <3>2. val[1] \in S
      BY <3>1, ElementOfSeq
    <3>3. x \in S
      BY <3>2, AppendProperties
    <3>4. Grown(val, by) = [val EXCEPT ![1] = x]
      BY DEF Grown
    <3> HIDE DEF S, x
    <3>5. [val EXCEPT ![1] = x] \in Seq(S) /\ Len([val EXCEPT ![1] = x]) = Len(val)
      BY <3>1, <3>3, ExceptSeq
    <3>. QED BY <3>4, <3>5 DEF S
  <2> DEFINE q == parse_byte(p, by)
             rsp == [type |-> type, name |-> name, value |-> val]
  <2>7. \/ q = Reader("type", type, name, val, out)
        \/ q = Reader("name", byte_to_type(by), name, val, out)
        \/ q = Reader("name", byte_to_type(by), <<>>, <<>>, Append(out, rsp))
        \/ q = Reader("name_esc", type, name, val, out)
        \/ q = Reader("value", type, name, <<<<>>>>, out)
        \/ q = Reader("name", type, Append(name, by), val, out)
        \/ /\ p.state \in {"value", "value_esc"}
           /\ \/ q = Reader("value_esc", type, name, val, out)
              \/ q = Reader("value", type, name, Grown(val, by), out)
    <3> HIDE DEF type, name, val, out
    <3>1. CASE p.state = "is_or_info"
      <4>1. p = Reader("is_or_info", type, name, val, out)
        BY <2>1, <3>1
      <4>. QED BY <2>1, <2>2, <3>1, <4>1, ReaderBytes
    <3>2. CASE p.state = "type"
      <4>1. p = Reader("type", type, name, val, out)
        BY <2>1, <3>2
      <4>. QED BY <2>1, <2>2, <3>2, <4>1, ReaderBytes
    <3>3. CASE p.state = "name_esc"
      <4>1. p = Reader("name_esc", type, name, val, out)
        BY <2>1, <3>3
      <4>. QED BY <2>1, <2>2, <3>3, <4>1, ReaderBytes
    <3>4. CASE p.state = "value_esc"
      <4>1. p = Reader("value_esc", type, name, val, out)
        BY <2>1, <3>4
      <4>. QED BY <2>1, <2>2, <3>4, <4>1, ReaderBytes
    <3>5. CASE p.state = "name"
      <4>1. p = Reader("name", type, name, val, out)
        BY <2>1, <3>5
      <4>2. CASE by \in {var, uservar}
        BY <2>1, <2>2, <4>1, <4>2, ReaderBytes
      <4>3. CASE by = esc
        BY <2>1, <2>2, <4>1, <4>3, ReaderBytes
      <4>4. CASE by = value
        BY <2>1, <2>2, <4>1, <4>4, ReaderBytes
      <4>5. CASE by \notin Special
        BY <2>1, <2>2, <4>1, <4>5, ReaderBytes
      <4>. QED BY <4>2, <4>3, <4>4, <4>5 DEF Special
    <3>6. CASE p.state = "value"
      <4>1. p = Reader("value", type, name, val, out)
        BY <2>1, <3>6
      <4>2. CASE by \in {var, uservar}
        BY <2>1, <2>2, <4>1, <4>2, ReaderBytes
      <4>3. CASE by = esc
        BY <2>1, <2>2, <3>6, <4>1, <4>3, ReaderBytes
      <4>4. CASE by \notin {var, uservar, esc}
        BY <2>1, <2>2, <3>6, <4>1, <4>4, PlainValueByte
      <4>. QED BY <4>2, <4>3, <4>4
    <3>. QED BY <2>1, <3>1, <3>2, <3>3, <3>4, <3>5, <3>6
  <2> HIDE DEF type, name, val, out, q, rsp
  <2>8. rsp = [type |-> type, name |-> name, value |-> val]
    BY DEF rsp
  <2>9. q \in response_parser
    <3>1. CASE q = Reader("type", type, name, val, out)
      BY <2>1, <2>2, <3>1, ReaderType
    <3>2. CASE q = Reader("name", byte_to_type(by), name, val, out)
      BY <2>1, <2>2, <2>5, <3>2, ReaderType
    <3>3. CASE q = Reader("name", byte_to_type(by), <<>>, <<>>, Append(out, rsp))
      <4> DEFINE none == <<>>
      <4>1. /\ none \in Seq(Byte) /\ none \in Seq(Seq(Byte)) /\ Len(none) <= 1
            /\ q = Reader("name", byte_to_type(by), none, none, Append(out, rsp))
            /\ Append(out, rsp) \in Seq(response)
        BY <2>3, <2>4, <2>8, <3>3
      <4> HIDE DEF none
      <4>. QED BY <2>5, <4>1, ReaderType
    <3>4. CASE q = Reader("name_esc", type, name, val, out)
      BY <2>1, <2>2, <3>4, ReaderType
    <3>5. CASE q = Reader("value", type, name, <<<<>>>>, out)
      <4> DEFINE one == <<<<>>>>
      <4>1. /\ one \in Seq(Seq(Byte)) /\ Len(one) = 1 /\ Len(one) <= 1
            /\ q = Reader("value", type, name, one, out)
        BY <2>4, <3>5
      <4> HIDE DEF one
      <4>. QED BY <2>1, <2>2, <4>1, ReaderType
    <3>6. CASE q = Reader("name", type, Append(name, by), val, out)
      BY <2>1, <2>2, <2>3, <3>6, ReaderType
    <3>7. CASE p.state \in {"value", "value_esc"} /\ q = Reader("value_esc", type, name, val, out)
      BY <2>1, <2>2, <3>7, ReaderType
    <3>8. CASE /\ p.state \in {"value", "value_esc"}
               /\ q = Reader("value", type, name, Grown(val, by), out)
      BY <2>1, <2>2, <2>6, <3>8, ReaderType
    <3>. QED BY <2>7, <3>1, <3>2, <3>3, <3>4, <3>5, <3>6, <3>7, <3>8
  <2>. QED BY <2>9 DEF q
<1>. QED BY <1>1, <1>2 DEF Steps, At

Fed(p, data) == Folded(response_step, p, data)

LEMMA FedFacts ==
    ASSUME NEW p \in response_parser
    PROVE  /\ Fed(p, <<>>) = p
           /\ \A data \in Seq(Byte) : Fed(p, data) \in response_parser
           /\ \A first, rest \in Seq(Byte) : Fed(p, first \o rest) = Fed(Fed(p, first), rest)
           /\ \A by \in Byte : /\ Fed(p, <<by>>) = parse_byte(p, by)
                               /\ parse_byte(p, by) \in response_parser
           /\ \A a, b \in Byte : Fed(p, <<a, b>>) = parse_byte(parse_byte(p, a), b)
<1>1. Fed(p, <<>>) = p
  BY FoldedEmpty DEF Fed
<1>2. ASSUME NEW data \in Seq(Byte) PROVE Fed(p, data) \in response_parser
  BY FoldedType, ResponseStep DEF Fed
<1>3. ASSUME NEW first \in Seq(Byte), NEW rest \in Seq(Byte)
      PROVE  Fed(p, first \o rest) = Fed(Fed(p, first), rest)
  BY FoldedConcat, ResponseStep DEF Fed
<1>4. ASSUME NEW q \in response_parser, NEW by \in Byte
      PROVE  Fed(q, <<by>>) = parse_byte(q, by) /\ parse_byte(q, by) \in response_parser
  <2>1. Fed(q, <<by>>) = At(response_step, q, by)
    BY FoldedOne, ResponseStep DEF Fed
  <2>2. parse_byte(q, by) = At(response_step, q, by) /\ At(response_step, q, by) \in response_parser
    BY ResponseStep DEF Steps, At
  <2>. QED BY <2>1, <2>2
<1>5. ASSUME NEW a \in Byte, NEW b \in Byte
      PROVE  Fed(p, <<a, b>>) = parse_byte(parse_byte(p, a), b)
  <2>1. <<a>> \in Seq(Byte) /\ <<b>> \in Seq(Byte) /\ <<a>> \o <<b>> = <<a, b>>
    <3>1. <<a>> \in Seq(Byte) /\ <<b>> \in Seq(Byte)
      BY SMT
    <3>2. Append(<<>>, a) = <<a>> /\ Append(<<>>, a) \o <<b>> = <<a, b>>
      BY TupleFacts
    <3>. QED BY <3>1, <3>2
  <2>2. Fed(p, <<a>> \o <<b>>) = Fed(Fed(p, <<a>>), <<b>>)
    BY <1>3, <2>1
  <2>. QED BY <1>4, <2>1, <2>2
<1>. QED BY <1>1, <1>2, <1>3, <1>4, <1>5

\* The bytes of a name are read as that name, escapes and all, and those of a
\* value as that value.
LEMMA NameByte ==
    ASSUME NEW type \in variable_type, NEW name \in Seq(Byte), NEW val \in Seq(Seq(Byte)),
           NEW out \in Seq(response), NEW by \in Byte, Len(val) <= 1
    PROVE  Fed(Reader("name", type, name, val, out), escaped[by])
              = Reader("name", type, Append(name, by), val, out)
<1> DEFINE p == Reader("name", type, name, val, out)
<1>1. p \in response_parser
  BY ReaderType
<1>2. CASE by \in Special
  <2>1. escaped[by] = <<esc, by>> /\ esc \in Byte
    BY <1>2, ByteFacts DEF escaped
  <2>2. parse_byte(p, esc) = Reader("name_esc", type, name, val, out)
    BY ReaderBytes
  <2>3. parse_byte(Reader("name_esc", type, name, val, out), by)
          = Reader("name", type, Append(name, by), val, out)
    BY ReaderBytes
  <2>. QED BY <1>1, <2>1, <2>2, <2>3, FedFacts
<1>3. CASE by \notin Special
  <2>1. escaped[by] = <<by>>
    BY <1>3 DEF escaped
  <2>2. parse_byte(p, by) = Reader("name", type, Append(name, by), val, out)
    BY <1>3, ReaderBytes, ZenonT(40)
  <2>. QED BY <1>1, <2>1, <2>2, FedFacts
<1>. QED BY <1>2, <1>3

LEMMA ValueByte ==
    ASSUME NEW type \in variable_type, NEW name \in Seq(Byte), NEW v \in Seq(Byte),
           NEW out \in Seq(response), NEW by \in Byte
    PROVE  Fed(Reader("value", type, name, <<v>>, out), escaped[by])
              = Reader("value", type, name, <<Append(v, by)>>, out)
<1> DEFINE val == <<v>>
           p == Reader("value", type, name, val, out)
<1>0. val \in Seq(Seq(Byte)) /\ Len(val) = 1 /\ Grown(val, by) = <<Append(v, by)>>
  <2>1. val \in Seq(Seq(Byte)) /\ Len(val) = 1
    BY SMT
  <2>2. Grown(val, by) = <<Append(v, by)>>
    <3> DEFINE S == Seq(Byte)
               x == Append(v, by)
               more == <<x>>
    <3>1. x \in S /\ v \in S
      BY AppendProperties
    <3>2. Grown(val, by) = [val EXCEPT ![1] = x]
      BY DEF Grown
    <3> HIDE DEF S, x, val
    <3>3. val \in Seq(S) /\ 1 \in 1..Len(val)
      BY <2>1, SMT DEF S
    <3>4. /\ [val EXCEPT ![1] = x] \in Seq(S) /\ Len([val EXCEPT ![1] = x]) = Len(val)
          /\ \A j \in 1..Len(val) : [val EXCEPT ![1] = x][j] = IF j = 1 THEN x ELSE val[j]
      BY <3>1, <3>3, ExceptSeq
    <3>5. more \in Seq(S) /\ Len(more) = 1 /\ more[1] = x
      BY <3>1
    <3> DEFINE g == [val EXCEPT ![1] = x]
    <3>6. g \in Seq(S) /\ Len(g) = 1 /\ g[1] = x
      BY <2>1, <3>4
    <3> HIDE DEF g, more
    <3>7. g = more
      <4>1. \A i \in 1..Len(g) : g[i] = more[i]
        BY <3>5, <3>6
      <4>. QED BY <3>5, <3>6, <4>1, SeqEqual
    <3>. QED BY <3>2, <3>7 DEF g, more, x
  <2>. QED BY <2>1, <2>2
<1> HIDE DEF val
<1>01. Len(val) <= 1
  BY <1>0
<1>1. p \in response_parser
  BY <1>0, <1>01, ReaderType
<1>2. CASE by \in Special
  <2>1. escaped[by] = <<esc, by>> /\ esc \in Byte
    BY <1>2, ByteFacts DEF escaped
  <2>2. parse_byte(p, esc) = Reader("value_esc", type, name, val, out)
    BY <1>0, ReaderBytes
  <2>3. parse_byte(Reader("value_esc", type, name, val, out), by)
          = Reader("value", type, name, Grown(val, by), out)
    BY <1>0, ReaderBytes
  <2>4. Fed(p, escaped[by]) = Reader("value", type, name, Grown(val, by), out)
    BY <1>1, <2>1, <2>2, <2>3, FedFacts
  <2>. QED BY <1>0, <2>4 DEF val
<1>3. CASE by \notin Special
  <2>1. escaped[by] = <<by>> /\ by \notin {var, uservar, esc}
    BY <1>3 DEF escaped, Special
  <2>2. parse_byte(p, by) = Reader("value", type, name, Grown(val, by), out)
    BY <2>1, PlainValueByte
  <2>3. Fed(p, escaped[by]) = Reader("value", type, name, Grown(val, by), out)
    BY <1>1, <2>1, <2>2, FedFacts
  <2>. QED BY <1>0, <2>3 DEF val
<1>. QED BY <1>2, <1>3

LEMMA NameRead ==
    ASSUME NEW type \in variable_type, NEW val \in Seq(Seq(Byte)), Len(val) <= 1,
           NEW out \in Seq(response)
    PROVE  \A name \in Seq(Byte) :
              Fed(Reader("name", type, <<>>, val, out), append_escaped(name))
                 = Reader("name", type, name, val, out)
<1> DEFINE p == Reader("name", type, <<>>, val, out)
           R == {name \in Seq(Byte) : Fed(p, append_escaped(name)) = Reader("name", type, name, val, out)}
<1>0. p \in response_parser
  BY EmptySeq, ReaderType
<1>1. <<>> \in R
  BY <1>0, EscapedAre, FedFacts, EmptySeq
<1>2. ASSUME NEW name \in Seq(Byte), NEW by \in Byte, name \in R PROVE Append(name, by) \in R
  <2>1. /\ append_escaped(Append(name, by)) = append_escaped(name) \o escaped[by]
        /\ append_escaped(name) \in Seq(Byte) /\ escaped[by] \in Seq(Byte)
        /\ Append(name, by) \in Seq(Byte)
    BY EscapedAre, EscapedType, AppendProperties
  <2>2. Fed(p, append_escaped(Append(name, by))) = Fed(Fed(p, append_escaped(name)), escaped[by])
    BY <1>0, <2>1, FedFacts
  <2>3. Fed(p, append_escaped(name)) = Reader("name", type, name, val, out)
    BY <1>2
  <2>4. Fed(Reader("name", type, name, val, out), escaped[by])
          = Reader("name", type, Append(name, by), val, out)
    BY NameByte
  <2>. QED BY <2>1, <2>2, <2>3, <2>4
<1>3. \A name \in Seq(Byte) : name \in R
  <2> HIDE DEF R
  <2>. QED BY <1>1, <1>2, SequencesReached
<1>. QED BY <1>3

LEMMA ValueRead ==
    ASSUME NEW type \in variable_type, NEW name \in Seq(Byte), NEW out \in Seq(response)
    PROVE  \A v \in Seq(Byte) :
              Fed(Reader("value", type, name, <<<<>>>>, out), append_escaped(v))
                 = Reader("value", type, name, <<v>>, out)
<1> DEFINE none == <<>>
           p == Reader("value", type, name, <<none>>, out)
           R == {v \in Seq(Byte) : Fed(p, append_escaped(v)) = Reader("value", type, name, <<v>>, out)}
<1>0. p \in response_parser /\ none \in Seq(Byte)
  <2>1. none \in Seq(Byte)
    BY EmptySeq
  <2> DEFINE one == <<none>>
  <2> HIDE DEF none
  <2>2. one \in Seq(Seq(Byte)) /\ Len(one) = 1 /\ Len(one) <= 1
    BY <2>1
  <2> HIDE DEF one
  <2>3. Reader("value", type, name, one, out) \in response_parser
    BY <2>2, ReaderType
  <2>. QED BY <2>1, <2>3 DEF one
<1>1. none \in R
  <2>1. append_escaped(none) = none /\ Fed(p, none) = p
    BY <1>0, EscapedAre, FedFacts
  <2> HIDE DEF none
  <2>. QED BY <1>0, <2>1
<1>2. ASSUME NEW v \in Seq(Byte), NEW by \in Byte, v \in R PROVE Append(v, by) \in R
  <2>1. /\ append_escaped(Append(v, by)) = append_escaped(v) \o escaped[by]
        /\ append_escaped(v) \in Seq(Byte) /\ escaped[by] \in Seq(Byte)
        /\ Append(v, by) \in Seq(Byte)
    BY EscapedAre, EscapedType, AppendProperties
  <2>2. Fed(p, append_escaped(Append(v, by))) = Fed(Fed(p, append_escaped(v)), escaped[by])
    BY <1>0, <2>1, FedFacts
  <2>3. Fed(p, append_escaped(v)) = Reader("value", type, name, <<v>>, out)
    BY <1>2
  <2>4. Fed(Reader("value", type, name, <<v>>, out), escaped[by])
          = Reader("value", type, name, <<Append(v, by)>>, out)
    BY ValueByte
  <2> HIDE DEF p
  <2>. QED BY <2>1, <2>2, <2>3, <2>4
<1>3. \A v \in Seq(Byte) : v \in R
  <2>1. <<>> \in R
    BY <1>1
  <2> HIDE DEF R
  <2>. QED BY <1>2, <2>1, SequencesReached
<1>. QED BY <1>3

\* The parser when it has read a response, and those in out before it.
After(rsp, out) ==
    Reader(IF rsp.value = <<>> THEN "name" ELSE "value", rsp.type, rsp.name, rsp.value, out)

LEMMA AfterType ==
    ASSUME NEW rsp \in response, NEW out \in Seq(response)
    PROVE  After(rsp, out) \in response_parser
<1>1. /\ rsp.type \in variable_type /\ rsp.name \in Seq(Byte)
      /\ rsp.value \in Seq(Seq(Byte)) /\ Len(rsp.value) <= 1
  BY ResponseMembers
<1>2. rsp.value # <<>> => Len(rsp.value) = 1
  BY ResponseMembers
<1>3. CASE rsp.value = <<>>
  BY <1>1, <1>3, ReaderType DEF After
<1>4. CASE rsp.value # <<>>
  BY <1>1, <1>2, <1>4, ReaderType DEF After
<1>. QED BY <1>3, <1>4

\* The bytes of a response are read as that response: behind its type, ...
LEMMA BodyRead ==
    ASSUME NEW rsp \in response, NEW out \in Seq(response)
    PROVE  Fed(Reader("name", rsp.type, <<>>, <<>>, out),
               append_escaped(rsp.name)
                  \o (IF rsp.value = <<>> THEN <<>> ELSE <<value>> \o append_escaped(rsp.value[1])))
              = After(rsp, out)
<1> DEFINE name == append_escaped(rsp.name)
           p == Reader("name", rsp.type, <<>>, <<>>, out)
           q == Reader("name", rsp.type, rsp.name, <<>>, out)
<1>1. /\ rsp.type \in variable_type /\ rsp.name \in Seq(Byte)
      /\ rsp.value \in Seq(Seq(Byte)) /\ Len(rsp.value) <= 1
      /\ rsp.value # <<>> => rsp.value[1] \in Seq(Byte) /\ rsp.value = <<rsp.value[1]>>
  BY ResponseMembers
<1>2. /\ Fed(p, name) = q /\ name \in Seq(Byte)
      /\ p \in response_parser /\ q \in response_parser
  <2> DEFINE none == <<>>
  <2>1. none \in Seq(Byte) /\ none \in Seq(Seq(Byte)) /\ Len(none) <= 1
    BY EmptySeq
  <2>2. Fed(p, name) = q
    BY <1>1, <2>1, NameRead
  <2>3. p = Reader("name", rsp.type, none, none, out) /\ q = Reader("name", rsp.type, rsp.name, none, out)
    OBVIOUS
  <2> HIDE DEF none, p, q
  <2>4. p \in response_parser /\ q \in response_parser
    BY <1>1, <2>1, <2>3, ReaderType
  <2>. QED BY <1>1, <2>2, <2>4, EscapedAre
<1>3. CASE rsp.value = <<>>
  <2>1. q = After(rsp, out)
    BY <1>3 DEF After
  <2>2. name \o <<>> = name
    BY <1>2, ConcatEmptySeq
  <2>. QED BY <1>2, <1>3, <2>1, <2>2
<1>4. CASE rsp.value # <<>>
  <2> DEFINE v == append_escaped(rsp.value[1])
             r == Reader("value", rsp.type, rsp.name, <<<<>>>>, out)
  <2>1. v \in Seq(Byte) /\ <<value>> \in Seq(Byte) /\ <<value>> \o v \in Seq(Byte)
    <3>1. v \in Seq(Byte) /\ <<value>> \in Seq(Byte)
      BY <1>1, <1>4, EscapedAre, ByteFacts
    <3>. QED BY <3>1, ConcatProperties
  <2>2. Fed(q, <<value>>) = r
    <3>1. value \in Byte /\ Fed(q, <<value>>) = parse_byte(q, value)
      BY <1>2, ByteFacts, FedFacts
    <3>2. <<>> \in Seq(Seq(Byte))
      BY EmptySeq
    <3>3. parse_byte(q, value) = r
      BY <1>1, <3>1, <3>2, ReaderBytes
    <3>. QED BY <3>1, <3>3
  <2>3. Fed(r, v) = Reader("value", rsp.type, rsp.name, <<rsp.value[1]>>, out)
    BY <1>1, <1>4, ValueRead
  <2>4. Reader("value", rsp.type, rsp.name, <<rsp.value[1]>>, out) = After(rsp, out)
    BY <1>1, <1>4 DEF After
  <2> HIDE DEF p, q, r, v, name
  <2>5. Fed(p, name \o (<<value>> \o v)) = Fed(q, <<value>> \o v)
    BY <1>2, <2>1, FedFacts, ZenonT(40)
  <2>6. Fed(q, <<value>> \o v) = Fed(r, v)
    BY <1>2, <2>1, <2>2, FedFacts, ZenonT(40)
  <2>. QED BY <1>4, <2>3, <2>4, <2>5, <2>6 DEF p, name, v
<1>. QED BY <1>3, <1>4

\* ... and behind another response, which is then complete.
LEMMA AppendedRead ==
    ASSUME NEW rsp \in response, NEW out \in Seq(response)
    PROVE  /\ Fed(Reader("type", "var", <<>>, <<>>, out), appended[rsp]) = After(rsp, out)
           /\ \A before \in response :
                 Fed(After(before, out), appended[rsp]) = After(rsp, Append(out, before))
<1> DEFINE first == type_to_byte(rsp.type)
           rest == append_escaped(rsp.name)
                      \o (IF rsp.value = <<>> THEN <<>> ELSE <<value>> \o append_escaped(rsp.value[1]))
<1>1. /\ rsp.type \in variable_type /\ rsp.name \in Seq(Byte)
      /\ rsp.value # <<>> => rsp.value[1] \in Seq(Byte)
  BY ResponseMembers
<1>2. first \in Byte /\ first \in {var, uservar} /\ byte_to_type(first) = rsp.type
  BY <1>1, TypesAreBytes
<1>3. appended[rsp] = <<first>> \o rest /\ <<first>> \in Seq(Byte) /\ rest \in Seq(Byte)
  <2> DEFINE name == append_escaped(rsp.name)
             val == IF rsp.value = <<>> THEN <<>> ELSE <<value>> \o append_escaped(rsp.value[1])
  <2>1. name \in Seq(Byte) /\ <<first>> \in Seq(Byte)
    BY <1>1, <1>2, EscapedAre
  <2>2. val \in Seq(Byte)
    <3>1. CASE rsp.value = <<>>
      BY <3>1, EmptySeq
    <3>2. CASE rsp.value # <<>>
      <4>1. <<value>> \in Seq(Byte) /\ append_escaped(rsp.value[1]) \in Seq(Byte)
        BY <1>1, <3>2, EscapedAre, ByteFacts
      <4>. QED BY <3>2, <4>1, ConcatProperties
    <3>. QED BY <3>1, <3>2
  <2>3. appended[rsp] = (<<first>> \o name) \o val
    BY DEF appended, append_variable
  <2>4. rest = name \o val
    OBVIOUS
  <2> HIDE DEF first, name, val, rest
  <2>. QED BY <2>1, <2>2, <2>3, <2>4, ConcatAssociative, ConcatProperties
<1>4. ASSUME NEW p \in response_parser, NEW o \in Seq(response),
             parse_byte(p, first) = Reader("name", rsp.type, <<>>, <<>>, o)
      PROVE  Fed(p, appended[rsp]) = After(rsp, o)
  <2>1. Fed(Reader("name", rsp.type, <<>>, <<>>, o), rest) = After(rsp, o)
    BY BodyRead
  <2> HIDE DEF first, rest
  <2>2. Fed(p, <<first>> \o rest) = Fed(parse_byte(p, first), rest)
    <3>1. Fed(p, <<first>> \o rest) = Fed(Fed(p, <<first>>), rest)
      BY <1>3, FedFacts
    <3>2. Fed(p, <<first>>) = parse_byte(p, first)
      BY <1>2, FedFacts
    <3>. QED BY <3>1, <3>2
  <2>. QED BY <1>3, <1>4, <2>1, <2>2
<1>5. Fed(Reader("type", "var", <<>>, <<>>, out), appended[rsp]) = After(rsp, out)
  <2> DEFINE none == <<>>
             p == Reader("type", "var", none, none, out)
  <2>1. none \in Seq(Byte) /\ none \in Seq(Seq(Byte)) /\ Len(none) <= 1 /\ "var" \in variable_type
    BY EmptySeq DEF variable_type
  <2> HIDE DEF none
  <2>2. p \in response_parser
    BY <2>1, ReaderType
  <2>3. parse_byte(p, first) = Reader("name", byte_to_type(first), none, none, out)
    <3> HIDE DEF first
    <3>. QED BY <1>2, <2>1, ReaderBytes
  <2>. QED BY <1>2, <1>4, <2>2, <2>3 DEF none
<1>6. ASSUME NEW before \in response
      PROVE  Fed(After(before, out), appended[rsp]) = After(rsp, Append(out, before))
  <2> DEFINE state == IF before.value = <<>> THEN "name" ELSE "value"
             o == Append(out, before)
  <2>1. /\ before.type \in variable_type /\ before.name \in Seq(Byte)
        /\ before.value \in Seq(Seq(Byte))
        /\ before = [type |-> before.type, name |-> before.name, value |-> before.value]
    BY ResponseMembers
  <2>2. o \in Seq(response)
    BY AppendProperties
  <2>3. parse_byte(After(before, out), first) = Reader("name", rsp.type, <<>>, <<>>, o)
    <3>1. state \in {"name", "value"}
      OBVIOUS
    <3>2. After(before, out) = Reader(state, before.type, before.name, before.value, out)
      BY DEF After
    <3> HIDE DEF first, state
    <3>3. \A s \in {"name", "value"} :
             parse_byte(Reader(s, before.type, before.name, before.value, out), first)
               = Reader("name", byte_to_type(first), <<>>, <<>>,
                        Append(out, [type |-> before.type, name |-> before.name, value |-> before.value]))
      BY <1>2, <2>1, ReaderBytes
    <3>. QED BY <1>2, <2>1, <3>1, <3>2, <3>3
  <2>4. After(before, out) \in response_parser
    BY AfterType
  <2>. QED BY <1>4, <2>2, <2>3, <2>4
<1>. QED BY <1>5, <1>6

\* All responses but the last are complete when the content has been read.
LEMMA AllRead ==
    \A rsps \in Seq(response) : \A rsp \in response :
        Fed(Reader("type", "var", <<>>, <<>>, <<>>), Spread(Append(rsps, rsp), appended))
           = After(rsp, rsps)
<1> DEFINE p == Reader("type", "var", <<>>, <<>>, <<>>)
           R == {rsps \in Seq(response) : \A rsp \in response :
                    Fed(p, Spread(Append(rsps, rsp), appended)) = After(rsp, rsps)}
<1>0. p \in response_parser
  <2> DEFINE none == <<>>
  <2>1. /\ none \in Seq(Byte) /\ none \in Seq(Seq(Byte)) /\ Len(none) <= 1
        /\ none \in Seq(response) /\ "var" \in variable_type
    BY EmptySeq DEF variable_type
  <2>2. p = Reader("type", "var", none, none, none)
    OBVIOUS
  <2> HIDE DEF none, p
  <2>. QED BY <2>1, <2>2, ReaderType
<1>1. <<>> \in R
  <2>0. <<>> \in Seq(response)
    BY EmptySeq
  <2>1. ASSUME NEW rsp \in response
        PROVE  Fed(p, Spread(Append(<<>>, rsp), appended)) = After(rsp, <<>>)
    <3>1. Spread(Append(<<>>, rsp), appended) = Spread(<<>>, appended) \o appended[rsp]
      BY <2>0, AppendedType, SpreadAppend
    <3>2. Spread(<<>>, appended) = <<>> /\ appended[rsp] \in Seq(Byte)
      BY SpreadEmpty, AppendedType
    <3>3. Spread(Append(<<>>, rsp), appended) = appended[rsp]
      BY <3>1, <3>2, ConcatEmptySeq
    <3>4. Fed(p, appended[rsp]) = After(rsp, <<>>)
      BY <2>0, AppendedRead
    <3>. QED BY <3>3, <3>4
  <2>. QED BY <2>0, <2>1
<1>2. ASSUME NEW rsps \in Seq(response), NEW x \in response, rsps \in R
      PROVE  Append(rsps, x) \in R
  <2>1. Append(rsps, x) \in Seq(response)
    BY AppendProperties
  <2>2. ASSUME NEW rsp \in response
        PROVE  Fed(p, Spread(Append(Append(rsps, x), rsp), appended)) = After(rsp, Append(rsps, x))
    <3> DEFINE front == Spread(Append(rsps, x), appended)
    <3>1. Spread(Append(Append(rsps, x), rsp), appended) = front \o appended[rsp]
      BY <2>1, AppendedType, SpreadAppend
    <3>2. front \in Seq(Byte) /\ appended[rsp] \in Seq(Byte)
      BY <2>1, AppendedType, SpreadType
    <3>3. Fed(p, front) = After(x, rsps)
      BY <1>2
    <3>4. Fed(After(x, rsps), appended[rsp]) = After(rsp, Append(rsps, x))
      BY AppendedRead
    <3> HIDE DEF p, front
    <3>5. Fed(p, front \o appended[rsp]) = Fed(Fed(p, front), appended[rsp])
      BY <1>0, <3>2, FedFacts
    <3>. QED BY <3>1, <3>3, <3>4, <3>5
  <2>. QED BY <2>1, <2>2
<1>3. \A rsps \in Seq(response) : rsps \in R
  <2> HIDE DEF R
  <2>. QED BY <1>1, <1>2, SequencesReached
<1>. QED BY <1>3

NamedReports == {rsp \in response : rsp.name # <<>>}

\* What a server writes of its variables is what a client reads: for_each_response
\* gives back every list of named responses, whatever bytes are in the names and
\* values, and whether it is an answer or a report.
THEOREM ResponsesRead ==
    \A command \in Byte : \A rsps \in Seq(NamedReports) :
        /\ response_content(command, rsps) \in Seq(Byte)
        /\ Head(response_content(command, rsps)) = command
        /\ for_each_response(response_content(command, rsps)) = rsps
<1> SUFFICES ASSUME NEW command \in Byte, NEW rsps \in Seq(NamedReports)
             PROVE  /\ response_content(command, rsps) \in Seq(Byte)
                    /\ Head(response_content(command, rsps)) = command
                    /\ for_each_response(response_content(command, rsps)) = rsps
  OBVIOUS
<1> DEFINE none == <<>>
           body == Spread(rsps, appended)
           data == <<command>> \o body
           p == Reader("type", "var", none, none, none)
<1>1. NamedReports \subseteq response
  BY DEF NamedReports
<1>2. rsps \in Seq(response)
  BY <1>1, SeqMonotonic
<1>3. response_content(command, rsps) = data
  BY <1>2, ResponseContentIs
<1>4. body \in Seq(Byte) /\ <<command>> \in Seq(Byte)
  BY <1>2, AppendedType, SpreadType
<1>5. data \in Seq(Byte) /\ Head(data) = command
  <2> HIDE DEF body
  <2>. QED BY <1>4
<1>6. /\ none \in Seq(Byte) /\ none \in Seq(Seq(Byte)) /\ none \in Seq(response)
      /\ Len(none) <= 1 /\ "var" \in variable_type
  BY EmptySeq DEF variable_type
<1>7. parsing_state = Reader("is_or_info", "var", none, none, none)
  BY DEF parsing_state, fresh_response, Reader
<1>8. Fed(parsing_state, data) = Fed(p, body)
  <2> HIDE DEF none, body
  <2>1. parsing_state \in response_parser
    BY <1>6, <1>7, ReaderType
  <2>2. parse_byte(parsing_state, command) = p
    BY <1>6, <1>7, ReaderBytes
  <2> HIDE DEF p
  <2>3. Fed(parsing_state, <<command>> \o body) = Fed(Fed(parsing_state, <<command>>), body)
    BY <1>4, <2>1, FedFacts
  <2>4. Fed(parsing_state, <<command>>) = p
    BY <2>1, <2>2, FedFacts
  <2>. QED BY <2>3, <2>4
<1>9. for_each_response(data) = parse_end(Fed(p, body)).out
  BY <1>8 DEF for_each_response, Fed
<1>10. CASE rsps = <<>>
  <2>1. body = <<>>
    BY <1>10, SpreadEmpty
  <2>2. Fed(p, body) = p
    BY <2>1, FoldedEmpty DEF Fed
  <2>3. parse_end(p).out = <<>>
    BY DEF parse_end, Reader
  <2>. QED BY <1>3, <1>5, <1>9, <1>10, <2>2, <2>3
<1>11. CASE rsps # <<>>
  <2>1. PICK before \in Seq(NamedReports), rsp \in NamedReports : rsps = Append(before, rsp)
    BY <1>11, SequenceEmptyOrAppend
  <2>2. before \in Seq(response) /\ rsp \in response /\ rsp.name # <<>>
    BY <1>1, <2>1, SeqMonotonic DEF NamedReports
  <2>3. Fed(p, body) = After(rsp, before)
    BY <2>1, <2>2, AllRead
  <2>4. parse_end(After(rsp, before)).out = Append(before, rsp)
    <3>1. rsp = [type |-> rsp.type, name |-> rsp.name, value |-> rsp.value]
      BY <2>2, ResponseMembers
    <3>. QED BY <2>2, <3>1 DEF parse_end, After, Reader
  <2>. QED BY <1>3, <1>5, <1>9, <2>1, <2>3, <2>4
<1>. QED BY <1>10, <1>11

-------------------------------------------------------------------------------
(***************************************************************************)
(* What a copy is told.                                                    *)
(***************************************************************************)
key(rsp) == [type |-> rsp.type, name |-> rsp.name]
KeysOf(rsps) == {key(rsps[i]) : i \in 1..Len(rsps)}

LEMMA ReportFacts ==
    /\ Reports \subseteq NamedReports
    /\ \A rsp \in Reports : key(rsp) \in Keys /\ rsp.value \in Optional
    /\ \A k \in Keys, v \in Optional : /\ with_value(k, v) \in Reports
                                       /\ key(with_value(k, v)) = k
                                       /\ with_value(k, v).value = v
<1>1. ASSUME NEW v \in Optional PROVE v \in Seq(Seq(Byte)) /\ Len(v) <= 1
  <2>1. CASE v = <<>>
    BY <2>1, EmptySeq
  <2>2. CASE v # <<>>
    <3>1. PICK x \in Values : v = <<x>>
      BY <2>2 DEF Optional
    <3>2. x \in Seq(Byte)
      BY NewEnvironAssumption
    <3> DEFINE S == Seq(Byte)
    <3>3. <<x>> \in Seq(S) /\ Len(<<x>>) <= 1
      <4>1. x \in S
        BY <3>2
      <4> HIDE DEF S
      <4>. QED BY <4>1
    <3>. QED BY <3>1, <3>3
  <2>. QED BY <2>1, <2>2
<1>2. ASSUME NEW rsp \in Reports
      PROVE  rsp \in NamedReports /\ key(rsp) \in Keys /\ rsp.value \in Optional
  <2>1. /\ rsp = [type |-> rsp.type, name |-> rsp.name, value |-> rsp.value]
        /\ rsp.type \in variable_type /\ rsp.name \in Names /\ rsp.value \in Optional
    BY DEF Reports
  <2>2. rsp.name \in Seq(Byte) /\ rsp.name # <<>>
    BY <2>1, NewEnvironAssumption
  <2>3. rsp.value \in Seq(Seq(Byte)) /\ Len(rsp.value) <= 1
    BY <1>1, <2>1
  <2>4. rsp \in response
    BY <2>1, <2>2, <2>3 DEF response
  <2>. QED BY <2>1, <2>2, <2>4 DEF NamedReports, key, Keys
<1>3. ASSUME NEW k \in Keys, NEW v \in Optional
      PROVE  with_value(k, v) \in Reports /\ key(with_value(k, v)) = k /\ with_value(k, v).value = v
  BY DEF Keys, Reports, with_value, key
<1>. QED BY <1>2, <1>3

LEMMA ToldStep ==
    /\ \A copy \in Copies, rsp \in Reports :
          /\ At(told, copy, rsp) = [copy EXCEPT ![key(rsp)] = rsp.value]
          /\ At(told, copy, rsp) \in Copies
          /\ \A k \in Keys : At(told, copy, rsp)[k] = IF k = key(rsp) THEN rsp.value ELSE copy[k]
    /\ Steps(told, Copies, Reports)
<1>1. ASSUME NEW copy \in Copies, NEW rsp \in Reports
      PROVE  /\ At(told, copy, rsp) = [copy EXCEPT ![key(rsp)] = rsp.value]
             /\ At(told, copy, rsp) \in Copies
             /\ \A k \in Keys : At(told, copy, rsp)[k] = IF k = key(rsp) THEN rsp.value ELSE copy[k]
  <2>1. <<copy, rsp>> \in Copies \X Reports /\ <<copy, rsp>>[1] = copy /\ <<copy, rsp>>[2] = rsp
    OBVIOUS
  <2>2. At(told, copy, rsp) = [copy EXCEPT ![key(rsp)] = rsp.value]
    BY <2>1 DEF At, told, on_variable_changed, key
  <2>3. key(rsp) \in Keys /\ rsp.value \in Optional /\ copy \in [Keys -> Optional]
    BY ReportFacts DEF Copies
  <2>. QED BY <2>2, <2>3 DEF Copies
<1>. QED BY <1>1 DEF Steps, At

LEMMA KeysOfAre ==
    /\ KeysOf(<<>>) = {}
    /\ \A rsps \in Seq(Reports), rsp \in Reports :
          KeysOf(Append(rsps, rsp)) = KeysOf(rsps) \cup {key(rsp)}
    /\ \A s, t \in Seq(Reports) : KeysOf(s \o t) = KeysOf(s) \cup KeysOf(t)
<1>1. KeysOf(<<>>) = {}
  BY DEF KeysOf
<1>2. ASSUME NEW rsps \in Seq(Reports), NEW rsp \in Reports
      PROVE  KeysOf(Append(rsps, rsp)) = KeysOf(rsps) \cup {key(rsp)}
  <2> DEFINE n == Len(rsps)
             more == Append(rsps, rsp)
  <2>1. n \in Nat /\ Len(more) = n + 1 /\ more[n + 1] = rsp /\ \A i \in 1..n : more[i] = rsps[i]
    BY AppendProperties, LenProperties
  <2>2. \A i : i \in 1..(n + 1) <=> i \in 1..n \/ i = n + 1
    BY <2>1
  <2> HIDE DEF n, more
  <2>. QED BY <2>1, <2>2 DEF KeysOf, n, more
<1>3. ASSUME NEW s \in Seq(Reports), NEW t \in Seq(Reports)
      PROVE  KeysOf(s \o t) = KeysOf(s) \cup KeysOf(t)
  <2> DEFINE w == s \o t
             m == Len(s)
             n == Len(t)
  <2>1. /\ m \in Nat /\ n \in Nat /\ Len(w) = m + n
        /\ \A i \in 1..(m + n) : w[i] = IF i <= m THEN s[i] ELSE t[i - m]
    BY ConcatProperties, LenProperties
  <2> HIDE DEF w, m, n
  <2>2. \A i \in 1..m : i \in 1..(m + n) /\ w[i] = s[i]
    BY <2>1
  <2>3. \A i \in 1..n : m + i \in 1..(m + n) /\ w[m + i] = t[i]
    <3> SUFFICES ASSUME NEW i \in 1..n PROVE m + i \in 1..(m + n) /\ w[m + i] = t[i]
      OBVIOUS
    <3>1. m + i \in 1..(m + n) /\ ~(m + i <= m) /\ (m + i) - m = i
      BY <2>1
    <3>. QED BY <2>1, <3>1
  <2>4. \A i \in 1..(m + n) : (i \in 1..m /\ w[i] = s[i]) \/ (i - m \in 1..n /\ w[i] = t[i - m])
    BY <2>1
  <2>5. KeysOf(w) = {key(w[i]) : i \in 1..(m + n)} /\ KeysOf(s) = {key(s[i]) : i \in 1..m}
        /\ KeysOf(t) = {key(t[i]) : i \in 1..n}
    BY <2>1 DEF KeysOf, m, n
  <2>6. KeysOf(w) \subseteq KeysOf(s) \cup KeysOf(t)
    BY <2>4, <2>5
  <2>7. KeysOf(s) \subseteq KeysOf(w) /\ KeysOf(t) \subseteq KeysOf(w)
    BY <2>2, <2>3, <2>5
  <2>. QED BY <2>6, <2>7 DEF w
<1>. QED BY <1>1, <1>2, <1>3

Tell(copy, rsps) == Folded(told, copy, rsps)

\* Two copies that are told the same agree on all that is mentioned, and on all
\* that they agreed on before; what is not mentioned stays as it was.
LEMMA FoldedTold ==
    ASSUME NEW a \in Copies, NEW b \in Copies, NEW k \in Keys
    PROVE  \A rsps \in Seq(Reports) :
              /\ Tell(a, rsps) \in Copies
              /\ a[k] = b[k] \/ k \in KeysOf(rsps) => Tell(a, rsps)[k] = Tell(b, rsps)[k]
              /\ k \notin KeysOf(rsps) => Tell(a, rsps)[k] = a[k]
<1> DEFINE R == {rsps \in Seq(Reports) :
              /\ a[k] = b[k] \/ k \in KeysOf(rsps) => Tell(a, rsps)[k] = Tell(b, rsps)[k]
              /\ k \notin KeysOf(rsps) => Tell(a, rsps)[k] = a[k]}
<1>0. \A rsps \in Seq(Reports) : Tell(a, rsps) \in Copies /\ Tell(b, rsps) \in Copies
  BY FoldedType, ToldStep DEF Tell
<1>1. <<>> \in R
  <2>1. Tell(a, <<>>) = a /\ Tell(b, <<>>) = b
    BY FoldedEmpty DEF Tell
  <2>. QED BY <2>1, EmptySeq, KeysOfAre
<1>2. ASSUME NEW rsps \in Seq(Reports), NEW rsp \in Reports, rsps \in R PROVE Append(rsps, rsp) \in R
  <2> DEFINE more == Append(rsps, rsp)
  <2>1. /\ Tell(a, more) = At(told, Tell(a, rsps), rsp) /\ Tell(b, more) = At(told, Tell(b, rsps), rsp)
    BY FoldedAppend, ToldStep DEF Tell
  <2>2. /\ Tell(a, more)[k] = IF k = key(rsp) THEN rsp.value ELSE Tell(a, rsps)[k]
        /\ Tell(b, more)[k] = IF k = key(rsp) THEN rsp.value ELSE Tell(b, rsps)[k]
    BY <1>0, <2>1, ToldStep
  <2>3. KeysOf(more) = KeysOf(rsps) \cup {key(rsp)} /\ more \in Seq(Reports)
    BY KeysOfAre, AppendProperties
  <2> HIDE DEF more
  <2>. QED BY <1>2, <2>2, <2>3 DEF more
<1>3. \A rsps \in Seq(Reports) : rsps \in R
  <2> HIDE DEF R
  <2>. QED BY <1>1, <1>2, SequencesReached
<1>. QED BY <1>0, <1>3

\* A copy that is told nothing but the truth has the truth of what is mentioned.
LEMMA ToldTrue ==
    ASSUME NEW a \in Copies, NEW truth \in Copies, NEW k \in Keys
    PROVE  \A rsps \in Seq(Reports) :
              /\ \A i \in 1..Len(rsps) : rsps[i].value = truth[key(rsps[i])]
              /\ k \in KeysOf(rsps) \/ a[k] = truth[k]
              => Tell(a, rsps)[k] = truth[k]
<1> DEFINE True(rsps) == \A i \in 1..Len(rsps) : rsps[i].value = truth[key(rsps[i])]
           R == {rsps \in Seq(Reports) :
                   True(rsps) /\ (k \in KeysOf(rsps) \/ a[k] = truth[k]) => Tell(a, rsps)[k] = truth[k]}
<1>1. <<>> \in R
  <2>1. Tell(a, <<>>) = a
    BY FoldedEmpty DEF Tell
  <2>. QED BY <2>1, EmptySeq, KeysOfAre
<1>2. ASSUME NEW rsps \in Seq(Reports), NEW rsp \in Reports, rsps \in R PROVE Append(rsps, rsp) \in R
  <2> DEFINE more == Append(rsps, rsp)
             n == Len(rsps)
  <2>1. Tell(a, more) = At(told, Tell(a, rsps), rsp) /\ Tell(a, rsps) \in Copies
    BY FoldedAppend, FoldedType, ToldStep DEF Tell
  <2>2. Tell(a, more)[k] = IF k = key(rsp) THEN rsp.value ELSE Tell(a, rsps)[k]
    BY <2>1, ToldStep
  <2>3. KeysOf(more) = KeysOf(rsps) \cup {key(rsp)} /\ more \in Seq(Reports)
    BY KeysOfAre, AppendProperties
  <2>4. n \in Nat /\ Len(more) = n + 1 /\ more[n + 1] = rsp /\ \A i \in 1..n : more[i] = rsps[i]
    BY AppendProperties, LenProperties
  <2> HIDE DEF more
  <2>5. True(more) => True(rsps) /\ rsp.value = truth[key(rsp)]
    <3> HIDE DEF n
    <3>1. \A i \in 1..n : i \in 1..(n + 1)
      BY <2>4
    <3>2. n + 1 \in 1..(n + 1)
      BY <2>4
    <3>. QED BY <2>4, <3>1, <3>2 DEF n
  <2> HIDE DEF True, n
  <2>. QED BY <1>2, <2>2, <2>3, <2>5 DEF more
<1>3. \A rsps \in Seq(Reports) : rsps \in R
  <2> HIDE DEF R
  <2>. QED BY <1>1, <1>2, SequencesReached
<1>. QED BY <1>3

LEMMA TellConcat ==
    ASSUME NEW copy \in Copies, NEW s \in Seq(Reports), NEW t \in Seq(Reports)
    PROVE  Tell(copy, s \o t) = Tell(Tell(copy, s), t) /\ Tell(copy, s) \in Copies
BY FoldedConcat, FoldedType, ToldStep DEF Tell

-------------------------------------------------------------------------------
(***************************************************************************)
(* What is on its way to the client.                                       *)
(***************************************************************************)
Message == {data \in Seq(Byte) : for_each_response(data) \in Seq(Reports)}
reading == [data \in Message |-> for_each_response(data)]

LEMMA ReadingType == reading \in [Message -> Seq(Reports)]
BY DEF reading, Message

\* What the server writes of its variables is such a message.
LEMMA Written ==
    ASSUME NEW command \in {is, info}, NEW rsps \in Seq(Reports)
    PROVE  LET data == response_content(command, rsps) IN
           /\ data \in Message /\ data \in Seq(Byte)
           /\ for_each_response(data) = rsps /\ reading[data] = rsps
           /\ data # <<>> /\ data[1] = command /\ Head(data) = command
<1> DEFINE data == response_content(command, rsps)
<1>1. rsps \in Seq(NamedReports) /\ command \in Byte
  BY ReportFacts, SeqMonotonic, ByteFacts
<1>2. data \in Seq(Byte) /\ Head(data) = command /\ for_each_response(data) = rsps
  BY <1>1, ResponsesRead
<1>3. data = <<command>> \o FlattenSeq([i \in DOMAIN rsps |-> append_variable(rsps[i])])
  BY DEF response_content
<1>4. data # <<>> /\ data[1] = command
  <2>1. rsps \in Seq(response)
    BY <1>1, SeqMonotonic DEF NamedReports
  <2>2. data = <<command>> \o Spread(rsps, appended) /\ Spread(rsps, appended) \in Seq(Byte)
    BY <2>1, ResponseContentIs, AppendedType, SpreadType
  <2> DEFINE body == Spread(rsps, appended)
  <2> HIDE DEF data, body
  <2>3. <<command>> \in Seq(Byte) /\ body \in Seq(Byte) /\ data = <<command>> \o body
    BY <1>1, <2>2 DEF body
  <2>. QED BY <2>3
<1>5. data \in Message
  BY <1>2 DEF Message
<1>. QED BY <1>2, <1>4, <1>5 DEF reading

LEMMA MentionedIs ==
    ASSUME NEW data \in Message
    PROVE  Mentioned(data) = KeysOf(reading[data])
<1>1. reading[data] = for_each_response(data) /\ reading[data] \in Seq(Reports)
  BY ReadingType DEF reading
<1>2. DOMAIN reading[data] = 1..Len(reading[data])
  BY <1>1, LenProperties
<1>. QED BY <1>1, <1>2 DEF Mentioned, KeysOf, key

LEMMA ComingIs ==
    ASSUME NEW w \in Seq(Seq(Byte)),
           \A i \in 1..Len(w) : for_each_response(w[i]) \in Seq(Reports)
    PROVE  /\ w \in Seq(Message)
           /\ FlattenSeq([i \in DOMAIN w |-> Read[w[i]]]) = Spread(w, reading)
           /\ Spread(w, reading) \in Seq(Reports)
<1> DEFINE n == Len(w)
<1>1. n \in Nat /\ DOMAIN w = 1..n /\ \A i \in 1..n : w[i] \in Seq(Byte)
  BY LenProperties, ElementOfSeq
<1>2. \A i \in 1..n : w[i] \in Message
  BY <1>1 DEF Message
<1>3. w = [i \in 1..n |-> w[i]]
  BY LenProperties
<1>4. w \in Seq(Message)
  <2>1. [i \in 1..n |-> w[i]] \in Seq(Message)
    <3> HIDE DEF n
    <3>. QED BY <1>1, <1>2, IsASeq
  <2> HIDE DEF n
  <2>. QED BY <1>3, <2>1
<1>5. \A i \in DOMAIN w : Read[w[i]] = reading[w[i]]
  BY <1>1, <1>2 DEF Read, reading
<1>6. [i \in DOMAIN w |-> Read[w[i]]] = [i \in DOMAIN w |-> reading[w[i]]]
  BY <1>5
<1>7. FlattenSeq([i \in DOMAIN w |-> Read[w[i]]]) = Spread(w, reading)
  BY <1>6 DEF Spread
<1>8. Spread(w, reading) \in Seq(Reports)
  BY <1>4, ReadingType, SpreadType
<1>. QED BY <1>4, <1>7, <1>8

LEMMA MessagesReadable ==
    ASSUME NEW w \in Seq(Message)
    PROVE  /\ w \in Seq(Seq(Byte))
           /\ \A i \in 1..Len(w) : w[i] \in Message /\ for_each_response(w[i]) \in Seq(Reports)
<1>1. Message \subseteq Seq(Byte)
  BY DEF Message
<1>2. \A i \in 1..Len(w) : w[i] \in Message
  BY ElementOfSeq
<1>. QED BY <1>1, <1>2, SeqMonotonic DEF Message

\* Of several messages, what each of them mentions.
LEMMA SpreadKeys ==
    \A w \in Seq(Message) :
        KeysOf(Spread(w, reading)) = UNION {KeysOf(reading[w[i]]) : i \in 1..Len(w)}
<1> DEFINE All(w) == UNION {KeysOf(reading[w[i]]) : i \in 1..Len(w)}
           R == {w \in Seq(Message) : KeysOf(Spread(w, reading)) = All(w)}
<1>1. <<>> \in R
  <2>1. Spread(<<>>, reading) = <<>> /\ <<>> \in Seq(Message) /\ Len(<<>>) = 0
    BY SpreadEmpty, EmptySeq
  <2>2. 1..0 = {}
    BY SMT
  <2>3. All(<<>>) = {}
    BY <2>1, <2>2
  <2>. QED BY <2>1, <2>3, KeysOfAre
<1>2. ASSUME NEW w \in Seq(Message), NEW x \in Message, w \in R PROVE Append(w, x) \in R
  <2> DEFINE more == Append(w, x)
             n == Len(w)
  <2>1. n \in Nat /\ Len(more) = n + 1 /\ more[n + 1] = x /\ more \in Seq(Message)
        /\ \A i \in 1..n : more[i] = w[i]
    BY AppendProperties, LenProperties
  <2>2. Spread(more, reading) = Spread(w, reading) \o reading[x]
    BY ReadingType, SpreadAppend
  <2>3. Spread(w, reading) \in Seq(Reports) /\ reading[x] \in Seq(Reports)
    BY ReadingType, SpreadType
  <2>4. KeysOf(Spread(more, reading)) = All(w) \cup KeysOf(reading[x])
    BY <1>2, <2>2, <2>3, KeysOfAre
  <2>5. All(more) = All(w) \cup KeysOf(reading[x])
    <3> HIDE DEF more
    <3>1. \A i : i \in 1..(n + 1) <=> i \in 1..n \/ i = n + 1
      BY <2>1
    <3> HIDE DEF n
    <3>2. \A i \in 1..n : KeysOf(reading[more[i]]) = KeysOf(reading[w[i]])
      BY <2>1
    <3>3. KeysOf(reading[more[n + 1]]) = KeysOf(reading[x])
      BY <2>1
    <3>4. All(more) = UNION {KeysOf(reading[more[i]]) : i \in 1..(n + 1)}
      BY <2>1
    <3>5. All(w) = UNION {KeysOf(reading[w[i]]) : i \in 1..n}
      BY DEF n
    <3> HIDE DEF All
    <3>. QED BY <3>1, <3>2, <3>3, <3>4, <3>5
  <2>. QED BY <2>1, <2>4, <2>5
<1>3. \A w \in Seq(Message) : w \in R
  <2> HIDE DEF R
  <2>. QED BY <1>1, <1>2, SequencesReached
<1>. QED BY <1>3

LEMMA SpreadTail ==
    ASSUME NEW w \in Seq(Message), w # <<>>
    PROVE  /\ Head(w) \in Message /\ Tail(w) \in Seq(Message)
           /\ Spread(w, reading) = reading[Head(w)] \o Spread(Tail(w), reading)
           /\ reading[Head(w)] \in Seq(Reports) /\ Spread(Tail(w), reading) \in Seq(Reports)
<1> DEFINE x == Head(w)
           one == <<x>>
<1>1. x \in Message /\ Tail(w) \in Seq(Message)
  BY HeadTailProperties
<1>2. w = one \o Tail(w) /\ one \in Seq(Message)
  OBVIOUS
<1>3. one = Append(<<>>, x) /\ <<>> \in Seq(Message)
  BY <1>1, TupleFacts, EmptySeq
<1>4. reading[x] \in Seq(Reports) /\ Spread(Tail(w), reading) \in Seq(Reports)
  BY <1>1, ReadingType, SpreadType
<1>5. Spread(one, reading) = reading[x]
  <2>1. Spread(Append(<<>>, x), reading) = Spread(<<>>, reading) \o reading[x]
    BY <1>1, <1>3, ReadingType, SpreadAppend
  <2>2. Spread(<<>>, reading) = <<>>
    BY SpreadEmpty
  <2>. QED BY <1>3, <1>4, <2>1, <2>2, ConcatEmptySeq
<1> HIDE DEF one
<1>6. Spread(one \o Tail(w), reading) = Spread(one, reading) \o Spread(Tail(w), reading)
  BY <1>1, <1>2, ReadingType, SpreadConcat
<1>. QED BY <1>1, <1>2, <1>4, <1>5, <1>6

\* A copy that will be right, but for what is behind, when w has been read.
WillBeRight(w, copy, truth, late) ==
    \A k \in Keys \ late : Tell(copy, Spread(w, reading))[k] = truth[k]

\* The server writes the truth of some variables.
LEMMA WriteRight ==
    ASSUME NEW w \in Seq(Message), NEW data \in Message, NEW copy \in Copies,
           NEW before \in Copies, NEW truth \in Copies, NEW late, NEW later,
           WillBeRight(w, copy, before, late),
           \A i \in 1..Len(reading[data]) : reading[data][i].value = truth[key(reading[data][i])],
           \A k \in Keys : k \notin KeysOf(reading[data]) =>
               truth[k] = before[k] /\ (k \in late => k \in later)
    PROVE  WillBeRight(Append(w, data), copy, truth, later)
<1> DEFINE s == Spread(w, reading)
           t == reading[data]
<1>1. s \in Seq(Reports) /\ t \in Seq(Reports)
  BY ReadingType, SpreadType
<1>2. Spread(Append(w, data), reading) = s \o t
  BY ReadingType, SpreadAppend
<1>3. Tell(copy, s \o t) = Tell(Tell(copy, s), t) /\ Tell(copy, s) \in Copies
  BY <1>1, TellConcat
<1>4. ASSUME NEW k \in Keys \ later
      PROVE  Tell(copy, s \o t)[k] = truth[k]
  <2>1. k \in KeysOf(t) \/ Tell(copy, s)[k] = truth[k]
    BY <1>4 DEF WillBeRight
  <2> DEFINE c == Tell(copy, s)
  <2>2. \A i \in 1..Len(t) : t[i].value = truth[key(t[i])]
    OBVIOUS
  <2>3. c \in Copies /\ k \in Keys /\ (k \in KeysOf(t) \/ c[k] = truth[k])
    BY <1>3, <2>1
  <2> HIDE DEF s, t, c
  <2>4. Tell(c, t)[k] = truth[k]
    BY <1>1, <2>2, <2>3, ToldTrue
  <2>. QED BY <1>3, <2>4 DEF c
<1>. QED BY <1>2, <1>4 DEF WillBeRight

\* The client reads a message, and is told of it ...
LEMMA ReadRight ==
    ASSUME NEW w \in Seq(Message), w # <<>>, NEW copy \in Copies,
           NEW truth \in Copies, NEW late, WillBeRight(w, copy, truth, late)
    PROVE  WillBeRight(Tail(w), Tell(copy, reading[Head(w)]), truth, late)
<1> DEFINE s == reading[Head(w)]
           t == Spread(Tail(w), reading)
<1>1. s \in Seq(Reports) /\ t \in Seq(Reports) /\ Spread(w, reading) = s \o t
  BY SpreadTail
<1>2. Tell(copy, s \o t) = Tell(Tell(copy, s), t)
  BY <1>1, TellConcat
<1>. QED BY <1>1, <1>2 DEF WillBeRight

\* ... or drops it, and is behind in what nothing later mentions.
LEMMA DropRight ==
    ASSUME NEW w \in Seq(Message), w # <<>>, NEW copy \in Copies,
           NEW truth \in Copies, NEW late, WillBeRight(w, copy, truth, late)
    PROVE  WillBeRight(Tail(w), copy, truth,
               late \cup (KeysOf(reading[Head(w)]) \ KeysOf(Spread(Tail(w), reading))))
<1> DEFINE s == reading[Head(w)]
           t == Spread(Tail(w), reading)
<1>1. s \in Seq(Reports) /\ t \in Seq(Reports) /\ Spread(w, reading) = s \o t
  BY SpreadTail
<1>2. Tell(copy, s \o t) = Tell(Tell(copy, s), t) /\ Tell(copy, s) \in Copies
  BY <1>1, TellConcat
<1> HIDE DEF s, t
<1>3. ASSUME NEW k \in Keys \ (late \cup (KeysOf(s) \ KeysOf(t)))
      PROVE  Tell(copy, t)[k] = truth[k]
  <2>1. Tell(Tell(copy, s), t)[k] = truth[k]
    BY <1>1, <1>2, <1>3 DEF WillBeRight
  <2>2. k \in KeysOf(t) \/ Tell(copy, s)[k] = copy[k]
    BY <1>1, <1>3, FoldedTold
  <2>3. Tell(copy, t)[k] = Tell(Tell(copy, s), t)[k]
    BY <1>1, <1>2, <2>2, FoldedTold
  <2>. QED BY <2>1, <2>3
<1>. QED BY <1>3 DEF WillBeRight, s, t

\* The two invariants of the copy, in these terms.
LEMMA CopiedIs ==
    ASSUME content["client"] \in Seq(Seq(Byte))
    PROVE  /\ Readable => content["client"] \in Seq(Message)
           /\ Readable => (Copied <=> WillBeRight(content["client"], known, variables_, behind))
BY ComingIs DEF Readable, Copied, Coming, WillBeRight, Tell

LEMMA CopiedNext ==
    ASSUME content'["client"] \in Seq(Message),
           WillBeRight(content'["client"], known', variables_', behind')
    PROVE  Readable' /\ Copied'
<1>1. Readable'
  BY MessagesReadable DEF Readable
<1>2. /\ content'["client"] \in Seq(Seq(Byte))
      /\ \A i \in 1..Len(content'["client"]) : for_each_response(content'["client"][i]) \in Seq(Reports)
  BY MessagesReadable
<1>3. Copied'
  BY <1>2, ComingIs DEF Copied, Coming, WillBeRight, Tell
<1>. QED BY <1>1, <1>3

-------------------------------------------------------------------------------
(***************************************************************************)
(* The wires, and the negotiations on them.                                *)
(***************************************************************************)
Verb == {"will", "wont", "do", "dont"}
Element == Verb \cup {"sub"}

Mapped == [e \in Ends |-> Negotiations(e)]

Proved == INSTANCE OptionPairProofs WITH
    wire <- [e \in Ends |-> Negotiations(e)], Unchecked <- {}

LEMMA EndFacts ==
    /\ Ends = {"server", "client"} /\ Pair!Ends = Ends /\ Proved!Ends = Ends
    /\ "server" \in Ends /\ "client" \in Ends
    /\ Other("server") = "client" /\ Other("client") = "server"
    /\ \A e \in Ends : /\ Other(e) \in Ends /\ Other(e) # e
                       /\ Pair!Other(e) = Other(e) /\ Proved!Other(e) = Other(e)
                       /\ \A x \in Ends : x = e \/ x = Other(e)
BY DEF Ends, Pair!Ends, Proved!Ends, Other, Pair!Other, Proved!Other

LEMMA VerbFacts ==
    /\ Pair!negotiation_type = Verb /\ "sub" \notin Verb
    /\ \A e \in Ends :
          /\ Pair!local_positive(e) \in Verb /\ Pair!local_negative(e) \in Verb
          /\ Pair!remote_positive(e) \in Verb /\ Pair!remote_negative(e) \in Verb
          /\ Proved!local_positive(e) = Pair!local_positive(e)
          /\ Proved!local_negative(e) = Pair!local_negative(e)
          /\ Proved!remote_positive(e) = Pair!remote_positive(e)
          /\ Proved!remote_negative(e) = Pair!remote_negative(e)
          /\ Pair!Verbs(Other(e)) = {Pair!local_positive(e), Pair!local_negative(e)}
    /\ Pair!local_positive("server") = "will" /\ Pair!local_negative("server") = "wont"
    /\ Pair!local_positive("client") = "do" /\ Pair!local_negative("client") = "dont"
    /\ Pair!remote_positive("server") = "do" /\ Pair!remote_negative("server") = "dont"
    /\ Pair!remote_positive("client") = "will" /\ Pair!remote_negative("client") = "wont"
BY EndFacts DEF Pair!negotiation_type, Verb, Pair!Verbs,
    Pair!local_positive, Pair!local_negative, Pair!remote_positive, Pair!remote_negative,
    Proved!local_positive, Proved!local_negative, Proved!remote_positive, Proved!remote_negative

LEMMA TypeUnfolded ==
    ASSUME TypeOK
    PROVE  /\ state_ \in [Ends -> {"inactive", "activating", "active", "deactivating"}]
           /\ wire \in [Ends -> Seq(Element)]
           /\ content \in [Ends -> Seq(Seq(Byte))]
           /\ \A e \in Ends : Len(content[e]) = Len(Only(wire[e], {"sub"}))
           /\ variables_ \in Copies /\ known \in Copies
           /\ behind \subseteq Keys /\ awaited \in Nat
           /\ \A e \in Ends : wire[e] \in Seq(Pair!Verbs(e) \cup {"sub"})
BY EndFacts, VerbFacts DEF TypeOK, Pair!TypeOK, Pair!internal_state, Element

LEMMA MappedType ==
    ASSUME wire \in [Ends -> Seq(Element)]
    PROVE  /\ Mapped = [e \in Ends |-> Only(wire[e], Verb)]
           /\ \A e \in Ends : Mapped[e] = Only(wire[e], Verb) /\ Mapped[e] \in Seq(Verb)
<1>1. \A e \in Ends : Negotiations(e) = Only(wire[e], Verb)
  BY VerbFacts DEF Negotiations
<1>. QED BY <1>1, KeepType DEF Mapped

-------------------------------------------------------------------------------
\* What session::write, and reading, do to both.
LEMMA WriteFacts ==
    ASSUME wire \in [Ends -> Seq(Element)], NEW e \in Ends, NEW x \in Element, Pair!write(e, x)
    PROVE  /\ wire' \in [Ends -> Seq(Element)]
           /\ wire'[Other(e)] = Append(wire[Other(e)], x) /\ wire'[e] = wire[e]
           /\ x \in Verb => Proved!write(e, x)
           /\ x = "sub" => Mapped' = Mapped
<1>1. Other(e) \in Ends /\ Other(e) # e /\ \A y \in Ends : y = e \/ y = Other(e)
  BY EndFacts
<1>2. wire[Other(e)] \in Seq(Element) /\ Append(wire[Other(e)], x) \in Seq(Element)
  BY <1>1, AppendProperties
<1>3. wire' = [wire EXCEPT ![Other(e)] = Append(@, x)]
  BY EndFacts DEF Pair!write
<1>4. /\ wire' \in [Ends -> Seq(Element)]
      /\ wire'[Other(e)] = Append(wire[Other(e)], x) /\ wire'[e] = wire[e]
  BY <1>1, <1>2, <1>3
<1>5. /\ Mapped' = [y \in Ends |-> Only(wire'[y], Verb)]
      /\ Mapped = [y \in Ends |-> Only(wire[y], Verb)]
  BY VerbFacts DEF Mapped, Negotiations
<1>6. ASSUME x \in Verb PROVE Proved!write(e, x)
  <2>1. Only(wire'[Other(e)], Verb) = Append(Only(wire[Other(e)], Verb), x)
    <3> DEFINE w == wire[Other(e)]
    <3>1. w \in Seq(Element) /\ wire'[Other(e)] = Append(w, x)
      BY <1>2, <1>4
    <3> HIDE DEF w
    <3>2. Only(Append(w, x), Verb) = Append(Only(w, Verb), x)
      BY <1>6, <3>1, KeepAppend
    <3>. QED BY <3>1, <3>2 DEF w
  <2>2. Mapped' = [Mapped EXCEPT ![Other(e)] = Append(@, x)]
    BY <1>1, <1>4, <1>5, <2>1
  <2>. QED BY <2>2, EndFacts DEF Proved!write, Mapped
<1>7. ASSUME x = "sub" PROVE Mapped' = Mapped
  <2>1. Only(wire'[Other(e)], Verb) = Only(wire[Other(e)], Verb)
    BY <1>2, <1>4, <1>7, KeepAppend, VerbFacts
  <2>. QED BY <1>1, <1>4, <1>5, <2>1
<1>. QED BY <1>4, <1>6, <1>7

LEMMA ReadFacts ==
    ASSUME wire \in [Ends -> Seq(Element)], NEW e \in Ends, wire[e] # <<>>, Pair!read(e)
    PROVE  /\ wire' \in [Ends -> Seq(Element)]
           /\ wire'[Other(e)] = wire[Other(e)] /\ wire'[e] = Tail(wire[e])
           /\ Head(wire[e]) \in Verb => Proved!read(e)
           /\ Head(wire[e]) = "sub" => Mapped' = Mapped
<1>1. Other(e) \in Ends /\ Other(e) # e /\ \A y \in Ends : y = e \/ y = Other(e)
  BY EndFacts
<1>2. wire[e] \in Seq(Element) /\ Tail(wire[e]) \in Seq(Element)
  BY HeadTailProperties
<1>3. wire' = [wire EXCEPT ![e] = Tail(@)]
  BY DEF Pair!read
<1>4. /\ wire' \in [Ends -> Seq(Element)]
      /\ wire'[Other(e)] = wire[Other(e)] /\ wire'[e] = Tail(wire[e])
  BY <1>1, <1>2, <1>3
<1>5. /\ Mapped' = [y \in Ends |-> Only(wire'[y], Verb)]
      /\ Mapped = [y \in Ends |-> Only(wire[y], Verb)]
  BY VerbFacts DEF Mapped, Negotiations
<1>6. ASSUME Head(wire[e]) \in Verb PROVE Proved!read(e)
  <2>1. Only(wire'[e], Verb) = Tail(Only(wire[e], Verb))
    BY <1>2, <1>4, <1>6, KeepRead
  <2>2. Mapped' = [Mapped EXCEPT ![e] = Tail(@)]
    BY <1>1, <1>4, <1>5, <2>1
  <2>. QED BY <2>2 DEF Proved!read, Mapped
<1>7. ASSUME Head(wire[e]) = "sub" PROVE Mapped' = Mapped
  <2>1. Only(wire'[e], Verb) = Only(wire[e], Verb)
    BY <1>2, <1>4, <1>7, KeepRead, VerbFacts
  <2>. QED BY <1>1, <1>4, <1>5, <2>1
<1>. QED BY <1>4, <1>6, <1>7

LEMMA ReadAndWriteFacts ==
    ASSUME wire \in [Ends -> Seq(Element)], NEW e \in Ends, wire[e] # <<>>,
           NEW x \in Element, Pair!read_and_write(e, x)
    PROVE  /\ wire' \in [Ends -> Seq(Element)]
           /\ wire'[Other(e)] = Append(wire[Other(e)], x) /\ wire'[e] = Tail(wire[e])
           /\ Head(wire[e]) \in Verb /\ x \in Verb => Proved!read_and_write(e, x)
           /\ Head(wire[e]) = "sub" /\ x = "sub" => Mapped' = Mapped
<1>1. Other(e) \in Ends /\ Other(e) # e /\ \A y \in Ends : y = e \/ y = Other(e)
  BY EndFacts
<1>2. /\ wire[e] \in Seq(Element) /\ Tail(wire[e]) \in Seq(Element)
      /\ wire[Other(e)] \in Seq(Element) /\ Append(wire[Other(e)], x) \in Seq(Element)
  BY <1>1, AppendProperties, HeadTailProperties
<1>3. wire' = [wire EXCEPT ![e] = Tail(@), ![Other(e)] = Append(@, x)]
  BY EndFacts DEF Pair!read_and_write
<1>4. /\ wire' \in [Ends -> Seq(Element)]
      /\ wire'[Other(e)] = Append(wire[Other(e)], x) /\ wire'[e] = Tail(wire[e])
  BY <1>1, <1>2, <1>3
<1>5. /\ Mapped' = [y \in Ends |-> Only(wire'[y], Verb)]
      /\ Mapped = [y \in Ends |-> Only(wire[y], Verb)]
  BY VerbFacts DEF Mapped, Negotiations
<1>6. ASSUME Head(wire[e]) \in Verb, x \in Verb PROVE Proved!read_and_write(e, x)
  <2>1. Only(wire'[e], Verb) = Tail(Only(wire[e], Verb))
    BY <1>2, <1>4, <1>6, KeepRead
  <2>2. Only(wire'[Other(e)], Verb) = Append(Only(wire[Other(e)], Verb), x)
    BY <1>2, <1>4, <1>6, KeepAppend, ZenonT(40)
  <2>3. Mapped' = [Mapped EXCEPT ![e] = Tail(@), ![Other(e)] = Append(@, x)]
    BY <1>1, <1>4, <1>5, <2>1, <2>2
  <2>. QED BY <2>3, EndFacts DEF Proved!read_and_write, Mapped
<1>7. ASSUME Head(wire[e]) = "sub", x = "sub" PROVE Mapped' = Mapped
  <2>1. Only(wire'[e], Verb) = Only(wire[e], Verb)
    BY <1>2, <1>4, <1>7, KeepRead, VerbFacts
  <2>2. Only(wire'[Other(e)], Verb) = Only(wire[Other(e)], Verb)
    BY <1>2, <1>4, <1>7, KeepAppend, VerbFacts
  <2>. QED BY <1>1, <1>4, <1>5, <2>1, <2>2
<1>. QED BY <1>4, <1>6, <1>7

-------------------------------------------------------------------------------
(***************************************************************************)
(* The negotiations are an OptionPair.                                     *)
(***************************************************************************)
LEMMA ActivateImplements ==
    ASSUME wire \in [Ends -> Seq(Element)], NEW e \in Ends
    PROVE  /\ Pair!activate(e) => Proved!activate(e)
           /\ Pair!deactivate(e) => Proved!deactivate(e)
<1>1. Pair!local_positive(e) \in Verb /\ Pair!local_negative(e) \in Verb /\ Verb \subseteq Element
  BY VerbFacts DEF Element
<1>2. ASSUME Pair!activate(e) PROVE Proved!activate(e)
  <2>1. state_[e] = "inactive" /\ Pair!become(e, "activating") /\ Pair!write(e, Pair!local_positive(e))
    BY <1>2 DEF Pair!activate
  <2>2. Proved!write(e, Proved!local_positive(e))
    BY <1>1, <2>1, WriteFacts, VerbFacts
  <2>. QED BY <2>1, <2>2 DEF Proved!activate, Proved!become, Pair!become
<1>3. ASSUME Pair!deactivate(e) PROVE Proved!deactivate(e)
  <2>1. state_[e] = "active" /\ Pair!become(e, "deactivating") /\ Pair!write(e, Pair!local_negative(e))
    BY <1>3 DEF Pair!deactivate
  <2>2. Proved!write(e, Proved!local_negative(e))
    BY <1>1, <2>1, WriteFacts, VerbFacts
  <2>. QED BY <2>1, <2>2 DEF Proved!deactivate, Proved!become, Pair!become
<1>. QED BY <1>2, <1>3

LEMMA NegotiateImplements ==
    ASSUME wire \in [Ends -> Seq(Element)], NEW e \in Ends, Pair!negotiate(e)
    PROVE  Proved!negotiate(e)
<1>1. /\ Pair!local_positive(e) \in Verb /\ Pair!local_negative(e) \in Verb /\ Verb \subseteq Element
      /\ Pair!remote_positive(e) \in Verb /\ Pair!remote_negative(e) \in Verb
  BY VerbFacts DEF Element
<1>2. wire[e] # <<>> /\ wire[e] \in Seq(Element)
  BY DEF Pair!negotiate
<1>3. ASSUME Head(wire[e]) \in Verb
      PROVE  Mapped[e] # <<>> /\ Head(Mapped[e]) = Head(wire[e])
  BY <1>2, <1>3, KeepRead, MappedType
<1>4. CASE /\ Head(wire[e]) = Pair!remote_positive(e)
           /\ Pair!become(e, "active")
           /\ \/ ~Pair!requesting(e) /\ Pair!read_and_write(e, Pair!local_positive(e))
              \/ Pair!requesting(e) /\ Pair!read(e)
  <2>1. Mapped[e] # <<>> /\ Head(Mapped[e]) = Proved!remote_positive(e)
    BY <1>1, <1>3, <1>4, VerbFacts
  <2>2. \/ ~Proved!requesting(e) /\ Proved!read_and_write(e, Proved!local_positive(e))
        \/ Proved!requesting(e) /\ Proved!read(e)
    <3>1. CASE ~Pair!requesting(e) /\ Pair!read_and_write(e, Pair!local_positive(e))
      <4>1. Proved!read_and_write(e, Proved!local_positive(e))
        BY <1>1, <1>2, <1>4, <3>1, ReadAndWriteFacts, VerbFacts
      <4>. QED BY <3>1, <4>1 DEF Proved!requesting, Pair!requesting
    <3>2. CASE Pair!requesting(e) /\ Pair!read(e)
      <4>1. Proved!read(e)
        BY <1>1, <1>2, <1>4, <3>2, ReadFacts
      <4>. QED BY <3>2, <4>1 DEF Proved!requesting, Pair!requesting
    <3>. QED BY <1>4, <3>1, <3>2
  <2>3. Proved!become(e, "active")
    BY <1>4 DEF Proved!become, Pair!become
  <2>. QED BY <2>1, <2>2, <2>3 DEF Proved!negotiate, Mapped
<1>5. CASE /\ Head(wire[e]) = Pair!remote_negative(e)
           /\ Pair!become(e, "inactive")
           /\ \/ ~Pair!requesting(e) /\ Pair!read_and_write(e, Pair!local_negative(e))
              \/ Pair!requesting(e) /\ Pair!read(e)
  <2>1. Mapped[e] # <<>> /\ Head(Mapped[e]) = Proved!remote_negative(e)
    BY <1>1, <1>3, <1>5, VerbFacts
  <2>2. \/ ~Proved!requesting(e) /\ Proved!read_and_write(e, Proved!local_negative(e))
        \/ Proved!requesting(e) /\ Proved!read(e)
    <3>1. CASE ~Pair!requesting(e) /\ Pair!read_and_write(e, Pair!local_negative(e))
      <4>1. Proved!read_and_write(e, Proved!local_negative(e))
        BY <1>1, <1>2, <1>5, <3>1, ReadAndWriteFacts, VerbFacts
      <4>. QED BY <3>1, <4>1 DEF Proved!requesting, Pair!requesting
    <3>2. CASE Pair!requesting(e) /\ Pair!read(e)
      <4>1. Proved!read(e)
        BY <1>1, <1>2, <1>5, <3>2, ReadFacts
      <4>. QED BY <3>2, <4>1 DEF Proved!requesting, Pair!requesting
    <3>. QED BY <1>5, <3>1, <3>2
  <2>3. Proved!become(e, "inactive")
    BY <1>5 DEF Proved!become, Pair!become
  <2>. QED BY <2>1, <2>2, <2>3 DEF Proved!negotiate, Mapped
<1>. QED BY <1>4, <1>5 DEF Pair!negotiate

\* What the six steps that do not negotiate do to the negotiation.
LEMMA SubsImplement ==
    ASSUME wire \in [Ends -> Seq(Element)], NEW e \in Ends,
           \/ Pair!write_subnegotiation(e) \/ Pair!subnegotiate(e)
           \/ /\ wire[e] # <<>> /\ Head(wire[e]) = "sub"
              /\ Pair!read_and_write(e, "sub") /\ state_' = state_
    PROVE  state_' = state_ /\ Mapped' = Mapped
<1>1. "sub" \in Element
  BY DEF Element
<1>2. CASE Pair!write_subnegotiation(e)
  BY <1>1, <1>2, WriteFacts DEF Pair!write_subnegotiation
<1>3. CASE Pair!subnegotiate(e)
  BY <1>3, ReadFacts DEF Pair!subnegotiate
<1>4. CASE /\ wire[e] # <<>> /\ Head(wire[e]) = "sub"
           /\ Pair!read_and_write(e, "sub") /\ state_' = state_
  BY <1>1, <1>4, ReadAndWriteFacts
<1>. QED BY <1>2, <1>3, <1>4

LEMMA NextImplements ==
    wire \in [Ends -> Seq(Element)] /\ [Next]_vars => [Proved!Next]_(Proved!vars)
<1> SUFFICES ASSUME wire \in [Ends -> Seq(Element)], [Next]_vars PROVE [Proved!Next]_(Proved!vars)
  OBVIOUS
<1>0. wire \in [Ends -> Seq(Element)] /\ "server" \in Ends /\ "client" \in Ends
  BY EndFacts
<1>1. ASSUME state_' = state_ /\ Mapped' = Mapped PROVE UNCHANGED Proved!vars
  BY <1>1 DEF Proved!vars, Mapped
<1>2. CASE \E e \in Ends : activate(e) \/ deactivate(e) \/ negotiate(e)
  <2>1. PICK e \in Ends : Pair!activate(e) \/ Pair!deactivate(e) \/ Pair!negotiate(e)
    BY <1>2 DEF activate, deactivate, negotiate
  <2>2. Proved!activate(e) \/ Proved!deactivate(e) \/ Proved!negotiate(e)
    BY <1>0, <2>1, ActivateImplements, NegotiateImplements
  <2>. QED BY <2>2, EndFacts DEF Proved!Next
<1>3. ASSUME NEW k, NEW v, change(k, v) PROVE UNCHANGED Proved!vars
  <2>1. CASE active("server")
    <3>1. Pair!write_subnegotiation("server")
      BY <1>3, <2>1 DEF change, broadcast, write_subnegotiation
    <3>. QED BY <1>0, <1>1, <3>1, SubsImplement
  <2>2. CASE ~active("server")
    <3>1. UNCHANGED pair
      BY <1>3, <2>2 DEF change
    <3>. QED BY <1>1, <3>1 DEF pair, Mapped, Negotiations
  <2>. QED BY <2>1, <2>2
<1>4. CASE \E name \in Names :
             \/ \E v \in Values : set_variable(name, v) \/ set_user_variable(name, v)
             \/ delete_variable(name)
             \/ delete_user_variable(name)
  BY <1>3, <1>4 DEF set_variable, set_user_variable, delete_variable, delete_user_variable
<1>5. CASE \E reqs \in Queries : request_variables(reqs)
  <2>1. Pair!write_subnegotiation("client")
    BY <1>5 DEF request_variables, write_subnegotiation
  <2>. QED BY <1>0, <1>1, <2>1, SubsImplement
<1>6. CASE subnegotiate_server
  <2>1. CASE active("server")
    <3>1. /\ wire["server"] # <<>> /\ Head(wire["server"]) = "sub"
          /\ Pair!read_and_write("server", "sub") /\ state_' = state_
      BY <1>6, <2>1 DEF subnegotiate_server, answer
    <3>. QED BY <1>0, <1>1, <3>1, SubsImplement
  <2>2. CASE ~active("server")
    <3>1. Pair!subnegotiate("server")
      BY <1>6, <2>2 DEF subnegotiate_server
    <3>. QED BY <1>0, <1>1, <3>1, SubsImplement
  <2>. QED BY <2>1, <2>2
<1>7. CASE subnegotiate_client
  <2>1. Pair!subnegotiate("client")
    BY <1>7 DEF subnegotiate_client
  <2>. QED BY <1>0, <1>1, <2>1, SubsImplement
<1>8. CASE UNCHANGED vars
  BY <1>1, <1>8 DEF vars, Mapped, Negotiations
<1>. QED BY <1>2, <1>4, <1>5, <1>6, <1>7, <1>8 DEF Next

LEMMA InitImplements == Init => Proved!Init
<1> SUFFICES ASSUME Init PROVE Proved!Init
  OBVIOUS
<1>1. \A e \in Ends : Mapped[e] = <<>>
  <2>1. \A e \in Ends : wire[e] = <<>>
    BY EndFacts DEF Init, Pair!Init
  <2>. QED BY <2>1, ProjectEmpty DEF Mapped, Negotiations, Only
<1>2. Mapped = [e \in Ends |-> <<>>]
  BY <1>1 DEF Mapped
<1>. QED BY <1>2, EndFacts DEF Init, Pair!Init, Proved!Init, Mapped

-------------------------------------------------------------------------------
(***************************************************************************)
(* Only verbs and subnegotiations are on the wires, so that the            *)
(* negotiations of every behaviour are those of an OptionPair.             *)
(***************************************************************************)
Wired == wire \in [Ends -> Seq(Element)]

LEMMA InitWired == Init => Wired
<1> SUFFICES ASSUME Init PROVE Wired
  OBVIOUS
<1>1. wire = [e \in Ends |-> <<>>]
  BY EndFacts DEF Init, Pair!Init
<1>. QED BY <1>1, EmptySeq DEF Wired

LEMMA NextWired == Wired /\ [Next]_vars => Wired'
<1> SUFFICES ASSUME Wired, [Next]_vars PROVE Wired'
  OBVIOUS
<1>0. /\ wire \in [Ends -> Seq(Element)] /\ "server" \in Ends /\ "client" \in Ends
      /\ Verb \subseteq Element /\ "sub" \in Element
  BY EndFacts DEF Wired, Element
<1>1. ASSUME NEW e \in Ends, NEW x \in Element, Pair!write(e, x) PROVE Wired'
  BY <1>0, <1>1, WriteFacts DEF Wired
<1>2. ASSUME NEW e \in Ends, wire[e] # <<>>, Pair!read(e) PROVE Wired'
  BY <1>0, <1>2, ReadFacts DEF Wired
<1>3. ASSUME NEW e \in Ends, wire[e] # <<>>, NEW x \in Element, Pair!read_and_write(e, x)
      PROVE  Wired'
  BY <1>0, <1>3, ReadAndWriteFacts DEF Wired
<1>4. ASSUME NEW e \in Ends, Pair!write_subnegotiation(e) PROVE Wired'
  BY <1>0, <1>1, <1>4 DEF Pair!write_subnegotiation
<1>5. ASSUME NEW e \in Ends, Pair!subnegotiate(e) PROVE Wired'
  BY <1>2, <1>5 DEF Pair!subnegotiate
<1>6. CASE \E e \in Ends : activate(e) \/ deactivate(e) \/ negotiate(e)
  <2>1. PICK e \in Ends : Pair!activate(e) \/ Pair!deactivate(e) \/ Pair!negotiate(e)
    BY <1>6 DEF activate, deactivate, negotiate
  <2>2. Pair!local_positive(e) \in Element /\ Pair!local_negative(e) \in Element
    BY <1>0, VerbFacts
  <2>3. CASE Pair!activate(e) \/ Pair!deactivate(e)
    BY <1>1, <2>2, <2>3 DEF Pair!activate, Pair!deactivate
  <2>4. CASE Pair!negotiate(e)
    BY <1>2, <1>3, <2>2, <2>4 DEF Pair!negotiate
  <2>. QED BY <2>1, <2>3, <2>4
<1>7. ASSUME NEW k, NEW v, change(k, v) PROVE Wired'
  <2>1. CASE active("server")
    BY <1>0, <1>4, <1>7, <2>1 DEF change, broadcast, write_subnegotiation
  <2>2. CASE ~active("server")
    BY <1>7, <2>2 DEF change, pair, Wired
  <2>. QED BY <2>1, <2>2
<1>8. CASE \E name \in Names :
             \/ \E v \in Values : set_variable(name, v) \/ set_user_variable(name, v)
             \/ delete_variable(name)
             \/ delete_user_variable(name)
  BY <1>7, <1>8 DEF set_variable, set_user_variable, delete_variable, delete_user_variable
<1>9. CASE \E reqs \in Queries : request_variables(reqs)
  BY <1>0, <1>4, <1>9 DEF request_variables, write_subnegotiation
<1>10. CASE subnegotiate_server
  <2>1. CASE active("server")
    BY <1>0, <1>3, <1>10, <2>1 DEF subnegotiate_server, answer
  <2>2. CASE ~active("server")
    BY <1>0, <1>5, <1>10, <2>2 DEF subnegotiate_server
  <2>. QED BY <2>1, <2>2
<1>11. CASE subnegotiate_client
  BY <1>0, <1>5, <1>11 DEF subnegotiate_client
<1>12. CASE UNCHANGED vars
  BY <1>12 DEF vars, Wired
<1>. QED BY <1>6, <1>8, <1>9, <1>10, <1>11, <1>12 DEF Next

\* Seen without what is written between them, the negotiations of a NEW-ENVIRON
\* option are an OptionPair, whatever the two programs ask for and change.
THEOREM ImplementsOptionPair == Spec => Proved!Spec
<1>1. Init => Proved!Init /\ Wired
  BY InitImplements, InitWired
<1>2. Wired /\ [Next]_vars => Wired' /\ [Proved!Next]_(Proved!vars)
  BY NextImplements, NextWired DEF Wired
<1>. QED BY <1>1, <1>2, PTL DEF Spec, Proved!Spec

\* NewEnvironAssumption is what OptionPairProofs assumes of MaxWire.
LEMMA PhasesFollow == Spec => []Proved!Phases /\ []Proved!ConformingPeer
<1>1. Proved!Spec => []Proved!Phases
  BY NewEnvironAssumption, Proved!PhasesReached
<1>2. Proved!Spec => []Proved!ConformingPeer
  BY NewEnvironAssumption, Proved!ConformingPeerHolds
<1>. QED BY <1>1, <1>2, ImplementsOptionPair, PTL

-------------------------------------------------------------------------------
(***************************************************************************)
(* What the phases say of the two wires.                                   *)
(***************************************************************************)
Occurs(w, v) == \E i \in 1..Len(w) : w[i] = v

LEMMA OccursAppend ==
    ASSUME NEW S, NEW w \in Seq(S), NEW x \in S, NEW v
    PROVE  Occurs(Append(w, x), v) <=> Occurs(w, v) \/ v = x
<1> DEFINE more == Append(w, x)
           n == Len(w)
<1>1. n \in Nat /\ Len(more) = n + 1 /\ more[n + 1] = x /\ \A i \in 1..n : more[i] = w[i]
  BY AppendProperties, LenProperties
<1>2. \A i : i \in 1..(n + 1) <=> i \in 1..n \/ i = n + 1
  BY <1>1
<1> HIDE DEF more, n
<1>. QED BY <1>1, <1>2 DEF Occurs, n, more

\* A verb is on a wire when it is among its negotiations.
LEMMA OccursKept ==
    ASSUME NEW S, NEW keep, NEW v \in keep
    PROVE  \A w \in Seq(S) : Occurs(Only(w, keep), v) <=> Occurs(w, v)
<1> DEFINE R == {w \in Seq(S) : Occurs(Only(w, keep), v) <=> Occurs(w, v)}
<1>1. <<>> \in R
  <2>1. Only(<<>>, keep) = <<>> /\ <<>> \in Seq(S)
    BY ProjectEmpty, EmptySeq DEF Only
  <2>. QED BY <2>1
<1>2. ASSUME NEW w \in Seq(S), NEW x \in S, w \in R PROVE Append(w, x) \in R
  <2>1. Only(Append(w, x), keep) = IF x \in keep THEN Append(Only(w, keep), x) ELSE Only(w, keep)
    BY KeepAppend
  <2>2. Occurs(Append(w, x), v) <=> Occurs(w, v) \/ v = x
    BY OccursAppend
  <2>3. x \in keep => (Occurs(Append(Only(w, keep), x), v) <=> Occurs(Only(w, keep), v) \/ v = x)
    <3> DEFINE k == Only(w, keep)
    <3>1. k \in Seq(keep)
      BY KeepType
    <3> HIDE DEF k
    <3>2. x \in keep => (Occurs(Append(k, x), v) <=> Occurs(k, v) \/ v = x)
      BY <3>1, OccursAppend
    <3>. QED BY <3>2 DEF k
  <2>4. Append(w, x) \in Seq(S)
    BY AppendProperties
  <2>. QED BY <1>2, <2>1, <2>2, <2>3, <2>4
<1>3. \A w \in Seq(S) : w \in R
  <2> HIDE DEF R
  <2>. QED BY <1>1, <1>2, SequencesReached
<1>. QED BY <1>3

\* What the phases of the negotiation say of what the two ends have to read, when
\* the server is active, and when a client waits for one that is not.
LEMMA PhaseFacts ==
    ASSUME Proved!Phases, wire \in [Ends -> Seq(Element)]
    PROVE  /\ state_["server"] = "active" =>
                 /\ ~Occurs(wire["client"], "wont")
                 /\ state_["client"] # "inactive"
                 /\ state_["client"] = "activating" => Occurs(wire["client"], "will")
                 /\ state_["client"] \in {"activating", "active"} =>
                       \A v \in Verb : ~Occurs(wire["server"], v)
           /\ state_["client"] \in {"activating", "active"} /\ state_["server"] # "active" =>
                 \/ Occurs(wire["client"], "wont")
                 \/ \E v \in Verb : Occurs(wire["server"], v)
<1> DEFINE V == Mapped["server"]
           W == Mapped["client"]
<1>1. V \in Seq(Verb) /\ W \in Seq(Verb) /\ "server" \in Ends /\ "client" \in Ends
  BY MappedType, EndFacts
<1>2. \A v \in Verb : /\ Occurs(V, v) <=> Occurs(wire["server"], v)
                      /\ Occurs(W, v) <=> Occurs(wire["client"], v)
  BY OccursKept, MappedType, EndFacts
<1>3. /\ V = [e \in Ends |-> Negotiations(e)]["server"]
      /\ W = [e \in Ends |-> Negotiations(e)]["client"]
  BY DEF Mapped
<1>4. /\ "server" \in Proved!Ends /\ Proved!Other("server") = "client"
      /\ Proved!local_positive("server") = "will" /\ Proved!local_negative("server") = "wont"
      /\ Proved!local_positive("client") = "do" /\ Proved!local_negative("client") = "dont"
  BY EndFacts, VerbFacts
<1> HIDE DEF V, W
<1> DEFINE both == [e \in Ends |-> Negotiations(e)]
<1>5. ASSUME NEW e \in Proved!Ends, NEW o, o = Proved!Other(e)
      PROVE  /\ state_[e] = "active" =>
                   \/ state_[o] = "active" /\ Proved!Quiet(both[o]) /\ Proved!Quiet(both[e])
                   \/ /\ state_[o] = "activating"
                      /\ Proved!One(both[o], Proved!local_positive(e)) /\ Proved!Quiet(both[e])
                   \/ /\ state_[o] = "deactivating"
                      /\ Proved!Quiet(both[o]) /\ Proved!One(both[e], Proved!local_negative(o))
             /\ state_[e] = "activating" =>
                   \/ /\ state_[o] = "inactive"
                      /\ Proved!One(both[o], Proved!local_positive(e)) /\ Proved!Quiet(both[e])
                   \/ /\ state_[o] = "active"
                      /\ Proved!Quiet(both[o]) /\ Proved!One(both[e], Proved!local_positive(o))
                   \/ /\ state_[o] = "activating"
                      /\ Proved!One(both[o], Proved!local_positive(e))
                      /\ Proved!One(both[e], Proved!local_positive(o))
                   \/ /\ state_[o] = "deactivating"
                      /\ \/ /\ Proved!Two(both[o], Proved!local_negative(e), Proved!local_positive(e))
                            /\ Proved!Quiet(both[e])
                         \/ /\ Proved!Two(both[e], Proved!local_positive(o), Proved!local_negative(o))
                            /\ Proved!Quiet(both[o])
  BY <1>5, NewEnvironAssumption, Proved!PhaseOfState
<1> HIDE DEF both
<1>6. /\ "client" \in Proved!Ends /\ Proved!Other("client") = "server"
      /\ both["server"] = V /\ both["client"] = W
  BY <1>3, EndFacts DEF both
<1>7. state_["server"] = "active" =>
           \/ state_["client"] = "active" /\ Proved!Quiet(W) /\ Proved!Quiet(V)
           \/ /\ state_["client"] = "activating"
              /\ Proved!One(W, "will") /\ Proved!Quiet(V)
           \/ /\ state_["client"] = "deactivating"
              /\ Proved!Quiet(W) /\ Proved!One(V, "dont")
  BY <1>4, <1>5, <1>6
<1>8. state_["client"] = "activating" =>
           \/ state_["server"] = "active"
           \/ Proved!One(V, "do")
           \/ Proved!Two(V, "dont", "do")
           \/ Proved!Two(W, "will", "wont")
  BY <1>4, <1>5, <1>6
<1>9. state_["client"] = "active" =>
           \/ state_["server"] = "active"
           \/ Proved!One(V, "do")
           \/ Proved!One(W, "wont")
  BY <1>4, <1>5, <1>6
<1>10. ASSUME NEW w \in Seq(Verb), Proved!Quiet(w) PROVE \A v \in Verb : ~Occurs(w, v)
  BY <1>10, VerbFacts DEF Proved!Quiet, Occurs
<1>11. ASSUME NEW w \in Seq(Verb), NEW v, Proved!One(w, v) PROVE Occurs(w, v)
  BY <1>11 DEF Proved!One, Occurs
<1>12. ASSUME NEW w \in Seq(Verb), NEW v, NEW u, Proved!Two(w, u, v)
      PROVE  Occurs(w, v) /\ Occurs(w, u)
  BY <1>12 DEF Proved!Two, Occurs
<1>13. ASSUME Proved!One(W, "will") PROVE ~Occurs(W, "wont")
  <2>1. PICK k \in 1..Len(W) : W[k] = "will" /\ \A i \in 1..Len(W) : i # k => W[i] = "sub"
    BY <1>13 DEF Proved!One
  <2>. QED BY <2>1 DEF Occurs
<1>14. "will" \in Verb /\ "wont" \in Verb /\ "do" \in Verb /\ "dont" \in Verb
  BY DEF Verb
<1>15. CASE state_["server"] = "active"
  BY <1>1, <1>2, <1>7, <1>10, <1>11, <1>13, <1>14, <1>15
<1>16. CASE state_["server"] # "active"
  BY <1>1, <1>2, <1>8, <1>9, <1>11, <1>12, <1>14, <1>16
<1>. QED BY <1>15, <1>16

\* What the client has to read agrees with its state.
LEMMA ConformingFacts ==
    ASSUME Proved!ConformingPeer, wire \in [Ends -> Seq(Element)], wire["client"] # <<>>
    PROVE  /\ Head(wire["client"]) = "will" => state_["client"] \in {"inactive", "activating"}
           /\ Head(wire["client"]) = "wont" => state_["client"] \in {"active", "deactivating"}
<1>1. "client" \in Ends /\ wire["client"] \in Seq(Element) /\ "client" \in Proved!Ends
  BY EndFacts
<1>2. Head(wire["client"]) \in Verb =>
         Mapped["client"] # <<>> /\ Head(Mapped["client"]) = Head(wire["client"])
  BY <1>1, KeepRead, MappedType
<1>3. Mapped["client"] # <<>> =>
         /\ Head(Mapped["client"]) = "will" => state_["client"] \in {"inactive", "activating"}
         /\ Head(Mapped["client"]) = "wont" => state_["client"] \in {"active", "deactivating"}
  BY <1>1, VerbFacts DEF Proved!ConformingPeer, Mapped
<1>4. "will" \in Verb /\ "wont" \in Verb
  BY DEF Verb
<1>. QED BY <1>2, <1>3, <1>4

-------------------------------------------------------------------------------
(***************************************************************************)
(* Requests, and what the server answers.                                  *)
(***************************************************************************)
LEMMA KeyMembers ==
    ASSUME NEW k \in Keys
    PROVE  k.type \in variable_type /\ k.name \in Seq(Byte)
BY NewEnvironAssumption DEF Keys

LEMMA RequestContentType ==
    ASSUME NEW reqs \in Queries
    PROVE  request_content(reqs) \in Seq(Byte)
<1> DEFINE requested == [k \in Keys |-> <<type_to_byte(k.type)>> \o append_escaped(k.name)]
           body == FlattenSeq([i \in DOMAIN reqs |->
                       <<type_to_byte(reqs[i].type)>> \o append_escaped(reqs[i].name)])
<1>1. reqs \in Seq(Keys)
  BY NewEnvironAssumption DEF Keys
<1>2. requested \in [Keys -> Seq(Byte)]
  <2>1. ASSUME NEW k \in Keys
        PROVE  <<type_to_byte(k.type)>> \o append_escaped(k.name) \in Seq(Byte)
    <3> DEFINE by == type_to_byte(k.type)
               s == append_escaped(k.name)
    <3>1. by \in Byte /\ s \in Seq(Byte)
      BY <2>1, KeyMembers, TypesAreBytes, EscapedAre
    <3> HIDE DEF by, s
    <3>2. <<by>> \in Seq(Byte)
      BY <3>1
    <3>3. <<by>> \o s \in Seq(Byte)
      BY <3>1, <3>2, ConcatProperties
    <3>. QED BY <3>3 DEF by, s
  <2>. QED BY <2>1
<1>3. \A i \in DOMAIN reqs : reqs[i] \in Keys
  BY <1>1, LenProperties, ElementOfSeq
<1>4. body = Spread(reqs, requested)
  <2>1. [i \in DOMAIN reqs |-> <<type_to_byte(reqs[i].type)>> \o append_escaped(reqs[i].name)]
          = [i \in DOMAIN reqs |-> requested[reqs[i]]]
    BY <1>3
  <2>. QED BY <2>1 DEF Spread
<1> HIDE DEF requested, body
<1>5. body \in Seq(Byte)
  BY <1>1, <1>2, <1>4, SpreadType
<1>6. <<send>> \in Seq(Byte)
  <2>1. send \in Byte
    BY ByteFacts
  <2>. QED BY <2>1
<1>7. <<send>> \o body \in Seq(Byte)
  BY <1>5, <1>6, ConcatProperties
<1>. QED BY <1>7 DEF request_content, body

LEMMA RequestStep == Steps(request_step, request_parser, Byte)
<1>1. ASSUME NEW p \in request_parser, NEW by \in Byte
      PROVE  request_step[<<p, by>>] = parse_request_byte(p, by)
  <2>1. <<p, by>> \in request_parser \X Byte /\ <<p, by>>[1] = p /\ <<p, by>>[2] = by
    OBVIOUS
  <2>. QED BY <2>1 DEF request_step
<1>2. ASSUME NEW p \in request_parser, NEW by \in Byte
      PROVE  parse_request_byte(p, by) \in request_parser
  <2>1. /\ p.state \in {"send", "type", "name", "name_esc"} /\ p.req \in request
        /\ p.out \in Seq(request) /\ p = [state |-> p.state, req |-> p.req, out |-> p.out]
    BY DEF request_parser
  <2>2. p.req.type \in variable_type /\ p.req.name \in Seq(Byte)
        /\ p.req = [type |-> p.req.type, name |-> p.req.name]
    BY <2>1 DEF request
  <2>3. /\ Append(p.req.name, by) \in Seq(Byte) /\ Append(p.out, p.req) \in Seq(request)
        /\ byte_to_type(by) \in variable_type /\ <<>> \in Seq(Byte)
    BY <2>1, <2>2, AppendProperties, EmptySeq DEF byte_to_type, variable_type
  <2>4. parse_request_send(p, by) \in request_parser
    BY <2>1 DEF parse_request_send, request_parser
  <2>5. parse_request_type(p, by) \in request_parser
    BY <2>1, <2>2, <2>3 DEF parse_request_type, request_parser, request
  <2>6. parse_request_name_esc(p, by) \in request_parser
    BY <2>1, <2>2, <2>3 DEF parse_request_name_esc, request_parser, request
  <2>7. parse_request_name(p, by) \in request_parser
    <3>1. CASE by = esc
      BY <2>1, <3>1, ByteFacts DEF parse_request_name, request_parser
    <3>2. CASE by \in {var, uservar}
      <4>1. parse_request_name(p, by) =
               [p EXCEPT !.out = Append(@, p.req),
                         !.req = [fresh_request EXCEPT !.type = byte_to_type(by)]]
        BY <3>2, ByteFacts DEF parse_request_name
      <4>2. [fresh_request EXCEPT !.type = byte_to_type(by)] \in request
        BY <2>3 DEF fresh_request, request
      <4>. QED BY <2>1, <2>3, <4>1, <4>2 DEF request_parser
    <3>3. CASE by \notin {esc, var, uservar}
      BY <2>1, <2>2, <2>3, <3>3 DEF parse_request_name, request_parser, request
    <3>. QED BY <3>1, <3>2, <3>3
  <2>. QED BY <2>1, <2>4, <2>5, <2>6, <2>7 DEF parse_request_byte
<1>. QED BY <1>1, <1>2 DEF Steps

LEMMA RequestsType ==
    ASSUME NEW data \in Seq(Byte)
    PROVE  for_each_request(data) \in Seq(request)
<1> DEFINE p == Folded(request_step, request_parsing_state, data)
<1>1. request_parsing_state \in request_parser
  BY EmptySeq DEF request_parsing_state, request_parser, fresh_request, request, variable_type
<1>2. p \in request_parser
  BY <1>1, RequestStep, FoldedType
<1> HIDE DEF p
<1>3. p.req \in request /\ p.out \in Seq(request)
  BY <1>2 DEF request_parser
<1>4. Append(p.out, p.req) \in Seq(request)
  BY <1>3, AppendProperties
<1>5. parse_request_end(p).out \in Seq(request)
  BY <1>2, <1>3, <1>4 DEF parse_request_end, request_parser
<1>. QED BY <1>5 DEF for_each_request, p

\* The variables of a finite set, one after the other.
LEMMA SetToSeqType ==
    ASSUME NEW S, IsFiniteSet(S)
    PROVE  SetToSeq(S) \in Seq(S)
<1> DEFINE n == Cardinality(S)
<1>1. n \in Nat /\ ExistsBijection(1..n, S)
  BY FS_CardinalityType
<1>2. PICK f \in [1..n -> S] : IsInjective(f)
  BY <1>1 DEF ExistsBijection, Bijection, Injection
<1>3. SetToSeq(S) \in [1..n -> S]
  BY <1>2 DEF SetToSeq
<1>. QED BY <1>1, <1>3

LEMMA ResponsesAre ==
    ASSUME FinitelyMany, variables_ \in Copies, NEW data \in Seq(Byte)
    PROVE  /\ responses(data) \in Seq(Reports)
           /\ \A i \in 1..Len(responses(data)) :
                 responses(data)[i].value = variables_[key(responses(data)[i])]
<1> DEFINE there == {k \in Keys : variables_[k] # <<>>}
           keys == IF Len(data) = 1 THEN AllHeld ELSE Held(for_each_request(data))
           n == Len(keys)
<1>1. AllHeld \in Seq(Keys)
  <2> DEFINE some(type) == {k \in Keys : k.type = type /\ variables_[k] # <<>>}
  <2>1. ASSUME NEW type PROVE SetToSeq(some(type)) \in Seq(Keys)
    <3>1. some(type) \in SUBSET there /\ IsFiniteSet(there)
      BY DEF FinitelyMany
    <3>2. IsFiniteSet(some(type))
      <4> HIDE DEF some, there
      <4>. QED BY <3>1, FS_Subset
    <3>3. SetToSeq(some(type)) \in Seq(some(type)) /\ some(type) \subseteq Keys
      BY <3>2, SetToSeqType
    <3> HIDE DEF some
    <3>. QED BY <3>3, SeqMonotonic
  <2>2. AllHeld = SetToSeq(some("var")) \o SetToSeq(some("uservar"))
    BY DEF AllHeld
  <2> HIDE DEF some
  <2>. QED BY <2>1, <2>2, ConcatProperties
<1>2. Held(for_each_request(data)) \in Seq(Keys)
  <2>1. Held(for_each_request(data)) \in Seq(there)
    BY RequestsType, KeepType DEF Held
  <2>2. there \subseteq Keys
    OBVIOUS
  <2> HIDE DEF there
  <2>. QED BY <2>1, <2>2, SeqMonotonic
<1>3. keys \in Seq(Keys)
  BY <1>1, <1>2
<1>4. responses(data) = [i \in DOMAIN keys |-> with_value(keys[i], variables_[keys[i]])]
  BY DEF responses
<1> HIDE DEF keys
<1>5. n \in Nat /\ DOMAIN keys = 1..n /\ \A i \in 1..n : keys[i] \in Keys
  BY <1>3, LenProperties, ElementOfSeq
<1>6. \A i \in 1..n : variables_[keys[i]] \in Optional
  BY <1>5 DEF Copies
<1>7. \A i \in 1..n : /\ with_value(keys[i], variables_[keys[i]]) \in Reports
                      /\ key(with_value(keys[i], variables_[keys[i]])) = keys[i]
                      /\ with_value(keys[i], variables_[keys[i]]).value = variables_[keys[i]]
  BY <1>5, <1>6, ReportFacts
<1> DEFINE rsps == [i \in 1..n |-> with_value(keys[i], variables_[keys[i]])]
<1>8. rsps \in Seq(Reports) /\ Len(rsps) = n
  <2> HIDE DEF n
  <2>1. rsps \in Seq(Reports)
    BY <1>5, <1>7, IsASeq
  <2>. QED BY <1>5, <2>1, LenProperties
<1>9. \A i \in 1..n : rsps[i].value = variables_[key(rsps[i])]
  BY <1>7
<1>10. responses(data) = rsps
  BY <1>4, <1>5
<1> HIDE DEF rsps
<1>. QED BY <1>8, <1>9, <1>10

-------------------------------------------------------------------------------
(***************************************************************************)
(* The copy, step by step.                                                 *)
(***************************************************************************)
Kept ==
    /\ variables_ \in Copies /\ known \in Copies /\ behind \subseteq Keys
    /\ Readable /\ Copied /\ FinitelyMany

ToClient == content["client"]

LEMMA KeptIs ==
    ASSUME Kept, ToClient \in Seq(Seq(Byte))
    PROVE  ToClient \in Seq(Message) /\ WillBeRight(ToClient, known, variables_, behind)
BY CopiedIs DEF Kept, ToClient

\* Nothing happens to the copy, nor to what it is a copy of.
LEMMA SameKept ==
    ASSUME Kept, ToClient \in Seq(Seq(Byte)), ToClient' = ToClient,
           UNCHANGED <<variables_, known, behind>>
    PROVE  Kept'
<1>1. content'["client"] = ToClient
  BY DEF ToClient
<1>2. content'["client"] \in Seq(Message) /\ WillBeRight(content'["client"], known', variables_', behind')
  BY <1>1, KeptIs
<1>3. Readable' /\ Copied'
  BY <1>2, CopiedNext
<1>. QED BY <1>3 DEF Kept, FinitelyMany

\* One variable more or less, or with another value.
LEMMA ChangeFacts ==
    ASSUME variables_ \in Copies, FinitelyMany, NEW k \in Keys, NEW v \in Optional,
           variables_' = [variables_ EXCEPT ![k] = v]
    PROVE  /\ variables_' \in Copies /\ FinitelyMany'
           /\ variables_'[k] = v /\ \A x \in Keys : x # k => variables_'[x] = variables_[x]
<1> DEFINE there == {x \in Keys : variables_[x] # <<>>}
           next == {x \in Keys : variables_'[x] # <<>>}
<1>1. /\ variables_' \in Copies /\ variables_'[k] = v
      /\ \A x \in Keys : x # k => variables_'[x] = variables_[x]
  BY DEF Copies
<1>2. next \in SUBSET (there \cup {k})
  BY <1>1
<1>3. IsFiniteSet(there)
  BY DEF FinitelyMany
<1> HIDE DEF there, next
<1>4. IsFiniteSet(there \cup {k})
  BY <1>3, FS_AddElement
<1>5. IsFiniteSet(next)
  BY <1>2, <1>4, FS_Subset
<1>. QED BY <1>1, <1>5 DEF FinitelyMany, next

LEMMA BroadcastKept ==
    ASSUME Kept, ToClient \in Seq(Seq(Byte)), NEW k \in Keys, NEW v \in Optional,
           variables_' = [variables_ EXCEPT ![k] = v],
           ToClient' = Append(ToClient, response_content(info, <<with_value(k, v)>>)),
           behind' = behind \ {k}, known' = known
    PROVE  Kept'
<1> DEFINE rsp == with_value(k, v)
           rsps == <<rsp>>
           data == response_content(info, rsps)
<1>1. rsp \in Reports /\ key(rsp) = k /\ rsp.value = v
  BY ReportFacts
<1>2. rsps \in Seq(Reports) /\ Len(rsps) = 1 /\ rsps[1] = rsp
  <2> HIDE DEF rsp
  <2>. QED BY <1>1
<1> HIDE DEF rsp, rsps
<1>3. data \in Message /\ reading[data] = rsps
  BY <1>2, Written
<1>4. variables_ \in Copies /\ FinitelyMany
  BY DEF Kept
<1>5. /\ variables_' \in Copies /\ FinitelyMany' /\ variables_'[k] = v
      /\ \A x \in Keys : x # k => variables_'[x] = variables_[x]
  BY <1>4, ChangeFacts
<1>6. KeysOf(rsps) = {k}
  BY <1>1, <1>2 DEF KeysOf
<1>7. \A i \in 1..Len(rsps) : rsps[i].value = variables_'[key(rsps[i])]
  BY <1>1, <1>2, <1>5
<1>8. content'["client"] = Append(ToClient, data)
  BY DEF ToClient, rsps, rsp
<1> HIDE DEF data
<1>9. ToClient \in Seq(Message) /\ WillBeRight(ToClient, known, variables_, behind)
  BY KeptIs
<1>10. Append(ToClient, data) \in Seq(Message)
  BY <1>3, <1>9, AppendProperties
<1> DEFINE truth == variables_'
           later == behind'
<1>11. truth \in Copies /\ known \in Copies
  BY <1>5 DEF Kept
<1>12. /\ \A i \in 1..Len(reading[data]) : reading[data][i].value = truth[key(reading[data][i])]
       /\ \A x \in Keys : x \notin KeysOf(reading[data]) =>
             truth[x] = variables_[x] /\ (x \in behind => x \in later)
  BY <1>3, <1>5, <1>6, <1>7
<1> HIDE DEF truth, later
<1>13. WillBeRight(Append(ToClient, data), known, truth, later)
  BY <1>3, <1>4, <1>9, <1>11, <1>12, WriteRight
<1>14. Readable' /\ Copied'
  BY <1>8, <1>10, <1>13, CopiedNext DEF truth, later
<1>. QED BY <1>5, <1>14 DEF Kept

LEMMA SilentKept ==
    ASSUME Kept, ToClient \in Seq(Seq(Byte)), NEW k \in Keys, NEW v \in Optional,
           variables_' = [variables_ EXCEPT ![k] = v], ToClient' = ToClient,
           behind' = IF v = variables_[k] THEN behind ELSE behind \cup {k}, known' = known
    PROVE  Kept'
<1>1. variables_ \in Copies /\ FinitelyMany
  BY DEF Kept
<1>2. /\ variables_' \in Copies /\ FinitelyMany' /\ variables_'[k] = v
      /\ \A x \in Keys : x # k => variables_'[x] = variables_[x]
  BY <1>1, ChangeFacts
<1>3. ToClient \in Seq(Message) /\ WillBeRight(ToClient, known, variables_, behind)
  BY KeptIs
<1>4. \A x \in Keys \ behind' : x \in Keys \ behind /\ variables_'[x] = variables_[x]
  BY <1>2
<1>5. content'["client"] = ToClient
  BY DEF ToClient
<1>6. WillBeRight(content'["client"], known', variables_', behind')
  BY <1>3, <1>4, <1>5 DEF WillBeRight
<1>7. Readable' /\ Copied'
  BY <1>3, <1>5, <1>6, CopiedNext
<1>. QED BY <1>2, <1>7 DEF Kept

LEMMA AnswerKept ==
    ASSUME Kept, ToClient \in Seq(Seq(Byte)), NEW rsps \in Seq(Reports),
           \A i \in 1..Len(rsps) : rsps[i].value = variables_[key(rsps[i])],
           ToClient' = Append(ToClient, response_content(is, rsps)),
           behind' = behind \ KeysOf(rsps), UNCHANGED <<variables_, known>>
    PROVE  Kept'
<1> DEFINE data == response_content(is, rsps)
           later == behind \ KeysOf(rsps)
<1>1. data \in Message /\ reading[data] = rsps
  BY Written
<1>2. content'["client"] = Append(ToClient, data)
  BY DEF ToClient
<1> HIDE DEF data
<1>3. ToClient \in Seq(Message) /\ WillBeRight(ToClient, known, variables_, behind)
  BY KeptIs
<1>4. Append(ToClient, data) \in Seq(Message)
  BY <1>1, <1>3, AppendProperties
<1>5. variables_ \in Copies /\ known \in Copies
  BY DEF Kept
<1>6. /\ \A i \in 1..Len(reading[data]) : reading[data][i].value = variables_[key(reading[data][i])]
      /\ \A x \in Keys : x \notin KeysOf(reading[data]) =>
            variables_[x] = variables_[x] /\ (x \in behind => x \in later)
  BY <1>1
<1> HIDE DEF later
<1>7. WillBeRight(Append(ToClient, data), known, variables_, later)
  BY <1>1, <1>3, <1>5, <1>6, WriteRight
<1>8. Readable' /\ Copied'
  BY <1>2, <1>4, <1>7, CopiedNext DEF later
<1>. QED BY <1>8 DEF Kept, FinitelyMany

LEMMA ReadKept ==
    ASSUME Kept, ToClient \in Seq(Seq(Byte)), ToClient # <<>>, ToClient' = Tail(ToClient),
           UNCHANGED <<variables_, behind>>,
           known' = Tell(known, for_each_response(Head(ToClient)))
    PROVE  Kept'
<1>1. /\ ToClient \in Seq(Message) /\ WillBeRight(ToClient, known, variables_, behind)
      /\ variables_ \in Copies /\ known \in Copies
  BY KeptIs DEF Kept
<1>2. Head(ToClient) \in Message /\ Tail(ToClient) \in Seq(Message)
  BY <1>1, HeadTailProperties
<1>3. for_each_response(Head(ToClient)) = reading[Head(ToClient)]
  BY <1>2 DEF reading
<1>4. reading[Head(ToClient)] \in Seq(Reports)
  BY <1>2, ReadingType
<1>5. known' \in Copies
  BY <1>1, <1>3, <1>4, FoldedType, ToldStep DEF Tell
<1>6. WillBeRight(Tail(ToClient), Tell(known, reading[Head(ToClient)]), variables_, behind)
  BY <1>1, ReadRight
<1>7. content'["client"] = Tail(ToClient)
  BY DEF ToClient
<1>8. Readable' /\ Copied'
  BY <1>2, <1>3, <1>6, <1>7, CopiedNext
<1>. QED BY <1>5, <1>8 DEF Kept, FinitelyMany

LEMMA DropKept ==
    ASSUME Kept, ToClient \in Seq(Seq(Byte)), ToClient # <<>>, ToClient' = Tail(ToClient),
           UNCHANGED <<variables_, known>>,
           behind' = behind \cup (Mentioned(Head(ToClient)) \ MentionedLater)
    PROVE  Kept'
<1>1. /\ ToClient \in Seq(Message) /\ WillBeRight(ToClient, known, variables_, behind)
      /\ variables_ \in Copies /\ known \in Copies /\ behind \subseteq Keys
  BY KeptIs DEF Kept
<1> DEFINE h == Head(ToClient)
           t == Tail(ToClient)
           n == Len(ToClient)
<1>2. h \in Message /\ t \in Seq(Message) /\ n \in Nat /\ Len(t) = n - 1
      /\ \A i \in 1..(n - 1) : t[i] = ToClient[i + 1]
  BY <1>1, HeadTailProperties, LenProperties, EmptySeq
<1>3. Mentioned(h) = KeysOf(reading[h]) /\ reading[h] \in Seq(Reports)
  BY <1>2, MentionedIs, ReadingType
<1>4. MentionedLater = KeysOf(Spread(t, reading))
  <2>1. KeysOf(Spread(t, reading)) = UNION {KeysOf(reading[t[i]]) : i \in 1..Len(t)}
    BY <1>2, SpreadKeys
  <2>2. \A i \in 2..n : ToClient[i] \in Message /\ Mentioned(ToClient[i]) = KeysOf(reading[ToClient[i]])
    BY <1>1, ElementOfSeq, MentionedIs
  <2>3. MentionedLater = UNION {KeysOf(reading[ToClient[i]]) : i \in 2..n}
    BY <2>2 DEF MentionedLater, ToClient
  <2>4. \A i \in 2..n : i - 1 \in 1..(n - 1) /\ t[i - 1] = ToClient[i]
    BY <1>2
  <2>5. \A i \in 1..(n - 1) : i + 1 \in 2..n /\ t[i] = ToClient[i + 1]
    BY <1>2
  <2> HIDE DEF t, n
  <2>6. {KeysOf(reading[ToClient[i]]) : i \in 2..n} = {KeysOf(reading[t[i]]) : i \in 1..(n - 1)}
    BY <2>4, <2>5, ZenonT(40)
  <2>. QED BY <1>2, <2>1, <2>3, <2>6
<1>5. WillBeRight(t, known, variables_, behind \cup (KeysOf(reading[h]) \ KeysOf(Spread(t, reading))))
  BY <1>1, DropRight
<1>6. content'["client"] = t
  BY DEF ToClient
<1>7. behind' = behind \cup (KeysOf(reading[h]) \ KeysOf(Spread(t, reading)))
  BY <1>3, <1>4
<1>8. behind' \subseteq Keys
  <2>1. \A i \in 1..Len(reading[h]) : key(reading[h][i]) \in Keys
    BY <1>3, ElementOfSeq, ReportFacts
  <2>2. KeysOf(reading[h]) \subseteq Keys
    BY <2>1 DEF KeysOf
  <2>. QED BY <1>1, <1>7, <2>2
<1> HIDE DEF h, t
<1>9. Readable' /\ Copied'
  BY <1>2, <1>5, <1>6, <1>7, CopiedNext
<1>. QED BY <1>8, <1>9 DEF Kept, FinitelyMany

-------------------------------------------------------------------------------
(***************************************************************************)
(* InOrder and Awaiting, of any wires: V and W are what server and client  *)
(* have to read, C the content of what is written on W, s the state of the *)
(* client and n what it awaits.                                            *)
(***************************************************************************)
Ordered(s, W, C) ==
    /\ \A i, j \in 1..Len(W) : i < j /\ W[i] = "wont" => W[j] # "sub"
    /\ s = "inactive" => C = <<>>
    /\ s = "activating" /\ W # <<>> => Head(W) # "sub"

IsAnswer == {data \in Seq(Byte) : Head(data) = is}
AnswersIn(C) == Len(Only(C, IsAnswer))

Awaits(s, V, W, C, n) ==
    IF s \in {"inactive", "deactivating"} THEN n = 0
    ELSE IF Occurs(W, "wont") THEN n >= AnswersIn(C)
    ELSE \E m \in 0..Len(V) : Requested(V, m) /\ n = AnswersIn(C) + m

\* C is the content of the subnegotiations on W.
Filled(W, C) ==
    /\ W \in Seq(Element) /\ C \in Seq(Seq(Byte))
    /\ Len(C) = Len(Only(W, {"sub"}))

LEMMA FilledSubs ==
    ASSUME NEW W, NEW C, Filled(W, C)
    PROVE  C = <<>> <=> ~Occurs(W, "sub")
<1> DEFINE k == Only(W, {"sub"})
<1>1. k \in Seq({"sub"}) /\ (Occurs(k, "sub") <=> Occurs(W, "sub"))
  BY KeepType, OccursKept DEF Filled
<1>2. C \in Seq(Seq(Byte)) /\ Len(C) = Len(k)
  BY DEF Filled
<1> HIDE DEF k
<1>3. Len(k) \in Nat /\ (C = <<>> <=> Len(k) = 0)
  BY <1>1, <1>2, EmptySeq, LenProperties
<1>4. Occurs(k, "sub") <=> Len(k) # 0
  <2>1. ASSUME Len(k) # 0 PROVE k[1] = "sub" /\ 1 \in 1..Len(k)
    <3>1. 1 \in 1..Len(k)
      BY <1>3, <2>1
    <3>2. k[1] \in {"sub"}
      BY <1>1, <3>1, ElementOfSeq
    <3>. QED BY <3>1, <3>2
  <2>2. ASSUME Len(k) = 0 PROVE ~Occurs(k, "sub")
    BY <2>2 DEF Occurs
  <2>. QED BY <2>1, <2>2 DEF Occurs
<1>. QED BY <1>1, <1>3, <1>4

LEMMA FilledWrite ==
    ASSUME NEW W, NEW C, Filled(W, C)
    PROVE  /\ \A x \in Verb : Filled(Append(W, x), C)
           /\ \A data \in Seq(Byte) : Filled(Append(W, "sub"), Append(C, data))
<1>1. /\ W \in Seq(Element) /\ C \in Seq(Seq(Byte)) /\ Len(C) = Len(Only(W, {"sub"}))
      /\ Only(W, {"sub"}) \in Seq({"sub"})
  BY KeepType DEF Filled
<1>2. ASSUME NEW x \in Verb PROVE Filled(Append(W, x), C)
  <2>1. x \in Element /\ x \notin {"sub"}
    BY DEF Element, Verb
  <2>2. Append(W, x) \in Seq(Element) /\ Only(Append(W, x), {"sub"}) = Only(W, {"sub"})
    BY <1>1, <2>1, KeepAppend, AppendProperties
  <2>. QED BY <1>1, <2>2 DEF Filled
<1>3. ASSUME NEW data \in Seq(Byte) PROVE Filled(Append(W, "sub"), Append(C, data))
  <2>1. "sub" \in Element /\ "sub" \in {"sub"}
    BY DEF Element
  <2>2. /\ Append(W, "sub") \in Seq(Element)
        /\ Only(Append(W, "sub"), {"sub"}) = Append(Only(W, {"sub"}), "sub")
    BY <1>1, <2>1, KeepAppend, AppendProperties
  <2> DEFINE k == Only(W, {"sub"})
  <2>3. k \in Seq({"sub"}) /\ "sub" \in {"sub"}
    BY <1>1
  <2> HIDE DEF k
  <2>4. Len(Append(k, "sub")) = Len(k) + 1
    BY <2>3, AppendProperties
  <2>5. Append(C, data) \in Seq(Seq(Byte)) /\ Len(Append(C, data)) = Len(C) + 1
    BY <1>1, AppendProperties
  <2>. QED BY <1>1, <2>2, <2>4, <2>5 DEF Filled, k
<1>. QED BY <1>2, <1>3

LEMMA FilledRead ==
    ASSUME NEW W, NEW C, Filled(W, C), W # <<>>
    PROVE  /\ Head(W) \in Verb => Filled(Tail(W), C)
           /\ Head(W) = "sub" => C # <<>> /\ Filled(Tail(W), Tail(C))
<1>1. /\ W \in Seq(Element) /\ C \in Seq(Seq(Byte)) /\ Len(C) = Len(Only(W, {"sub"}))
      /\ Only(W, {"sub"}) \in Seq({"sub"}) /\ Tail(W) \in Seq(Element)
  BY KeepType, HeadTailProperties DEF Filled
<1>2. ASSUME Head(W) \in Verb PROVE Filled(Tail(W), C)
  <2>1. Head(W) \notin {"sub"}
    BY <1>2, VerbFacts
  <2>2. Only(Tail(W), {"sub"}) = Only(W, {"sub"})
    BY <1>1, <2>1, KeepRead
  <2>. QED BY <1>1, <2>2 DEF Filled
<1>3. ASSUME Head(W) = "sub" PROVE C # <<>> /\ Filled(Tail(W), Tail(C))
  <2> DEFINE k == Only(W, {"sub"})
  <2>1. k # <<>> /\ Only(Tail(W), {"sub"}) = Tail(k)
    BY <1>1, <1>3, KeepRead
  <2>2. k \in Seq({"sub"}) /\ Len(C) = Len(k)
    BY <1>1
  <2> HIDE DEF k
  <2>3. Len(k) \in Nat \ {0} /\ Len(Tail(k)) = Len(k) - 1
    BY <2>1, <2>2, EmptySeq, HeadTailProperties, LenProperties
  <2>4. C # <<>>
    BY <1>1, <2>2, <2>3, EmptySeq
  <2>5. Tail(C) \in Seq(Seq(Byte)) /\ Len(Tail(C)) = Len(C) - 1
    BY <1>1, <2>4, HeadTailProperties
  <2>. QED BY <1>1, <2>1, <2>2, <2>3, <2>4, <2>5 DEF Filled
<1>. QED BY <1>2, <1>3

-------------------------------------------------------------------------------
LEMMA RequestedSteps ==
    ASSUME NEW V \in Seq(Element)
    PROVE  /\ \A x \in Verb : Requested(Append(V, x), 0)
           /\ \A m : Requested(V, m) => Requested(Append(V, "sub"), m + 1)
           /\ \A m : V # <<>> /\ m < Len(V) /\ Requested(V, m) => Requested(Tail(V), m)
           /\ \A m : ~(\E x \in Verb : Occurs(V, x)) /\ Requested(V, m) => m = Len(V)
           /\ V # <<>> /\ Requested(V, Len(V)) => Requested(Tail(V), Len(V) - 1)
           /\ V # <<>> /\ Head(V) \in Verb => \A m : Requested(V, m) => m < Len(V)
           /\ (\E x \in Verb : Occurs(V, x)) => \A m : Requested(V, m) => m < Len(V)
<1> DEFINE L == Len(V)
<1>0. "sub" \notin Verb /\ Element = Verb \cup {"sub"} /\ L \in Nat
      /\ \A i \in 1..L : V[i] \in Element
  BY LenProperties, ElementOfSeq DEF Verb, Element
<1>1. ASSUME NEW x \in Element
      PROVE  /\ Len(Append(V, x)) = L + 1 /\ Append(V, x)[L + 1] = x
             /\ \A i \in 1..L : Append(V, x)[i] = V[i]
  BY AppendProperties
<1>2. ASSUME NEW x \in Verb PROVE Requested(Append(V, x), 0)
  <2> DEFINE A == Append(V, x)
  <2>1. Len(A) = L + 1 /\ A[L + 1] = x /\ x # "sub"
    BY <1>0, <1>1
  <2> HIDE DEF A, L
  <2>. QED BY <1>0, <2>1 DEF Requested, A
<1>3. ASSUME NEW m, Requested(V, m) PROVE Requested(Append(V, "sub"), m + 1)
  <2> DEFINE A == Append(V, "sub")
  <2>1. Len(A) = L + 1 /\ A[L + 1] = "sub" /\ \A i \in 1..L : A[i] = V[i]
    BY <1>0, <1>1
  <2>2. /\ m \in 0..L /\ \A i \in 1..L : i > L - m => V[i] = "sub"
        /\ m < L => V[L - m] # "sub"
    BY <1>3 DEF Requested
  <2> HIDE DEF A, L
  <2>3. \A i \in 1..(L + 1) : i > (L + 1) - (m + 1) => A[i] = "sub"
    BY <1>0, <2>1, <2>2
  <2>4. m + 1 < L + 1 => A[(L + 1) - (m + 1)] # "sub"
    <3>1. ASSUME m + 1 < L + 1 PROVE m < L /\ (L + 1) - (m + 1) = L - m /\ L - m \in 1..L
      BY <1>0, <2>2, <3>1
    <3>. QED BY <2>1, <2>2, <3>1
  <2>5. m + 1 \in 0..(L + 1)
    BY <1>0, <2>2
  <2>. QED BY <2>1, <2>3, <2>4, <2>5 DEF Requested, A
<1>4. ASSUME V # <<>>
      PROVE  /\ L \in Nat \ {0} /\ Len(Tail(V)) = L - 1 /\ Head(V) = V[1]
             /\ \A i \in 1..(L - 1) : Tail(V)[i] = V[i + 1]
  BY <1>4, HeadTailProperties, EmptySeq, LenProperties
<1>5. ASSUME V # <<>>, NEW m, m < L, Requested(V, m) PROVE Requested(Tail(V), m)
  <2> DEFINE T == Tail(V)
  <2>1. L \in Nat \ {0} /\ Len(T) = L - 1 /\ \A i \in 1..(L - 1) : T[i] = V[i + 1]
    BY <1>4, <1>5
  <2>2. /\ m \in 0..L /\ \A i \in 1..L : i > L - m => V[i] = "sub"
        /\ m < L => V[L - m] # "sub"
    BY <1>5 DEF Requested
  <2> HIDE DEF T, L
  <2>3. ASSUME NEW i \in 1..(L - 1), i > (L - 1) - m PROVE T[i] = "sub"
    <3>1. i + 1 \in 1..L /\ i + 1 > L - m
      BY <2>1, <2>2, <2>3
    <3>. QED BY <2>1, <2>2, <3>1
  <2>4. ASSUME m < L - 1 PROVE T[(L - 1) - m] # "sub"
    <3>1. (L - 1) - m \in 1..(L - 1) /\ ((L - 1) - m) + 1 = L - m
      BY <2>1, <2>2, <2>4
    <3>2. T[(L - 1) - m] = V[L - m]
      BY <2>1, <3>1
    <3>. QED BY <1>5, <2>2, <3>2 DEF L
  <2>5. m \in 0..(L - 1)
    BY <1>5, <2>1, <2>2 DEF L
  <2>. QED BY <2>1, <2>3, <2>4, <2>5 DEF Requested, T
<1>6. ASSUME NEW m, Requested(V, m), m < L PROVE \E x \in Verb : Occurs(V, x)
  <2>1. m \in 0..L /\ V[L - m] # "sub"
    BY <1>6 DEF Requested
  <2>2. L - m \in 1..L
    <3> HIDE DEF L
    <3>. QED BY <1>0, <1>6, <2>1
  <2>3. V[L - m] \in Verb
    BY <1>0, <2>1, <2>2
  <2>. QED BY <2>2, <2>3 DEF Occurs
<1>7. ASSUME NEW m, Requested(V, m) PROVE m \in 0..L /\ (m < L \/ m = L)
  <2>1. m \in 0..L
    BY <1>7 DEF Requested
  <2> HIDE DEF L
  <2>. QED BY <1>0, <2>1
<1>8. ASSUME Requested(V, L) PROVE \A i \in 1..L : V[i] = "sub"
  <2>1. \A i \in 1..L : i > L - L => V[i] = "sub"
    BY <1>8 DEF Requested
  <2> HIDE DEF L
  <2>. QED BY <1>0, <2>1
<1>9. ASSUME V # <<>>, Requested(V, L) PROVE Requested(Tail(V), L - 1)
  <2> DEFINE T == Tail(V)
  <2>1. L \in Nat \ {0} /\ Len(T) = L - 1 /\ \A i \in 1..(L - 1) : T[i] = V[i + 1]
    BY <1>4, <1>9
  <2>2. \A i \in 1..L : V[i] = "sub"
    BY <1>8, <1>9
  <2> HIDE DEF T, L
  <2>3. \A i \in 1..(L - 1) : T[i] = "sub"
    <3> SUFFICES ASSUME NEW i \in 1..(L - 1) PROVE T[i] = "sub"
      OBVIOUS
    <3>1. i + 1 \in 1..L
      BY <2>1
    <3>. QED BY <2>1, <2>2, <3>1
  <2>4. L - 1 \in 0..(L - 1) /\ ~(L - 1 < L - 1)
    BY <2>1
  <2>. QED BY <2>1, <2>3, <2>4 DEF Requested, T
<1>10. ASSUME V # <<>>, Head(V) \in Verb, NEW m, Requested(V, m) PROVE m < L
  <2>1. V[1] # "sub" /\ 1 \in 1..L
    BY <1>0, <1>4, <1>10
  <2>. QED BY <1>7, <1>8, <1>10, <2>1
<1>11. ASSUME NEW x \in Verb, Occurs(V, x), NEW m, Requested(V, m) PROVE m < L
  <2>1. \E i \in 1..L : V[i] # "sub"
    BY <1>0, <1>11 DEF Occurs
  <2>. QED BY <1>7, <1>8, <1>11, <2>1
<1>. QED BY <1>2, <1>3, <1>5, <1>6, <1>7, <1>9, <1>10, <1>11

LEMMA AnswersSteps ==
    ASSUME NEW C \in Seq(Seq(Byte))
    PROVE  /\ AnswersIn(C) \in Nat
           /\ C = <<>> => AnswersIn(C) = 0
           /\ \A data \in Seq(Byte) : AnswersIn(Append(C, data)) =
                 IF Head(data) = is THEN AnswersIn(C) + 1 ELSE AnswersIn(C)
           /\ C # <<>> => AnswersIn(C) =
                 IF Head(Head(C)) = is THEN AnswersIn(Tail(C)) + 1 ELSE AnswersIn(Tail(C))
<1> DEFINE k == Only(C, IsAnswer)
<1>1. k \in Seq(IsAnswer) /\ Len(k) \in Nat
  <2>1. k \in Seq(IsAnswer)
    BY KeepType
  <2> HIDE DEF k
  <2>. QED BY <2>1, LenProperties
<1>2. AnswersIn(C) = Len(k)
  BY DEF AnswersIn
<1>3. ASSUME C = <<>> PROVE AnswersIn(C) = 0
  BY <1>3, ProjectEmpty DEF AnswersIn, Only
<1>4. ASSUME NEW data \in Seq(Byte)
      PROVE  AnswersIn(Append(C, data)) =
                IF Head(data) = is THEN AnswersIn(C) + 1 ELSE AnswersIn(C)
  <2>1. Only(Append(C, data), IsAnswer) = IF data \in IsAnswer THEN Append(k, data) ELSE k
    BY KeepAppend
  <2>2. data \in IsAnswer <=> Head(data) = is
    BY DEF IsAnswer
  <2> HIDE DEF k
  <2>3. data \in IsAnswer => Len(Append(k, data)) = Len(k) + 1
    BY <1>1, AppendProperties
  <2>. QED BY <1>2, <2>1, <2>2, <2>3 DEF AnswersIn
<1>5. ASSUME C # <<>>
      PROVE  AnswersIn(C) =
                IF Head(Head(C)) = is THEN AnswersIn(Tail(C)) + 1 ELSE AnswersIn(Tail(C))
  <2>1. Head(C) \in Seq(Byte)
    BY <1>5, HeadTailProperties
  <2>2. Head(C) \in IsAnswer <=> Head(Head(C)) = is
    BY <2>1 DEF IsAnswer
  <2>3. /\ Head(C) \in IsAnswer => k # <<>> /\ Only(Tail(C), IsAnswer) = Tail(k)
        /\ Head(C) \notin IsAnswer => Only(Tail(C), IsAnswer) = k
    <3> DEFINE S == Seq(Byte)
    <3>1. C \in Seq(S)
      OBVIOUS
    <3> HIDE DEF S
    <3>. QED BY <1>5, <3>1, KeepRead
  <2> HIDE DEF k
  <2>4. k # <<>> => Len(k) = Len(Tail(k)) + 1
    <3>1. k # <<>> => Len(Tail(k)) = Len(k) - 1
      BY <1>1, HeadTailProperties
    <3>. QED BY <1>1, <3>1
  <2>. QED BY <1>2, <2>2, <2>3, <2>4 DEF AnswersIn
<1>. QED BY <1>1, <1>2, <1>3, <1>4, <1>5

LEMMA OrderedSteps ==
    ASSUME NEW W, NEW C, Filled(W, C), NEW s, Ordered(s, W, C)
    PROVE  /\ \A x \in Verb : Ordered(s, Append(W, x), C)
           /\ ~Occurs(W, "wont") /\ s # "inactive" /\ (s = "activating" => W # <<>>) =>
                 \A data : Ordered(s, Append(W, "sub"), Append(C, data))
           /\ W # <<>> /\ s # "activating" /\ s # "inactive" => Ordered(s, Tail(W), Tail(C))
           /\ W # <<>> => Ordered("active", Tail(W), C)
           /\ W # <<>> /\ Head(W) = "wont" => C = <<>> /\ Ordered("inactive", Tail(W), C)
<1> DEFINE L == Len(W)
<1>0. /\ W \in Seq(Element) /\ L \in Nat
      /\ \A i, j \in 1..L : i < j /\ W[i] = "wont" => W[j] # "sub"
  BY LenProperties DEF Filled, Ordered
<1>1. ASSUME NEW x \in Element
      PROVE  /\ Len(Append(W, x)) = L + 1 /\ Append(W, x)[L + 1] = x
             /\ \A i \in 1..L : Append(W, x)[i] = W[i]
             /\ W # <<>> => Head(Append(W, x)) = Head(W)
             /\ W = <<>> => Head(Append(W, x)) = x
  <2>1. /\ Len(Append(W, x)) = L + 1 /\ Append(W, x)[L + 1] = x
        /\ \A i \in 1..L : Append(W, x)[i] = W[i] /\ Append(W, x) \in Seq(Element)
    BY <1>0, AppendProperties
  <2>2. Head(Append(W, x)) = Append(W, x)[1]
    BY <2>1
  <2>3. W # <<>> => L # 0 /\ Head(W) = W[1]
    BY <1>0, HeadTailProperties, EmptySeq
  <2>4. W = <<>> => L = 0
    OBVIOUS
  <2> HIDE DEF L
  <2>5. L # 0 => 1 \in 1..L
    BY <1>0
  <2>6. W # <<>> => Head(Append(W, x)) = Head(W)
    BY <2>1, <2>2, <2>3, <2>5
  <2>7. L = 0 => L + 1 = 1
    OBVIOUS
  <2>8. W = <<>> => Append(W, x)[1] = x
    BY <2>1, <2>4, <2>7, Zenon
  <2>. QED BY <2>1, <2>2, <2>6, <2>8
<1>2. \A i : i \in 1..(L + 1) <=> i \in 1..L \/ i = L + 1
  <2> HIDE DEF L
  <2>. QED BY <1>0
<1>3. ASSUME NEW x \in Verb PROVE Ordered(s, Append(W, x), C)
  <2> DEFINE A == Append(W, x)
  <2>1. x # "sub" /\ x \in Element
    BY VerbFacts DEF Element
  <2>2. /\ Len(A) = L + 1 /\ A[L + 1] = x /\ \A i \in 1..L : A[i] = W[i]
        /\ W # <<>> => Head(A) = Head(W)
        /\ W = <<>> => Head(A) = x
    BY <1>1, <2>1
  <2>3. s = "activating" => Head(A) # "sub"
    BY <2>1, <2>2 DEF Ordered
  <2>4. ASSUME NEW i \in 1..(L + 1), NEW j \in 1..(L + 1), i < j, A[i] = "wont"
        PROVE  A[j] # "sub"
    <3>1. i \in 1..L
      <4> HIDE DEF L
      <4>. QED BY <1>0, <2>4
    <3>. QED BY <1>0, <1>2, <2>1, <2>2, <2>4, <3>1
  <2> HIDE DEF A, L
  <2>. QED BY <2>2, <2>3, <2>4 DEF Ordered, A
<1>4. ASSUME ~Occurs(W, "wont"), s # "inactive", s = "activating" => W # <<>>, NEW data
      PROVE  Ordered(s, Append(W, "sub"), Append(C, data))
  <2> DEFINE A == Append(W, "sub")
  <2>1. "sub" \in Element
    BY DEF Element
  <2>2. /\ Len(A) = L + 1 /\ A[L + 1] = "sub" /\ \A i \in 1..L : A[i] = W[i]
        /\ W # <<>> => Head(A) = Head(W)
    BY <1>1, <2>1
  <2>3. s = "activating" => Head(A) # "sub"
    BY <1>4, <2>2 DEF Ordered
  <2>4. \A i \in 1..(L + 1) : A[i] # "wont"
    BY <1>2, <1>4, <2>2 DEF Occurs
  <2> HIDE DEF A, L
  <2>. QED BY <1>4, <2>2, <2>3, <2>4 DEF Ordered, A
<1>5. ASSUME W # <<>>
      PROVE  /\ L \in Nat \ {0} /\ Len(Tail(W)) = L - 1 /\ Head(W) = W[1]
             /\ \A i, j \in 1..Len(Tail(W)) : i < j /\ Tail(W)[i] = "wont" => Tail(W)[j] # "sub"
  <2> DEFINE T == Tail(W)
  <2>1. /\ L \in Nat \ {0} /\ Len(T) = L - 1 /\ Head(W) = W[1]
        /\ \A i \in 1..(L - 1) : T[i] = W[i + 1]
    BY <1>0, <1>5, HeadTailProperties, EmptySeq
  <2> HIDE DEF T, L
  <2>2. ASSUME NEW i \in 1..(L - 1), NEW j \in 1..(L - 1), i < j, T[i] = "wont"
        PROVE  T[j] # "sub"
    <3>1. i + 1 \in 1..L /\ j + 1 \in 1..L /\ i + 1 < j + 1
      BY <2>1, <2>2
    <3>2. T[i] = W[i + 1] /\ T[j] = W[j + 1]
      BY <2>1
    <3>. QED BY <1>0, <2>2, <3>1, <3>2
  <2>. QED BY <2>1, <2>2 DEF T
<1>6. ASSUME W # <<>>, s # "activating", s # "inactive" PROVE Ordered(s, Tail(W), Tail(C))
  BY <1>5, <1>6 DEF Ordered
<1>7. ASSUME W # <<>> PROVE Ordered("active", Tail(W), C)
  BY <1>5, <1>7 DEF Ordered
<1>8. ASSUME W # <<>>, Head(W) = "wont" PROVE C = <<>> /\ Ordered("inactive", Tail(W), C)
  <2>1. L \in Nat \ {0} /\ W[1] = "wont"
    BY <1>5, <1>8
  <2>2. \A j \in 1..L : W[j] # "sub"
    <3> SUFFICES ASSUME NEW j \in 1..L PROVE W[j] # "sub"
      OBVIOUS
    <3>1. 1 \in 1..L /\ (j = 1 \/ 1 < j)
      <4> HIDE DEF L
      <4>. QED BY <2>1
    <3>. QED BY <1>0, <2>1, <3>1
  <2>3. C = <<>>
    BY <2>2, FilledSubs DEF Occurs
  <2>. QED BY <1>5, <1>8, <2>3 DEF Ordered
<1>. QED BY <1>3, <1>4, <1>6, <1>7, <1>8

LEMMA OccursTail ==
    ASSUME NEW S, NEW w \in Seq(S), w # <<>>, NEW v
    PROVE  Occurs(w, v) <=> Occurs(Tail(w), v) \/ v = Head(w)
<1> DEFINE t == Tail(w)
           n == Len(w)
<1>1. /\ n \in Nat \ {0} /\ Len(t) = n - 1 /\ Head(w) = w[1]
      /\ \A i \in 1..(n - 1) : t[i] = w[i + 1]
  BY HeadTailProperties, EmptySeq, LenProperties
<1> HIDE DEF t, n
<1>2. \A i \in 1..n : i = 1 \/ (i - 1 \in 1..(n - 1) /\ t[i - 1] = w[i])
  <2> SUFFICES ASSUME NEW i \in 1..n, i # 1 PROVE i - 1 \in 1..(n - 1) /\ t[i - 1] = w[i]
    OBVIOUS
  <2>1. i - 1 \in 1..(n - 1) /\ (i - 1) + 1 = i
    BY <1>1
  <2>. QED BY <1>1, <2>1
<1>3. \A i \in 1..(n - 1) : i + 1 \in 1..n /\ t[i] = w[i + 1]
  BY <1>1
<1>4. 1 \in 1..n
  BY <1>1
<1>5. (Occurs(w, v) <=> \E i \in 1..n : w[i] = v) /\ (Occurs(t, v) <=> \E i \in 1..(n - 1) : t[i] = v)
  BY <1>1 DEF Occurs, n
<1>6. ASSUME Occurs(w, v) PROVE Occurs(t, v) \/ v = Head(w)
  BY <1>1, <1>2, <1>5, <1>6
<1>7. ASSUME Occurs(t, v) \/ v = Head(w) PROVE Occurs(w, v)
  BY <1>1, <1>3, <1>4, <1>5, <1>7
<1>. QED BY <1>6, <1>7 DEF t

\* What the client reads next is a negotiation; the server's are none of it.
LEMMA AwaitsNegotiations ==
    ASSUME NEW s \in {"inactive", "activating", "active", "deactivating"},
           NEW V \in Seq(Element), NEW W, NEW C, Filled(W, C), NEW n \in Nat,
           Awaits(s, V, W, C, n), Ordered(s, W, C)
    PROVE  /\ s = "inactive" => n = 0 /\ Awaits("activating", Append(V, "do"), W, C, 0)
           /\ \A x \in Verb : Awaits(s, V, Append(W, x), C, n)
           /\ V # <<>> /\ Head(V) \in Verb => Awaits(s, Tail(V), W, C, n)
           /\ W # <<>> /\ Head(W) = "will" /\ s = "activating" => Awaits("active", V, Tail(W), C, n)
           /\ W # <<>> /\ Head(W) = "will" /\ s = "inactive" =>
                 Awaits("active", Append(V, "do"), Tail(W), C, n)
<1>1. /\ W \in Seq(Element) /\ C \in Seq(Seq(Byte)) /\ "do" \in Verb /\ "will" # "wont"
      /\ Verb \subseteq Element
  BY DEF Filled, Verb, Element
<1>2. /\ AnswersIn(C) \in Nat
      /\ C = <<>> => AnswersIn(C) = 0
  BY <1>1, AnswersSteps
<1>3. ASSUME s = "inactive"
      PROVE  /\ n = 0 /\ AnswersIn(C) = 0
             /\ Requested(Append(V, "do"), 0) /\ 0 \in 0..Len(Append(V, "do"))
  <2>1. n = 0 /\ C = <<>>
    BY <1>3 DEF Awaits, Ordered
  <2>2. Requested(Append(V, "do"), 0)
    BY <1>1, RequestedSteps
  <2>. QED BY <1>2, <2>1, <2>2 DEF Requested
<1>4. ASSUME s = "inactive", NEW w
      PROVE  /\ Awaits("activating", Append(V, "do"), w, C, 0)
             /\ Awaits("active", Append(V, "do"), w, C, 0)
  <2>1. 0 = AnswersIn(C) + 0 /\ 0 >= AnswersIn(C)
    BY <1>3, <1>4
  <2>. QED BY <1>3, <1>4, <2>1 DEF Awaits
<1>5. ASSUME NEW x \in Verb PROVE Awaits(s, V, Append(W, x), C, n)
  <2>1. Occurs(Append(W, x), "wont") <=> Occurs(W, "wont") \/ x = "wont"
    BY <1>1, OccursAppend
  <2>2. ASSUME NEW m \in 0..Len(V), n = AnswersIn(C) + m PROVE n >= AnswersIn(C)
    <3>1. m \in Nat
      BY LenProperties
    <3>. QED BY <1>2, <2>2, <3>1
  <2>. QED BY <2>1, <2>2 DEF Awaits
<1>6. ASSUME V # <<>>, Head(V) \in Verb PROVE Awaits(s, Tail(V), W, C, n)
  <2>1. ASSUME NEW m, Requested(V, m) PROVE Requested(Tail(V), m)
    BY <1>6, <2>1, RequestedSteps
  <2>. QED BY <2>1 DEF Awaits, Requested
<1>7. ASSUME W # <<>>, Head(W) = "will" PROVE Occurs(Tail(W), "wont") <=> Occurs(W, "wont")
  BY <1>1, <1>7, OccursTail
<1>8. ASSUME W # <<>>, Head(W) = "will", s = "activating" PROVE Awaits("active", V, Tail(W), C, n)
  BY <1>7, <1>8 DEF Awaits
<1>. QED BY <1>3, <1>4, <1>5, <1>6, <1>8

\* A subnegotiation is written or read.
LEMMA AwaitsSubs ==
    ASSUME NEW s \in {"inactive", "activating", "active", "deactivating"},
           NEW V \in Seq(Element), NEW W, NEW C, Filled(W, C), NEW n \in Nat,
           Awaits(s, V, W, C, n), Ordered(s, W, C)
    PROVE  /\ Awaits(s, Append(V, "sub"), W, C, IF s \in {"activating", "active"} THEN n + 1 ELSE n)
           /\ \A data \in Seq(Byte) :
                 Head(data) # is => Awaits(s, V, Append(W, "sub"), Append(C, data), n)
           /\ \A data \in Seq(Byte) :
                 /\ V # <<>> /\ Head(data) = is /\ ~Occurs(W, "wont")
                 /\ s \in {"activating", "active"} => \A x \in Verb : ~Occurs(V, x)
                 /\ s # "inactive"
                 => Awaits(s, Tail(V), Append(W, "sub"), Append(C, data), n)
           /\ /\ V # <<>> /\ Head(V) = "sub"
              /\ s \in {"activating", "active"} =>
                    Occurs(W, "wont") \/ \E x \in Verb : Occurs(V, x)
              => Awaits(s, Tail(V), W, C, n)
           /\ W # <<>> /\ Head(W) = "sub" /\ s = "active" =>
                 LET left == IF Head(Head(C)) = is THEN n - 1 ELSE n
                 IN  left \in Nat /\ Awaits(s, V, Tail(W), Tail(C), left)
           /\ s = "deactivating" => n = 0 /\ \A v, w, c : Awaits(s, v, w, c, 0)
<1>1. /\ W \in Seq(Element) /\ C \in Seq(Seq(Byte)) /\ "sub" # "wont" /\ "sub" \in Element
      /\ Len(V) \in Nat
  BY LenProperties DEF Filled, Element
<1>2. AnswersIn(C) \in Nat
  BY <1>1, AnswersSteps
<1>3. Awaits(s, Append(V, "sub"), W, C, IF s \in {"activating", "active"} THEN n + 1 ELSE n)
  <2>1. CASE s \in {"inactive", "deactivating"}
    BY <2>1 DEF Awaits
  <2>2. CASE s \in {"activating", "active"} /\ Occurs(W, "wont")
    <3>1. n >= AnswersIn(C)
      BY <2>2 DEF Awaits
    <3>2. n + 1 >= AnswersIn(C)
      BY <1>2, <3>1
    <3>. QED BY <2>2, <3>2 DEF Awaits
  <2>3. CASE s \in {"activating", "active"} /\ ~Occurs(W, "wont")
    <3>1. PICK m \in 0..Len(V) : Requested(V, m) /\ n = AnswersIn(C) + m
      BY <2>3 DEF Awaits
    <3>2. Requested(Append(V, "sub"), m + 1)
      BY <3>1, RequestedSteps
    <3>3. n + 1 = AnswersIn(C) + (m + 1)
      BY <1>1, <1>2, <3>1
    <3>. QED BY <2>3, <3>2, <3>3 DEF Awaits, Requested
  <2>. QED BY <2>1, <2>2, <2>3
<1>4. Occurs(Append(W, "sub"), "wont") <=> Occurs(W, "wont")
  BY <1>1, OccursAppend
<1>5. ASSUME NEW data \in Seq(Byte), Head(data) # is
      PROVE  Awaits(s, V, Append(W, "sub"), Append(C, data), n)
  <2>1. AnswersIn(Append(C, data)) = AnswersIn(C)
    BY <1>1, <1>5, AnswersSteps
  <2>. QED BY <1>4, <2>1 DEF Awaits
<1>6. ASSUME NEW data \in Seq(Byte), V # <<>>, Head(data) = is, ~Occurs(W, "wont"),
             s \in {"activating", "active"} => \A x \in Verb : ~Occurs(V, x), s # "inactive"
      PROVE  Awaits(s, Tail(V), Append(W, "sub"), Append(C, data), n)
  <2>1. CASE s \in {"inactive", "deactivating"}
    BY <2>1 DEF Awaits
  <2>2. CASE s \in {"activating", "active"}
    <3>1. PICK m \in 0..Len(V) : Requested(V, m) /\ n = AnswersIn(C) + m
      BY <1>6, <2>2 DEF Awaits
    <3>2. m = Len(V)
      BY <1>6, <2>2, <3>1, RequestedSteps
    <3>3. Requested(Tail(V), m - 1)
      BY <1>6, <3>1, <3>2, RequestedSteps
    <3>4. AnswersIn(Append(C, data)) = AnswersIn(C) + 1
      BY <1>1, <1>6, AnswersSteps
    <3>5. n = AnswersIn(Append(C, data)) + (m - 1)
      BY <1>1, <1>2, <3>1, <3>4
    <3>. QED BY <1>4, <1>6, <2>2, <3>3, <3>5 DEF Awaits, Requested
  <2>. QED BY <2>1, <2>2
<1>7. ASSUME V # <<>>, Head(V) = "sub",
             s \in {"activating", "active"} => Occurs(W, "wont") \/ \E x \in Verb : Occurs(V, x)
      PROVE  Awaits(s, Tail(V), W, C, n)
  <2>1. CASE s \in {"inactive", "deactivating"} \/ Occurs(W, "wont")
    BY <2>1 DEF Awaits
  <2>2. CASE s \in {"activating", "active"} /\ ~Occurs(W, "wont")
    <3>1. PICK m \in 0..Len(V) : Requested(V, m) /\ n = AnswersIn(C) + m
      BY <2>2 DEF Awaits
    <3>2. m < Len(V)
      BY <1>7, <2>2, <3>1, RequestedSteps
    <3>3. Requested(Tail(V), m)
      BY <1>7, <3>1, <3>2, RequestedSteps
    <3>. QED BY <2>2, <3>1, <3>3 DEF Awaits, Requested
  <2>. QED BY <2>1, <2>2
<1>8. ASSUME W # <<>>, Head(W) = "sub", s = "active",
             NEW left, left = IF Head(Head(C)) = is THEN n - 1 ELSE n
      PROVE  left \in Nat /\ Awaits(s, V, Tail(W), Tail(C), left)
  <2>1. C # <<>> /\ Tail(C) \in Seq(Seq(Byte))
    BY <1>8, FilledRead DEF Filled
  <2>2. AnswersIn(C) = IF Head(Head(C)) = is THEN AnswersIn(Tail(C)) + 1 ELSE AnswersIn(Tail(C))
    BY <1>1, <2>1, AnswersSteps
  <2>3. AnswersIn(Tail(C)) \in Nat
    BY <2>1, AnswersSteps
  <2>4. Occurs(Tail(W), "wont") <=> Occurs(W, "wont")
    BY <1>1, <1>8, OccursTail
  <2>5. CASE Occurs(W, "wont")
    <3>1. n >= AnswersIn(C)
      BY <1>8, <2>5 DEF Awaits
    <3>2. left \in Nat /\ left >= AnswersIn(Tail(C))
      BY <1>8, <2>2, <2>3, <3>1
    <3>. QED BY <1>8, <2>4, <2>5, <3>2 DEF Awaits
  <2>6. CASE ~Occurs(W, "wont")
    <3>1. PICK m \in 0..Len(V) : Requested(V, m) /\ n = AnswersIn(C) + m
      BY <1>8, <2>6 DEF Awaits
    <3>2. left \in Nat /\ left = AnswersIn(Tail(C)) + m
      BY <1>1, <1>8, <2>2, <2>3, <3>1, SMTT(30)
    <3>. QED BY <1>8, <2>4, <2>6, <3>1, <3>2 DEF Awaits
  <2>. QED BY <2>5, <2>6
<1>9. ASSUME s = "deactivating" PROVE n = 0 /\ \A v, w, c : Awaits(s, v, w, c, 0)
  BY <1>9 DEF Awaits
<1>. QED BY <1>3, <1>5, <1>6, <1>7, <1>8, <1>9

-------------------------------------------------------------------------------
(***************************************************************************)
(* Inductive, put together from these, in a state and in the next one.     *)
(***************************************************************************)
States == {"inactive", "activating", "active", "deactivating"}

\* What e has to read, and its content.
Carries(e, w, C) == w \in Seq(Pair!Verbs(e) \cup {"sub"}) /\ Filled(w, C)

LEMMA InductiveIs ==
    ASSUME Inductive
    PROVE  /\ state_ \in [Ends -> States] /\ wire \in [Ends -> Seq(Element)]
           /\ content \in [Ends -> Seq(Seq(Byte))]
           /\ \A e \in Ends : Carries(e, wire[e], content[e])
           /\ Kept /\ ToClient \in Seq(Seq(Byte)) /\ awaited \in Nat
           /\ Ordered(state_["client"], wire["client"], content["client"])
           /\ Awaits(state_["client"], wire["server"], wire["client"], content["client"], awaited)
<1>1. TypeOK /\ Readable /\ Copied /\ FinitelyMany /\ InOrder /\ Awaiting
  BY DEF Inductive
<1>2. \A e \in Ends : Carries(e, wire[e], content[e])
  BY <1>1, TypeUnfolded DEF Carries, Filled
<1>3. Kept /\ ToClient \in Seq(Seq(Byte))
  BY <1>1, TypeUnfolded, EndFacts DEF Kept, ToClient
<1>4. Ordered(state_["client"], wire["client"], content["client"])
  BY <1>1 DEF InOrder, Ordered
<1>5. Awaits(state_["client"], wire["server"], wire["client"], content["client"], awaited)
  BY <1>1 DEF Awaiting, Awaits, Refused, Occurs, Answers, AnswersIn, IsAnswer
<1>. QED BY <1>1, <1>2, <1>3, <1>4, <1>5, TypeUnfolded DEF States

LEMMA InductiveNext ==
    ASSUME /\ state_' \in [Ends -> States] /\ wire' \in [Ends -> Seq(Element)]
           /\ content' \in [Ends -> Seq(Seq(Byte))]
           /\ \A e \in Ends : Carries(e, wire'[e], content'[e])
           /\ Kept' /\ awaited' \in Nat
           /\ Ordered(state_'["client"], wire'["client"], content'["client"])
           /\ Awaits(state_'["client"], wire'["server"], wire'["client"], content'["client"], awaited')
    PROVE  Inductive'
<1>1. \A e \in Ends : /\ wire'[e] \in Seq(Pair!Verbs(e) \cup {"sub"})
                      /\ Len(content'[e]) = Len(Only(wire'[e], {"sub"}))
  BY DEF Carries, Filled
<1>2. Pair!TypeOK'
  <2>1. state_' \in [Pair!Ends -> Pair!internal_state]
    BY EndFacts DEF States, Pair!internal_state
  <2>2. wire' \in [Pair!Ends -> Seq(Pair!negotiation_type \cup {"sub"})]
    BY EndFacts, VerbFacts DEF Element
  <2>. QED BY <1>1, <2>1, <2>2, EndFacts DEF Pair!TypeOK
<1>3. TypeOK'
  BY <1>1, <1>2 DEF TypeOK, Kept
<1>4. InOrder'
  BY DEF InOrder, Ordered
<1>5. Awaiting'
  BY DEF Awaiting, Awaits, Refused, Occurs, Answers, AnswersIn, IsAnswer
<1>. QED BY <1>3, <1>4, <1>5 DEF Inductive, Kept

LEMMA CarriesSteps ==
    ASSUME NEW e, NEW w, NEW C, Carries(e, w, C)
    PROVE  /\ \A x \in Pair!Verbs(e) : x \in Verb => Carries(e, Append(w, x), C)
           /\ \A data \in Seq(Byte) : Carries(e, Append(w, "sub"), Append(C, data))
           /\ w # <<>> =>
                 /\ Head(w) \in Verb => Carries(e, Tail(w), C)
                 /\ Head(w) = "sub" => C # <<>> /\ Carries(e, Tail(w), Tail(C))
<1> DEFINE S == Pair!Verbs(e) \cup {"sub"}
<1>1. w \in Seq(S) /\ Filled(w, C) /\ "sub" \in S /\ Pair!Verbs(e) \subseteq S
  BY DEF Carries
<1>2. \A x \in S : Append(w, x) \in Seq(S)
  <2> HIDE DEF S
  <2>. QED BY <1>1, AppendProperties
<1>3. w # <<>> => Tail(w) \in Seq(S)
  <2> HIDE DEF S
  <2>. QED BY <1>1, HeadTailProperties
<1>. QED BY <1>1, <1>2, <1>3, FilledWrite, FilledRead DEF Carries

-------------------------------------------------------------------------------
(***************************************************************************)
(* Every step keeps it: first the steps that negotiate.                    *)
(***************************************************************************)
LEMMA VerbSets ==
    /\ Pair!Verbs("client") = {"will", "wont"} /\ Pair!Verbs("server") = {"do", "dont"}
    /\ "will" \in Verb /\ "wont" \in Verb /\ "do" \in Verb /\ "dont" \in Verb
    /\ "sub" \notin Verb /\ Element = Verb \cup {"sub"}
BY EndFacts, VerbFacts DEF Verb, Element

\* The server calls activate() or deactivate(), or reads a negotiation.
LEMMA ServerNegotiates ==
    ASSUME Inductive, content' = content, UNCHANGED <<variables_, known, behind, awaited>>,
           state_' \in [Ends -> States], state_'["client"] = state_["client"],
           wire' \in [Ends -> Seq(Element)],
           \/ wire'["server"] = wire["server"]
           \/ /\ wire["server"] # <<>> /\ Head(wire["server"]) \in Verb
              /\ wire'["server"] = Tail(wire["server"]),
           \/ wire'["client"] = wire["client"]
           \/ \E x \in {"will", "wont"} : wire'["client"] = Append(wire["client"], x)
    PROVE  Inductive'
<1> DEFINE s == state_["client"]
           V == wire["server"]
           W == wire["client"]
           C == content["client"]
           n == awaited
<1>1. /\ state_ \in [Ends -> States] /\ wire \in [Ends -> Seq(Element)]
      /\ content \in [Ends -> Seq(Seq(Byte))]
      /\ \A e \in Ends : Carries(e, wire[e], content[e])
      /\ Kept /\ ToClient \in Seq(Seq(Byte)) /\ n \in Nat
      /\ Ordered(s, W, C) /\ Awaits(s, V, W, C, n)
  BY InductiveIs
<1>2. /\ s \in States /\ V \in Seq(Element) /\ Filled(W, C)
      /\ Carries("server", V, content["server"]) /\ Carries("client", W, C)
  BY <1>1, EndFacts DEF Carries
<1>3. Kept'
  BY <1>1, SameKept DEF ToClient
<1>4. Carries("server", wire'["server"], content["server"])
  <2> DEFINE D == content["server"]
  <2> HIDE DEF V, D
  <2>1. V # <<>> /\ Head(V) \in Verb => Carries("server", Tail(V), D)
    BY <1>2, CarriesSteps DEF D
  <2>. QED BY <1>2, <2>1 DEF V, D
<1>5. Carries("client", wire'["client"], C)
  <2> HIDE DEF W, C
  <2>1. \A x \in {"will", "wont"} : Carries("client", Append(W, x), C)
    <3>1. \A x \in {"will", "wont"} : x \in Pair!Verbs("client") /\ x \in Verb
      BY VerbSets
    <3>. QED BY <1>2, <3>1, CarriesSteps
  <2>. QED BY <1>2, <2>1 DEF W
<1>6. Ordered(s, wire'["client"], C)
  <2> HIDE DEF s, W, C
  <2>1. \A x \in Verb : Ordered(s, Append(W, x), C)
    BY <1>1, <1>2, OrderedSteps
  <2>. QED BY <1>1, <2>1, VerbSets DEF W
<1>7. \A x \in Verb : Awaits(s, V, Append(W, x), C, n)
  BY <1>1, <1>2, AwaitsNegotiations DEF States
<1>8. Awaits(s, V, wire'["client"], C, n)
  BY <1>1, <1>7, VerbSets
<1>9. Awaits(s, wire'["server"], wire'["client"], C, n)
  <2> DEFINE w == wire'["client"]
  <2>1. Filled(w, C) /\ Ordered(s, w, C) /\ Awaits(s, V, w, C, n)
    BY <1>5, <1>6, <1>8 DEF Carries
  <2> HIDE DEF s, V, C, n, w
  <2>2. V # <<>> /\ Head(V) \in Verb => Awaits(s, Tail(V), w, C, n)
    BY <1>1, <1>2, <2>1, AwaitsNegotiations DEF States
  <2>3. wire'["server"] = V \/ (V # <<>> /\ Head(V) \in Verb /\ wire'["server"] = Tail(V))
    BY DEF V
  <2>4. Awaits(s, wire'["server"], w, C, n)
    BY <2>1, <2>2, <2>3
  <2>. QED BY <2>4 DEF w
<1>10. \A e \in Ends : Carries(e, wire'[e], content'[e])
  BY <1>4, <1>5, EndFacts
<1>. QED BY <1>1, <1>3, <1>6, <1>9, <1>10, InductiveNext

\* The client does.
LEMMA ClientNegotiates ==
    ASSUME Inductive, content' = content, UNCHANGED <<variables_, known, behind>>,
           state_' \in [Ends -> States], wire' \in [Ends -> Seq(Element)],
           \/ /\ state_["client"] = "inactive" /\ state_'["client"] = "activating"
              /\ wire'["server"] = Append(wire["server"], "do")
              /\ wire'["client"] = wire["client"] /\ awaited' = awaited
           \/ /\ state_'["client"] = "deactivating"
              /\ wire'["server"] = Append(wire["server"], "dont")
              /\ wire'["client"] = wire["client"] /\ awaited' = 0
           \/ /\ wire["client"] # <<>> /\ Head(wire["client"]) = "will"
              /\ state_'["client"] = "active" /\ wire'["client"] = Tail(wire["client"])
              /\ \/ /\ state_["client"] = "inactive"
                    /\ wire'["server"] = Append(wire["server"], "do")
                 \/ state_["client"] = "activating" /\ wire'["server"] = wire["server"]
              /\ awaited' = awaited
           \/ /\ wire["client"] # <<>> /\ Head(wire["client"]) = "wont"
              /\ state_'["client"] = "inactive" /\ wire'["client"] = Tail(wire["client"])
              /\ \/ wire'["server"] = Append(wire["server"], "dont")
                 \/ wire'["server"] = wire["server"]
              /\ awaited' = 0
    PROVE  Inductive'
<1> DEFINE s == state_["client"]
           V == wire["server"]
           W == wire["client"]
           C == content["client"]
           n == awaited
           next == state_'["client"]
           later == wire'["client"]
           out == wire'["server"]
<1>1. /\ state_ \in [Ends -> States] /\ wire \in [Ends -> Seq(Element)]
      /\ content \in [Ends -> Seq(Seq(Byte))]
      /\ \A e \in Ends : Carries(e, wire[e], content[e])
      /\ Kept /\ ToClient \in Seq(Seq(Byte)) /\ n \in Nat
      /\ Ordered(s, W, C) /\ Awaits(s, V, W, C, n)
  BY InductiveIs
<1>2. /\ s \in States /\ V \in Seq(Element) /\ Filled(W, C)
      /\ Carries("server", V, content["server"]) /\ Carries("client", W, C)
  BY <1>1, EndFacts DEF Carries
<1>3. Kept'
  BY <1>1, SameKept DEF ToClient
<1>4. Carries("server", out, content["server"])
  <2> DEFINE D == content["server"]
  <2> HIDE DEF V, D
  <2>1. \A x \in {"do", "dont"} : Carries("server", Append(V, x), D)
    <3>1. \A x \in {"do", "dont"} : x \in Pair!Verbs("server") /\ x \in Verb
      BY VerbSets
    <3>. QED BY <1>2, <3>1, CarriesSteps DEF D
  <2>2. out = V \/ \E x \in {"do", "dont"} : out = Append(V, x)
    BY DEF V
  <2> HIDE DEF out
  <2>. QED BY <1>2, <2>1, <2>2 DEF D
<1>5. Carries("client", later, C)
  <2> HIDE DEF W, C
  <2>1. W # <<>> /\ Head(W) \in Verb => Carries("client", Tail(W), C)
    BY <1>2, CarriesSteps
  <2>2. later = W \/ (W # <<>> /\ Head(W) \in Verb /\ later = Tail(W))
    BY VerbSets DEF W
  <2> HIDE DEF later
  <2>. QED BY <1>2, <2>1, <2>2
<1>6. \A e \in Ends : Carries(e, wire'[e], content'[e])
  BY <1>4, <1>5, EndFacts
<1>7. /\ s = "inactive" => n = 0 /\ Awaits("activating", Append(V, "do"), W, C, 0)
      /\ W # <<>> /\ Head(W) = "will" /\ s = "activating" => Awaits("active", V, Tail(W), C, n)
      /\ W # <<>> /\ Head(W) = "will" /\ s = "inactive" =>
            Awaits("active", Append(V, "do"), Tail(W), C, n)
  <2> HIDE DEF s, V, W, C, n
  <2>. QED BY <1>1, <1>2, AwaitsNegotiations DEF States
<1>8. /\ W # <<>> => Ordered("active", Tail(W), C)
      /\ W # <<>> /\ Head(W) = "wont" => C = <<>> /\ Ordered("inactive", Tail(W), C)
  <2> HIDE DEF s, W, C
  <2>. QED BY <1>1, <1>2, OrderedSteps
<1>9. Ordered(next, later, C) /\ Awaits(next, out, later, C, awaited') /\ awaited' \in Nat
  <2>1. CASE /\ s = "inactive" /\ next = "activating" /\ out = Append(V, "do")
             /\ later = W /\ awaited' = n
    <3>1. C = <<>> /\ \A i, j \in 1..Len(W) : i < j /\ W[i] = "wont" => W[j] # "sub"
      BY <1>1, <2>1 DEF Ordered
    <3>2. W # <<>> => Head(W) # "sub"
      <4>1. ~Occurs(W, "sub") /\ W \in Seq(Element)
        BY <1>2, <3>1, FilledSubs DEF Filled
      <4> HIDE DEF W
      <4>2. W # <<>> => Head(W) = W[1] /\ 1 \in 1..Len(W)
        <5>1. W # <<>> => Head(W) = W[1] /\ Len(W) \in Nat \ {0}
          BY <4>1, HeadTailProperties, EmptySeq, LenProperties
        <5>. QED BY <5>1
      <4>. QED BY <4>1, <4>2 DEF Occurs
    <3>3. Ordered("activating", W, C)
      BY <3>1, <3>2 DEF Ordered
    <3>. QED BY <1>1, <1>7, <2>1, <3>3
  <2>2. CASE next = "deactivating" /\ later = W /\ awaited' = 0
    BY <1>1, <2>2 DEF Ordered, Awaits
  <2>3. CASE /\ W # <<>> /\ Head(W) = "will" /\ next = "active" /\ later = Tail(W)
             /\ \/ s = "inactive" /\ out = Append(V, "do")
                \/ s = "activating" /\ out = V
             /\ awaited' = n
    BY <1>1, <1>7, <1>8, <2>3
  <2>4. CASE W # <<>> /\ Head(W) = "wont" /\ next = "inactive" /\ later = Tail(W) /\ awaited' = 0
    BY <1>8, <2>4 DEF Awaits
  <2>. QED BY <2>1, <2>2, <2>3, <2>4
<1>. QED BY <1>1, <1>3, <1>6, <1>9, InductiveNext

LEMMA NegotiationSteps ==
    ASSUME Inductive, Proved!ConformingPeer, NEW e \in Ends,
           activate(e) \/ deactivate(e) \/ negotiate(e)
    PROVE  Inductive'
<1> DEFINE V == wire["server"]
           W == wire["client"]
<1>1. /\ state_ \in [Ends -> States] /\ wire \in [Ends -> Seq(Element)]
      /\ content' = content /\ UNCHANGED <<variables_, known, behind>>
      /\ "server" \in Ends /\ "client" \in Ends /\ Other("server") = "client"
      /\ Other("client") = "server" /\ (e = "server" \/ e = "client")
  BY InductiveIs, EndFacts DEF activate, deactivate, negotiate
<1>2. /\ Pair!local_positive("server") = "will" /\ Pair!local_negative("server") = "wont"
      /\ Pair!local_positive("client") = "do" /\ Pair!local_negative("client") = "dont"
      /\ Pair!remote_positive("server") = "do" /\ Pair!remote_negative("server") = "dont"
      /\ Pair!remote_positive("client") = "will" /\ Pair!remote_negative("client") = "wont"
  BY VerbFacts
<1>3. ASSUME NEW x \in Element, Pair!write(e, x)
      PROVE  /\ wire' \in [Ends -> Seq(Element)]
             /\ wire'[Other(e)] = Append(wire[Other(e)], x) /\ wire'[e] = wire[e]
  BY <1>1, <1>3, WriteFacts
<1>4. ASSUME wire[e] # <<>>, Pair!read(e)
      PROVE  /\ wire' \in [Ends -> Seq(Element)]
             /\ wire'[Other(e)] = wire[Other(e)] /\ wire'[e] = Tail(wire[e])
  BY <1>1, <1>4, ReadFacts
<1>5. ASSUME wire[e] # <<>>, NEW x \in Element, Pair!read_and_write(e, x)
      PROVE  /\ wire' \in [Ends -> Seq(Element)]
             /\ wire'[Other(e)] = Append(wire[Other(e)], x) /\ wire'[e] = Tail(wire[e])
  BY <1>1, <1>5, ReadAndWriteFacts
<1>6. ASSUME NEW t \in States, Pair!become(e, t)
      PROVE  /\ state_' \in [Ends -> States] /\ state_'[e] = t
             /\ \A x \in Ends : x # e => state_'[x] = state_[x]
  BY <1>1, <1>6 DEF Pair!become
<1>7. "will" \in Element /\ "wont" \in Element /\ "do" \in Element /\ "dont" \in Element
      /\ "inactive" \in States /\ "activating" \in States /\ "active" \in States
      /\ "deactivating" \in States
  BY VerbSets DEF States
<1>8. CASE e = "server" /\ (activate(e) \/ deactivate(e))
  <2>1. UNCHANGED awaited
    BY <1>8 DEF activate, deactivate
  <2>2. \E x \in {"will", "wont"} : Pair!write(e, x)
    BY <1>2, <1>8 DEF activate, deactivate, Pair!activate, Pair!deactivate
  <2>3. /\ wire' \in [Ends -> Seq(Element)] /\ wire'["server"] = V
        /\ \E x \in {"will", "wont"} : wire'["client"] = Append(W, x)
    BY <1>1, <1>3, <1>7, <1>8, <2>2
  <2>4. \E t \in States : Pair!become(e, t)
    BY <1>7, <1>8 DEF activate, deactivate, Pair!activate, Pair!deactivate
  <2>5. state_' \in [Ends -> States] /\ state_'["client"] = state_["client"]
    BY <1>1, <1>6, <1>8, <2>4
  <2>. QED BY <1>1, <2>1, <2>3, <2>5, ServerNegotiates
<1>9. CASE e = "server" /\ negotiate(e)
  <2>1. UNCHANGED awaited
    BY <1>9 DEF negotiate
  <2>2. /\ wire[e] # <<>> /\ Head(wire[e]) \in {"do", "dont"}
        /\ Pair!read(e) \/ \E x \in {"will", "wont"} : Pair!read_and_write(e, x)
    BY <1>2, <1>9 DEF negotiate, Pair!negotiate
  <2>3. /\ wire' \in [Ends -> Seq(Element)] /\ V # <<>> /\ Head(V) \in Verb /\ wire'["server"] = Tail(V)
        /\ \/ wire'["client"] = W
           \/ \E x \in {"will", "wont"} : wire'["client"] = Append(W, x)
    BY <1>1, <1>4, <1>5, <1>7, <1>9, <2>2, VerbSets
  <2>4. \E t \in States : Pair!become(e, t)
    BY <1>7, <1>9 DEF negotiate, Pair!negotiate
  <2>5. state_' \in [Ends -> States] /\ state_'["client"] = state_["client"]
    BY <1>1, <1>6, <1>9, <2>4
  <2>. QED BY <1>1, <2>1, <2>3, <2>5, ServerNegotiates
<1>10. CASE e = "client" /\ activate(e)
  <2>1. /\ state_["client"] = "inactive" /\ Pair!become(e, "activating")
        /\ Pair!write(e, "do") /\ UNCHANGED awaited
    BY <1>2, <1>10 DEF activate, Pair!activate
  <2>2. wire' \in [Ends -> Seq(Element)] /\ wire'["client"] = W /\ wire'["server"] = Append(V, "do")
    BY <1>1, <1>3, <1>7, <1>10, <2>1
  <2>3. state_' \in [Ends -> States] /\ state_'["client"] = "activating"
    BY <1>6, <1>7, <1>10, <2>1
  <2>. QED BY <1>1, <2>1, <2>2, <2>3, ClientNegotiates
<1>11. CASE e = "client" /\ deactivate(e)
  <2>1. Pair!become(e, "deactivating") /\ Pair!write(e, "dont") /\ awaited' = 0
    BY <1>2, <1>11 DEF deactivate, Pair!deactivate
  <2>2. wire' \in [Ends -> Seq(Element)] /\ wire'["client"] = W /\ wire'["server"] = Append(V, "dont")
    BY <1>1, <1>3, <1>7, <1>11, <2>1
  <2>3. state_' \in [Ends -> States] /\ state_'["client"] = "deactivating"
    BY <1>6, <1>7, <1>11, <2>1
  <2>. QED BY <1>1, <2>1, <2>2, <2>3, ClientNegotiates
<1>12. CASE e = "client" /\ negotiate(e)
  <2>1. /\ wire[e] # <<>>
        /\ \/ /\ Head(wire[e]) = "will" /\ Pair!become(e, "active")
              /\ \/ ~Pair!requesting(e) /\ Pair!read_and_write(e, "do")
                 \/ Pair!requesting(e) /\ Pair!read(e)
           \/ /\ Head(wire[e]) = "wont" /\ Pair!become(e, "inactive")
              /\ Pair!read_and_write(e, "dont") \/ Pair!read(e)
    BY <1>2, <1>12 DEF negotiate, Pair!negotiate
  <2>2. Head(W) = "will" => state_["client"] \in {"inactive", "activating"}
    BY <1>1, <1>12, <2>1, ConformingFacts
  <2>3. awaited' = IF state_'["client"] # "active" THEN 0 ELSE awaited
    BY <1>12 DEF negotiate
  <2>4. CASE Head(W) = "will" /\ Pair!become(e, "active") /\ Pair!read_and_write(e, "do")
             /\ ~Pair!requesting(e)
    <3>1. state_["client"] = "inactive"
      BY <1>12, <2>2, <2>4 DEF Pair!requesting
    <3>2. state_' \in [Ends -> States] /\ state_'["client"] = "active"
      BY <1>6, <1>7, <1>12, <2>4
    <3>3. wire' \in [Ends -> Seq(Element)] /\ wire'["client"] = Tail(W) /\ wire'["server"] = Append(V, "do")
      BY <1>1, <1>5, <1>7, <1>12, <2>1, <2>4
    <3>. QED BY <1>1, <1>12, <2>1, <2>3, <2>4, <3>1, <3>2, <3>3, ClientNegotiates
  <2>5. CASE Head(W) = "will" /\ Pair!become(e, "active") /\ Pair!read(e) /\ Pair!requesting(e)
    <3>1. state_["client"] = "activating"
      BY <1>12, <2>2, <2>5 DEF Pair!requesting
    <3>2. state_' \in [Ends -> States] /\ state_'["client"] = "active"
      BY <1>6, <1>7, <1>12, <2>5
    <3>3. wire' \in [Ends -> Seq(Element)] /\ wire'["client"] = Tail(W) /\ wire'["server"] = V
      BY <1>1, <1>4, <1>12, <2>1, <2>5
    <3>. QED BY <1>1, <1>12, <2>1, <2>3, <2>5, <3>1, <3>2, <3>3, ClientNegotiates
  <2>6. CASE /\ Head(W) = "wont" /\ Pair!become(e, "inactive")
             /\ Pair!read_and_write(e, "dont") \/ Pair!read(e)
    <3>1. state_' \in [Ends -> States] /\ state_'["client"] = "inactive"
      BY <1>6, <1>7, <1>12, <2>6
    <3>2. /\ wire' \in [Ends -> Seq(Element)] /\ wire'["client"] = Tail(W)
          /\ wire'["server"] = Append(V, "dont") \/ wire'["server"] = V
      BY <1>1, <1>4, <1>5, <1>7, <1>12, <2>1, <2>6
    <3>3. awaited' = 0
      BY <2>3, <3>1
    <3>. QED BY <1>1, <1>12, <2>1, <2>6, <3>1, <3>2, <3>3, ClientNegotiates
  <2>. QED BY <1>12, <2>1, <2>4, <2>5, <2>6
<1>. QED BY <1>1, <1>8, <1>9, <1>10, <1>11, <1>12

-------------------------------------------------------------------------------
(***************************************************************************)
(* Then the steps that write and read subnegotiations.                     *)
(***************************************************************************)
\* What the server may write to the client, when it is active.
LEMMA ServerMayWrite ==
    ASSUME Inductive, Proved!Phases, state_["server"] = "active"
    PROVE  /\ ~Occurs(wire["client"], "wont") /\ state_["client"] # "inactive"
           /\ state_["client"] = "activating" => wire["client"] # <<>>
           /\ state_["client"] \in {"activating", "active"} =>
                 \A x \in Verb : ~Occurs(wire["server"], x)
           /\ \A data : Ordered(state_["client"], Append(wire["client"], "sub"),
                                Append(content["client"], data))
<1> DEFINE s == state_["client"]
           W == wire["client"]
           C == content["client"]
<1>1. wire \in [Ends -> Seq(Element)] /\ Ordered(s, W, C) /\ Filled(W, C)
  BY InductiveIs, EndFacts DEF Carries
<1>2. /\ ~Occurs(W, "wont") /\ s # "inactive"
      /\ s = "activating" => Occurs(W, "will")
      /\ s \in {"activating", "active"} => \A x \in Verb : ~Occurs(wire["server"], x)
  BY <1>1, PhaseFacts
<1>3. Occurs(W, "will") => W # <<>>
  BY DEF Occurs
<1> HIDE DEF s, W, C
<1>4. \A data : Ordered(s, Append(W, "sub"), Append(C, data))
  BY <1>1, <1>2, <1>3, OrderedSteps
<1>. QED BY <1>2, <1>3, <1>4 DEF s, W, C

LEMMA BroadcastStep ==
    ASSUME Inductive, Proved!Phases, NEW k \in Keys, NEW v \in Optional,
           variables_' = [variables_ EXCEPT ![k] = v], UNCHANGED <<known, awaited>>,
           active("server"), broadcast(k, v)
    PROVE  Inductive'
<1> DEFINE s == state_["client"]
           V == wire["server"]
           W == wire["client"]
           C == content["client"]
           n == awaited
           rsps == <<with_value(k, v)>>
           data == response_content(info, rsps)
<1>1. /\ state_ \in [Ends -> States] /\ wire \in [Ends -> Seq(Element)]
      /\ content \in [Ends -> Seq(Seq(Byte))]
      /\ \A e \in Ends : Carries(e, wire[e], content[e])
      /\ Kept /\ ToClient \in Seq(Seq(Byte)) /\ n \in Nat
      /\ Ordered(s, W, C) /\ Awaits(s, V, W, C, n)
      /\ "server" \in Ends /\ "client" \in Ends /\ Other("server") = "client"
  BY InductiveIs, EndFacts
<1>2. data \in Seq(Byte) /\ Head(data) # is
  <2>1. with_value(k, v) \in Reports
    BY ReportFacts
  <2>2. rsps \in Seq(Reports)
    BY <2>1
  <2> HIDE DEF rsps
  <2>. QED BY <2>2, Written, ByteFacts
<1>3. /\ Pair!write("server", "sub") /\ state_' = state_
      /\ content' = [content EXCEPT !["client"] = Append(C, data)]
      /\ behind' = behind \ {k}
  BY <1>1 DEF broadcast, write_subnegotiation, Pair!write_subnegotiation
<1>4. wire' \in [Ends -> Seq(Element)] /\ wire'["client"] = Append(W, "sub") /\ wire'["server"] = V
  BY <1>1, <1>3, WriteFacts, VerbSets
<1>5. /\ content'["client"] = Append(C, data) /\ content'["server"] = content["server"]
      /\ content' \in [Ends -> Seq(Seq(Byte))]
  <2>1. C \in Seq(Seq(Byte))
    BY <1>1
  <2>2. Append(C, data) \in Seq(Seq(Byte))
    <3> HIDE DEF C, data
    <3>. QED BY <1>2, <2>1, AppendProperties
  <2> HIDE DEF data
  <2>. QED BY <1>1, <1>3, <2>2
<1>6. Kept'
  BY <1>1, <1>3, <1>5, BroadcastKept DEF ToClient
<1> HIDE DEF data
<1>7. \A e \in Ends : Carries(e, wire'[e], content'[e])
  <2>1. Carries("client", Append(W, "sub"), Append(C, data))
    <3>1. Carries("client", W, C)
      BY <1>1
    <3> HIDE DEF W, C
    <3>. QED BY <1>2, <3>1, CarriesSteps
  <2>2. Carries("server", wire'["server"], content'["server"])
    BY <1>1, <1>4, <1>5
  <2>3. Carries("client", wire'["client"], content'["client"])
    BY <1>4, <1>5, <2>1
  <2>. QED BY <2>2, <2>3, EndFacts
<1>8. Ordered(s, Append(W, "sub"), Append(C, data))
  BY ServerMayWrite DEF active, Pair!active
<1>9. Awaits(s, V, Append(W, "sub"), Append(C, data), n)
  <2>1. s \in States /\ V \in Seq(Element) /\ Filled(W, C)
    BY <1>1 DEF Carries
  <2> HIDE DEF s, V, W, C, n
  <2>. QED BY <1>1, <1>2, <2>1, AwaitsSubs DEF States
<1>. QED BY <1>1, <1>3, <1>4, <1>5, <1>6, <1>7, <1>8, <1>9, InductiveNext

LEMMA ChangeStep ==
    ASSUME Inductive, Proved!Phases, NEW k \in Keys, NEW v \in Optional, change(k, v)
    PROVE  Inductive'
<1>1. CASE active("server")
  BY <1>1, BroadcastStep DEF change
<1>2. CASE ~active("server")
  <2>1. /\ state_' = state_ /\ wire' = wire /\ content' = content
        /\ UNCHANGED <<known, awaited>> /\ variables_' = [variables_ EXCEPT ![k] = v]
        /\ behind' = IF v = variables_[k] THEN behind ELSE behind \cup {k}
    BY <1>2 DEF change, pair
  <2>2. Kept'
    <3>1. Kept /\ ToClient \in Seq(Seq(Byte)) /\ ToClient' = ToClient
      BY <2>1, InductiveIs DEF ToClient
    <3>. QED BY <2>1, <3>1, SilentKept
  <2>. QED BY <2>1, <2>2, InductiveIs, InductiveNext
<1>. QED BY <1>1, <1>2

LEMMA RequestStepKeeps ==
    ASSUME Inductive, NEW reqs \in Queries, request_variables(reqs)
    PROVE  Inductive'
<1> DEFINE s == state_["client"]
           V == wire["server"]
           W == wire["client"]
           C == content["client"]
           D == content["server"]
           n == awaited
           data == request_content(reqs)
           next == IF s \in {"activating", "active"} THEN n + 1 ELSE n
<1>1. /\ state_ \in [Ends -> States] /\ wire \in [Ends -> Seq(Element)]
      /\ content \in [Ends -> Seq(Seq(Byte))]
      /\ \A e \in Ends : Carries(e, wire[e], content[e])
      /\ Kept /\ ToClient \in Seq(Seq(Byte)) /\ n \in Nat
      /\ Ordered(s, W, C) /\ Awaits(s, V, W, C, n)
      /\ "server" \in Ends /\ "client" \in Ends /\ Other("client") = "server"
  BY InductiveIs, EndFacts
<1>2. data \in Seq(Byte)
  BY RequestContentType
<1>3. /\ Pair!write("client", "sub") /\ state_' = state_
      /\ content' = [content EXCEPT !["server"] = Append(D, data)]
      /\ awaited' = next /\ UNCHANGED <<variables_, known, behind>>
  BY <1>1 DEF request_variables, write_subnegotiation, Pair!write_subnegotiation
<1>4. wire' \in [Ends -> Seq(Element)] /\ wire'["server"] = Append(V, "sub") /\ wire'["client"] = W
  BY <1>1, <1>3, WriteFacts, VerbSets
<1> HIDE DEF data
<1>5. /\ content'["server"] = Append(D, data) /\ content'["client"] = C
      /\ content' \in [Ends -> Seq(Seq(Byte))]
  <2>1. D \in Seq(Seq(Byte))
    BY <1>1
  <2>2. Append(D, data) \in Seq(Seq(Byte))
    <3> HIDE DEF D
    <3>. QED BY <1>2, <2>1, AppendProperties
  <2>. QED BY <1>1, <1>3, <2>2
<1>6. Kept'
  BY <1>1, <1>3, <1>5, SameKept DEF ToClient
<1>7. \A e \in Ends : Carries(e, wire'[e], content'[e])
  <2>1. Carries("server", Append(V, "sub"), Append(D, data))
    <3>1. Carries("server", V, D)
      BY <1>1
    <3> HIDE DEF V, D
    <3>. QED BY <1>2, <3>1, CarriesSteps
  <2>2. Carries("server", wire'["server"], content'["server"])
    BY <1>4, <1>5, <2>1
  <2>3. Carries("client", wire'["client"], content'["client"])
    BY <1>1, <1>4, <1>5
  <2>. QED BY <2>2, <2>3, EndFacts
<1>8. Awaits(s, Append(V, "sub"), W, C, next)
  <2>1. s \in States /\ V \in Seq(Element) /\ Filled(W, C)
    BY <1>1 DEF Carries
  <2> HIDE DEF s, V, W, C, n
  <2>. QED BY <1>1, <2>1, AwaitsSubs DEF States
<1>9. next \in Nat
  BY <1>1
<1>. QED BY <1>1, <1>3, <1>4, <1>5, <1>6, <1>7, <1>8, <1>9, InductiveNext

LEMMA AnswerStep ==
    ASSUME Inductive, Proved!Phases, subnegotiate_server, active("server")
    PROVE  Inductive'
<1> DEFINE s == state_["client"]
           V == wire["server"]
           W == wire["client"]
           C == content["client"]
           D == content["server"]
           n == awaited
           rsps == responses(Head(D))
           data == response_content(is, rsps)
<1>1. /\ state_ \in [Ends -> States] /\ wire \in [Ends -> Seq(Element)]
      /\ content \in [Ends -> Seq(Seq(Byte))]
      /\ \A e \in Ends : Carries(e, wire[e], content[e])
      /\ Kept /\ ToClient \in Seq(Seq(Byte)) /\ n \in Nat
      /\ Ordered(s, W, C) /\ Awaits(s, V, W, C, n)
      /\ "server" \in Ends /\ "client" \in Ends /\ Other("server") = "client"
  BY InductiveIs, EndFacts
<1>2. /\ V # <<>> /\ Head(V) = "sub" /\ Pair!read_and_write("server", "sub") /\ state_' = state_
      /\ content' = [content EXCEPT !["server"] = Tail(D), !["client"] = Append(C, data)]
      /\ behind' = behind \ {[type |-> rsps[i].type, name |-> rsps[i].name] : i \in DOMAIN rsps}
      /\ UNCHANGED <<variables_, known, awaited>>
  BY DEF subnegotiate_server, answer
<1>3. Carries("server", V, D) /\ Carries("client", W, C)
  BY <1>1
<1>4. /\ D # <<>> /\ D \in Seq(Seq(Byte)) /\ C \in Seq(Seq(Byte))
      /\ Carries("server", Tail(V), Tail(D))
  <2> HIDE DEF V, D, W, C
  <2>. QED BY <1>2, <1>3, CarriesSteps DEF Carries, Filled
<1>5. Head(D) \in Seq(Byte) /\ Tail(D) \in Seq(Seq(Byte))
  <2> HIDE DEF D
  <2>. QED BY <1>4, HeadTailProperties
<1>6. /\ rsps \in Seq(Reports)
      /\ \A i \in 1..Len(rsps) : rsps[i].value = variables_[key(rsps[i])]
  BY <1>1, <1>5, ResponsesAre DEF Kept
<1>7. behind' = behind \ KeysOf(rsps)
  <2>1. DOMAIN rsps = 1..Len(rsps)
    BY <1>6, LenProperties
  <2>. QED BY <1>2, <2>1 DEF KeysOf, key
<1> HIDE DEF rsps
<1>8. data \in Seq(Byte) /\ Head(data) = is
  BY <1>6, Written
<1>9. /\ wire' \in [Ends -> Seq(Element)] /\ wire'["client"] = Append(W, "sub")
      /\ wire'["server"] = Tail(V)
  BY <1>1, <1>2, ReadAndWriteFacts, VerbSets
<1>10. /\ content'["client"] = Append(C, data) /\ content'["server"] = Tail(D)
       /\ content' \in [Ends -> Seq(Seq(Byte))]
  <2>1. Append(C, data) \in Seq(Seq(Byte))
    <3> HIDE DEF C, data
    <3>. QED BY <1>4, <1>8, AppendProperties
  <2> HIDE DEF data
  <2>. QED BY <1>1, <1>2, <1>5, <2>1
<1>11. Kept'
  BY <1>1, <1>2, <1>6, <1>7, <1>10, AnswerKept DEF ToClient
<1> HIDE DEF data
<1>12. \A e \in Ends : Carries(e, wire'[e], content'[e])
  <2>1. Carries("client", Append(W, "sub"), Append(C, data))
    <3> HIDE DEF W, C
    <3>. QED BY <1>3, <1>8, CarriesSteps
  <2>2. Carries("server", wire'["server"], content'["server"])
    BY <1>4, <1>9, <1>10
  <2>3. Carries("client", wire'["client"], content'["client"])
    BY <1>9, <1>10, <2>1
  <2>. QED BY <2>2, <2>3, EndFacts
<1>13. /\ ~Occurs(W, "wont") /\ s # "inactive"
       /\ s \in {"activating", "active"} => \A x \in Verb : ~Occurs(V, x)
       /\ Ordered(s, Append(W, "sub"), Append(C, data))
  BY ServerMayWrite DEF active, Pair!active
<1>14. Awaits(s, Tail(V), Append(W, "sub"), Append(C, data), n)
  <2>1. s \in States /\ V \in Seq(Element) /\ Filled(W, C)
    BY <1>1 DEF Carries
  <2> HIDE DEF s, V, W, C, n
  <2>. QED BY <1>1, <1>2, <1>8, <1>13, <2>1, AwaitsSubs DEF States
<1>. QED BY <1>1, <1>2, <1>9, <1>10, <1>11, <1>12, <1>13, <1>14, InductiveNext

LEMMA ServerDropStep ==
    ASSUME Inductive, Proved!Phases, subnegotiate_server, ~active("server")
    PROVE  Inductive'
<1> DEFINE s == state_["client"]
           V == wire["server"]
           W == wire["client"]
           C == content["client"]
           D == content["server"]
           n == awaited
<1>1. /\ state_ \in [Ends -> States] /\ wire \in [Ends -> Seq(Element)]
      /\ content \in [Ends -> Seq(Seq(Byte))]
      /\ \A e \in Ends : Carries(e, wire[e], content[e])
      /\ Kept /\ ToClient \in Seq(Seq(Byte)) /\ n \in Nat
      /\ Ordered(s, W, C) /\ Awaits(s, V, W, C, n)
      /\ "server" \in Ends /\ "client" \in Ends /\ Other("server") = "client"
  BY InductiveIs, EndFacts
<1>2. /\ V # <<>> /\ Head(V) = "sub" /\ Pair!read("server") /\ state_' = state_
      /\ content' = [content EXCEPT !["server"] = Tail(D)]
      /\ UNCHANGED <<variables_, known, behind, awaited>>
  BY DEF subnegotiate_server, Pair!subnegotiate
<1>3. Carries("server", V, D) /\ Carries("client", W, C)
  BY <1>1
<1>4. D # <<>> /\ D \in Seq(Seq(Byte)) /\ Carries("server", Tail(V), Tail(D))
  <2> HIDE DEF V, D, W, C
  <2>. QED BY <1>2, <1>3, CarriesSteps DEF Carries, Filled
<1>5. Tail(D) \in Seq(Seq(Byte))
  <2> HIDE DEF D
  <2>. QED BY <1>4, HeadTailProperties
<1>6. wire' \in [Ends -> Seq(Element)] /\ wire'["client"] = W /\ wire'["server"] = Tail(V)
  BY <1>1, <1>2, ReadFacts
<1>7. /\ content'["client"] = C /\ content'["server"] = Tail(D)
      /\ content' \in [Ends -> Seq(Seq(Byte))]
  BY <1>1, <1>2, <1>5
<1>8. Kept'
  BY <1>1, <1>2, <1>7, SameKept DEF ToClient
<1>9. \A e \in Ends : Carries(e, wire'[e], content'[e])
  <2>1. Carries("server", wire'["server"], content'["server"])
    BY <1>4, <1>6, <1>7
  <2>2. Carries("client", wire'["client"], content'["client"])
    BY <1>3, <1>6, <1>7
  <2>. QED BY <2>1, <2>2, EndFacts
<1>10. s \in {"activating", "active"} => Occurs(W, "wont") \/ \E x \in Verb : Occurs(V, x)
  BY <1>1, PhaseFacts DEF active, Pair!active
<1>11. Awaits(s, Tail(V), W, C, n)
  <2>1. s \in States /\ V \in Seq(Element) /\ Filled(W, C)
    BY <1>1 DEF Carries
  <2> HIDE DEF s, V, W, C, n
  <2>. QED BY <1>1, <1>2, <1>10, <2>1, AwaitsSubs DEF States
<1>. QED BY <1>1, <1>2, <1>6, <1>7, <1>8, <1>9, <1>11, InductiveNext

LEMMA ClientReadStep ==
    ASSUME Inductive, subnegotiate_client
    PROVE  Inductive'
<1> DEFINE s == state_["client"]
           V == wire["server"]
           W == wire["client"]
           C == content["client"]
           n == awaited
           left == IF Head(Head(C)) = is THEN n - 1 ELSE n
<1>1. /\ state_ \in [Ends -> States] /\ wire \in [Ends -> Seq(Element)]
      /\ content \in [Ends -> Seq(Seq(Byte))]
      /\ \A e \in Ends : Carries(e, wire[e], content[e])
      /\ Kept /\ ToClient \in Seq(Seq(Byte)) /\ n \in Nat
      /\ Ordered(s, W, C) /\ Awaits(s, V, W, C, n)
      /\ "server" \in Ends /\ "client" \in Ends /\ Other("client") = "server"
  BY InductiveIs, EndFacts
<1>2. /\ W # <<>> /\ Head(W) = "sub" /\ Pair!read("client") /\ state_' = state_
      /\ content' = [content EXCEPT !["client"] = Tail(C)] /\ UNCHANGED variables_
  BY DEF subnegotiate_client, Pair!subnegotiate
<1>3. Carries("server", V, content["server"]) /\ Carries("client", W, C)
  BY <1>1
<1>4. C # <<>> /\ C \in Seq(Seq(Byte)) /\ Carries("client", Tail(W), Tail(C))
  <2> HIDE DEF W, C
  <2>. QED BY <1>2, <1>3, CarriesSteps DEF Carries, Filled
<1>5. Tail(C) \in Seq(Seq(Byte))
  <2> HIDE DEF C
  <2>. QED BY <1>4, HeadTailProperties
<1>6. wire' \in [Ends -> Seq(Element)] /\ wire'["server"] = V /\ wire'["client"] = Tail(W)
  BY <1>1, <1>2, ReadFacts
<1>7. /\ content'["client"] = Tail(C) /\ content'["server"] = content["server"]
      /\ content' \in [Ends -> Seq(Seq(Byte))]
  BY <1>1, <1>2, <1>5
<1>8. \A e \in Ends : Carries(e, wire'[e], content'[e])
  <2>1. Carries("server", wire'["server"], content'["server"])
    BY <1>3, <1>6, <1>7
  <2>2. Carries("client", wire'["client"], content'["client"])
    BY <1>4, <1>6, <1>7
  <2>. QED BY <2>1, <2>2, EndFacts
<1>9. s # "inactive" /\ s # "activating" /\ Filled(W, C) /\ s \in States /\ V \in Seq(Element)
  BY <1>1, <1>2, <1>4 DEF Ordered, Carries
<1>10. Ordered(s, Tail(W), Tail(C))
  <2> HIDE DEF s, W, C
  <2>. QED BY <1>1, <1>2, <1>9, OrderedSteps
<1>11. Kept' /\ awaited' \in Nat /\ Awaits(s, V, Tail(W), Tail(C), awaited')
  <2>1. CASE s = "active"
    <3>1. /\ known' = Tell(known, for_each_response(Head(C))) /\ UNCHANGED behind
          /\ awaited' = left
      BY <2>1 DEF subnegotiate_client, active, Pair!active, Tell
    <3>2. Kept'
      BY <1>1, <1>2, <1>4, <1>7, <3>1, ReadKept DEF ToClient
    <3>3. left \in Nat /\ Awaits(s, V, Tail(W), Tail(C), left)
      <4> HIDE DEF s, V, W, C, n
      <4>. QED BY <1>1, <1>2, <1>9, <2>1, AwaitsSubs DEF States
    <3>. QED BY <3>1, <3>2, <3>3
  <2>2. CASE s = "deactivating"
    <3>1. /\ behind' = behind \cup (Mentioned(Head(C)) \ MentionedLater)
          /\ UNCHANGED <<known, awaited>>
      BY <2>2 DEF subnegotiate_client, active, Pair!active
    <3>2. Kept'
      BY <1>1, <1>2, <1>4, <1>7, <3>1, DropKept DEF ToClient
    <3>3. n = 0 /\ Awaits(s, V, Tail(W), Tail(C), 0)
      BY <1>1, <2>2 DEF Awaits
    <3>. QED BY <1>1, <3>1, <3>2, <3>3
  <2>. QED BY <1>9, <2>1, <2>2 DEF States
<1>. QED BY <1>1, <1>2, <1>6, <1>7, <1>8, <1>10, <1>11, InductiveNext

-------------------------------------------------------------------------------
(***************************************************************************)
(* The theorems.                                                           *)
(***************************************************************************)
LEMMA NothingComing ==
    ASSUME NEW copy
    PROVE  Tell(copy, Spread(<<>>, reading)) = copy
BY SpreadEmpty, FoldedEmpty DEF Tell

LEMMA InitInductive == Init => Inductive
<1> SUFFICES ASSUME Init PROVE Inductive
  OBVIOUS
<1> DEFINE none == <<>>
<1>1. /\ state_ = [e \in Ends |-> "inactive"] /\ wire = [e \in Ends |-> none]
      /\ content = [e \in Ends |-> none] /\ variables_ = [k \in Keys |-> none]
      /\ known = variables_ /\ behind = {} /\ awaited = 0
      /\ "server" \in Ends /\ "client" \in Ends
  BY EndFacts DEF Init, Pair!Init
<1>2. /\ none \in Optional /\ Len(none) = 0 /\ \A S : none \in Seq(S)
      /\ \A keep : Only(none, keep) = none
  BY ProjectEmpty, EmptySeq DEF Optional, Only
<1>3. \A k \in Keys : variables_[k] = none
  BY <1>1
<1> HIDE DEF none
<1>4. Pair!TypeOK
  <2>1. state_ \in [Pair!Ends -> Pair!internal_state]
    BY <1>1, EndFacts DEF Pair!internal_state
  <2>. QED BY <1>1, <1>2, <2>1, EndFacts DEF Pair!TypeOK
<1>5. TypeOK
  BY <1>1, <1>2, <1>4 DEF TypeOK, Copies
<1>6. ToClient = none /\ ToClient \in Seq(Seq(Byte)) /\ Readable
  BY <1>1, <1>2 DEF Readable, ToClient
<1>7. Copied
  <2>1. Tell(known, Spread(ToClient, reading)) = known
    BY <1>6, NothingComing DEF none
  <2>2. WillBeRight(ToClient, known, variables_, behind)
    BY <1>1, <2>1 DEF WillBeRight
  <2>. QED BY <1>6, <2>2, CopiedIs DEF ToClient
<1>8. FinitelyMany
  <2>1. {k \in Keys : variables_[k] # <<>>} = {}
    BY <1>3 DEF none
  <2>. QED BY <2>1, FS_EmptySet DEF FinitelyMany
<1>9. InOrder
  BY <1>1, <1>2, <1>6 DEF InOrder, ToClient, none
<1>10. Awaiting
  BY <1>1 DEF Awaiting
<1>. QED BY <1>5, <1>6, <1>7, <1>8, <1>9, <1>10 DEF Inductive

LEMMA NextInductive ==
    Inductive /\ Proved!Phases /\ Proved!ConformingPeer /\ [Next]_vars => Inductive'
<1> SUFFICES ASSUME Inductive, Proved!Phases, Proved!ConformingPeer, [Next]_vars
             PROVE  Inductive'
  OBVIOUS
<1>1. CASE \E e \in Ends : activate(e) \/ deactivate(e) \/ negotiate(e)
  BY <1>1, NegotiationSteps
<1>2. CASE \E name \in Names :
             \/ \E v \in Values : set_variable(name, v) \/ set_user_variable(name, v)
             \/ delete_variable(name)
             \/ delete_user_variable(name)
  <2>1. \A name \in Names : /\ [type |-> "var", name |-> name] \in Keys
                            /\ [type |-> "uservar", name |-> name] \in Keys
    BY DEF Keys, variable_type
  <2>2. <<>> \in Optional /\ \A v \in Values : <<v>> \in Optional
    BY DEF Optional
  <2>3. \E k \in Keys, v \in Optional : change(k, v)
    BY <1>2, <2>1, <2>2 DEF set_variable, set_user_variable, delete_variable, delete_user_variable
  <2>. QED BY <2>3, ChangeStep
<1>3. CASE \E reqs \in Queries : request_variables(reqs)
  BY <1>3, RequestStepKeeps
<1>4. CASE subnegotiate_server
  BY <1>4, AnswerStep, ServerDropStep
<1>5. CASE subnegotiate_client
  BY <1>5, ClientReadStep
<1>6. CASE UNCHANGED vars
  <2>1. /\ state_' = state_ /\ wire' = wire /\ content' = content
        /\ UNCHANGED <<variables_, known, behind>> /\ awaited' = awaited
    BY <1>6 DEF vars
  <2>2. Kept'
    BY <2>1, InductiveIs, SameKept DEF ToClient
  <2>. QED BY <2>1, <2>2, InductiveIs, InductiveNext
<1>. QED BY <1>1, <1>2, <1>3, <1>4, <1>5, <1>6 DEF Next

\* Whatever the names, values and lists of requests: what is on its way to the
\* client makes its copy right, and what it waits for is on one of the wires, or
\* is refused; for every interleaving of changes, requests and negotiations.
THEOREM InductiveHolds == Spec => []Inductive
<1>1. Spec => []Proved!Phases /\ []Proved!ConformingPeer
  BY PhasesFollow
<1>. QED BY <1>1, InitInductive, NextInductive, PTL DEF Spec

\* The types of the variables, and a content for each subnegotiation under way.
THEOREM TypeCorrect == Spec => []TypeOK
<1>1. Inductive => TypeOK
  BY DEF Inductive
<1>. QED BY <1>1, InductiveHolds, PTL

\* A client that has read everything has, of every variable that it is not
\* behind in, the value that the server has: no older value replaces a newer one.
THEOREM UpToDateHolds == Spec => []UpToDate
<1>1. ASSUME Inductive PROVE UpToDate
  <2> SUFFICES ASSUME content["client"] = <<>>, NEW k \in Keys \ behind
               PROVE  known[k] = variables_[k]
    BY DEF UpToDate
  <2>1. WillBeRight(content["client"], known, variables_, behind)
    BY <1>1, InductiveIs, KeptIs DEF ToClient
  <2>2. Tell(known, Spread(<<>>, reading))[k] = variables_[k]
    BY <2>1 DEF WillBeRight
  <2>. QED BY <2>2, NothingComing
<1>. QED BY <1>1, InductiveHolds, PTL

\* When nothing is under way, every request that the client wrote while it was
\* active, or had asked to be, has been answered.
THEOREM EveryRequestAnsweredHolds == Spec => []EveryRequestAnswered
<1>1. ASSUME Inductive PROVE EveryRequestAnswered
  <2> SUFFICES ASSUME \A e \in Ends : wire[e] = <<>> PROVE awaited = 0
    BY DEF EveryRequestAnswered
  <2> DEFINE C == content["client"]
  <2>1. /\ wire["server"] = <<>> /\ wire["client"] = <<>>
        /\ Awaits(state_["client"], <<>>, <<>>, C, awaited) /\ Filled(<<>>, C) /\ awaited \in Nat
    <3>1. wire["server"] = <<>> /\ wire["client"] = <<>> /\ "client" \in Ends
      BY EndFacts
    <3>. QED BY <1>1, <3>1, InductiveIs DEF Carries
  <2>2. ~Occurs(<<>>, "wont") /\ ~Occurs(<<>>, "sub")
    BY DEF Occurs
  <2> HIDE DEF C
  <2>3. C = <<>> /\ C \in Seq(Seq(Byte))
    <3> DEFINE none == <<>>
    <3>1. Filled(none, C) /\ ~Occurs(none, "sub") /\ C \in Seq(Seq(Byte))
      BY <2>1, <2>2 DEF Filled
    <3> HIDE DEF none
    <3>. QED BY <3>1, FilledSubs
  <2>4. AnswersIn(C) = 0
    BY <2>3, AnswersSteps
  <2>5. \A m \in 0..Len(<<>>) : m = 0
    BY SMT
  <2>. QED BY <2>1, <2>2, <2>4, <2>5 DEF Awaits
<1>. QED BY <1>1, InductiveHolds, PTL
-------------------------------------------------------------------------------
(***************************************************************************)
(* Payloads: what is sent is what is received.                             *)
(***************************************************************************)
\* The operators of the community modules and of Wires, as the instances have them.
LEMMA SameFlatten ==
    ASSUME NEW ss
    PROVE  Msdp!FlattenSeq(ss) = FlattenSeq(ss)
BY DEF Msdp!FlattenSeq, FlattenSeq

LEMMA SameEnds ==
    ASSUME NEW s
    PROVE  Msdp!Front(s) = Front(s) /\ Msdp!Last(s) = Last(s)
BY DEF Msdp!Front, Msdp!Last, Front, Last

LEMMA SameFolds ==
    ASSUME NEW step, NEW base, NEW s
    PROVE  Charset!Folded(step, base, s) = Folded(step, base, s)
BY DEF Charset!Folded, Folded

\* The first of the elements that are folded.
LEMMA FoldedRead ==
    ASSUME NEW P, NEW T, NEW step, Steps(step, P, T),
           NEW base \in P, NEW s \in Seq(T), s # <<>>
    PROVE  /\ At(step, base, Head(s)) \in P /\ Tail(s) \in Seq(T)
           /\ Folded(step, base, s) = Folded(step, At(step, base, Head(s)), Tail(s))
<1> DEFINE x == Head(s)
           rest == Tail(s)
           one == <<x>>
<1>1. x \in T /\ rest \in Seq(T) /\ one \in Seq(T) /\ s = one \o rest
  <2>1. x \in T /\ rest \in Seq(T)
    OBVIOUS
  <2>2. s = <<x>> \o rest
    OBVIOUS
  <2> HIDE DEF x, rest
  <2>. QED BY <2>1, <2>2
<1>2. Folded(step, base, one) = At(step, base, x)
  BY <1>1, FoldedOne
<1> HIDE DEF x, rest, one
<1>3. At(step, base, x) \in P
  BY <1>1 DEF Steps, At
<1>4. Folded(step, base, one \o rest) = Folded(step, Folded(step, base, one), rest)
  BY <1>1, FoldedConcat
<1>. QED BY <1>1, <1>2, <1>3, <1>4 DEF x, rest
-------------------------------------------------------------------------------
(***************************************************************************)
(* Requests.                                                               *)
(***************************************************************************)
\* A request parser, written out, and what it makes of data.
Asked(state, type, name, out) ==
    [state |-> state, req |-> [type |-> type, name |-> name], out |-> out]

FedRequests(p, data) == Folded(request_step, p, data)

LEMMA AskedType ==
    ASSUME NEW state \in {"send", "type", "name", "name_esc"},
           NEW type \in variable_type, NEW name \in Seq(Byte), NEW out \in Seq(request)
    PROVE  Asked(state, type, name, out) \in request_parser
BY DEF Asked, request_parser, request

LEMMA AskedFacts ==
    ASSUME NEW p \in request_parser
    PROVE  /\ FedRequests(p, <<>>) = p
           /\ \A data \in Seq(Byte) : FedRequests(p, data) \in request_parser
           /\ \A first, rest \in Seq(Byte) :
                 FedRequests(p, first \o rest) = FedRequests(FedRequests(p, first), rest)
           /\ \A by \in Byte : /\ FedRequests(p, <<by>>) = parse_request_byte(p, by)
                               /\ parse_request_byte(p, by) \in request_parser
           /\ \A a, b \in Byte :
                 FedRequests(p, <<a, b>>) = parse_request_byte(parse_request_byte(p, a), b)
<1>1. FedRequests(p, <<>>) = p
  BY FoldedEmpty DEF FedRequests
<1>2. ASSUME NEW data \in Seq(Byte) PROVE FedRequests(p, data) \in request_parser
  BY FoldedType, RequestStep DEF FedRequests
<1>3. ASSUME NEW first \in Seq(Byte), NEW rest \in Seq(Byte)
      PROVE  FedRequests(p, first \o rest) = FedRequests(FedRequests(p, first), rest)
  BY FoldedConcat, RequestStep DEF FedRequests
<1>4. ASSUME NEW q \in request_parser, NEW by \in Byte
      PROVE  /\ FedRequests(q, <<by>>) = parse_request_byte(q, by)
             /\ parse_request_byte(q, by) \in request_parser
  <2>1. FedRequests(q, <<by>>) = At(request_step, q, by)
    BY FoldedOne, RequestStep DEF FedRequests
  <2>2. /\ parse_request_byte(q, by) = At(request_step, q, by)
        /\ At(request_step, q, by) \in request_parser
    BY RequestStep DEF Steps, At, request_step
  <2>. QED BY <2>1, <2>2
<1>5. ASSUME NEW a \in Byte, NEW b \in Byte
      PROVE  FedRequests(p, <<a, b>>) = parse_request_byte(parse_request_byte(p, a), b)
  <2>1. <<a>> \in Seq(Byte) /\ <<b>> \in Seq(Byte) /\ <<a>> \o <<b>> = <<a, b>>
    <3>1. <<a>> \in Seq(Byte) /\ <<b>> \in Seq(Byte)
      BY SMT
    <3>2. Append(<<>>, a) = <<a>> /\ Append(<<>>, a) \o <<b>> = <<a, b>>
      BY TupleFacts
    <3>. QED BY <3>1, <3>2
  <2>2. FedRequests(p, <<a>> \o <<b>>) = FedRequests(FedRequests(p, <<a>>), <<b>>)
    BY <1>3, <2>1
  <2>. QED BY <1>4, <2>1, <2>2
<1>. QED BY <1>1, <1>2, <1>3, <1>4, <1>5

\* What a byte does to a request parser that is written out.
LEMMA AskedBytes ==
    ASSUME NEW type \in variable_type, NEW name \in Seq(Byte), NEW out \in Seq(request),
           NEW by \in Byte
    PROVE  /\ parse_request_byte(Asked("send", type, name, out), by)
                = Asked("type", type, name, out)
           /\ parse_request_byte(Asked("type", type, name, out), by)
                = Asked("name", byte_to_type(by), name, out)
           /\ by \in {var, uservar} =>
                parse_request_byte(Asked("name", type, name, out), by)
                  = Asked("name", byte_to_type(by), <<>>,
                          Append(out, [type |-> type, name |-> name]))
           /\ parse_request_byte(Asked("name", type, name, out), esc)
                = Asked("name_esc", type, name, out)
           /\ by \notin Special => parse_request_byte(Asked("name", type, name, out), by)
                = Asked("name", type, Append(name, by), out)
           /\ parse_request_byte(Asked("name_esc", type, name, out), by)
                = Asked("name", type, Append(name, by), out)
<1>1. /\ parse_request_byte(Asked("send", type, name, out), by)
           = Asked("type", type, name, out)
      /\ parse_request_byte(Asked("type", type, name, out), by)
           = Asked("name", byte_to_type(by), name, out)
      /\ parse_request_byte(Asked("name_esc", type, name, out), by)
           = Asked("name", type, Append(name, by), out)
  BY DEF Asked, parse_request_byte, parse_request_send, parse_request_type,
         parse_request_name_esc
<1>2. ASSUME by \in {var, uservar}
      PROVE  parse_request_byte(Asked("name", type, name, out), by)
               = Asked("name", byte_to_type(by), <<>>,
                       Append(out, [type |-> type, name |-> name]))
  BY <1>2, ByteFacts DEF Asked, parse_request_byte, parse_request_name, fresh_request
<1>3. /\ parse_request_byte(Asked("name", type, name, out), esc)
           = Asked("name_esc", type, name, out)
      /\ by \notin Special => parse_request_byte(Asked("name", type, name, out), by)
           = Asked("name", type, Append(name, by), out)
  BY ByteFacts DEF Asked, parse_request_byte, parse_request_name, Special
<1>. QED BY <1>1, <1>2, <1>3

LEMMA AskedNameByte ==
    ASSUME NEW type \in variable_type, NEW name \in Seq(Byte), NEW out \in Seq(request),
           NEW by \in Byte
    PROVE  FedRequests(Asked("name", type, name, out), escaped[by])
              = Asked("name", type, Append(name, by), out)
<1> DEFINE p == Asked("name", type, name, out)
<1>1. p \in request_parser
  BY AskedType
<1>2. CASE by \in Special
  <2>1. escaped[by] = <<esc, by>> /\ esc \in Byte
    BY <1>2, ByteFacts DEF escaped
  <2>2. parse_request_byte(p, esc) = Asked("name_esc", type, name, out)
    BY AskedBytes
  <2>3. parse_request_byte(Asked("name_esc", type, name, out), by)
          = Asked("name", type, Append(name, by), out)
    BY AskedBytes
  <2>. QED BY <1>1, <2>1, <2>2, <2>3, AskedFacts
<1>3. CASE by \notin Special
  <2>1. escaped[by] = <<by>>
    BY <1>3 DEF escaped
  <2>2. parse_request_byte(p, by) = Asked("name", type, Append(name, by), out)
    BY <1>3, AskedBytes
  <2>. QED BY <1>1, <2>1, <2>2, AskedFacts
<1>. QED BY <1>2, <1>3

\* The bytes of a name are read as that name.
LEMMA AskedNameRead ==
    ASSUME NEW type \in variable_type, NEW out \in Seq(request)
    PROVE  \A name \in Seq(Byte) :
              FedRequests(Asked("name", type, <<>>, out), append_escaped(name))
                 = Asked("name", type, name, out)
<1> DEFINE p == Asked("name", type, <<>>, out)
           R == {name \in Seq(Byte) :
                    FedRequests(p, append_escaped(name)) = Asked("name", type, name, out)}
<1>0. p \in request_parser
  BY EmptySeq, AskedType
<1>1. <<>> \in R
  BY <1>0, EscapedAre, AskedFacts, EmptySeq
<1>2. ASSUME NEW name \in Seq(Byte), NEW by \in Byte, name \in R PROVE Append(name, by) \in R
  <2>1. /\ append_escaped(Append(name, by)) = append_escaped(name) \o escaped[by]
        /\ append_escaped(name) \in Seq(Byte) /\ escaped[by] \in Seq(Byte)
        /\ Append(name, by) \in Seq(Byte)
    BY EscapedAre, EscapedType, AppendProperties
  <2>2. FedRequests(p, append_escaped(Append(name, by)))
          = FedRequests(FedRequests(p, append_escaped(name)), escaped[by])
    BY <1>0, <2>1, AskedFacts
  <2>3. FedRequests(p, append_escaped(name)) = Asked("name", type, name, out)
    BY <1>2
  <2>4. FedRequests(Asked("name", type, name, out), escaped[by])
          = Asked("name", type, Append(name, by), out)
    BY AskedNameByte
  <2>. QED BY <2>1, <2>2, <2>3, <2>4
<1>3. \A name \in Seq(Byte) : name \in R
  <2> HIDE DEF R
  <2>. QED BY <1>1, <1>2, SequencesReached
<1>. QED BY <1>3

\* What is written of a request.
requested == [req \in request |-> <<type_to_byte(req.type)>> \o append_escaped(req.name)]

LEMMA RequestMembers ==
    ASSUME NEW req \in request
    PROVE  /\ req.type \in variable_type /\ req.name \in Seq(Byte)
           /\ req = [type |-> req.type, name |-> req.name]
BY DEF request

LEMMA RequestedType ==
    ASSUME NEW req \in request
    PROVE  /\ type_to_byte(req.type) \in Byte /\ append_escaped(req.name) \in Seq(Byte)
           /\ requested[req] \in Seq(Byte)
           /\ requested[req] = <<type_to_byte(req.type)>> \o append_escaped(req.name)
<1> DEFINE by == type_to_byte(req.type)
           s == append_escaped(req.name)
<1>1. by \in Byte /\ s \in Seq(Byte)
  BY RequestMembers, TypesAreBytes, EscapedAre
<1>2. requested[req] = <<by>> \o s
  BY DEF requested
<1> HIDE DEF by, s
<1>3. <<by>> \in Seq(Byte)
  BY <1>1
<1>4. <<by>> \o s \in Seq(Byte)
  BY <1>1, <1>3, ConcatProperties
<1>. QED BY <1>1, <1>2, <1>4 DEF by, s

LEMMA RequestedRead ==
    ASSUME NEW req \in request, NEW out \in Seq(request)
    PROVE  /\ FedRequests(Asked("type", "var", <<>>, out), requested[req])
                = Asked("name", req.type, req.name, out)
           /\ \A before \in request :
                 FedRequests(Asked("name", before.type, before.name, out), requested[req])
                   = Asked("name", req.type, req.name, Append(out, before))
<1> DEFINE first == type_to_byte(req.type)
           rest == append_escaped(req.name)
           one == <<first>>
           none == <<>>
<1>1. req.type \in variable_type /\ req.name \in Seq(Byte)
  BY RequestMembers
<1>2. first \in Byte /\ first \in {var, uservar} /\ byte_to_type(first) = req.type
  BY <1>1, TypesAreBytes
<1>3. requested[req] = one \o rest /\ rest \in Seq(Byte) /\ none \in Seq(Byte)
  BY RequestedType, EmptySeq
<1>4. one \in Seq(Byte)
  BY <1>2
<1>5. ASSUME NEW p \in request_parser, NEW o \in Seq(request),
             parse_request_byte(p, first) = Asked("name", req.type, none, o)
      PROVE  FedRequests(p, requested[req]) = Asked("name", req.type, req.name, o)
  <2>1. FedRequests(Asked("name", req.type, none, o), rest) = Asked("name", req.type, req.name, o)
    BY <1>1, AskedNameRead
  <2>2. FedRequests(p, one) = parse_request_byte(p, first)
    BY <1>2, AskedFacts
  <2> HIDE DEF first, rest, one, none
  <2>3. FedRequests(p, one \o rest) = FedRequests(FedRequests(p, one), rest)
    BY <1>3, <1>4, AskedFacts
  <2>. QED BY <1>3, <1>5, <2>1, <2>2, <2>3
<1>6. FedRequests(Asked("type", "var", none, out), requested[req])
        = Asked("name", req.type, req.name, out)
  <2> HIDE DEF first, rest, one, none
  <2>1. "var" \in variable_type
    BY DEF variable_type
  <2>2. Asked("type", "var", none, out) \in request_parser
    BY <1>3, <2>1, AskedType
  <2>3. parse_request_byte(Asked("type", "var", none, out), first)
          = Asked("name", byte_to_type(first), none, out)
    BY <1>2, <1>3, <2>1, AskedBytes
  <2>. QED BY <1>2, <1>5, <2>2, <2>3
<1>7. ASSUME NEW before \in request
      PROVE  FedRequests(Asked("name", before.type, before.name, out), requested[req])
               = Asked("name", req.type, req.name, Append(out, before))
  <2>1. /\ before.type \in variable_type /\ before.name \in Seq(Byte)
        /\ before = [type |-> before.type, name |-> before.name]
    BY RequestMembers
  <2>2. Append(out, before) \in Seq(request)
    BY AppendProperties
  <2>3. Asked("name", before.type, before.name, out) \in request_parser
    BY <2>1, AskedType
  <2>4. parse_request_byte(Asked("name", before.type, before.name, out), first)
          = Asked("name", req.type, none, Append(out, before))
    <3>1. parse_request_byte(Asked("name", before.type, before.name, out), first)
          = Asked("name", byte_to_type(first), none,
                  Append(out, [type |-> before.type, name |-> before.name]))
      <4> HIDE DEF first
      <4>. QED BY <1>2, <2>1, AskedBytes
    <3> HIDE DEF first, none
    <3>. QED BY <1>2, <2>1, <3>1
  <2> HIDE DEF first, rest, one, none
  <2>. QED BY <1>5, <2>2, <2>3, <2>4
<1>. QED BY <1>6, <1>7

\* All requests but the last are complete when the content has been read.
LEMMA AllRequestsRead ==
    \A reqs \in Seq(request) : \A req \in request :
        FedRequests(Asked("type", "var", <<>>, <<>>), Spread(Append(reqs, req), requested))
           = Asked("name", req.type, req.name, reqs)
<1> DEFINE none == <<>>
           p == Asked("type", "var", none, none)
           R == {reqs \in Seq(request) : \A req \in request :
                    FedRequests(p, Spread(Append(reqs, req), requested))
                       = Asked("name", req.type, req.name, reqs)}
<1>a. requested \in [request -> Seq(Byte)]
  <2>1. \A req \in request :
           <<type_to_byte(req.type)>> \o append_escaped(req.name) \in Seq(Byte)
    BY RequestedType
  <2>. QED BY <2>1 DEF requested
<1>b. none \in Seq(request) /\ none \in Seq(Byte)
  BY EmptySeq
<1>0. p \in request_parser
  <2>1. "var" \in variable_type
    BY DEF variable_type
  <2> HIDE DEF none
  <2>. QED BY <1>b, <2>1, AskedType
<1>1. none \in R
  <2>1. ASSUME NEW req \in request
        PROVE  FedRequests(p, Spread(Append(none, req), requested))
                  = Asked("name", req.type, req.name, none)
    <3>1. Spread(Append(none, req), requested) = Spread(none, requested) \o requested[req]
      BY <1>a, <1>b, SpreadAppend
    <3>2. Spread(none, requested) = none /\ requested[req] \in Seq(Byte)
      BY <1>a, SpreadEmpty
    <3>3. Spread(Append(none, req), requested) = requested[req]
      BY <3>1, <3>2, ConcatEmptySeq
    <3>4. FedRequests(p, requested[req]) = Asked("name", req.type, req.name, none)
      BY <1>b, RequestedRead
    <3>. QED BY <3>3, <3>4
  <2>. QED BY <1>b, <2>1
<1>2. ASSUME NEW reqs \in Seq(request), NEW x \in request, reqs \in R
      PROVE  Append(reqs, x) \in R
  <2>1. Append(reqs, x) \in Seq(request)
    BY AppendProperties
  <2>2. ASSUME NEW req \in request
        PROVE  FedRequests(p, Spread(Append(Append(reqs, x), req), requested))
                  = Asked("name", req.type, req.name, Append(reqs, x))
    <3> DEFINE front == Spread(Append(reqs, x), requested)
    <3>1. Spread(Append(Append(reqs, x), req), requested) = front \o requested[req]
      BY <1>a, <2>1, SpreadAppend
    <3>2. front \in Seq(Byte) /\ requested[req] \in Seq(Byte)
      BY <1>a, <2>1, SpreadType
    <3>3. FedRequests(p, front) = Asked("name", x.type, x.name, reqs)
      BY <1>2
    <3>4. FedRequests(Asked("name", x.type, x.name, reqs), requested[req])
            = Asked("name", req.type, req.name, Append(reqs, x))
      BY RequestedRead
    <3> HIDE DEF p, front
    <3>5. FedRequests(p, front \o requested[req]) = FedRequests(FedRequests(p, front), requested[req])
      BY <1>0, <3>2, AskedFacts
    <3>. QED BY <3>1, <3>3, <3>4, <3>5
  <2>. QED BY <2>1, <2>2
<1>3. \A reqs \in Seq(request) : reqs \in R
  <2>1. <<>> \in R
    BY <1>1
  <2> HIDE DEF R
  <2>. QED BY <1>2, <2>1, SequencesReached
<1>. QED BY <1>3

LEMMA EndsOfAppend ==
    ASSUME NEW S, NEW s \in Seq(S), NEW x \in S
    PROVE  Append(s, x) # <<>> /\ Front(Append(s, x)) = s /\ Last(Append(s, x)) = x
<1> DEFINE t == Append(s, x)
           f == Front(t)
<1>1. t \in Seq(S) /\ Len(t) = Len(s) + 1 /\ t[Len(t)] = x /\ Len(s) \in Nat
      /\ \A i \in 1..Len(s) : t[i] = s[i]
  OBVIOUS
<1>2. f = SubSeq(t, 1, Len(s))
  BY <1>1 DEF Front
<1> HIDE DEF t, f
<1>3. f \in Seq(S) /\ Len(f) = Len(s) /\ \A i \in 1..Len(s) : f[i] = t[i]
  BY <1>1, <1>2
<1>4. f = s
  BY <1>1, <1>3, SeqEqual
<1>5. t # <<>>
  BY <1>1
<1>. QED BY <1>1, <1>4, <1>5 DEF t, f, Last

\* A list is empty, or has a last element, which Named looks at.
LEMMA NamedIs ==
    ASSUME NEW S
    PROVE  /\ Named(<<>>) = <<>>
           /\ \A list \in Seq(S) : \A x \in S :
                 Named(Append(list, x)) = IF x.name = <<>> THEN list ELSE Append(list, x)
<1>1. Named(<<>>) = <<>>
  BY DEF Named
<1>2. ASSUME NEW list \in Seq(S), NEW x \in S
      PROVE  Named(Append(list, x)) = IF x.name = <<>> THEN list ELSE Append(list, x)
  <2> DEFINE all == Append(list, x)
  <2>1. all # <<>> /\ Front(all) = list /\ Last(all) = x
    BY EndsOfAppend, SameEnds
  <2> HIDE DEF all
  <2>2. Named(all) = IF x.name = <<>> THEN list ELSE all
    BY <2>1 DEF Named
  <2>. QED BY <2>2 DEF all
<1>. QED BY <1>1, <1>2

LEMMA RequestsFed ==
    ASSUME NEW reqs \in Seq(request)
    PROVE  /\ request_content(reqs) \in Seq(Byte) /\ request_parsing_state \in request_parser
           /\ parse_request_end(FedRequests(request_parsing_state, request_content(reqs))).out
                = Named(reqs)
<1> DEFINE none == <<>>
           body == Spread(reqs, requested)
           one == <<send>>
           p == Asked("type", "var", none, none)
<1>a. requested \in [request -> Seq(Byte)]
  <2>1. \A req \in request :
           <<type_to_byte(req.type)>> \o append_escaped(req.name) \in Seq(Byte)
    BY RequestedType
  <2>. QED BY <2>1 DEF requested
<1>1. request_content(reqs) = one \o body
  <2>1. \A i \in DOMAIN reqs : reqs[i] \in request
    BY LenProperties, ElementOfSeq
  <2>2. [i \in DOMAIN reqs |-> <<type_to_byte(reqs[i].type)>> \o append_escaped(reqs[i].name)]
          = [i \in DOMAIN reqs |-> requested[reqs[i]]]
    BY <2>1, RequestedType
  <2>. QED BY <2>2 DEF request_content, Spread
<1>2. body \in Seq(Byte)
  BY <1>a, SpreadType
<1>3. one \in Seq(Byte) /\ send \in Byte
  BY ByteFacts
<1>4. none \in Seq(Byte) /\ none \in Seq(request) /\ "var" \in variable_type
  BY EmptySeq DEF variable_type
<1>5. request_parsing_state = Asked("send", "var", none, none)
  BY DEF request_parsing_state, fresh_request, Asked
<1>6. request_parsing_state \in request_parser
  <2> HIDE DEF none
  <2>. QED BY <1>4, <1>5, AskedType
<1>7. parse_request_byte(request_parsing_state, send) = p
  <2> HIDE DEF none
  <2>. QED BY <1>3, <1>4, <1>5, AskedBytes
<1>8. FedRequests(request_parsing_state, one) = p
  BY <1>3, <1>6, <1>7, AskedFacts
<1> HIDE DEF body, one, p
<1>9. FedRequests(request_parsing_state, request_content(reqs)) = FedRequests(p, body)
  BY <1>1, <1>2, <1>3, <1>6, <1>8, AskedFacts
<1>10. one \o body \in Seq(Byte)
  BY <1>2, <1>3, ConcatProperties
<1>11. parse_request_end(FedRequests(p, body)).out = Named(reqs)
  <2>1. CASE reqs = <<>>
    <3>1. body = none
      BY <2>1, SpreadEmpty DEF body
    <3>2. FedRequests(p, body) = p
      BY <3>1, FoldedEmpty DEF FedRequests
    <3>3. parse_request_end(p).out = <<>>
      BY DEF parse_request_end, Asked, p
    <3>. QED BY <2>1, <3>2, <3>3, NamedIs
  <2>2. CASE reqs # <<>>
    <3>1. PICK before \in Seq(request), req \in request : reqs = Append(before, req)
      BY <2>2, SequenceEmptyOrAppend
    <3>2. FedRequests(p, body) = Asked("name", req.type, req.name, before)
      BY <3>1, AllRequestsRead DEF p, body
    <3>3. req = [type |-> req.type, name |-> req.name]
      BY RequestMembers
    <3>4. parse_request_end(Asked("name", req.type, req.name, before)).out
            = IF req.name = <<>> THEN before ELSE Append(before, req)
      BY <3>3 DEF parse_request_end, Asked
    <3>5. Named(Append(before, req)) = IF req.name = <<>> THEN before ELSE Append(before, req)
      BY NamedIs
    <3>. QED BY <3>1, <3>2, <3>4, <3>5
  <2>. QED BY <2>1, <2>2
<1>. QED BY <1>1, <1>6, <1>9, <1>10, <1>11

\* What a client asks for is what the server reads: for_each_request gives back
\* every list of requests that request_variables may be given, whatever bytes
\* are in their names; only an empty name at the end is lost.
THEOREM RequestsRead ==
    \A reqs \in Seq(request) : for_each_request(request_content(reqs)) = Named(reqs)
BY RequestsFed DEF for_each_request, FedRequests

\* The same for responses, named or not.
LEMMA ResponsesFed ==
    ASSUME NEW command \in Byte, NEW rsps \in Seq(response)
    PROVE  /\ response_content(command, rsps) \in Seq(Byte) /\ parsing_state \in response_parser
           /\ parse_end(Fed(parsing_state, response_content(command, rsps))).out
                = Named(rsps)
<1> DEFINE none == <<>>
           body == Spread(rsps, appended)
           one == <<command>>
           p == Reader("type", "var", none, none, none)
<1>1. response_content(command, rsps) = one \o body
  BY ResponseContentIs
<1>2. body \in Seq(Byte)
  BY AppendedType, SpreadType
<1>3. one \in Seq(Byte)
  OBVIOUS
<1>4. /\ none \in Seq(Byte) /\ none \in Seq(Seq(Byte)) /\ none \in Seq(response)
      /\ Len(none) <= 1 /\ "var" \in variable_type
  BY EmptySeq DEF variable_type
<1>5. parsing_state = Reader("is_or_info", "var", none, none, none)
  BY DEF parsing_state, fresh_response, Reader
<1>6. parsing_state \in response_parser
  <2> HIDE DEF none
  <2>. QED BY <1>4, <1>5, ReaderType
<1>7. parse_byte(parsing_state, command) = p
  <2> HIDE DEF none
  <2>. QED BY <1>4, <1>5, ReaderBytes
<1>8. Fed(parsing_state, one) = p
  BY <1>6, <1>7, FedFacts
<1> HIDE DEF body, one, p
<1>9. Fed(parsing_state, response_content(command, rsps)) = Fed(p, body)
  BY <1>1, <1>2, <1>3, <1>6, <1>8, FedFacts
<1>10. one \o body \in Seq(Byte)
  BY <1>2, <1>3, ConcatProperties
<1>11. parse_end(Fed(p, body)).out = Named(rsps)
  <2>1. CASE rsps = <<>>
    <3>1. body = none
      BY <2>1, SpreadEmpty DEF body
    <3>2. Fed(p, body) = p
      BY <3>1, FoldedEmpty DEF Fed
    <3>3. parse_end(p).out = <<>>
      BY DEF parse_end, Reader, p
    <3>. QED BY <2>1, <3>2, <3>3, NamedIs
  <2>2. CASE rsps # <<>>
    <3>1. PICK before \in Seq(response), rsp \in response : rsps = Append(before, rsp)
      BY <2>2, SequenceEmptyOrAppend
    <3>2. Fed(p, body) = After(rsp, before)
      BY <3>1, AllRead DEF p, body
    <3>3. rsp = [type |-> rsp.type, name |-> rsp.name, value |-> rsp.value]
      BY ResponseMembers
    <3>4. parse_end(After(rsp, before)).out
            = IF rsp.name = <<>> THEN before ELSE Append(before, rsp)
      BY <3>3 DEF parse_end, After, Reader
    <3>5. Named(Append(before, rsp)) = IF rsp.name = <<>> THEN before ELSE Append(before, rsp)
      BY NamedIs
    <3>. QED BY <3>1, <3>2, <3>4, <3>5
  <2>. QED BY <2>1, <2>2
<1>. QED BY <1>1, <1>6, <1>9, <1>10, <1>11
-------------------------------------------------------------------------------
(***************************************************************************)
(* Charsets.                                                               *)
(***************************************************************************)
Charsets == Charset!list
Text == Seq(Byte)
Separated(separator, s) ==
    [i \in DOMAIN s |-> IF i = 1 THEN s[i] ELSE <<separator>> \o s[i]]
ReadOn(separator, l, data) == Folded(Charset!read_byte(separator), l, data)

\* The reader with a list of charsets and the beginning of another.
Listed(advertised, charset) == [advertised |-> advertised, charset |-> charset]

LEMMA ListedType ==
    /\ \A advertised \in Seq(Text), charset \in Text : Listed(advertised, charset) \in Charsets
    /\ \A l \in Charsets : /\ l.advertised \in Seq(Text) /\ l.charset \in Text
                           /\ l = Listed(l.advertised, l.charset)
BY DEF Listed, Charsets, Text, Charset!list, Charset!Byte, Byte

LEMMA EndedIs ==
    ASSUME NEW advertised \in Seq(Text), NEW charset \in Text
    PROVE  /\ Charset!ended(Listed(advertised, charset))
                = Listed(IF charset = <<>> THEN advertised ELSE Append(advertised, charset), <<>>)
           /\ Charset!ended(Listed(advertised, charset)) \in Charsets
<1>1. Charset!ended(Listed(advertised, charset))
        = Listed(IF charset = <<>> THEN advertised ELSE Append(advertised, charset), <<>>)
  BY DEF Charset!ended, Listed
<1>2. (IF charset = <<>> THEN advertised ELSE Append(advertised, charset)) \in Seq(Text)
  BY AppendProperties
<1>3. <<>> \in Text
  BY EmptySeq DEF Text
<1>. QED BY <1>1, <1>2, <1>3, ListedType

LEMMA CharsetGrown ==
    ASSUME NEW a, NEW c, NEW x, NEW l, l = [advertised |-> a, charset |-> c]
    PROVE  [l EXCEPT !.charset = Append(@, x)] = [advertised |-> a, charset |-> Append(c, x)]
<1>1. l.charset = c
  OBVIOUS
<1>2. [l EXCEPT !.charset = Append(c, x)] = [advertised |-> a, charset |-> Append(c, x)]
  OBVIOUS
<1>. QED BY <1>1, <1>2

LEMMA CharsetByte ==
    ASSUME NEW separator \in Byte, NEW before \in Seq(Text), NEW name \in Text,
           NEW by \in Byte
    PROVE  Charset!read_byte(separator)[<<Listed(before, name), by>>]
              = IF by = separator THEN Charset!ended(Listed(before, name))
                ELSE Listed(before, Append(name, by))
<1> DEFINE l == Listed(before, name)
           z == <<l, by>>
<1>1. l \in Charset!list /\ by \in Charset!Byte
  BY ListedType DEF Charsets, Charset!Byte, Byte
<1>2. z \in Charset!list \X Charset!Byte /\ z[1] = l /\ z[2] = by
  BY <1>1
<1>3. [l EXCEPT !.charset = Append(@, by)] = Listed(before, Append(name, by))
  <2>1. l = [advertised |-> before, charset |-> name]
    BY DEF Listed
  <2> HIDE DEF l
  <2>. QED BY <2>1, CharsetGrown DEF Listed
<1> HIDE DEF l, z
<1>4. Charset!read_byte(separator)[z]
        = IF by = separator THEN Charset!ended(l) ELSE [l EXCEPT !.charset = Append(@, by)]
  BY <1>2 DEF Charset!read_byte
<1>. QED BY <1>3, <1>4 DEF l, z

LEMMA CharsetSteps ==
    ASSUME NEW separator \in Byte
    PROVE  Steps(Charset!read_byte(separator), Charsets, Byte)
<1>1. ASSUME NEW l \in Charsets, NEW by \in Byte
      PROVE  Charset!read_byte(separator)[<<l, by>>] \in Charsets
  <2>1. /\ l.advertised \in Seq(Text) /\ l.charset \in Text
        /\ l = Listed(l.advertised, l.charset)
    BY ListedType
  <2>2. Append(l.charset, by) \in Text
    BY <2>1, AppendProperties DEF Text
  <2>3. /\ Listed(l.advertised, Append(l.charset, by)) \in Charsets
        /\ Charset!ended(Listed(l.advertised, l.charset)) \in Charsets
    BY <2>1, <2>2, ListedType, EndedIs
  <2>. QED BY <2>1, <2>3, CharsetByte
<1>. QED BY <1>1 DEF Steps

LEMMA ReadOnFacts ==
    ASSUME NEW separator \in Byte, NEW l \in Charsets
    PROVE  /\ ReadOn(separator, l, <<>>) = l
           /\ \A data \in Text : ReadOn(separator, l, data) \in Charsets
           /\ \A first, rest \in Text :
                 ReadOn(separator, l, first \o rest)
                   = ReadOn(separator, ReadOn(separator, l, first), rest)
           /\ \A data \in Text, by \in Byte :
                 ReadOn(separator, l, Append(data, by))
                   = Charset!read_byte(separator)[<<ReadOn(separator, l, data), by>>]
<1>1. ReadOn(separator, l, <<>>) = l
  BY FoldedEmpty DEF ReadOn
<1>2. ASSUME NEW data \in Text PROVE ReadOn(separator, l, data) \in Charsets
  BY CharsetSteps, FoldedType DEF ReadOn, Text
<1>3. ASSUME NEW first \in Text, NEW rest \in Text
      PROVE  ReadOn(separator, l, first \o rest)
               = ReadOn(separator, ReadOn(separator, l, first), rest)
  BY CharsetSteps, FoldedConcat DEF ReadOn, Text
<1>4. ASSUME NEW data \in Text, NEW by \in Byte
      PROVE  ReadOn(separator, l, Append(data, by))
               = Charset!read_byte(separator)[<<ReadOn(separator, l, data), by>>]
  <2> DEFINE step == Charset!read_byte(separator)
  <2>1. Steps(step, Charsets, Byte)
    BY CharsetSteps
  <2> HIDE DEF step
  <2>2. Folded(step, l, Append(data, by)) = At(step, Folded(step, l, data), by)
    BY <2>1, FoldedAppend DEF Text
  <2>. QED BY <2>2 DEF ReadOn, At, step
<1>. QED BY <1>1, <1>2, <1>3, <1>4

\* A charset is read as it is, when the separator is not in it.
LEMMA CharsetRead ==
    ASSUME NEW separator \in Byte, NEW advertised \in Seq(Text)
    PROVE  \A charset \in Seq(Byte \ {separator}) :
              ReadOn(separator, Listed(advertised, <<>>), charset) = Listed(advertised, charset)
<1> DEFINE none == <<>>
           l == Listed(advertised, none)
           R == {charset \in Text : ReadOn(separator, l, charset) = Listed(advertised, charset)}
<1>0. none \in Text /\ l \in Charsets
  <2>1. none \in Text
    BY EmptySeq DEF Text
  <2> HIDE DEF none
  <2>. QED BY <2>1, ListedType
<1>1. none \in R
  BY <1>0, ReadOnFacts
<1>2. ASSUME NEW charset \in Seq(Byte \ {separator}), NEW by \in Byte \ {separator}, charset \in R
      PROVE  Append(charset, by) \in R
  <2>1. charset \in Text /\ Append(charset, by) \in Text /\ by \in Byte
    BY <1>2, AppendProperties DEF Text
  <2> HIDE DEF l
  <2>2. ReadOn(separator, l, Append(charset, by))
          = Charset!read_byte(separator)[<<ReadOn(separator, l, charset), by>>]
    BY <1>0, <2>1, ReadOnFacts
  <2>3. ReadOn(separator, l, charset) = Listed(advertised, charset)
    BY <1>2
  <2>4. Charset!read_byte(separator)[<<Listed(advertised, charset), by>>]
          = Listed(advertised, Append(charset, by))
    BY <2>1, CharsetByte
  <2>. QED BY <2>1, <2>2, <2>3, <2>4
<1>3. \A charset \in Seq(Byte \ {separator}) : charset \in R
  <2>1. <<>> \in R
    BY <1>1
  <2> HIDE DEF R
  <2>. QED BY <1>2, <2>1, SequencesReached
<1>. QED BY <1>3

LEMMA SeparatedAppend ==
    ASSUME NEW separator \in Byte, NEW s \in Seq(Text), NEW x \in Text
    PROVE  /\ Separated(separator, s) \in Seq(Text)
           /\ FlattenSeq(Separated(separator, s)) \in Text
           /\ FlattenSeq(Separated(separator, Append(s, x)))
                = FlattenSeq(Separated(separator, s))
                     \o (IF s = <<>> THEN x ELSE <<separator>> \o x)
<1> DEFINE more == IF s = <<>> THEN x ELSE <<separator>> \o x
           one == <<separator>>
           head == Separated(separator, s)
           t == Append(s, x)
           all == Separated(separator, t)
<1>1. one \in Text
  BY DEF Text
<1>2. more \in Text
  <2> HIDE DEF one
  <2>1. one \o x \in Text
    BY <1>1, ConcatProperties DEF Text
  <2>. QED BY <2>1 DEF one
<1>3. ASSUME NEW r \in Seq(Text) PROVE Separated(separator, r) \in Seq(Text) /\ Len(Separated(separator, r)) = Len(r)
  <2>1. \A i \in 1..Len(r) : r[i] \in Text /\ one \o r[i] \in Text
    <3>1. \A i \in 1..Len(r) : r[i] \in Text
      BY ElementOfSeq
    <3> HIDE DEF one
    <3>. QED BY <1>1, <3>1, ConcatProperties DEF Text
  <2>2. DOMAIN r = 1..Len(r) /\ Len(r) \in Nat
    BY LenProperties
  <2>3. Separated(separator, r) \in [1..Len(r) -> Text]
    BY <2>1, <2>2 DEF Separated
  <2> HIDE DEF one
  <2>. QED BY <2>2, <2>3, IsASeq, LenProperties
<1>4. t \in Seq(Text) /\ Len(t) = Len(s) + 1 /\ Len(s) \in Nat /\ t[Len(s) + 1] = x
      /\ \A i \in 1..Len(s) : t[i] = s[i]
  OBVIOUS
<1>5. Len(s) = 0 <=> s = <<>>
  BY EmptySeq
<1>6. /\ \A i \in 1..Len(s) : all[i] = head[i]
      /\ all[Len(s) + 1] = more
  <2>1. DOMAIN s = 1..Len(s) /\ DOMAIN t = 1..(Len(s) + 1)
    BY <1>4, LenProperties
  <2> HIDE DEF t
  <2>2. ASSUME NEW i \in 1..Len(s) PROVE all[i] = head[i]
    <3>1. i \in DOMAIN s /\ i \in DOMAIN t /\ t[i] = s[i]
      BY <1>4, <2>1
    <3>. QED BY <3>1 DEF Separated
  <2>3. all[Len(s) + 1] = more
    <3>1. Len(s) + 1 \in DOMAIN t /\ (Len(s) + 1 = 1 <=> s = <<>>)
      BY <1>4, <1>5, <2>1
    <3>. QED BY <1>4, <3>1 DEF Separated
  <2>. QED BY <2>2, <2>3
<1>7. head \in Seq(Text) /\ Len(head) = Len(s) /\ all \in Seq(Text) /\ Len(all) = Len(s) + 1
  BY <1>3, <1>4
<1> HIDE DEF more, head, t, all
<1>8. all = Append(head, more)
  <2>1. /\ Append(head, more) \in Seq(Text) /\ Len(Append(head, more)) = Len(s) + 1
        /\ Append(head, more)[Len(s) + 1] = more
        /\ \A i \in 1..Len(s) : Append(head, more)[i] = head[i]
    BY <1>2, <1>4, <1>7, AppendProperties
  <2>2. \A i \in 1..Len(all) : all[i] = Append(head, more)[i]
    BY <1>4, <1>6, <1>7, <2>1
  <2>. QED BY <1>7, <2>1, <2>2, SeqEqual
<1>9. FlattenSeq(head) \in Text /\ FlattenSeq(all) = FlattenSeq(head) \o more
  BY <1>2, <1>7, <1>8, FlattenType, FlattenAppend DEF Text
<1>. QED BY <1>7, <1>9 DEF more, head, t, all

Nonempty == Text \ {<<>>}

\* Behind the last separator there is the last charset; when it has ended, all
\* that are not empty have been advertised.
LEMMA CharsetsRead ==
    ASSUME NEW separator \in Byte
    PROVE  \A s \in Seq(Seq(Byte \ {separator})) :
              Charset!ended(ReadOn(separator, Listed(<<>>, <<>>),
                                        FlattenSeq(Separated(separator, s))))
                 = Listed(Only(s, Nonempty), <<>>)
<1> DEFINE none == <<>>
           l == Listed(none, none)
           P == Seq(Byte \ {separator})
           body(s) == FlattenSeq(Separated(separator, s))
           R == {s \in Seq(P) :
                   Charset!ended(ReadOn(separator, l, body(s))) = Listed(Only(s, Nonempty), none)}
<1>0. /\ none \in Text /\ none \in Seq(Text) /\ none \in Seq(P) /\ l \in Charsets /\ body(none) = none
      /\ Only(none, Nonempty) = none
  <2>1. none \in Text /\ none \in Seq(Text) /\ none \in Seq(P)
    BY EmptySeq DEF Text
  <2>2. l \in Charsets
    <3> HIDE DEF none
    <3>. QED BY <2>1, ListedType
  <2>3. body(none) = none
    <3>1. Separated(separator, none) = none
      BY DEF Separated
    <3>. QED BY <3>1, FlattenEmpty
  <2>4. Only(none, Nonempty) = none
    BY ProjectEmpty DEF Only
  <2>. QED BY <2>1, <2>2, <2>3, <2>4
<1>1. none \in R
  <2>1. ReadOn(separator, l, body(none)) = l
    BY <1>0, ReadOnFacts
  <2>2. Charset!ended(l) = Listed(none, none)
    BY <1>0, EndedIs
  <2>. QED BY <1>0, <2>1, <2>2
<1>a. P \subseteq Text
  <2>1. Byte \ {separator} \subseteq Byte
    OBVIOUS
  <2>. QED BY <2>1, SeqMonotonic DEF Text
<1>2. ASSUME NEW s \in Seq(P), NEW x \in P, s \in R PROVE Append(s, x) \in R
  <2> DEFINE given == Only(s, Nonempty)
             one == <<separator>>
  <2>1. s \in Seq(Text) /\ x \in Text /\ Append(s, x) \in Seq(P)
    BY <1>a, SeqMonotonic, AppendProperties
  <2>2. given \in Seq(Text)
    <3>1. given \in Seq(Nonempty) /\ Nonempty \subseteq Text
      BY <2>1, KeepType DEF Nonempty
    <3>. QED BY <3>1, SeqMonotonic
  <2>3. one \in Text
    BY DEF Text
  <2>4. body(s) \in Text /\ body(Append(s, x)) = body(s) \o (IF s = none THEN x ELSE one \o x)
    BY <2>1, SeparatedAppend
  <2> DEFINE q == ReadOn(separator, l, body(s))
             first == body(s)
  <2>5. q \in Charsets /\ Charset!ended(q) = Listed(given, none)
    BY <1>0, <1>2, <2>4, ReadOnFacts
  <2> HIDE DEF given, one, P, q, l, body
  <2>6. ReadOn(separator, l, body(Append(s, x))) = Listed(given, x)
    <3>1. ReadOn(separator, Listed(given, none), x) = Listed(given, x)
      BY <1>2, <2>2, CharsetRead DEF P
    <3>2. CASE s = none
      <4>1. first = none /\ given = none /\ body(Append(s, x)) = none \o x
        BY <1>0, <2>4, <3>2 DEF given
      <4>2. none \o x = x
        BY <2>1, ConcatEmptySeq DEF Text
      <4>. QED BY <3>1, <4>1, <4>2 DEF l
    <3>3. CASE s # none
      <4>1. body(Append(s, x)) = first \o (one \o x) /\ first \in Text /\ one \o x \in Text
        BY <2>1, <2>3, <2>4, <3>3, ConcatProperties DEF Text
      <4> HIDE DEF first
      <4>2. ReadOn(separator, l, first \o (one \o x)) = ReadOn(separator, ReadOn(separator, l, first), one \o x)
        BY <1>0, <4>1, ReadOnFacts
      <4>3. ReadOn(separator, q, one \o x) = ReadOn(separator, ReadOn(separator, q, one), x)
        BY <2>1, <2>3, <2>5, ReadOnFacts
      <4>4. ReadOn(separator, q, one) = Charset!ended(q)
        <5>1. one = Append(none, separator)
          BY TupleFacts DEF one
        <5>2. ReadOn(separator, q, one)
                = Charset!read_byte(separator)[<<ReadOn(separator, q, none), separator>>]
          <6> HIDE DEF none
          <6>1. ReadOn(separator, q, Append(none, separator))
                  = Charset!read_byte(separator)[<<ReadOn(separator, q, none), separator>>]
            BY <1>0, <2>5, ReadOnFacts
          <6>. QED BY <5>1, <6>1
        <5>3. ReadOn(separator, q, none) = q
          BY <2>5, ReadOnFacts
        <5>4. q = Listed(q.advertised, q.charset) /\ q.advertised \in Seq(Text) /\ q.charset \in Text
          BY <2>5, ListedType
        <5>5. Charset!read_byte(separator)[<<Listed(q.advertised, q.charset), separator>>]
                = Charset!ended(Listed(q.advertised, q.charset))
          BY <5>4, CharsetByte
        <5>. QED BY <5>2, <5>3, <5>4, <5>5
      <4>5. q = ReadOn(separator, l, first)
        BY DEF q, first
      <4>. QED BY <2>5, <3>1, <4>1, <4>2, <4>3, <4>4, <4>5
    <3>. QED BY <3>2, <3>3
  <2>7. Charset!ended(Listed(given, x)) = Listed(IF x = none THEN given ELSE Append(given, x), none)
    BY <2>1, <2>2, EndedIs
  <2>8. Only(Append(s, x), Nonempty) = IF x \in Nonempty THEN Append(given, x) ELSE given
    BY <2>1, KeepAppend DEF given
  <2>9. x \in Nonempty <=> x # none
    BY <2>1 DEF Nonempty
  <2>10. Charset!ended(ReadOn(separator, l, body(Append(s, x)))) = Listed(Only(Append(s, x), Nonempty), none)
    BY <2>6, <2>7, <2>8, <2>9
  <2>. QED BY <2>1, <2>10
<1>3. \A s \in Seq(P) : s \in R
  <2>1. <<>> \in R
    BY <1>1
  <2> HIDE DEF R
  <2>. QED BY <1>2, <2>1, SequencesReached
<1>. QED BY <1>3

LEMMA CharsetsHandled ==
    ASSUME NEW separator \in Byte, NEW s \in Seq(Seq(Byte \ {separator}))
    PROVE  Charset!advertised_charsets(
              <<Charset!request, separator>> \o FlattenSeq(Separated(separator, s)))
              = Only(s, Nonempty)
<1> DEFINE body == FlattenSeq(Separated(separator, s))
           two == <<Charset!request, separator>>
           data == two \o body
<1>1. body \in Text
  <2>1. s \in Seq(Text)
    <3>1. Byte \ {separator} \subseteq Byte
      OBVIOUS
    <3>2. Seq(Byte \ {separator}) \subseteq Text
      BY <3>1, SeqMonotonic DEF Text
    <3>. QED BY <3>2, SeqMonotonic
  <2>2. <<>> \in Text
    BY EmptySeq DEF Text
  <2>. QED BY <2>1, <2>2, SeparatedAppend
<1>2. two \in Text /\ Len(two) = 2 /\ two[1] = Charset!request /\ two[2] = separator
  <2>1. Charset!request \in Byte
    BY DEF Charset!request, Byte
  <2> HIDE DEF body
  <2>. QED BY <2>1 DEF Text
<1> HIDE DEF body, two
<1>3. /\ data \in Text /\ Len(data) = 2 + Len(body) /\ Len(body) \in Nat
      /\ data[1] = Charset!request /\ data[2] = separator
      /\ \A i \in 1..Len(body) : data[2 + i] = body[i]
  <2>1. data \in Text /\ Len(data) = Len(two) + Len(body) /\ Len(body) \in Nat
    BY <1>1, <1>2, ConcatProperties, LenProperties DEF Text
  <2>2. data[1] = two[1] /\ data[2] = two[2]
    <3> HIDE DEF body, two
    <3>1. 1 \in 1..Len(two) /\ 2 \in 1..Len(two)
      BY <1>2
    <3>2. two \in Seq(Byte) /\ body \in Seq(Byte)
      BY <1>1, <1>2 DEF Text
    <3>3. (two \o body)[1] = two[1]
      BY <3>1, <3>2
    <3>4. (two \o body)[2] = two[2]
      BY <3>1, <3>2
    <3>. QED BY <3>3, <3>4
  <2>3. ASSUME NEW i \in 1..Len(body) PROVE data[2 + i] = body[i]
    BY <1>1, <1>2, <2>1 DEF Text
  <2> HIDE DEF data
  <2>. QED BY <1>2, <2>1, <2>2, <2>3
<1> HIDE DEF data
<1>4. SubSeq(data, 3, Len(data)) = body
  <2> DEFINE t == SubSeq(data, 3, Len(data))
  <2>1. t \in Text /\ Len(t) = Len(body) /\ \A i \in 1..Len(body) : t[i] = data[2 + i]
    BY <1>3, SMTT(30) DEF Text
  <2> HIDE DEF t
  <2>2. t = body
    BY <1>1, <1>3, <2>1, SeqEqual DEF Text
  <2>. QED BY <2>2 DEF t
<1>5. ~(Len(data) < 2 \/ Head(data) # Charset!request)
  BY <1>3 DEF Text
<1>6. Charset!new_list = Listed(<<>>, <<>>)
  BY DEF Charset!new_list, Listed
<1>7. Charset!read_list(data) = ReadOn(separator, Listed(<<>>, <<>>), body)
  BY <1>3, <1>4, <1>6, SameFolds DEF Charset!read_list, ReadOn
<1>8. Charset!ended(ReadOn(separator, Listed(<<>>, <<>>), body)) = Listed(Only(s, Nonempty), <<>>)
  BY CharsetsRead DEF body
<1>9. Charset!advertised_charsets(data) = Listed(Only(s, Nonempty), <<>>).advertised
  BY <1>5, <1>7, <1>8 DEF Charset!advertised_charsets
<1>. QED BY <1>9 DEF Listed, data, two, body
-------------------------------------------------------------------------------
(***************************************************************************)
(* MSDP: the levels of nesting.                                            *)
(***************************************************************************)
NestedLevel(n, inside) ==
    [name   : Seq(Msdp!Byte),
     value_ : [kind : {"string"}, items : Seq(Msdp!Byte)]
              \cup [kind : {"array"}, items : Seq(Seq(Msdp!Byte))]
              \cup [kind : {"table"}, items : Seq(inside)]]

EncodedLevel(n, inside) == [v \in Msdp!Nested[n] |-> Msdp!encoding(v, inside)]

PlainLevel(n, inside) ==
    {v \in Msdp!Nested[n] :
        /\ v.name \in name_text
        /\ \/ v.value_.kind = "string" /\ v.value_.items \in string_text
           \/ /\ v.value_.kind = "table" /\ v.value_.items # <<>>
              /\ v.value_.items \in Seq(inside)}

LastLevel(n, inside) ==
    {v \in Msdp!Nested[n] :
        /\ v.name \in name_text
        /\ \/ v.value_.kind = "array" /\ v.value_.items \in Seq(array_text)
           \/ /\ v.value_.kind = "table" /\ v.value_.items # <<>>
              /\ Front(v.value_.items) \in Seq(Msdp!inner(NoArrays, n))
              /\ Last(v.value_.items) \in inside}

\* Each of the four is what its definition says, on every level.
LEMMA NestedIs ==
    ASSUME MaxDepth \in Nat
    PROVE  \A n \in 0..MaxDepth : Msdp!Nested[n] = NestedLevel(n, Msdp!inner(Msdp!Nested, n))
<1> DEFINE Form(g) == [n \in 0..MaxDepth |-> NestedLevel(n, Msdp!inner(g, n))]
           R == {k \in Nat : \E g : \A n \in 0..k : g[n] = NestedLevel(n, Msdp!inner(g, n))}
<1>1. 0 \in R
  <2> DEFINE g == [n \in 0..0 |-> NestedLevel(0, {})]
  <2>1. \A n \in 0..0 : n = 0 /\ g[n] = NestedLevel(0, {}) /\ Msdp!inner(g, n) = {}
    BY DEF Msdp!inner
  <2>2. \A n \in 0..0 : g[n] = NestedLevel(n, Msdp!inner(g, n))
    BY <2>1, Zenon
  <2>. QED BY <2>2
<1>2. ASSUME NEW k \in Nat, k \in R PROVE k + 1 \in R
  <2>1. PICK g : \A n \in 0..k : g[n] = NestedLevel(n, Msdp!inner(g, n))
    BY <1>2
  <2> DEFINE last == NestedLevel(k + 1, g[k])
             h == [n \in 0..(k + 1) |-> IF n = k + 1 THEN last ELSE g[n]]
  <2>2. ASSUME NEW n \in 0..(k + 1) PROVE h[n] = NestedLevel(n, Msdp!inner(h, n))
    <3>1. CASE n = k + 1
      <4>1. h[n] = last /\ n # 0 /\ n - 1 = k /\ h[k] = g[k]
        BY <3>1
      <4> HIDE DEF h
      <4>2. Msdp!inner(h, n) = g[k]
        BY <4>1 DEF Msdp!inner
      <4>. QED BY <3>1, <4>1, <4>2
    <3>2. CASE n # k + 1
      <4>1. n \in 0..k /\ h[n] = g[n] /\ (n # 0 => h[n - 1] = g[n - 1])
        BY <3>2
      <4> HIDE DEF h
      <4>2. Msdp!inner(h, n) = Msdp!inner(g, n)
        BY <4>1 DEF Msdp!inner
      <4>. QED BY <2>1, <4>1, <4>2
    <3>. QED BY <3>1, <3>2
  <2> HIDE DEF h
  <2>. QED BY <2>2
<1>3. MaxDepth \in R
  <2> HIDE DEF R
  <2>. QED BY <1>1, <1>2, NaturalsReached
<1>4. PICK g : \A n \in 0..MaxDepth : g[n] = NestedLevel(n, Msdp!inner(g, n))
  BY <1>3
<1> DEFINE h == [n \in 0..MaxDepth |-> g[n]]
<1>5. h = Form(h)
  <2>1. ASSUME NEW n \in 0..MaxDepth PROVE g[n] = NestedLevel(n, Msdp!inner(h, n))
    <3>1. n # 0 => h[n - 1] = g[n - 1]
      OBVIOUS
    <3> HIDE DEF h
    <3>2. Msdp!inner(h, n) = Msdp!inner(g, n)
      BY <3>1 DEF Msdp!inner
    <3>. QED BY <1>4, <3>2
  <2>. QED BY <2>1
<1>6. Msdp!Nested = CHOOSE f : f = Form(f)
  BY Zenon DEF Msdp!Nested, NestedLevel
<1> HIDE DEF h, Form
<1>7. Msdp!Nested = Form(Msdp!Nested)
  BY <1>5, <1>6, Zenon
<1>. QED BY <1>7 DEF Form

LEMMA EncodedIs ==
    ASSUME MaxDepth \in Nat
    PROVE  \A n \in 0..MaxDepth : Msdp!encoded[n] = EncodedLevel(n, Msdp!inner(Msdp!encoded, n))
<1> DEFINE Form(g) == [n \in 0..MaxDepth |-> EncodedLevel(n, Msdp!inner(g, n))]
           R == {k \in Nat : \E g : \A n \in 0..k : g[n] = EncodedLevel(n, Msdp!inner(g, n))}
<1>1. 0 \in R
  <2> DEFINE g == [n \in 0..0 |-> EncodedLevel(0, {})]
  <2>1. \A n \in 0..0 : n = 0 /\ g[n] = EncodedLevel(0, {}) /\ Msdp!inner(g, n) = {}
    BY DEF Msdp!inner
  <2>2. \A n \in 0..0 : g[n] = EncodedLevel(n, Msdp!inner(g, n))
    BY <2>1, Zenon
  <2>. QED BY <2>2
<1>2. ASSUME NEW k \in Nat, k \in R PROVE k + 1 \in R
  <2>1. PICK g : \A n \in 0..k : g[n] = EncodedLevel(n, Msdp!inner(g, n))
    BY <1>2
  <2> DEFINE last == EncodedLevel(k + 1, g[k])
             h == [n \in 0..(k + 1) |-> IF n = k + 1 THEN last ELSE g[n]]
  <2>2. ASSUME NEW n \in 0..(k + 1) PROVE h[n] = EncodedLevel(n, Msdp!inner(h, n))
    <3>1. CASE n = k + 1
      <4>1. h[n] = last /\ n # 0 /\ n - 1 = k /\ h[k] = g[k]
        BY <3>1
      <4> HIDE DEF h
      <4>2. Msdp!inner(h, n) = g[k]
        BY <4>1 DEF Msdp!inner
      <4>. QED BY <3>1, <4>1, <4>2
    <3>2. CASE n # k + 1
      <4>1. n \in 0..k /\ h[n] = g[n] /\ (n # 0 => h[n - 1] = g[n - 1])
        BY <3>2
      <4> HIDE DEF h
      <4>2. Msdp!inner(h, n) = Msdp!inner(g, n)
        BY <4>1 DEF Msdp!inner
      <4>. QED BY <2>1, <4>1, <4>2
    <3>. QED BY <3>1, <3>2
  <2> HIDE DEF h
  <2>. QED BY <2>2
<1>3. MaxDepth \in R
  <2> HIDE DEF R
  <2>. QED BY <1>1, <1>2, NaturalsReached
<1>4. PICK g : \A n \in 0..MaxDepth : g[n] = EncodedLevel(n, Msdp!inner(g, n))
  BY <1>3
<1> DEFINE h == [n \in 0..MaxDepth |-> g[n]]
<1>5. h = Form(h)
  <2>1. ASSUME NEW n \in 0..MaxDepth PROVE g[n] = EncodedLevel(n, Msdp!inner(h, n))
    <3>1. n # 0 => h[n - 1] = g[n - 1]
      OBVIOUS
    <3> HIDE DEF h
    <3>2. Msdp!inner(h, n) = Msdp!inner(g, n)
      BY <3>1 DEF Msdp!inner
    <3>. QED BY <1>4, <3>2
  <2>. QED BY <2>1
<1>6. Msdp!encoded = CHOOSE f : f = Form(f)
  BY Zenon DEF Msdp!encoded, EncodedLevel
<1> HIDE DEF h, Form
<1>7. Msdp!encoded = Form(Msdp!encoded)
  BY <1>5, <1>6, Zenon
<1>. QED BY <1>7 DEF Form

LEMMA NoArraysAre ==
    ASSUME MaxDepth \in Nat
    PROVE  \A n \in 0..MaxDepth : NoArrays[n] = PlainLevel(n, Msdp!inner(NoArrays, n))
<1> DEFINE Form(g) == [n \in 0..MaxDepth |-> PlainLevel(n, Msdp!inner(g, n))]
           R == {k \in Nat : \E g : \A n \in 0..k : g[n] = PlainLevel(n, Msdp!inner(g, n))}
<1>1. 0 \in R
  <2> DEFINE g == [n \in 0..0 |-> PlainLevel(0, {})]
  <2>1. \A n \in 0..0 : n = 0 /\ g[n] = PlainLevel(0, {}) /\ Msdp!inner(g, n) = {}
    BY DEF Msdp!inner
  <2>2. \A n \in 0..0 : g[n] = PlainLevel(n, Msdp!inner(g, n))
    BY <2>1, Zenon
  <2>. QED BY <2>2
<1>2. ASSUME NEW k \in Nat, k \in R PROVE k + 1 \in R
  <2>1. PICK g : \A n \in 0..k : g[n] = PlainLevel(n, Msdp!inner(g, n))
    BY <1>2
  <2> DEFINE last == PlainLevel(k + 1, g[k])
             h == [n \in 0..(k + 1) |-> IF n = k + 1 THEN last ELSE g[n]]
  <2>2. ASSUME NEW n \in 0..(k + 1) PROVE h[n] = PlainLevel(n, Msdp!inner(h, n))
    <3>1. CASE n = k + 1
      <4>1. h[n] = last /\ n # 0 /\ n - 1 = k /\ h[k] = g[k]
        BY <3>1
      <4> HIDE DEF h
      <4>2. Msdp!inner(h, n) = g[k]
        BY <4>1 DEF Msdp!inner
      <4>. QED BY <3>1, <4>1, <4>2
    <3>2. CASE n # k + 1
      <4>1. n \in 0..k /\ h[n] = g[n] /\ (n # 0 => h[n - 1] = g[n - 1])
        BY <3>2
      <4> HIDE DEF h
      <4>2. Msdp!inner(h, n) = Msdp!inner(g, n)
        BY <4>1 DEF Msdp!inner
      <4>. QED BY <2>1, <4>1, <4>2
    <3>. QED BY <3>1, <3>2
  <2> HIDE DEF h
  <2>. QED BY <2>2
<1>3. MaxDepth \in R
  <2> HIDE DEF R
  <2>. QED BY <1>1, <1>2, NaturalsReached
<1>4. PICK g : \A n \in 0..MaxDepth : g[n] = PlainLevel(n, Msdp!inner(g, n))
  BY <1>3
<1> DEFINE h == [n \in 0..MaxDepth |-> g[n]]
<1>5. h = Form(h)
  <2>1. ASSUME NEW n \in 0..MaxDepth PROVE g[n] = PlainLevel(n, Msdp!inner(h, n))
    <3>1. n # 0 => h[n - 1] = g[n - 1]
      OBVIOUS
    <3> HIDE DEF h
    <3>2. Msdp!inner(h, n) = Msdp!inner(g, n)
      BY <3>1 DEF Msdp!inner
    <3>. QED BY <1>4, <3>2
  <2>. QED BY <2>1
<1>6. NoArrays = CHOOSE f : f = Form(f)
  BY Zenon DEF NoArrays, PlainLevel
<1> HIDE DEF h, Form
<1>7. NoArrays = Form(NoArrays)
  BY <1>5, <1>6, Zenon
<1>. QED BY <1>7 DEF Form

LEMMA ArrayLastAre ==
    ASSUME MaxDepth \in Nat
    PROVE  \A n \in 0..MaxDepth : ArrayLast[n] = LastLevel(n, Msdp!inner(ArrayLast, n))
<1> DEFINE Form(g) == [n \in 0..MaxDepth |-> LastLevel(n, Msdp!inner(g, n))]
           R == {k \in Nat : \E g : \A n \in 0..k : g[n] = LastLevel(n, Msdp!inner(g, n))}
<1>1. 0 \in R
  <2> DEFINE g == [n \in 0..0 |-> LastLevel(0, {})]
  <2>1. \A n \in 0..0 : n = 0 /\ g[n] = LastLevel(0, {}) /\ Msdp!inner(g, n) = {}
    BY DEF Msdp!inner
  <2>2. \A n \in 0..0 : g[n] = LastLevel(n, Msdp!inner(g, n))
    BY <2>1, Zenon
  <2>. QED BY <2>2
<1>2. ASSUME NEW k \in Nat, k \in R PROVE k + 1 \in R
  <2>1. PICK g : \A n \in 0..k : g[n] = LastLevel(n, Msdp!inner(g, n))
    BY <1>2
  <2> DEFINE last == LastLevel(k + 1, g[k])
             h == [n \in 0..(k + 1) |-> IF n = k + 1 THEN last ELSE g[n]]
  <2>2. ASSUME NEW n \in 0..(k + 1) PROVE h[n] = LastLevel(n, Msdp!inner(h, n))
    <3>1. CASE n = k + 1
      <4>1. h[n] = last /\ n # 0 /\ n - 1 = k /\ h[k] = g[k]
        BY <3>1
      <4> HIDE DEF h
      <4>2. Msdp!inner(h, n) = g[k]
        BY <4>1 DEF Msdp!inner
      <4>. QED BY <3>1, <4>1, <4>2
    <3>2. CASE n # k + 1
      <4>1. n \in 0..k /\ h[n] = g[n] /\ (n # 0 => h[n - 1] = g[n - 1])
        BY <3>2
      <4> HIDE DEF h
      <4>2. Msdp!inner(h, n) = Msdp!inner(g, n)
        BY <4>1 DEF Msdp!inner
      <4>. QED BY <2>1, <4>1, <4>2
    <3>. QED BY <3>1, <3>2
  <2> HIDE DEF h
  <2>. QED BY <2>2
<1>3. MaxDepth \in R
  <2> HIDE DEF R
  <2>. QED BY <1>1, <1>2, NaturalsReached
<1>4. PICK g : \A n \in 0..MaxDepth : g[n] = LastLevel(n, Msdp!inner(g, n))
  BY <1>3
<1> DEFINE h == [n \in 0..MaxDepth |-> g[n]]
<1>5. h = Form(h)
  <2>1. ASSUME NEW n \in 0..MaxDepth PROVE g[n] = LastLevel(n, Msdp!inner(h, n))
    <3>1. n # 0 => h[n - 1] = g[n - 1]
      OBVIOUS
    <3> HIDE DEF h
    <3>2. Msdp!inner(h, n) = Msdp!inner(g, n)
      BY <3>1 DEF Msdp!inner
    <3>. QED BY <1>4, <3>2
  <2>. QED BY <2>1
<1>6. ArrayLast = CHOOSE f : f = Form(f)
  BY Zenon DEF ArrayLast, LastLevel
<1> HIDE DEF h, Form
<1>7. ArrayLast = Form(ArrayLast)
  BY <1>5, <1>6, Zenon
<1>. QED BY <1>7 DEF Form
-------------------------------------------------------------------------------
(***************************************************************************)
(* MSDP: what is written.                                                  *)
(***************************************************************************)
LEMMA NestedMembers ==
    ASSUME MaxDepth \in Nat, NEW n \in 0..MaxDepth, NEW v \in Msdp!Nested[n]
    PROVE  /\ v = Msdp!variable(v.name, v.value_) /\ v.name \in Text
           /\ \/ /\ v.value_ = Msdp!string_value(v.value_.items)
                 /\ v.value_.kind = "string" /\ v.value_.items \in Text
              \/ /\ v.value_ = Msdp!array_value(v.value_.items)
                 /\ v.value_.kind = "array" /\ v.value_.items \in Seq(Text)
              \/ /\ v.value_ = Msdp!table_value(v.value_.items)
                 /\ v.value_.kind = "table"
                 /\ v.value_.items \in Seq(Msdp!inner(Msdp!Nested, n))
<1> DEFINE I == Msdp!inner(Msdp!Nested, n)
<1>1. Msdp!Byte = Byte
  BY DEF Msdp!Byte, Byte
<1>2. v \in NestedLevel(n, I)
  BY NestedIs
<1> HIDE DEF I
<1>3. /\ v = [name |-> v.name, value_ |-> v.value_] /\ v.name \in Text
      /\ v.value_ \in [kind : {"string"}, items : Text]
                      \cup [kind : {"array"}, items : Seq(Text)]
                      \cup [kind : {"table"}, items : Seq(I)]
  BY <1>1, <1>2 DEF NestedLevel, Text
<1>4. CASE v.value_ \in [kind : {"string"}, items : Text]
  BY <1>3, <1>4 DEF Msdp!variable, Msdp!string_value
<1>5. CASE v.value_ \in [kind : {"array"}, items : Seq(Text)]
  BY <1>3, <1>5 DEF Msdp!variable, Msdp!array_value
<1>6. CASE v.value_ \in [kind : {"table"}, items : Seq(I)]
  BY <1>3, <1>6 DEF Msdp!variable, Msdp!table_value, I
<1>. QED BY <1>3, <1>4, <1>5, <1>6

LEMMA MsdpBytes ==
    /\ Msdp!var = 1 /\ Msdp!val = 2 /\ Msdp!table_open = 3
    /\ Msdp!table_close = 4 /\ Msdp!array_open = 5 /\ Msdp!array_close = 6
    /\ \A by \in 1..6 : <<by>> \in Text
<1>1. \A by \in 1..6 : by \in Byte
  BY DEF Byte
<1>2. \A by \in 1..6 : <<by>> \in Text
  BY <1>1 DEF Text
<1>. QED BY <1>2 DEF Msdp!var, Msdp!val, Msdp!table_open, Msdp!table_close,
                     Msdp!array_open, Msdp!array_close

\* In front of a value, of a string in an array, and around an entry of a table.
Header(name) == (<<Msdp!var>> \o name) \o <<Msdp!val>>
marked == [s \in Text |-> <<Msdp!val>> \o s]
Brackets(n) == [v \in Msdp!Nested[n] |-> Msdp!bracketed(Msdp!encoded[n][v])]

LEMMA HeaderType ==
    ASSUME NEW name \in Text
    PROVE  <<Msdp!var>> \o name \in Text /\ Header(name) \in Text
<1> DEFINE a == <<Msdp!var>>
           b == <<Msdp!val>>
<1>1. a \in Text /\ b \in Text
  BY MsdpBytes
<1> HIDE DEF a, b
<1>2. a \o name \in Text /\ (a \o name) \o b \in Text
  BY <1>1, ConcatProperties DEF Text
<1>. QED BY <1>2 DEF a, b, Header

LEMMA BracketedType ==
    ASSUME NEW content_ \in Text
    PROVE  /\ Msdp!bracketed(content_)
                = (<<Msdp!table_open>> \o content_) \o <<Msdp!table_close>>
           /\ Msdp!bracketed(content_) \in Text
<1> DEFINE a == <<Msdp!table_open>>
           b == <<Msdp!table_close>>
<1>1. a \in Text /\ b \in Text
  BY MsdpBytes
<1>2. Msdp!bracketed(content_) = (a \o content_) \o b
  BY DEF Msdp!bracketed
<1> HIDE DEF a, b
<1>3. a \o content_ \in Text /\ (a \o content_) \o b \in Text
  BY <1>1, ConcatProperties DEF Text
<1>. QED BY <1>2, <1>3 DEF a, b

LEMMA ArrayCode ==
    ASSUME NEW arr \in Seq(Text)
    PROVE  /\ marked \in [Text -> Text] /\ Spread(arr, marked) \in Text
           /\ Msdp!encode_array(arr)
                = (<<Msdp!array_open>> \o Spread(arr, marked)) \o <<Msdp!array_close>>
           /\ Msdp!encode_array(arr) \in Text
<1> DEFINE a == <<Msdp!array_open>>
           b == <<Msdp!array_close>>
           c == <<Msdp!val>>
           body == Spread(arr, marked)
<1>1. a \in Text /\ b \in Text /\ c \in Text
  BY MsdpBytes
<1>2. marked \in [Text -> Text]
  <2>1. marked = [s \in Text |-> c \o s]
    BY DEF marked
  <2> HIDE DEF c
  <2>2. \A s \in Text : c \o s \in Text
    BY <1>1, ConcatProperties DEF Text
  <2>. QED BY <2>1, <2>2
<1>3. body \in Text
  BY <1>2, SpreadType DEF Text
<1>4. Msdp!encode_array(arr) = (a \o body) \o b
  <2>1. \A i \in DOMAIN arr : arr[i] \in Text
    BY LenProperties, ElementOfSeq
  <2>2. [i \in DOMAIN arr |-> c \o arr[i]] = [i \in DOMAIN arr |-> marked[arr[i]]]
    BY <2>1 DEF marked
  <2>. QED BY <2>2, SameFlatten DEF Msdp!encode_array, Spread
<1> HIDE DEF a, b, c, body
<1>5. a \o body \in Text /\ (a \o body) \o b \in Text
  BY <1>1, <1>3, ConcatProperties DEF Text
<1>. QED BY <1>2, <1>3, <1>4, <1>5 DEF a, b, body

\* The entries of a table, when those of the level below are encoded as texts.
LEMMA EntriesCode ==
    ASSUME MaxDepth \in Nat, NEW n \in 0..MaxDepth, n # 0,
           Msdp!encoded[n - 1] \in [Msdp!Nested[n - 1] -> Text],
           NEW t \in Seq(Msdp!Nested[n - 1])
    PROVE  /\ Brackets(n - 1) \in [Msdp!Nested[n - 1] -> Text]
           /\ Spread(t, Brackets(n - 1)) \in Text
           /\ Msdp!FlattenSeq([i \in DOMAIN t |->
                 Msdp!bracketed(Msdp!inner(Msdp!encoded, n)[t[i]])])
                = Spread(t, Brackets(n - 1))
<1> DEFINE T == Msdp!Nested[n - 1]
           code == Msdp!encoded[n - 1]
<1>1. Brackets(n - 1) \in [T -> Text]
  <2>1. \A v \in T : Msdp!bracketed(code[v]) \in Text
    BY BracketedType
  <2>. QED BY <2>1 DEF Brackets
<1>2. Spread(t, Brackets(n - 1)) \in Text
  BY <1>1, SpreadType DEF Text
<1>3. \A i \in DOMAIN t : t[i] \in T
  BY LenProperties, ElementOfSeq
<1>4. Msdp!inner(Msdp!encoded, n) = code
  BY DEF Msdp!inner
<1>5. [i \in DOMAIN t |-> Msdp!bracketed(Msdp!inner(Msdp!encoded, n)[t[i]])]
        = [i \in DOMAIN t |-> Brackets(n - 1)[t[i]]]
  BY <1>3, <1>4 DEF Brackets
<1>. QED BY <1>1, <1>2, <1>5, SameFlatten DEF Spread

\* What is written of a variable.
LEMMA CodeIs ==
    ASSUME MaxDepth \in Nat, NEW n \in 0..MaxDepth, NEW v \in Msdp!Nested[n],
           n # 0 => Msdp!encoded[n - 1] \in [Msdp!Nested[n - 1] -> Text]
    PROVE  /\ Msdp!encoded[n][v] \in Text
           /\ v.value_.kind = "string" => Msdp!encoded[n][v] = Header(v.name) \o v.value_.items
           /\ v.value_.kind = "array" =>
                 Msdp!encoded[n][v] = Header(v.name) \o Msdp!encode_array(v.value_.items)
           /\ n # 0 /\ v.value_.kind = "table" =>
                 Msdp!encoded[n][v] = Header(v.name) \o Spread(v.value_.items, Brackets(n - 1))
<1> DEFINE items == v.value_.items
           entries == Msdp!FlattenSeq([i \in DOMAIN items |->
                 Msdp!bracketed(Msdp!inner(Msdp!encoded, n)[items[i]])])
           code == Msdp!encoded[n][v]
<1>1. code = Msdp!encoding(v, Msdp!inner(Msdp!encoded, n))
  BY EncodedIs DEF EncodedLevel
<1>2. Header(v.name) \in Text
  BY NestedMembers, HeaderType
<1>3. CASE v.value_.kind = "string"
  <2>1. items \in Text
    BY <1>3, NestedMembers
  <2>2. code = Header(v.name) \o items
    BY <1>1, <1>3 DEF Msdp!encoding, Header
  <2>. QED BY <1>2, <1>3, <2>1, <2>2, ConcatProperties DEF Text
<1>4. CASE v.value_.kind = "array"
  <2>1. items \in Seq(Text)
    BY <1>4, NestedMembers
  <2>2. code = Header(v.name) \o Msdp!encode_array(items)
    BY <1>1, <1>4 DEF Msdp!encoding, Header
  <2>3. Msdp!encode_array(items) \in Text
    BY <2>1, ArrayCode
  <2>. QED BY <1>2, <1>4, <2>2, <2>3, ConcatProperties DEF Text
<1>5. CASE v.value_.kind = "table"
  <2>1. items \in Seq(Msdp!inner(Msdp!Nested, n))
    BY <1>5, NestedMembers
  <2>2. code = Header(v.name) \o entries
    BY <1>1, <1>5 DEF Msdp!encoding, Header
  <2>3. CASE n = 0
    <3>1. items \in Seq({})
      BY <2>1, <2>3 DEF Msdp!inner
    <3>2. items = <<>>
      <4>1. Len(items) \in Nat /\ \A i \in 1..Len(items) : items[i] \in {}
        BY <3>1, LenProperties, ElementOfSeq
      <4>2. 1 \notin 1..Len(items)
        BY <4>1
      <4>3. Len(items) = 0
        <5> DEFINE l == Len(items)
        <5>1. l \in Nat /\ 1 \notin 1..l
          BY <4>1, <4>2
        <5> HIDE DEF l
        <5>2. l = 0
          BY <5>1
        <5>. QED BY <5>2 DEF l
      <4>. QED BY <3>1, <4>3, EmptySeq
    <3>3. entries = <<>>
      <4>1. [i \in DOMAIN items |->
                Msdp!bracketed(Msdp!inner(Msdp!encoded, n)[items[i]])] = <<>>
        BY <3>2
      <4>2. Msdp!FlattenSeq(<<>>) = <<>>
        BY SameFlatten, FlattenEmpty
      <4>. QED BY <4>1, <4>2
    <3>4. code \in Text
      BY <1>2, <2>2, <3>3, ConcatEmptySeq DEF Text
    <3>. QED BY <1>5, <2>3, <3>4
  <2>4. CASE n # 0
    <3>1. items \in Seq(Msdp!Nested[n - 1])
      BY <2>1, <2>4 DEF Msdp!inner
    <3>2. entries = Spread(items, Brackets(n - 1)) /\ Spread(items, Brackets(n - 1)) \in Text
      BY <2>4, <3>1, EntriesCode
    <3>3. Header(v.name) \o Spread(items, Brackets(n - 1)) \in Text
      BY <1>2, <3>2, ConcatProperties DEF Text
    <3>. QED BY <1>5, <2>2, <2>4, <3>2, <3>3
  <2>. QED BY <2>3, <2>4
<1>6. v.value_.kind \in {"string", "array", "table"}
  BY NestedMembers
<1>. QED BY <1>3, <1>4, <1>5, <1>6

LEMMA CodeType ==
    ASSUME MaxDepth \in Nat
    PROVE  \A n \in 0..MaxDepth : Msdp!encoded[n] \in [Msdp!Nested[n] -> Text]
<1> DEFINE R == {n \in Nat : n <= MaxDepth => Msdp!encoded[n] \in [Msdp!Nested[n] -> Text]}
<1>1. ASSUME NEW n \in 0..MaxDepth,
             n # 0 => Msdp!encoded[n - 1] \in [Msdp!Nested[n - 1] -> Text]
      PROVE  Msdp!encoded[n] \in [Msdp!Nested[n] -> Text]
  <2>1. \A v \in Msdp!Nested[n] : Msdp!encoded[n][v] \in Text
    BY <1>1, CodeIs
  <2>2. Msdp!encoded[n] = [v \in Msdp!Nested[n] |-> Msdp!encoded[n][v]]
    BY EncodedIs DEF EncodedLevel
  <2>. QED BY <2>1, <2>2
<1>2. 0 \in R
  BY <1>1
<1>3. ASSUME NEW n \in Nat, n \in R PROVE n + 1 \in R
  <2>1. CASE n + 1 <= MaxDepth
    <3>1. n + 1 \in 0..MaxDepth /\ (n + 1) - 1 = n /\ n <= MaxDepth
      BY <2>1
    <3>2. Msdp!encoded[n] \in [Msdp!Nested[n] -> Text]
      BY <1>3, <3>1
    <3>3. Msdp!encoded[n + 1] \in [Msdp!Nested[n + 1] -> Text]
      BY <1>1, <3>1, <3>2
    <3>. QED BY <3>3
  <2>. QED BY <2>1
<1>4. \A n \in Nat : n \in R
  <2> HIDE DEF R
  <2>. QED BY <1>2, <1>3, NaturalsReached
<1>. QED BY <1>4
-------------------------------------------------------------------------------
(***************************************************************************)
(* MSDP: what is read.                                                     *)
(***************************************************************************)
\* The bytes of s lead a parser from p to q.
Leads(p, s, q) ==
    \E g : /\ g[0] = p /\ g[Len(s)] = q
           /\ \A i \in 1..Len(s) : g[i] = Msdp!parse(g[i - 1], s[i])

LEMMA LeadsEmpty ==
    ASSUME NEW p
    PROVE  Leads(p, <<>>, p) /\ \A q : Leads(p, <<>>, q) => q = p
<1>1. Len(<<>>) = 0
  BY EmptySeq
<1>2. Leads(p, <<>>, p)
  <2> DEFINE g == [i \in {0} |-> p]
  <2>1. g[0] = p /\ \A i \in 1..0 : FALSE
    OBVIOUS
  <2> HIDE DEF g
  <2>. QED BY <1>1, <2>1 DEF Leads
<1>3. ASSUME NEW q, Leads(p, <<>>, q) PROVE q = p
  BY <1>1, <1>3 DEF Leads
<1>. QED BY <1>2, <1>3

LEMMA LeadsOne ==
    ASSUME NEW p, NEW by
    PROVE  Leads(p, <<by>>, Msdp!parse(p, by))
<1> DEFINE s == <<by>>
           q == Msdp!parse(p, by)
           g == [i \in 0..1 |-> IF i = 0 THEN p ELSE q]
<1>1. Len(s) = 1 /\ s[1] = by
  OBVIOUS
<1>2. g[0] = p /\ g[1] = q
  OBVIOUS
<1> HIDE DEF s, g
<1>3. \A i \in 1..1 : g[i] = Msdp!parse(g[i - 1], s[i])
  BY <1>1, <1>2
<1>4. Leads(p, s, q)
  BY <1>1, <1>2, <1>3 DEF Leads
<1>. QED BY <1>4 DEF s

LEMMA LeadsOn ==
    ASSUME NEW s \in Text, NEW t \in Text, NEW p, NEW q, NEW r,
           Leads(p, s, q), Leads(q, t, r)
    PROVE  Leads(p, s \o t, r)
<1> DEFINE m == Len(s)
           n == Len(t)
           w == s \o t
<1>1. /\ m \in Nat /\ n \in Nat /\ Len(w) = m + n
      /\ \A i \in 1..m : w[i] = s[i]
      /\ \A i \in 1..n : w[m + i] = t[i]
  BY DEF Text
<1>2. PICK g : g[0] = p /\ g[m] = q /\ \A i \in 1..m : g[i] = Msdp!parse(g[i - 1], s[i])
  BY DEF Leads
<1>3. PICK h : h[0] = q /\ h[n] = r /\ \A i \in 1..n : h[i] = Msdp!parse(h[i - 1], t[i])
  BY DEF Leads
<1> HIDE DEF m, n, w
<1> DEFINE k == [i \in 0..(m + n) |-> IF i <= m THEN g[i] ELSE h[i - m]]
<1>4. k[0] = p
  BY <1>1, <1>2
<1>5. k[m + n] = r
  <2>1. CASE n = 0
    BY <1>1, <1>2, <1>3, <2>1
  <2>2. CASE n # 0
    BY <1>1, <1>3, <2>2
  <2>. QED BY <2>1, <2>2
<1>6. ASSUME NEW i \in 1..(m + n) PROVE k[i] = Msdp!parse(k[i - 1], w[i])
  <2>1. CASE i <= m
    <3>1. i \in 1..m /\ k[i] = g[i] /\ k[i - 1] = g[i - 1]
      BY <1>1, <2>1
    <3> HIDE DEF k
    <3>. QED BY <1>1, <1>2, <3>1
  <2>2. CASE i = m + 1
    <3>1. 1 \in 1..n /\ k[i] = h[1] /\ k[i - 1] = g[m] /\ m + 1 = i
      BY <1>1, <2>2
    <3>2. h[1] = Msdp!parse(h[0], t[1])
      <4>1. 1 - 1 = 0
        OBVIOUS
      <4>. QED BY <1>3, <3>1, <4>1
    <3>3. w[i] = t[1]
      BY <1>1, <3>1
    <3> HIDE DEF k
    <3>. QED BY <1>2, <1>3, <3>1, <3>2, <3>3
  <2>3. CASE i > m + 1
    <3> DEFINE j == i - m
    <3>1. j \in 1..n /\ k[i] = h[j] /\ k[i - 1] = h[j - 1] /\ m + j = i
      BY <1>1, <2>3
    <3>2. w[i] = t[j]
      BY <1>1, <3>1
    <3> HIDE DEF k, j
    <3>. QED BY <1>3, <3>1, <3>2
  <2>. QED BY <1>1, <2>1, <2>2, <2>3
<1> HIDE DEF k
<1>7. Leads(p, w, r)
  BY <1>1, <1>4, <1>5, <1>6 DEF Leads
<1>. QED BY <1>7 DEF w

\* The first of the bytes.
LEMMA LeadsRead ==
    ASSUME NEW s \in Text, s # <<>>, NEW p, NEW q, Leads(p, s, q)
    PROVE  Tail(s) \in Text /\ Leads(Msdp!parse(p, Head(s)), Tail(s), q)
<1> DEFINE n == Len(s)
           t == Tail(s)
<1>1. /\ n \in Nat /\ n # 0 /\ t \in Text /\ Len(t) = n - 1 /\ Head(s) = s[1]
      /\ \A i \in 1..(n - 1) : t[i] = s[i + 1]
  BY DEF Text
<1>2. PICK g : g[0] = p /\ g[n] = q /\ \A i \in 1..n : g[i] = Msdp!parse(g[i - 1], s[i])
  BY DEF Leads
<1> HIDE DEF n, t
<1> DEFINE h == [i \in 0..(n - 1) |-> g[i + 1]]
<1>3. h[0] = Msdp!parse(p, Head(s))
  <2>1. h[0] = g[1] /\ 1 \in 1..n /\ 1 - 1 = 0
    BY <1>1
  <2> HIDE DEF h
  <2>. QED BY <1>1, <1>2, <2>1
<1>4. h[n - 1] = q
  BY <1>1, <1>2
<1>5. ASSUME NEW i \in 1..(n - 1) PROVE h[i] = Msdp!parse(h[i - 1], t[i])
  <2>1. h[i] = g[i + 1] /\ h[i - 1] = g[i] /\ i + 1 \in 1..n /\ (i + 1) - 1 = i
    BY <1>1
  <2>2. g[i + 1] = Msdp!parse(g[(i + 1) - 1], s[i + 1])
    BY <1>2, <2>1
  <2>3. g[(i + 1) - 1] = g[i]
    BY <2>1
  <2> HIDE DEF h
  <2>. QED BY <1>1, <2>1, <2>2, <2>3
<1> HIDE DEF h
<1>6. Leads(Msdp!parse(p, Head(s)), t, q)
  BY <1>1, <1>3, <1>4, <1>5 DEF Leads
<1>. QED BY <1>1, <1>6 DEF t

\* A parser that is written out: the variables that are open, outermost first.
Stacked(S) == \E T : S \in Seq(T)
nothing_undefined == FALSE
Machine(S, state, out) ==
    [current_var_ |-> S, state_ |-> state, out |-> out, undefined |-> nothing_undefined]

\* When v is closed: it is passed on, or put into the variable around it.
Closed(S, v, out) ==
    IF S = <<>> THEN Machine(<<>>, "idle", Append(out, v))
    ELSE Machine(Append(Front(S), Msdp!into(Last(S), v)), "idle", out)

\* The innermost of n open variables becomes y.
Topped(a, n, y) == [a EXCEPT ![n] = y]

LEMMA StackFacts ==
    ASSUME NEW S, Stacked(S), NEW x
    PROVE  /\ Stacked(Append(S, x)) /\ Append(S, x) # <<>> /\ Len(S) \in Nat
           /\ Len(Append(S, x)) = Len(S) + 1
           /\ Append(S, x)[Len(S) + 1] = x
           /\ Front(Append(S, x)) = S /\ Last(Append(S, x)) = x
           /\ \A y : Topped(Append(S, x), Len(S) + 1, y) = Append(S, y)
<1>1. PICK T : S \in Seq(T)
  BY DEF Stacked
<1> DEFINE U == T \cup {x}
<1>2. S \in Seq(U) /\ x \in U
  BY <1>1, SeqMonotonic
<1> HIDE DEF U
<1>3. /\ Append(S, x) \in Seq(U) /\ Len(S) \in Nat /\ Len(Append(S, x)) = Len(S) + 1
      /\ Append(S, x)[Len(S) + 1] = x
  BY <1>2, AppendProperties, LenProperties
<1>4. Append(S, x) # <<>> /\ Front(Append(S, x)) = S /\ Last(Append(S, x)) = x
  BY <1>2, EndsOfAppend
<1>5. ASSUME NEW y PROVE Topped(Append(S, x), Len(S) + 1, y) = Append(S, y)
  <2> DEFINE W == U \cup {y}
             a == Append(S, x)
             b == Append(S, y)
             n == Len(S) + 1
             c == [a EXCEPT ![n] = y]
  <2>1. S \in Seq(W) /\ x \in W /\ y \in W
    BY <1>2, SeqMonotonic
  <2> HIDE DEF W
  <2>2. /\ a \in Seq(W) /\ Len(a) = n /\ b \in Seq(W) /\ Len(b) = n /\ n \in Nat /\ n >= 1
        /\ b[n] = y
        /\ \A i \in 1..Len(S) : a[i] = S[i] /\ b[i] = S[i]
    BY <2>1, AppendProperties, LenProperties
  <2> HIDE DEF a, b
  <2>3. n \in 1..Len(a)
    BY <2>2
  <2>4. /\ c \in Seq(W) /\ Len(c) = n
        /\ \A j \in 1..n : c[j] = IF j = n THEN y ELSE a[j]
    BY <2>1, <2>2, <2>3, ExceptSeq
  <2> HIDE DEF c
  <2>5. \A i \in 1..Len(c) : c[i] = b[i]
    <3>1. \A i \in 1..n : i # n => i \in 1..Len(S)
      BY <1>3
    <3>. QED BY <2>2, <2>4, <3>1
  <2>6. c = b
    BY <2>2, <2>4, <2>5, SeqEqual
  <2>. QED BY <2>6 DEF a, b, c, Topped
<1>6. Stacked(Append(S, x))
  BY <1>3 DEF Stacked
<1>. QED BY <1>3, <1>4, <1>5, <1>6

LEMMA EmptyStack == Stacked(<<>>)
BY EmptySeq DEF Stacked

\* What of a parser changes.
LEMMA PointersChange ==
    ASSUME NEW stack, NEW state, NEW out, NEW odd, NEW x, NEW p,
           p = [current_var_ |-> stack, state_ |-> state, out |-> out, undefined |-> odd]
    PROVE  [p EXCEPT !.current_var_ = x]
              = [current_var_ |-> x, state_ |-> state, out |-> out, undefined |-> odd]
BY SMT

LEMMA StateChanges ==
    ASSUME NEW stack, NEW state, NEW out, NEW odd, NEW x, NEW p,
           p = [current_var_ |-> stack, state_ |-> state, out |-> out, undefined |-> odd]
    PROVE  [p EXCEPT !.state_ = x]
              = [current_var_ |-> stack, state_ |-> x, out |-> out, undefined |-> odd]
BY SMT

LEMMA OutputChanges ==
    ASSUME NEW stack, NEW state, NEW out, NEW odd, NEW x, NEW p,
           p = [current_var_ |-> stack, state_ |-> state, out |-> out, undefined |-> odd]
    PROVE  [p EXCEPT !.out = x]
              = [current_var_ |-> stack, state_ |-> state, out |-> x, undefined |-> odd]
BY SMT

LEMMA TwoChange ==
    ASSUME NEW stack, NEW state, NEW out, NEW odd, NEW x, NEW y, NEW p,
           p = [current_var_ |-> stack, state_ |-> state, out |-> out, undefined |-> odd]
    PROVE  [p EXCEPT !.current_var_ = x, !.out = y]
              = [[p EXCEPT !.current_var_ = x] EXCEPT !.out = y]
BY SMT

PointingAt(p, x) == [p EXCEPT !.current_var_ = x]
InState(p, x) == [p EXCEPT !.state_ = x]
PassingOn(p, x, y) == [p EXCEPT !.current_var_ = x, !.out = y]

LEMMA MachineChanges ==
    ASSUME NEW S, NEW state, NEW out
    PROVE  /\ Machine(S, state, out).current_var_ = S /\ Machine(S, state, out).state_ = state
           /\ Machine(S, state, out).out = out /\ Machine(S, state, out).undefined = nothing_undefined
           /\ \A x : PointingAt(Machine(S, state, out), x) = Machine(x, state, out)
           /\ \A x : InState(Machine(S, state, out), x) = Machine(S, x, out)
           /\ \A x, y : PassingOn(Machine(S, state, out), x, y) = Machine(x, state, y)
<1> DEFINE p == Machine(S, state, out)
<1>1. p = [current_var_ |-> S, state_ |-> state, out |-> out, undefined |-> nothing_undefined]
  BY DEF Machine
<1>2. p.current_var_ = S /\ p.state_ = state /\ p.out = out /\ p.undefined = nothing_undefined
  BY DEF Machine
<1> HIDE DEF p
<1>3. ASSUME NEW x PROVE [p EXCEPT !.current_var_ = x] = Machine(x, state, out)
  BY <1>1, PointersChange DEF Machine
<1>4. ASSUME NEW x PROVE [p EXCEPT !.state_ = x] = Machine(S, x, out)
  BY <1>1, StateChanges DEF Machine
<1>5. ASSUME NEW x, NEW y PROVE [p EXCEPT !.current_var_ = x, !.out = y] = Machine(x, state, y)
  <2> DEFINE q == [p EXCEPT !.current_var_ = x]
  <2>1. [p EXCEPT !.current_var_ = x, !.out = y] = [q EXCEPT !.out = y]
    BY <1>1, TwoChange
  <2>2. q = [current_var_ |-> x, state_ |-> state, out |-> out, undefined |-> nothing_undefined]
    BY <1>3, Zenon DEF Machine
  <2> HIDE DEF q
  <2>3. [q EXCEPT !.out = y]
          = [current_var_ |-> x, state_ |-> state, out |-> y, undefined |-> nothing_undefined]
    BY <2>2, OutputChanges
  <2>. QED BY <2>1, <2>3, Zenon DEF Machine
<1>. QED BY <1>2, <1>3, <1>4, <1>5, Zenon DEF p, PointingAt, InState, PassingOn

LEMMA MachineFacts ==
    ASSUME NEW S, Stacked(S), NEW x, NEW state, NEW out
    PROVE  /\ Msdp!top(Machine(Append(S, x), state, out)) = x
           /\ \A y : Msdp!with_top(Machine(Append(S, x), state, out), y)
                       = Machine(Append(S, y), state, out)
           /\ Msdp!open_variable(Machine(S, state, out))
                = Machine(Append(S, Msdp!new_variable), state, out)
           /\ \A next : Msdp!to(Machine(S, state, out), next) = Machine(S, next, out)
<1> DEFINE a == Append(S, x)
           p == Machine(a, state, out)
           q == Machine(S, state, out)
<1>1. /\ p.current_var_ = a /\ Len(a) = Len(S) + 1 /\ a[Len(a)] = x
      /\ \A y : Topped(a, Len(a), y) = Append(S, y)
      /\ q.current_var_ = S
  <2>1. p.current_var_ = a /\ q.current_var_ = S
    BY DEF Machine
  <2>2. Len(a) = Len(S) + 1 /\ a[Len(S) + 1] = x
    BY StackFacts
  <2>3. \A y : Topped(a, Len(S) + 1, y) = Append(S, y)
    BY StackFacts
  <2> HIDE DEF a, p, q
  <2>. QED BY <2>1, <2>2, <2>3
<1>2. /\ \A y : PointingAt(p, y) = Machine(y, state, out)
      /\ \A y : PointingAt(q, y) = Machine(y, state, out)
      /\ \A y : InState(q, y) = Machine(S, y, out)
  BY MachineChanges
<1> HIDE DEF a, p, q
<1>3. Msdp!top(p) = x
  BY <1>1 DEF Msdp!top
<1>4. ASSUME NEW y PROVE Msdp!with_top(p, y) = Machine(Append(S, y), state, out)
  <2> DEFINE b == [a EXCEPT ![Len(a)] = y]
  <2>1. Msdp!with_top(p, y) = PointingAt(p, b)
    BY <1>1 DEF Msdp!with_top, PointingAt
  <2>2. b = Append(S, y)
    BY <1>1 DEF Topped
  <2> HIDE DEF b
  <2>. QED BY <1>2, <2>1, <2>2, Zenon
<1>5. Msdp!open_variable(q) = Machine(Append(S, Msdp!new_variable), state, out)
  <2> DEFINE b == Append(S, Msdp!new_variable)
  <2>1. Msdp!open_variable(q) = PointingAt(q, b)
    BY <1>1 DEF Msdp!open_variable, PointingAt
  <2> HIDE DEF b
  <2>2. PointingAt(q, b) = Machine(b, state, out)
    BY <1>2, Zenon
  <2>. QED BY <2>1, <2>2, Zenon DEF b
<1>6. \A next : Msdp!to(q, next) = Machine(S, next, out)
  BY <1>2 DEF Msdp!to, InState
<1>. QED BY <1>3, <1>4, <1>5, <1>6, Zenon DEF p, a, q

LEMMA CloseIs ==
    ASSUME NEW S, Stacked(S), NEW x, NEW state, NEW out
    PROVE  Msdp!to(Msdp!close_variable(Machine(Append(S, x), state, out)), "idle")
              = Closed(S, x, out)
<1> DEFINE a == Append(S, x)
           p == Machine(a, state, out)
<1>1. /\ a # <<>> /\ Len(a) = Len(S) + 1 /\ Len(S) \in Nat /\ Msdp!Front(a) = S
      /\ p.current_var_ = a /\ Msdp!top(p) = x
  <2>1. a # <<>> /\ Len(a) = Len(S) + 1 /\ Len(S) \in Nat /\ Front(a) = S
    BY StackFacts
  <2>2. Msdp!Front(a) = Front(a)
    BY SameEnds
  <2>3. p.current_var_ = a
    BY DEF Machine
  <2>4. Msdp!top(p) = x
    BY MachineFacts
  <2>. QED BY <2>1, <2>2, <2>3, <2>4
<1>2. /\ p.out = out
      /\ \A y : PointingAt(p, y) = Machine(y, state, out)
      /\ \A y, z : PassingOn(p, y, z) = Machine(y, state, z)
  BY MachineChanges
<1> HIDE DEF a, p
<1>3. CASE S = <<>>
  <2>1. Len(a) = 1
    BY <1>1, <1>3, EmptySeq
  <2> DEFINE b == Append(out, x)
             none == <<>>
  <2>2. Msdp!close_variable(p) = PassingOn(p, none, b)
    BY <1>1, <1>2, <2>1 DEF Msdp!close_variable, PassingOn
  <2>3. Closed(S, x, out) = Machine(none, "idle", b)
    BY <1>3 DEF Closed
  <2> HIDE DEF b, none
  <2>4. Msdp!close_variable(p) = Machine(none, state, b)
    BY <1>2, <2>2, Zenon
  <2>5. Msdp!to(Machine(none, state, b), "idle") = Machine(none, "idle", b)
    BY MachineChanges DEF Msdp!to, InState
  <2>. QED BY <2>3, <2>4, <2>5 DEF p, a
<1>4. CASE S # <<>>
  <2> DEFINE b == Append(Front(S), Msdp!into(Last(S), x))
  <2>1. Len(a) # 1
    <3>1. Len(S) # 0
      BY <1>4, EmptySeq DEF Stacked
    <3>. QED BY <1>1, <3>1
  <2>2. Msdp!close_variable(p) = PointingAt(p, b)
    BY <1>1, <2>1, SameEnds DEF Msdp!close_variable, PointingAt
  <2>3. Closed(S, x, out) = Machine(b, "idle", out)
    BY <1>4 DEF Closed
  <2> HIDE DEF b
  <2>4. Msdp!close_variable(p) = Machine(b, state, out)
    BY <1>2, <2>2, Zenon
  <2>5. Msdp!to(Machine(b, state, out), "idle") = Machine(b, "idle", out)
    BY MachineChanges DEF Msdp!to, InState
  <2>. QED BY <2>3, <2>4, <2>5 DEF p, a
<1>. QED BY <1>3, <1>4
-------------------------------------------------------------------------------
(***************************************************************************)
(* MSDP: one byte.                                                         *)
(***************************************************************************)
LEMMA NameChanges ==
    ASSUME NEW name, NEW val_, NEW x, NEW v, v = [name |-> name, value_ |-> val_]
    PROVE  [v EXCEPT !.name = x] = [name |-> x, value_ |-> val_]
BY SMT

LEMMA ValueChanges ==
    ASSUME NEW name, NEW val_, NEW x, NEW v, v = [name |-> name, value_ |-> val_]
    PROVE  [v EXCEPT !.value_ = x] = [name |-> name, value_ |-> x]
BY SMT

LEMMA ItemsChange ==
    ASSUME NEW kind, NEW items, NEW x, NEW v, v = [kind |-> kind, items |-> items]
    PROVE  [v EXCEPT !.items = x] = [kind |-> kind, items |-> x]
BY SMT

LEMMA IntoIs ==
    ASSUME NEW name, NEW t, NEW x
    PROVE  Msdp!into(Msdp!variable(name, Msdp!table_value(t)), x)
              = Msdp!variable(name, Msdp!table_value(Append(t, x)))
<1> DEFINE a == [kind |-> "table", items |-> t]
           v == [name |-> name, value_ |-> a]
           u == Append(t, x)
           b == [a EXCEPT !.items = u]
<1>1. a.items = t /\ v.value_ = a
  OBVIOUS
<1>2. b = [kind |-> "table", items |-> u]
  BY ItemsChange
<1>3. Msdp!into(v, x) = [v EXCEPT !.value_ = b]
  BY <1>1 DEF Msdp!into
<1> HIDE DEF b
<1>4. [v EXCEPT !.value_ = b] = [name |-> name, value_ |-> b]
  BY ValueChanges
<1>. QED BY <1>2, <1>3, <1>4 DEF Msdp!variable, Msdp!table_value

\* What a byte does is decided by the state.
LEMMA ParseIs ==
    ASSUME NEW S, NEW out, NEW by
    PROVE  /\ Msdp!parse(Machine(S, "idle", out), by)
                = Msdp!parse_idle(Machine(S, "idle", out), by)
           /\ Msdp!parse(Machine(S, "name", out), by)
                = Msdp!parse_name(Machine(S, "name", out), by)
           /\ Msdp!parse(Machine(S, "value", out), by)
                = Msdp!parse_value(Machine(S, "value", out), by)
           /\ Msdp!parse(Machine(S, "array", out), by)
                = Msdp!parse_array(Machine(S, "array", out), by)
BY DEF Msdp!parse, Machine, nothing_undefined

LEMMA IdleSteps ==
    ASSUME NEW S, Stacked(S), NEW x, NEW out
    PROVE  /\ Msdp!parse(Machine(S, "idle", out), Msdp!var)
                = Machine(Append(S, Msdp!new_variable), "name", out)
           /\ Msdp!parse(Machine(S, "idle", out), Msdp!table_open)
                = Machine(S, "idle", out)
           /\ Msdp!parse(Machine(Append(S, x), "idle", out), Msdp!table_close)
                = Closed(S, x, out)
<1> DEFINE p == Machine(S, "idle", out)
           q == Machine(Append(S, x), "idle", out)
<1>1. Msdp!parse(p, 1) = Msdp!to(Msdp!open_variable(p), "name")
  BY ParseIs, MsdpBytes DEF Msdp!parse_idle
<1>2. Msdp!open_variable(p) = Machine(Append(S, Msdp!new_variable), "idle", out)
  BY MachineFacts
<1>3. Msdp!to(Machine(Append(S, Msdp!new_variable), "idle", out), "name")
        = Machine(Append(S, Msdp!new_variable), "name", out)
  BY MachineChanges DEF Msdp!to, InState
<1>4. Msdp!parse(p, 3) = p
  BY ParseIs, MsdpBytes DEF Msdp!parse_idle
<1>5. Msdp!parse(q, 4) = Msdp!to(Msdp!close_variable(q), "idle")
  BY ParseIs, MsdpBytes DEF Msdp!parse_idle
<1>6. Msdp!to(Msdp!close_variable(q), "idle") = Closed(S, x, out)
  BY CloseIs
<1> HIDE DEF p, q
<1>7. Msdp!parse(p, 1) = Machine(Append(S, Msdp!new_variable), "name", out)
  BY <1>1, <1>2, <1>3
<1>8. Msdp!parse(q, 4) = Closed(S, x, out)
  BY <1>5, <1>6
<1>. QED BY <1>4, <1>7, <1>8, MsdpBytes DEF p, q

LEMMA NameSteps ==
    ASSUME NEW S, Stacked(S), NEW name, NEW val_, NEW out
    PROVE  /\ \A by : by # Msdp!val =>
                Msdp!parse(Machine(Append(S, Msdp!variable(name, val_)), "name", out), by)
                   = Machine(Append(S, Msdp!variable(Append(name, by), val_)), "name", out)
           /\ Msdp!parse(Machine(Append(S, Msdp!variable(name, val_)), "name", out),
                              Msdp!val)
                = Machine(Append(S, Msdp!variable(name, Msdp!string_value(<<>>))),
                          "value", out)
<1> DEFINE v == Msdp!variable(name, val_)
           none == Msdp!string_value(<<>>)
           p == Machine(Append(S, v), "name", out)
<1>1. /\ Msdp!top(p) = v /\ \A y : Msdp!with_top(p, y) = Machine(Append(S, y), "name", out)
  BY MachineFacts
<1>2. v = [name |-> name, value_ |-> val_] /\ v.name = name
  BY DEF Msdp!variable
<1> HIDE DEF v, p, none
<1>3. ASSUME NEW by, by # Msdp!val
      PROVE  Msdp!parse(p, by)
                = Machine(Append(S, Msdp!variable(Append(name, by), val_)), "name", out)
  <2> DEFINE n == Append(name, by)
             u == [v EXCEPT !.name = n]
  <2>1. Msdp!parse(p, by) = Msdp!with_top(p, u)
    <3>1. Msdp!parse(p, by) = Msdp!parse_name(p, by)
      BY ParseIs DEF p
    <3>2. Msdp!parse_name(p, by) = Msdp!with_top(p, u)
      BY <1>1, <1>2, <1>3 DEF Msdp!parse_name
    <3>. QED BY <3>1, <3>2
  <2> HIDE DEF n
  <2>2. u = Msdp!variable(n, val_)
    BY <1>2, NameChanges DEF Msdp!variable
  <2> HIDE DEF u
  <2>. QED BY <1>1, <2>1, <2>2 DEF n
<1>4. Msdp!parse(p, Msdp!val)
        = Machine(Append(S, Msdp!variable(name, none)), "value", out)
  <2> DEFINE u == [v EXCEPT !.value_ = none]
             q == Machine(Append(S, Msdp!variable(name, none)), "name", out)
  <2>1. Msdp!parse(p, Msdp!val) = Msdp!parse_name(p, Msdp!val)
    BY ParseIs DEF p
  <2>2. Msdp!parse_name(p, Msdp!val)
          = Msdp!to(Msdp!value_becomes(p, none), "value")
    BY DEF Msdp!parse_name, none
  <2>3. Msdp!value_becomes(p, none) = Msdp!with_top(p, u)
    BY <1>1 DEF Msdp!value_becomes
  <2>4. u = Msdp!variable(name, none)
    BY <1>2, ValueChanges DEF Msdp!variable
  <2> HIDE DEF u
  <2>5. Msdp!value_becomes(p, none) = q
    BY <1>1, <2>3, <2>4
  <2>6. Msdp!to(q, "value") = Machine(Append(S, Msdp!variable(name, none)), "value", out)
    BY MachineChanges DEF Msdp!to, InState
  <2> HIDE DEF q
  <2>. QED BY <2>1, <2>2, <2>5, <2>6
<1>. QED BY <1>3, <1>4 DEF p, v, none

\* A new value, and perhaps a new state.
LEMMA ValueBecomes ==
    ASSUME NEW S, Stacked(S), NEW name, NEW val_, NEW other, NEW state, NEW out
    PROVE  /\ Msdp!value_becomes(
                 Machine(Append(S, Msdp!variable(name, val_)), state, out), other)
                = Machine(Append(S, Msdp!variable(name, other)), state, out)
           /\ \A next : Msdp!to(Msdp!value_becomes(
                 Machine(Append(S, Msdp!variable(name, val_)), state, out), other), next)
                = Machine(Append(S, Msdp!variable(name, other)), next, out)
           /\ Msdp!top(Machine(Append(S, Msdp!variable(name, val_)), state, out))
                = Msdp!variable(name, val_)
           /\ Msdp!variable(name, val_).value_ = val_
<1> DEFINE v == Msdp!variable(name, val_)
           p == Machine(Append(S, v), state, out)
           u == [v EXCEPT !.value_ = other]
           q == Machine(Append(S, Msdp!variable(name, other)), state, out)
<1>1. /\ Msdp!top(p) = v /\ \A y : Msdp!with_top(p, y) = Machine(Append(S, y), state, out)
  BY MachineFacts
<1>2. v = [name |-> name, value_ |-> val_] /\ v.value_ = val_
  BY DEF Msdp!variable
<1> HIDE DEF v, p
<1>3. Msdp!value_becomes(p, other) = Msdp!with_top(p, u)
  BY <1>1 DEF Msdp!value_becomes
<1>4. u = Msdp!variable(name, other)
  BY <1>2, ValueChanges DEF Msdp!variable
<1> HIDE DEF u
<1>5. Msdp!value_becomes(p, other) = q
  BY <1>1, <1>3, <1>4
<1>6. \A next : Msdp!to(q, next) = Machine(Append(S, Msdp!variable(name, other)), next, out)
  BY MachineChanges DEF Msdp!to, InState
<1> HIDE DEF q
<1>. QED BY <1>1, <1>2, <1>5, <1>6 DEF p, v, q

LEMMA ValueSteps ==
    ASSUME NEW S, Stacked(S), NEW name, NEW s, NEW out
    PROVE  LET p == Machine(Append(S, Msdp!variable(name, Msdp!string_value(s))), "value", out)
           IN /\ Msdp!parse(p, Msdp!array_open)
                   = Machine(Append(S, Msdp!variable(name, Msdp!array_value(<<>>))), "array", out)
              /\ Msdp!parse(p, Msdp!table_open)
                   = Machine(Append(S, Msdp!variable(name, Msdp!table_value(<<>>))), "idle", out)
              /\ \A by : by \notin {1, 3, 4, 5} => Msdp!parse(p, by)
                   = Machine(Append(S, Msdp!variable(name, Msdp!string_value(Append(s, by)))),
                             "value", out)
<1> DEFINE val_ == Msdp!string_value(s)
           v == Msdp!variable(name, val_)
           p == Machine(Append(S, v), "value", out)
<1>1. /\ \A other : Msdp!value_becomes(p, other)
                      = Machine(Append(S, Msdp!variable(name, other)), "value", out)
      /\ \A other, next : Msdp!to(Msdp!value_becomes(p, other), next)
                      = Machine(Append(S, Msdp!variable(name, other)), next, out)
      /\ Msdp!top(p) = v /\ v.value_ = val_
  BY ValueBecomes
<1>2. val_.items = s
  BY DEF Msdp!string_value
<1>3. \A by : Msdp!parse(p, by) = Msdp!parse_value(p, by)
  BY ParseIs
<1> HIDE DEF val_, v, p
<1>4. Msdp!parse(p, 5)
        = Msdp!to(Msdp!value_becomes(p, Msdp!array_value(<<>>)), "array")
  BY <1>3, MsdpBytes DEF Msdp!parse_value
<1>5. Msdp!parse(p, 3)
        = Msdp!to(Msdp!value_becomes(p, Msdp!table_value(<<>>)), "idle")
  BY <1>3, MsdpBytes DEF Msdp!parse_value
<1>6. \A by : by \notin {1, 3, 4, 5} => Msdp!parse(p, by)
        = Msdp!value_becomes(p, Msdp!string_value(Append(s, by)))
  BY <1>1, <1>2, <1>3, MsdpBytes DEF Msdp!parse_value
<1>7. /\ Msdp!parse(p, 5)
           = Machine(Append(S, Msdp!variable(name, Msdp!array_value(<<>>))), "array", out)
      /\ Msdp!parse(p, 3)
           = Machine(Append(S, Msdp!variable(name, Msdp!table_value(<<>>))), "idle", out)
      /\ \A by : by \notin {1, 3, 4, 5} => Msdp!parse(p, by)
           = Machine(Append(S, Msdp!variable(name, Msdp!string_value(Append(s, by)))),
                     "value", out)
  BY <1>1, <1>4, <1>5, <1>6
<1>. QED BY <1>7, MsdpBytes DEF p, v, val_

\* A table that is a string so far is closed as one.
LEMMA ValueCloses ==
    ASSUME NEW S, Stacked(S), NEW x, NEW out
    PROVE  Msdp!parse(Machine(Append(S, x), "value", out), Msdp!table_close)
              = Closed(S, x, out)
<1> DEFINE p == Machine(Append(S, x), "value", out)
<1>1. Msdp!parse(p, 4) = Msdp!parse_value(p, 4)
  BY ParseIs
<1>2. Msdp!parse_value(p, 4) = Msdp!to(Msdp!close_variable(p), "idle")
  BY MsdpBytes DEF Msdp!parse_value
<1>3. Msdp!to(Msdp!close_variable(p), "idle") = Closed(S, x, out)
  BY CloseIs
<1> HIDE DEF p
<1>4. Msdp!parse(p, 4) = Closed(S, x, out)
  BY <1>1, <1>2, <1>3
<1>. QED BY <1>4, MsdpBytes DEF p

LEMMA ArraySteps ==
    ASSUME NEW S, Stacked(S), NEW name, NEW ss, NEW out
    PROVE  LET p == Machine(Append(S, Msdp!variable(name, Msdp!array_value(ss))), "array", out)
           IN /\ Msdp!parse(p, Msdp!array_close)
                   = Closed(S, Msdp!variable(name, Msdp!array_value(ss)), out)
              /\ Msdp!parse(p, Msdp!val)
                   = Machine(Append(S, Msdp!variable(name, Msdp!array_value(Append(ss, <<>>)))),
                             "array", out)
<1> DEFINE val_ == Msdp!array_value(ss)
           v == Msdp!variable(name, val_)
           p == Machine(Append(S, v), "array", out)
<1>1. /\ \A other : Msdp!value_becomes(p, other)
                      = Machine(Append(S, Msdp!variable(name, other)), "array", out)
      /\ Msdp!top(p) = v /\ v.value_ = val_
  BY ValueBecomes
<1>2. val_.items = ss
  BY DEF Msdp!array_value
<1>3. \A by : Msdp!parse(p, by) = Msdp!parse_array(p, by)
  BY ParseIs
<1>4. Msdp!to(Msdp!close_variable(p), "idle") = Closed(S, v, out)
  BY CloseIs
<1> HIDE DEF val_, v, p
<1>5. Msdp!parse(p, 6) = Closed(S, v, out)
  BY <1>3, <1>4, MsdpBytes DEF Msdp!parse_array
<1>6. Msdp!parse(p, 2)
        = Machine(Append(S, Msdp!variable(name, Msdp!array_value(Append(ss, <<>>)))), "array", out)
  <2>1. Msdp!parse(p, 2) = Msdp!value_becomes(p, Msdp!array_value(Append(ss, <<>>)))
    BY <1>1, <1>2, <1>3, MsdpBytes DEF Msdp!parse_array
  <2>. QED BY <1>1, <2>1
<1>. QED BY <1>5, <1>6, MsdpBytes DEF p, v, val_
-------------------------------------------------------------------------------
(***************************************************************************)
(* MSDP: names, strings and arrays.                                        *)
(***************************************************************************)
LEMMA OneMore ==
    ASSUME NEW T, NEW s \in Seq(T), NEW x \in T
    PROVE  Append(s, x) \in Seq(T) /\ <<x>> \in Seq(T) /\ Append(s, x) = s \o <<x>>
BY AppendProperties

\* Where the bytes of a text lead, when each of them leads one further.
LEMMA LeadsAlong ==
    ASSUME NEW T, T \subseteq Byte, NEW at,
           \A s \in Seq(T) : \A by \in T : Msdp!parse(at[s], by) = at[Append(s, by)]
    PROVE  \A s \in Seq(T) : s \in Text /\ Leads(at[<<>>], s, at[s])
<1> DEFINE R == {s \in Seq(T) : Leads(at[<<>>], s, at[s])}
<1>1. Seq(T) \subseteq Text
  BY SeqMonotonic DEF Text
<1>2. <<>> \in R
  BY LeadsEmpty, EmptySeq
<1>3. ASSUME NEW s \in Seq(T), NEW by \in T, s \in R PROVE Append(s, by) \in R
  <2> DEFINE b == <<by>>
             u == Append(s, by)
  <2>1. b \in Text /\ s \in Text /\ u \in Seq(T) /\ u = s \o b
    BY <1>1, OneMore
  <2>2. Leads(at[s], b, at[u])
    <3>1. Leads(at[s], b, Msdp!parse(at[s], by))
      BY LeadsOne
    <3>. QED BY <3>1
  <2>3. Leads(at[<<>>], s, at[s])
    BY <1>3
  <2> HIDE DEF b, u
  <2>4. Leads(at[<<>>], s \o b, at[u])
    BY <2>1, <2>2, <2>3, LeadsOn
  <2>5. Leads(at[<<>>], u, at[u])
    BY <2>1, <2>4
  <2>. QED BY <2>1, <2>5 DEF u
<1> HIDE DEF R
<1>4. \A s \in Seq(T) : s \in R
  BY <1>2, <1>3, SequencesReached
<1>. QED BY <1>1, <1>4 DEF R

\* Where the codes of the elements of a list lead.
LEMMA LeadsThrough ==
    ASSUME NEW D, NEW code \in [D -> Text], NEW T, T \subseteq D, NEW at,
           \A s \in Seq(T) : \A x \in T : Leads(at[s], code[x], at[Append(s, x)])
    PROVE  \A s \in Seq(T) : Spread(s, code) \in Text /\ Leads(at[<<>>], Spread(s, code), at[s])
<1> DEFINE R == {s \in Seq(T) : Leads(at[<<>>], Spread(s, code), at[s])}
<1>1. \A s \in Seq(T) : s \in Seq(D) /\ Spread(s, code) \in Text
  <2>1. Seq(T) \subseteq Seq(D)
    BY SeqMonotonic
  <2>. QED BY <2>1, SpreadType DEF Text
<1>2. <<>> \in R
  BY LeadsEmpty, EmptySeq, SpreadEmpty
<1>3. ASSUME NEW s \in Seq(T), NEW x \in T, s \in R PROVE Append(s, x) \in R
  <2> DEFINE a == Spread(s, code)
             b == code[x]
             u == Append(s, x)
  <2>1. u \in Seq(T) /\ a \in Text /\ b \in Text
    BY <1>1, OneMore
  <2>2. Spread(u, code) = a \o b
    <3>1. s \in Seq(D) /\ x \in D
      BY <1>1
    <3>. QED BY <3>1, SpreadAppend DEF Text
  <2>3. Leads(at[<<>>], a, at[s]) /\ Leads(at[s], b, at[u])
    BY <1>3
  <2> HIDE DEF a, b, u
  <2>4. Leads(at[<<>>], a \o b, at[u])
    BY <2>1, <2>3, LeadsOn
  <2>5. Leads(at[<<>>], Spread(u, code), at[u])
    BY <2>2, <2>4
  <2>. QED BY <2>1, <2>5 DEF u
<1> HIDE DEF R
<1>4. \A s \in Seq(T) : s \in R
  BY <1>2, <1>3, SequencesReached
<1>. QED BY <1>1, <1>4 DEF R

\* The variable that has been opened and named; what its value is, comes.
Begun(S, name, out) ==
    Machine(Append(S, Msdp!variable(name, Msdp!string_value(<<>>))), "value", out)

LEMMA HeaderLeads ==
    ASSUME NEW S, Stacked(S), NEW out, NEW name \in name_text
    PROVE  name \in Text /\ Header(name) \in Text
           /\ Leads(Machine(S, "idle", out), Header(name), Begun(S, name, out))
<1> DEFINE T == Byte \ {2}
           none == Msdp!string_value(<<>>)
           at == [s \in Seq(T) |-> Machine(Append(S, Msdp!variable(s, none)), "name", out)]
           a == <<Msdp!var>>
           b == <<Msdp!val>>
           p == Machine(S, "idle", out)
           q == Begun(S, name, out)
<1>1. name \in Seq(T)
  BY MsdpBytes DEF name_text
<1>2. \A s \in Seq(T) : \A by \in T : Msdp!parse(at[s], by) = at[Append(s, by)]
  <2>1. ASSUME NEW s \in Seq(T), NEW by \in T
        PROVE  Msdp!parse(at[s], by) = at[Append(s, by)]
    <3>1. by # Msdp!val
      BY MsdpBytes
    <3>2. Append(s, by) \in Seq(T)
      BY OneMore
    <3> HIDE DEF none, T
    <3>3. Msdp!parse(Machine(Append(S, Msdp!variable(s, none)), "name", out), by)
            = Machine(Append(S, Msdp!variable(Append(s, by), none)), "name", out)
      BY <3>1, NameSteps
    <3>. QED BY <3>2, <3>3
  <2>. QED BY <2>1
<1>3. name \in Text /\ Leads(at[<<>>], name, at[name])
  <2>1. T \subseteq Byte
    OBVIOUS
  <2> HIDE DEF T, at
  <2>. QED BY <1>1, <1>2, <2>1, LeadsAlong
<1>4. a \in Text /\ b \in Text /\ a \o name \in Text /\ Header(name) = (a \o name) \o b
      /\ Header(name) \in Text
  BY <1>3, MsdpBytes, HeaderType DEF Header
<1>5. Leads(p, a, at[<<>>])
  <2>1. Leads(p, a, Msdp!parse(p, Msdp!var))
    BY LeadsOne
  <2>2. Msdp!parse(p, Msdp!var) = Machine(Append(S, Msdp!new_variable), "name", out)
    BY IdleSteps
  <2>3. Msdp!new_variable = Msdp!variable(<<>>, none)
    BY DEF Msdp!new_variable
  <2>4. <<>> \in Seq(T)
    BY EmptySeq
  <2> HIDE DEF none, T, a, p
  <2>5. at[<<>>] = Machine(Append(S, Msdp!variable(<<>>, none)), "name", out)
    BY <2>4
  <2> HIDE DEF at
  <2>. QED BY <2>1, <2>2, <2>3, <2>5
<1>6. Leads(at[name], b, q)
  <2>1. Leads(at[name], b, Msdp!parse(at[name], Msdp!val))
    BY LeadsOne
  <2>2. at[name] = Machine(Append(S, Msdp!variable(name, none)), "name", out)
    BY <1>1
  <2>3. Msdp!parse(Machine(Append(S, Msdp!variable(name, none)), "name", out), Msdp!val)
          = q
    <3> DEFINE val_ == none
    <3> HIDE DEF val_
    <3>1. Msdp!parse(Machine(Append(S, Msdp!variable(name, val_)), "name", out), Msdp!val)
            = q
      BY NameSteps DEF Begun
    <3>. QED BY <3>1 DEF val_
  <2> HIDE DEF at, b, q
  <2>. QED BY <2>1, <2>2, <2>3
<1> HIDE DEF at, a, b, p, q, T
<1>7. Leads(p, a \o name, at[name])
  BY <1>3, <1>4, <1>5, LeadsOn
<1>8. Leads(p, (a \o name) \o b, q)
  BY <1>4, <1>6, <1>7, LeadsOn
<1>9. Leads(p, Header(name), q)
  BY <1>4, <1>8
<1>. QED BY <1>3, <1>4, <1>9 DEF p, q

LEMMA StringLeads ==
    ASSUME NEW S, Stacked(S), NEW out, NEW name, NEW s \in string_text
    PROVE  s \in Text
           /\ Leads(Begun(S, name, out), s,
                    Machine(Append(S, Msdp!variable(name, Msdp!string_value(s))), "value", out))
<1> DEFINE T == Byte \ {1, 3, 4, 5}
           at == [z \in Seq(T) |->
                    Machine(Append(S, Msdp!variable(name, Msdp!string_value(z))), "value", out)]
<1>1. s \in Seq(T) /\ <<>> \in Seq(T)
  BY MsdpBytes, EmptySeq DEF string_text
<1>2. \A z \in Seq(T) : \A by \in T : Msdp!parse(at[z], by) = at[Append(z, by)]
  <2>1. ASSUME NEW z \in Seq(T), NEW by \in T
        PROVE  Msdp!parse(at[z], by) = at[Append(z, by)]
    <3>1. by \notin {1, 3, 4, 5}
      OBVIOUS
    <3>2. Append(z, by) \in Seq(T)
      BY OneMore
    <3> HIDE DEF T
    <3>3. Msdp!parse(
             Machine(Append(S, Msdp!variable(name, Msdp!string_value(z))), "value", out), by)
            = Machine(Append(S, Msdp!variable(name, Msdp!string_value(Append(z, by)))),
                      "value", out)
      BY <3>1, ValueSteps
    <3>. QED BY <3>2, <3>3
  <2>. QED BY <2>1
<1>3. s \in Text /\ Leads(at[<<>>], s, at[s])
  <2>1. T \subseteq Byte
    OBVIOUS
  <2> HIDE DEF T, at
  <2>. QED BY <1>1, <1>2, <2>1, LeadsAlong
<1>4. at[<<>>] = Begun(S, name, out)
  BY <1>1 DEF Begun
<1>5. at[s] = Machine(Append(S, Msdp!variable(name, Msdp!string_value(s))), "value", out)
  BY <1>1
<1> HIDE DEF at
<1>. QED BY <1>3, <1>4, <1>5

LEMMA ArrayGrows ==
    ASSUME NEW S, Stacked(S), NEW name, NEW out, NEW tt, Stacked(tt), NEW s, NEW by, by \notin {2, 6}
    PROVE  Msdp!parse(Machine(Append(S, Msdp!variable(name,
                 Msdp!array_value(Append(tt, s)))), "array", out), by)
             = Machine(Append(S, Msdp!variable(name,
                 Msdp!array_value(Append(tt, Append(s, by))))), "array", out)
<1> DEFINE ss == Append(tt, s)
           val_ == Msdp!array_value(ss)
           v == Msdp!variable(name, val_)
           p == Machine(Append(S, v), "array", out)
<1>1. /\ \A other : Msdp!value_becomes(p, other)
                      = Machine(Append(S, Msdp!variable(name, other)), "array", out)
      /\ Msdp!top(p) = v /\ v.value_ = val_
  BY ValueBecomes
<1>2. val_.items = ss
  BY DEF Msdp!array_value
<1>3. Msdp!parse(p, by) = Msdp!parse_array(p, by)
  BY ParseIs
<1>4. ss # <<>> /\ Front(ss) = tt /\ Last(ss) = s
  BY StackFacts
<1> HIDE DEF ss, val_, v, p
<1>5. Msdp!Front(ss) = Front(ss) /\ Msdp!Last(ss) = Last(ss)
  BY SameEnds
<1>6. Msdp!parse(p, by)
        = Msdp!value_becomes(p, Msdp!array_value(Append(tt, Append(s, by))))
  BY <1>1, <1>2, <1>3, <1>4, <1>5, MsdpBytes DEF Msdp!parse_array
<1>7. Msdp!parse(p, by)
        = Machine(Append(S, Msdp!variable(name,
              Msdp!array_value(Append(tt, Append(s, by))))), "array", out)
  BY <1>1, <1>6
<1>. QED BY <1>7 DEF p, v, val_, ss

\* The array that a list of strings is read as, string by string.
LEMMA ArrayLeads ==
    ASSUME NEW S, Stacked(S), NEW out, NEW name, NEW arr \in Seq(array_text)
    PROVE  /\ Msdp!encode_array(arr) \in Text
           /\ Leads(Begun(S, name, out), Msdp!encode_array(arr),
                    Closed(S, Msdp!variable(name, Msdp!array_value(arr)), out))
<1> DEFINE T == Byte \ {2, 6}
           U == Seq(T)
           Reading(ss) == Machine(Append(S, Msdp!variable(name, Msdp!array_value(ss))),
                                  "array", out)
           at == [ss \in Seq(U) |-> Reading(ss)]
           a == <<Msdp!array_open>>
           b == <<Msdp!array_close>>
           c == <<Msdp!val>>
           body == Spread(arr, marked)
           p == Begun(S, name, out)
           q == Closed(S, Msdp!variable(name, Msdp!array_value(arr)), out)
           none == <<>>
<1>1. array_text = U /\ U \subseteq Text
  <2>1. array_text = U
    BY MsdpBytes DEF array_text
  <2>2. T \subseteq Byte
    OBVIOUS
  <2> HIDE DEF T
  <2>3. U \subseteq Text
    BY <2>2, SeqMonotonic DEF Text
  <2>. QED BY <2>1, <2>3
<1>2. arr \in Seq(U) /\ arr \in Seq(Text)
  <2> HIDE DEF U
  <2>. QED BY <1>1, SeqMonotonic
<1>3. /\ Msdp!encode_array(arr) = (a \o body) \o b /\ Msdp!encode_array(arr) \in Text
      /\ body \in Text /\ a \in Text /\ b \in Text /\ c \in Text
  BY <1>2, ArrayCode, MsdpBytes
<1>4. marked \in [Text -> Text] /\ marked = [s \in Text |-> c \o s]
  BY <1>2, ArrayCode DEF marked
<1>5. none \in Seq(U) /\ none \in U /\ none \in Text
  BY EmptySeq DEF Text
<1>6. Leads(p, a, at[none])
  <2>1. Leads(p, a, Msdp!parse(p, Msdp!array_open))
    BY LeadsOne
  <2>2. Msdp!parse(p, Msdp!array_open) = Reading(none)
    BY ValueSteps DEF Begun
  <2>3. at[none] = Reading(none)
    BY <1>5
  <2> HIDE DEF at, Reading, a, p
  <2>. QED BY <2>1, <2>2, <2>3
<1>7. Leads(at[arr], b, q)
  <2>1. Leads(Reading(arr), b, Msdp!parse(Reading(arr), Msdp!array_close))
    BY LeadsOne
  <2>2. Msdp!parse(Reading(arr), Msdp!array_close) = q
    BY ArraySteps
  <2>3. at[arr] = Reading(arr)
    BY <1>2
  <2> HIDE DEF at, Reading, b, q
  <2>. QED BY <2>1, <2>2, <2>3
<1>8. ASSUME NEW ss \in Seq(U), NEW s \in U PROVE Leads(at[ss], marked[s], at[Append(ss, s)])
  <2> DEFINE on == [z \in U |-> Reading(Append(ss, z))]
  <2>1. Leads(at[ss], c, on[none])
    <3>1. Leads(Reading(ss), c, Msdp!parse(Reading(ss), Msdp!val))
      BY LeadsOne
    <3>2. Msdp!parse(Reading(ss), Msdp!val) = Reading(Append(ss, none))
      BY ArraySteps
    <3>3. at[ss] = Reading(ss) /\ on[none] = Reading(Append(ss, none))
      BY <1>5
    <3> HIDE DEF at, on, Reading, c
    <3>. QED BY <3>1, <3>2, <3>3
  <2>2. \A z \in Seq(T) : \A by \in T : Msdp!parse(on[z], by) = on[Append(z, by)]
    <3>1. ASSUME NEW z \in Seq(T), NEW by \in T
          PROVE  Msdp!parse(on[z], by) = on[Append(z, by)]
      <4>1. by \notin {2, 6} /\ Append(z, by) \in U
        BY OneMore
      <4>2. Stacked(ss)
        BY DEF Stacked
      <4>3. Msdp!parse(Reading(Append(ss, z)), by) = Reading(Append(ss, Append(z, by)))
        <5> HIDE DEF T
        <5>. QED BY <4>1, <4>2, ArrayGrows
      <4> HIDE DEF T
      <4>4. on[z] = Reading(Append(ss, z)) /\ on[Append(z, by)] = Reading(Append(ss, Append(z, by)))
        BY <4>1
      <4> HIDE DEF on, Reading
      <4>. QED BY <4>3, <4>4
    <3>. QED BY <3>1
  <2>3. Leads(on[none], s, on[s])
    <3>1. T \subseteq Byte
      OBVIOUS
    <3> HIDE DEF T, on
    <3>. QED BY <2>2, <3>1, LeadsAlong
  <2>4. marked[s] = c \o s
    <3> HIDE DEF c, U
    <3>. QED BY <1>1, <1>4
  <2>5. on[s] = at[Append(ss, s)]
    <3> HIDE DEF U
    <3>1. Append(ss, s) \in Seq(U)
      BY OneMore
    <3>. QED BY <3>1
  <2> HIDE DEF on, at, c, U
  <2>6. s \in Text
    BY <1>1
  <2>7. Leads(at[ss], c \o s, on[s])
    BY <1>3, <2>1, <2>3, <2>6, LeadsOn
  <2>. QED BY <2>4, <2>5, <2>7
<1>9. Leads(at[none], body, at[arr])
  <2> HIDE DEF at, U
  <2>1. \A ss \in Seq(U) : Leads(at[<<>>], Spread(ss, marked), at[ss])
    BY <1>1, <1>4, <1>8, LeadsThrough
  <2>. QED BY <1>2, <2>1
<1> HIDE DEF at, a, b, body, p, q, none, U
<1>10. a \o body \in Text
  BY <1>3, ConcatProperties DEF Text
<1>11. Leads(p, a \o body, at[arr])
  BY <1>3, <1>6, <1>9, LeadsOn
<1>12. Leads(p, (a \o body) \o b, q)
  BY <1>3, <1>7, <1>10, <1>11, LeadsOn
<1>13. Leads(p, Msdp!encode_array(arr), q)
  BY <1>3, <1>12
<1>. QED BY <1>3, <1>13 DEF p, q
-------------------------------------------------------------------------------
(***************************************************************************)
(* MSDP: a variable that is written is read.                               *)
(***************************************************************************)
\* Wherever the parser waits for a variable, it reads v and leaves it open, ...
Reads(n, v) ==
    \A S, out : Stacked(S) =>
        Leads(Machine(S, "idle", out), Msdp!encoded[n][v],
              Machine(Append(S, v), IF v.value_.kind = "string" THEN "value" ELSE "idle", out))

\* ... or closes it.
Closes(n, v) ==
    \A S, out : Stacked(S) =>
        Leads(Machine(S, "idle", out), Msdp!encoded[n][v], Closed(S, v, out))

LEMMA LevelTypes ==
    ASSUME MaxDepth \in Nat, NEW n \in 0..MaxDepth
    PROVE  NoArrays[n] \subseteq Msdp!Nested[n] /\ ArrayLast[n] \subseteq Msdp!Nested[n]
<1>1. NoArrays[n] = PlainLevel(n, Msdp!inner(NoArrays, n))
  BY NoArraysAre
<1>2. ArrayLast[n] = LastLevel(n, Msdp!inner(ArrayLast, n))
  BY ArrayLastAre
<1>3. \A inside : PlainLevel(n, inside) \subseteq Msdp!Nested[n]
  BY DEF PlainLevel
<1>4. \A inside : LastLevel(n, inside) \subseteq Msdp!Nested[n]
  BY DEF LastLevel
<1>. QED BY <1>1, <1>2, <1>3, <1>4

LEMMA BracketsLead ==
    ASSUME NEW p, NEW q, NEW r, NEW w \in Text,
           Msdp!parse(p, Msdp!table_open) = q, Leads(q, w, r)
    PROVE  Leads(p, Msdp!bracketed(w), Msdp!parse(r, Msdp!table_close))
<1> DEFINE a == <<Msdp!table_open>>
           b == <<Msdp!table_close>>
           s == Msdp!parse(r, Msdp!table_close)
<1>1. a \in Text /\ b \in Text /\ Msdp!bracketed(w) = (a \o w) \o b
  <2>1. Msdp!bracketed(w) = (a \o w) \o b
    BY BracketedType
  <2>2. a \in Text /\ b \in Text
    BY MsdpBytes
  <2>. QED BY <2>1, <2>2
<1>2. Leads(p, a, q) /\ Leads(r, b, s)
  BY LeadsOne
<1> HIDE DEF a, b, s
<1>3. a \o w \in Text
  BY <1>1, ConcatProperties DEF Text
<1>4. Leads(p, a \o w, r)
  BY <1>1, <1>2, LeadsOn
<1>5. Leads(p, (a \o w) \o b, s)
  BY <1>1, <1>2, <1>3, <1>4, LeadsOn
<1>. QED BY <1>1, <1>5 DEF s

\* A table with the entries t: as long as it has none it is a string.
Table(name, t) == Msdp!variable(name, Msdp!table_value(t))
Entered(S, name, t, out) ==
    IF t = <<>> THEN Begun(S, name, out) ELSE Machine(Append(S, Table(name, t)), "idle", out)

LEMMA TableOpens ==
    ASSUME NEW S, Stacked(S), NEW name, NEW t, NEW out
    PROVE  /\ Stacked(Append(S, Table(name, t)))
           /\ Msdp!parse(Entered(S, name, t, out), Msdp!table_open)
                = Machine(Append(S, Table(name, t)), "idle", out)
<1> DEFINE u == Append(S, Table(name, t))
<1>1. Stacked(u)
  BY StackFacts
<1>2. CASE t = <<>>
  <2>1. Msdp!parse(Begun(S, name, out), Msdp!table_open) = Machine(u, "idle", out)
    BY <1>2, ValueSteps DEF Begun, Table
  <2>. QED BY <1>1, <1>2, <2>1 DEF Entered
<1>3. CASE t # <<>>
  <2> HIDE DEF u
  <2>1. Msdp!parse(Machine(u, "idle", out), Msdp!table_open) = Machine(u, "idle", out)
    BY <1>1, IdleSteps
  <2>. QED BY <1>1, <1>3, <2>1 DEF Entered, u
<1>. QED BY <1>2, <1>3

LEMMA EntryCloses ==
    ASSUME NEW S, Stacked(S), NEW name, NEW t, NEW x, NEW out
    PROVE  Closed(Append(S, Table(name, t)), x, out)
              = Machine(Append(S, Table(name, Append(t, x))), "idle", out)
<1> DEFINE u == Append(S, Table(name, t))
           v == Msdp!into(Last(u), x)
<1>1. u # <<>> /\ Front(u) = S /\ Last(u) = Table(name, t)
  BY StackFacts
<1>2. Msdp!into(Table(name, t), x) = Table(name, Append(t, x))
  BY IntoIs DEF Table
<1> HIDE DEF u
<1>3. v = Table(name, Append(t, x))
  BY <1>1, <1>2
<1>4. Closed(u, x, out) = Machine(Append(Front(u), v), "idle", out)
  BY <1>1 DEF Closed
<1> HIDE DEF v
<1>5. Closed(u, x, out) = Machine(Append(S, Table(name, Append(t, x))), "idle", out)
  BY <1>1, <1>3, <1>4
<1>. QED BY <1>5 DEF u

\* An entry, of a level whose variables are read, in its brackets.
LEMMA EntryLeads ==
    ASSUME MaxDepth \in Nat, NEW n \in 0..MaxDepth, NEW x \in Msdp!Nested[n],
           NEW S, Stacked(S), NEW name, NEW t, NEW out
    PROVE  /\ Reads(n, x) =>
                Leads(Entered(S, name, t, out), Brackets(n)[x],
                      Machine(Append(S, Table(name, Append(t, x))), "idle", out))
           /\ Closes(n, x) =>
                Leads(Entered(S, name, t, out), Brackets(n)[x],
                      Closed(S, Table(name, Append(t, x)), out))
<1> DEFINE w == Msdp!encoded[n][x]
           u == Append(S, Table(name, t))
           p == Entered(S, name, t, out)
           q == Machine(u, "idle", out)
           filled == Append(S, Table(name, Append(t, x)))
<1>1. w \in Text /\ Brackets(n)[x] = Msdp!bracketed(w)
  BY CodeType DEF Brackets
<1>2. /\ Msdp!parse(p, Msdp!table_open) = q /\ Stacked(u)
      /\ Closed(u, x, out) = Machine(filled, "idle", out)
  <2>1. Msdp!parse(p, Msdp!table_open) = q
    BY TableOpens
  <2>2. Stacked(u)
    BY TableOpens
  <2>3. Closed(u, x, out) = Machine(filled, "idle", out)
    BY EntryCloses
  <2>. QED BY <2>1, <2>2, <2>3
<1>3. ASSUME Reads(n, x) PROVE Leads(p, Brackets(n)[x], Machine(filled, "idle", out))
  <2> DEFINE state == IF x.value_.kind = "string" THEN "value" ELSE "idle"
             r == Machine(Append(u, x), state, out)
  <2> HIDE DEF w, u, p, filled
  <2>1. Leads(q, Msdp!encoded[n][x], r)
    BY <1>2, <1>3 DEF Reads
  <2>2. Msdp!parse(r, Msdp!table_close) = Closed(u, x, out)
    <3>1. Msdp!parse(Machine(Append(u, x), "value", out), Msdp!table_close)
            = Closed(u, x, out)
      BY <1>2, ValueCloses
    <3>2. Msdp!parse(Machine(Append(u, x), "idle", out), Msdp!table_close)
            = Closed(u, x, out)
      BY <1>2, IdleSteps
    <3>3. state = "value" \/ state = "idle"
      OBVIOUS
    <3> HIDE DEF state
    <3>. QED BY <3>1, <3>2, <3>3
  <2>3. Leads(q, w, r)
    BY <2>1 DEF w
  <2> HIDE DEF q, r
  <2>4. Leads(p, Msdp!bracketed(w), Msdp!parse(r, Msdp!table_close))
    BY <1>1, <1>2, <2>3, BracketsLead
  <2>. QED BY <1>1, <1>2, <2>2, <2>4
<1>4. ASSUME Closes(n, x) PROVE Leads(p, Brackets(n)[x], Closed(S, Table(name, Append(t, x)), out))
  <2> DEFINE r == Machine(filled, "idle", out)
             s == Closed(S, Table(name, Append(t, x)), out)
  <2>1. Msdp!parse(r, Msdp!table_close) = s
    BY IdleSteps
  <2> HIDE DEF w, u, p, filled, s
  <2>2. Leads(q, Msdp!encoded[n][x], Closed(u, x, out))
    BY <1>2, <1>4 DEF Closes
  <2>3. Leads(q, w, r)
    BY <1>2, <2>2 DEF w
  <2> HIDE DEF q, r
  <2>4. Leads(p, Msdp!bracketed(w), Msdp!parse(r, Msdp!table_close))
    BY <1>1, <1>2, <2>3, BracketsLead
  <2>. QED BY <1>1, <2>1, <2>4 DEF s
<1>. QED BY <1>3, <1>4 DEF p, filled

LEMMA EntriesLead ==
    ASSUME MaxDepth \in Nat, NEW n \in 0..MaxDepth,
           NEW T, T \subseteq Msdp!Nested[n], \A x \in T : Reads(n, x),
           NEW S, Stacked(S), NEW name, NEW out
    PROVE  \A t \in Seq(T) :
              Spread(t, Brackets(n)) \in Text
              /\ Leads(Begun(S, name, out), Spread(t, Brackets(n)), Entered(S, name, t, out))
<1> DEFINE at == [t \in Seq(T) |-> Entered(S, name, t, out)]
           D == Msdp!Nested[n]
           code == Brackets(n)
<1>1. code \in [D -> Text]
  <2>1. \A v \in D : Msdp!bracketed(Msdp!encoded[n][v]) \in Text
    BY CodeType, BracketedType
  <2>. QED BY <2>1 DEF Brackets
<1>2. ASSUME NEW t \in Seq(T), NEW x \in T PROVE Leads(at[t], code[x], at[Append(t, x)])
  <2> DEFINE u == Append(t, x)
  <2>1. u \in Seq(T) /\ u # <<>>
    BY OneMore, EndsOfAppend
  <2>2. Leads(Entered(S, name, t, out), code[x], Machine(Append(S, Table(name, u)), "idle", out))
    BY EntryLeads
  <2> HIDE DEF u
  <2>3. Entered(S, name, u, out) = Machine(Append(S, Table(name, u)), "idle", out)
    BY <2>1 DEF Entered
  <2>4. at[t] = Entered(S, name, t, out) /\ at[u] = Entered(S, name, u, out)
    BY <2>1
  <2> HIDE DEF at
  <2>. QED BY <2>2, <2>3, <2>4 DEF u
<1>3. at[<<>>] = Begun(S, name, out)
  <2>1. <<>> \in Seq(T)
    BY EmptySeq
  <2>. QED BY <2>1 DEF Entered
<1>4. \A t \in Seq(T) : at[t] = Entered(S, name, t, out)
  OBVIOUS
<1> HIDE DEF at, D, code
<1>5. \A t \in Seq(T) : Spread(t, code) \in Text /\ Leads(at[<<>>], Spread(t, code), at[t])
  <2>1. T \subseteq D
    BY DEF D
  <2>. QED BY <1>1, <1>2, <2>1, LeadsThrough
<1>. QED BY <1>3, <1>4, <1>5 DEF code

\* No table of level 0 has entries.
LEMMA NoEntries ==
    ASSUME NEW items \in Seq({})
    PROVE  items = <<>>
<1>1. Len(items) \in Nat /\ \A i \in 1..Len(items) : items[i] \in {}
  BY LenProperties, ElementOfSeq
<1>2. 1 \notin 1..Len(items)
  BY <1>1
<1>3. Len(items) = 0
  <2> DEFINE l == Len(items)
  <2>1. l \in Nat /\ 1 \notin 1..l
    BY <1>1, <1>2
  <2> HIDE DEF l
  <2>2. l = 0
    BY <2>1
  <2>. QED BY <2>2 DEF l
<1>. QED BY <1>3, EmptySeq

LEMMA PlainReads ==
    ASSUME MaxDepth \in Nat, NEW n \in 0..MaxDepth, NEW v \in NoArrays[n],
           n # 0 => \A x \in NoArrays[n - 1] : Reads(n - 1, x)
    PROVE  Reads(n, v)
<1> DEFINE name == v.name
           items == v.value_.items
           code == Msdp!encoded[n][v]
           inside == Msdp!inner(NoArrays, n)
           state == IF v.value_.kind = "string" THEN "value" ELSE "idle"
<1>1. /\ v \in Msdp!Nested[n] /\ name \in name_text
      /\ \/ v.value_.kind = "string" /\ items \in string_text
         \/ v.value_.kind = "table" /\ items # <<>> /\ items \in Seq(inside)
  <2>1. v \in PlainLevel(n, inside)
    BY NoArraysAre
  <2> HIDE DEF inside
  <2>. QED BY <2>1 DEF PlainLevel
<1>2. /\ v = Msdp!variable(name, v.value_)
      /\ v.value_.kind = "string" => v.value_ = Msdp!string_value(items)
      /\ v.value_.kind = "table" => v.value_ = Msdp!table_value(items)
  BY <1>1, NestedMembers
<1>3. n # 0 => n - 1 \in 0..MaxDepth /\ Msdp!encoded[n - 1] \in [Msdp!Nested[n - 1] -> Text]
  <2>1. n # 0 => n - 1 \in 0..MaxDepth
    OBVIOUS
  <2>. QED BY <2>1, CodeType
<1>4. /\ v.value_.kind = "string" => code = Header(name) \o items
      /\ n # 0 /\ v.value_.kind = "table" => code = Header(name) \o Spread(items, Brackets(n - 1))
  BY <1>1, <1>3, CodeIs
<1>5. ASSUME NEW S, NEW out, Stacked(S)
      PROVE  Leads(Machine(S, "idle", out), code, Machine(Append(S, v), state, out))
  <2> DEFINE p == Machine(S, "idle", out)
             q == Begun(S, name, out)
             r == Machine(Append(S, v), state, out)
  <2>1. name \in Text /\ Header(name) \in Text /\ Leads(p, Header(name), q)
    BY <1>1, <1>5, HeaderLeads
  <2>2. CASE v.value_.kind = "string"
    <3>1. items \in string_text
      BY <1>1, <2>2
    <3> HIDE DEF items, name, code
    <3>2. items \in Text
          /\ Leads(q, items, Machine(Append(S, Msdp!variable(name, Msdp!string_value(items))),
                                     "value", out))
      BY <1>5, <3>1, StringLeads
    <3>3. v = Msdp!variable(name, Msdp!string_value(items)) /\ state = "value"
      BY <1>2, <2>2
    <3>4. Leads(q, items, r)
      BY <3>2, <3>3
    <3> HIDE DEF p, q, r
    <3>5. Leads(p, Header(name) \o items, r)
      BY <2>1, <3>2, <3>4, LeadsOn
    <3>. QED BY <1>4, <2>2, <3>5 DEF p, r
  <2>3. CASE v.value_.kind = "table"
    <3> DEFINE T == NoArrays[n - 1]
               w == Spread(items, Brackets(n - 1))
    <3>1. items # <<>> /\ items \in Seq(inside)
      BY <1>1, <2>3
    <3>2. n # 0
      <4>1. ASSUME n = 0 PROVE FALSE
        <5>1. items \in Seq({})
          BY <3>1, <4>1 DEF Msdp!inner
        <5>. QED BY <3>1, <5>1, NoEntries
      <4>. QED BY <4>1
    <3>3. items \in Seq(T) /\ n - 1 \in 0..MaxDepth
      BY <1>3, <3>1, <3>2 DEF Msdp!inner
    <3>4. T \subseteq Msdp!Nested[n - 1] /\ \A x \in T : Reads(n - 1, x)
      BY <3>2, <3>3, LevelTypes
    <3> HIDE DEF items, name, code, inside, T
    <3>5. w \in Text /\ Leads(q, w, Entered(S, name, items, out))
      <4> DEFINE m == n - 1
      <4>1. m \in 0..MaxDepth /\ T \subseteq Msdp!Nested[m] /\ \A x \in T : Reads(m, x)
        BY <3>3, <3>4
      <4> HIDE DEF m
      <4>2. \A t \in Seq(T) : Spread(t, Brackets(m)) \in Text
               /\ Leads(q, Spread(t, Brackets(m)), Entered(S, name, t, out))
        BY <1>5, <4>1, EntriesLead
      <4>. QED BY <3>3, <4>2 DEF m
    <3>6. Entered(S, name, items, out) = r
      BY <1>2, <2>3, <3>1 DEF Entered, Table
    <3> HIDE DEF p, q, r, w
    <3>7. Leads(p, Header(name) \o w, r)
      BY <2>1, <3>5, <3>6, LeadsOn
    <3>8. code = Header(name) \o w
      BY <1>4, <2>3, <3>2 DEF w
    <3>. QED BY <3>7, <3>8 DEF p, r
  <2>. QED BY <1>1, <2>2, <2>3
<1>. QED BY <1>5 DEF Reads

\* A list and its last element.
LEMMA LastOf ==
    ASSUME NEW T, NEW s \in Seq(T), s # <<>>
    PROVE  Front(s) \in Seq(T) /\ Last(s) \in T /\ s = Append(Front(s), Last(s))
<1> DEFINE n == Len(s) - 1
           f == Front(s)
           x == Last(s)
           t == Append(f, x)
<1>1. n \in Nat /\ Len(s) = n + 1 /\ \A i \in 1..(n + 1) : s[i] \in T
  BY EmptySeq, LenProperties, ElementOfSeq
<1>2. f = [i \in 1..n |-> s[i]] /\ x = s[n + 1]
  <2>1. f = SubSeq(s, 1, n) /\ x = s[n + 1]
    BY <1>1 DEF Front, Last
  <2> HIDE DEF n
  <2>2. SubSeq(s, 1, n) = [i \in 1..n |-> s[i]]
    BY <1>1
  <2>. QED BY <2>1, <2>2
<1> HIDE DEF n, f, x
<1>3. f \in Seq(T) /\ Len(f) = n /\ x \in T /\ \A i \in 1..n : f[i] = s[i]
  BY <1>1, <1>2
<1> HIDE DEF t
<1>4. t \in Seq(T) /\ Len(t) = n + 1 /\ t[n + 1] = x /\ \A i \in 1..n : t[i] = f[i]
  BY <1>3, AppendProperties DEF t
<1>5. \A i \in 1..Len(s) : s[i] = t[i]
  <2>1. \A i \in 1..(n + 1) : i \in 1..n \/ i = n + 1
    BY <1>1
  <2>. QED BY <1>1, <1>2, <1>3, <1>4, <2>1
<1>6. s = t
  BY <1>1, <1>4, <1>5, SeqEqual
<1>. QED BY <1>3, <1>6 DEF t, f, x

LEMMA LastCloses ==
    ASSUME MaxDepth \in Nat, NEW n \in 0..MaxDepth, NEW v \in ArrayLast[n],
           n # 0 => \A x \in NoArrays[n - 1] : Reads(n - 1, x),
           n # 0 => \A x \in ArrayLast[n - 1] : Closes(n - 1, x)
    PROVE  Closes(n, v)
<1> DEFINE name == v.name
           items == v.value_.items
           code == Msdp!encoded[n][v]
           plain == Msdp!inner(NoArrays, n)
           inside == Msdp!inner(ArrayLast, n)
<1>1. /\ v \in Msdp!Nested[n] /\ name \in name_text
      /\ \/ v.value_.kind = "array" /\ items \in Seq(array_text)
         \/ /\ v.value_.kind = "table" /\ items # <<>>
            /\ Front(items) \in Seq(plain) /\ Last(items) \in inside
  <2>1. v \in LastLevel(n, inside)
    BY ArrayLastAre
  <2>2. Front(items) = Front(items) /\ Last(items) = Last(items)
    BY SameEnds
  <2> HIDE DEF inside
  <2>. QED BY <2>1, <2>2 DEF LastLevel
<1>2. /\ v = Msdp!variable(name, v.value_)
      /\ v.value_.kind = "array" => v.value_ = Msdp!array_value(items)
      /\ v.value_.kind = "table" =>
            /\ v.value_ = Msdp!table_value(items)
            /\ items \in Seq(Msdp!inner(Msdp!Nested, n))
  BY <1>1, NestedMembers
<1>3. n # 0 => n - 1 \in 0..MaxDepth /\ Msdp!encoded[n - 1] \in [Msdp!Nested[n - 1] -> Text]
  <2>1. n # 0 => n - 1 \in 0..MaxDepth
    OBVIOUS
  <2>. QED BY <2>1, CodeType
<1>4. /\ v.value_.kind = "array" => code = Header(name) \o Msdp!encode_array(items)
      /\ n # 0 /\ v.value_.kind = "table" => code = Header(name) \o Spread(items, Brackets(n - 1))
  BY <1>1, <1>3, CodeIs
<1>5. ASSUME NEW S, NEW out, Stacked(S)
      PROVE  Leads(Machine(S, "idle", out), code, Closed(S, v, out))
  <2> DEFINE p == Machine(S, "idle", out)
             q == Begun(S, name, out)
             r == Closed(S, v, out)
  <2>1. name \in Text /\ Header(name) \in Text /\ Leads(p, Header(name), q)
    BY <1>1, <1>5, HeaderLeads
  <2>2. CASE v.value_.kind = "array"
    <3> DEFINE w == Msdp!encode_array(items)
    <3>1. items \in Seq(array_text)
      BY <1>1, <2>2
    <3>2. v = Msdp!variable(name, Msdp!array_value(items))
      BY <1>2, <2>2
    <3> HIDE DEF items, name, code
    <3>3. w \in Text
          /\ Leads(q, w, Closed(S, Msdp!variable(name, Msdp!array_value(items)), out))
      BY <1>5, <3>1, ArrayLeads
    <3>4. Leads(q, w, r)
      BY <3>2, <3>3
    <3>5. code = Header(name) \o w
      BY <1>4, <2>2
    <3> HIDE DEF p, q, r, w
    <3>6. Leads(p, Header(name) \o w, r)
      BY <2>1, <3>3, <3>4, LeadsOn
    <3>. QED BY <3>5, <3>6 DEF p, r
  <2>3. CASE v.value_.kind = "table"
    <3> DEFINE m == n - 1
               D == Msdp!Nested[m]
               T == NoArrays[m]
               front == Front(items)
               x == Last(items)
               a == Spread(front, Brackets(m))
               b == Brackets(m)[x]
    <3>1. items # <<>> /\ front \in Seq(plain) /\ x \in inside
          /\ items \in Seq(Msdp!inner(Msdp!Nested, n))
      BY <1>1, <1>2, <2>3
    <3>2. n # 0
      BY <3>1 DEF Msdp!inner
    <3>3. front \in Seq(T) /\ x \in ArrayLast[m] /\ items \in Seq(D) /\ m \in 0..MaxDepth
      BY <1>3, <3>1, <3>2 DEF Msdp!inner
    <3>4. T \subseteq D /\ x \in D
      BY <3>3, LevelTypes
    <3>5. (\A y \in T : Reads(m, y)) /\ Closes(m, x)
      BY <3>2, <3>3
    <3>6. items = Append(front, x) /\ front \in Seq(D)
      <4> HIDE DEF D
      <4>. QED BY <3>1, <3>3, LastOf
    <3>7. v = Table(name, items)
      BY <1>2, <2>3 DEF Table
    <3>8. code = Header(name) \o Spread(items, Brackets(m))
      BY <1>4, <2>3, <3>2
    <3> HIDE DEF m, D, T, front, x, items, name, code, inside, plain
    <3>9. a \in Text /\ Leads(q, a, Entered(S, name, front, out))
      <4>1. T \subseteq Msdp!Nested[m]
        BY <3>4 DEF D
      <4>2. \A t \in Seq(T) : Spread(t, Brackets(m)) \in Text
               /\ Leads(q, Spread(t, Brackets(m)), Entered(S, name, t, out))
        BY <1>5, <3>3, <3>5, <4>1, EntriesLead
      <4>. QED BY <3>3, <4>2
    <3>10. Leads(Entered(S, name, front, out), b, r)
      <4>1. x \in Msdp!Nested[m]
        BY <3>4 DEF D
      <4>2. Leads(Entered(S, name, front, out), b, Closed(S, Table(name, Append(front, x)), out))
        BY <1>5, <3>3, <3>5, <4>1, EntryLeads
      <4>. QED BY <3>6, <3>7, <4>2
    <3>11. b \in Text /\ Spread(items, Brackets(m)) = a \o b
      <4>1. Brackets(m) \in [D -> Text]
        <5>1. \A y \in D : Msdp!bracketed(Msdp!encoded[m][y]) \in Text
          BY <3>3, CodeType, BracketedType DEF D
        <5>. QED BY <5>1 DEF Brackets, D
      <4>2. Spread(Append(front, x), Brackets(m)) = Spread(front, Brackets(m)) \o Brackets(m)[x]
        BY <3>4, <3>6, <4>1, SpreadAppend DEF Text
      <4>. QED BY <3>4, <3>6, <4>1, <4>2
    <3> HIDE DEF p, q, r, a, b
    <3>12. a \o b \in Text
      BY <3>9, <3>11, ConcatProperties DEF Text
    <3>13. Leads(q, a \o b, r)
      BY <3>9, <3>10, <3>11, LeadsOn
    <3>14. Leads(p, Header(name) \o (a \o b), r)
      BY <2>1, <3>12, <3>13, LeadsOn
    <3>. QED BY <3>8, <3>11, <3>14 DEF p, r
  <2>. QED BY <1>1, <2>2, <2>3
<1>. QED BY <1>5 DEF Closes

LEMMA EachIsRead ==
    ASSUME MaxDepth \in Nat
    PROVE  \A n \in 0..MaxDepth : /\ \A v \in NoArrays[n] : Reads(n, v)
                                  /\ \A v \in ArrayLast[n] : Closes(n, v)
<1> DEFINE Good(n) == /\ \A v \in NoArrays[n] : Reads(n, v)
                      /\ \A v \in ArrayLast[n] : Closes(n, v)
           R == {n \in Nat : n <= MaxDepth => Good(n)}
<1>1. ASSUME NEW n \in 0..MaxDepth, n # 0 => Good(n - 1) PROVE Good(n)
  BY <1>1, PlainReads, LastCloses
<1> HIDE DEF Good
<1>2. 0 \in R
  BY <1>1
<1>3. ASSUME NEW n \in Nat, n \in R PROVE n + 1 \in R
  <2>1. CASE n + 1 <= MaxDepth
    <3>1. n + 1 \in 0..MaxDepth /\ (n + 1) - 1 = n /\ n <= MaxDepth
      BY <2>1
    <3>2. Good(n)
      BY <1>3, <3>1
    <3>3. Good(n + 1)
      BY <1>1, <3>1, <3>2
    <3>. QED BY <3>3
  <2>. QED BY <2>1
<1>4. \A n \in Nat : n \in R
  <2> HIDE DEF R
  <2>. QED BY <1>2, <1>3, NaturalsReached
<1>5. \A n \in 0..MaxDepth : Good(n)
  BY <1>4
<1>. QED BY <1>5 DEF Good

\* The outermost variable with what is still open in it.
Outermost(open) ==
    (CHOOSE within : within = [i \in 1..Len(open) |->
        IF i = Len(open) THEN open[i] ELSE Msdp!into(open[i], within[i + 1])])[1]

LEMMA FinishIs ==
    ASSUME NEW p
    PROVE  Msdp!finish(p)
             = IF p.undefined \/ p.current_var_ = <<>> \/ p.current_var_[1].name = <<>> THEN p
               ELSE [p EXCEPT !.out = Append(@, Outermost(p.current_var_))]
BY Zenon DEF Msdp!finish, Outermost

LEMMA OutermostOfOne ==
    ASSUME NEW v
    PROVE  Outermost(<<v>>) = v
<1> DEFINE open == <<v>>
           Form(f) == [i \in 1..Len(open) |->
                          IF i = Len(open) THEN open[i] ELSE Msdp!into(open[i], f[i + 1])]
           g == [i \in 1..1 |-> v]
           w == CHOOSE f : f = Form(f)
<1>1. Len(open) = 1 /\ open[1] = v
  OBVIOUS
<1> HIDE DEF open
<1>2. \A f : Form(f) = g
  <2>1. ASSUME NEW f PROVE Form(f) = g
    <3>1. \A i \in 1..1 : i = 1
      OBVIOUS
    <3>2. \A i \in 1..1 :
             (IF i = Len(open) THEN open[i] ELSE Msdp!into(open[i], f[i + 1])) = v
      BY <1>1, <3>1
    <3>. QED BY <1>1, <3>2
  <2>. QED BY <2>1
<1>3. g[1] = v
  OBVIOUS
<1>4. w = Form(w)
  <2> HIDE DEF Form, g
  <2>1. g = Form(g)
    BY <1>2
  <2>. QED BY <2>1
<1>5. Outermost(open) = w[1]
  BY Zenon DEF Outermost
<1> HIDE DEF w, Form, g
<1>6. w[1] = v
  BY <1>2, <1>3, <1>4
<1>. QED BY <1>5, <1>6 DEF open

\* What is passed on at the end of the content.
LEMMA FinishPassesOn ==
    ASSUME NEW v, v.name # <<>>, NEW state
    PROVE  /\ Msdp!finish(Machine(Append(<<>>, v), state, <<>>)).out = <<v>>
           /\ Msdp!finish(Closed(<<>>, v, <<>>)).out = <<v>>
           /\ ~Machine(Append(<<>>, v), state, <<>>).undefined
           /\ ~Closed(<<>>, v, <<>>).undefined
<1> DEFINE one == <<v>>
           none == <<>>
           p == Machine(one, state, none)
           q == Machine(none, "idle", one)
<1>1. Append(none, v) = one /\ one # none /\ one[1] = v
  OBVIOUS
<1>2. Machine(Append(none, v), state, none) = p /\ Closed(none, v, none) = q
  BY <1>1 DEF Closed
<1>3. Outermost(one) = v
  BY OutermostOfOne
<1> HIDE DEF one, none
<1>4. /\ p.undefined = FALSE /\ p.current_var_ = one /\ p.out = none
      /\ q.undefined = FALSE /\ q.current_var_ = none /\ q.out = one
  BY DEF Machine, nothing_undefined
<1>5. \A x : [p EXCEPT !.out = x].out = x
  BY DEF Machine
<1>6. none = <<>>
  BY DEF none
<1> HIDE DEF p, q
<1>7. Msdp!finish(p).out = one
  <2> DEFINE r == [p EXCEPT !.out = Append(@, Outermost(p.current_var_))]
  <2>1. Msdp!finish(p) = r
    BY <1>1, <1>4, <1>6, FinishIs
  <2>2. r = [p EXCEPT !.out = one]
    BY <1>1, <1>3, <1>4
  <2> HIDE DEF r
  <2>. QED BY <1>5, <2>1, <2>2
<1>8. Msdp!finish(q).out = one
  <2>1. Msdp!finish(q) = q
    BY <1>4, <1>6, FinishIs
  <2>. QED BY <1>4, <2>1
<1>. QED BY <1>2, <1>4, <1>7, <1>8 DEF one, none

\* What the encoder writes of a variable, the decoder reads and passes on, and
\* nothing it does on the way is undefined: of every variable without an array
\* or an empty table in it, and of every variable that ends with an array.
THEOREM VariablesRead ==
    ASSUME MaxDepth \in Nat, NEW v \in NoArrays[MaxDepth] \cup ArrayLast[MaxDepth],
           v.name # <<>>
    PROVE  /\ Msdp!encode_variable(v) \in Text
           /\ \E q : /\ Leads(Msdp!new_parser, Msdp!encode_variable(v), q)
                     /\ Msdp!finish(q).out = <<v>> /\ ~q.undefined
<1> DEFINE w == Msdp!encoded[MaxDepth][v]
           p == Machine(<<>>, "idle", <<>>)
<1>1. Msdp!encode_variable(v) = w
  BY DEF Msdp!encode_variable
<1>2. Msdp!new_parser = p
  BY DEF Msdp!new_parser, Machine, nothing_undefined
<1>3. MaxDepth \in 0..MaxDepth
  OBVIOUS
<1>4. w \in Text
  <2>1. v \in Msdp!Nested[MaxDepth]
    BY <1>3, LevelTypes
  <2>. QED BY <1>3, <2>1, CodeType
<1>5. \E q : Leads(p, w, q) /\ Msdp!finish(q).out = <<v>> /\ ~q.undefined
  <2> HIDE DEF p
  <2>1. CASE v \in NoArrays[MaxDepth]
    <3> DEFINE state == IF v.value_.kind = "string" THEN "value" ELSE "idle"
               q == Machine(Append(<<>>, v), state, <<>>)
    <3>1. Reads(MaxDepth, v)
      BY <1>3, <2>1, EachIsRead
    <3>2. Leads(p, w, q)
      BY <3>1, EmptyStack DEF Reads, p
    <3> HIDE DEF state
    <3>3. Msdp!finish(q).out = <<v>> /\ ~q.undefined
      BY FinishPassesOn
    <3> HIDE DEF q, w
    <3>. QED BY <3>2, <3>3
  <2>2. CASE v \in ArrayLast[MaxDepth]
    <3> DEFINE q == Closed(<<>>, v, <<>>)
    <3>1. Closes(MaxDepth, v)
      BY <1>3, <2>2, EachIsRead
    <3>2. Leads(p, w, q)
      BY <3>1, EmptyStack DEF Closes, p
    <3>3. Msdp!finish(q).out = <<v>> /\ ~q.undefined
      BY FinishPassesOn
    <3> HIDE DEF q, w
    <3>. QED BY <3>2, <3>3
  <2>. QED BY <2>1, <2>2
<1> HIDE DEF w, p
<1>. QED BY <1>1, <1>2, <1>4, <1>5
-------------------------------------------------------------------------------
(***************************************************************************)
(* The runs of Payloads: while the content is read, what the rest of it    *)
(* will make of what has been read is what was sent.                       *)
(***************************************************************************)
ToBeAsked(m, p, rest, got) ==
    IF got = <<>>
    THEN /\ p \in request_parser /\ rest \in Text
         /\ parse_request_end(FedRequests(p, rest)).out = Named(m.of)
    ELSE got = <<Named(m.of)>>

ToBeTold(m, p, rest, got) ==
    IF got = <<>>
    THEN /\ p \in response_parser /\ rest \in Text
         /\ parse_end(Fed(p, rest)).out = Named(m.of)
    ELSE got = <<Named(m.of)>>

ToBeOffered(m, rest, got) ==
    IF got = <<>> THEN Charset!advertised_charsets(rest) = Only(m.of.charsets, Nonempty)
    ELSE got = <<Only(m.of.charsets, Nonempty)>>

ToBeRead(m, p, rest, got) ==
    IF got = <<>>
    THEN /\ rest \in Text
         /\ \E q : /\ Leads(p, rest, q)
                   /\ Msdp!finish(q).out = <<m.of>> /\ ~q.undefined
    ELSE got = <<<<m.of>>>> /\ ~p.undefined

ReadBack == NoArrays[MaxDepth] \cup ArrayLast[MaxDepth]

Ahead ==
    /\ message.option = "request" => ToBeAsked(message, parser, unread, received)
    /\ message.option = "response" => ToBeTold(message, parser, unread, received)
    /\ message.option = "charset" => ToBeOffered(message, unread, received)
    /\ message.option = "msdp" /\ message.of \in ReadBack =>
          ToBeRead(message, parser, unread, received)

\* One byte of a text.
LEMMA TextRead ==
    ASSUME NEW s \in Text, s # <<>>
    PROVE  Head(s) \in Byte /\ Tail(s) \in Text
BY DEF Text

LEMMA AskedOn ==
    ASSUME NEW m, NEW p, NEW rest, ToBeAsked(m, p, rest, <<>>)
    PROVE  /\ rest # <<>> =>
                ToBeAsked(m, parse_request_byte(p, Head(rest)), Tail(rest), <<>>)
           /\ rest = <<>> =>
                ToBeAsked(m, p, <<>>, <<parse_request_end(p).out>>)
<1>1. /\ p \in request_parser /\ rest \in Text
      /\ parse_request_end(FedRequests(p, rest)).out = Named(m.of)
  BY DEF ToBeAsked
<1>2. ASSUME rest # <<>>
      PROVE  ToBeAsked(m, parse_request_byte(p, Head(rest)), Tail(rest), <<>>)
  <2> DEFINE h == Head(rest)
             t == Tail(rest)
             q == parse_request_byte(p, h)
  <2>1. h \in Byte /\ t \in Text
    BY <1>1, <1>2, TextRead
  <2>2. q = At(request_step, p, h)
    <3> HIDE DEF h
    <3>1. <<p, h>> \in request_parser \X Byte /\ <<p, h>>[1] = p /\ <<p, h>>[2] = h
      BY <1>1, <2>1
    <3>. QED BY <3>1 DEF At, request_step
  <2>3. At(request_step, p, h) \in request_parser
           /\ Folded(request_step, p, rest) = Folded(request_step, At(request_step, p, h), t)
    BY <1>1, <1>2, FoldedRead, RequestStep DEF Text
  <2>4. parse_request_byte(p, h) = q
    OBVIOUS
  <2> HIDE DEF h, t, q
  <2>. QED BY <1>1, <2>1, <2>2, <2>3, <2>4 DEF ToBeAsked, FedRequests, h, t
<1>3. ASSUME rest = <<>>
      PROVE  ToBeAsked(m, p, <<>>, <<parse_request_end(p).out>>)
  <2>1. FedRequests(p, rest) = p
    BY <1>3, FoldedEmpty DEF FedRequests
  <2>2. parse_request_end(p).out = Named(m.of)
    BY <1>1, <2>1
  <2>. QED BY <2>2 DEF ToBeAsked
<1>. QED BY <1>2, <1>3

LEMMA ToldOn ==
    ASSUME NEW m, NEW p, NEW rest, ToBeTold(m, p, rest, <<>>)
    PROVE  /\ rest # <<>> =>
                ToBeTold(m, parse_byte(p, Head(rest)), Tail(rest), <<>>)
           /\ rest = <<>> =>
                ToBeTold(m, p, <<>>, <<parse_end(p).out>>)
<1>1. /\ p \in response_parser /\ rest \in Text
      /\ parse_end(Fed(p, rest)).out = Named(m.of)
  BY DEF ToBeTold
<1>2. ASSUME rest # <<>>
      PROVE  ToBeTold(m, parse_byte(p, Head(rest)), Tail(rest), <<>>)
  <2> DEFINE h == Head(rest)
             t == Tail(rest)
             q == parse_byte(p, h)
  <2>1. h \in Byte /\ t \in Text
    BY <1>1, <1>2, TextRead
  <2>2. q = At(response_step, p, h)
    <3> HIDE DEF h
    <3>. QED BY <1>1, <2>1, ResponseStep
  <2>3. At(response_step, p, h) \in response_parser
           /\ Folded(response_step, p, rest) = Folded(response_step, At(response_step, p, h), t)
    BY <1>1, <1>2, FoldedRead, ResponseStep DEF Text
  <2>4. parse_byte(p, h) = q
    OBVIOUS
  <2> HIDE DEF h, t, q
  <2>. QED BY <1>1, <2>1, <2>2, <2>3, <2>4 DEF ToBeTold, Fed, h, t
<1>3. ASSUME rest = <<>>
      PROVE  ToBeTold(m, p, <<>>, <<parse_end(p).out>>)
  <2>1. Fed(p, rest) = p
    BY <1>3, FoldedEmpty DEF Fed
  <2>2. parse_end(p).out = Named(m.of)
    BY <1>1, <2>1
  <2>. QED BY <2>2 DEF ToBeTold
<1>. QED BY <1>2, <1>3

LEMMA ReadOnward ==
    ASSUME NEW m, NEW p, NEW rest, ToBeRead(m, p, rest, <<>>)
    PROVE  /\ rest # <<>> => ToBeRead(m, Msdp!parse(p, Head(rest)), Tail(rest), <<>>)
           /\ rest = <<>> => ToBeRead(m, p, <<>>, <<Msdp!finish(p).out>>)
<1>1. rest \in Text
  BY DEF ToBeRead
<1>2. PICK q : Leads(p, rest, q) /\ Msdp!finish(q).out = <<m.of>> /\ ~q.undefined
  BY DEF ToBeRead
<1>3. ASSUME rest # <<>> PROVE ToBeRead(m, Msdp!parse(p, Head(rest)), Tail(rest), <<>>)
  <2> DEFINE t == Tail(rest)
             r == Msdp!parse(p, Head(rest))
  <2>1. t \in Text /\ Leads(r, t, q)
    BY <1>1, <1>2, <1>3, LeadsRead
  <2> HIDE DEF t, r
  <2>2. ToBeRead(m, r, t, <<>>)
    BY <1>2, <2>1 DEF ToBeRead
  <2>. QED BY <2>2 DEF t, r
<1>4. ASSUME rest = <<>> PROVE ToBeRead(m, p, <<>>, <<Msdp!finish(p).out>>)
  <2>1. q = p
    BY <1>2, <1>4, LeadsEmpty
  <2>. QED BY <1>2, <2>1 DEF ToBeRead
<1>. QED BY <1>3, <1>4

LEMMA InitAhead ==
    ASSUME PayloadsInit
    PROVE  Ahead
<1>1. received = <<>>
  BY DEF PayloadsInit
<1>2. ASSUME NEW reqs \in Requests, send_request_variables(reqs) PROVE Ahead
  <2>1. /\ message = [option |-> "request", of |-> reqs]
        /\ unread = request_content(reqs)
        /\ parser = request_parsing_state
    BY <1>2 DEF send_request_variables
  <2>2. message.option = "request" /\ message.of = reqs
    BY <2>1
  <2>3. unread = request_content(reqs) /\ parser = request_parsing_state
    BY <2>1
  <2>4. reqs \in Seq(request)
    BY PayloadsAssumption
  <2>5. /\ request_content(reqs) \in Seq(Byte) /\ request_parsing_state \in request_parser
        /\ parse_request_end(FedRequests(request_parsing_state, request_content(reqs))).out
             = Named(reqs)
    BY <2>4, RequestsFed
  <2>6. ToBeAsked(message, parser, unread, received)
    BY <1>1, <2>2, <2>3, <2>5 DEF ToBeAsked, Text
  <2>. QED BY <2>2, <2>6 DEF Ahead
<1>3. ASSUME NEW rsps \in Responses, send_responses(rsps) PROVE Ahead
  <2>1. /\ message = [option |-> "response", of |-> rsps]
        /\ unread = response_content(is, rsps)
        /\ parser = parsing_state
    BY <1>3 DEF send_responses
  <2>2. message.option = "response" /\ message.of = rsps
    BY <2>1
  <2>3. unread = response_content(is, rsps) /\ parser = parsing_state
    BY <2>1
  <2>4. rsps \in Seq(response) /\ is \in Byte
    BY PayloadsAssumption DEF is, Byte
  <2>5. /\ response_content(is, rsps) \in Seq(Byte) /\ parsing_state \in response_parser
        /\ parse_end(Fed(parsing_state, response_content(is, rsps))).out = Named(rsps)
    BY <2>4, ResponsesFed
  <2>6. ToBeTold(message, parser, unread, received)
    BY <1>1, <2>2, <2>3, <2>5 DEF ToBeTold, Text
  <2>. QED BY <2>2, <2>6 DEF Ahead
<1>4. ASSUME NEW ad \in Advertisements, advertise_charsets(ad) PROVE Ahead
  <2> DEFINE w == <<Charset!request, ad.separator>>
                     \o FlattenSeq(Separated(ad.separator, ad.charsets))
  <2>1. message = [option |-> "charset", of |-> ad]
    BY <1>4 DEF advertise_charsets
  <2>2. message.option = "charset" /\ message.of = ad
    BY <2>1
  <2>3. unread = w
    BY <1>4, SameFlatten DEF advertise_charsets, Separated
  <2>4. ad.separator \in Byte /\ ad.charsets \in Seq(Seq(Byte \ {ad.separator}))
    BY PayloadsAssumption
  <2>5. Charset!advertised_charsets(w) = Only(ad.charsets, Nonempty)
    BY <2>4, CharsetsHandled
  <2> HIDE DEF w
  <2>6. ToBeOffered(message, unread, received)
    BY <1>1, <2>2, <2>3, <2>5 DEF ToBeOffered
  <2>. QED BY <2>2, <2>6 DEF Ahead
<1>5. ASSUME NEW v \in Variables, send_variable(v) PROVE Ahead
  <2>1. /\ message = [option |-> "msdp", of |-> v]
        /\ unread = Msdp!encode_variable(v) /\ parser = Msdp!new_parser
    BY <1>5 DEF send_variable
  <2>2. message.option = "msdp" /\ message.of = v
    BY <2>1
  <2>3. MaxDepth \in Nat /\ v.name # <<>>
    BY PayloadsAssumption
  <2>4. ASSUME v \in ReadBack PROVE ToBeRead(message, parser, unread, received)
    <3>1. /\ Msdp!encode_variable(v) \in Text
          /\ \E q : /\ Leads(Msdp!new_parser, Msdp!encode_variable(v), q)
                    /\ Msdp!finish(q).out = <<v>> /\ ~q.undefined
      BY <2>3, <2>4, VariablesRead DEF ReadBack
    <3>. QED BY <1>1, <2>1, <2>2, <3>1 DEF ToBeRead
  <2>. QED BY <2>2, <2>4 DEF Ahead
<1>. QED BY <1>2, <1>3, <1>4, <1>5 DEF PayloadsInit

LEMMA NextAhead ==
    ASSUME Ahead, [PayloadsNext]_(payloads_vars)
    PROVE  Ahead'
<1>1. CASE read_requests
  <2>1. /\ message.option = "request" /\ received = <<>> /\ message' = message
        /\ \/ /\ unread # <<>> /\ unread' = Tail(unread) /\ received' = received
              /\ parser' = parse_request_byte(parser, Head(unread))
           \/ /\ unread = <<>> /\ unread' = <<>> /\ parser' = parser
              /\ received' = <<parse_request_end(parser).out>>
    BY <1>1 DEF read_requests, ongoing, next_byte, emit
  <2>2. ToBeAsked(message, parser, unread, <<>>)
    BY <2>1 DEF Ahead
  <2>3. /\ unread # <<>> => ToBeAsked(message,
              parse_request_byte(parser, Head(unread)), Tail(unread), <<>>)
        /\ unread = <<>> => ToBeAsked(message, parser, <<>>,
              <<parse_request_end(parser).out>>)
    BY <2>2, AskedOn
  <2>4. ToBeAsked(message', parser', unread', received')
    BY <2>1, <2>3
  <2>. QED BY <2>1, <2>4 DEF Ahead
<1>2. CASE read_responses
  <2>1. /\ message.option = "response" /\ received = <<>> /\ message' = message
        /\ \/ /\ unread # <<>> /\ unread' = Tail(unread) /\ received' = received
              /\ parser' = parse_byte(parser, Head(unread))
           \/ /\ unread = <<>> /\ unread' = <<>> /\ parser' = parser
              /\ received' = <<parse_end(parser).out>>
    BY <1>2 DEF read_responses, ongoing, next_byte, emit
  <2>2. ToBeTold(message, parser, unread, <<>>)
    BY <2>1 DEF Ahead
  <2>3. /\ unread # <<>> => ToBeTold(message,
              parse_byte(parser, Head(unread)), Tail(unread), <<>>)
        /\ unread = <<>> => ToBeTold(message, parser, <<>>,
              <<parse_end(parser).out>>)
    BY <2>2, ToldOn
  <2>4. ToBeTold(message', parser', unread', received')
    BY <2>1, <2>3
  <2>. QED BY <2>1, <2>4 DEF Ahead
<1>3. CASE handle_charsets
  <2>1. /\ message.option = "charset" /\ received = <<>> /\ message' = message
        /\ received' = <<Charset!advertised_charsets(unread)>>
    BY <1>3 DEF handle_charsets, ongoing, emit
  <2>2. Charset!advertised_charsets(unread) = Only(message.of.charsets, Nonempty)
    BY <2>1 DEF Ahead, ToBeOffered
  <2>3. ToBeOffered(message', unread', received')
    BY <2>1, <2>2 DEF ToBeOffered
  <2>. QED BY <2>1, <2>3 DEF Ahead
<1>4. CASE decode
  <2>1. /\ message.option = "msdp" /\ received = <<>> /\ message' = message
        /\ \/ /\ unread # <<>> /\ unread' = Tail(unread) /\ received' = received
              /\ parser' = Msdp!parse(parser, Head(unread))
           \/ /\ unread = <<>> /\ unread' = <<>> /\ parser' = parser
              /\ received' = <<Msdp!finish(parser).out>>
    BY <1>4 DEF decode, ongoing, next_byte, emit
  <2>2. ASSUME message.of \in ReadBack PROVE ToBeRead(message', parser', unread', received')
    <3>1. ToBeRead(message, parser, unread, <<>>)
      BY <2>1, <2>2 DEF Ahead
    <3>2. /\ unread # <<>> =>
                ToBeRead(message, Msdp!parse(parser, Head(unread)), Tail(unread), <<>>)
          /\ unread = <<>> => ToBeRead(message, parser, <<>>, <<Msdp!finish(parser).out>>)
      BY <3>1, ReadOnward
    <3>. QED BY <2>1, <3>2
  <2>3. ReadBack' = ReadBack
    BY DEF ReadBack
  <2>. QED BY <2>1, <2>2, <2>3 DEF Ahead
<1>5. CASE UNCHANGED payloads_vars
  BY <1>5 DEF Ahead, payloads_vars, ReadBack
<1>. QED BY <1>1, <1>2, <1>3, <1>4, <1>5 DEF PayloadsNext

THEOREM AheadHolds == PayloadsSpec => []Ahead
<1>1. PayloadsInit => Ahead
  BY InitAhead
<1>. QED BY <1>1, NextAhead, PTL DEF PayloadsSpec

\* Whatever requests a client's program makes, the NEW-ENVIRON server reads
\* them, each with its type and name.
THEOREM RequestsArriveHolds == PayloadsSpec => []RequestsArrive
<1>1. Ahead => RequestsArrive
  BY DEF Ahead, ToBeAsked, RequestsArrive, Arrived
<1>. QED BY <1>1, AheadHolds, PTL

\* Whatever a NEW-ENVIRON server reports, its client is told that: values of any
\* bytes, empty ones, and that there is none.
THEOREM ResponsesArriveHolds == PayloadsSpec => []ResponsesArrive
<1>1. Ahead => ResponsesArrive
  BY DEF Ahead, ToBeTold, ResponsesArrive, Arrived
<1>. QED BY <1>1, AheadHolds, PTL

\* Whatever charsets are advertised, with whichever separator, the CHARSET server
\* offers those to its program that are not empty, in their order.
THEOREM CharsetsArriveHolds == PayloadsSpec => []CharsetsArrive
<1>1. Ahead => CharsetsArrive
  <2>1. \A s : Only(s, Seq(Byte) \ {<<>>}) = Only(s, Nonempty)
    BY DEF Nonempty, Text
  <2>. QED BY <2>1 DEF Ahead, ToBeOffered, CharsetsArrive, Arrived
<1>. QED BY <1>1, AheadHolds, PTL

\* Whatever variable is sent by MSDP, with tables in tables to any depth, the other
\* end receives it if it has no empty table and nothing comes after an array.
THEOREM ArraysAtTheEndArriveHolds ==
    PayloadsSpec => []ArraysAtTheEndArrive
<1>1. Ahead => ArraysAtTheEndArrive
  BY DEF Ahead, ReadBack, ToBeRead, ArraysAtTheEndArrive, MsdpArrives, Arrived
<1>. QED BY <1>1, AheadHolds, PTL
===============================================================================
