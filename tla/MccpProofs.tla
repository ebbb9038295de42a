------------------------------- MODULE MccpProofs -------------------------------
(***************************************************************************)
(* Mccp, for every bound on its wires: the option pair beneath it, and the *)
(* two codecs that follow one another.                                     *)
(***************************************************************************)
EXTENDS MccpInvariant, WiresProofs

Elements == negotiation_type \cup {"sub"} \cup Text

LEMMA EndFacts ==
    ASSUME NEW e \in Ends
    PROVE  /\ Other(e) \in Ends /\ Other(Other(e)) = e /\ Other(e) # e
           /\ \A x \in Ends : x = e \/ x = Other(e)
           /\ "server" \in Ends /\ "client" \in Ends
           /\ Other("server") = "client" /\ Other("client") = "server"
BY DEF Ends, Other

LEMMA VerbFacts ==
    ASSUME NEW e \in Ends
    PROVE  /\ {local_positive(e), local_negative(e), remote_positive(e), remote_negative(e)}
                = negotiation_type
           /\ local_positive(e) # local_negative(e)
           /\ remote_positive(e) # remote_negative(e)
           /\ local_positive(e) = IF e = "server" THEN "will" ELSE "do"
           /\ local_negative(e) = IF e = "server" THEN "wont" ELSE "dont"
           /\ remote_positive(e) = IF e = "server" THEN "do" ELSE "will"
           /\ remote_negative(e) = IF e = "server" THEN "dont" ELSE "wont"
BY DEF Ends, Other, local_positive, local_negative, remote_positive, remote_negative, negotiation_type

\* Which kind of thing each element is.
LEMMA ElementFacts ==
    /\ negotiation_type \subseteq Elements /\ "sub" \in Elements /\ Text \subseteq Elements
    /\ \A x \in Text : x \notin negotiation_type \cup {"sub"}
    /\ "sub" \notin negotiation_type
    /\ \A x \in Elements : x \in Text \/ x \in negotiation_type \cup {"sub"}
BY DEF Elements, negotiation_type, Text, Compressed

\* What the codecs put on the wire is text.
LEMMA CodecWrites ==
    ASSUME NEW c \in codec
    PROVE  /\ finish_output(c) \in Text /\ compress_output(c) \in Text
           /\ start(c) \in codec /\ compress(c) \in codec /\ Idle \in codec
           /\ \A text : decompress(c, text) \in codec
           /\ start(c).engaged_ /\ compress(c).engaged_ = c.engaged_ /\ ~Idle.engaged_
BY DEF finish_output, compress_output, start, compress, decompress, codec, Idle, Text, Compressed

LEMMA HandlerWrites ==
    ASSUME compressor \in codec, NEW e \in Ends, NEW s
    PROVE  /\ handler_writes(e) \in Seq(Text) /\ signal_writes(e, s) \in Seq(Text)
           /\ handler_writes("client") = <<>> /\ signal_writes("client", s) = <<>>
<1>1. finish_output(compressor) \in Text
  BY CodecWrites
<1>2. handler_writes(e) \in Seq(Text)
  BY <1>1 DEF handler_writes
<1>3. handler_writes("client") = <<>>
  BY DEF handler_writes
<1>. QED BY <1>2, <1>3 DEF signal_writes

-------------------------------------------------------------------------------
LEMMA WriteFacts ==
    ASSUME wire \in [Ends -> Seq(Elements)], NEW e \in Ends,
           NEW elems, elems \in Seq(Elements), write(e, elems)
    PROVE  /\ wire' \in [Ends -> Seq(Elements)]
           /\ wire'[Other(e)] = wire[Other(e)] \o elems
           /\ wire'[e] = wire[e]
<1>1. Other(e) \in Ends /\ Other(e) # e
  BY EndFacts
<1>2. wire[Other(e)] \in Seq(Elements) /\ wire[Other(e)] \o elems \in Seq(Elements)
  BY <1>1
<1>. QED BY <1>1, <1>2 DEF write

LEMMA ReadFacts ==
    ASSUME wire \in [Ends -> Seq(Elements)], NEW e \in Ends, wire[e] # <<>>, read(e)
    PROVE  /\ wire' \in [Ends -> Seq(Elements)]
           /\ wire'[Other(e)] = wire[Other(e)]
           /\ wire'[e] = Tail(wire[e])
<1>1. Other(e) \in Ends /\ Other(e) # e
  BY EndFacts
<1>2. wire[e] \in Seq(Elements) /\ Tail(wire[e]) \in Seq(Elements)
  OBVIOUS
<1>. QED BY <1>1, <1>2 DEF read

LEMMA ReadAndWriteFacts ==
    ASSUME wire \in [Ends -> Seq(Elements)], NEW e \in Ends, wire[e] # <<>>,
           NEW elems, elems \in Seq(Elements), read_and_write(e, elems)
    PROVE  /\ wire' \in [Ends -> Seq(Elements)]
           /\ wire'[Other(e)] = wire[Other(e)] \o elems
           /\ wire'[e] = Tail(wire[e])
<1>1. Other(e) \in Ends /\ Other(e) # e
  BY EndFacts
<1>2. wire[e] \in Seq(Elements) /\ Tail(wire[e]) \in Seq(Elements)
  OBVIOUS
<1>3. wire[Other(e)] \in Seq(Elements) /\ wire[Other(e)] \o elems \in Seq(Elements)
  BY <1>1
<1>. QED BY <1>1, <1>2, <1>3 DEF read_and_write

\* What option::negotiate writes, and that it can be written.
LEMMA NegotiateWrites ==
    ASSUME compressor \in codec, NEW e \in Ends, NEW verb \in negotiation_type, NEW s
    PROVE  /\ answer(e, verb) \in {<<>>, <<verb>>}
           /\ answer(e, verb) \in Seq(Elements) /\ signal_writes(e, s) \in Seq(Elements)
           /\ answer(e, verb) \o signal_writes(e, s) \in Seq(Elements)
           /\ signal_writes(e, s) \o answer(e, verb) \in Seq(Elements)
<1>1. answer(e, verb) \in {<<>>, <<verb>>} /\ verb \in Elements
  BY ElementFacts DEF answer
<1>2. answer(e, verb) \in Seq(Elements)
  <2>1. <<>> \in Seq(Elements) /\ <<verb>> \in Seq(Elements)
    BY <1>1
  <2>. QED BY <1>1, <2>1, Zenon
<1>3. signal_writes(e, s) \in Seq(Elements)
  BY HandlerWrites, ElementFacts, SeqMonotonic
<1> HIDE DEF Elements
<1>. QED BY <1>1, <1>2, <1>3

-------------------------------------------------------------------------------
(***************************************************************************)
(* Types.                                                                  *)
(***************************************************************************)
LEMMA TypeUnfolded ==
    ASSUME TypeOK
    PROVE  /\ state_ \in [Ends -> internal_state]
           /\ wire \in [Ends -> Seq(Elements)]
           /\ compressor \in codec
           /\ decompressor \in codec
           /\ compression_active_ = compressor.engaged_
           /\ compression_active_ \in BOOLEAN
           /\ compression_active_ => state_["server"] \in {"active", "deactivating"}
BY DEF TypeOK, Elements, codec

LEMMA IdleFacts == Idle \in codec /\ Idle.engaged_ = FALSE /\ Idle.stream_ = "none"
BY DEF Idle, codec

LEMMA InitType == Init => TypeOK
<1> SUFFICES ASSUME Init PROVE TypeOK
  OBVIOUS
<1>1. wire \in [Ends -> Seq(negotiation_type \cup {"sub"} \cup Text)]
  BY EmptySeq DEF Init
<1>2. state_ \in [Ends -> internal_state]
  BY DEF Init, internal_state
<1>. QED BY <1>1, <1>2, IdleFacts DEF Init, TypeOK

\* What a handler does to the codecs leaves them well typed.
LEMMA HandlerType ==
    ASSUME TypeOK, NEW e \in Ends, NEW s, on_state_changed(e, s)
    PROVE  /\ compressor' \in codec /\ decompressor' \in codec
           /\ compression_active_' = compressor'.engaged_
           /\ compression_active_' => compression_active_ /\ e = "client"
<1>1. CASE e = "server"
  <2>1. CASE compression_active_
    BY <1>1, <2>1, IdleFacts DEF on_state_changed, TypeOK
  <2>2. CASE ~compression_active_
    <3>1. compression_active_ = FALSE
      BY <2>2, TypeUnfolded
    <3>. QED BY <1>1, <2>2, <3>1, TypeUnfolded DEF on_state_changed
  <2>. QED BY <2>1, <2>2
<1>2. CASE e # "server"
  BY <1>2, IdleFacts DEF on_state_changed, TypeOK, Ends
<1>. QED BY <1>1, <1>2

LEMMA BecomeFacts ==
    ASSUME state_ \in [Ends -> internal_state], NEW e \in Ends, NEW s \in internal_state, become(e, s)
    PROVE  /\ state_' \in [Ends -> internal_state]
           /\ state_'[e] = s /\ state_'[Other(e)] = state_[Other(e)]
BY EndFacts DEF become

LEMMA NextType == TypeOK /\ [Next]_vars => TypeOK'
<1> SUFFICES ASSUME TypeOK, [Next]_vars PROVE TypeOK'
  OBVIOUS
<1> DEFINE Typed == /\ state_ \in [Ends -> internal_state]
                    /\ wire \in [Ends -> Seq(Elements)]
                    /\ compressor \in codec
                    /\ decompressor \in codec
                    /\ compression_active_ = compressor.engaged_
                    /\ compression_active_ => state_["server"] \in {"active", "deactivating"}
<1>0. Typed
  BY TypeUnfolded
<1>01. "server" \in Ends /\ "client" \in Ends
  BY DEF Ends
<1>02. {"inactive", "activating", "active", "deactivating"} = internal_state
  BY DEF internal_state
<1> SUFFICES Typed'
  BY DEF TypeOK, Elements
<1>1. ASSUME NEW e \in Ends, activate(e) PROVE Typed'
  <2>1. CASE /\ state_[e] = "inactive"
             /\ become(e, "activating")
             /\ write(e, <<local_positive(e)>>)
             /\ UNCHANGED codecs
    <3>1. <<local_positive(e)>> \in Seq(Elements)
      BY VerbFacts, ElementFacts
    <3>2. wire' \in [Ends -> Seq(Elements)]
      BY <1>0, <2>1, <3>1, WriteFacts
    <3>3. state_' \in [Ends -> internal_state] /\ state_'[Other(e)] = state_[Other(e)]
      BY <1>0, <1>02, <2>1, BecomeFacts
    <3>4. compression_active_ => e # "server"
      BY <1>0, <2>1
    <3>. QED BY <1>0, <1>01, <2>1, <3>2, <3>3, <3>4, EndFacts DEF codecs
  <2>2. CASE /\ state_[e] = "active"
             /\ write(e, handler_writes(e))
             /\ on_state_changed(e, "active")
             /\ UNCHANGED state_
    <3>1. handler_writes(e) \in Seq(Elements)
      BY <1>0, HandlerWrites, ElementFacts, SeqMonotonic
    <3>2. wire' \in [Ends -> Seq(Elements)]
      BY <1>0, <2>2, <3>1, WriteFacts
    <3>. QED BY <1>0, <2>2, <3>2, HandlerType
  <2>. QED BY <1>1, <2>1, <2>2 DEF activate
<1>2. ASSUME NEW e \in Ends, deactivate(e) PROVE Typed'
  <2>1. CASE /\ state_[e] = "active"
             /\ become(e, "deactivating")
             /\ write(e, <<local_negative(e)>>)
             /\ UNCHANGED codecs
    <3>1. <<local_negative(e)>> \in Seq(Elements)
      BY VerbFacts, ElementFacts
    <3>2. wire' \in [Ends -> Seq(Elements)]
      BY <1>0, <2>1, <3>1, WriteFacts
    <3>3. /\ state_' \in [Ends -> internal_state]
          /\ state_'[Other(e)] = state_[Other(e)] /\ state_'[e] = "deactivating"
      BY <1>0, <1>02, <2>1, BecomeFacts
    <3>. QED BY <1>0, <1>01, <2>1, <3>2, <3>3, EndFacts DEF codecs
  <2>2. CASE /\ state_[e] = "inactive"
             /\ write(e, handler_writes(e))
             /\ on_state_changed(e, "inactive")
             /\ UNCHANGED state_
    <3>1. handler_writes(e) \in Seq(Elements)
      BY <1>0, HandlerWrites, ElementFacts, SeqMonotonic
    <3>2. wire' \in [Ends -> Seq(Elements)]
      BY <1>0, <2>2, <3>1, WriteFacts
    <3>. QED BY <1>0, <2>2, <3>2, HandlerType
  <2>. QED BY <1>2, <2>1, <2>2 DEF deactivate
<1>3. ASSUME NEW e \in Ends, negotiate(e) PROVE Typed'
  <2>1. ASSUME NEW s \in {"active", "inactive"}, NEW elems \in Seq(Elements),
               wire[e] # <<>>, negotiate_to(e, s, elems)
        PROVE  Typed'
    <3>1. wire' \in [Ends -> Seq(Elements)]
      BY <1>0, <2>1, ReadAndWriteFacts DEF negotiate_to
    <3>2. /\ state_' \in [Ends -> internal_state]
          /\ state_'[Other(e)] = state_[Other(e)] /\ state_'[e] = s
      BY <1>0, <1>02, <2>1, BecomeFacts DEF negotiate_to
    <3>3. CASE state_[e] = s
      BY <1>0, <1>01, <2>1, <3>1, <3>2, <3>3, EndFacts DEF negotiate_to, codecs
    <3>4. CASE state_[e] # s
      <4>1. on_state_changed(e, s)
        BY <2>1, <3>4 DEF negotiate_to
      <4>2. e = "client" => state_'["server"] = state_["server"]
        BY <3>2, EndFacts
      <4>. QED BY <1>0, <3>1, <3>2, <4>1, <4>2, HandlerType
    <3>. QED BY <3>3, <3>4
  <2>2. local_positive(e) \in negotiation_type /\ local_negative(e) \in negotiation_type
    BY VerbFacts
  <2>. QED BY <1>0, <1>3, <2>1, <2>2, NegotiateWrites DEF negotiate
<1>4. ASSUME start_compression PROVE Typed'
  <2>1. <<"sub">> \in Seq(Elements)
    BY ElementFacts
  <2>2. wire' \in [Ends -> Seq(Elements)]
    BY <1>0, <1>01, <1>4, <2>1, WriteFacts DEF start_compression
  <2>. QED BY <1>0, <1>4, <2>2, CodecWrites DEF start_compression, active
<1>5. ASSUME finish_compression PROVE Typed'
  <2>1. <<finish_output(compressor)>> \in Seq(Elements)
    BY <1>0, CodecWrites, ElementFacts
  <2>2. wire' \in [Ends -> Seq(Elements)]
    BY <1>0, <1>01, <1>5, <2>1, WriteFacts DEF finish_compression
  <2>. QED BY <1>0, <1>5, <2>2, IdleFacts DEF finish_compression
<1>6. ASSUME write_text PROVE Typed'
  <2>1. <<compress_output(compressor)>> \in Seq(Elements)
    BY <1>0, CodecWrites, ElementFacts
  <2>2. wire' \in [Ends -> Seq(Elements)]
    BY <1>0, <1>01, <1>6, <2>1, WriteFacts DEF write_text
  <2>. QED BY <1>0, <1>6, <2>2, CodecWrites DEF write_text
<1>7. ASSUME subnegotiate PROVE Typed'
  <2>1. wire' \in [Ends -> Seq(Elements)]
    BY <1>0, <1>01, <1>7, ReadFacts DEF subnegotiate
  <2>. QED BY <1>0, <1>7, <2>1, CodecWrites DEF subnegotiate
<1>8. ASSUME read_text PROVE Typed'
  <2>1. wire' \in [Ends -> Seq(Elements)]
    BY <1>0, <1>01, <1>8, ReadFacts DEF read_text
  <2>. QED BY <1>0, <1>8, <2>1, CodecWrites DEF read_text
<1>9. CASE UNCHANGED vars
  BY <1>0, <1>9 DEF vars
<1>. QED BY <1>1, <1>2, <1>3, <1>4, <1>5, <1>6, <1>7, <1>8, <1>9 DEF Next

\* The variables keep their types: nothing that the server's handlers and the
\* four calls do leaves compression_active_ and the codec apart, or compression
\* on in an option that is off.
THEOREM TypeCorrect == Spec => []TypeOK
BY InitType, NextType, PTL DEF Spec

-------------------------------------------------------------------------------
(***************************************************************************)
(* The refinement: what is left of a wire without its text.                *)
(***************************************************************************)
Keep == negotiation_type \cup {"sub"}

LEMMA OnlyConcat ==
    ASSUME NEW v \in Seq(Elements), NEW w \in Seq(Elements)
    PROVE  Only(v \o w, Keep) = Only(v, Keep) \o Only(w, Keep)
BY ProjectConcat DEF Only

LEMMA OnlyText ==
    ASSUME NEW w \in Seq(Text)
    PROVE  Only(w, Keep) = <<>>
<1>1. \A i \in 1..Len(w) : w[i] \notin Keep
  BY ElementFacts DEF Keep
<1>. QED BY <1>1, KeepNone

LEMMA OnlyOne ==
    ASSUME NEW x \in Keep
    PROVE  Only(<<x>>, Keep) = <<x>>
<1> DEFINE f == [y \in Keep |-> y]
<1>0. <<>> \in Seq(Keep) /\ Append(<<>>, x) = <<x>>
  OBVIOUS
<1>1. Project(Append(<<>>, x), f) = Seen(Project(<<>>, f), x, f)
  <2> HIDE DEF f
  <2>. QED BY <1>0, ProjectAppend
<1>2. Project(<<>>, f) = <<>>
  BY ProjectEmpty
<1>3. Seen(<<>>, x, f) = Append(<<>>, x)
  BY DEF Seen
<1>. QED BY <1>0, <1>1, <1>2, <1>3 DEF Only

Mapped == [e \in Ends |-> Negotiating(e)]

LEMMA MappedType ==
    ASSUME wire \in [Ends -> Seq(Elements)]
    PROVE  /\ DOMAIN Mapped = Ends
           /\ \A e \in Ends : Mapped[e] = Only(wire[e], Keep) /\ Mapped[e] \in Seq(Keep)
           /\ \A e \in Ends : Len(Mapped[e]) <= Len(wire[e])
BY KeepType DEF Mapped, Negotiating, Keep

LEMMA MappedWrite ==
    ASSUME wire \in [Ends -> Seq(Elements)], NEW e \in Ends,
           NEW elems, elems \in Seq(Elements), write(e, elems)
    PROVE  /\ \A v \in Keep : Only(elems, Keep) = <<v>> => Pair!write(e, v)
           /\ Only(elems, Keep) = <<>> => Mapped' = Mapped
<1>1. /\ wire' \in [Ends -> Seq(Elements)]
      /\ wire'[Other(e)] = wire[Other(e)] \o elems
      /\ wire'[e] = wire[e]
  BY WriteFacts
<1>2. Other(e) \in Ends /\ Other(e) # e /\ \A x \in Ends : x = e \/ x = Other(e)
  BY EndFacts
<1>3. /\ Mapped' = [x \in Ends |-> Only(wire'[x], Keep)]
      /\ Mapped = [x \in Ends |-> Only(wire[x], Keep)]
  BY DEF Mapped, Negotiating, Keep
<1>4. Only(wire'[Other(e)], Keep) = Only(wire[Other(e)], Keep) \o Only(elems, Keep)
  BY <1>1, <1>2, OnlyConcat
<1>5. Only(wire[Other(e)], Keep) \in Seq(Keep)
  BY <1>2, KeepType
<1>6. ASSUME NEW v \in Keep, Only(elems, Keep) = <<v>> PROVE Pair!write(e, v)
  <2>1. Only(wire'[Other(e)], Keep) = Append(Only(wire[Other(e)], Keep), v)
    BY <1>4, <1>5, <1>6
  <2>2. Mapped' = [Mapped EXCEPT ![Other(e)] = Append(@, v)]
    BY <1>1, <1>2, <1>3, <2>1
  <2>. QED BY <2>2 DEF Pair!write, Pair!Other, Other, Mapped
<1>7. ASSUME Only(elems, Keep) = <<>> PROVE Mapped' = Mapped
  <2>1. Only(wire'[Other(e)], Keep) = Only(wire[Other(e)], Keep)
    BY <1>4, <1>5, <1>7
  <2>. QED BY <1>1, <1>2, <1>3, <2>1
<1>. QED BY <1>6, <1>7

LEMMA MappedHead ==
    ASSUME wire \in [Ends -> Seq(Elements)], NEW e \in Ends, wire[e] # <<>>
    PROVE  /\ Head(wire[e]) \in Keep =>
                /\ Mapped[e] # <<>>
                /\ Head(Mapped[e]) = Head(wire[e])
                /\ Only(Tail(wire[e]), Keep) = Tail(Mapped[e])
           /\ Head(wire[e]) \in Text => Only(Tail(wire[e]), Keep) = Mapped[e]
           /\ Head(wire[e]) \in Elements
<1> DEFINE f == [x \in Keep |-> x]
<1>1. Mapped[e] = Project(wire[e], f) /\ wire[e] \in Seq(Elements)
  BY DEF Mapped, Negotiating, Keep, Only
<1>2. DOMAIN f = Keep /\ \A x \in Keep : f[x] = x
  OBVIOUS
<1>3. /\ Head(wire[e]) \in DOMAIN f =>
           /\ Project(wire[e], f) # <<>>
           /\ Head(Project(wire[e], f)) = f[Head(wire[e])]
           /\ Project(Tail(wire[e]), f) = Tail(Project(wire[e], f))
      /\ Head(wire[e]) \notin DOMAIN f => Project(Tail(wire[e]), f) = Project(wire[e], f)
  <2> HIDE DEF f
  <2>. QED BY <1>1, ProjectRead
<1>4. Head(wire[e]) \in Text => Head(wire[e]) \notin Keep
  BY ElementFacts DEF Keep
<1>. QED BY <1>1, <1>2, <1>3, <1>4 DEF Only

LEMMA MappedRead ==
    ASSUME wire \in [Ends -> Seq(Elements)], NEW e \in Ends, wire[e] # <<>>, read(e)
    PROVE  /\ Head(wire[e]) \in Keep => Pair!read(e)
           /\ Head(wire[e]) \in Text => Mapped' = Mapped
<1>1. /\ wire' \in [Ends -> Seq(Elements)]
      /\ wire'[Other(e)] = wire[Other(e)]
      /\ wire'[e] = Tail(wire[e])
  BY ReadFacts
<1>2. \A x \in Ends : x = e \/ x = Other(e)
  BY EndFacts
<1>3. /\ Mapped' = [x \in Ends |-> Only(wire'[x], Keep)]
      /\ Mapped = [x \in Ends |-> Only(wire[x], Keep)]
  BY DEF Mapped, Negotiating, Keep
<1>4. ASSUME Head(wire[e]) \in Keep PROVE Pair!read(e)
  <2>1. Mapped' = [Mapped EXCEPT ![e] = Tail(@)]
    <3>1. Only(wire'[e], Keep) = Tail(Mapped[e])
      BY <1>1, <1>4, MappedHead
    <3>2. Other(e) # e
      BY EndFacts
    <3>. QED BY <1>1, <1>2, <1>3, <3>1, <3>2
  <2>. QED BY <2>1 DEF Pair!read, Mapped
<1>5. ASSUME Head(wire[e]) \in Text PROVE Mapped' = Mapped
  BY <1>1, <1>2, <1>3, <1>5, MappedHead, ZenonT(40)
<1>. QED BY <1>4, <1>5

LEMMA MappedReadAndWrite ==
    ASSUME wire \in [Ends -> Seq(Elements)], NEW e \in Ends, wire[e] # <<>>,
           NEW elems, elems \in Seq(Elements), read_and_write(e, elems),
           Head(wire[e]) \in Keep
    PROVE  /\ \A v \in Keep : Only(elems, Keep) = <<v>> => Pair!read_and_write(e, v)
           /\ Only(elems, Keep) = <<>> => Pair!read(e)
<1>1. /\ wire' \in [Ends -> Seq(Elements)]
      /\ wire'[Other(e)] = wire[Other(e)] \o elems
      /\ wire'[e] = Tail(wire[e])
  BY ReadAndWriteFacts
<1>2. Other(e) \in Ends /\ Other(e) # e /\ \A x \in Ends : x = e \/ x = Other(e)
  BY EndFacts
<1>3. /\ Mapped' = [x \in Ends |-> Only(wire'[x], Keep)]
      /\ Mapped = [x \in Ends |-> Only(wire[x], Keep)]
  BY DEF Mapped, Negotiating, Keep
<1>4. Only(wire'[Other(e)], Keep) = Only(wire[Other(e)], Keep) \o Only(elems, Keep)
  BY <1>1, <1>2, OnlyConcat
<1>5. Only(wire[Other(e)], Keep) \in Seq(Keep)
  BY <1>2, KeepType
<1>6. Only(wire'[e], Keep) = Tail(Mapped[e])
  BY <1>1, MappedHead
<1>7. ASSUME NEW v \in Keep, Only(elems, Keep) = <<v>> PROVE Pair!read_and_write(e, v)
  <2>1. Only(wire'[Other(e)], Keep) = Append(Only(wire[Other(e)], Keep), v)
    BY <1>4, <1>5, <1>7
  <2>2. Mapped' = [Mapped EXCEPT ![e] = Tail(@), ![Other(e)] = Append(@, v)]
    BY <1>2, <1>3, <1>6, <2>1
  <2>. QED BY <2>2 DEF Pair!read_and_write, Pair!Other, Other, Mapped
<1>8. ASSUME Only(elems, Keep) = <<>> PROVE Pair!read(e)
  <2>1. Only(wire'[Other(e)], Keep) = Only(wire[Other(e)], Keep)
    BY <1>4, <1>5, <1>8
  <2>2. Mapped' = [Mapped EXCEPT ![e] = Tail(@)]
    BY <1>2, <1>3, <1>6, <2>1
  <2>. QED BY <2>2 DEF Pair!read, Mapped
<1>. QED BY <1>7, <1>8

\* What negotiate writes without the text.
LEMMA OnlyAnswer ==
    ASSUME compressor \in codec, NEW e \in Ends, NEW verb \in negotiation_type, NEW s
    PROVE  /\ Only(answer(e, verb) \o signal_writes(e, s), Keep) = answer(e, verb)
           /\ Only(signal_writes(e, s) \o answer(e, verb), Keep) = answer(e, verb)
<1>1. answer(e, verb) \in {<<>>, <<verb>>} /\ answer(e, verb) \in Seq(Elements)
  BY NegotiateWrites
<1>2. signal_writes(e, s) \in Seq(Elements) /\ Only(signal_writes(e, s), Keep) = <<>>
  BY NegotiateWrites, HandlerWrites, OnlyText
<1>3. Only(answer(e, verb), Keep) = answer(e, verb)
  <2>1. Only(<<>>, Keep) = <<>>
    BY ProjectEmpty DEF Only
  <2>2. Only(<<verb>>, Keep) = <<verb>>
    BY OnlyOne DEF Keep
  <2>. QED BY <1>1, <2>1, <2>2
<1>4. answer(e, verb) \o <<>> = answer(e, verb) /\ <<>> \o answer(e, verb) = answer(e, verb)
  BY <1>1
<1>. QED BY <1>1, <1>2, <1>3, <1>4, OnlyConcat

LEMMA PairFacts ==
    ASSUME NEW e \in Ends
    PROVE  /\ Pair!Ends = Ends
           /\ Pair!local_positive(e) = local_positive(e)
           /\ Pair!local_negative(e) = local_negative(e)
           /\ Pair!remote_positive(e) = remote_positive(e)
           /\ Pair!remote_negative(e) = remote_negative(e)
           /\ Pair!requesting(e) = requesting(e)
           /\ Pair!active(e) = active(e)
           /\ Pair!Other(e) = Other(e)
           /\ \A s : Pair!become(e, s) = become(e, s)
BY DEF Pair!Ends, Ends, Pair!local_positive, Pair!local_negative, Pair!remote_positive,
       Pair!remote_negative, local_positive, local_negative, remote_positive, remote_negative,
       Other, Pair!requesting, requesting, Pair!active, active, Pair!Other,
       Pair!become, become

LEMMA InitImplements == Init => Pair!Init
<1>1. Only(<<>>, Keep) = <<>>
  BY ProjectEmpty DEF Only
<1>. QED BY <1>1 DEF Init, Pair!Init, Pair!Ends, Ends, Negotiating, Keep

\* Every step of Mccp is one of the pair, or none: a call is that call, what is
\* read is read, and text is invisible.
LEMMA NextImplements == TypeOK /\ [Next]_vars => [Pair!Next]_(Pair!vars)
<1> SUFFICES ASSUME TypeOK, [Next]_vars PROVE Pair!Next \/ UNCHANGED Pair!vars
  OBVIOUS
<1>0. /\ wire \in [Ends -> Seq(Elements)] /\ compressor \in codec
      /\ state_ \in [Ends -> internal_state]
  BY TypeUnfolded
<1>01. "server" \in Ends /\ "client" \in Ends /\ Other("server") = "client"
  BY DEF Ends, Other
<1>02. ASSUME Mapped' = Mapped, state_' = state_ PROVE UNCHANGED Pair!vars
  BY <1>02 DEF Pair!vars, Mapped
<1>03. negotiation_type \subseteq Keep /\ "sub" \in Keep /\ \A x \in Text : <<x>> \in Seq(Text)
  BY DEF Keep
<1>04. ASSUME NEW x \in Keep PROVE <<x>> \in Seq(Elements) /\ Only(<<x>>, Keep) = <<x>>
  BY <1>04, OnlyOne, ElementFacts DEF Keep
<1>05. ASSUME NEW ws \in Seq(Text) PROVE ws \in Seq(Elements) /\ Only(ws, Keep) = <<>>
  BY <1>05, OnlyText, ElementFacts, SeqMonotonic
<1>1. ASSUME NEW e \in Ends, activate(e) PROVE Pair!Next \/ UNCHANGED Pair!vars
  <2>1. CASE /\ state_[e] = "inactive"
             /\ become(e, "activating")
             /\ write(e, <<local_positive(e)>>)
    <3>1. local_positive(e) \in Keep
      BY <1>03, VerbFacts
    <3>2. Pair!write(e, local_positive(e))
      BY <1>0, <1>04, <2>1, <3>1, MappedWrite
    <3>3. Pair!activate(e)
      BY <2>1, <3>2, PairFacts DEF Pair!activate
    <3>. QED BY <3>3, PairFacts DEF Pair!Next
  <2>2. CASE /\ write(e, handler_writes(e))
             /\ UNCHANGED state_
    <3>1. handler_writes(e) \in Seq(Text)
      BY <1>0, HandlerWrites
    <3>2. Mapped' = Mapped
      BY <1>0, <1>05, <2>2, <3>1, MappedWrite
    <3>. QED BY <1>02, <2>2, <3>2
  <2>. QED BY <1>1, <2>1, <2>2 DEF activate
<1>2. ASSUME NEW e \in Ends, deactivate(e) PROVE Pair!Next \/ UNCHANGED Pair!vars
  <2>1. CASE /\ state_[e] = "active"
             /\ become(e, "deactivating")
             /\ write(e, <<local_negative(e)>>)
    <3>1. local_negative(e) \in Keep
      BY <1>03, VerbFacts
    <3>2. Pair!write(e, local_negative(e))
      BY <1>0, <1>04, <2>1, <3>1, MappedWrite
    <3>3. Pair!deactivate(e)
      BY <2>1, <3>2, PairFacts DEF Pair!deactivate
    <3>. QED BY <3>3, PairFacts DEF Pair!Next
  <2>2. CASE /\ write(e, handler_writes(e))
             /\ UNCHANGED state_
    <3>1. handler_writes(e) \in Seq(Text)
      BY <1>0, HandlerWrites
    <3>2. Mapped' = Mapped
      BY <1>0, <1>05, <2>2, <3>1, MappedWrite
    <3>. QED BY <1>02, <2>2, <3>2
  <2>. QED BY <1>2, <2>1, <2>2 DEF deactivate
<1>3. ASSUME NEW e \in Ends, negotiate(e) PROVE Pair!Next \/ UNCHANGED Pair!vars
  <2>0. wire[e] # <<>>
    BY <1>3 DEF negotiate
  <2>1. ASSUME NEW verb \in negotiation_type, NEW s,
               Head(wire[e]) \in negotiation_type, NEW elems, elems \in Seq(Elements),
               Only(elems, Keep) = answer(e, verb), negotiate_to(e, s, elems)
        PROVE  /\ become(e, s)
               /\ Mapped[e] # <<>> /\ Head(Mapped[e]) = Head(wire[e])
               /\ \/ ~requesting(e) /\ Pair!read_and_write(e, verb)
                  \/ requesting(e) /\ Pair!read(e)
    <3>1. read_and_write(e, elems) /\ become(e, s) /\ verb \in Keep /\ Head(wire[e]) \in Keep
      BY <1>03, <2>1 DEF negotiate_to
    <3>2. Mapped[e] # <<>> /\ Head(Mapped[e]) = Head(wire[e])
      BY <1>0, <2>0, <3>1, MappedHead
    <3>3. CASE requesting(e)
      <4>1. Only(elems, Keep) = <<>>
        BY <2>1, <3>3 DEF answer
      <4>. QED BY <1>0, <2>0, <2>1, <3>1, <3>2, <3>3, <4>1, MappedReadAndWrite
    <3>4. CASE ~requesting(e)
      <4>1. Only(elems, Keep) = <<verb>>
        BY <2>1, <3>4 DEF answer
      <4>. QED BY <1>0, <2>0, <2>1, <3>1, <3>2, <3>4, <4>1, MappedReadAndWrite
    <3>. QED BY <3>3, <3>4
  <2>2. /\ local_positive(e) \in negotiation_type /\ local_negative(e) \in negotiation_type
        /\ remote_positive(e) \in negotiation_type /\ remote_negative(e) \in negotiation_type
    BY VerbFacts
  <2>3. CASE /\ Head(wire[e]) = remote_positive(e)
             /\ negotiate_to(e, "active",
                    answer(e, local_positive(e)) \o signal_writes(e, "active"))
    <3> DEFINE elems == answer(e, local_positive(e)) \o signal_writes(e, "active")
    <3>1. elems \in Seq(Elements) /\ Only(elems, Keep) = answer(e, local_positive(e))
      BY <1>0, <2>2, NegotiateWrites, OnlyAnswer
    <3> HIDE DEF elems
    <3>2. /\ become(e, "active")
          /\ Mapped[e] # <<>> /\ Head(Mapped[e]) = remote_positive(e)
          /\ \/ ~requesting(e) /\ Pair!read_and_write(e, local_positive(e))
             \/ requesting(e) /\ Pair!read(e)
      BY <2>1, <2>2, <2>3, <3>1 DEF elems
    <3>3. Pair!negotiate(e)
      BY <3>2, PairFacts DEF Pair!negotiate, Mapped
    <3>. QED BY <3>3, PairFacts DEF Pair!Next
  <2>4. CASE /\ Head(wire[e]) = remote_negative(e)
             /\ negotiate_to(e, "inactive",
                    signal_writes(e, "inactive") \o answer(e, local_negative(e)))
    <3> DEFINE elems == signal_writes(e, "inactive") \o answer(e, local_negative(e))
    <3>1. elems \in Seq(Elements) /\ Only(elems, Keep) = answer(e, local_negative(e))
      BY <1>0, <2>2, NegotiateWrites, OnlyAnswer
    <3> HIDE DEF elems
    <3>2. /\ become(e, "inactive")
          /\ Mapped[e] # <<>> /\ Head(Mapped[e]) = remote_negative(e)
          /\ \/ ~requesting(e) /\ Pair!read_and_write(e, local_negative(e))
             \/ requesting(e) /\ Pair!read(e)
      BY <2>1, <2>2, <2>4, <3>1 DEF elems
    <3>3. Pair!negotiate(e)
      BY <3>2, PairFacts DEF Pair!negotiate, Mapped
    <3>. QED BY <3>3, PairFacts DEF Pair!Next
  <2>. QED BY <1>3, <2>3, <2>4 DEF negotiate
<1>4. ASSUME start_compression PROVE Pair!Next \/ UNCHANGED Pair!vars
  <2>1. Pair!write("server", "sub")
    BY <1>0, <1>01, <1>03, <1>04, <1>4, MappedWrite DEF start_compression
  <2>2. Len(Mapped["client"]) < MaxWire
    <3>1. Mapped["client"] \in Seq(Keep) /\ wire["client"] \in Seq(Elements)
      BY <1>0, <1>01, MappedType
    <3>2. Len(Mapped["client"]) <= Len(wire["client"]) /\ Len(wire["client"]) < MaxWire
      BY <1>0, <1>01, <1>4, MappedType DEF start_compression
    <3>. QED BY <3>1, <3>2, MccpAssumption
  <2>3. Pair!write_subnegotiation("server")
    BY <1>01, <1>4, <2>1, <2>2, PairFacts
       DEF start_compression, Pair!write_subnegotiation, Mapped, active, Pair!active, Pair!Other
  <2>. QED BY <1>01, <2>3, PairFacts DEF Pair!Next
<1>5. ASSUME finish_compression PROVE Pair!Next \/ UNCHANGED Pair!vars
  <2>1. <<finish_output(compressor)>> \in Seq(Text)
    BY <1>0, <1>03, CodecWrites
  <2>2. Mapped' = Mapped
    BY <1>0, <1>01, <1>05, <1>5, <2>1, MappedWrite DEF finish_compression
  <2>. QED BY <1>02, <1>5, <2>2 DEF finish_compression
<1>6. ASSUME write_text PROVE Pair!Next \/ UNCHANGED Pair!vars
  <2>1. <<compress_output(compressor)>> \in Seq(Text)
    BY <1>0, <1>03, CodecWrites
  <2>2. Mapped' = Mapped
    BY <1>0, <1>01, <1>05, <1>6, <2>1, MappedWrite DEF write_text
  <2>. QED BY <1>02, <1>6, <2>2 DEF write_text
<1>7. ASSUME subnegotiate PROVE Pair!Next \/ UNCHANGED Pair!vars
  <2>1. /\ wire["client"] # <<>> /\ Head(wire["client"]) = "sub" /\ read("client")
        /\ UNCHANGED state_
    BY <1>7 DEF subnegotiate
  <2>2. Pair!read("client") /\ Mapped["client"] # <<>> /\ Head(Mapped["client"]) = "sub"
    BY <1>0, <1>01, <1>03, <2>1, MappedRead, MappedHead
  <2>3. Pair!subnegotiate("client")
    BY <2>1, <2>2 DEF Pair!subnegotiate, Mapped
  <2>. QED BY <1>01, <2>3, PairFacts DEF Pair!Next
<1>8. ASSUME read_text PROVE Pair!Next \/ UNCHANGED Pair!vars
  <2>1. Mapped' = Mapped
    BY <1>0, <1>01, <1>8, MappedRead DEF read_text
  <2>. QED BY <1>02, <1>8, <2>1 DEF read_text
<1>9. CASE UNCHANGED vars
  BY <1>9 DEF vars, Pair!vars, Negotiating
<1>. QED BY <1>1, <1>2, <1>3, <1>4, <1>5, <1>6, <1>7, <1>8, <1>9 DEF Next

\* Text and handlers make no difference to the negotiation.
THEOREM RefinementHolds == Spec => ImplementsOptionPair
BY TypeCorrect, InitImplements, NextImplements, PTL DEF Spec, ImplementsOptionPair, Pair!Spec

-------------------------------------------------------------------------------
(***************************************************************************)
(* What OptionPairProofs says of the pair beneath.                         *)
(***************************************************************************)
Proved == INSTANCE OptionPairProofs WITH
    wire <- [e \in Ends |-> Negotiating(e)], Unchecked <- {}

LEMMA SameAsPair ==
    /\ Pair!Init => Proved!Init
    /\ [Pair!Next]_(Pair!vars) => [Proved!Next]_(Proved!vars)
<1>1. Pair!Init => Proved!Init
  BY DEF Pair!Init, Proved!Init, Pair!Ends, Proved!Ends
<1>2. [Pair!Next]_(Pair!vars) => [Proved!Next]_(Proved!vars)
  BY DEF Pair!Next, Proved!Next, Pair!vars, Proved!vars, Pair!Ends, Proved!Ends,
      Pair!activate, Proved!activate, Pair!deactivate, Proved!deactivate,
      Pair!write_subnegotiation, Proved!write_subnegotiation, Pair!negotiate, Proved!negotiate,
      Pair!subnegotiate, Proved!subnegotiate, Pair!active, Proved!active,
      Pair!requesting, Proved!requesting, Pair!become, Proved!become,
      Pair!write, Proved!write, Pair!read, Proved!read,
      Pair!read_and_write, Proved!read_and_write, Pair!Other, Proved!Other,
      Pair!local_positive, Proved!local_positive, Pair!local_negative, Proved!local_negative,
      Pair!remote_positive, Proved!remote_positive, Pair!remote_negative, Proved!remote_negative
<1>. QED BY <1>1, <1>2

\* MccpAssumption is what OptionPairProofs assumes of its constants here.
LEMMA PairHolds == Spec => []Proved!Agreement /\ []Proved!ConformingPeer
<1>1. Proved!Spec => []Proved!Agreement
  BY MccpAssumption, Proved!AgreementHolds
<1>2. Proved!Spec => []Proved!ConformingPeer
  BY MccpAssumption, Proved!ConformingPeerHolds
<1>3. Init => Proved!Init
  BY InitImplements, SameAsPair
<1>4. TypeOK /\ [Next]_vars => [Proved!Next]_(Proved!vars)
  BY NextImplements, SameAsPair
<1>5. Spec => Proved!Spec
  BY <1>3, <1>4, TypeCorrect, PTL DEF Spec, Proved!Spec
<1>. QED BY <1>1, <1>2, <1>5, PTL

-------------------------------------------------------------------------------
(***************************************************************************)
(* The codecs.                                                             *)
(***************************************************************************)
\* A codec is what its two fields are.
LEMMA CodecsSame ==
  ASSUME NEW c \in codec, NEW d \in codec, c.engaged_ = d.engaged_, c.stream_ = d.stream_
  PROVE c = d
BY DEF codec

LEMMA StartIs ==
    ASSUME NEW t \in {"none", "open", "corrupted"}
    PROVE  /\ start([engaged_ |-> FALSE, stream_ |-> t]) = [engaged_ |-> TRUE, stream_ |-> t]
           /\ start([engaged_ |-> TRUE, stream_ |-> t]) = [engaged_ |-> TRUE, stream_ |-> t]
<1>1. ASSUME NEW c \in codec, c.stream_ = t PROVE start(c) = [engaged_ |-> TRUE, stream_ |-> t]
  <2> DEFINE d == [engaged_ |-> TRUE, stream_ |-> t]
  <2>1. d \in codec /\ d.engaged_ = TRUE /\ d.stream_ = t
    BY DEF codec
  <2>2. start(c) \in codec /\ start(c).engaged_ = TRUE /\ start(c).stream_ = t
    BY <1>1 DEF codec, start
  <2> HIDE DEF d
  <2>3. start(c) = d
    BY <2>1, <2>2, CodecsSame
  <2>. QED BY <2>3 DEF d
<1>2. [engaged_ |-> FALSE, stream_ |-> t] \in codec /\ [engaged_ |-> TRUE, stream_ |-> t] \in codec
  BY DEF codec
<1>. QED BY <1>1, <1>2

LEMMA CompressIs ==
    ASSUME NEW t \in {"none", "open", "corrupted"}
    PROVE  /\ compress([engaged_ |-> FALSE, stream_ |-> t]) = [engaged_ |-> FALSE, stream_ |-> t]
           /\ compress([engaged_ |-> TRUE, stream_ |-> t]) = [engaged_ |-> TRUE, stream_ |-> "open"]
BY DEF compress
Fresh == start(Idle)
Open == compress(start(Idle))

\* The three modes one by one: a codec that is off, one that has been started,
\* and one that is inside a stream.
LEMMA ModeIdle ==
    /\ Idle = [engaged_ |-> FALSE, stream_ |-> "none"]
    /\ start(Idle) = Fresh /\ compress(Idle) = Idle
    /\ compress_output(Idle) = "plain" /\ finish_output(Idle) = "empty"
    /\ \A text : decompress(Idle, text) = Idle
    /\ understands(Idle, "plain")
BY DEF Idle, Fresh, start, compress, compress_output, finish_output, decompress, understands

LEMMA ModeFresh ==
    /\ Fresh = [engaged_ |-> TRUE, stream_ |-> "none"]
    /\ start(Fresh) = Fresh /\ compress(Fresh) = Open
    /\ compress_output(Fresh) = "begin" /\ finish_output(Fresh) = "empty"
    /\ understands(Fresh, "begin") /\ understands(Fresh, "empty")
    /\ decompress(Fresh, "begin") = Open /\ decompress(Fresh, "empty") = Idle
<1>1. Fresh = [engaged_ |-> TRUE, stream_ |-> "none"]
  BY StartIs DEF Fresh, Idle
<1>2. Open = [engaged_ |-> TRUE, stream_ |-> "open"]
  BY <1>1, CompressIs DEF Open, Fresh
<1>3. start(Fresh) = Fresh /\ compress(Fresh) = Open
  BY <1>1, <1>2, StartIs, CompressIs
<1>4. understands(Fresh, "begin") /\ understands(Fresh, "empty")
  BY <1>1 DEF understands
<1>5. decompress(Fresh, "begin") = Open
  BY <1>1, <1>2, <1>4 DEF decompress
<1>6. decompress(Fresh, "empty") = Idle
  BY <1>1, <1>4 DEF decompress
<1>. QED BY <1>1, <1>3, <1>4, <1>5, <1>6 DEF compress_output, finish_output

LEMMA ModeOpen ==
    /\ Open = [engaged_ |-> TRUE, stream_ |-> "open"]
    /\ start(Open) = Open /\ compress(Open) = Open
    /\ compress_output(Open) = "more" /\ finish_output(Open) = "end"
    /\ understands(Open, "more") /\ understands(Open, "end")
    /\ decompress(Open, "more") = Open /\ decompress(Open, "end") = Idle
<1>1. Open = [engaged_ |-> TRUE, stream_ |-> "open"]
  BY ModeFresh, CompressIs DEF Open, Fresh
<1>2. start(Open) = Open /\ compress(Open) = Open
  BY <1>1, StartIs, CompressIs
<1>3. understands(Open, "more") /\ understands(Open, "end")
  BY <1>1 DEF understands
<1>4. decompress(Open, "more") = Open
  BY <1>1, <1>3 DEF decompress
<1>5. decompress(Open, "end") = Idle
  BY <1>1, <1>3 DEF decompress
<1>. QED BY <1>1, <1>2, <1>3, <1>4, <1>5 DEF compress_output, finish_output

LEMMA ModesAre == Modes = {Idle, Fresh, Open}
BY DEF Modes, Fresh, Open

LEMMA ModeFacts ==
    ASSUME NEW m \in Modes
    PROVE  /\ m \in codec /\ m.stream_ # "corrupted"
           /\ Idle \in Modes /\ start(m) \in Modes /\ compress(m) \in Modes
           /\ ~m.engaged_ => m = Idle
           /\ m.engaged_ => start(m) = m
<1>1. CASE m = Idle
  BY <1>1, ModesAre, ModeIdle DEF codec
<1>2. CASE m = Fresh
  BY <1>2, ModesAre, ModeFresh DEF codec
<1>3. CASE m = Open
  BY <1>3, ModesAre, ModeOpen DEF codec
<1>. QED BY <1>1, <1>2, <1>3, ModesAre

\* A decompressor that is where the compressor was understands what the
\* compressor wrote, and comes to where the compressor came.
LEMMA WritesFacts ==
    ASSUME NEW before \in Modes, NEW after, NEW elem, Writes(before, elem, after)
    PROVE  /\ elem \in Text => understands(before, elem) /\ decompress(before, elem) = after
           /\ elem = "sub" => after = start(before)
           /\ elem \in negotiation_type => after = before
           /\ elem = "will" => before = Idle
<1>1. CASE elem = "will" /\ before = Idle /\ after = Idle
  BY <1>1, ElementFacts DEF negotiation_type
<1>2. CASE elem \in negotiation_type \ {"will"} /\ after = before
  BY <1>2, ElementFacts
<1>3. CASE elem = "sub" /\ after = start(before)
  BY <1>3, ElementFacts DEF negotiation_type
<1>4. CASE elem = compress_output(before) /\ after = compress(before)
  <2>1. elem \in Text
    BY <1>4, ModeFacts, CodecWrites
  <2>2. understands(before, elem) /\ decompress(before, elem) = after
    BY <1>4, ModesAre, ModeIdle, ModeFresh, ModeOpen
  <2>. QED BY <2>1, <2>2, ElementFacts DEF negotiation_type
<1>5. CASE elem = finish_output(before) /\ before.engaged_ /\ after = Idle
  <2>1. elem \in Text
    BY <1>5, ModeFacts, CodecWrites
  <2>2. before = Fresh \/ before = Open
    BY <1>5, ModesAre, IdleFacts
  <2>3. understands(before, elem) /\ decompress(before, elem) = after
    BY <1>5, <2>2, ModeFresh, ModeOpen
  <2>. QED BY <2>1, <2>3, ElementFacts DEF negotiation_type
<1>. QED BY <1>1, <1>2, <1>3, <1>4, <1>5 DEF Writes

LEMMA LeadsNowhere ==
    ASSUME NEW m \in Modes
    PROVE  Leads(<<>>, m, m)
<1> DEFINE passed == [i \in 0..0 |-> m]
<1>1. Len(<<>>) = 0 /\ 1..0 = {}
  OBVIOUS
<1>2. passed \in [0..0 -> Modes] /\ passed[0] = m
  OBVIOUS
<1>. QED BY <1>1, <1>2 DEF Leads

LEMMA LeadsOne ==
    ASSUME NEW m \in Modes, NEW n \in Modes, NEW x, Writes(m, x, n)
    PROVE  Leads(<<x>>, m, n)
<1> DEFINE passed == [i \in 0..1 |-> IF i = 0 THEN m ELSE n]
<1>1. Len(<<x>>) = 1 /\ 1..1 = {1} /\ <<x>>[1] = x /\ 1 - 1 = 0
  OBVIOUS
<1>2. passed \in [0..1 -> Modes] /\ passed[0] = m /\ passed[1] = n
  OBVIOUS
<1> HIDE DEF passed
<1>. QED BY <1>1, <1>2 DEF Leads

\* What is written behind what is on the wire.
LEMMA LeadsOn ==
    ASSUME NEW S, NEW w \in Seq(S), NEW v \in Seq(S), NEW a, NEW b, NEW c,
           Leads(w, a, b), Leads(v, b, c)
    PROVE  Leads(w \o v, a, c)
<1>1. PICK p \in [0..Len(w) -> Modes] :
          p[0] = a /\ p[Len(w)] = b /\ \A i \in 1..Len(w) : Writes(p[i - 1], w[i], p[i])
  BY DEF Leads
<1>2. PICK q \in [0..Len(v) -> Modes] :
          q[0] = b /\ q[Len(v)] = c /\ \A i \in 1..Len(v) : Writes(q[i - 1], v[i], q[i])
  BY DEF Leads
<1> DEFINE k == Len(w)
           l == Len(v)
           r == [i \in 0..(k + l) |-> IF i <= k THEN p[i] ELSE q[i - k]]
<1>3. /\ k \in Nat /\ l \in Nat /\ Len(w \o v) = k + l
      /\ \A i \in 1..k : (w \o v)[i] = w[i]
      /\ \A i \in (k + 1)..(k + l) : (w \o v)[i] = v[i - k]
  BY ConcatProperties
<1> HIDE DEF k, l
<1>4. \A i \in 0..(k + l) : /\ i <= k => i \in 0..k
                            /\ ~(i <= k) => i - k \in 0..l
  BY <1>3, SMT
<1>5. r \in [0..(k + l) -> Modes]
  BY <1>1, <1>2, <1>4 DEF k, l
<1>6. r[0] = a
  BY <1>1, <1>3
<1>7. r[k + l] = c
  <2>1. CASE l = 0
    BY <1>1, <1>2, <1>3, <2>1 DEF k, l
  <2>2. CASE l # 0
    <3>1. k + l \in 0..(k + l) /\ ~(k + l <= k) /\ (k + l) - k = l
      BY <1>3, <2>2, SMT
    <3>. QED BY <1>2, <3>1 DEF l
  <2>. QED BY <2>1, <2>2
<1>8. ASSUME NEW i \in 1..(k + l) PROVE Writes(r[i - 1], (w \o v)[i], r[i])
  <2>0. i \in 0..(k + l) /\ i - 1 \in 0..(k + l)
    BY <1>3, SMT
  <2>1. CASE i <= k
    <3>1. i \in 1..k /\ i - 1 <= k
      BY <1>3, <2>1, SMT
    <3>. QED BY <1>1, <1>3, <2>0, <2>1, <3>1 DEF k
  <2>2. CASE ~(i <= k) /\ i - 1 <= k
    <3>1. i - 1 = k /\ i \in (k + 1)..(k + l) /\ i - k = 1 /\ 1 \in 1..l /\ 1 - 1 = 0
      BY <1>3, <2>2, SMT
    <3>2. r[i - 1] = b
      BY <1>1, <2>0, <2>2, <3>1 DEF k
    <3>3. r[i] = q[1] /\ (w \o v)[i] = v[1]
      BY <1>3, <2>0, <2>2, <3>1
    <3>4. Writes(q[0], v[1], q[1])
      BY <1>2, <3>1 DEF l
    <3>. QED BY <1>2, <3>2, <3>3, <3>4
  <2>3. CASE ~(i - 1 <= k)
    <3>1. /\ ~(i <= k) /\ i \in (k + 1)..(k + l) /\ i - k \in 1..l
          /\ (i - 1) - k = (i - k) - 1
      BY <1>3, <2>3, SMT
    <3>2. r[i - 1] = q[(i - k) - 1] /\ r[i] = q[i - k] /\ (w \o v)[i] = v[i - k]
      BY <1>3, <2>0, <2>3, <3>1
    <3>. QED BY <1>2, <3>1, <3>2 DEF l
  <2>. QED BY <2>1, <2>2, <2>3, <1>3, SMT
<1> HIDE DEF r
<1>. QED BY <1>3, <1>5, <1>6, <1>7, <1>8 DEF Leads

\* What is read in front.
LEMMA LeadsFrom ==
    ASSUME NEW S, NEW w \in Seq(S), w # <<>>, NEW a, NEW c, Leads(w, a, c)
    PROVE  \E b \in Modes : a \in Modes /\ Writes(a, Head(w), b) /\ Leads(Tail(w), b, c)
<1>1. PICK p \in [0..Len(w) -> Modes] :
          p[0] = a /\ p[Len(w)] = c /\ \A i \in 1..Len(w) : Writes(p[i - 1], w[i], p[i])
  BY DEF Leads
<1> DEFINE n == Len(Tail(w))
           q == [i \in 0..n |-> p[i + 1]]
<1>2. /\ n \in Nat /\ Len(w) = n + 1 /\ w[1] = Head(w)
      /\ \A i \in 1..n : Tail(w)[i] = w[i + 1]
  OBVIOUS
<1> HIDE DEF n
<1>3. \A i \in 0..n : i + 1 \in 0..(n + 1) /\ i + 1 \in 1..(n + 1)
  BY <1>2, SMT
<1>4. q \in [0..n -> Modes]
  BY <1>1, <1>2, <1>3
<1>5. q[n] = c /\ q[0] = p[1]
  BY <1>1, <1>2, <1>3
<1>6. ASSUME NEW i \in 1..n PROVE Writes(q[i - 1], Tail(w)[i], q[i])
  <2>1. /\ i \in 0..n /\ i - 1 \in 0..n /\ (i - 1) + 1 = i /\ (i + 1) - 1 = i
        /\ i + 1 \in 1..(n + 1)
    BY <1>2, SMT
  <2>2. q[i - 1] = p[i] /\ q[i] = p[i + 1] /\ Tail(w)[i] = w[i + 1]
    BY <1>2, <2>1
  <2>. QED BY <1>1, <1>2, <2>1, <2>2
<1>7. Leads(Tail(w), q[0], c)
  <2> HIDE DEF q
  <2>. QED BY <1>4, <1>5, <1>6 DEF Leads, n
<1>8. /\ 1 \in 1..(n + 1) /\ 1 - 1 = 0 /\ 0 \in 0..(n + 1) /\ 1 \in 0..(n + 1)
  BY <1>2, SMT
<1>9. Writes(p[0], Head(w), p[1]) /\ p[0] \in Modes /\ p[1] \in Modes
  BY <1>1, <1>2, <1>8
<1>. QED BY <1>1, <1>5, <1>7, <1>9

LEMMA LeadsNone ==
    ASSUME NEW a, NEW c, Leads(<<>>, a, c)
    PROVE  a = c
<1>1. Len(<<>>) = 0
  OBVIOUS
<1>. QED BY <1>1 DEF Leads

-------------------------------------------------------------------------------
\* The server is never asked for the option while it has it, so that WILL is
\* only ever written with the codec off.
LEMMA ServerHears ==
    ASSUME TypeOK, Proved!ConformingPeer, wire["server"] # <<>>,
           Head(wire["server"]) = remote_positive("server")
    PROVE  state_["server"] \in {"inactive", "activating"}
<1>1. "server" \in Ends /\ "server" \in Proved!Ends
  BY DEF Ends, Proved!Ends
<1>2. Head(wire["server"]) \in Keep
  BY <1>1, VerbFacts DEF Keep
<1>3. Mapped["server"] # <<>> /\ Head(Mapped["server"]) = remote_positive("server")
  BY <1>1, <1>2, TypeUnfolded, MappedHead
<1>4. Proved!remote_positive("server") = remote_positive("server")
  BY <1>1, VerbFacts DEF Proved!remote_positive
<1>. QED BY <1>1, <1>3, <1>4 DEF Proved!ConformingPeer, Mapped

LEMMA ServerOff ==
    ASSUME TypeOK, compressor \in Modes, state_["server"] \in {"inactive", "activating"}
    PROVE  compressor = Idle /\ ~compression_active_
<1>1. ~compression_active_
  BY TypeUnfolded
<1>2. ~compressor.engaged_
  BY <1>1, TypeUnfolded
<1>. QED BY <1>1, <1>2, ModeFacts

\* What the server writes leads on from where its codec was.
LEMMA ServerWrites ==
    ASSUME TypeOK, CodecsFollow, NEW elems \in Seq(Elements),
           wire'["client"] = wire["client"] \o elems,
           state_'["client"] = state_["client"], decompressor' = decompressor,
           compressor' \in Modes, Leads(elems, compressor, compressor')
    PROVE  CodecsFollow'
<1>1. wire["client"] \in Seq(Elements)
  BY TypeUnfolded DEF Ends
<1>2. PICK mode \in Modes : Leads(wire["client"], mode, compressor) /\ Follows(mode)
  BY DEF CodecsFollow
<1>3. Leads(wire'["client"], mode, compressor')
  BY <1>1, <1>2, LeadsOn
<1>4. Follows(mode)'
  BY <1>2 DEF Follows
<1>. QED BY <1>3, <1>4 DEF CodecsFollow

\* What the server's handler writes.
LEMMA SignalWrites ==
    ASSUME TypeOK, compressor \in Modes, NEW s, on_state_changed("server", s)
    PROVE  /\ Leads(handler_writes("server"), compressor, compressor')
           /\ compressor' \in Modes /\ decompressor' = decompressor
<1>1. CASE compression_active_
  <2>1. /\ handler_writes("server") = <<finish_output(compressor)>>
        /\ compressor' = Idle /\ decompressor' = decompressor
    BY <1>1 DEF handler_writes, on_state_changed
  <2>2. compressor.engaged_
    BY <1>1, TypeUnfolded
  <2>3. Writes(compressor, finish_output(compressor), Idle) /\ Idle \in Modes
    BY <2>2, ModesAre DEF Writes
  <2>. QED BY <2>1, <2>3, LeadsOne
<1>2. CASE ~compression_active_
  <2>1. /\ handler_writes("server") = <<>>
        /\ compressor' = compressor /\ decompressor' = decompressor
    BY <1>2 DEF handler_writes, on_state_changed
  <2>. QED BY <2>1, LeadsNowhere
<1>. QED BY <1>1, <1>2

\* What the client reads is written in the mode its decompressor is to be in.
LEMMA ClientReads ==
    ASSUME TypeOK, CodecsFollow, wire["client"] # <<>>,
           wire'["client"] = Tail(wire["client"]), compressor' = compressor,
           \A mode, after \in Modes :
               Follows(mode) /\ Writes(mode, Head(wire["client"]), after) => Follows(after)'
    PROVE  CodecsFollow'
<1>1. wire["client"] \in Seq(Elements)
  BY TypeUnfolded DEF Ends
<1>2. PICK mode \in Modes : Leads(wire["client"], mode, compressor) /\ Follows(mode)
  BY DEF CodecsFollow
<1>3. PICK after \in Modes : /\ Writes(mode, Head(wire["client"]), after)
                             /\ Leads(Tail(wire["client"]), after, compressor)
  BY <1>1, <1>2, LeadsFrom
<1>4. Leads(wire'["client"], after, compressor') /\ Follows(after)'
  BY <1>2, <1>3
<1>5. compressor' \in Modes
  BY DEF CodecsFollow
<1>. QED BY <1>4, <1>5 DEF CodecsFollow

\* What the client does by itself.
LEMMA ClientStays ==
    ASSUME TypeOK, CodecsFollow,
           wire'["client"] = wire["client"], compressor' = compressor,
           \A mode \in Modes : Follows(mode) => Follows(mode)'
    PROVE  CodecsFollow'
BY DEF CodecsFollow

LEMMA InitCodecs == Init => CodecsFollow
<1> SUFFICES ASSUME Init PROVE CodecsFollow
  OBVIOUS
<1>1. Idle \in Modes /\ Leads(<<>>, Idle, Idle)
  BY ModesAre, LeadsNowhere
<1>2. wire["client"] = <<>> /\ state_["client"] = "inactive" /\ compressor = Idle /\ decompressor = Idle
  BY DEF Init, Ends
<1>3. Follows(Idle)
  BY <1>2 DEF Follows
<1>. QED BY <1>1, <1>2, <1>3 DEF CodecsFollow

\* The steps of the server: each writes what leads its codec to where it goes.
LEMMA ServerCodecs ==
    ASSUME TypeOK, CodecsFollow, Proved!ConformingPeer,
           \/ activate("server") \/ deactivate("server") \/ negotiate("server")
           \/ start_compression \/ finish_compression \/ write_text
    PROVE  CodecsFollow'
<1>1. /\ wire \in [Ends -> Seq(Elements)] /\ compressor \in codec
      /\ state_ \in [Ends -> internal_state]
  BY TypeUnfolded
<1>2. /\ "server" \in Ends /\ "client" \in Ends /\ "server" # "client"
      /\ Other("server") = "client" /\ Other("client") = "server"
  BY DEF Ends, Other
<1>3. compressor \in Modes
  BY DEF CodecsFollow
<1>4. handler_writes("server") \in Seq(Elements)
  BY <1>1, <1>2, HandlerWrites, ElementFacts, SeqMonotonic
<1>5. \A verb \in negotiation_type \ {"will"} : Leads(<<verb>>, compressor, compressor)
  BY <1>3, LeadsOne DEF Writes
<1>6. ASSUME compressor = Idle PROVE Leads(<<"will">>, compressor, compressor)
  BY <1>3, <1>6, LeadsOne DEF Writes
<1>7. \A x \in Elements : <<x>> \in Seq(Elements)
  OBVIOUS
<1>8. /\ local_positive("server") = "will" /\ local_negative("server") = "wont"
      /\ "will" \in Elements /\ "wont" \in Elements /\ "sub" \in Elements
      /\ "wont" \in negotiation_type \ {"will"}
      /\ <<"will">> \in Seq(Elements) /\ <<"wont">> \in Seq(Elements) /\ <<"sub">> \in Seq(Elements)
  BY <1>7, VerbFacts, ElementFacts DEF Ends, negotiation_type
<1>9. /\ finish_output(compressor) \in Elements /\ compress_output(compressor) \in Elements
  BY <1>1, CodecWrites, ElementFacts
<1> HIDE DEF Elements
<1>10. CASE activate("server")
  <2>1. CASE /\ state_["server"] = "inactive"
             /\ become("server", "activating")
             /\ write("server", <<local_positive("server")>>)
             /\ UNCHANGED codecs
    <3>1. wire'["client"] = wire["client"] \o <<"will">>
      BY <1>1, <1>2, <1>8, <2>1, WriteFacts
    <3>2. compressor' = compressor /\ decompressor' = decompressor
      BY <2>1 DEF codecs
    <3>3. state_'["client"] = state_["client"]
      BY <1>1, <1>2, <2>1 DEF become
    <3>4. Leads(<<"will">>, compressor, compressor)
      BY <1>3, <1>6, <2>1, ServerOff
    <3>. QED BY <1>3, <1>8, <3>1, <3>2, <3>3, <3>4, ServerWrites
  <2>2. CASE /\ state_["server"] = "active"
             /\ write("server", handler_writes("server"))
             /\ on_state_changed("server", "active")
             /\ UNCHANGED state_
    <3>1. wire'["client"] = wire["client"] \o handler_writes("server")
      BY <1>1, <1>2, <1>4, <2>2, WriteFacts
    <3>2. /\ Leads(handler_writes("server"), compressor, compressor')
          /\ compressor' \in Modes /\ decompressor' = decompressor
      BY <1>3, <2>2, SignalWrites
    <3>. QED BY <1>4, <2>2, <3>1, <3>2, ServerWrites
  <2>. QED BY <1>10, <2>1, <2>2 DEF activate
<1>11. CASE deactivate("server")
  <2>1. CASE /\ state_["server"] = "active"
             /\ become("server", "deactivating")
             /\ write("server", <<local_negative("server")>>)
             /\ UNCHANGED codecs
    <3>1. wire'["client"] = wire["client"] \o <<"wont">>
      BY <1>1, <1>2, <1>8, <2>1, WriteFacts
    <3>2. compressor' = compressor /\ decompressor' = decompressor
      BY <2>1 DEF codecs
    <3>3. state_'["client"] = state_["client"]
      BY <1>1, <1>2, <2>1 DEF become
    <3>4. Leads(<<"wont">>, compressor, compressor)
      BY <1>5, <1>8
    <3>. QED BY <1>3, <1>8, <3>1, <3>2, <3>3, <3>4, ServerWrites
  <2>2. CASE /\ state_["server"] = "inactive"
             /\ write("server", handler_writes("server"))
             /\ on_state_changed("server", "inactive")
             /\ UNCHANGED state_
    <3>1. wire'["client"] = wire["client"] \o handler_writes("server")
      BY <1>1, <1>2, <1>4, <2>2, WriteFacts
    <3>2. /\ Leads(handler_writes("server"), compressor, compressor')
          /\ compressor' \in Modes /\ decompressor' = decompressor
      BY <1>3, <2>2, SignalWrites
    <3>. QED BY <1>4, <2>2, <3>1, <3>2, ServerWrites
  <2>. QED BY <1>11, <2>1, <2>2 DEF deactivate
<1>12. CASE negotiate("server")
  <2>0. wire["server"] # <<>>
    BY <1>12 DEF negotiate
  <2>1. ASSUME NEW s, NEW elems, elems \in Seq(Elements), negotiate_to("server", s, elems)
        PROVE  /\ wire'["client"] = wire["client"] \o elems
               /\ state_'["client"] = state_["client"]
    <3>1. read_and_write("server", elems) /\ become("server", s)
      BY <2>1 DEF negotiate_to
    <3>. QED BY <1>1, <1>2, <2>0, <2>1, <3>1, ReadAndWriteFacts DEF become
  <2>2. ASSUME NEW s, NEW elems, negotiate_to("server", s, elems)
        PROVE  /\ Leads(signal_writes("server", s), compressor, compressor')
               /\ compressor' \in Modes /\ decompressor' = decompressor
    <3>1. CASE state_["server"] = s
      <4>1. compressor' = compressor /\ decompressor' = decompressor /\ signal_writes("server", s) = <<>>
        BY <2>2, <3>1 DEF negotiate_to, codecs, signal_writes
      <4>. QED BY <1>3, <4>1, LeadsNowhere
    <3>2. CASE state_["server"] # s
      <4>1. on_state_changed("server", s) /\ signal_writes("server", s) = handler_writes("server")
        BY <2>2, <3>2 DEF negotiate_to, signal_writes
      <4>. QED BY <1>3, <4>1, SignalWrites
    <3>. QED BY <3>1, <3>2
  <2>3. \A s : signal_writes("server", s) \in Seq(Elements)
    BY <1>1, <1>2, <1>8, NegotiateWrites DEF negotiation_type
  <2>4. /\ answer("server", "will") \in {<<>>, <<"will">>}
        /\ answer("server", "wont") \in {<<>>, <<"wont">>}
        /\ answer("server", "will") \in Seq(Elements) /\ answer("server", "wont") \in Seq(Elements)
    BY <1>1, <1>2, NegotiateWrites DEF negotiation_type
  <2>5. CASE /\ Head(wire["server"]) = remote_positive("server")
             /\ negotiate_to("server", "active",
                    answer("server", "will") \o signal_writes("server", "active"))
    <3>1. compressor = Idle
      BY <1>3, <2>0, <2>5, ServerHears, ServerOff
    <3>2. Leads(answer("server", "will"), compressor, compressor)
      BY <1>3, <1>6, <2>4, <3>1, LeadsNowhere
    <3> DEFINE elems == answer("server", "will") \o signal_writes("server", "active")
    <3>3. /\ Leads(signal_writes("server", "active"), compressor, compressor')
          /\ compressor' \in Modes /\ decompressor' = decompressor
      BY <2>2, <2>5
    <3>4. elems \in Seq(Elements) /\ Leads(elems, compressor, compressor')
      BY <2>3, <2>4, <3>2, <3>3, LeadsOn
    <3> HIDE DEF elems
    <3>5. wire'["client"] = wire["client"] \o elems /\ state_'["client"] = state_["client"]
      BY <2>1, <2>5, <3>4 DEF elems
    <3>. QED BY <3>3, <3>4, <3>5, ServerWrites
  <2>6. CASE /\ Head(wire["server"]) = remote_negative("server")
             /\ negotiate_to("server", "inactive",
                    signal_writes("server", "inactive") \o answer("server", "wont"))
    <3> DEFINE elems == signal_writes("server", "inactive") \o answer("server", "wont")
    <3>1. /\ Leads(signal_writes("server", "inactive"), compressor, compressor')
          /\ compressor' \in Modes /\ decompressor' = decompressor
      BY <2>2, <2>6
    <3>2. Leads(answer("server", "wont"), compressor', compressor')
      <4>1. Writes(compressor', "wont", compressor')
        BY <1>8 DEF Writes
      <4>. QED BY <2>4, <3>1, <4>1, LeadsNowhere, LeadsOne
    <3>3. elems \in Seq(Elements) /\ Leads(elems, compressor, compressor')
      BY <2>3, <2>4, <3>1, <3>2, LeadsOn
    <3> HIDE DEF elems
    <3>4. wire'["client"] = wire["client"] \o elems /\ state_'["client"] = state_["client"]
      BY <2>1, <2>6, <3>3 DEF elems
    <3>. QED BY <3>1, <3>3, <3>4, ServerWrites
  <2>. QED BY <1>8, <1>12, <2>5, <2>6 DEF negotiate
<1>13. CASE start_compression
  <2>1. wire'["client"] = wire["client"] \o <<"sub">>
    BY <1>1, <1>2, <1>8, <1>13, WriteFacts DEF start_compression
  <2>2. Leads(<<"sub">>, compressor, compressor') /\ compressor' \in Modes
    BY <1>3, <1>13, ModeFacts, LeadsOne DEF start_compression, Writes
  <2>. QED BY <1>8, <1>13, <2>1, <2>2, ServerWrites DEF start_compression
<1>14. CASE finish_compression
  <2>1. wire'["client"] = wire["client"] \o <<finish_output(compressor)>>
    BY <1>1, <1>2, <1>7, <1>9, <1>14, WriteFacts, ZenonT(40) DEF finish_compression
  <2>2. compressor.engaged_
    BY <1>14, TypeUnfolded DEF finish_compression
  <2>3. Writes(compressor, finish_output(compressor), Idle) /\ compressor' = Idle /\ Idle \in Modes
    BY <1>14, <2>2, ModesAre DEF finish_compression, Writes
  <2>4. Leads(<<finish_output(compressor)>>, compressor, compressor')
    BY <1>3, <2>3, LeadsOne
  <2>. QED BY <1>7, <1>9, <1>14, <2>1, <2>3, <2>4, ServerWrites DEF finish_compression
<1>15. CASE write_text
  <2>1. wire'["client"] = wire["client"] \o <<compress_output(compressor)>>
    BY <1>1, <1>2, <1>7, <1>9, <1>15, WriteFacts, ZenonT(40) DEF write_text
  <2>2. Writes(compressor, compress_output(compressor), compressor') /\ compressor' \in Modes
    BY <1>3, <1>15, ModeFacts DEF write_text, Writes
  <2>3. Leads(<<compress_output(compressor)>>, compressor, compressor')
    BY <1>3, <2>2, LeadsOne
  <2>. QED BY <1>7, <1>9, <1>15, <2>1, <2>2, <2>3, ServerWrites DEF write_text
<1>. QED BY <1>10, <1>11, <1>12, <1>13, <1>14, <1>15

\* The steps of the client: its codec goes where the server's went, or is off.
LEMMA ClientCodecs ==
    ASSUME TypeOK, CodecsFollow,
           \/ activate("client") \/ deactivate("client") \/ negotiate("client")
           \/ subnegotiate \/ read_text
    PROVE  CodecsFollow'
<1>1. /\ wire \in [Ends -> Seq(Elements)] /\ compressor \in codec
      /\ state_ \in [Ends -> internal_state] /\ state_["client"] \in internal_state
  BY TypeUnfolded DEF Ends
<1>2. /\ "server" \in Ends /\ "client" \in Ends /\ "server" # "client"
      /\ Other("server") = "client" /\ Other("client") = "server"
  BY DEF Ends, Other
<1>3. \A e \in Ends : local_positive(e) \in negotiation_type /\ local_negative(e) \in negotiation_type
  BY VerbFacts
<1>4. \A x \in Elements : <<x>> \in Seq(Elements)
  OBVIOUS
<1>5. \A e \in Ends : /\ <<local_positive(e)>> \in Seq(Elements)
                      /\ <<local_negative(e)>> \in Seq(Elements)
                      /\ handler_writes("client") = <<>> /\ <<>> \in Seq(Elements)
  BY <1>1, <1>3, <1>4, ElementFacts, HandlerWrites, EmptySeq
<1>6. \A m \in Modes : \A text : Idle \in Modes /\ decompress(Idle, text) = Idle
  BY ModesAre, ModeIdle
<1>7. state_["client"] \in {"inactive", "activating", "active", "deactivating"}
  BY <1>1 DEF internal_state
<1> HIDE DEF Elements
<1>10. CASE activate("client")
  <2>1. CASE /\ state_["client"] = "inactive"
             /\ become("client", "activating")
             /\ write("client", <<local_positive("client")>>)
             /\ UNCHANGED codecs
    <3>1. wire'["client"] = wire["client"]
      BY <1>1, <1>2, <1>5, <2>1, WriteFacts
    <3>2. state_'["client"] = "activating" /\ decompressor' = decompressor /\ compressor' = compressor
      BY <1>1, <1>2, <2>1 DEF become, codecs
    <3>3. \A mode \in Modes : Follows(mode) => Follows(mode)'
      BY <2>1, <3>2 DEF Follows
    <3>. QED BY <3>1, <3>2, <3>3, ClientStays
  <2>2. CASE /\ state_["client"] = "active"
             /\ write("client", handler_writes("client"))
             /\ on_state_changed("client", "active")
             /\ UNCHANGED state_
    <3>1. wire'["client"] = wire["client"]
      BY <1>1, <1>2, <1>5, <2>2, WriteFacts
    <3>2. decompressor' = decompressor /\ compressor' = compressor
      BY <2>2 DEF on_state_changed
    <3>3. \A mode \in Modes : Follows(mode) => Follows(mode)'
      BY <2>2, <3>2 DEF Follows
    <3>. QED BY <3>1, <3>2, <3>3, ClientStays
  <2>. QED BY <1>10, <2>1, <2>2 DEF activate
<1>11. CASE deactivate("client")
  <2>1. CASE /\ state_["client"] = "active"
             /\ become("client", "deactivating")
             /\ write("client", <<local_negative("client")>>)
             /\ UNCHANGED codecs
    <3>1. wire'["client"] = wire["client"]
      BY <1>1, <1>2, <1>5, <2>1, WriteFacts
    <3>2. state_'["client"] = "deactivating" /\ decompressor' = decompressor /\ compressor' = compressor
      BY <1>1, <1>2, <2>1 DEF become, codecs
    <3>3. \A mode \in Modes : Follows(mode) => Follows(mode)'
      BY <2>1, <3>2 DEF Follows
    <3>. QED BY <3>1, <3>2, <3>3, ClientStays
  <2>2. CASE /\ state_["client"] = "inactive"
             /\ write("client", handler_writes("client"))
             /\ on_state_changed("client", "inactive")
             /\ UNCHANGED state_
    <3>1. wire'["client"] = wire["client"]
      BY <1>1, <1>2, <1>5, <2>2, WriteFacts
    <3>2. decompressor' = Idle /\ compressor' = compressor
      BY <2>2 DEF on_state_changed
    <3>3. \A mode \in Modes : Follows(mode) => Follows(mode)'
      BY <2>2, <3>2 DEF Follows
    <3>. QED BY <3>1, <3>2, <3>3, ClientStays
  <2>. QED BY <1>11, <2>1, <2>2 DEF deactivate
<1>12. CASE negotiate("client")
  <2>0. wire["client"] # <<>>
    BY <1>12 DEF negotiate
  <2>1. ASSUME NEW s, NEW elems, elems \in Seq(Elements), negotiate_to("client", s, elems)
        PROVE  /\ wire'["client"] = Tail(wire["client"])
               /\ state_'["client"] = s /\ compressor' = compressor
               /\ decompressor' \in {decompressor, Idle}
               /\ s = "active" \/ s = state_["client"] => decompressor' = decompressor
               /\ s = "inactive" /\ s # state_["client"] => decompressor' = Idle
    <3>1. read_and_write("client", elems) /\ become("client", s)
      BY <2>1 DEF negotiate_to
    <3>2. wire'["client"] = Tail(wire["client"]) /\ state_'["client"] = s
      BY <1>1, <1>2, <2>0, <2>1, <3>1, ReadAndWriteFacts DEF become
    <3>3. CASE s = state_["client"]
      BY <2>1, <3>2, <3>3 DEF negotiate_to, codecs
    <3>4. CASE s # state_["client"]
      BY <2>1, <3>2, <3>4 DEF negotiate_to, on_state_changed
    <3>. QED BY <3>3, <3>4
  <2>2. CASE /\ Head(wire["client"]) = remote_positive("client")
             /\ negotiate_to("client", "active",
                    answer("client", local_positive("client")) \o signal_writes("client", "active"))
    <3> DEFINE elems == answer("client", local_positive("client")) \o signal_writes("client", "active")
    <3>1. elems \in Seq(Elements)
      BY <1>1, <1>2, <1>3, NegotiateWrites
    <3> HIDE DEF elems
    <3>2. /\ wire'["client"] = Tail(wire["client"]) /\ state_'["client"] = "active"
          /\ compressor' = compressor /\ decompressor' = decompressor
      BY <2>1, <2>2, <3>1 DEF elems
    <3>3. Head(wire["client"]) = "will" /\ "will" \in negotiation_type
      BY <1>2, <2>2, VerbFacts DEF negotiation_type
    <3>4. ASSUME NEW mode \in Modes, NEW after \in Modes,
                 Follows(mode), Writes(mode, Head(wire["client"]), after)
          PROVE  Follows(after)'
      <4>1. mode = Idle /\ after = Idle
        BY <3>3, <3>4, WritesFacts
      <4>2. decompressor = Idle
        BY <1>7, <3>4, <4>1 DEF Follows
      <4>. QED BY <3>2, <4>1, <4>2 DEF Follows
    <3>. QED BY <2>0, <3>2, <3>4, ClientReads
  <2>3. CASE /\ Head(wire["client"]) = remote_negative("client")
             /\ negotiate_to("client", "inactive",
                    signal_writes("client", "inactive") \o answer("client", local_negative("client")))
    <3> DEFINE elems == signal_writes("client", "inactive") \o answer("client", local_negative("client"))
    <3>1. elems \in Seq(Elements)
      BY <1>1, <1>2, <1>3, NegotiateWrites
    <3> HIDE DEF elems
    <3>2. /\ wire'["client"] = Tail(wire["client"]) /\ state_'["client"] = "inactive"
          /\ compressor' = compressor
          /\ state_["client"] = "inactive" => decompressor' = decompressor
          /\ state_["client"] # "inactive" => decompressor' = Idle
      BY <2>1, <2>3, <3>1 DEF elems
    <3>3. ASSUME NEW mode \in Modes, NEW after \in Modes, Follows(mode)
          PROVE  Follows(after)'
      <4>1. decompressor' = Idle
        BY <3>2, <3>3 DEF Follows
      <4>. QED BY <3>2, <4>1 DEF Follows
    <3>. QED BY <2>0, <3>2, <3>3, ClientReads
  <2>. QED BY <1>12, <2>2, <2>3 DEF negotiate
<1>13. CASE subnegotiate
  <2>1. /\ wire["client"] # <<>> /\ Head(wire["client"]) = "sub" /\ read("client")
        /\ state_' = state_ /\ compressor' = compressor
        /\ state_["client"] = "active" => decompressor' = start(decompressor)
        /\ state_["client"] # "active" => decompressor' = decompressor
    BY <1>13 DEF subnegotiate, active
  <2>2. wire'["client"] = Tail(wire["client"])
    BY <1>1, <1>2, <2>1, ReadFacts
  <2>3. ASSUME NEW mode \in Modes, NEW after \in Modes,
               Follows(mode), Writes(mode, Head(wire["client"]), after)
        PROVE  Follows(after)'
    <3>1. after = start(mode)
      BY <2>1, <2>3, WritesFacts
    <3>2. mode = Idle \/ start(mode) = mode
      BY ModeFacts
    <3>. QED BY <1>7, <2>1, <2>3, <3>1, <3>2 DEF Follows
  <2>. QED BY <2>1, <2>2, <2>3, ClientReads
<1>14. CASE read_text
  <2>1. /\ wire["client"] # <<>> /\ Head(wire["client"]) \in Text /\ read("client")
        /\ state_' = state_ /\ compressor' = compressor
        /\ decompressor' = decompress(decompressor, Head(wire["client"]))
    BY <1>14 DEF read_text
  <2>2. wire'["client"] = Tail(wire["client"])
    BY <1>1, <1>2, <2>1, ReadFacts
  <2>3. ASSUME NEW mode \in Modes, NEW after \in Modes,
               Follows(mode), Writes(mode, Head(wire["client"]), after)
        PROVE  Follows(after)'
    <3>1. decompress(mode, Head(wire["client"])) = after
      BY <2>1, <2>3, WritesFacts
    <3>2. decompress(Idle, Head(wire["client"])) = Idle
      BY ModeIdle
    <3>. QED BY <1>7, <2>1, <2>3, <3>1, <3>2 DEF Follows
  <2>. QED BY <2>1, <2>2, <2>3, ClientReads
<1>. QED BY <1>10, <1>11, <1>12, <1>13, <1>14

LEMMA NextCodecs ==
    TypeOK /\ CodecsFollow /\ Proved!ConformingPeer /\ [Next]_vars => CodecsFollow'
<1> SUFFICES ASSUME TypeOK, CodecsFollow, Proved!ConformingPeer, [Next]_vars PROVE CodecsFollow'
  OBVIOUS
<1>1. ASSUME NEW e \in Ends, activate(e) \/ deactivate(e) \/ negotiate(e) PROVE CodecsFollow'
  <2>1. CASE e = "server"
    BY <1>1, <2>1, ServerCodecs
  <2>2. CASE e = "client"
    BY <1>1, <2>2, ClientCodecs
  <2>. QED BY <2>1, <2>2 DEF Ends
<1>2. CASE start_compression \/ finish_compression \/ write_text
  BY <1>2, ServerCodecs
<1>3. CASE subnegotiate \/ read_text
  BY <1>3, ClientCodecs
<1>4. CASE UNCHANGED vars
  BY <1>4, ClientStays DEF vars, Follows
<1>. QED BY <1>1, <1>2, <1>3, <1>4 DEF Next

\* What is on its way to the client leads its codec to where the server's is,
\* whatever is started, finished, withdrawn and offered again: the inductive
\* invariant of the two codecs.
THEOREM CodecsFollowHolds == Spec => []CodecsFollow
BY InitCodecs, NextCodecs, TypeCorrect, PairHolds, PTL DEF Spec

\* The inductive invariant of the run.
THEOREM InductiveHolds == Spec => []Inductive
BY TypeCorrect, CodecsFollowHolds, PTL DEF Inductive

\* While the client's option is active no text reaches its decompressor in a
\* mode it was not written in.
THEOREM ActiveClientUnderstandsHolds == Spec => []ActiveClientUnderstands
<1>1. TypeOK /\ CodecsFollow => ActiveClientUnderstands
  <2> SUFFICES ASSUME TypeOK, CodecsFollow, Arriving, active("client")
               PROVE  understands(decompressor, Head(wire["client"]))
    BY DEF ActiveClientUnderstands
  <2>1. /\ wire["client"] \in Seq(Elements) /\ wire["client"] # <<>>
        /\ Head(wire["client"]) \in Text
    BY TypeUnfolded DEF Arriving, Ends
  <2>2. PICK mode \in Modes : Leads(wire["client"], mode, compressor) /\ Follows(mode)
    BY DEF CodecsFollow
  <2>3. PICK after \in Modes : Writes(mode, Head(wire["client"]), after)
    BY <2>1, <2>2, LeadsFrom
  <2>4. decompressor = mode
    BY <2>2 DEF Follows, active
  <2>. QED BY <2>1, <2>3, <2>4, WritesFacts
<1>. QED BY <1>1, TypeCorrect, CodecsFollowHolds, PTL

\* corrupted_stream_error is never thrown between these two ends.
THEOREM NeverCorruptedHolds == Spec => []NeverCorrupted
<1>1. TypeOK /\ CodecsFollow => NeverCorrupted
  <2> SUFFICES ASSUME TypeOK, CodecsFollow PROVE decompressor.stream_ # "corrupted"
    BY DEF NeverCorrupted
  <2>1. PICK mode \in Modes : Follows(mode)
    BY DEF CodecsFollow
  <2>2. state_["client"] \in {"inactive", "activating", "active", "deactivating"}
    BY TypeUnfolded DEF Ends, internal_state
  <2>3. decompressor \in {mode, Idle}
    BY <2>1, <2>2 DEF Follows
  <2>. QED BY <2>3, ModeFacts, IdleFacts
<1>. QED BY <1>1, TypeCorrect, CodecsFollowHolds, PTL

\* When all that was written has been read the two codecs are in the same mode,
\* at the same place of the same stream.
THEOREM CodecsAgreeHolds == Spec => []CodecsAgree
<1>1. TypeOK /\ CodecsFollow /\ Proved!Agreement => CodecsAgree
  <2> SUFFICES ASSUME TypeOK, CodecsFollow, Proved!Agreement, \A e \in Ends : wire[e] = <<>>
               PROVE  compressor = decompressor
    BY DEF CodecsAgree
  <2>1. \A e \in Ends : Mapped[e] = <<>>
    BY ProjectEmpty DEF Mapped, Negotiating, Only
  <2>2. Proved!Settled
    BY <2>1 DEF Proved!Settled, Proved!Negotiations, Proved!Ends, Ends, Mapped
  <2>3. state_["server"] = state_["client"] /\ state_["server"] \in {"inactive", "active"}
    BY <2>2 DEF Proved!Agreement
  <2>4. PICK mode \in Modes : Leads(wire["client"], mode, compressor) /\ Follows(mode)
    BY DEF CodecsFollow
  <2>5. mode = compressor
    BY <2>4, LeadsNone DEF Ends
  <2>6. CASE state_["client"] = "active"
    BY <2>4, <2>5, <2>6 DEF Follows
  <2>7. CASE state_["client"] = "inactive"
    <3>1. compressor = Idle
      BY <2>3, <2>7, ServerOff DEF CodecsFollow
    <3>. QED BY <2>4, <2>7, <3>1 DEF Follows
  <2>. QED BY <2>3, <2>6, <2>7
<1>. QED BY <1>1, TypeCorrect, CodecsFollowHolds, PairHolds, PTL
===============================================================================
