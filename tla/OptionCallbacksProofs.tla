-------------------------- MODULE OptionCallbacksProofs --------------------------
(***************************************************************************)
(* OptionCallbacks, for every set of calls that handlers make, every set   *)
(* of unchecked ends and every bound.                                      *)
(***************************************************************************)
EXTENDS OptionCallbacksInvariant, WiresProofs

Elements == negotiation_type \cup {"sub"}

LEMMA EndFacts ==
    ASSUME NEW e \in Ends
    PROVE  /\ Other(e) \in Ends /\ Other(Other(e)) = e /\ Other(e) # e
           /\ \A x \in Ends : x = e \/ x = Other(e)
BY DEF Ends, Other

LEMMA VerbFacts ==
    ASSUME NEW e \in Ends
    PROVE  /\ {local_positive(e), local_negative(e), remote_positive(e), remote_negative(e)}
                = negotiation_type
           /\ local_positive(e) # local_negative(e)
           /\ remote_positive(e) # remote_negative(e)
           /\ local_positive(Other(e)) = remote_positive(e)
           /\ local_negative(Other(e)) = remote_negative(e)
           /\ remote_positive(Other(e)) = local_positive(e)
           /\ remote_negative(Other(e)) = local_negative(e)
           /\ "sub" \notin negotiation_type
BY DEF Ends, Other, local_positive, local_negative, remote_positive, remote_negative, negotiation_type

LEMMA StateFacts ==
    internal_state = {"inactive", "activating", "active", "deactivating"}
BY DEF internal_state

-------------------------------------------------------------------------------
(***************************************************************************)
(* Types.                                                                  *)
(***************************************************************************)
Heard(e) == Verbs(e) \cup {"sub"}

WiresTyped ==
    /\ wire \in [Ends -> Seq(Elements)]
    /\ \A e \in Ends : wire[e] \in Seq(Heard(e))

OwedTyped ==
    /\ DOMAIN owed = Ends
    /\ \A e \in Ends : /\ owed[e] \in {<<>>, <<local_negative(e)>>}
                       /\ owed[e] # <<>> => depth[e] > 0

LEMMA TypeUnfolded ==
    TypeOK <=> /\ state_ \in [Ends -> internal_state]
               /\ WiresTyped
               /\ depth \in [Ends -> 0..MaxDepth]
               /\ OwedTyped
               /\ told \in [Ends -> BOOLEAN]
               /\ handlers_call \subseteq HandlerCalls
BY DEF TypeOK, WiresTyped, OwedTyped, Elements, Heard

LEMMA HeardFacts ==
    ASSUME NEW e \in Ends
    PROVE  /\ Heard(e) \subseteq Elements
           /\ local_positive(e) \in Heard(Other(e)) /\ local_negative(e) \in Heard(Other(e))
           /\ "sub" \in Heard(Other(e))
BY VerbFacts, EndFacts DEF Heard, Verbs, Elements

LEMMA OwedIsHeard ==
    ASSUME TypeOK, NEW e \in Ends
    PROVE  owed[e] \in Seq(Heard(Other(e))) /\ owed[e] \in Seq(Elements)
<1>1. owed[e] \in {<<>>, <<local_negative(e)>>}
  BY TypeUnfolded DEF OwedTyped
<1>2. local_negative(e) \in Heard(Other(e)) /\ local_negative(e) \in Elements
  BY HeardFacts, EndFacts
<1>3. /\ <<local_negative(e)>> \in Seq(Heard(Other(e))) /\ <<local_negative(e)>> \in Seq(Elements)
      /\ <<>> \in Seq(Heard(Other(e))) /\ <<>> \in Seq(Elements)
  <2> HIDE DEF Elements
  <2>. QED BY <1>2, EmptySeq
<1> HIDE DEF Elements
<1>. QED BY <1>1, <1>3, Zenon

\* What is written behind what a wire holds.
LEMMA WriteFacts ==
    ASSUME WiresTyped, NEW e \in Ends, NEW elem \in Heard(Other(e)), write(e, elem)
    PROVE  /\ WiresTyped'
           /\ wire'[Other(e)] = Append(wire[Other(e)], elem)
           /\ wire'[e] = wire[e]
<1> DEFINE o == Other(e)
<1>1. o \in Ends /\ o # e /\ \A x \in Ends : x = e \/ x = o
  BY EndFacts
<1>2. elem \in Elements
  BY <1>1, HeardFacts
<1>3. /\ wire' = [wire EXCEPT ![o] = Append(@, elem)]
      /\ wire \in [Ends -> Seq(Elements)] /\ wire[o] \in Seq(Heard(o)) /\ wire[e] \in Seq(Heard(e))
  BY <1>1 DEF write, WiresTyped
<1> HIDE DEF o, Elements
<1>4. Append(wire[o], elem) \in Seq(Elements) /\ Append(wire[o], elem) \in Seq(Heard(o))
  BY <1>1, <1>2, <1>3 DEF o
<1>5. wire'[o] = Append(wire[o], elem) /\ wire'[e] = wire[e] /\ wire' \in [Ends -> Seq(Elements)]
  BY <1>1, <1>3, <1>4
<1>6. \A x \in Ends : wire'[x] \in Seq(Heard(x))
  BY <1>1, <1>3, <1>4, <1>5
<1>. QED BY <1>5, <1>6 DEF WiresTyped, o, Heard, Verbs

LEMMA ReadFacts ==
    ASSUME WiresTyped, NEW e \in Ends, wire[e] # <<>>, read(e)
    PROVE  /\ WiresTyped'
           /\ wire'[Other(e)] = wire[Other(e)]
           /\ wire'[e] = Tail(wire[e])
<1> DEFINE o == Other(e)
<1>1. o \in Ends /\ o # e /\ \A x \in Ends : x = e \/ x = o
  BY EndFacts
<1>3. /\ wire' = [wire EXCEPT ![e] = Tail(@)]
      /\ wire \in [Ends -> Seq(Elements)] /\ wire[o] \in Seq(Heard(o)) /\ wire[e] \in Seq(Heard(e))
  BY <1>1 DEF read, WiresTyped
<1> HIDE DEF o, Elements
<1>4. Tail(wire[e]) \in Seq(Elements) /\ Tail(wire[e]) \in Seq(Heard(e))
  BY <1>3
<1>5. wire'[e] = Tail(wire[e]) /\ wire'[o] = wire[o] /\ wire' \in [Ends -> Seq(Elements)]
  BY <1>1, <1>3, <1>4
<1>6. \A x \in Ends : wire'[x] \in Seq(Heard(x))
  BY <1>1, <1>3, <1>4, <1>5
<1>. QED BY <1>5, <1>6 DEF WiresTyped, o, Heard, Verbs

LEMMA ReadAndWriteFacts ==
    ASSUME WiresTyped, NEW e \in Ends, wire[e] # <<>>,
           NEW elem \in Heard(Other(e)), read_and_write(e, elem)
    PROVE  /\ WiresTyped'
           /\ wire'[Other(e)] = Append(wire[Other(e)], elem)
           /\ wire'[e] = Tail(wire[e])
<1> DEFINE o == Other(e)
<1>1. o \in Ends /\ o # e /\ \A x \in Ends : x = e \/ x = o
  BY EndFacts
<1>2. elem \in Elements
  BY <1>1, HeardFacts
<1>3. /\ wire' = [wire EXCEPT ![e] = Tail(@), ![o] = Append(@, elem)]
      /\ wire \in [Ends -> Seq(Elements)] /\ wire[o] \in Seq(Heard(o)) /\ wire[e] \in Seq(Heard(e))
  BY <1>1 DEF read_and_write, WiresTyped
<1> HIDE DEF o, Elements
<1>4. /\ Tail(wire[e]) \in Seq(Elements) /\ Tail(wire[e]) \in Seq(Heard(e))
      /\ Append(wire[o], elem) \in Seq(Elements) /\ Append(wire[o], elem) \in Seq(Heard(o))
  BY <1>1, <1>2, <1>3 DEF o
<1>5. /\ wire'[e] = Tail(wire[e]) /\ wire'[o] = Append(wire[o], elem)
      /\ wire' \in [Ends -> Seq(Elements)]
  BY <1>1, <1>3, <1>4
<1>6. \A x \in Ends : wire'[x] \in Seq(Heard(x))
  BY <1>1, <1>3, <1>4, <1>5
<1>. QED BY <1>5, <1>6 DEF WiresTyped, o, Heard, Verbs

\* What handlers_return writes.
LEMMA PayFacts ==
    ASSUME TypeOK, NEW e \in Ends, wire' = [wire EXCEPT ![Other(e)] = @ \o owed[e]]
    PROVE  /\ WiresTyped'
           /\ wire'[Other(e)] = wire[Other(e)] \o owed[e]
           /\ wire'[e] = wire[e]
<1> DEFINE o == Other(e)
<1>1. o \in Ends /\ o # e /\ \A x \in Ends : x = e \/ x = o
  BY EndFacts
<1>2. owed[e] \in Seq(Heard(o)) /\ owed[e] \in Seq(Elements)
  BY OwedIsHeard
<1>3. /\ wire' = [wire EXCEPT ![o] = @ \o owed[e]]
      /\ wire \in [Ends -> Seq(Elements)] /\ wire[o] \in Seq(Heard(o)) /\ wire[e] \in Seq(Heard(e))
  BY <1>1, TypeUnfolded DEF WiresTyped
<1> HIDE DEF o, Elements
<1>4. wire[o] \o owed[e] \in Seq(Elements) /\ wire[o] \o owed[e] \in Seq(Heard(o))
  BY <1>1, <1>2, <1>3
<1>5. wire'[o] = wire[o] \o owed[e] /\ wire'[e] = wire[e] /\ wire' \in [Ends -> Seq(Elements)]
  BY <1>1, <1>3, <1>4
<1>6. \A x \in Ends : wire'[x] \in Seq(Heard(x))
  BY <1>1, <1>3, <1>4, <1>5
<1>. QED BY <1>5, <1>6 DEF WiresTyped, o, Heard, Verbs

LEMMA BecomeFacts ==
    ASSUME state_ \in [Ends -> internal_state], NEW e \in Ends, NEW s \in internal_state, become(e, s)
    PROVE  /\ state_' \in [Ends -> internal_state]
           /\ state_'[e] = s /\ state_'[Other(e)] = state_[Other(e)]
BY EndFacts DEF become

LEMMA SignalFacts ==
    ASSUME depth \in [Ends -> 0..MaxDepth], told \in [Ends -> BOOLEAN],
           NEW e \in Ends, NEW isActive \in BOOLEAN, on_state_changed(e, isActive)
    PROVE  /\ depth' \in [Ends -> 0..MaxDepth] /\ told' \in [Ends -> BOOLEAN]
           /\ depth'[e] = depth[e] + 1 /\ depth'[Other(e)] = depth[Other(e)]
           /\ told'[e] = isActive /\ told'[Other(e)] = told[Other(e)]
<1>1. Other(e) \in Ends /\ Other(e) # e
  BY EndFacts
<1>2. depth[e] + 1 \in 0..MaxDepth
  BY CallbacksAssumption, SMT DEF on_state_changed
<1>3. /\ depth' \in [Ends -> 0..MaxDepth]
      /\ depth'[e] = depth[e] + 1 /\ depth'[Other(e)] = depth[Other(e)]
  BY <1>1, <1>2 DEF on_state_changed
<1>4. told' = [told EXCEPT ![e] = isActive]
  BY DEF on_state_changed
<1>5. told' \in [Ends -> BOOLEAN] /\ told'[e] = isActive /\ told'[Other(e)] = told[Other(e)]
  BY <1>1, <1>4, Zenon
<1>. QED BY <1>3, <1>5

LEMMA InitType == Init => TypeOK
<1> SUFFICES ASSUME Init PROVE TypeOK
  OBVIOUS
<1>1. WiresTyped
  BY EmptySeq DEF Init, WiresTyped
<1>2. OwedTyped
  BY DEF Init, OwedTyped
<1>3. 0 \in 0..MaxDepth
  BY CallbacksAssumption, SMT
<1>4. told \in [Ends -> BOOLEAN]
  BY DEF Init
<1>. QED BY <1>1, <1>2, <1>3, <1>4, TypeUnfolded, StateFacts DEF Init

\* A debt that stays, below handlers of which there are no fewer.
LEMMA DebtStays ==
    ASSUME OwedTyped, owed' = owed, depth \in [Ends -> 0..MaxDepth],
           \A x \in Ends : depth'[x] \in {depth[x], depth[x] + 1}
    PROVE  OwedTyped'
<1>1. ASSUME NEW x \in Ends, owed[x] # <<>> PROVE depth'[x] > 0
  <2>1. depth[x] > 0 /\ depth[x] \in Nat /\ depth'[x] \in {depth[x], depth[x] + 1}
    BY <1>1 DEF OwedTyped
  <2>. QED BY <2>1, SMT
<1>. QED BY <1>1 DEF OwedTyped

LEMMA NextType == TypeOK /\ [Next]_vars => TypeOK'
<1> SUFFICES ASSUME TypeOK, [Next]_vars PROVE TypeOK'
  OBVIOUS
<1>0. /\ state_ \in [Ends -> internal_state] /\ WiresTyped
      /\ depth \in [Ends -> 0..MaxDepth] /\ OwedTyped
      /\ told \in [Ends -> BOOLEAN] /\ handlers_call \subseteq HandlerCalls
  BY TypeUnfolded
<1>1. ASSUME state_' \in [Ends -> internal_state], WiresTyped', depth' \in [Ends -> 0..MaxDepth],
             OwedTyped', told' \in [Ends -> BOOLEAN], handlers_call' = handlers_call
      PROVE  TypeOK'
  BY <1>0, <1>1 DEF TypeOK, WiresTyped, OwedTyped, Elements, Heard
<1>2. CASE UNCHANGED vars
  BY <1>0, <1>1, <1>2 DEF vars, WiresTyped, OwedTyped
<1>3. ASSUME NEW e \in Ends, handlers_call' = handlers_call,
             \/ activate(e) \/ deactivate(e) \/ write_subnegotiation(e)
             \/ negotiate(e) \/ subnegotiate(e) \/ handlers_return(e)
      PROVE  TypeOK'
  <2>0. /\ \A x \in Ends : x = e \/ x = Other(e)
        /\ local_positive(e) \in Heard(Other(e)) /\ local_negative(e) \in Heard(Other(e))
        /\ "sub" \in Heard(Other(e))
    BY EndFacts, HeardFacts
  <2>1. ASSUME NEW b \in BOOLEAN, on_state_changed(e, b)
        PROVE  /\ depth' \in [Ends -> 0..MaxDepth] /\ told' \in [Ends -> BOOLEAN]
               /\ \A x \in Ends : depth'[x] \in {depth[x], depth[x] + 1}
    BY <1>0, <2>0, <2>1, SignalFacts
  <2>2. ASSUME quiet
        PROVE  /\ depth' \in [Ends -> 0..MaxDepth] /\ told' \in [Ends -> BOOLEAN]
               /\ \A x \in Ends : depth'[x] \in {depth[x], depth[x] + 1}
    BY <1>0, <2>2 DEF quiet
  <2>3. ASSUME NEW s \in internal_state, become(e, s) PROVE state_' \in [Ends -> internal_state]
    BY <1>0, <2>3, BecomeFacts
  <2>4. ASSUME state_' = state_ PROVE state_' \in [Ends -> internal_state]
    BY <1>0, <2>4
  <2>5. ASSUME wire' = wire PROVE WiresTyped'
    BY <1>0, <2>5 DEF WiresTyped
  <2>6. CASE activate(e)
    <3>1. state_' \in [Ends -> internal_state]
      BY <2>6, <2>3, <2>4, StateFacts DEF activate
    <3>2. WiresTyped'
      BY <1>0, <2>0, <2>5, <2>6, WriteFacts DEF activate
    <3>3. quiet \/ on_state_changed(e, TRUE)
      BY <2>6 DEF activate
    <3>4. OwedTyped'
      BY <1>0, <2>1, <2>2, <2>6, <3>3, DebtStays DEF activate, owe_nothing_more
    <3>. QED BY <1>1, <1>3, <2>1, <2>2, <3>1, <3>2, <3>3, <3>4
  <2>7. CASE deactivate(e)
    <3>1. state_' \in [Ends -> internal_state]
      BY <2>7, <2>3, <2>4, StateFacts DEF deactivate
    <3>2. WiresTyped'
      BY <1>0, <2>0, <2>5, <2>7, WriteFacts DEF deactivate
    <3>3. quiet \/ on_state_changed(e, FALSE)
      BY <2>7 DEF deactivate
    <3>4. OwedTyped'
      BY <1>0, <2>1, <2>2, <2>7, <3>3, DebtStays DEF deactivate, owe_nothing_more
    <3>. QED BY <1>1, <1>3, <2>1, <2>2, <3>1, <3>2, <3>3, <3>4
  <2>8. CASE write_subnegotiation(e)
    <3>1. WiresTyped'
      BY <1>0, <2>0, <2>8, WriteFacts DEF write_subnegotiation
    <3>2. quiet /\ owed' = owed /\ state_' = state_
      BY <2>8 DEF write_subnegotiation, quiet
    <3>3. OwedTyped'
      BY <1>0, <2>2, <3>2, DebtStays
    <3>. QED BY <1>0, <1>1, <1>3, <2>2, <3>1, <3>2, <3>3
  <2>9. CASE negotiate(e)
    <3>0. wire[e] # <<>> /\ depth[e] = 0
      BY <2>9 DEF negotiate
    <3>1. CASE negotiate_inactive(e)
      <4>1. state_' \in [Ends -> internal_state]
        BY <3>1, <2>3, <2>4, StateFacts DEF negotiate_inactive
      <4>2. WiresTyped'
        BY <1>0, <2>0, <3>0, <3>1, ReadAndWriteFacts DEF negotiate_inactive
      <4>3. quiet \/ on_state_changed(e, TRUE)
        BY <3>1 DEF negotiate_inactive
      <4>4. OwedTyped'
        BY <1>0, <2>1, <2>2, <3>1, <4>3, DebtStays DEF negotiate_inactive, owe_nothing_more
      <4>. QED BY <1>1, <1>3, <2>1, <2>2, <4>1, <4>2, <4>3, <4>4
    <3>2. CASE negotiate_requesting(e)
      <4>1. state_' \in [Ends -> internal_state]
        BY <3>2, <2>3, <2>4, StateFacts DEF negotiate_requesting
      <4>2. WiresTyped'
        BY <1>0, <2>0, <3>0, <3>2, ReadFacts DEF negotiate_requesting
      <4>3. on_state_changed(e, TRUE) \/ on_state_changed(e, FALSE)
        BY <3>2 DEF negotiate_requesting
      <4>4. OwedTyped'
        BY <1>0, <2>1, <3>2, <4>3, DebtStays DEF negotiate_requesting, owe_nothing_more
      <4>. QED BY <1>1, <1>3, <2>1, <4>1, <4>2, <4>3, <4>4
    <3>3. CASE negotiate_active(e)
      <4>1. CASE /\ read_and_write(e, local_positive(e))
                 /\ UNCHANGED <<state_, owed>>
                 /\ quiet
        <5>1. WiresTyped'
          BY <1>0, <2>0, <3>0, <4>1, ReadAndWriteFacts
        <5>2. OwedTyped'
          BY <1>0, <2>2, <4>1, DebtStays
        <5>. QED BY <1>0, <1>1, <1>3, <2>2, <4>1, <5>1, <5>2
      <4>2. CASE /\ become(e, "inactive")
                 /\ read(e)
                 /\ on_state_changed(e, FALSE)
                 /\ owed' = [owed EXCEPT ![e] = <<local_negative(e)>>]
        <5>1. WiresTyped'
          BY <1>0, <2>0, <3>0, <4>2, ReadFacts
        <5>2. state_' \in [Ends -> internal_state]
          BY <4>2, <2>3, StateFacts
        <5>3. /\ depth'[e] = depth[e] + 1 /\ depth'[Other(e)] = depth[Other(e)]
              /\ depth' \in [Ends -> 0..MaxDepth] /\ told' \in [Ends -> BOOLEAN]
          BY <1>0, <4>2, SignalFacts
        <5>4. depth'[e] > 0
          BY <3>0, <5>3, SMT
        <5>5. DOMAIN owed' = Ends /\ owed'[e] = <<local_negative(e)>> /\ owed'[Other(e)] = owed[Other(e)]
          BY <1>0, <4>2, EndFacts DEF OwedTyped
        <5>6. OwedTyped'
          BY <1>0, <2>0, <5>3, <5>4, <5>5 DEF OwedTyped, local_negative
        <5>. QED BY <1>1, <1>3, <5>1, <5>2, <5>3, <5>6
      <4>. QED BY <3>3, <4>1, <4>2 DEF negotiate_active
    <3>. QED BY <2>9, <3>1, <3>2, <3>3 DEF negotiate
  <2>10. CASE subnegotiate(e)
    <3>1. WiresTyped'
      BY <1>0, <2>0, <2>10, ReadFacts DEF subnegotiate
    <3>2. quiet /\ owed' = owed /\ state_' = state_
      BY <2>10 DEF subnegotiate, quiet
    <3>3. OwedTyped'
      BY <1>0, <2>2, <3>2, DebtStays
    <3>. QED BY <1>0, <1>1, <1>3, <2>2, <3>1, <3>2, <3>3
  <2>11. CASE handlers_return(e)
    <3>0. /\ depth[e] \in 0..MaxDepth /\ depth[e] > 0 /\ MaxDepth \in Nat
          /\ depth' = [depth EXCEPT ![e] = @ - 1] /\ state_' = state_ /\ told' = told
      BY <1>0, <2>11, CallbacksAssumption DEF handlers_return
    <3>1. depth[e] - 1 \in 0..MaxDepth
      BY <3>0, SMT
    <3>2. /\ depth' \in [Ends -> 0..MaxDepth] /\ depth'[e] = depth[e] - 1
          /\ depth'[Other(e)] = depth[Other(e)]
      BY <1>0, <3>0, <3>1, EndFacts
    <3>3. CASE depth[e] = 1
      <4>1. /\ wire' = [wire EXCEPT ![Other(e)] = @ \o owed[e]]
            /\ owed' = [owed EXCEPT ![e] = <<>>]
        BY <2>11, <3>3 DEF handlers_return
      <4>2. WiresTyped'
        BY <4>1, PayFacts
      <4>3. DOMAIN owed' = Ends /\ owed'[e] = <<>> /\ owed'[Other(e)] = owed[Other(e)]
        BY <1>0, <4>1, EndFacts DEF OwedTyped
      <4>4. OwedTyped'
        BY <1>0, <2>0, <3>2, <4>3 DEF OwedTyped, local_negative
      <4>. QED BY <1>0, <1>1, <1>3, <3>0, <3>2, <4>2, <4>4
    <3>4. CASE depth[e] # 1
      <4>1. wire' = wire /\ owed' = owed
        BY <2>11, <3>4 DEF handlers_return
      <4>2. depth'[e] > 0
        BY <3>0, <3>2, <3>4, SMT
      <4>3. OwedTyped'
        BY <1>0, <2>0, <3>2, <4>1, <4>2 DEF OwedTyped, local_negative
      <4>. QED BY <1>0, <1>1, <1>3, <2>5, <3>0, <3>2, <4>1, <4>3
    <3>. QED BY <3>3, <3>4
  <2>. QED BY <1>3, <2>6, <2>7, <2>8, <2>9, <2>10, <2>11
<1>. QED BY <1>2, <1>3 DEF Next

\* The variables keep their types, whatever the handlers call and however they
\* are nested; and a reply is owed only while a handler runs.
THEOREM TypeCorrect == Spec => []TypeOK
BY InitType, NextType, PTL DEF Spec

-------------------------------------------------------------------------------
(***************************************************************************)
(* What handlers are told.                                                 *)
(***************************************************************************)
On(e) == state_[e] \in {"active", "deactivating"}

LEMMA NextTold == TypeOK /\ ToldTheTruth /\ [Next]_vars => ToldTheTruth'
<1> SUFFICES ASSUME TypeOK, ToldTheTruth, [Next]_vars PROVE ToldTheTruth'
  OBVIOUS
<1>0. /\ state_ \in [Ends -> internal_state]
      /\ depth \in [Ends -> 0..MaxDepth] /\ told \in [Ends -> BOOLEAN]
  BY TypeUnfolded
<1>1. CASE UNCHANGED vars
  BY <1>1 DEF vars, ToldTheTruth
<1>2. ASSUME NEW e \in Ends,
             \/ activate(e) \/ deactivate(e) \/ write_subnegotiation(e)
             \/ negotiate(e) \/ subnegotiate(e) \/ handlers_return(e)
      PROVE  ToldTheTruth'
  <2>0. /\ \A x \in Ends : x = e \/ x = Other(e)
        /\ \A x \in Ends : told[x] <=> On(x)
        /\ Other(e) \in Ends
    BY EndFacts DEF ToldTheTruth, On
  <2>1. ASSUME told'[e] <=> On(e)', told'[Other(e)] = told[Other(e)],
               state_'[Other(e)] = state_[Other(e)]
        PROVE  ToldTheTruth'
    <3>1. On(Other(e))' <=> On(Other(e))
      BY <2>1 DEF On
    <3>2. told'[Other(e)] <=> On(Other(e))'
      BY <2>0, <2>1, <3>1, Zenon
    <3>. QED BY <2>0, <2>1, <3>2 DEF ToldTheTruth, On
  <2>2. ASSUME on_state_changed(e, TRUE), On(e)', state_'[Other(e)] = state_[Other(e)]
        PROVE  ToldTheTruth'
    <3>1. told'[e] = TRUE /\ told'[Other(e)] = told[Other(e)]
      BY <1>0, <2>2, SignalFacts
    <3>2. told'[e] <=> On(e)'
      BY <2>2, <3>1, Zenon
    <3>. QED BY <2>1, <2>2, <3>1, <3>2
  <2>3. ASSUME on_state_changed(e, FALSE), ~On(e)', state_'[Other(e)] = state_[Other(e)]
        PROVE  ToldTheTruth'
    <3>1. told'[e] = FALSE /\ told'[Other(e)] = told[Other(e)]
      BY <1>0, <2>3, SignalFacts
    <3>2. told'[e] <=> On(e)'
      BY <2>3, <3>1, Zenon
    <3>. QED BY <2>1, <2>3, <3>1, <3>2
  <2>4. ASSUME told' = told, On(e)' <=> On(e), state_'[Other(e)] = state_[Other(e)]
        PROVE  ToldTheTruth'
    <3>1. told'[e] <=> On(e)'
      BY <2>0, <2>4, Zenon
    <3>. QED BY <2>1, <2>4, <3>1
  <2>5. ASSUME NEW s \in internal_state, become(e, s)
        PROVE  /\ state_'[Other(e)] = state_[Other(e)]
               /\ s \in {"active", "deactivating"} => On(e)'
               /\ s \in {"inactive", "activating"} => ~On(e)'
    BY <1>0, <2>5, BecomeFacts DEF On
  <2>6. ASSUME state_' = state_ PROVE state_'[Other(e)] = state_[Other(e)] /\ (On(e)' <=> On(e))
    BY <2>6 DEF On
  <2>7. state_[e] \in {"inactive", "activating"} => ~On(e)
    BY DEF On
  <2>8. state_[e] \in {"active", "deactivating"} => On(e)
    BY DEF On
  <2>9. CASE activate(e)
    <3>1. CASE state_[e] = "inactive" /\ become(e, "activating") /\ quiet
      BY <2>4, <2>5, <2>7, <3>1, StateFacts DEF quiet
    <3>2. CASE state_[e] = "active" /\ on_state_changed(e, TRUE) /\ UNCHANGED <<state_, wire>>
      BY <2>2, <2>6, <2>8, <3>2
    <3>. QED BY <2>9, <3>1, <3>2 DEF activate
  <2>10. CASE deactivate(e)
    <3>1. CASE state_[e] = "active" /\ become(e, "deactivating") /\ quiet
      BY <2>4, <2>5, <2>8, <3>1, StateFacts DEF quiet
    <3>2. CASE state_[e] = "inactive" /\ on_state_changed(e, FALSE) /\ UNCHANGED <<state_, wire>>
      BY <2>3, <2>6, <2>7, <3>2
    <3>. QED BY <2>10, <3>1, <3>2 DEF deactivate
  <2>11. CASE write_subnegotiation(e) \/ subnegotiate(e) \/ handlers_return(e)
    <3>1. state_' = state_ /\ told' = told
      BY <2>11 DEF write_subnegotiation, subnegotiate, handlers_return
    <3>. QED BY <2>4, <2>6, <3>1
  <2>12. CASE negotiate(e)
    <3>1. \/ become(e, "active") /\ on_state_changed(e, TRUE)
          \/ become(e, "inactive") /\ on_state_changed(e, FALSE)
          \/ state_' = state_ /\ quiet
      BY <2>12 DEF negotiate, negotiate_inactive, negotiate_requesting, negotiate_active
    <3>2. CASE become(e, "active") /\ on_state_changed(e, TRUE)
      BY <2>2, <2>5, <3>2, StateFacts
    <3>3. CASE become(e, "inactive") /\ on_state_changed(e, FALSE)
      BY <2>3, <2>5, <3>3, StateFacts
    <3>4. CASE state_' = state_ /\ quiet
      BY <2>4, <2>6, <3>4 DEF quiet
    <3>. QED BY <3>1, <3>2, <3>3, <3>4
  <2>. QED BY <1>2, <2>9, <2>10, <2>11, <2>12
<1>. QED BY <1>1, <1>2 DEF Next

\* What a handler is told stays true until it is told something else.
THEOREM ToldTheTruthHolds == Spec => []ToldTheTruth
<1>1. Init => ToldTheTruth
  BY DEF Init, ToldTheTruth
<1>. QED BY <1>1, NextTold, TypeCorrect, PTL DEF Spec

-------------------------------------------------------------------------------
(***************************************************************************)
(* An answer that is delayed.                                              *)
(***************************************************************************)
\* Of the calls that an end with a debt can make, only activate() changes its
\* state.
LEMMA NextOwing == TypeOK /\ Owing /\ [Next]_vars => Owing'
<1> SUFFICES ASSUME TypeOK, Owing, [Next]_vars PROVE Owing'
  OBVIOUS
<1>0. state_ \in [Ends -> internal_state] /\ OwedTyped /\ depth \in [Ends -> 0..MaxDepth]
  BY TypeUnfolded
<1>1. CASE UNCHANGED vars
  BY <1>1 DEF vars, Owing, NeverReactivate
<1>2. ASSUME NEW e \in Ends, handlers_call' = handlers_call,
             \/ activate(e) \/ deactivate(e) \/ write_subnegotiation(e)
             \/ negotiate(e) \/ subnegotiate(e) \/ handlers_return(e)
      PROVE  Owing'
  <2>0. (\A x \in Ends : x = e \/ x = Other(e)) /\ Other(e) \in Ends
    BY EndFacts
  <2> DEFINE Owes(x) == owed[x] # <<>> =>
                            \/ state_[x] = "inactive"
                            \/ state_[x] = "activating" /\ ~NeverReactivate
  <2>1. Owes(e) /\ Owes(Other(e))
    BY <2>0 DEF Owing
  <2>2. SUFFICES Owes(e)' /\ Owes(Other(e))'
    BY <2>0 DEF Owing
  <2>3. ASSUME NEW s \in internal_state, become(e, s)
        PROVE  state_'[e] = s /\ state_'[Other(e)] = state_[Other(e)]
    BY <1>0, <2>3, BecomeFacts
  <2>4. depth[e] = 0 => owed[e] = <<>>
    BY <1>0 DEF OwedTyped
  <2>5. NeverReactivate' <=> NeverReactivate
    BY <1>2 DEF NeverReactivate
  <2>6. state_'[Other(e)] = state_[Other(e)]
    <3>1. \/ state_' = state_
          \/ \E s \in internal_state : become(e, s)
      BY <1>2, StateFacts
         DEF activate, deactivate, write_subnegotiation, negotiate, negotiate_inactive,
             negotiate_requesting, negotiate_active, subnegotiate, handlers_return
    <3>. QED BY <2>3, <3>1
  <2>7. ASSUME owed' = owed PROVE Owes(Other(e))'
    BY <2>1, <2>5, <2>6, <2>7
  <2>8. CASE activate(e)
    <3>1. CASE state_[e] = "inactive" /\ become(e, "activating")
      <4>1. NeverReactivate => depth[e] = 0
        BY <2>8 DEF activate, may_call, NeverReactivate
      <4>. QED BY <2>3, <2>4, <2>5, <2>7, <2>8, <3>1, <4>1, StateFacts DEF activate, owe_nothing_more
    <3>2. CASE state_' = state_
      BY <2>1, <2>5, <2>7, <2>8, <3>2 DEF activate, owe_nothing_more
    <3>. QED BY <2>8, <3>1, <3>2 DEF activate
  <2>9. CASE deactivate(e)
    <3>1. CASE state_[e] = "active"
      BY <2>1, <2>7, <2>9, <3>1 DEF deactivate, owe_nothing_more
    <3>2. CASE state_' = state_
      BY <2>1, <2>5, <2>7, <2>9, <3>2 DEF deactivate, owe_nothing_more
    <3>. QED BY <2>9, <3>1, <3>2 DEF deactivate
  <2>10. CASE write_subnegotiation(e) \/ subnegotiate(e)
    BY <2>1, <2>5, <2>7, <2>10 DEF write_subnegotiation, subnegotiate
  <2>11. CASE negotiate(e)
    <3>1. owed[e] = <<>>
      BY <2>4, <2>11 DEF negotiate
    <3>2. CASE owed' = owed
      BY <2>7, <3>1, <3>2
    <3>3. CASE become(e, "inactive") /\ owed' = [owed EXCEPT ![e] = <<local_negative(e)>>]
      <4>1. state_'[e] = "inactive"
        BY <2>3, <3>3, StateFacts
      <4>2. owed'[Other(e)] = owed[Other(e)]
        BY <1>0, <3>3, EndFacts DEF OwedTyped
      <4>. QED BY <2>1, <2>5, <2>6, <4>1, <4>2
    <3>. QED BY <2>11, <3>2, <3>3
         DEF negotiate, negotiate_inactive, negotiate_requesting, negotiate_active, owe_nothing_more
  <2>12. CASE handlers_return(e)
    <3>1. CASE owed' = owed
      BY <2>1, <2>5, <2>7, <2>12, <3>1 DEF handlers_return
    <3>2. CASE owed' = [owed EXCEPT ![e] = <<>>]
      <4>1. owed'[e] = <<>> /\ owed'[Other(e)] = owed[Other(e)]
        BY <1>0, <3>2, EndFacts DEF OwedTyped
      <4>. QED BY <2>1, <2>5, <2>6, <4>1
    <3>. QED BY <2>12, <3>1, <3>2 DEF handlers_return
  <2>. QED BY <1>2, <2>8, <2>9, <2>10, <2>11, <2>12
<1>. QED BY <1>1, <1>2 DEF Next

LEMMA OwingHolds == Spec => []Owing
<1>1. Init => Owing
  BY DEF Init, Owing
<1>. QED BY <1>1, NextOwing, TypeCorrect, PTL DEF Spec

\* What a step of x leaves on the wire that x reads, and what it adds to the
\* one that it writes while a request of its own is under way.
LEMMA StepOfOne ==
    ASSUME TypeOK, Owing, NEW x \in Ends,
           \/ activate(x) \/ deactivate(x) \/ write_subnegotiation(x)
           \/ negotiate(x) \/ subnegotiate(x) \/ handlers_return(x)
    PROVE  /\ wire'[x] = wire[x] \/ (wire[x] # <<>> /\ wire'[x] = Tail(wire[x]))
           /\ NeverReactivate /\ requesting(x) =>
                 \/ wire'[Other(x)] = wire[Other(x)]
                 \/ wire'[Other(x)] = Append(wire[Other(x)], "sub")
<1>0. /\ state_ \in [Ends -> internal_state] /\ WiresTyped /\ OwedTyped
      /\ wire[x] \in Seq(Elements) /\ wire[Other(x)] \in Seq(Elements)
  BY TypeUnfolded, EndFacts DEF WiresTyped
<1>1. /\ local_positive(x) \in Heard(Other(x)) /\ local_negative(x) \in Heard(Other(x))
      /\ "sub" \in Heard(Other(x))
  BY HeardFacts
<1>2. requesting(x) => ~(state_[x] \in {"inactive", "active"})
  BY DEF requesting
<1>3. CASE wire' = wire
  BY <1>3
<1>4. CASE activate(x) \/ deactivate(x)
  <2>1. \/ wire' = wire
        \/ ~requesting(x) /\ \E v \in Heard(Other(x)) : write(x, v)
    BY <1>1, <1>2, <1>4 DEF activate, deactivate
  <2>. QED BY <1>0, <1>3, <2>1, WriteFacts
<1>5. CASE write_subnegotiation(x)
  BY <1>0, <1>1, <1>5, WriteFacts DEF write_subnegotiation
<1>6. CASE negotiate(x)
  <2>1. wire[x] # <<>>
    BY <1>6 DEF negotiate
  <2>2. \/ read(x)
        \/ ~requesting(x) /\ \E v \in Heard(Other(x)) : read_and_write(x, v)
    BY <1>1, <1>2, <1>6 DEF negotiate, negotiate_inactive, negotiate_requesting, negotiate_active, active
  <2>. QED BY <1>0, <2>1, <2>2, ReadFacts, ReadAndWriteFacts
<1>7. CASE subnegotiate(x)
  BY <1>0, <1>7, ReadFacts DEF subnegotiate
<1>8. CASE handlers_return(x)
  <2>1. CASE wire' = [wire EXCEPT ![Other(x)] = @ \o owed[x]]
    <3>1. wire'[Other(x)] = wire[Other(x)] \o owed[x] /\ wire'[x] = wire[x]
      BY <2>1, PayFacts
    <3>2. NeverReactivate /\ requesting(x) => owed[x] = <<>>
      BY DEF Owing, requesting
    <3>3. wire[Other(x)] \o <<>> = wire[Other(x)]
      BY <1>0
    <3>. QED BY <3>1, <3>2, <3>3
  <2>. QED BY <1>3, <1>8, <2>1 DEF handlers_return
<1>. QED BY <1>4, <1>5, <1>6, <1>7, <1>8

\* As long as no handler calls activate(), an end with a request under way puts
\* no negotiation on the connection, not even a delayed one.
THEOREM OneAtATimeHolds == Spec => OneAtATimeUnlessReactivated
<1>1. TypeOK /\ Owing /\ [Next]_vars => [NeverReactivate => SilentWhileRequesting]_vars
  <2> SUFFICES ASSUME TypeOK, Owing, Next, NeverReactivate,
                      NEW e \in Ends, requesting(e), Len(wire'[Other(e)]) > Len(wire[Other(e)])
               PROVE  wire'[Other(e)][Len(wire'[Other(e)])] = "sub"
    BY DEF SilentWhileRequesting
  <2>0. /\ Other(e) \in Ends /\ Other(Other(e)) = e /\ \A x \in Ends : x = e \/ x = Other(e)
        /\ wire[Other(e)] \in Seq(Elements)
    BY EndFacts, TypeUnfolded DEF WiresTyped
  <2>1. PICK x \in Ends : \/ activate(x) \/ deactivate(x) \/ write_subnegotiation(x)
                          \/ negotiate(x) \/ subnegotiate(x) \/ handlers_return(x)
    BY DEF Next
  <2>2. CASE x = e
    <3>1. wire'[Other(e)] = Append(wire[Other(e)], "sub")
      BY <2>0, <2>1, <2>2, StepOfOne
    <3>2. "sub" \in Elements
      BY DEF Elements
    <3> HIDE DEF Elements
    <3>. QED BY <2>0, <3>1, <3>2
  <2>3. CASE x = Other(e)
    <3>1. \/ wire'[Other(e)] = wire[Other(e)]
          \/ wire[Other(e)] # <<>> /\ wire'[Other(e)] = Tail(wire[Other(e)])
      BY <2>1, <2>3, StepOfOne
    <3> HIDE DEF Elements
    <3>2. \A w \in Seq(Elements) : ~(Len(w) > Len(w)) /\ (w # <<>> => ~(Len(Tail(w)) > Len(w)))
      OBVIOUS
    <3>. QED BY <2>0, <3>1, <3>2
  <2>. QED BY <2>0, <2>2, <2>3
<1>. QED BY <1>1, TypeCorrect, OwingHolds, PTL DEF Spec, OneAtATimeUnlessReactivated

-------------------------------------------------------------------------------
(***************************************************************************)
(* The negotiations on the wires, without what lies between them.          *)
(***************************************************************************)
\* Where nothing but subnegotiations is, no negotiation is.
LEMMA OnlySubs ==
    ASSUME NEW w \in Seq(Elements), \A i \in 1..Len(w) : w[i] = "sub"
    PROVE  Only(w, negotiation_type) = <<>>
<1>1. \A i \in 1..Len(w) : w[i] \notin negotiation_type
  BY DEF negotiation_type
<1>. QED BY <1>1, KeepNone

LEMMA OwedVerbs ==
    ASSUME TypeOK, NEW e \in Ends
    PROVE  owed[e] \in Seq(negotiation_type) /\ owed[e] \in {<<>>, <<local_negative(e)>>}
<1>1. owed[e] \in {<<>>, <<local_negative(e)>>} /\ local_negative(e) \in negotiation_type
  BY VerbFacts, TypeUnfolded DEF OwedTyped
<1>2. <<>> \in Seq(negotiation_type) /\ <<local_negative(e)>> \in Seq(negotiation_type)
  BY <1>1
<1>. QED BY <1>1, <1>2, Zenon

\* A verb written by an end without a debt is the last to be read; with one,
\* it is the last but one.
LEMMA WriteVerb ==
    ASSUME TypeOK, NEW e \in Ends, NEW v \in negotiation_type, write(e, v), v \in Heard(Other(e)),
           owed' = owed
    PROVE  /\ owed[e] = <<>> => ToBeRead(Other(e))' = Append(ToBeRead(Other(e)), v)
           /\ owed[e] # <<>> /\ ToBeRead(Other(e)) = <<local_negative(e)>> =>
                 ToBeRead(Other(e))' = <<v, local_negative(e)>>
           /\ ToBeRead(e)' = ToBeRead(e)
<1> DEFINE w == wire[Other(e)]
           n == Only(w, negotiation_type)
<1>1. /\ wire'[Other(e)] = Append(w, v) /\ wire'[e] = wire[e]
      /\ w \in Seq(Elements) /\ v \in Elements
  BY WriteFacts, TypeUnfolded, EndFacts DEF WiresTyped, Elements
<1>2. Only(wire'[Other(e)], negotiation_type) = Append(n, v) /\ n \in Seq(negotiation_type)
  BY <1>1, KeepAppend, KeepType
<1>3. /\ ToBeRead(Other(e)) = n \o owed[e]
      /\ ToBeRead(Other(e))' = Append(n, v) \o owed[e]
      /\ ToBeRead(e)' = ToBeRead(e)
  BY <1>1, <1>2, EndFacts DEF ToBeRead
<1> HIDE DEF w, n
<1>4. owed[e] \in Seq(negotiation_type) /\ owed[e] \in {<<>>, <<local_negative(e)>>}
  BY OwedVerbs
<1>5. CASE owed[e] = <<>>
  <2>1. Append(n, v) \o <<>> = Append(n, v) /\ n \o <<>> = n
    BY <1>2
  <2>. QED BY <1>3, <1>5, <2>1
<1>6. CASE owed[e] # <<>>
  <2>1. owed[e] = <<local_negative(e)>> /\ local_negative(e) \in negotiation_type
    BY <1>4, <1>6, VerbFacts
  <2>2. n \o <<local_negative(e)>> = <<local_negative(e)>> => n = <<>>
    BY <1>2, <2>1
  <2>3. Append(<<>>, v) \o <<local_negative(e)>> = <<v, local_negative(e)>>
    BY <2>1, TupleFacts
  <2>. QED BY <1>3, <1>6, <2>1, <2>2, <2>3
<1>. QED BY <1>5, <1>6

\* Subnegotiations make no difference.
LEMMA WriteSub ==
    ASSUME TypeOK, NEW e \in Ends, write(e, "sub"), owed' = owed, NEW x \in Ends
    PROVE  ToBeRead(x)' = ToBeRead(x)
<1>1. "sub" \in Heard(Other(e)) /\ "sub" \in Elements /\ "sub" \notin negotiation_type
  BY HeardFacts, VerbFacts DEF Elements
<1>2. /\ wire'[Other(e)] = Append(wire[Other(e)], "sub") /\ wire'[e] = wire[e]
      /\ wire[Other(e)] \in Seq(Elements)
  BY <1>1, WriteFacts, TypeUnfolded, EndFacts DEF WiresTyped
<1>3. Only(wire'[Other(e)], negotiation_type) = Only(wire[Other(e)], negotiation_type)
  BY <1>1, <1>2, KeepAppend
<1>. QED BY <1>2, <1>3, EndFacts DEF ToBeRead

LEMMA ReadSub ==
    ASSUME TypeOK, NEW e \in Ends, wire[e] # <<>>, Head(wire[e]) = "sub", read(e),
           owed' = owed, NEW x \in Ends
    PROVE  ToBeRead(x)' = ToBeRead(x)
<1>1. /\ wire'[e] = Tail(wire[e]) /\ wire'[Other(e)] = wire[Other(e)]
      /\ wire[e] \in Seq(Elements)
  BY ReadFacts, TypeUnfolded DEF WiresTyped
<1>2. Only(wire'[e], negotiation_type) = Only(wire[e], negotiation_type)
  BY <1>1, KeepRead, VerbFacts
<1>. QED BY <1>1, <1>2, EndFacts DEF ToBeRead

\* A verb that is read is the first of those to be read.
LEMMA ReadVerb ==
    ASSUME TypeOK, NEW e \in Ends, wire[e] # <<>>, Head(wire[e]) \in negotiation_type,
           wire'[e] = Tail(wire[e]), owed'[Other(e)] = owed[Other(e)]
    PROVE  /\ ToBeRead(e) # <<>> /\ Head(ToBeRead(e)) = Head(wire[e])
           /\ ToBeRead(e)' = Tail(ToBeRead(e))
<1> DEFINE n == Only(wire[e], negotiation_type)
<1>1. wire[e] \in Seq(Elements)
  BY TypeUnfolded DEF WiresTyped
<1>2. /\ n # <<>> /\ Head(n) = Head(wire[e]) /\ Only(wire'[e], negotiation_type) = Tail(n)
      /\ n \in Seq(negotiation_type)
  BY <1>1, KeepRead, KeepType
<1>3. owed[Other(e)] \in Seq(negotiation_type)
  BY OwedVerbs, EndFacts
<1>4. ToBeRead(e) = n \o owed[Other(e)] /\ ToBeRead(e)' = Tail(n) \o owed[Other(e)]
  BY <1>2 DEF ToBeRead
<1> HIDE DEF n
<1>5. /\ n \o owed[Other(e)] # <<>> /\ Head(n \o owed[Other(e)]) = Head(n)
      /\ Tail(n \o owed[Other(e)]) = Tail(n) \o owed[Other(e)]
  BY <1>2, <1>3
<1>. QED BY <1>2, <1>4, <1>5

\* What the answer to it adds: written at once, or owed.
LEMMA AnswerNow ==
    ASSUME TypeOK, NEW e \in Ends, NEW v \in negotiation_type, v \in Heard(Other(e)), owed[e] = <<>>, owed' = owed,
           wire'[Other(e)] = Append(wire[Other(e)], v)
    PROVE  ToBeRead(Other(e))' = Append(ToBeRead(Other(e)), v)
<1>1. wire[Other(e)] \in Seq(Elements) /\ v \in Elements
  BY TypeUnfolded, EndFacts DEF WiresTyped, Elements
<1>2. /\ Only(wire'[Other(e)], negotiation_type) = Append(Only(wire[Other(e)], negotiation_type), v)
      /\ Only(wire[Other(e)], negotiation_type) \in Seq(negotiation_type)
  BY <1>1, KeepAppend, KeepType
<1>3. \A n \in Seq(negotiation_type) : n \o <<>> = n
  OBVIOUS
<1>4. Append(Only(wire[Other(e)], negotiation_type), v) \in Seq(negotiation_type)
  BY <1>2
<1>. QED BY <1>2, <1>3, <1>4, EndFacts DEF ToBeRead

LEMMA AnswerLater ==
    ASSUME TypeOK, NEW e \in Ends, owed[e] = <<>>, owed'[e] = <<local_negative(e)>>,
           wire'[Other(e)] = wire[Other(e)]
    PROVE  ToBeRead(Other(e))' = Append(ToBeRead(Other(e)), local_negative(e))
<1>1. Only(wire[Other(e)], negotiation_type) \in Seq(negotiation_type) /\ local_negative(e) \in negotiation_type
  BY KeepType, VerbFacts, TypeUnfolded, EndFacts DEF WiresTyped
<1>2. \A n \in Seq(negotiation_type) : n \o <<>> = n /\ n \o <<local_negative(e)>> = Append(n, local_negative(e))
  BY <1>1
<1>. QED BY <1>1, <1>2, EndFacts DEF ToBeRead

\* The return of the handlers writes what is owed, which changes nothing.
LEMMA PayOwed ==
    ASSUME TypeOK, NEW e \in Ends, wire' = [wire EXCEPT ![Other(e)] = @ \o owed[e]],
           owed'[e] = <<>>, owed'[Other(e)] = owed[Other(e)], NEW x \in Ends
    PROVE  ToBeRead(x)' = ToBeRead(x)
<1>1. wire'[Other(e)] = wire[Other(e)] \o owed[e] /\ wire'[e] = wire[e]
  BY PayFacts
<1>2. wire[Other(e)] \in Seq(Elements) /\ local_negative(e) \in negotiation_type /\ local_negative(e) \in Elements
  BY TypeUnfolded, EndFacts, VerbFacts DEF WiresTyped, Elements
<1>3. Only(wire[Other(e)], negotiation_type) \in Seq(negotiation_type)
  BY <1>2, KeepType
<1> HIDE DEF Elements
<1>4. CASE owed[e] = <<>>
  <2>1. wire[Other(e)] \o <<>> = wire[Other(e)]
    BY <1>2
  <2>. QED BY <1>1, <1>4, <2>1, EndFacts DEF ToBeRead
<1>5. CASE owed[e] = <<local_negative(e)>>
  <2>1. wire[Other(e)] \o <<local_negative(e)>> = Append(wire[Other(e)], local_negative(e))
    BY <1>2
  <2>2. /\ wire'[Other(e)] = Append(wire[Other(e)], local_negative(e))
        /\ Only(Append(wire[Other(e)], local_negative(e)), negotiation_type)
              = Append(Only(wire[Other(e)], negotiation_type), local_negative(e))
    BY <1>1, <1>2, <1>5, <2>1, KeepAppend
  <2>3. \A n \in Seq(negotiation_type) : n \o <<local_negative(e)>> = Append(n, local_negative(e))
    BY <1>2
  <2>4. Append(Only(wire[Other(e)], negotiation_type), local_negative(e)) \o <<>>
            = Append(Only(wire[Other(e)], negotiation_type), local_negative(e))
    BY <1>2, <1>3
  <2>. QED BY <1>1, <1>3, <1>5, <2>2, <2>3, <2>4, EndFacts DEF ToBeRead
<1>. QED BY <1>4, <1>5, OwedVerbs

-------------------------------------------------------------------------------
(***************************************************************************)
(* The phases.                                                             *)
(***************************************************************************)
\* The phases as e sees them, by its own state.
LEMMA PhaseInactive ==
    ASSUME Phases, NEW e \in Ends, state_[e] = "inactive"
    PROVE  \/ phase(e, "inactive", "inactive", <<>>, <<>>)
           \/ phase(e, "inactive", "activating", <<>>, <<remote_positive(e)>>)
           \/ phase(e, "inactive", "deactivating", <<local_negative(e)>>, <<>>)
           \/ phase(e, "inactive", "activating", <<local_negative(e)>>, <<>>)
BY EndFacts, VerbFacts DEF Phases, Balanced, Activation, Deactivation, Reactivation, phase

LEMMA PhaseActive ==
    ASSUME Phases, NEW e \in Ends, state_[e] = "active"
    PROVE  \/ phase(e, "active", "active", <<>>, <<>>)
           \/ phase(e, "active", "activating", <<local_positive(e)>>, <<>>)
           \/ phase(e, "active", "deactivating", <<>>, <<remote_negative(e)>>)
           \/ phase(e, "active", "activating", <<>>, <<remote_negative(e)>>)
BY EndFacts, VerbFacts DEF Phases, Balanced, Activation, Deactivation, Reactivation, phase

LEMMA PhaseDeactivating ==
    ASSUME Phases, NEW e \in Ends, state_[e] = "deactivating"
    PROVE  \/ phase(e, "deactivating", "active", <<local_negative(e)>>, <<>>)
           \/ phase(e, "deactivating", "inactive", <<>>, <<remote_negative(e)>>)
           \/ phase(e, "deactivating", "deactivating", <<local_negative(e)>>, <<remote_negative(e)>>)
           \/ phase(e, "deactivating", "activating", <<local_positive(e), local_negative(e)>>, <<>>)
           \/ phase(e, "deactivating", "activating", <<>>, <<remote_negative(e), remote_positive(e)>>)
           \/ phase(e, "deactivating", "activating", <<>>, <<remote_positive(e), remote_negative(e)>>)
           \/ phase(e, "deactivating", "activating", <<local_negative(e)>>, <<remote_negative(e)>>)
BY EndFacts, VerbFacts DEF Phases, Balanced, Activation, Deactivation, Reactivation, phase

LEMMA PhaseActivating ==
    ASSUME Phases, NEW e \in Ends, state_[e] = "activating"
    PROVE  \/ phase(e, "activating", "inactive", <<local_positive(e)>>, <<>>)
           \/ phase(e, "activating", "active", <<>>, <<remote_positive(e)>>)
           \/ phase(e, "activating", "activating", <<local_positive(e)>>, <<remote_positive(e)>>)
           \/ phase(e, "activating", "deactivating", <<local_negative(e), local_positive(e)>>, <<>>)
           \/ phase(e, "activating", "deactivating", <<local_positive(e), local_negative(e)>>, <<>>)
           \/ phase(e, "activating", "activating", <<local_positive(e), local_negative(e)>>, <<>>)
           \/ phase(e, "activating", "active", <<local_negative(e)>>, <<>>)
           \/ phase(e, "activating", "deactivating", <<local_negative(e)>>, <<remote_negative(e)>>)
           \/ phase(e, "activating", "inactive", <<>>, <<remote_negative(e)>>)
           \/ phase(e, "activating", "activating", <<local_negative(e), local_positive(e)>>, <<>>)
           \/ phase(e, "activating", "deactivating", <<>>, <<remote_positive(e), remote_negative(e)>>)
           \/ phase(e, "activating", "activating", <<>>, <<remote_positive(e), remote_negative(e)>>)
           \/ phase(e, "activating", "activating", <<>>, <<remote_negative(e), remote_positive(e)>>)
BY EndFacts, VerbFacts DEF Phases, Balanced, Activation, Deactivation, Reactivation, phase

\* A debt is among what the other end will read.
LEMMA OwedIsToBeRead ==
    ASSUME TypeOK, NEW e \in Ends, ToBeRead(Other(e)) = <<>>
    PROVE  owed[e] = <<>>
<1> DEFINE n == Only(wire[Other(e)], negotiation_type)
<1>1. n \in Seq(negotiation_type) /\ owed[e] \in Seq(negotiation_type)
  BY KeepType, OwedVerbs, TypeUnfolded, EndFacts DEF WiresTyped
<1>2. n \o owed[e] = <<>>
  BY EndFacts DEF ToBeRead
<1> HIDE DEF n
<1>. QED BY <1>1, <1>2

LEMMA ActivatePhase ==
    ASSUME TypeOK, Phases, NEW e \in Ends, state_[e] = "inactive", become(e, "activating"),
           write(e, local_positive(e)), owed' = owed
    PROVE  Phases'
<1> DEFINE o == Other(e)
           yes == local_positive(e)
           no == local_negative(e)
<1>1. state_'[e] = "activating" /\ state_'[o] = state_[o] /\ o \in Ends /\ Other(o) = e
  BY BecomeFacts, EndFacts, StateFacts, TypeUnfolded
<1>2. yes \in negotiation_type /\ no \in negotiation_type /\ yes \in Heard(o)
  BY VerbFacts, HeardFacts
<1>3. /\ owed[e] = <<>> => ToBeRead(o)' = Append(ToBeRead(o), yes)
      /\ owed[e] # <<>> /\ ToBeRead(o) = <<no>> => ToBeRead(o)' = <<yes, no>>
      /\ ToBeRead(e)' = ToBeRead(e)
  BY <1>2, WriteVerb
<1>4. ToBeRead(o) = <<>> => ToBeRead(o)' = <<yes>>
  BY <1>2, <1>3, OwedIsToBeRead, TupleFacts
<1>5. ToBeRead(o) = <<no>> => ToBeRead(o)' \in {<<no, yes>>, <<yes, no>>}
  BY <1>2, <1>3, TupleFacts
<1> HIDE DEF o
<1>6. CASE phase(e, "inactive", "inactive", <<>>, <<>>)
  BY <1>1, <1>3, <1>4, <1>6 DEF phase, Phases, Activation, o
<1>7. CASE phase(e, "inactive", "activating", <<>>, <<remote_positive(e)>>)
  BY <1>1, <1>3, <1>4, <1>7 DEF phase, Phases, Activation, o
<1>8. CASE phase(e, "inactive", "deactivating", <<no>>, <<>>)
  BY <1>1, <1>3, <1>5, <1>8 DEF phase, Phases, Deactivation, Reactivation, o
<1>9. CASE phase(e, "inactive", "activating", <<no>>, <<>>)
  BY <1>1, <1>3, <1>5, <1>9 DEF phase, Phases, Reactivation, o
<1>. QED BY <1>6, <1>7, <1>8, <1>9, PhaseInactive

LEMMA DeactivatePhase ==
    ASSUME TypeOK, Owing, Phases, NEW e \in Ends, state_[e] = "active", become(e, "deactivating"),
           write(e, local_negative(e)), owed' = owed
    PROVE  Phases'
<1> DEFINE o == Other(e)
           yes == local_positive(e)
           no == local_negative(e)
<1>1. state_'[e] = "deactivating" /\ state_'[o] = state_[o] /\ o \in Ends /\ Other(o) = e
  BY BecomeFacts, EndFacts, StateFacts, TypeUnfolded
<1>2. yes \in negotiation_type /\ no \in negotiation_type /\ no \in Heard(o)
  BY VerbFacts, HeardFacts
<1>3. ToBeRead(o)' = Append(ToBeRead(o), no) /\ ToBeRead(e)' = ToBeRead(e)
  BY <1>2, WriteVerb DEF Owing
<1>4. ToBeRead(o) = <<>> => ToBeRead(o)' = <<no>>
  BY <1>2, <1>3, TupleFacts
<1>5. ToBeRead(o) = <<yes>> => ToBeRead(o)' = <<yes, no>>
  <2>1. Append(<<yes>>, no) = <<yes, no>>
    BY <1>2, TupleFacts
  <2>. QED BY <1>3, <2>1
<1>6. local_negative(o) = remote_negative(e) /\ remote_negative(o) = no
  BY VerbFacts
<1> HIDE DEF o
<1>7. CASE phase(e, "active", "active", <<>>, <<>>)
  BY <1>1, <1>3, <1>4, <1>7 DEF phase, Phases, Deactivation, o
<1>8. CASE phase(e, "active", "activating", <<yes>>, <<>>)
  BY <1>1, <1>3, <1>5, <1>8 DEF phase, Phases, Activation, o
<1>9. CASE phase(e, "active", "deactivating", <<>>, <<remote_negative(e)>>)
  BY <1>1, <1>3, <1>4, <1>9 DEF phase, Phases, Deactivation, o
<1>10. CASE phase(e, "active", "activating", <<>>, <<remote_negative(e)>>)
  <2>1. phase(o, "activating", "deactivating", <<local_negative(o)>>, <<remote_negative(o)>>)'
    BY <1>1, <1>3, <1>4, <1>6, <1>10 DEF phase, o, local_negative, remote_negative
  <2>. QED BY <1>1, <2>1 DEF Phases, Reactivation
<1>. QED BY <1>7, <1>8, <1>9, <1>10, PhaseActive

\* A positive verb is heard: e becomes active, and if it was inactive, agrees.
LEMMA PositivePhase ==
    ASSUME TypeOK, Phases, NEW e \in Ends, wire[e] # <<>>, Head(wire[e]) = remote_positive(e),
           become(e, "active"), depth[e] = 0, owed' = owed,
           \/ state_[e] = "inactive" /\ read_and_write(e, local_positive(e))
           \/ requesting(e) /\ read(e)
    PROVE  Phases'
<1> DEFINE o == Other(e)
           yes == local_positive(e)
           no == local_negative(e)
           ryes == remote_positive(e)
           rno == remote_negative(e)
<1>0. /\ state_ \in [Ends -> internal_state] /\ WiresTyped /\ owed[e] = <<>>
  BY TypeUnfolded DEF OwedTyped
<1>1. state_'[e] = "active" /\ state_'[o] = state_[o] /\ o \in Ends /\ Other(o) = e
  BY <1>0, BecomeFacts, EndFacts, StateFacts
<1>2. /\ {yes, no, ryes, rno} \subseteq negotiation_type /\ yes \in Heard(o) /\ ryes # rno
      /\ remote_positive(o) = yes /\ remote_negative(o) = no
      /\ local_positive(o) = ryes /\ local_negative(o) = rno
  BY VerbFacts, HeardFacts
<1>3. wire'[e] = Tail(wire[e])
  BY <1>0, <1>2, ReadFacts, ReadAndWriteFacts
<1>4. ToBeRead(e) # <<>> /\ Head(ToBeRead(e)) = ryes /\ ToBeRead(e)' = Tail(ToBeRead(e))
  BY <1>2, <1>3, ReadVerb
<1>5. /\ <<rno>> # <<>> /\ Head(<<rno>>) = rno /\ Head(<<rno, ryes>>) = rno
      /\ Tail(<<ryes>>) = <<>> /\ Tail(<<ryes, rno>>) = <<rno>>
  BY <1>2, TupleFacts
<1> HIDE DEF o
<1>6. CASE state_[e] = "inactive" /\ read_and_write(e, yes)
  <2>1. ToBeRead(o)' = Append(ToBeRead(o), yes)
    BY <1>0, <1>2, <1>6, AnswerNow, ReadAndWriteFacts DEF o
  <2>2. phase(e, "inactive", "activating", <<>>, <<ryes>>)
    BY <1>4, <1>6, PhaseInactive DEF phase
  <2>3. ToBeRead(o)' = <<yes>> /\ ToBeRead(e)' = <<>> /\ state_[o] = "activating"
    BY <1>2, <1>4, <1>5, <2>1, <2>2, TupleFacts DEF phase, o
  <2>4. phase(o, "activating", "active", <<>>, <<yes>>)'
    BY <1>1, <2>3 DEF phase
  <2>. QED BY <1>1, <1>2, <2>4 DEF Phases, Activation, remote_positive
<1>7. CASE requesting(e) /\ read(e)
  <2>1. ToBeRead(o)' = ToBeRead(o)
    BY <1>0, <1>1, <1>7, ReadFacts DEF ToBeRead, o
  <2>2. CASE state_[e] = "activating"
    <3>1. \/ phase(e, "activating", "active", <<>>, <<ryes>>)
          \/ phase(e, "activating", "activating", <<yes>>, <<ryes>>)
          \/ phase(e, "activating", "deactivating", <<>>, <<ryes, rno>>)
          \/ phase(e, "activating", "activating", <<>>, <<ryes, rno>>)
      BY <1>2, <1>4, <1>5, <2>2, PhaseActivating DEF phase
    <3>2. CASE phase(e, "activating", "active", <<>>, <<ryes>>)
      BY <1>1, <1>4, <1>5, <2>1, <3>2 DEF phase, Phases, Balanced, o
    <3>3. CASE phase(e, "activating", "activating", <<yes>>, <<ryes>>)
      <4>1. phase(o, "activating", "active", <<>>, <<yes>>)'
        BY <1>1, <1>4, <1>5, <2>1, <3>3 DEF phase, o
      <4>. QED BY <1>1, <1>2, <4>1 DEF Phases, Activation, remote_positive
    <3>4. CASE phase(e, "activating", "deactivating", <<>>, <<ryes, rno>>)
      <4>1. phase(o, "deactivating", "active", <<rno>>, <<>>)'
        BY <1>1, <1>4, <1>5, <2>1, <3>4 DEF phase, o
      <4>. QED BY <1>1, <1>2, <4>1 DEF Phases, Deactivation, local_negative
    <3>5. CASE phase(e, "activating", "activating", <<>>, <<ryes, rno>>)
      <4>1. phase(o, "activating", "active", <<rno>>, <<>>)'
        BY <1>1, <1>4, <1>5, <2>1, <3>5 DEF phase, o
      <4>. QED BY <1>1, <1>2, <4>1 DEF Phases, Reactivation, local_negative
    <3>. QED BY <3>1, <3>2, <3>3, <3>4, <3>5
  <2>3. CASE state_[e] = "deactivating"
    <3>1. phase(e, "deactivating", "activating", <<>>, <<ryes, rno>>)
      BY <1>2, <1>4, <1>5, <2>3, PhaseDeactivating DEF phase
    <3>2. phase(o, "activating", "active", <<rno>>, <<>>)'
      BY <1>1, <1>4, <1>5, <2>1, <3>1 DEF phase, o
    <3>. QED BY <1>1, <1>2, <3>2 DEF Phases, Reactivation, local_negative
  <2>. QED BY <1>7, <2>2, <2>3 DEF requesting
<1>. QED BY <1>6, <1>7

\* A negative verb is heard: e becomes inactive, and if it was active, owes the
\* answer.
LEMMA NegativePhase ==
    ASSUME TypeOK, Phases, NEW e \in Ends, wire[e] # <<>>, Head(wire[e]) = remote_negative(e),
           become(e, "inactive"), depth[e] = 0, read(e),
           \/ state_[e] = "active" /\ owed' = [owed EXCEPT ![e] = <<local_negative(e)>>]
           \/ requesting(e) /\ owed' = owed
    PROVE  Phases'
<1> DEFINE o == Other(e)
           yes == local_positive(e)
           no == local_negative(e)
           ryes == remote_positive(e)
           rno == remote_negative(e)
<1>0. /\ state_ \in [Ends -> internal_state] /\ WiresTyped /\ owed[e] = <<>> /\ DOMAIN owed = Ends
  BY TypeUnfolded DEF OwedTyped
<1>1. state_'[e] = "inactive" /\ state_'[o] = state_[o] /\ o \in Ends /\ Other(o) = e /\ o # e
  BY <1>0, BecomeFacts, EndFacts, StateFacts
<1>2. /\ {yes, no, ryes, rno} \subseteq negotiation_type /\ ryes # rno
      /\ remote_positive(o) = yes /\ remote_negative(o) = no
      /\ local_positive(o) = ryes /\ local_negative(o) = rno
  BY VerbFacts
<1>3. wire'[e] = Tail(wire[e]) /\ wire'[o] = wire[o] /\ owed'[o] = owed[o]
  BY <1>0, <1>1, ReadFacts
<1>4. ToBeRead(e) # <<>> /\ Head(ToBeRead(e)) = rno /\ ToBeRead(e)' = Tail(ToBeRead(e))
  BY <1>2, <1>3, ReadVerb
<1>5. /\ Head(<<ryes>>) = ryes /\ Head(<<ryes, rno>>) = ryes
      /\ Tail(<<rno>>) = <<>> /\ Tail(<<rno, ryes>>) = <<ryes>>
  BY <1>2, TupleFacts
<1> HIDE DEF o
<1>6. CASE state_[e] = "active" /\ owed' = [owed EXCEPT ![e] = <<no>>]
  <2>1. ToBeRead(o)' = Append(ToBeRead(o), no)
    <3>1. owed'[e] = <<no>>
      BY <1>0, <1>6
    <3>. QED BY <1>0, <1>3, <3>1, AnswerLater DEF o
  <2>2. \/ phase(e, "active", "deactivating", <<>>, <<rno>>)
        \/ phase(e, "active", "activating", <<>>, <<rno>>)
    BY <1>4, <1>6, PhaseActive DEF phase
  <2>3. /\ ToBeRead(o)' = <<no>> /\ ToBeRead(e)' = <<>>
        /\ state_[o] \in {"deactivating", "activating"}
    BY <1>2, <1>4, <1>5, <2>1, <2>2, TupleFacts DEF phase, o
  <2>4. CASE state_[o] = "deactivating"
    <3>1. phase(o, "deactivating", "inactive", <<>>, <<no>>)'
      BY <1>1, <2>3, <2>4 DEF phase
    <3>. QED BY <1>1, <1>2, <3>1 DEF Phases, Deactivation, remote_negative
  <2>5. CASE state_[o] = "activating"
    <3>1. phase(o, "activating", "inactive", <<>>, <<no>>)'
      BY <1>1, <2>3, <2>5 DEF phase
    <3>. QED BY <1>1, <1>2, <3>1 DEF Phases, Reactivation, remote_negative
  <2>. QED BY <2>3, <2>4, <2>5
<1>7. CASE requesting(e) /\ owed' = owed
  <2>1. ToBeRead(o)' = ToBeRead(o)
    BY <1>1, <1>3, <1>7 DEF ToBeRead
  <2>2. \/ phase(e, state_[e], "inactive", <<>>, <<rno>>)
        \/ phase(e, state_[e], "deactivating", <<no>>, <<rno>>)
        \/ phase(e, state_[e], "activating", <<>>, <<rno, ryes>>)
        \/ phase(e, state_[e], "activating", <<no>>, <<rno>>)
    <3>1. CASE state_[e] = "activating"
      BY <1>2, <1>4, <1>5, <3>1, PhaseActivating DEF phase
    <3>2. CASE state_[e] = "deactivating"
      BY <1>2, <1>4, <1>5, <3>2, PhaseDeactivating DEF phase
    <3>. QED BY <1>7, <3>1, <3>2 DEF requesting
  <2>3. CASE phase(e, state_[e], "inactive", <<>>, <<rno>>)
    BY <1>1, <1>4, <1>5, <2>1, <2>3 DEF phase, Phases, Balanced, o
  <2>4. CASE phase(e, state_[e], "deactivating", <<no>>, <<rno>>)
    <3>1. phase(o, "deactivating", "inactive", <<>>, <<no>>)'
      BY <1>1, <1>4, <1>5, <2>1, <2>4 DEF phase, o
    <3>. QED BY <1>1, <1>2, <3>1 DEF Phases, Deactivation, remote_negative
  <2>5. CASE phase(e, state_[e], "activating", <<>>, <<rno, ryes>>)
    <3>1. phase(o, "activating", "inactive", <<ryes>>, <<>>)'
      BY <1>1, <1>4, <1>5, <2>1, <2>5 DEF phase, o
    <3>. QED BY <1>1, <1>2, <3>1 DEF Phases, Activation, local_positive
  <2>6. CASE phase(e, state_[e], "activating", <<no>>, <<rno>>)
    <3>1. phase(o, "activating", "inactive", <<>>, <<no>>)'
      BY <1>1, <1>4, <1>5, <2>1, <2>6 DEF phase, o
    <3>. QED BY <1>1, <1>2, <3>1 DEF Phases, Reactivation, remote_negative
  <2>. QED BY <2>2, <2>3, <2>4, <2>5, <2>6
<1>. QED BY <1>6, <1>7

\* The phases do not let an end hear what it already is.
LEMMA NothingRepeated ==
    ASSUME TypeOK, Phases, NEW e \in Ends, wire[e] # <<>>
    PROVE  /\ state_[e] = "inactive" => Head(wire[e]) # remote_negative(e)
           /\ state_[e] = "active" => Head(wire[e]) # remote_positive(e)
<1> DEFINE n == Only(wire[e], negotiation_type)
<1>1. Head(wire[e]) \in negotiation_type => ToBeRead(e) # <<>> /\ Head(ToBeRead(e)) = Head(wire[e])
  <2>1. wire[e] \in Seq(Elements) /\ owed[Other(e)] \in Seq(negotiation_type)
    BY TypeUnfolded, OwedVerbs, EndFacts DEF WiresTyped
  <2>2. Head(wire[e]) \in negotiation_type =>
            n # <<>> /\ Head(n) = Head(wire[e]) /\ n \in Seq(negotiation_type)
    BY <2>1, KeepRead, KeepType
  <2> HIDE DEF n
  <2>3. n \in Seq(negotiation_type) /\ n # <<>> =>
            /\ n \o owed[Other(e)] # <<>> /\ Head(n \o owed[Other(e)]) = Head(n)
    BY <2>1
  <2>. QED BY <2>2, <2>3 DEF ToBeRead, n
<1>2. remote_positive(e) \in negotiation_type /\ remote_negative(e) \in negotiation_type
      /\ remote_positive(e) # remote_negative(e)
  BY VerbFacts
<1>3. Head(<<remote_positive(e)>>) = remote_positive(e) /\ Head(<<remote_negative(e)>>) = remote_negative(e)
  BY <1>2, TupleFacts
<1>4. CASE state_[e] = "inactive"
  BY <1>1, <1>2, <1>3, <1>4, PhaseInactive DEF phase
<1>5. CASE state_[e] = "active"
  BY <1>1, <1>2, <1>3, <1>5, PhaseActive DEF phase
<1>. QED BY <1>4, <1>5

LEMMA SamePhase ==
    ASSUME Phases, state_' = state_, \A x \in Ends : ToBeRead(x)' = ToBeRead(x)
    PROVE  Phases'
<1>1. \A x \in Ends : Other(x) \in Ends
  BY EndFacts
<1>. QED BY <1>1 DEF Phases, phase, Balanced, Activation, Deactivation, Reactivation

LEMMA NextPhases == TypeOK /\ Owing /\ Phases /\ [Next]_vars => Phases'
<1> SUFFICES ASSUME TypeOK, Owing, Phases, [Next]_vars PROVE Phases'
  OBVIOUS
<1>1. ASSUME wire' = wire, owed' = owed, state_' = state_ PROVE Phases'
  <2>1. \A x \in Ends : ToBeRead(x)' = ToBeRead(x)
    BY <1>1 DEF ToBeRead
  <2>. QED BY <1>1, <2>1, SamePhase
<1>2. ASSUME NEW e \in Ends,
             \/ activate(e) \/ deactivate(e) \/ write_subnegotiation(e)
             \/ negotiate(e) \/ subnegotiate(e) \/ handlers_return(e)
      PROVE  Phases'
  <2>1. CASE activate(e)
    BY <1>1, <2>1, ActivatePhase DEF activate, owe_nothing_more
  <2>2. CASE deactivate(e)
    BY <1>1, <2>2, DeactivatePhase DEF deactivate, owe_nothing_more
  <2>3. CASE write_subnegotiation(e)
    BY <2>3, WriteSub, SamePhase DEF write_subnegotiation
  <2>4. CASE subnegotiate(e)
    BY <2>4, ReadSub, SamePhase DEF subnegotiate
  <2>5. CASE handlers_return(e)
    <3>1. CASE wire' = wire /\ owed' = owed
      BY <1>1, <2>5, <3>1 DEF handlers_return
    <3>2. CASE /\ wire' = [wire EXCEPT ![Other(e)] = @ \o owed[e]]
               /\ owed' = [owed EXCEPT ![e] = <<>>]
      <4>1. owed'[e] = <<>> /\ owed'[Other(e)] = owed[Other(e)]
        BY <3>2, EndFacts, TypeUnfolded DEF OwedTyped
      <4>. QED BY <2>5, <3>2, <4>1, PayOwed, SamePhase DEF handlers_return
    <3>. QED BY <2>5, <3>1, <3>2 DEF handlers_return
  <2>6. CASE negotiate(e)
    <3>0. depth[e] = 0 /\ wire[e] # <<>>
      BY <2>6 DEF negotiate
    <3>1. CASE negotiate_inactive(e)
      BY <3>0, <3>1, NothingRepeated, PositivePhase DEF negotiate_inactive, owe_nothing_more
    <3>2. CASE negotiate_requesting(e)
      BY <3>0, <3>2, PositivePhase, NegativePhase DEF negotiate_requesting, owe_nothing_more
    <3>3. CASE negotiate_active(e)
      BY <3>0, <3>3, NothingRepeated, NegativePhase DEF negotiate_active, active
    <3>. QED BY <2>6, <3>1, <3>2, <3>3 DEF negotiate
  <2>. QED BY <1>2, <2>1, <2>2, <2>3, <2>4, <2>5, <2>6
<1>3. CASE UNCHANGED vars
  BY <1>1, <1>3 DEF vars
<1>. QED BY <1>2, <1>3 DEF Next

LEMMA InitPhases == Init => Phases
<1> SUFFICES ASSUME Init PROVE Phases
  OBVIOUS
<1>1. Only(<<>>, negotiation_type) = <<>>
  BY ProjectEmpty DEF Only
<1>2. \A e \in Ends : ToBeRead(e) = <<>>
  BY <1>1, EndFacts DEF Init, ToBeRead
<1>3. Balanced("server")
  BY <1>2, EndFacts DEF Balanced, phase, Init, Ends
<1>. QED BY <1>3 DEF Phases, Ends

\* The inductive invariant: whatever the handlers call, in whatever order, the
\* two ends are in one of sixteen phases, and what is told is true.
THEOREM InductiveHolds == Spec => []Inductive
<1>1. Spec => []Phases
  BY InitPhases, NextPhases, TypeCorrect, OwingHolds, PTL DEF Spec
<1>. QED BY <1>1, TypeCorrect, ToldTheTruthHolds, OwingHolds, PTL DEF Inductive

\* Whatever the handlers call, the ends agree on the option when no negotiation
\* is under way, and neither waits for an answer that is not coming.
THEOREM AgreementHolds == Spec => []Agreement
<1>1. TypeOK /\ Phases => Agreement
  <2> SUFFICES ASSUME TypeOK, Phases, Settled
               PROVE  state_["server"] = state_["client"] /\ state_["server"] \in {"inactive", "active"}
    BY DEF Agreement
  <2>1. ASSUME NEW e \in Ends PROVE ToBeRead(e) = <<>>
    <3>1. /\ wire[e] \in Seq(Elements) /\ owed[Other(e)] \in {<<>>, <<local_negative(Other(e))>>}
          /\ local_negative(Other(e)) \in negotiation_type
      BY <2>1, TypeUnfolded, OwedVerbs, VerbFacts, EndFacts DEF WiresTyped
    <3>2. \A i \in DOMAIN (wire[e] \o owed[Other(e)]) : (wire[e] \o owed[Other(e)])[i] = "sub"
      BY <2>1 DEF Settled, Negotiations, Sent
    <3>3. owed[Other(e)] = <<>>
      <4> DEFINE w == wire[e]
                 v == local_negative(Other(e))
      <4>1. SUFFICES ASSUME owed[Other(e)] = <<v>> PROVE FALSE
        BY <3>1
      <4>2. v # "sub" /\ v \in Elements
        BY <3>1, VerbFacts DEF Elements
      <4> HIDE DEF w, v, Elements
      <4>3. Len(w) + 1 \in DOMAIN (w \o <<v>>) /\ (w \o <<v>>)[Len(w) + 1] = v
        BY <3>1, <4>2 DEF w
      <4>. QED BY <3>2, <4>1, <4>2, <4>3 DEF w
    <3>4. wire[e] \o <<>> = wire[e] /\ DOMAIN wire[e] = 1..Len(wire[e])
      BY <3>1
    <3>5. \A i \in 1..Len(wire[e]) : wire[e][i] = "sub"
      BY <3>2, <3>3, <3>4
    <3>6. Only(wire[e], negotiation_type) = <<>>
      BY <3>1, <3>5, OnlySubs
    <3>. QED BY <3>3, <3>6 DEF ToBeRead
  <2>2. \A a : <<a>> # <<>>
    OBVIOUS
  <2>3. \A a, b : <<a, b>> # <<>>
    OBVIOUS
  <2>4. PICK e \in Ends : Balanced(e)
    BY <2>1, <2>2, <2>3, EndFacts DEF Phases, Activation, Deactivation, Reactivation, phase
  <2>. QED BY <2>4 DEF Balanced, phase, Ends, Other
<1>. QED BY <1>1, InductiveHolds, PTL DEF Inductive

-------------------------------------------------------------------------------
(***************************************************************************)
(* The pair in which a negotiation and its answer are one step.            *)
(***************************************************************************)
Mapped == [e \in Ends |-> Sent(e)]

LEMMA AtomicFacts ==
    ASSUME NEW e \in Ends
    PROVE  /\ Atomic!Ends = Ends
           /\ Atomic!local_positive(e) = local_positive(e)
           /\ Atomic!local_negative(e) = local_negative(e)
           /\ Atomic!remote_positive(e) = remote_positive(e)
           /\ Atomic!remote_negative(e) = remote_negative(e)
           /\ Atomic!requesting(e) = requesting(e)
           /\ Atomic!active(e) = active(e)
           /\ Atomic!Other(e) = Other(e)
           /\ \A s : Atomic!become(e, s) = become(e, s)
BY DEF Atomic!Ends, Ends, Atomic!local_positive, Atomic!local_negative, Atomic!remote_positive,
       Atomic!remote_negative, local_positive, local_negative, remote_positive, remote_negative,
       Other, Atomic!requesting, requesting, Atomic!active, active, Atomic!Other,
       Atomic!become, become

\* What an end has been sent, now and after a step.
LEMMA SentFacts ==
    ASSUME TypeOK, NEW e \in Ends
    PROVE  /\ Sent(e) = wire[e] \o owed[Other(e)]
           /\ Sent(Other(e)) = wire[Other(e)] \o owed[e]
           /\ Sent(e)' = wire'[e] \o owed'[Other(e)]
           /\ Sent(Other(e))' = wire'[Other(e)] \o owed'[e]
           /\ wire[e] \in Seq(Elements) /\ wire[Other(e)] \in Seq(Elements)
           /\ owed[e] \in Seq(Elements) /\ owed[Other(e)] \in Seq(Elements)
           /\ Sent(e) \in Seq(Elements) /\ Sent(Other(e)) \in Seq(Elements)
<1>1. Other(e) \in Ends /\ Other(Other(e)) = e
  BY EndFacts
<1>2. /\ wire[e] \in Seq(Elements) /\ wire[Other(e)] \in Seq(Elements)
      /\ owed[e] \in Seq(Elements) /\ owed[Other(e)] \in Seq(Elements)
  BY <1>1, TypeUnfolded, OwedIsHeard DEF WiresTyped
<1>3. /\ wire[e] \o owed[Other(e)] \in Seq(Elements)
      /\ wire[Other(e)] \o owed[e] \in Seq(Elements)
  <2> HIDE DEF Elements
  <2>. QED BY <1>2
<1>. QED BY <1>1, <1>2, <1>3 DEF Sent

\* Mapped from what the two ends have been sent.
LEMMA MappedIs ==
    ASSUME TypeOK, NEW e \in Ends
    PROVE  /\ Mapped[e] = Sent(e) /\ Mapped[Other(e)] = Sent(Other(e))
           /\ \A v : Sent(e)' = Sent(e) /\ Sent(Other(e))' = Append(Sent(Other(e)), v)
                 => Atomic!write(e, v)
           /\ Sent(e)' = Tail(Sent(e)) /\ Sent(Other(e))' = Sent(Other(e)) => Atomic!read(e)
           /\ \A v : Sent(e)' = Tail(Sent(e)) /\ Sent(Other(e))' = Append(Sent(Other(e)), v)
                 => Atomic!read_and_write(e, v)
           /\ Sent(e)' = Sent(e) /\ Sent(Other(e))' = Sent(Other(e)) => Mapped' = Mapped
<1> DEFINE o == Other(e)
           m == Mapped
           mm == Mapped'
<1>1. o \in Ends /\ o # e /\ \A x \in Ends : x = e \/ x = o
  BY EndFacts
<1>2. /\ m = [x \in Ends |-> Sent(x)] /\ mm = [x \in Ends |-> Sent(x)']
      /\ m[e] = Sent(e) /\ m[o] = Sent(o) /\ mm[e] = Sent(e)' /\ mm[o] = Sent(o)'
  BY <1>1 DEF Mapped
<1>3. /\ \A v : Atomic!write(e, v) <=> mm = [m EXCEPT ![o] = Append(@, v)]
      /\ Atomic!read(e) <=> mm = [m EXCEPT ![e] = Tail(@)]
      /\ \A v : Atomic!read_and_write(e, v) <=> mm = [m EXCEPT ![e] = Tail(@), ![o] = Append(@, v)]
  BY AtomicFacts DEF Atomic!write, Atomic!read, Atomic!read_and_write, Mapped
<1> HIDE DEF o, m, mm
<1>4. /\ DOMAIN m = Ends /\ DOMAIN mm = Ends
      /\ m = [x \in Ends |-> m[x]] /\ mm = [x \in Ends |-> mm[x]]
  BY <1>2
<1>5. ASSUME NEW a, NEW b, mm[e] = a, mm[o] = b
      PROVE  mm = [m EXCEPT ![e] = a, ![o] = b]
  BY <1>1, <1>4, <1>5
<1>6. ASSUME mm[e] = m[e] PROVE \A b : mm[o] = b => mm = [m EXCEPT ![o] = b]
  BY <1>1, <1>4, <1>6
<1>7. ASSUME mm[o] = m[o] PROVE \A a : mm[e] = a => mm = [m EXCEPT ![e] = a]
  BY <1>1, <1>4, <1>7
<1>8. ASSUME mm[e] = m[e], mm[o] = m[o] PROVE mm = m
  BY <1>1, <1>4, <1>8
<1>9. ASSUME NEW v, Sent(e)' = Sent(e), Sent(o)' = Append(Sent(o), v) PROVE Atomic!write(e, v)
  BY <1>1, <1>2, <1>3, <1>4, <1>6, <1>9
<1>10. ASSUME Sent(e)' = Tail(Sent(e)), Sent(o)' = Sent(o) PROVE Atomic!read(e)
  BY <1>1, <1>2, <1>3, <1>4, <1>7, <1>10
<1>11. ASSUME NEW v, Sent(e)' = Tail(Sent(e)), Sent(o)' = Append(Sent(o), v)
       PROVE  Atomic!read_and_write(e, v)
  <2>1. mm = [m EXCEPT ![e] = Tail(m[e]), ![o] = Append(m[o], v)]
    BY <1>2, <1>5, <1>11
  <2>2. mm = [m EXCEPT ![e] = Tail(@), ![o] = Append(@, v)]
    BY <1>1, <1>4, <2>1
  <2>. QED BY <1>3, <2>2
<1>. QED BY <1>2, <1>8, <1>9, <1>10, <1>11 DEF o, m, mm

LEMMA ConcatHead ==
    ASSUME NEW S, NEW w \in Seq(S), NEW x \in Seq(S), w # <<>>
    PROVE  /\ Tail(w) \o x = Tail(w \o x)
           /\ w \o x # <<>> /\ Head(w \o x) = Head(w)
OBVIOUS

LEMMA ConcatLast ==
    ASSUME NEW S, NEW w \in Seq(S), NEW v \in S
    PROVE  /\ w \o <<>> = w /\ w \o <<v>> = Append(w, v)
           /\ Append(w, v) \o <<>> = Append(w, v)
OBVIOUS

\* What is written by an end that owes nothing.
LEMMA MappedWrite ==
    ASSUME TypeOK, NEW e \in Ends, NEW v \in Heard(Other(e)), owed[e] = <<>>,
           write(e, v), owed' = owed
    PROVE  Atomic!write(e, v) /\ Sent(Other(e)) = wire[Other(e)]
<1>1. wire'[Other(e)] = Append(wire[Other(e)], v) /\ wire'[e] = wire[e]
  BY WriteFacts, TypeUnfolded
<1>2. v \in Elements
  BY HeardFacts, EndFacts
<1> HIDE DEF Elements
<1>3. \A w \in Seq(Elements) : w \o <<>> = w /\ Append(w, v) \o <<>> = Append(w, v)
  BY <1>2
<1>4. wire[Other(e)] \in Seq(Elements)
  BY SentFacts
<1>5. Sent(e)' = Sent(e)
  BY <1>1, SentFacts
<1>6. Sent(Other(e)) = wire[Other(e)]
  <2>1. Sent(Other(e)) = wire[Other(e)] \o <<>>
    BY SentFacts
  <2>. QED BY <1>3, <1>4, <2>1
<1>7. Sent(Other(e))' = Append(wire[Other(e)], v)
  <2>1. Sent(Other(e))' = Append(wire[Other(e)], v) \o <<>>
    BY <1>1, SentFacts
  <2>. QED BY <1>3, <1>4, <2>1
<1>. QED BY <1>5, <1>6, <1>7, MappedIs

LEMMA MappedRead ==
    ASSUME TypeOK, NEW e \in Ends, wire[e] # <<>>, read(e), owed' = owed
    PROVE  Atomic!read(e)
<1>0. /\ wire[e] \in Seq(Elements) /\ wire[Other(e)] \in Seq(Elements)
      /\ owed[Other(e)] \in Seq(Elements)
  BY SentFacts
<1>1. wire'[Other(e)] = wire[Other(e)] /\ wire'[e] = Tail(wire[e])
  BY ReadFacts, TypeUnfolded
<1> HIDE DEF Elements
<1>2. Tail(wire[e]) \o owed[Other(e)] = Tail(wire[e] \o owed[Other(e)])
  BY <1>0, ConcatHead
<1>3. Sent(e)' = Tail(Sent(e)) /\ Sent(Other(e))' = Sent(Other(e))
  BY <1>1, <1>2, SentFacts
<1>. QED BY <1>3, MappedIs

LEMMA MappedHead ==
    ASSUME TypeOK, NEW e \in Ends, wire[e] # <<>>
    PROVE  Mapped[e] # <<>> /\ Head(Mapped[e]) = Head(wire[e])
<1>0. /\ wire[e] \in Seq(Elements) /\ wire[Other(e)] \in Seq(Elements)
      /\ owed[Other(e)] \in Seq(Elements)
  BY SentFacts
<1> HIDE DEF Elements
<1>1. wire[e] \o owed[Other(e)] # <<>> /\ Head(wire[e] \o owed[Other(e)]) = Head(wire[e])
  BY <1>0, ConcatHead
<1>. QED BY <1>1, SentFacts, MappedIs

LEMMA MappedReadAndWrite ==
    ASSUME TypeOK, NEW e \in Ends, wire[e] # <<>>, NEW v \in Heard(Other(e)), owed[e] = <<>>,
           read_and_write(e, v), owed' = owed
    PROVE  Atomic!read_and_write(e, v)
<1>0. /\ wire[e] \in Seq(Elements) /\ wire[Other(e)] \in Seq(Elements)
      /\ owed[Other(e)] \in Seq(Elements)
  BY SentFacts
<1>1. wire'[Other(e)] = Append(wire[Other(e)], v) /\ wire'[e] = Tail(wire[e])
  BY ReadAndWriteFacts, TypeUnfolded
<1>2. v \in Elements
  BY HeardFacts, EndFacts
<1> HIDE DEF Elements
<1>3. /\ wire[Other(e)] \o <<>> = wire[Other(e)]
      /\ Append(wire[Other(e)], v) \o <<>> = Append(wire[Other(e)], v)
      /\ Tail(wire[e]) \o owed[Other(e)] = Tail(wire[e] \o owed[Other(e)])
  BY <1>0, <1>2, ConcatHead, ConcatLast
<1>4. Sent(e)' = Tail(Sent(e)) /\ Sent(Other(e))' = Append(Sent(Other(e)), v)
  BY <1>1, <1>3, SentFacts
<1>. QED BY <1>4, MappedIs

\* An answer that is delayed counts as written.
LEMMA MappedDelay ==
    ASSUME TypeOK, NEW e \in Ends, wire[e] # <<>>, NEW v \in Heard(Other(e)), owed[e] = <<>>,
           read(e), owed' = [owed EXCEPT ![e] = <<v>>]
    PROVE  Atomic!read_and_write(e, v)
<1>0. /\ wire[e] \in Seq(Elements) /\ wire[Other(e)] \in Seq(Elements)
      /\ owed[Other(e)] \in Seq(Elements)
  BY SentFacts
<1>1. wire'[Other(e)] = wire[Other(e)] /\ wire'[e] = Tail(wire[e])
  BY ReadFacts, TypeUnfolded
<1>2. v \in Elements /\ owed'[e] = <<v>> /\ owed'[Other(e)] = owed[Other(e)]
  BY HeardFacts, EndFacts, TypeUnfolded DEF OwedTyped
<1> HIDE DEF Elements
<1>3. /\ wire[Other(e)] \o <<>> = wire[Other(e)]
      /\ wire[Other(e)] \o <<v>> = Append(wire[Other(e)], v)
      /\ Tail(wire[e]) \o owed[Other(e)] = Tail(wire[e] \o owed[Other(e)])
  BY <1>0, <1>2, ConcatHead, ConcatLast
<1>4. Sent(e)' = Tail(Sent(e)) /\ Sent(Other(e))' = Append(Sent(Other(e)), v)
  BY <1>1, <1>2, <1>3, SentFacts
<1>. QED BY <1>4, MappedIs

\* ... and makes no difference when it is.
LEMMA MappedPay ==
    ASSUME TypeOK, NEW e \in Ends, wire' = [wire EXCEPT ![Other(e)] = @ \o owed[e]],
           owed' = [owed EXCEPT ![e] = <<>>]
    PROVE  Mapped' = Mapped
<1>1. wire'[Other(e)] = wire[Other(e)] \o owed[e] /\ wire'[e] = wire[e]
  BY PayFacts
<1>2. owed'[e] = <<>> /\ owed'[Other(e)] = owed[Other(e)]
  BY EndFacts, TypeUnfolded DEF OwedTyped
<1> HIDE DEF Elements
<1>3. \A w \in Seq(Elements) : w \o <<>> = w
  OBVIOUS
<1>4. Sent(e)' = Sent(e) /\ Sent(Other(e))' = Sent(Other(e))
  BY <1>1, <1>2, <1>3, SentFacts, ZenonT(40)
<1>. QED BY <1>4, MappedIs

LEMMA InitImplements == Init => Atomic!Init
<1>1. \A e \in Ends : Other(e) \in Ends
  BY EndFacts
<1>2. <<>> \o <<>> = <<>>
  OBVIOUS
<1>. QED BY <1>1, <1>2 DEF Init, Atomic!Init, Atomic!Ends, Ends, Sent

\* Every step of a program whose handlers do not activate is one of the pair, or
\* none.
LEMMA NextImplements ==
    ASSUME Unchecked = {} \/ "write_subnegotiation" \notin HandlerCalls
    PROVE  TypeOK /\ Owing /\ [Next]_vars => [NeverReactivate => [Atomic!Next]_(Atomic!vars)]_vars
<1> SUFFICES ASSUME TypeOK, Owing, Next, NeverReactivate
             PROVE  Atomic!Next \/ UNCHANGED Atomic!vars
  OBVIOUS
<1>1. PICK e \in Ends :
          \/ activate(e) \/ deactivate(e) \/ write_subnegotiation(e)
          \/ negotiate(e) \/ subnegotiate(e) \/ handlers_return(e)
  BY DEF Next
<1>2. /\ state_ \in [Ends -> internal_state] /\ OwedTyped /\ handlers_call \subseteq HandlerCalls
      /\ Mapped[e] = Sent(e)
  BY TypeUnfolded, MappedIs
<1>3. ASSUME Mapped' = Mapped, state_' = state_ PROVE UNCHANGED Atomic!vars
  BY <1>3 DEF Atomic!vars, Mapped
<1>4. owed[e] # <<>> => depth[e] > 0 /\ state_[e] = "inactive"
  BY <1>2 DEF OwedTyped, Owing
<1>5. /\ local_positive(e) \in Heard(Other(e)) /\ local_negative(e) \in Heard(Other(e))
      /\ "sub" \in Heard(Other(e))
  BY HeardFacts
<1>6. ASSUME wire' = wire, owed' = owed, state_' = state_ PROVE UNCHANGED Atomic!vars
  <2>1. \A x \in Ends : Sent(x)' = Sent(x)
    BY <1>6 DEF Sent
  <2>. QED BY <1>3, <1>6, <2>1 DEF Mapped
<1>7. /\ e \in Atomic!Ends
      /\ \/ Atomic!activate(e) \/ Atomic!deactivate(e) \/ Atomic!write_subnegotiation(e)
         \/ Atomic!negotiate(e) \/ Atomic!subnegotiate(e)
      => Atomic!Next
  BY DEF Atomic!Next
<1>8. e \in Atomic!Ends
  BY AtomicFacts
<1>9. CASE activate(e)
  <2>1. CASE state_[e] = "inactive" /\ become(e, "activating") /\ write(e, local_positive(e))
    <3>1. depth[e] = 0 /\ owed' = owed
      BY <1>9 DEF activate, may_call, NeverReactivate, owe_nothing_more
    <3>2. Atomic!write(e, local_positive(e))
      BY <1>4, <1>5, <2>1, <3>1, MappedWrite
    <3>3. Atomic!activate(e)
      BY <2>1, <3>2, AtomicFacts DEF Atomic!activate
    <3>. QED BY <1>7, <1>8, <3>3
  <2>2. CASE UNCHANGED <<state_, wire>>
    BY <1>6, <1>9, <2>2 DEF activate, owe_nothing_more
  <2>. QED BY <1>9, <2>1, <2>2 DEF activate
<1>10. CASE deactivate(e)
  <2>1. CASE state_[e] = "active" /\ become(e, "deactivating") /\ write(e, local_negative(e))
    <3>1. Atomic!write(e, local_negative(e))
      BY <1>4, <1>5, <1>10, <2>1, MappedWrite DEF deactivate, owe_nothing_more
    <3>2. Atomic!deactivate(e)
      BY <2>1, <3>1, AtomicFacts DEF Atomic!deactivate
    <3>. QED BY <1>7, <1>8, <3>2
  <2>2. CASE UNCHANGED <<state_, wire>>
    BY <1>6, <1>10, <2>2 DEF deactivate, owe_nothing_more
  <2>. QED BY <1>10, <2>1, <2>2 DEF deactivate
<1>11. CASE write_subnegotiation(e)
  <2>1. owed[e] = <<>>
    <3>1. CASE Unchecked = {}
      BY <1>4, <1>11, <3>1 DEF write_subnegotiation, active
    <3>2. CASE "write_subnegotiation" \notin HandlerCalls
      BY <1>2, <1>4, <1>11, <3>2 DEF write_subnegotiation, may_call
    <3>. QED BY <3>1, <3>2
  <2>2. Atomic!write(e, "sub") /\ Sent(Other(e)) = wire[Other(e)]
    BY <1>5, <1>11, <2>1, MappedWrite DEF write_subnegotiation
  <2>3. Atomic!write_subnegotiation(e)
    <3>1. /\ active(e) \/ e \in Unchecked
          /\ Len(Sent(Other(e))) < MaxWire
          /\ UNCHANGED state_
      BY <1>11, <2>2 DEF write_subnegotiation
    <3>2. Mapped[Other(e)] = Sent(Other(e))
      BY MappedIs
    <3>. QED BY <2>2, <3>1, <3>2, AtomicFacts DEF Atomic!write_subnegotiation, Mapped
  <2>. QED BY <1>7, <1>8, <2>3
<1>12. CASE negotiate(e)
  <2>1. wire[e] # <<>> /\ owed[e] = <<>> /\ Mapped[e] # <<>> /\ Head(Mapped[e]) = Head(wire[e])
    BY <1>4, <1>12, MappedHead DEF negotiate
  <2>2. ASSUME \/ /\ Head(wire[e]) = remote_positive(e)
                  /\ become(e, "active")
                  /\ \/ ~requesting(e) /\ Atomic!read_and_write(e, local_positive(e))
                     \/ requesting(e) /\ Atomic!read(e)
               \/ /\ Head(wire[e]) = remote_negative(e)
                  /\ become(e, "inactive")
                  /\ \/ ~requesting(e) /\ Atomic!read_and_write(e, local_negative(e))
                     \/ requesting(e) /\ Atomic!read(e)
        PROVE  Atomic!Next
    <3>1. Atomic!negotiate(e)
      BY <2>1, <2>2, AtomicFacts DEF Atomic!negotiate, Mapped
    <3>. QED BY <1>7, <1>8, <3>1
  <2>3. ASSUME NEW s, state_[e] = s, state_' = state_ PROVE become(e, s)
    BY <1>2, <2>3 DEF become
  <2>4. ASSUME NEW v \in Heard(Other(e)), read_and_write(e, v), owed' = owed
        PROVE  Atomic!read_and_write(e, v)
    BY <2>1, <2>4, MappedReadAndWrite
  <2>5. CASE negotiate_inactive(e)
    BY <1>5, <2>2, <2>3, <2>4, <2>5 DEF negotiate_inactive, requesting, owe_nothing_more
  <2>6. CASE negotiate_requesting(e)
    <3>1. Atomic!read(e)
      BY <2>1, <2>6, MappedRead DEF negotiate_requesting, owe_nothing_more
    <3>. QED BY <2>2, <2>6, <3>1 DEF negotiate_requesting
  <2>7. CASE negotiate_active(e)
    <3>1. ~requesting(e) /\ state_[e] = "active"
      BY <2>7 DEF negotiate_active, active, requesting
    <3>2. CASE read_and_write(e, local_positive(e))
               /\ Head(wire[e]) = remote_positive(e) /\ UNCHANGED <<state_, owed>>
      BY <1>5, <2>2, <2>3, <2>4, <3>1, <3>2
    <3>3. CASE /\ Head(wire[e]) = remote_negative(e) /\ become(e, "inactive") /\ read(e)
               /\ owed' = [owed EXCEPT ![e] = <<local_negative(e)>>]
      <4>1. Atomic!read_and_write(e, local_negative(e))
        BY <1>5, <2>1, <3>3, MappedDelay
      <4>. QED BY <2>2, <3>1, <3>3, <4>1
    <3>. QED BY <2>7, <3>2, <3>3 DEF negotiate_active
  <2>. QED BY <1>12, <2>5, <2>6, <2>7 DEF negotiate
<1>13. CASE subnegotiate(e)
  <2>1. Atomic!read(e) /\ Mapped[e] # <<>> /\ Head(Mapped[e]) = "sub"
    BY <1>13, MappedRead, MappedHead DEF subnegotiate
  <2>2. Atomic!subnegotiate(e)
    BY <1>13, <2>1 DEF subnegotiate, Atomic!subnegotiate, Mapped
  <2>. QED BY <1>7, <1>8, <2>2
<1>14. CASE handlers_return(e)
  <2>1. CASE wire' = wire /\ owed' = owed
    BY <1>6, <1>14, <2>1 DEF handlers_return
  <2>2. CASE /\ wire' = [wire EXCEPT ![Other(e)] = @ \o owed[e]]
             /\ owed' = [owed EXCEPT ![e] = <<>>]
    BY <1>3, <1>14, <2>2, MappedPay DEF handlers_return
  <2>. QED BY <1>14, <2>1, <2>2 DEF handlers_return
<1>. QED BY <1>1, <1>9, <1>10, <1>11, <1>12, <1>13, <1>14

\* As long as no handler activates, the peer sees a pair in which a negotiation
\* and its answer are one step: the safety part of ImplementsOptionPair.  An end
\* that does not check active() must not write a subnegotiation from a handler,
\* which would overtake the answer that is delayed.
THEOREM AtomicHolds ==
    ASSUME Unchecked = {} \/ "write_subnegotiation" \notin HandlerCalls
    PROVE  Spec => StepsOfOptionPair
BY TypeCorrect, OwingHolds, InitImplements, NextImplements, PTL DEF Spec, StepsOfOptionPair
===============================================================================
