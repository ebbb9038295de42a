--------------------------- MODULE OptionPairProofs ---------------------------
(***************************************************************************)
(* Proofs about OptionPair, for every choice of Unchecked and MaxWire.     *)
(***************************************************************************)
EXTENDS OptionPairInvariant, TLAPS, SequenceTheorems, FiniteSetTheorems

Elements == negotiation_type \cup {"sub"}

-------------------------------------------------------------------------------
(***************************************************************************)
(* The verbs: what one end calls local the other calls remote, and an end  *)
(* tells its two remote verbs and a subnegotiation apart.                  *)
(***************************************************************************)
LEMMA VerbFacts ==
    ASSUME NEW e \in Ends
    PROVE  /\ Other(e) \in Ends
           /\ Other(e) # e
           /\ Other(Other(e)) = e
           /\ local_positive(e) = remote_positive(Other(e))
           /\ local_negative(e) = remote_negative(Other(e))
           /\ remote_positive(e) # remote_negative(e)
           /\ remote_positive(e) # "sub"
           /\ remote_negative(e) # "sub"
           /\ Verbs(e) \subseteq negotiation_type
           /\ \A x \in Ends : x = e \/ x = Other(e)
BY DEF Ends, Other, Verbs, negotiation_type, local_positive, local_negative,
       remote_positive, remote_negative

(***************************************************************************)
(* Wires, and the next elements of a wire.                                 *)
(***************************************************************************)
LEMMA AppendFacts ==
    ASSUME NEW S, NEW w \in Seq(S), NEW v \in S
    PROVE  /\ Append(w, v) \in Seq(S)
           /\ Append(w, v) # <<>>
           /\ Len(w) \in Nat
           /\ Len(Append(w, v)) = Len(w) + 1
           /\ Append(w, v)[Len(w) + 1] = v
           /\ \A i \in 1..Len(w) : Append(w, v)[i] = w[i]
BY AppendProperties, LenProperties

LEMMA TailFacts ==
    ASSUME NEW S, NEW w \in Seq(S), w # <<>>
    PROVE  /\ Tail(w) \in Seq(S)
           /\ Head(w) \in S
           /\ Head(w) = w[1]
           /\ Len(w) \in Nat \ {0}
           /\ Len(Tail(w)) = Len(w) - 1
           /\ \A i \in 1..(Len(w) - 1) : Tail(w)[i] = w[i + 1]
BY HeadTailProperties, EmptySeq, LenProperties

\* What a step does to the wires, end by end.
LEMMA WriteFacts ==
    ASSUME TypeOK, NEW e \in Ends, NEW v \in Verbs(Other(e)) \cup {"sub"}, write(e, v)
    PROVE  /\ wire' \in [Ends -> Seq(Elements)]
           /\ wire'[Other(e)] = Append(wire[Other(e)], v)
           /\ wire'[e] = wire[e]
           /\ \A x \in Ends : wire'[x] \in Seq(Verbs(x) \cup {"sub"})
<1>1. v \in Elements
  BY VerbFacts DEF Elements
<1>2. Append(wire[Other(e)], v) \in Seq(Elements)
  BY <1>1, VerbFacts, AppendProperties DEF TypeOK, Elements
<1>3. Append(wire[Other(e)], v) \in Seq(Verbs(Other(e)) \cup {"sub"})
  BY VerbFacts, AppendProperties DEF TypeOK
<1> QED BY <1>2, <1>3, VerbFacts DEF write, TypeOK, Elements

LEMMA ReadFacts ==
    ASSUME TypeOK, NEW e \in Ends, wire[e] # <<>>, read(e)
    PROVE  /\ wire' \in [Ends -> Seq(Elements)]
           /\ wire'[e] = Tail(wire[e])
           /\ wire'[Other(e)] = wire[Other(e)]
           /\ \A x \in Ends : wire'[x] \in Seq(Verbs(x) \cup {"sub"})
<1>1. Tail(wire[e]) \in Seq(Elements)
  BY HeadTailProperties DEF TypeOK, Elements
<1>2. Tail(wire[e]) \in Seq(Verbs(e) \cup {"sub"})
  BY HeadTailProperties DEF TypeOK
<1> QED BY <1>1, <1>2, VerbFacts, SMTT(30) DEF read, TypeOK, Elements

LEMMA ReadAndWriteFacts ==
    ASSUME TypeOK, NEW e \in Ends, NEW v \in Verbs(Other(e)), wire[e] # <<>>,
           read_and_write(e, v)
    PROVE  /\ wire' \in [Ends -> Seq(Elements)]
           /\ wire'[e] = Tail(wire[e])
           /\ wire'[Other(e)] = Append(wire[Other(e)], v)
           /\ \A x \in Ends : wire'[x] \in Seq(Verbs(x) \cup {"sub"})
<1>1. v \in Elements
  BY VerbFacts DEF Elements
<1>2. Append(wire[Other(e)], v) \in Seq(Elements)
  BY <1>1, VerbFacts, AppendProperties DEF TypeOK, Elements
<1>3. Append(wire[Other(e)], v) \in Seq(Verbs(Other(e)) \cup {"sub"})
  BY VerbFacts, AppendProperties DEF TypeOK
<1>4. Tail(wire[e]) \in Seq(Elements)
  BY HeadTailProperties DEF TypeOK, Elements
<1>5. Tail(wire[e]) \in Seq(Verbs(e) \cup {"sub"})
  BY HeadTailProperties DEF TypeOK
<1> QED BY <1>2, <1>3, <1>4, <1>5, VerbFacts, ZenonT(40) DEF read_and_write, TypeOK, Elements

LEMMA LocalVerbs ==
    ASSUME NEW e \in Ends
    PROVE  local_positive(e) \in Verbs(Other(e)) /\ local_negative(e) \in Verbs(Other(e))
BY VerbFacts DEF Verbs

-------------------------------------------------------------------------------
(***************************************************************************)
(* Type correctness.                                                       *)
(***************************************************************************)
LEMMA InitType == Init => TypeOK
BY EmptySeq DEF Init, TypeOK, internal_state

LEMMA NextType ==
    ASSUME TypeOK, [Next]_vars
    PROVE  TypeOK'
<1>1. CASE UNCHANGED vars
  BY <1>1 DEF vars, TypeOK
<1>2. ASSUME NEW e \in Ends, activate(e) PROVE TypeOK'
  BY <1>2, WriteFacts, LocalVerbs DEF activate, become, TypeOK, internal_state, Elements
<1>3. ASSUME NEW e \in Ends, deactivate(e) PROVE TypeOK'
  BY <1>3, WriteFacts, LocalVerbs DEF deactivate, become, TypeOK, internal_state, Elements
<1>4. ASSUME NEW e \in Ends, write_subnegotiation(e) PROVE TypeOK'
  BY <1>4, WriteFacts DEF write_subnegotiation, TypeOK, Elements
<1>5. ASSUME NEW e \in Ends, negotiate(e) PROVE TypeOK'
  <2>1. state_' \in [Ends -> internal_state]
    BY <1>5 DEF negotiate, become, TypeOK, internal_state
  <2>2. wire[e] # <<>> /\ (read(e) \/ \E v \in Verbs(Other(e)) : read_and_write(e, v))
    BY <1>5, LocalVerbs DEF negotiate
  <2> QED BY <2>1, <2>2, ReadFacts, ReadAndWriteFacts DEF TypeOK, Elements
<1>6. ASSUME NEW e \in Ends, subnegotiate(e) PROVE TypeOK'
  BY <1>6, ReadFacts DEF subnegotiate, TypeOK, Elements
<1> QED BY <1>1, <1>2, <1>3, <1>4, <1>5, <1>6 DEF Next

\* The initial states, and every step, keep the types of state_ and wire.
THEOREM TypeCorrect == Spec => []TypeOK
<1> QED BY InitType, NextType, PTL DEF Spec

-------------------------------------------------------------------------------
(***************************************************************************)
(* The patterns of OptionPairInvariant under Append and Tail.              *)
(***************************************************************************)
LEMMA AppendPattern ==
    ASSUME NEW w \in Seq(Elements), NEW v \in negotiation_type, NEW u, NEW t
    PROVE  /\ Quiet(w) => Quiet(Append(w, "sub"))
           /\ Quiet(w) => One(Append(w, v), v)
           /\ One(w, u) => One(Append(w, "sub"), u)
           /\ One(w, u) => Two(Append(w, v), u, v)
           /\ Two(w, u, t) => Two(Append(w, "sub"), u, t)
<1>1. \A x \in Elements :
         /\ Len(w) \in Nat
         /\ Len(Append(w, x)) = Len(w) + 1
         /\ Append(w, x)[Len(w) + 1] = x
         /\ \A i \in 1..Len(w) : Append(w, x)[i] = w[i]
  BY AppendFacts
<1>2. v \in Elements /\ "sub" \in Elements /\ v # "sub"
  BY DEF Elements, negotiation_type
<1>3. Quiet(w) => Quiet(Append(w, "sub"))
  BY <1>1, <1>2 DEF Quiet
<1>4. Quiet(w) => One(Append(w, v), v)
  BY <1>1, <1>2 DEF Quiet, One
<1>5. One(w, u) => One(Append(w, "sub"), u)
  BY <1>1, <1>2 DEF One
<1>6. ASSUME One(w, u) PROVE Two(Append(w, v), u, v)
  <2>1. PICK k \in 1..Len(w) : w[k] = u /\ \A i \in 1..Len(w) : i # k => w[i] = "sub"
    BY <1>6 DEF One
  <2>2. /\ k \in 1..Len(Append(w, v)) /\ Len(w) + 1 \in 1..Len(Append(w, v))
        /\ k < Len(w) + 1
        /\ Append(w, v)[k] = u
        /\ Append(w, v)[Len(w) + 1] = v
        /\ \A i \in 1..Len(Append(w, v)) :
              (i # k /\ i # Len(w) + 1) => Append(w, v)[i] = "sub"
    BY <1>1, <1>2, <2>1
  <2> QED BY <2>2 DEF Two
<1>7. ASSUME Two(w, u, t) PROVE Two(Append(w, "sub"), u, t)
  <2>1. PICK k \in 1..Len(w), l \in 1..Len(w) :
           /\ k < l /\ w[k] = u /\ w[l] = t
           /\ \A i \in 1..Len(w) : (i # k /\ i # l) => w[i] = "sub"
    BY <1>7 DEF Two
  <2>2. /\ k \in 1..Len(Append(w, "sub")) /\ l \in 1..Len(Append(w, "sub"))
        /\ Append(w, "sub")[k] = u
        /\ Append(w, "sub")[l] = t
        /\ \A i \in 1..Len(Append(w, "sub")) :
              (i # k /\ i # l) => Append(w, "sub")[i] = "sub"
    BY <1>1, <1>2, <2>1
  <2> QED BY <2>1, <2>2 DEF Two
<1> QED BY <1>3, <1>4, <1>5, <1>6, <1>7

LEMMA TailPattern ==
    ASSUME NEW w \in Seq(Elements), w # <<>>, NEW u, NEW t, u # "sub", t # "sub"
    PROVE  /\ Quiet(w) => Head(w) = "sub" /\ Quiet(Tail(w))
           /\ One(w, u) => \/ Head(w) = "sub" /\ One(Tail(w), u)
                           \/ Head(w) = u /\ Quiet(Tail(w))
           /\ Two(w, u, t) => \/ Head(w) = "sub" /\ Two(Tail(w), u, t)
                              \/ Head(w) = u /\ One(Tail(w), t)
<1>1. /\ Head(w) = w[1]
      /\ Len(w) \in Nat \ {0}
      /\ Len(Tail(w)) = Len(w) - 1
      /\ \A i \in 1..(Len(w) - 1) : Tail(w)[i] = w[i + 1]
  BY TailFacts
<1>2. Quiet(w) => Head(w) = "sub" /\ Quiet(Tail(w))
  BY <1>1 DEF Quiet
<1>3. ASSUME One(w, u)
      PROVE  \/ Head(w) = "sub" /\ One(Tail(w), u)
             \/ Head(w) = u /\ Quiet(Tail(w))
  <2>1. PICK k \in 1..Len(w) : w[k] = u /\ \A i \in 1..Len(w) : i # k => w[i] = "sub"
    BY <1>3 DEF One
  <2>2. CASE k = 1
    BY <1>1, <2>1, <2>2 DEF Quiet
  <2>3. CASE k # 1
    <3>1. k - 1 \in 1..Len(Tail(w)) /\ Tail(w)[k - 1] = u
      BY <1>1, <2>1, <2>3
    <3>2. \A i \in 1..Len(Tail(w)) : i # k - 1 => Tail(w)[i] = "sub"
      BY <1>1, <2>1, <2>3
    <3>3. Head(w) = "sub"
      BY <1>1, <2>1, <2>3
    <3> QED BY <3>1, <3>2, <3>3 DEF One
  <2> QED BY <2>2, <2>3
<1>4. ASSUME Two(w, u, t)
      PROVE  \/ Head(w) = "sub" /\ Two(Tail(w), u, t)
             \/ Head(w) = u /\ One(Tail(w), t)
  <2>1. PICK k \in 1..Len(w), l \in 1..Len(w) :
           /\ k < l /\ w[k] = u /\ w[l] = t
           /\ \A i \in 1..Len(w) : (i # k /\ i # l) => w[i] = "sub"
    BY <1>4 DEF Two
  <2>2. l - 1 \in 1..Len(Tail(w)) /\ Tail(w)[l - 1] = t
    BY <1>1, <2>1
  <2>3. CASE k = 1
    <3>1. \A i \in 1..Len(Tail(w)) : i # l - 1 => Tail(w)[i] = "sub"
      BY <1>1, <2>1, <2>3
    <3> QED BY <1>1, <2>1, <2>2, <2>3, <3>1 DEF One
  <2>4. CASE k # 1
    <3>1. k - 1 \in 1..Len(Tail(w)) /\ Tail(w)[k - 1] = u /\ k - 1 < l - 1
      BY <1>1, <2>1, <2>4
    <3>2. \A i \in 1..Len(Tail(w)) : (i # k - 1 /\ i # l - 1) => Tail(w)[i] = "sub"
      BY <1>1, <2>1, <2>4
    <3>3. Head(w) = "sub"
      BY <1>1, <2>1, <2>4
    <3> QED BY <2>2, <3>1, <3>2, <3>3 DEF Two
  <2> QED BY <2>3, <2>4
<1> QED BY <1>2, <1>3, <1>4

-------------------------------------------------------------------------------
(***************************************************************************)
(* Phases is inductive.  The phase of one end determines the other's, so a *)
(* step of end e is shown to lead from a phase of e to a phase of e.       *)
(***************************************************************************)
\* The phase seen from one end is the phase seen from the other.
LEMMA PhaseSymmetric ==
    ASSUME NEW e \in Ends, Phase(e)
    PROVE  Phases
<1>1. Other(e) \in Ends /\ Other(Other(e)) = e /\ \A x \in Ends : x = e \/ x = Other(e)
  BY VerbFacts
<1>2. Phase(Other(e))
  BY <1>1 DEF Phase, Balanced, BothOffered, BothWithdrawn, at
<1> QED BY <1>1, <1>2 DEF Phases

\* The same of the next state.
LEMMA PhaseSymmetricNext ==
    ASSUME NEW e \in Ends, Phase(e)'
    PROVE  Phases'
<1>1. Other(e) \in Ends /\ Other(Other(e)) = e /\ \A x \in Ends : x = e \/ x = Other(e)
  BY VerbFacts
<1>2. Phase(Other(e))'
  BY <1>1 DEF Phase, Balanced, BothOffered, BothWithdrawn, at
<1> QED BY <1>1, <1>2 DEF Phases

\* The phases, read by the state of one end.
LEMMA PhaseOfState ==
    ASSUME Phases, NEW e \in Ends, NEW o, o = Other(e)
    PROVE  /\ state_[e] = "inactive" =>
                 \/ state_[o] = "inactive" /\ Quiet(wire[o]) /\ Quiet(wire[e])
                 \/ /\ state_[o] = "activating"
                    /\ Quiet(wire[o]) /\ One(wire[e], local_positive(o))
                 \/ /\ state_[o] = "deactivating"
                    /\ One(wire[o], local_negative(e)) /\ Quiet(wire[e])
           /\ state_[e] = "active" =>
                 \/ state_[o] = "active" /\ Quiet(wire[o]) /\ Quiet(wire[e])
                 \/ /\ state_[o] = "activating"
                    /\ One(wire[o], local_positive(e)) /\ Quiet(wire[e])
                 \/ /\ state_[o] = "deactivating"
                    /\ Quiet(wire[o]) /\ One(wire[e], local_negative(o))
           /\ state_[e] = "activating" =>
                 \/ /\ state_[o] = "inactive"
                    /\ One(wire[o], local_positive(e)) /\ Quiet(wire[e])
                 \/ /\ state_[o] = "active"
                    /\ Quiet(wire[o]) /\ One(wire[e], local_positive(o))
                 \/ /\ state_[o] = "activating"
                    /\ One(wire[o], local_positive(e)) /\ One(wire[e], local_positive(o))
                 \/ /\ state_[o] = "deactivating"
                    /\ \/ /\ Two(wire[o], local_negative(e), local_positive(e))
                          /\ Quiet(wire[e])
                       \/ /\ Two(wire[e], local_positive(o), local_negative(o))
                          /\ Quiet(wire[o])
           /\ state_[e] = "deactivating" =>
                 \/ /\ state_[o] = "active"
                    /\ One(wire[o], local_negative(e)) /\ Quiet(wire[e])
                 \/ /\ state_[o] = "inactive"
                    /\ Quiet(wire[o]) /\ One(wire[e], local_negative(o))
                 \/ /\ state_[o] = "deactivating"
                    /\ One(wire[o], local_negative(e)) /\ One(wire[e], local_negative(o))
                 \/ /\ state_[o] = "activating"
                    /\ \/ /\ Two(wire[o], local_positive(e), local_negative(e))
                          /\ Quiet(wire[e])
                       \/ /\ Two(wire[e], local_negative(o), local_positive(o))
                          /\ Quiet(wire[o])
BY VerbFacts DEF Phases, Phase, Balanced, BothOffered, BothWithdrawn, OneSided, Offered,
   Accepted, Withdrawn, Released, WithdrawnEarly, OfferedEarly, at, SentNothing,
   SentPositive, SentNegative, SentBoth, SentNegativeFirst

LEMMA ActivatePhase ==
    ASSUME TypeOK, Phases, NEW e \in Ends, activate(e)
    PROVE  Phases'
<1> DEFINE o == Other(e)
<1>1. /\ o \in Ends /\ o # e /\ Other(o) = e
      /\ wire[o] \in Seq(Elements)
      /\ local_positive(e) \in negotiation_type
  BY VerbFacts, LocalVerbs DEF TypeOK, Elements
<1>2. state_[e] = "inactive" /\ state_'[e] = "activating" /\ state_'[o] = state_[o]
  BY <1>1 DEF activate, become, TypeOK
<1>3. wire'[o] = Append(wire[o], local_positive(e)) /\ wire'[e] = wire[e]
  BY WriteFacts, LocalVerbs DEF activate
<1>4. /\ Quiet(wire[o]) => One(wire'[o], local_positive(e))
      /\ \A u : One(wire[o], u) => Two(wire'[o], u, local_positive(e))
  BY <1>1, <1>3, AppendPattern
<1>5. \/ state_'[o] = "inactive" /\ One(wire'[o], local_positive(e)) /\ Quiet(wire'[e])
      \/ /\ state_'[o] = "activating"
         /\ One(wire'[o], local_positive(e)) /\ One(wire'[e], local_positive(o))
      \/ /\ state_'[o] = "deactivating"
         /\ Two(wire'[o], local_negative(e), local_positive(e)) /\ Quiet(wire'[e])
  BY <1>1, <1>2, <1>3, <1>4, PhaseOfState
<1>6. Phase(e)'
  BY <1>1, <1>2, <1>5 DEF Phase, BothOffered, OneSided, Offered, OfferedEarly, at,
     SentNothing, SentPositive, SentNegativeFirst
<1> QED BY <1>6, PhaseSymmetricNext

LEMMA DeactivatePhase ==
    ASSUME TypeOK, Phases, NEW e \in Ends, deactivate(e)
    PROVE  Phases'
<1> DEFINE o == Other(e)
<1>1. /\ o \in Ends /\ o # e /\ Other(o) = e
      /\ wire[o] \in Seq(Elements)
      /\ local_negative(e) \in negotiation_type
  BY VerbFacts, LocalVerbs DEF TypeOK, Elements
<1>2. state_[e] = "active" /\ state_'[e] = "deactivating" /\ state_'[o] = state_[o]
  BY <1>1 DEF deactivate, become, TypeOK
<1>3. wire'[o] = Append(wire[o], local_negative(e)) /\ wire'[e] = wire[e]
  BY WriteFacts, LocalVerbs DEF deactivate
<1>4. /\ Quiet(wire[o]) => One(wire'[o], local_negative(e))
      /\ \A u : One(wire[o], u) => Two(wire'[o], u, local_negative(e))
  BY <1>1, <1>3, AppendPattern
<1>5. \/ state_'[o] = "active" /\ One(wire'[o], local_negative(e)) /\ Quiet(wire'[e])
      \/ /\ state_'[o] = "deactivating"
         /\ One(wire'[o], local_negative(e)) /\ One(wire'[e], local_negative(o))
      \/ /\ state_'[o] = "activating"
         /\ Two(wire'[o], local_positive(e), local_negative(e)) /\ Quiet(wire'[e])
  BY <1>1, <1>2, <1>3, <1>4, PhaseOfState
<1>6. Phase(e)'
  BY <1>1, <1>2, <1>5 DEF Phase, BothWithdrawn, OneSided, Withdrawn, WithdrawnEarly, at,
     SentNothing, SentNegative, SentBoth
<1> QED BY <1>6, PhaseSymmetricNext

\* A subnegotiation on a wire changes no pattern, written or read.
LEMMA SubnegotiationPhase ==
    ASSUME TypeOK, Phases, NEW e \in Ends, UNCHANGED state_,
           \A x \in Ends : /\ Quiet(wire[x]) => Quiet(wire'[x])
                           /\ \A v \in negotiation_type : One(wire[x], v) => One(wire'[x], v)
                           /\ \A v, u \in negotiation_type :
                                 Two(wire[x], v, u) => Two(wire'[x], v, u)
    PROVE  Phases'
<1>1. \A x \in Ends : /\ Other(x) \in Ends
                      /\ local_positive(x) \in negotiation_type
                      /\ local_negative(x) \in negotiation_type
  BY VerbFacts, LocalVerbs
<1>2. \A x \in Ends : OneSided(x) => OneSided(x)'
  BY <1>1 DEF OneSided, Offered, Accepted, Withdrawn, Released, WithdrawnEarly, OfferedEarly,
     at, SentNothing, SentPositive, SentNegative, SentBoth, SentNegativeFirst
<1>3. \A x \in Ends : /\ Balanced(x) => Balanced(x)'
                      /\ BothOffered(x) => BothOffered(x)'
                      /\ BothWithdrawn(x) => BothWithdrawn(x)'
  BY <1>1 DEF Balanced, BothOffered, BothWithdrawn, at, SentNothing, SentPositive, SentNegative
<1> QED BY <1>1, <1>2, <1>3 DEF Phases, Phase

LEMMA WriteSubnegotiationPhase ==
    ASSUME TypeOK, Phases, NEW e \in Ends, write_subnegotiation(e)
    PROVE  Phases'
<1>1. /\ wire'[Other(e)] = Append(wire[Other(e)], "sub") /\ wire'[e] = wire[e]
      /\ UNCHANGED state_
  BY WriteFacts DEF write_subnegotiation
<1>2. \A x \in Ends : wire[x] \in Seq(Elements) /\ (x = e \/ x = Other(e))
  BY VerbFacts DEF TypeOK, Elements
<1>3. \E v \in negotiation_type : TRUE
  BY DEF negotiation_type
<1>4. \A x \in Ends :
         LET w == Append(wire[x], "sub")
         IN /\ Quiet(wire[x]) => Quiet(w)
            /\ \A u : One(wire[x], u) => One(w, u)
            /\ \A u, t : Two(wire[x], u, t) => Two(w, u, t)
  BY <1>2, <1>3, AppendPattern
<1>5. \A x \in Ends : /\ Quiet(wire[x]) => Quiet(wire'[x])
                      /\ \A v \in negotiation_type : One(wire[x], v) => One(wire'[x], v)
                      /\ \A v, u \in negotiation_type :
                            Two(wire[x], v, u) => Two(wire'[x], v, u)
  BY <1>1, <1>2, <1>4
<1> QED BY <1>1, <1>5, SubnegotiationPhase

LEMMA SubnegotiatePhase ==
    ASSUME TypeOK, Phases, NEW e \in Ends, subnegotiate(e)
    PROVE  Phases'
<1>1. /\ wire'[e] = Tail(wire[e]) /\ wire'[Other(e)] = wire[Other(e)]
      /\ wire[e] # <<>> /\ Head(wire[e]) = "sub"
      /\ UNCHANGED state_
  BY ReadFacts DEF subnegotiate
<1>2. \A x \in Ends : wire[x] \in Seq(Elements) /\ (x = e \/ x = Other(e))
  BY VerbFacts DEF TypeOK, Elements
<1>3. "do" \in negotiation_type /\ \A v \in negotiation_type : v # "sub"
  BY DEF negotiation_type
<1>4. \A v, u \in negotiation_type :
         /\ Quiet(wire[e]) => Quiet(Tail(wire[e]))
         /\ One(wire[e], v) => One(Tail(wire[e]), v)
         /\ Two(wire[e], v, u) => Two(Tail(wire[e]), v, u)
  <2> SUFFICES ASSUME NEW v \in negotiation_type, NEW u \in negotiation_type
               PROVE  /\ Quiet(wire[e]) => Quiet(Tail(wire[e]))
                      /\ One(wire[e], v) => One(Tail(wire[e]), v)
                      /\ Two(wire[e], v, u) => Two(Tail(wire[e]), v, u)
    OBVIOUS
  <2>1. wire[e] \in Seq(Elements) /\ v # "sub" /\ u # "sub"
    BY <1>2, <1>3
  <2> QED BY <1>1, <2>1, TailPattern
<1>5. \A x \in Ends : /\ Quiet(wire[x]) => Quiet(wire'[x])
                      /\ \A v \in negotiation_type : One(wire[x], v) => One(wire'[x], v)
                      /\ \A v, u \in negotiation_type :
                            Two(wire[x], v, u) => Two(wire'[x], v, u)
  BY <1>1, <1>2, <1>3, <1>4
<1> QED BY <1>1, <1>5, SubnegotiationPhase

\* negotiate() with the positive verb of the remote: e becomes active.
LEMMA NegotiatePositivePhase ==
    ASSUME TypeOK, Phases, NEW e \in Ends, negotiate(e),
           Head(wire[e]) = remote_positive(e)
    PROVE  Phases'
<1> DEFINE o == Other(e)
<1>1. /\ o \in Ends /\ o # e /\ Other(o) = e
      /\ wire[o] \in Seq(Elements) /\ wire[e] \in Seq(Elements)
      /\ local_positive(e) \in negotiation_type
      /\ remote_positive(e) = local_positive(o)
      /\ remote_positive(e) # remote_negative(e)
      /\ local_positive(o) # local_negative(o)
      /\ local_positive(o) # "sub" /\ local_negative(o) # "sub"
  BY VerbFacts, LocalVerbs DEF TypeOK, Elements
<1>2. /\ wire[e] # <<>> /\ state_'[e] = "active" /\ state_'[o] = state_[o]
      /\ state_[e] \in internal_state
  BY <1>1 DEF negotiate, become, TypeOK
<1>3. /\ wire'[e] = Tail(wire[e])
      /\ ~requesting(e) => wire'[o] = Append(wire[o], local_positive(e))
      /\ requesting(e) => wire'[o] = wire[o]
  BY <1>1, <1>2, ReadFacts, ReadAndWriteFacts, LocalVerbs DEF negotiate
<1>4. /\ ~Quiet(wire[e])
      /\ One(wire[e], local_positive(o)) => Quiet(wire'[e])
      /\ ~One(wire[e], local_negative(o))
      /\ Two(wire[e], local_positive(o), local_negative(o)) => One(wire'[e], local_negative(o))
      /\ ~Two(wire[e], local_negative(o), local_positive(o))
  <2>1. /\ Quiet(wire[e]) => Head(wire[e]) = "sub"
        /\ One(wire[e], local_positive(o)) => Head(wire[e]) = "sub" \/ Quiet(wire'[e])
        /\ Two(wire[e], local_positive(o), local_negative(o)) =>
              Head(wire[e]) = "sub" \/ One(wire'[e], local_negative(o))
    BY <1>1, <1>2, <1>3, TailPattern
  <2>2. /\ One(wire[e], local_negative(o)) => Head(wire[e]) \in {"sub", local_negative(o)}
        /\ Two(wire[e], local_negative(o), local_positive(o)) => Head(wire[e]) \in {"sub", local_negative(o)}
    BY <1>1, <1>2, TailPattern
  <2> QED BY <1>1, <2>1, <2>2
<1>5. Quiet(wire[o]) => One(Append(wire[o], local_positive(e)), local_positive(e))
  BY <1>1, AppendPattern
<1>6. \/ state_'[o] = "active" /\ Quiet(wire'[o]) /\ Quiet(wire'[e])
      \/ /\ state_'[o] = "activating"
         /\ One(wire'[o], local_positive(e)) /\ Quiet(wire'[e])
      \/ /\ state_'[o] = "deactivating"
         /\ Quiet(wire'[o]) /\ One(wire'[e], local_negative(o))
  BY <1>1, <1>2, <1>3, <1>4, <1>5, PhaseOfState DEF requesting, internal_state
<1>7. Phase(e)'
  BY <1>1, <1>2, <1>6 DEF Phase, Balanced, OneSided, Accepted, Withdrawn, at,
     SentNothing, SentPositive, SentNegative
<1> QED BY <1>7, PhaseSymmetricNext

\* negotiate() with the negative verb of the remote: e becomes inactive.
LEMMA NegotiateNegativePhase ==
    ASSUME TypeOK, Phases, NEW e \in Ends, negotiate(e),
           Head(wire[e]) = remote_negative(e)
    PROVE  Phases'
<1> DEFINE o == Other(e)
<1>1. /\ o \in Ends /\ o # e /\ Other(o) = e
      /\ wire[o] \in Seq(Elements) /\ wire[e] \in Seq(Elements)
      /\ local_negative(e) \in negotiation_type
      /\ remote_negative(e) = local_negative(o)
      /\ remote_positive(e) # remote_negative(e)
      /\ local_positive(o) # local_negative(o)
      /\ local_positive(o) # "sub" /\ local_negative(o) # "sub"
  BY VerbFacts, LocalVerbs DEF TypeOK, Elements
<1>2. /\ wire[e] # <<>> /\ state_'[e] = "inactive" /\ state_'[o] = state_[o]
      /\ state_[e] \in internal_state
  BY <1>1 DEF negotiate, become, TypeOK
<1>3. /\ wire'[e] = Tail(wire[e])
      /\ ~requesting(e) => wire'[o] = Append(wire[o], local_negative(e))
      /\ requesting(e) => wire'[o] = wire[o]
  BY <1>1, <1>2, ReadFacts, ReadAndWriteFacts, LocalVerbs DEF negotiate
<1>4. /\ ~Quiet(wire[e])
      /\ One(wire[e], local_negative(o)) => Quiet(wire'[e])
      /\ ~One(wire[e], local_positive(o))
      /\ Two(wire[e], local_negative(o), local_positive(o)) => One(wire'[e], local_positive(o))
      /\ ~Two(wire[e], local_positive(o), local_negative(o))
  <2>1. /\ Quiet(wire[e]) => Head(wire[e]) = "sub"
        /\ One(wire[e], local_negative(o)) => Head(wire[e]) = "sub" \/ Quiet(wire'[e])
        /\ Two(wire[e], local_negative(o), local_positive(o)) =>
              Head(wire[e]) = "sub" \/ One(wire'[e], local_positive(o))
    BY <1>1, <1>2, <1>3, TailPattern
  <2>2. /\ One(wire[e], local_positive(o)) => Head(wire[e]) \in {"sub", local_positive(o)}
        /\ Two(wire[e], local_positive(o), local_negative(o)) => Head(wire[e]) \in {"sub", local_positive(o)}
    BY <1>1, <1>2, TailPattern
  <2> QED BY <1>1, <2>1, <2>2
<1>5. Quiet(wire[o]) => One(Append(wire[o], local_negative(e)), local_negative(e))
  BY <1>1, AppendPattern
<1>6. \/ state_'[o] = "inactive" /\ Quiet(wire'[o]) /\ Quiet(wire'[e])
      \/ /\ state_'[o] = "deactivating"
         /\ One(wire'[o], local_negative(e)) /\ Quiet(wire'[e])
      \/ /\ state_'[o] = "activating"
         /\ Quiet(wire'[o]) /\ One(wire'[e], local_positive(o))
  BY <1>1, <1>2, <1>3, <1>4, <1>5, PhaseOfState DEF requesting, internal_state
<1>7. Phase(e)'
  BY <1>1, <1>2, <1>6 DEF Phase, Balanced, OneSided, Offered, Released, at,
     SentNothing, SentPositive, SentNegative
<1> QED BY <1>7, PhaseSymmetricNext

LEMMA InitPhases == Init => Phases
<1>1. Len(<<>>) = 0
  BY EmptySeq
<1>2. \A e \in Ends : Other(e) \in Ends
  BY VerbFacts
<1> QED BY <1>1, <1>2 DEF Init, Phases, Phase, Balanced, at, SentNothing, Quiet

LEMMA NextPhases ==
    ASSUME TypeOK, Phases, [Next]_vars
    PROVE  Phases'
<1>1. CASE UNCHANGED vars
  BY <1>1 DEF vars, Phases, Phase, Balanced, BothOffered, BothWithdrawn, OneSided, Offered,
     Accepted, Withdrawn, Released, WithdrawnEarly, OfferedEarly, at, SentNothing,
     SentPositive, SentNegative, SentBoth, SentNegativeFirst, Quiet, One, Two
<1>2. ASSUME NEW e \in Ends, negotiate(e) PROVE Phases'
  <2>1. Head(wire[e]) = remote_positive(e) \/ Head(wire[e]) = remote_negative(e)
    BY <1>2 DEF negotiate
  <2> QED BY <1>2, <2>1, NegotiatePositivePhase, NegotiateNegativePhase
<1> QED
  BY <1>1, <1>2, ActivatePhase, DeactivatePhase, WriteSubnegotiationPhase, SubnegotiatePhase
     DEF Next

\* Every reachable state is in one of the phases of the negotiation.
THEOREM PhasesReached == Spec => []Phases
<1> QED BY TypeCorrect, InitPhases, NextPhases, PTL DEF Spec

-------------------------------------------------------------------------------
(***************************************************************************)
(* What follows from the phases.                                           *)
(***************************************************************************)
LEMMA SettledIsQuiet ==
    ASSUME TypeOK, Settled, NEW e \in Ends
    PROVE  Quiet(wire[e])
<1>1. wire[e] \in Seq(Elements) /\ DOMAIN wire[e] = 1..Len(wire[e])
  BY LenProperties DEF TypeOK, Elements
<1> QED BY <1>1 DEF Settled, Negotiations, Quiet

LEMMA QuietIsNotOne ==
    ASSUME NEW w, Quiet(w), NEW u, NEW t, u # "sub"
    PROVE  ~One(w, u) /\ ~Two(w, u, t)
BY DEF Quiet, One, Two

LEMMA PhasesAgreement ==
    ASSUME TypeOK, Phases
    PROVE  Agreement
<1> SUFFICES ASSUME Settled
             PROVE  /\ state_["server"] = state_["client"]
                    /\ state_["server"] \in {"inactive", "active"}
  BY DEF Agreement
<1>1. "server" \in Ends /\ "client" \in Ends /\ Other("server") = "client"
  BY DEF Ends, Other
<1>2. Quiet(wire["server"]) /\ Quiet(wire["client"])
  BY <1>1, SettledIsQuiet
<1>3. \A e \in Ends : local_positive(e) # "sub" /\ local_negative(e) # "sub"
  BY DEF Ends, local_positive, local_negative
<1>4. \A e \in Ends : \A t :
         /\ ~One(wire["server"], local_positive(e)) /\ ~One(wire["client"], local_positive(e))
         /\ ~One(wire["server"], local_negative(e)) /\ ~One(wire["client"], local_negative(e))
         /\ ~Two(wire["server"], local_positive(e), t) /\ ~Two(wire["client"], local_positive(e), t)
         /\ ~Two(wire["server"], local_negative(e), t) /\ ~Two(wire["client"], local_negative(e), t)
  BY <1>2, <1>3, QuietIsNotOne
<1>5. state_["server"] \in internal_state
  BY <1>1 DEF TypeOK
<1> QED BY <1>1, <1>4, <1>5, PhaseOfState DEF internal_state

\* Once no negotiation is under way the two ends agree on the option.
THEOREM AgreementHolds == Spec => []Agreement
<1> QED BY TypeCorrect, PhasesReached, PhasesAgreement, PTL

LEMMA PhasesConformingPeer ==
    ASSUME TypeOK, Phases
    PROVE  ConformingPeer
<1> SUFFICES ASSUME NEW e \in Ends, wire[e] # <<>>
             PROVE  /\ Head(wire[e]) = remote_positive(e) => state_[e] \in {"inactive", "activating"}
                    /\ Head(wire[e]) = remote_negative(e) => state_[e] \in {"active", "deactivating"}
  BY DEF ConformingPeer
<1> DEFINE o == Other(e)
           pos == remote_positive(e)
           neg == remote_negative(e)
<1>1. /\ wire[e] \in Seq(Elements) /\ state_[e] \in internal_state
      /\ pos = local_positive(o) /\ neg = local_negative(o)
      /\ pos # "sub" /\ neg # "sub" /\ pos # neg
  BY VerbFacts DEF TypeOK, Elements
<1>2. /\ Quiet(wire[e]) => Head(wire[e]) = "sub"
      /\ One(wire[e], pos) => Head(wire[e]) \in {"sub", pos}
      /\ Two(wire[e], pos, neg) => Head(wire[e]) \in {"sub", pos}
  BY <1>1, TailPattern
<1>3. /\ One(wire[e], neg) => Head(wire[e]) \in {"sub", neg}
      /\ Two(wire[e], neg, pos) => Head(wire[e]) \in {"sub", neg}
  BY <1>1, TailPattern
<1>4. CASE state_[e] \in {"inactive", "activating"}
  <2>1. Quiet(wire[e]) \/ One(wire[e], pos) \/ Two(wire[e], pos, neg)
    BY <1>1, <1>4, PhaseOfState
  <2> QED BY <1>1, <1>2, <1>4, <2>1
<1>5. CASE state_[e] \in {"active", "deactivating"}
  <2>1. Quiet(wire[e]) \/ One(wire[e], neg) \/ Two(wire[e], neg, pos)
    BY <1>1, <1>5, PhaseOfState
  <2> QED BY <1>1, <1>2, <1>3, <1>5, <2>1
<1> QED BY <1>1, <1>4, <1>5 DEF internal_state

\* No end is ever sent a negotiation that the protocol does not allow it to be
\* sent.
THEOREM ConformingPeerHolds == Spec => []ConformingPeer
<1> QED BY TypeCorrect, PhasesReached, PhasesConformingPeer, PTL

LEMMA CountPatterns ==
    ASSUME TypeOK, NEW e \in Ends
    PROVE  /\ Quiet(wire[e]) => Cardinality(Negotiations(e)) = 0
           /\ \A v : v # "sub" /\ One(wire[e], v) => Cardinality(Negotiations(e)) = 1
           /\ \A u, v : u # "sub" /\ v # "sub" /\ Two(wire[e], u, v) =>
                 Cardinality(Negotiations(e)) = 2
<1>1. wire[e] \in Seq(Elements) /\ DOMAIN wire[e] = 1..Len(wire[e]) /\ Len(wire[e]) \in Nat
  BY LenProperties DEF TypeOK, Elements
<1>2. ASSUME Quiet(wire[e]) PROVE Cardinality(Negotiations(e)) = 0
  <2>1. Negotiations(e) = {}
    BY <1>1, <1>2 DEF Quiet, Negotiations
  <2> QED BY <2>1, FS_EmptySet
<1>3. ASSUME NEW v, v # "sub", One(wire[e], v) PROVE Cardinality(Negotiations(e)) = 1
  <2>1. PICK k \in 1..Len(wire[e]) :
           wire[e][k] = v /\ \A i \in 1..Len(wire[e]) : i # k => wire[e][i] = "sub"
    BY <1>3 DEF One
  <2>2. Negotiations(e) = {k}
    BY <1>1, <1>3, <2>1 DEF Negotiations
  <2> QED BY <2>2, FS_Singleton
<1>4. ASSUME NEW u, NEW v, u # "sub", v # "sub", Two(wire[e], u, v)
      PROVE  Cardinality(Negotiations(e)) = 2
  <2>1. PICK k \in 1..Len(wire[e]), l \in 1..Len(wire[e]) :
           /\ k < l /\ wire[e][k] = u /\ wire[e][l] = v
           /\ \A i \in 1..Len(wire[e]) : (i # k /\ i # l) => wire[e][i] = "sub"
    BY <1>4 DEF Two
  <2>2. Negotiations(e) = {k} \cup {l} /\ l \notin {k}
    BY <1>1, <1>4, <2>1 DEF Negotiations
  <2>3. IsFiniteSet({k}) /\ Cardinality({k}) = 1
    BY FS_Singleton
  <2>4. Cardinality({k} \cup {l}) = IF l \in {k} THEN Cardinality({k}) ELSE Cardinality({k}) + 1
    BY <2>3, FS_AddElement, Zenon
  <2>5. Cardinality({k} \cup {l}) = 1 + 1
    BY <2>2, <2>3, <2>4, Zenon
  <2>6. Cardinality(Negotiations(e)) = 1 + 1
    BY <2>2, <2>5, Zenon
  <2> QED BY <2>6
<1> QED BY <1>2, <1>3, <1>4

LEMMA PhasesFewInFlight ==
    ASSUME TypeOK, Phases
    PROVE  FewInFlight
<1> DEFINE s == "server"
           c == "client"
<1>1. s \in Ends /\ c \in Ends /\ c = Other(s) /\ state_[s] \in internal_state
  BY DEF Ends, Other, TypeOK
<1>2. \A e \in Ends : local_positive(e) # "sub" /\ local_negative(e) # "sub"
  BY DEF Ends, local_positive, local_negative
<1>3. \A e, x \in Ends :
         /\ Quiet(wire[e]) => Cardinality(Negotiations(e)) = 0
         /\ One(wire[e], local_positive(x)) => Cardinality(Negotiations(e)) = 1
         /\ One(wire[e], local_negative(x)) => Cardinality(Negotiations(e)) = 1
         /\ Two(wire[e], local_positive(x), local_negative(x)) => Cardinality(Negotiations(e)) = 2
         /\ Two(wire[e], local_negative(x), local_positive(x)) => Cardinality(Negotiations(e)) = 2
  BY <1>2, CountPatterns
<1>4. \/ Cardinality(Negotiations(s)) = 2 /\ Cardinality(Negotiations(c)) = 0
      \/ Cardinality(Negotiations(s)) = 0 /\ Cardinality(Negotiations(c)) = 2
      \/ /\ Cardinality(Negotiations(s)) \in {0, 1}
         /\ Cardinality(Negotiations(c)) \in {0, 1}
  <2>1. CASE state_[s] \in {"inactive", "active"}
    BY <1>1, <1>3, <2>1, PhaseOfState
  <2>2. CASE state_[s] = "activating"
    BY <1>1, <1>3, <2>2, PhaseOfState
  <2>3. CASE state_[s] = "deactivating"
    BY <1>1, <1>3, <2>3, PhaseOfState
  <2> QED BY <1>1, <2>1, <2>2, <2>3 DEF internal_state
<1> QED BY <1>4 DEF FewInFlight

\* However often the application calls activate() and deactivate(), at most
\* two negotiations are in flight.
THEOREM FewInFlightHolds == Spec => []FewInFlight
<1> QED BY TypeCorrect, PhasesReached, PhasesFewInFlight, PTL

-------------------------------------------------------------------------------
(***************************************************************************)
(* Covered is inductive, given Phases.                                     *)
(***************************************************************************)
\* An active end has no refusal waiting at the other end, which is active or
\* deactivating, or has an agreement waiting.
LEMMA ActivePeer ==
    ASSUME TypeOK, Phases, NEW e \in Ends, active(Other(e))
    PROVE  /\ \A j \in 1..Len(wire[e]) : wire[e][j] # remote_negative(e)
           /\ \/ state_[e] \in {"active", "deactivating"}
              \/ \E j \in 1..Len(wire[e]) : wire[e][j] = remote_positive(e)
<1>1. /\ Other(e) \in Ends /\ Other(Other(e)) = e
      /\ remote_positive(e) = local_positive(Other(e))
      /\ remote_negative(e) # "sub" /\ remote_positive(e) # remote_negative(e)
      /\ state_[e] \in internal_state
  BY VerbFacts DEF TypeOK
<1>2. \/ state_[e] \in {"active", "deactivating"} /\ Quiet(wire[e])
      \/ state_[e] = "activating" /\ One(wire[e], remote_positive(e))
  BY <1>1, PhaseOfState DEF active, internal_state
<1> QED BY <1>1, <1>2 DEF Quiet, One

\* Negotiations written to e leave what is waiting for e covered.
LEMMA WriteCovered ==
    ASSUME TypeOK, NEW e \in Ends, CoveredAt(e), NEW v \in negotiation_type,
           wire'[e] = Append(wire[e], v), state_'[e] = state_[e]
    PROVE  CoveredAt(e)'
<1>1. v \in Elements /\ v # "sub" /\ wire[e] \in Seq(Elements)
  BY DEF Elements, TypeOK, negotiation_type
<1>2. /\ Len(wire[e]) \in Nat
      /\ Len(wire'[e]) = Len(wire[e]) + 1
      /\ wire'[e][Len(wire[e]) + 1] = v
      /\ \A i \in 1..Len(wire[e]) : wire'[e][i] = wire[e][i]
  BY <1>1, AppendFacts
<1>3. ASSUME NEW i \in 1..Len(wire'[e]), wire'[e][i] = "sub"
      PROVE  i \in 1..Len(wire[e]) /\ wire[e][i] = "sub"
  BY <1>1, <1>2, <1>3
<1>4. ASSUME NEW i \in 1..Len(wire'[e]), wire'[e][i] = "sub"
      PROVE  \/ state_'[e] \in {"active", "deactivating"}
             \/ \E j \in 1..Len(wire'[e]) : j < i /\ wire'[e][j] = remote_positive(e)
  BY <1>2, <1>3, <1>4 DEF CoveredAt
<1>5. ASSUME NEW i \in 1..Len(wire'[e]), NEW j \in 1..Len(wire'[e]), j < i,
             wire'[e][i] = "sub", wire'[e][j] = remote_negative(e)
      PROVE  \E k \in 1..Len(wire'[e]) : j < k /\ k < i /\ wire'[e][k] = remote_positive(e)
  <2>1. i \in 1..Len(wire[e]) /\ wire[e][i] = "sub" /\ j \in 1..Len(wire[e])
        /\ wire[e][j] = remote_negative(e)
    BY <1>2, <1>3, <1>5
  <2>2. PICK k \in 1..Len(wire[e]) : j < k /\ k < i /\ wire[e][k] = remote_positive(e)
    BY <1>5, <2>1 DEF CoveredAt
  <2> QED BY <1>2, <2>2
<1> QED BY <1>4, <1>5 DEF CoveredAt

\* A subnegotiation written by an active end is covered, like those before it.
LEMMA WriteSubnegotiationCovered ==
    ASSUME TypeOK, Phases, NEW e \in Ends, CoveredAt(e), active(Other(e)),
           wire'[e] = Append(wire[e], "sub"), state_'[e] = state_[e]
    PROVE  CoveredAt(e)'
<1>1. "sub" \in Elements /\ wire[e] \in Seq(Elements) /\ remote_negative(e) # "sub"
  BY VerbFacts DEF Elements, TypeOK
<1>2. /\ Len(wire[e]) \in Nat
      /\ Len(wire'[e]) = Len(wire[e]) + 1
      /\ wire'[e][Len(wire[e]) + 1] = "sub"
      /\ \A i \in 1..Len(wire[e]) : wire'[e][i] = wire[e][i]
  BY <1>1, AppendFacts
<1>3. ASSUME NEW i \in 1..Len(wire'[e]), wire'[e][i] = "sub"
      PROVE  \/ state_'[e] \in {"active", "deactivating"}
             \/ \E j \in 1..Len(wire'[e]) : j < i /\ wire'[e][j] = remote_positive(e)
  <2>1. CASE i = Len(wire[e]) + 1
    BY <1>2, <2>1, ActivePeer
  <2>2. CASE i # Len(wire[e]) + 1
    <3>1. i \in 1..Len(wire[e]) /\ wire[e][i] = "sub"
      BY <1>2, <1>3, <2>2
    <3> QED BY <1>2, <3>1 DEF CoveredAt
  <2> QED BY <2>1, <2>2
<1>4. \A j \in 1..Len(wire'[e]) : wire'[e][j] # remote_negative(e)
  BY <1>1, <1>2, ActivePeer
<1> QED BY <1>3, <1>4 DEF CoveredAt

\* Reading keeps what is left covered: e is told to stop only with an
\* agreement between the refusal and the next subnegotiation.
LEMMA ReadCovered ==
    ASSUME TypeOK, NEW e \in Ends, CoveredAt(e), wire[e] # <<>>,
           wire'[e] = Tail(wire[e]),
           \/ Head(wire[e]) = "sub" /\ state_'[e] = state_[e]
           \/ Head(wire[e]) = remote_positive(e) /\ state_'[e] = "active"
           \/ Head(wire[e]) = remote_negative(e) /\ state_'[e] = "inactive"
    PROVE  CoveredAt(e)'
<1>1. /\ remote_positive(e) # "sub" /\ remote_positive(e) # remote_negative(e)
      /\ wire[e] \in Seq(Elements)
  BY VerbFacts DEF Elements, TypeOK
<1>2. /\ Head(wire[e]) = wire[e][1]
      /\ Len(wire[e]) \in Nat \ {0}
      /\ Len(wire'[e]) = Len(wire[e]) - 1
      /\ \A i \in 1..(Len(wire[e]) - 1) : wire'[e][i] = wire[e][i + 1]
  BY <1>1, TailFacts
<1>3. ASSUME NEW i \in 1..Len(wire'[e]), wire'[e][i] = "sub"
      PROVE  \/ state_'[e] \in {"active", "deactivating"}
             \/ \E j \in 1..Len(wire'[e]) : j < i /\ wire'[e][j] = remote_positive(e)
  <2>1. i + 1 \in 1..Len(wire[e]) /\ wire[e][i + 1] = "sub"
    BY <1>2, <1>3
  <2>2. CASE Head(wire[e]) = "sub" /\ state_'[e] = state_[e]
    <3>1. \/ state_[e] \in {"active", "deactivating"}
          \/ \E j \in 1..Len(wire[e]) : j < i + 1 /\ wire[e][j] = remote_positive(e)
      BY <2>1 DEF CoveredAt
    <3>2. ASSUME NEW j \in 1..Len(wire[e]), j < i + 1, wire[e][j] = remote_positive(e)
          PROVE  \E h \in 1..Len(wire'[e]) : h < i /\ wire'[e][h] = remote_positive(e)
      <4>1. j # 1
        BY <1>1, <1>2, <2>2, <3>2
      <4>2. j - 1 \in 1..Len(wire'[e]) /\ j - 1 < i /\ wire'[e][j - 1] = remote_positive(e)
        BY <1>2, <3>2, <4>1
      <4> QED BY <4>2
    <3> QED BY <2>2, <3>1, <3>2
  <2>3. CASE Head(wire[e]) = remote_positive(e) /\ state_'[e] = "active"
    BY <2>3
  <2>4. CASE Head(wire[e]) = remote_negative(e) /\ state_'[e] = "inactive"
    <3>1. PICK k \in 1..Len(wire[e]) : 1 < k /\ k < i + 1 /\ wire[e][k] = remote_positive(e)
      BY <1>2, <2>1, <2>4 DEF CoveredAt
    <3>2. k - 1 \in 1..Len(wire'[e]) /\ k - 1 < i /\ wire'[e][k - 1] = remote_positive(e)
      BY <1>2, <3>1
    <3> QED BY <3>2
  <2> QED BY <2>2, <2>3, <2>4
<1>4. ASSUME NEW i \in 1..Len(wire'[e]), NEW j \in 1..Len(wire'[e]), j < i,
             wire'[e][i] = "sub", wire'[e][j] = remote_negative(e)
      PROVE  \E k \in 1..Len(wire'[e]) : j < k /\ k < i /\ wire'[e][k] = remote_positive(e)
  <2>1. /\ i + 1 \in 1..Len(wire[e]) /\ wire[e][i + 1] = "sub"
        /\ j + 1 \in 1..Len(wire[e]) /\ wire[e][j + 1] = remote_negative(e)
        /\ j + 1 < i + 1
    BY <1>2, <1>4
  <2>2. PICK k \in 1..Len(wire[e]) : j + 1 < k /\ k < i + 1 /\ wire[e][k] = remote_positive(e)
    BY <2>1 DEF CoveredAt
  <2>3. k - 1 \in 1..Len(wire'[e]) /\ j < k - 1 /\ k - 1 < i /\ wire'[e][k - 1] = remote_positive(e)
    BY <1>2, <2>2
  <2> QED BY <2>3
<1> QED BY <1>3, <1>4 DEF CoveredAt

LEMMA InitCovered == Init => Covered
<1>1. Len(<<>>) = 0
  BY EmptySeq
<1> QED BY <1>1 DEF Init, Covered, CoveredAt

LEMMA NextCovered ==
    ASSUME TypeOK, Phases, Covered, [Next]_vars
    PROVE  Covered'
<1>1. CASE UNCHANGED vars
  BY <1>1 DEF vars, Covered, CoveredAt
<1> SUFFICES ASSUME NEW x \in Ends, Other(x) \notin Unchecked, Next
             PROVE  CoveredAt(x)'
  BY <1>1 DEF Covered
<1>2. /\ CoveredAt(x) /\ Other(x) \in Ends /\ Other(x) # x /\ Other(Other(x)) = x
      /\ state_ \in [Ends -> internal_state]
      /\ \A e \in Ends : e = x \/ e = Other(x)
  BY VerbFacts DEF Covered, TypeOK
<1>3. \A e \in Ends : /\ Other(e) \in Ends
                      /\ local_positive(e) \in negotiation_type
                      /\ local_negative(e) \in negotiation_type
  BY VerbFacts, LocalVerbs
<1>4. ASSUME state_'[x] = state_[x], wire'[x] = wire[x] PROVE CoveredAt(x)'
  BY <1>2, <1>4 DEF CoveredAt
<1>5. ASSUME NEW e \in Ends, activate(e) PROVE CoveredAt(x)'
  <2>1. /\ state_[e] = "inactive" /\ state_'[Other(e)] = state_[Other(e)]
        /\ wire'[Other(e)] = Append(wire[Other(e)], local_positive(e)) /\ wire'[e] = wire[e]
    BY <1>2, <1>3, <1>5, WriteFacts, LocalVerbs, VerbFacts DEF activate, become
  <2>2. CASE e = Other(x)
    BY <1>2, <1>3, <2>1, <2>2, WriteCovered
  <2>3. CASE e = x
    BY <1>2, <2>1, <2>3 DEF CoveredAt
  <2> QED BY <1>2, <2>2, <2>3
<1>6. ASSUME NEW e \in Ends, deactivate(e) PROVE CoveredAt(x)'
  <2>1. /\ state_'[e] = "deactivating" /\ state_'[Other(e)] = state_[Other(e)]
        /\ wire'[Other(e)] = Append(wire[Other(e)], local_negative(e)) /\ wire'[e] = wire[e]
    BY <1>2, <1>3, <1>6, WriteFacts, LocalVerbs, VerbFacts DEF deactivate, become
  <2>2. CASE e = Other(x)
    BY <1>2, <1>3, <2>1, <2>2, WriteCovered
  <2>3. CASE e = x
    BY <1>2, <2>1, <2>3 DEF CoveredAt
  <2> QED BY <1>2, <2>2, <2>3
<1>7. ASSUME NEW e \in Ends, write_subnegotiation(e) PROVE CoveredAt(x)'
  <2>1. /\ UNCHANGED state_
        /\ active(e) \/ e \in Unchecked
        /\ wire'[Other(e)] = Append(wire[Other(e)], "sub") /\ wire'[e] = wire[e]
    BY <1>7, WriteFacts DEF write_subnegotiation
  <2>2. CASE e = Other(x)
    BY <1>2, <2>1, <2>2, WriteSubnegotiationCovered
  <2>3. CASE e = x
    BY <1>2, <2>1, <2>3, SMTT(30) DEF CoveredAt
  <2> QED BY <1>2, <2>2, <2>3
<1>8. ASSUME NEW e \in Ends, negotiate(e) PROVE CoveredAt(x)'
  <2>1. /\ wire[e] # <<>> /\ state_'[Other(e)] = state_[Other(e)]
        /\ \/ Head(wire[e]) = remote_positive(e) /\ state_'[e] = "active"
           \/ Head(wire[e]) = remote_negative(e) /\ state_'[e] = "inactive"
    BY <1>2, <1>8 DEF negotiate, become
  <2>2. read(e) \/ \E v \in Verbs(Other(e)) : read_and_write(e, v)
    BY <1>8, LocalVerbs DEF negotiate
  <2>3. /\ wire'[e] = Tail(wire[e])
        /\ \/ wire'[Other(e)] = wire[Other(e)]
           \/ \E v \in negotiation_type : wire'[Other(e)] = Append(wire[Other(e)], v)
    <3>1. \A v \in Verbs(Other(e)) : v \in negotiation_type
      BY <1>3, VerbFacts
    <3> QED BY <2>1, <2>2, <3>1, ReadFacts, ReadAndWriteFacts
  <2>4. CASE e = x
    BY <1>2, <2>1, <2>3, <2>4, ReadCovered
  <2>5. CASE e = Other(x)
    BY <1>2, <1>4, <2>1, <2>3, <2>5, WriteCovered
  <2> QED BY <1>2, <2>4, <2>5
<1>9. ASSUME NEW e \in Ends, subnegotiate(e) PROVE CoveredAt(x)'
  <2>1. /\ wire[e] # <<>> /\ Head(wire[e]) = "sub" /\ UNCHANGED state_
        /\ wire'[e] = Tail(wire[e]) /\ wire'[Other(e)] = wire[Other(e)]
    BY <1>9, ReadFacts DEF subnegotiate
  <2>2. CASE e = x
    BY <1>2, <2>1, <2>2, ReadCovered
  <2>3. CASE e = Other(x)
    BY <1>2, <1>4, <2>1, <2>3
  <2> QED BY <1>2, <2>2, <2>3
<1> QED BY <1>5, <1>6, <1>7, <1>8, <1>9 DEF Next

\* Every subnegotiation in flight was written for an option that will be on,
\* or on its way out, when it is read.
THEOREM CoveredHolds == Spec => []Covered
<1> QED BY TypeCorrect, PhasesReached, InitCovered, NextCovered, PTL DEF Spec

LEMMA CoveredIsNotStray ==
    ASSUME TypeOK, Covered
    PROVE  NoStraySubnegotiation
<1> SUFFICES ASSUME NEW e \in Ends, wire[e] # <<>>, Other(e) \notin Unchecked,
                    Head(wire[e]) = "sub"
             PROVE  state_[e] \in {"active", "deactivating"}
  BY DEF NoStraySubnegotiation
<1>1. Head(wire[e]) = wire[e][1] /\ Len(wire[e]) \in Nat \ {0}
  BY TailFacts DEF TypeOK
<1> QED BY <1>1 DEF Covered, CoveredAt

\* A subnegotiation written by an option that checks active() never reaches an
\* option that has not agreed, or has finished.
THEOREM NoStrayHolds == Spec => []NoStraySubnegotiation
<1> QED BY TypeCorrect, CoveredHolds, CoveredIsNotStray, PTL
===============================================================================
