---------------------------------- MODULE Wires ----------------------------------
(***************************************************************************)
(* What several conversations that share one connection look like to one   *)
(* of them: the elements that are its own, in their order, as it sees them.*)
(* The refinement mappings of this project are made of it.  It is written  *)
(* as a recursive function, which can be reasoned about, where SelectSeq   *)
(* cannot.                                                                 *)
(***************************************************************************)
EXTENDS Naturals, Sequences

\* What comes of base when step is applied to it and each element of s in turn.
Folded(step, base, s) ==
    LET after[i \in 0..Len(s)] ==
            IF i = 0 THEN base ELSE step[<<after[i - 1], s[i]>>]
    IN after[Len(s)]

\* The elements of w on which the function f is defined, each seen through f.
Project(w, f) ==
    LET seen[i \in 0..Len(w)] ==
            IF i = 0 THEN <<>>
            ELSE IF w[i] \in DOMAIN f THEN Append(seen[i - 1], f[w[i]])
            ELSE seen[i - 1]
    IN seen[Len(w)]

\* The elements of w that are in keep, as they are.
Only(w, keep) == Project(w, [x \in keep |-> x])
===============================================================================
