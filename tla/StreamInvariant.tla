----------------------------- MODULE StreamInvariant -----------------------------
(***************************************************************************)
(* The inductive invariant of Stream: what is still expected is what the   *)
(* parser would emit if it were fed the rest of the channel at once.       *)
(***************************************************************************)
EXTENDS Stream

\* What a parser has passed on, and the text it would pass on next.
Shown(p) == Items(p.out) \o Texts(p.plain_data)

\* With the whole channel read, the parser would have emitted what is expected;
\* it would be where the last element ended, and, if another program wrote, as
\* the parser that reads byte by byte.
Ahead ==
    LET p == fed(parser, wire)
    IN  /\ expected = Shown(p)
        /\ IF foreign THEN bytewise = Fresh(p) ELSE p.state = "idle"

Inductive == TypeOK /\ Ahead
===============================================================================
