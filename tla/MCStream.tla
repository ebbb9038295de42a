-------------------------------- MODULE MCStream --------------------------------
(* Stream for TLC: bytes and elements that need every kind of care. *)
EXTENDS StreamInvariant

\* IAC, SE and verbs in the text, as option codes and in the content.
Hard ==
    {text(<<"x", "iac">>), command("se"), negotiation("will", "iac"),
     subnegotiation("iac", <<"iac", "se">>), subnegotiation("sb", <<>>)}
===============================================================================
