------------------------------- MODULE MCSession -------------------------------
(* Session for TLC: who has which option. *)
EXTENDS SessionInvariant

\* a serves every code, b is the client of every code.
OneRole == {<<"a", "server", c>> : c \in Codes} \cup {<<"b", "client", c>> : c \in Codes}

\* Both machines are both server and client of c1.
BothRoles == {"a", "b"} \X {"server", "client"} \X {"c1"}

\* c1 and c2 are served by a; b is the client of both, and has a server of c1
\* besides, for which a has no client.
Mixed ==
    {<<"a", "server", "c1">>, <<"b", "client", "c1">>, <<"b", "server", "c1">>,
     <<"a", "server", "c2">>, <<"b", "client", "c2">>}

\* Installed beforehand: c1, as far as both have it.
Matched == {<<"a", "server", "c1">>, <<"b", "client", "c1">>}

\* Nothing installed beforehand.
Nothing == {}
===============================================================================
