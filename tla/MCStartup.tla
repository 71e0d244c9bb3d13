----------------------------- MODULE MCStartup -----------------------------
(* Startup for TLC: one listener of every kind alone or beside an ACME one, *)
(* lists of providers that are right or wrong, two CAs.                     *)
EXTENDS Startup

CONSTANTS staging, production

X     == <<"x">>
WildX == <<"*", ".", "x">>
AX    == <<"a", ".", "x">>

Star     == <<"*">>
Under(n) == <<"*", ".">> \o n
Bad      == <<"[", "a">>
MCClass  == [c \in {"[ab]", "\\*"} |-> IF c = "[ab]" THEN {"a", "b"} ELSE {"*"}]

Arvan(m)     == [name |-> "arvancloud", match |-> m, has |-> {"api_key"}, ttl |-> 600]
Cloud(m, h)  == [name |-> "cloudflare", match |-> m, has |-> h, ttl |-> 120]
Token        == {"api_token"}
EmailKey     == {"auth_email", "auth_key"}

MCProviders ==
    { <<>>, <<Arvan({})>>, <<Cloud({Under(AX)}, Token)>>,
      <<Arvan({AX}), Cloud({Under(X)}, EmailKey)>>,
      <<Arvan({Star}), Cloud({}, Token)>>, <<Arvan({Bad})>>,
      <<Arvan({}), Cloud({X}, {"auth_email"})>> }

\* Entries after the default for patterns that are not plain, and TTLs too short.
MCOthers ==
    {<<Arvan({}), Cloud({p}, Token)>> : p \in
        {<<"?", ".", "x">>, <<"[ab]", ".", "x">>, <<"*", ".", "?">>, <<"\\*", ".", "x">>,
         <<"a", "*">>, <<"*", "x">>}}
    \union {<<[Arvan({}) EXCEPT !.ttl = 120]>>, <<[Cloud({}, Token) EXCEPT !.ttl = 1]>>,
            <<[Cloud({}, Token) EXCEPT !.ttl = 0]>>}

Web(p, port, on, acme, ds, files) ==
    [protocol |-> p, tlsPort |-> port, enabled |-> on, useACME |-> acme, domains |-> ds,
     certFiles |-> files, passthrough |-> ~port, upstreams |-> TRUE, redirect |-> FALSE]

MCListeners ==
    {Web(at[1], at[2], on, tls = "acme", ds, tls = "files")
       : at \in {<<"", TRUE>>, <<"", FALSE>>, <<"https", FALSE>>}, on \in BOOLEAN,
         tls \in {"acme", "files", "none"}, ds \in {{}, {WildX}}}
    \union {[Web("http", FALSE, FALSE, FALSE, {}, FALSE) EXCEPT !.upstreams = FALSE, !.redirect = r]
              : r \in BOOLEAN}

\* The listeners that matter to what follows come with every list of providers and
\* both directories, the others with one.
Main == Web("https", TRUE, TRUE, TRUE, {WildX, AX}, FALSE)

Base == [listeners |-> <<Main>>, providers |-> <<Arvan({})>>, email |-> TRUE,
         dir |-> production, blankStorage |-> FALSE, badProxy |-> FALSE]

MCConfig ==
    {[Base EXCEPT !.providers = ps, !.email = e, !.dir = dir]
        : ps \in MCProviders, e \in BOOLEAN, dir \in {staging, production}}
    \union {[Base EXCEPT !.providers = ps] : ps \in MCOthers}
    \union {[Base EXCEPT !.blankStorage = b, !.badProxy = ~b] : b \in BOOLEAN}
    \union {[Base EXCEPT !.listeners = ls]
        : ls \in {<<>>, <<Web("https", FALSE, FALSE, TRUE, {AX}, FALSE), Main>>} \union {<<l>> : l \in MCListeners}}

MCDir == {staging, production}
=============================================================================
