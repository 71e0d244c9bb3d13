----------------------------- MODULE MCRouting -----------------------------
(* Routing with three names, one above the next: x, a.x and b.a.x.         *)
EXTENDS Routing

X   == <<"x">>
AX  == <<"a", "x">>
BAX == <<"b", "a", "x">>

MCHost    == {X, AX, BAX}
MCPattern == {Every, Exactly(AX), Under(X)}

\* "/" and "/v" as prefixes; "/", "/v" and "/vw" as paths.
MCPrefix == {<<"/">>, <<"/", "v">>}
MCPath   == MCPrefix \union {<<"/", "v", "w">>}

\* An upstream at the root and one below "/u", each with and without strip_prefix.
AtRoot == {Direct, [path |-> <<>>, strip |-> TRUE]}
Below  == AtRoot \union {[path |-> <<"/", "u">>, strip |-> s] : s \in BOOLEAN}
=============================================================================
