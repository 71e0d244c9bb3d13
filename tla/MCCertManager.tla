--------------------------- MODULE MCCertManager ---------------------------
(***************************************************************************)
(* CertManager for TLC: two goroutines and three domains.  `api` and       *)
(* `wild` (the wildcard of `api`'s parent) and `apex` are requested by two *)
(* lists that overlap in `wild`, each with a bundle file of its own.       *)
(***************************************************************************)
EXTENDS CertManager, TLC

CONSTANTS api, wild, apex, c1, c2

MCDomain == {api, wild, apex}
MCWildcardOf == [d \in MCDomain |-> IF d = api THEN wild ELSE None]

\* "_wildcard.x.crt" < "apex.x.crt" < "api.x.crt"
MCRank == (wild :> 1) @@ (apex :> 2) @@ (api :> 3)

MCLists == {[primary |-> api, names |-> {api, wild}],
            [primary |-> wild, names |-> {wild, apex}]}
MCCaller == {c1, c2}
Callers == Permutations(MCCaller)

\* Bound: what the CA may sign in a behaviour.
MaxIssued == 3
FewIssued == Len(issued) <= MaxIssued
=============================================================================
