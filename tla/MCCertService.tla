--------------------------- MODULE MCCertService ---------------------------
(***************************************************************************)
(* CertService for TLC: a name and the wildcard that covers it, each with  *)
(* a configuration that asks for it alone.                                 *)
(***************************************************************************)
EXTENDS CertService, TLC

CONSTANTS api, wild

MCDomain == {api, wild}
MCWildcardOf == (api :> wild) @@ (wild :> None)

\* "_wildcard.x.crt" < "api.x.crt"
MCRank == (wild :> 1) @@ (api :> 2)

MCLists == {[primary |-> api, names |-> {api}],
            [primary |-> wild, names |-> {wild}]}

MCCaller == {Main}
=============================================================================
