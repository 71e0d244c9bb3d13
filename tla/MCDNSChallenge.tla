--------------------------- MODULE MCDNSChallenge ---------------------------
(***************************************************************************)
(* DNSChallenge for TLC: a domain and its wildcard, which are challenged   *)
(* under one name, and another domain with ArvanCloud; a domain with       *)
(* another provider.                                                       *)
(***************************************************************************)
EXTENDS DNSChallenge, TLC

CONSTANTS apex, wild, other, plain

MCAuthz == {apex, wild, other, plain}
MCNameOf == (apex :> "x") @@ (wild :> "x") @@ (other :> "y") @@ (plain :> "z")
MCFixed == {apex, wild, other}
=============================================================================
