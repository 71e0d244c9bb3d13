----------------------- MODULE MCPassThroughListener -----------------------
(* PassThroughListener for TLC: two connections, one of them stalled.      *)
EXTENDS PassThroughListener

CONSTANTS a, b

MCConn == {a, b}
MCStalled == {b}
=============================================================================
