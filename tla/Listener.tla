------------------------------ MODULE Listener ------------------------------
(***************************************************************************)
(* What Server relies on from a listener that counts its own handlers      *)
(* (proxy.TLSPassThroughListener), without its threads and its sockets:    *)
(* when a connection may be taken, when the socket may close and what the  *)
(* return of Shutdown promises.  PassThroughListener implements it, Server *)
(* is built on it.                                                         *)
(***************************************************************************)
CONSTANTS
    Conn,   \* connections that clients may open
    None    \* no connection

VARIABLES
    ctx,    \* the context of the listener is cancelled
    lst     \* the listener

vars == <<ctx, lst>>

\* The socket; the connection that is accepted and not counted yet; those whose
\* handlers are counted; the call of Shutdown; whether serving ended in an error.
State == [sock : {"unbound", "open", "closed"}, inhand : Conn \union {None},
          held : SUBSET Conn, stop : {"no", "asked", "returned"}, end : {"none", "failed"}]

Initial == [sock |-> "unbound", inhand |-> None, held |-> {},
            stop |-> "no", end |-> "none"]

\* Each operation is given by the states it may lead to.
When(condition, states) == IF condition THEN states ELSE {}

Bind(l) == When(l.sock = "unbound", {[l EXCEPT !.sock = "open"]})

Accept(l) ==
    When(l.sock = "open" /\ l.inhand = None,
         {[l EXCEPT !.inhand = c] : c \in Conn \ l.held})

\* Nothing stops a connection in hand from being served, not even that Shutdown
\* has returned.
Handle(l) ==
    When(l.inhand # None,
         {[l EXCEPT !.held = @ \union {l.inhand}, !.inhand = None]})

Finish(l) == {[l EXCEPT !.held = @ \ {c}] : c \in l.held}

\* The socket closes only when the listener is told to stop.
Close(cancelled, l) ==
    When(cancelled /\ l.sock = "open", {[l EXCEPT !.sock = "closed"]})

\* Serving fails for want of a socket, or of an Accept that nobody caused.
Fail(cancelled, l) ==
    When(l.sock = "unbound" \/ ~cancelled, {[l EXCEPT !.end = "failed"]})

\* Shutdown returns when it has seen no handler.
Return(l) ==
    When(l.stop = "asked" /\ l.held = {}, {[l EXCEPT !.stop = "returned"]})

\* The listener by itself: its failure is the end of the process.
Steps(cancelled, l) ==
    When(l.end = "none",
         UNION {Bind(l), Accept(l), Handle(l), Finish(l), Close(cancelled, l),
                Fail(cancelled, l), Return(l)})

Init == ctx = FALSE /\ lst = Initial

\* The parent context is cancelled, or Shutdown is called and cancels it.
Cancel == ctx' = TRUE /\ UNCHANGED lst

Shutdown ==
    /\ lst.stop = "no"
    /\ lst' = [lst EXCEPT !.stop = "asked"]
    /\ ctx' = TRUE

Next ==
    \/ lst' \in Steps(ctx, lst) /\ UNCHANGED ctx
    \/ Cancel
    \/ Shutdown

Spec == Init /\ [][Next]_vars
=============================================================================
