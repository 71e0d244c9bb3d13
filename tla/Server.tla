------------------------------- MODULE Server -------------------------------
(***************************************************************************)
(* proxy.Server and the end of cmd.runServer: Start brings the listeners   *)
(* up one by one, a signal cancels the context, Stop shuts all of them     *)
(* down at once under a deadline, and the process exits.  The listeners    *)
(* with passthrough routes are the contract of module Listener; net/http   *)
(* is modelled by what the code relies on.                                 *)
(***************************************************************************)
EXTENDS Integers, Sequences

CONSTANTS
    Conn,      \* connections that clients may open
    None,      \* no connection, no server
    Config,    \* the listeners, in the order of the configuration
    Kind,      \* of each: "http", "proxyproto" or "passthrough"
    ByName,    \* those of them whose address is a host name
    Slow,      \* connections whose client may stop reading
    MaxFault   \* bound: failures of Listen, of Accept and of the set-up

ASSUME ServerAssumption ==
    /\ Config \in Seq(DOMAIN Kind)
    /\ \A k \in DOMAIN Kind : \E i \in DOMAIN Config : Config[i] = k
    /\ Kind \in [DOMAIN Kind -> {"http", "proxyproto", "passthrough"}]
    /\ ByName \subseteq DOMAIN Kind
    /\ None \notin Conn \union DOMAIN Kind
    /\ Slow \subseteq Conn
    /\ MaxFault \in Nat

Relay == {k \in DOMAIN Kind : Kind[k] = "passthrough"}
Http  == DOMAIN Kind \ Relay

VARIABLES
    phase,      \* where runServer is
    exit,       \* how the process ended
    next,       \* the listener that Start's loop has come to
    registered, \* s.servers and s.tlsPassthroughServers
    ctx,        \* the server's context is cancelled
    deadline,   \* the 30 seconds of shutdownCtx are over
    lst,        \* each passthrough listener, as its contract has it
    srv,        \* each http.Server: its serving goroutine
    shut,       \*   and its Shutdown
    at,         \* the http.Server of each connection
    req,        \* the connection's request
    faults      \* failures so far

\* The context of a passthrough listener: Shutdown cancels it too.
Cancelled(k) == ctx \/ lst[k].stop # "no"

L(k) == INSTANCE Listener WITH lst <- lst[k], ctx <- Cancelled(k)

run   == <<phase, exit>>
boot  == <<next, registered>>
http  == <<srv, shut>>
conns == <<at, req>>
vars  == <<run, boot, ctx, deadline, lst, http, conns, faults>>

\* Of a connection: a request that waits for its response, or whose response is
\* being copied to the client, is in flight.
ReqState == {"none", "idle", "active", "copying", "upgraded"}
InFlight == {"active", "copying"}

TypeOK ==
    /\ phase \in {"starting", "serving", "cancelled", "stopping", "exited"}
    /\ exit \in {"none", "clean", "error", "fatal", "killed"}
    /\ (exit = "none") <=> (phase # "exited")
    /\ next \in 1..(Len(Config) + 1)
    /\ registered \subseteq DOMAIN Kind
    /\ ctx \in BOOLEAN /\ deadline \in BOOLEAN
    /\ lst \in [Relay -> L(None)!State]
    /\ srv \in [Http -> {"none", "listening", "open", "closing", "done"}]
    /\ shut \in [Http -> {"no", "asked", "returned", "late"}]
    /\ at \in [Conn -> Http \union {None}]
    /\ req \in [Conn -> ReqState]
    /\ \A c \in Conn : at[c] = None <=> req[c] = "none"
    /\ faults \in 0..MaxFault

Init ==
    /\ phase = "starting"
    /\ exit = "none"
    /\ next = 1
    /\ registered = {}
    /\ ctx = FALSE
    /\ deadline = FALSE
    /\ lst = [k \in Relay |-> L(k)!Initial]
    /\ srv = [k \in Http |-> "none"]
    /\ shut = [k \in Http |-> "no"]
    /\ at = [c \in Conn |-> None]
    /\ req = [c \in Conn |-> "none"]
    /\ faults = 0

Running == phase # "exited"
Fault   == faults < MaxFault /\ faults' = faults + 1

\* logger.Fatal and os.Exit end every goroutine where it is.
Exits(how) == phase' = "exited" /\ exit' = how

-----------------------------------------------------------------------------
(* Start                                                                   *)

Starting(k) == phase = "starting" /\ next <= Len(Config) /\ k = Config[next]

Registers(k) ==
    /\ next' = next + 1
    /\ registered' = registered \union {k}
    /\ UNCHANGED <<run, ctx, deadline, conns, faults>>

\* The server is registered; its goroutine will listen.
StartHTTP(k) ==
    /\ Starting(k) /\ Kind[k] = "http"
    /\ Registers(k)
    /\ srv' = [srv EXCEPT ![k] = "listening"]
    /\ UNCHANGED <<lst, shut>>

\* Mutant of StartProxyProtocol: the server is not put into s.servers.
StartProxyProtocolUnlisted(k) ==
    /\ Starting(k) /\ Kind[k] = "proxyproto"
    /\ next' = next + 1
    /\ srv' = [srv EXCEPT ![k] = "open"]
    /\ UNCHANGED <<run, registered, ctx, deadline, conns, faults, lst, shut>>

\* With PROXY protocol Start itself listens and the goroutine only serves.
StartProxyProtocol(k) ==
    /\ Starting(k) /\ Kind[k] = "proxyproto"
    /\ Registers(k)
    /\ srv' = [srv EXCEPT ![k] = "open"]
    /\ UNCHANGED <<lst, shut>>

StartPassThrough(k) ==
    /\ Starting(k) /\ Kind[k] = "passthrough"
    /\ Registers(k)
    /\ UNCHANGED <<lst, http>>

\* Mutant of StartFails: the error of Start is only logged.
StartFailsLogged(k) ==
    /\ Starting(k)
    /\ Fault
    /\ phase' = "serving"
    /\ UNCHANGED <<exit, boot, ctx, deadline, lst, http, conns>>

\* A router, a TLS configuration or the socket cannot be had: the error of Start,
\* or Fatal at once, ends the process with the listeners before this one at work.
StartFails(k) ==
    /\ Starting(k)
    /\ Fault
    /\ Exits("fatal")
    /\ UNCHANGED <<boot, ctx, deadline, lst, http, conns>>

\* Start returns, and runServer subscribes to signals.
Notify ==
    /\ phase = "starting" /\ next > Len(Config)
    /\ phase' = "serving"
    /\ UNCHANGED <<exit, boot, ctx, deadline, lst, http, conns, faults>>

\* A signal that comes earlier has its default effect.
Killed ==
    /\ phase = "starting"
    /\ Exits("killed")
    /\ UNCHANGED <<boot, ctx, deadline, lst, http, conns, faults>>

-----------------------------------------------------------------------------
(* The listeners                                                           *)

\* http.Server listens, unless Shutdown came first; an error is fatal.
Listen(k) ==
    /\ Running /\ srv[k] = "listening"
    /\ \/ /\ shut[k] = "no"
          /\ srv' = [srv EXCEPT ![k] = "open"]
          /\ UNCHANGED <<run, faults>>
       \/ /\ shut[k] # "no"
          /\ srv' = [srv EXCEPT ![k] = "closing"]
          /\ UNCHANGED <<run, faults>>
       \/ /\ Fault /\ Exits("fatal")
          /\ UNCHANGED srv
    /\ UNCHANGED <<boot, ctx, deadline, lst, shut, conns>>

\* What Serve returns: any error of Accept is ErrServerClosed once Shutdown has begun.
ServeError(k) == IF shut[k] = "no" THEN "error" ELSE "ErrServerClosed"

\* Mutant of ServeEnds: ErrServerClosed is taken for an error.
ServeEndsFatal(k) ==
    /\ Exits("fatal") /\ UNCHANGED srv
    /\ UNCHANGED <<boot, ctx, deadline, lst, shut, conns>>

\* The serving goroutine has an error from Serve: one that Shutdown did not cause is
\* fatal.
ServeEnds(k) ==
    /\ IF ServeError(k) = "ErrServerClosed"
       THEN srv' = [srv EXCEPT ![k] = "done"] /\ UNCHANGED run
       ELSE Exits("fatal") /\ UNCHANGED srv
    /\ UNCHANGED <<boot, ctx, deadline, lst, shut, conns>>

\* Accept fails for good.
ServeFails(k) == Running /\ srv[k] = "open" /\ Fault /\ ServeEnds(k)

\* Accept fails because the socket is closed, or was never opened.
ServeReturns(k) == Running /\ srv[k] = "closing" /\ ServeEnds(k) /\ UNCHANGED faults

\* The client of c has no other connection.
Free(c) ==
    /\ req[c] = "none"
    /\ \A k \in Relay : c # lst[k].inhand /\ c \notin lst[k].held

\* Listen looks the host name up with the listener's context: it fails for no other
\* reason than that this is cancelled.
TooLate(k) == k \in ByName /\ Cancelled(k) /\ lst[k].sock = "unbound"

\* A passthrough listener does what its contract allows; its failure is fatal.
PassThrough(k) ==
    /\ Running /\ k \in registered
    /\ \E m \in L(k)!Steps(Cancelled(k), lst[k]) :
         /\ m.inhand \in {None, lst[k].inhand} \union {c \in Conn : Free(c)}
         /\ lst' = [lst EXCEPT ![k] = m]
         /\ IF m.end = "failed"
            THEN Exits("fatal") /\ (Fault \/ (TooLate(k) /\ UNCHANGED faults))
            ELSE UNCHANGED <<run, faults>>
    /\ UNCHANGED <<boot, ctx, deadline, http, conns>>

-----------------------------------------------------------------------------
(* Connections and requests of an http.Server                              *)

SetReq(c, from, to) ==
    /\ Running /\ req[c] = from
    /\ req' = [req EXCEPT ![c] = to]
    /\ at' = [at EXCEPT ![c] = IF to = "none" THEN None ELSE @]
    /\ UNCHANGED <<run, boot, ctx, deadline, lst, http, faults>>

Connect(c, k) ==
    /\ Running /\ srv[k] = "open" /\ Free(c)
    /\ at' = [at EXCEPT ![c] = k]
    /\ req' = [req EXCEPT ![c] = "idle"]
    /\ UNCHANGED <<run, boot, ctx, deadline, lst, http, faults>>

Request(c) == SetReq(c, "idle", "active")

\* A server that shuts down keeps no connection alive.
Replied(c) == IF at[c] # None /\ shut[at[c]] = "no" THEN "idle" ELSE "none"

\* The header of the upstream's response is sent on; its body follows.
Respond(c) == SetReq(c, "active", "copying")

\* The response is complete: the upstream's, the redirect, the 404, or the 502 of the
\* error handler when the upstream fails or the route's timeout expires.
Answer(c) == \E from \in InFlight : SetReq(c, from, Replied(c))

\* deriveContext: a request, whenever it came, is cut off once the server's context
\* is cancelled.  If it has no response yet it is answered 502; a response that is
\* being copied is aborted with its connection, and so are upgraded connections.
CancelRequest(c) ==
    /\ ctx
    /\ \/ SetReq(c, "active", Replied(c))
       \/ \E from \in {"copying", "upgraded"} : SetReq(c, from, "none")

\* The upstream switches protocols: the connection is the proxy's, not the
\* server's, from then on.
Upgrade(c) == SetReq(c, "active", "upgraded")

\* Mutant of Disconnect: the server still tracks a connection that is gone.
DisconnectTracked(c) ==
    /\ Running /\ req[c] # "none"
    /\ req' = [req EXCEPT ![c] = "none"]
    /\ UNCHANGED <<run, boot, ctx, deadline, lst, http, at, faults>>

\* The client goes away, or the upstream in the middle of its response.
Disconnect(c) == \E from \in ReqState \ {"none"} : SetReq(c, from, "none")

-----------------------------------------------------------------------------
(* Signal, Stop, exit                                                      *)

\* The first signal cancels the context; later ones are not read.
Signal ==
    /\ phase = "serving"
    /\ phase' = "cancelled"
    /\ ctx' = TRUE
    /\ UNCHANGED <<exit, boot, deadline, lst, http, conns, faults>>

Stop ==
    /\ phase = "cancelled"
    /\ phase' = "stopping"
    /\ UNCHANGED <<exit, boot, ctx, deadline, lst, http, conns, faults>>

\* Stop's goroutine for an http.Server: Shutdown closes the socket.
ShutdownHTTP(k) ==
    /\ phase = "stopping" /\ k \in registered /\ shut[k] = "no"
    /\ shut' = [shut EXCEPT ![k] = "asked"]
    /\ srv' = [srv EXCEPT ![k] = IF @ = "open" THEN "closing" ELSE @]
    /\ UNCHANGED <<run, boot, ctx, deadline, lst, conns, faults>>

\* Mutant of ShutdownPassThrough: it does not wait for the handlers.
ShutdownUnwaited(k) ==
    /\ phase = "stopping" /\ k \in registered /\ lst[k].stop = "no"
    /\ lst' = [lst EXCEPT ![k].stop = "returned"]
    /\ UNCHANGED <<run, boot, ctx, deadline, http, conns, faults>>

\* Its goroutine for a passthrough listener: Shutdown cancels the listener's context.
ShutdownPassThrough(k) ==
    /\ phase = "stopping" /\ k \in registered /\ lst[k].stop = "no"
    /\ lst' = [lst EXCEPT ![k].stop = "asked"]
    /\ UNCHANGED <<run, boot, ctx, deadline, http, conns, faults>>

At(k, states) == {c \in Conn : at[c] = k /\ req[c] \in states}

\* The 30 seconds are over.  They are long beside all that the code does by
\* itself: what is left then is a client that does not read.
Deadline ==
    /\ phase = "stopping" /\ ~deadline
    /\ \A k \in Http : At(k, InFlight) \subseteq Slow
    /\ deadline' = TRUE
    /\ UNCHANGED <<run, boot, ctx, lst, http, conns, faults>>

\* Mutant of ShutdownReturns: Shutdown is given a context without a deadline.
ShutdownReturnsDrained(k) ==
    /\ Running /\ shut[k] = "asked" /\ At(k, InFlight) = {}
    /\ shut' = [shut EXCEPT ![k] = "returned"]
    /\ at' = [c \in Conn |-> IF c \in At(k, {"idle"}) THEN None ELSE at[c]]
    /\ req' = [c \in Conn |-> IF c \in At(k, {"idle"}) THEN "none" ELSE req[c]]
    /\ UNCHANGED <<run, boot, ctx, deadline, lst, srv, faults>>

\* Shutdown of an http.Server closes idle connections and returns when no request
\* is left, or with the error of the context; upgraded connections do not count.
ShutdownReturns(k) ==
    /\ Running /\ shut[k] = "asked"
    /\ \/ At(k, InFlight) = {} /\ shut' = [shut EXCEPT ![k] = "returned"]
       \/ At(k, InFlight) # {} /\ deadline /\ shut' = [shut EXCEPT ![k] = "late"]
    /\ at' = [c \in Conn |-> IF c \in At(k, {"idle"}) THEN None ELSE at[c]]
    /\ req' = [c \in Conn |-> IF c \in At(k, {"idle"}) THEN "none" ELSE req[c]]
    /\ UNCHANGED <<run, boot, ctx, deadline, lst, srv, faults>>

\* wg.Wait over all of them, the joined errors, and the end of runServer.
StopReturns ==
    /\ phase = "stopping"
    /\ \A k \in registered \cap Http : shut[k] \in {"returned", "late"}
    /\ \A k \in registered \cap Relay : lst[k].stop = "returned"
    /\ Exits(IF \E k \in registered \cap Http : shut[k] = "late" THEN "error" ELSE "clean")
    /\ UNCHANGED <<boot, ctx, deadline, lst, http, conns, faults>>

-----------------------------------------------------------------------------
Boot == \E k \in DOMAIN Kind :
    StartHTTP(k) \/ StartProxyProtocol(k) \/ StartPassThrough(k)

Client(c) ==
    \/ \E k \in Http : Connect(c, k)
    \/ Request(c) \/ Respond(c) \/ Answer(c) \/ CancelRequest(c) \/ Upgrade(c) \/ Disconnect(c)

Next ==
    \/ Boot \/ Notify \/ Killed \/ Signal \/ Stop \/ Deadline \/ StopReturns
    \/ \E k \in DOMAIN Kind : StartFails(k)
    \/ \E k \in Http :
         Listen(k) \/ ServeFails(k) \/ ServeReturns(k) \/ ShutdownHTTP(k) \/ ShutdownReturns(k)
    \/ \E k \in Relay : PassThrough(k) \/ ShutdownPassThrough(k)
    \/ \E c \in Conn : Client(c)

\* What a passthrough listener does by itself: it binds its socket and closes it,
\* counts what it has in hand, returns from Shutdown (PassThroughListener's
\* SocketCloses and ShutdownEnds).
Moves(k, field) ==
    (field = "inhand" => lst[k].inhand # None) /\ PassThrough(k) /\ lst'[k][field] # lst[k][field]

\* The program's own steps are fair.  Clients, upstreams, faults and signals are
\* not, and a request of a slow client need not notice that it was cancelled.
Fairness ==
    /\ WF_vars(Boot) /\ WF_vars(Notify) /\ WF_vars(Stop) /\ WF_vars(StopReturns)
    /\ WF_vars(Deadline)
    /\ \A k \in Http :
         /\ WF_vars(Listen(k)) /\ WF_vars(ServeReturns(k))
         /\ WF_vars(ShutdownHTTP(k)) /\ WF_vars(ShutdownReturns(k))
    /\ \A k \in Relay :
         /\ WF_vars(ShutdownPassThrough(k))
         /\ \A field \in {"sock", "inhand", "stop"} : WF_vars(Moves(k, field))
         /\ \A c \in Conn \ Slow :
              WF_vars(Cancelled(k) /\ c \in lst[k].held /\ PassThrough(k) /\ c \notin lst'[k].held)
    /\ \A c \in Conn \ Slow : WF_vars(CancelRequest(c))

Spec == Init /\ [][Next]_vars /\ Fairness

-----------------------------------------------------------------------------
(* Properties                                                              *)

\* Stop finds every listener that Start brought up, on each of Start's paths, and
\* waits for it: when the process reports a clean shutdown no socket of an http.Server
\* is open, none of its requests is still in flight, and the Shutdown of every
\* passthrough listener has returned.  A request that is not in flight may have been
\* cut off: runServer cancels the context first.
CleanExit ==
    exit = "clean" =>
      /\ \A k \in Http : srv[k] # "open"
      /\ \A c \in Conn : req[c] \notin InFlight
      /\ \A k \in Relay : lst[k].stop = "returned"

\* The inductive invariant of CleanExit: which servers Stop knows, and what a server
\* that was shut down still has.
SafeInv ==
    /\ CleanExit
    /\ exit = "none" <=> phase # "exited"
    /\ phase \in {"starting", "serving", "cancelled", "stopping", "exited"}
    /\ next \in Nat /\ registered \subseteq DOMAIN Kind
    /\ srv \in [Http -> {"none", "listening", "open", "closing", "done"}]
    /\ shut \in [Http -> {"no", "asked", "returned", "late"}]
    /\ lst = [k \in Relay |-> lst[k]]
    /\ at \in [Conn -> Http \union {None}]
    /\ req \in [Conn -> ReqState]
    /\ \A c \in Conn : at[c] = None <=> req[c] = "none"
    /\ \A i \in DOMAIN Config : i < next => Config[i] \in registered
    /\ phase \in {"serving", "cancelled", "stopping"} => next > Len(Config)
    /\ \A k \in Http :
         /\ srv[k] # "none" => k \in registered
         /\ shut[k] # "no" => srv[k] # "open" /\ phase \in {"stopping", "exited"}
         /\ shut[k] = "returned" =>
              \A c \in Conn : at[c] = k => req[c] = "upgraded"

\* What runs on a passthrough listener keeps to its contract on both sides: it is
\* told to shut down once, and that returns only when it sees no handler.
ContractKept == [][\A k \in Relay : L(k)!Next \/ UNCHANGED L(k)!vars]_vars

\* A signal ends the process through log.Fatal, whichever way the serving goroutines,
\* the cancellation and the shutdowns race, only if a listener with passthrough routes
\* is still looking up the host name of its address: the cancellation makes that fail.
StopIsNoFailure ==
    exit = "fatal" /\ faults = 0 =>
      ctx /\ \E k \in Relay \cap ByName : lst[k].sock = "unbound"

\* The inductive invariant: beside the types and SafeInv, that Stop comes after the
\* cancellation, and why a serving goroutine ends.
IInv ==
    /\ TypeOK
    /\ SafeInv
    /\ phase \in {"cancelled", "stopping"} => ctx
    /\ \A k \in Relay : lst[k].stop # "no" => ctx
    /\ \A k \in Http : srv[k] = "closing" => shut[k] # "no"
    /\ StopIsNoFailure

Bound(k) == IF k \in Http THEN srv[k] = "open" ELSE lst[k].sock = "open"

\* Before long a process serves every configured listener, or it is told to stop, or
\* it is gone: none is missing while the others go on, whether Start fails on it or
\* its goroutine does after Start has returned.
AllServe ==
    phase \in {"starting", "serving"} ~>
      \/ phase \notin {"starting", "serving"}
      \/ \A k \in DOMAIN Kind : k \in registered /\ Bound(k)

\* The shutdown ends, with or without an error, whatever clients and upstreams do:
\* the deadline covers a client that stops reading from an http.Server.  It does
\* not cover one of a passthrough listener, which holds up the exit for ever.
StopEnds ==
    phase = "stopping" ~>
      (phase = "exited" \/ \E k \in Relay : lst[k].held \cap Slow # {})
=============================================================================
