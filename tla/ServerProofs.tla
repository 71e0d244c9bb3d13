---------------------------- MODULE ServerProofs ----------------------------
(* The end of a process, for any list of listeners, any clients and faults. *)
EXTENDS Server, TLAPS

USE DEF ReqState, InFlight

\* A listener is a passthrough listener or an http.Server.
LEMMA HttpRelay == /\ Http \union Relay = DOMAIN Kind /\ Http \cap Relay = {}
                   /\ \A k \in DOMAIN Kind : k \in Relay <=> Kind[k] = "passthrough"
BY DEF Http, Relay

LEMMA InitSafe == Init => SafeInv
<1> SUFFICES ASSUME Init PROVE SafeInv
    OBVIOUS
<1>1. /\ srv \in [Http -> {"none", "listening", "open", "closing", "done"}]
      /\ shut \in [Http -> {"no", "asked", "returned", "late"}]
      /\ at \in [Conn -> Http \union {None}]
      /\ req \in [Conn -> ReqState]
      /\ lst = [k \in Relay |-> lst[k]]
    BY DEF Init
<1>2. \A i \in DOMAIN Config : i < next => Config[i] \in registered
    BY ServerAssumption DEF Init
<1> QED
    BY <1>1, <1>2 DEF Init, SafeInv, CleanExit

\* A process that does not exit cleanly has nothing to show.
LEMMA ExitSafe ==
    ASSUME SafeInv, phase # "exited", NEW how \in {"fatal", "killed", "error"}, Exits(how),
           UNCHANGED <<boot, ctx, deadline, lst, http, conns>>
    PROVE  SafeInv'
BY DEF SafeInv, CleanExit, Exits, boot, http, conns

LEMMA RegisterSafe ==
    ASSUME SafeInv, NEW k \in DOMAIN Kind, Starting(k), Registers(k), UNCHANGED <<lst, shut>>,
           \/ k \in Relay /\ UNCHANGED srv
           \/ k \in Http /\ \E s \in {"listening", "open"} : srv' = [srv EXCEPT ![k] = s]
    PROVE  SafeInv'
<1>1. /\ phase = "starting" /\ phase' = "starting" /\ exit' = exit /\ exit = "none"
      /\ next' = next + 1 /\ registered' = registered \union {k}
      /\ UNCHANGED <<at, req>>
    BY DEF Registers, Starting, run, conns, SafeInv
<1>2. next' \in Nat /\ \A i \in DOMAIN Config : i < next' => Config[i] \in registered'
  <2>1. \A i \in DOMAIN Config : i \in Nat /\ (i < next + 1 => i < next \/ i = next)
      BY ServerAssumption DEF SafeInv
  <2> QED
      BY <1>1, <2>1 DEF Starting, SafeInv
<1>3. \A j \in Http : shut[j] = "no"
    BY <1>1 DEF SafeInv
<1>4. srv' \in [Http -> {"none", "listening", "open", "closing", "done"}]
    BY DEF SafeInv
<1>5. \A j \in Http : srv'[j] # "none" => j \in registered'
    BY <1>1 DEF SafeInv
<1> QED
    BY <1>1, <1>2, <1>3, <1>4, <1>5 DEF SafeInv, CleanExit

LEMMA BootSafe ==
    ASSUME SafeInv, NEW k \in DOMAIN Kind, StartHTTP(k) \/ StartProxyProtocol(k) \/ StartPassThrough(k)
    PROVE  SafeInv'
<1>1. CASE StartHTTP(k)
    BY <1>1, RegisterSafe, HttpRelay DEF StartHTTP
<1>2. CASE StartProxyProtocol(k)
    BY <1>2, RegisterSafe, HttpRelay DEF StartProxyProtocol
<1>3. CASE StartPassThrough(k)
    BY <1>3, RegisterSafe, HttpRelay DEF StartPassThrough, http
<1> QED
    BY <1>1, <1>2, <1>3

LEMMA StartFailsSafe ==
    ASSUME SafeInv, NEW k \in DOMAIN Kind, StartFails(k)
    PROVE  SafeInv'
<1>1. phase # "exited" /\ Exits("fatal") /\ UNCHANGED <<boot, ctx, deadline, lst, http, conns>>
    BY DEF StartFails, Starting
<1> QED
    BY <1>1, ExitSafe

\* The phases of runServer up to Stop.
LEMMA PhaseSafe ==
    ASSUME SafeInv, Notify \/ Signal \/ Stop \/ Deadline
    PROVE  SafeInv'
<1>1. /\ UNCHANGED <<exit, next, registered, lst, srv, shut, at, req>>
      /\ phase' \in {"serving", "cancelled", "stopping"} /\ phase # "exited"
      /\ phase = "stopping" => phase' = "stopping"
      /\ phase = "starting" => next > Len(Config)
    BY DEF Notify, Signal, Stop, Deadline, run, boot, http, conns
<1> QED
    BY <1>1 DEF SafeInv, CleanExit

\* A change of one server's goroutine that opens its socket only before Shutdown.
LEMMA ServeSafe ==
    ASSUME SafeInv, NEW k \in Http, phase # "exited", srv[k] # "none",
           NEW s \in {"open", "closing", "done"}, s = "open" => shut[k] = "no",
           srv' = [srv EXCEPT ![k] = s],
           UNCHANGED <<run, boot, lst, shut, conns>>
    PROVE  SafeInv'
<1>1. srv' \in [Http -> {"none", "listening", "open", "closing", "done"}]
    BY DEF SafeInv
<1>2. \A j \in Http : /\ srv'[j] # "none" => j \in registered
                      /\ shut[j] # "no" => srv'[j] # "open"
    BY DEF SafeInv
<1>3. UNCHANGED <<phase, exit, next, registered, at, req>> /\ exit # "clean"
    BY DEF run, boot, conns, SafeInv
<1> QED
    BY <1>1, <1>2, <1>3 DEF SafeInv, CleanExit

LEMMA ListenSafe ==
    ASSUME SafeInv, NEW k \in Http, Listen(k) \/ ServeFails(k) \/ ServeReturns(k)
    PROVE  SafeInv'
<1>1. CASE ServeFails(k) \/ ServeReturns(k)
  <2>1. phase # "exited" /\ srv[k] # "none" /\ UNCHANGED <<boot, ctx, deadline, lst, shut, conns>>
      BY <1>1 DEF ServeFails, ServeReturns, ServeEnds, Running
  <2>2. \/ srv' = [srv EXCEPT ![k] = "done"] /\ UNCHANGED run
        \/ Exits("fatal") /\ UNCHANGED srv
      BY <1>1 DEF ServeFails, ServeReturns, ServeEnds
  <2>3. CASE srv' = [srv EXCEPT ![k] = "done"] /\ UNCHANGED run
      BY <2>1, <2>3, ServeSafe
  <2>4. CASE Exits("fatal") /\ UNCHANGED srv
      BY <2>1, <2>4, ExitSafe DEF http
  <2> QED
      BY <2>2, <2>3, <2>4
<1>2. CASE Listen(k)
  <2>1. phase # "exited" /\ srv[k] # "none" /\ UNCHANGED <<boot, ctx, deadline, lst, shut, conns>>
      BY <1>2 DEF Listen, Running
  <2>2. CASE shut[k] = "no" /\ srv' = [srv EXCEPT ![k] = "open"] /\ UNCHANGED <<run, faults>>
      BY <2>1, <2>2, ServeSafe
  <2>3. CASE shut[k] # "no" /\ srv' = [srv EXCEPT ![k] = "closing"] /\ UNCHANGED <<run, faults>>
      BY <2>1, <2>3, ServeSafe
  <2>4. CASE Fault /\ Exits("fatal") /\ UNCHANGED srv
      BY <2>1, <2>4, ExitSafe DEF http
  <2> QED
      BY <1>2, <2>2, <2>3, <2>4 DEF Listen
<1> QED
    BY <1>1, <1>2

LEMMA PassThroughSafe ==
    ASSUME SafeInv, NEW k \in Relay, PassThrough(k) \/ ShutdownPassThrough(k)
    PROVE  SafeInv'
<1>1. phase # "exited" /\ exit # "clean" /\ exit = "none"
    BY DEF PassThrough, ShutdownPassThrough, Running, SafeInv
<1>2. UNCHANGED <<boot, http, conns>>
    BY DEF PassThrough, ShutdownPassThrough
<1>3. lst' = [j \in Relay |-> lst'[j]]
    BY DEF PassThrough, ShutdownPassThrough, SafeInv
<1>4. UNCHANGED run \/ Exits("fatal")
    BY DEF PassThrough, ShutdownPassThrough
<1> QED
    BY <1>1, <1>2, <1>3, <1>4 DEF SafeInv, CleanExit, Exits, run, boot, http, conns

\* A request goes its way: nothing begins at a server that has been shut down.
LEMMA ReqSafe ==
    ASSUME SafeInv, NEW c \in Conn, NEW from \in ReqState \ {"none"},
           NEW to \in ReqState, from = "upgraded" => to = "none",
           SetReq(c, from, to)
    PROVE  SafeInv'
<1>1. phase # "exited" /\ exit # "clean" /\ req[c] = from
      /\ UNCHANGED <<phase, exit, next, registered, lst, srv, shut>>
    BY DEF SetReq, Running, run, boot, http, SafeInv
<1>2. /\ req' = [req EXCEPT ![c] = to]
      /\ at' = [at EXCEPT ![c] = IF to = "none" THEN None ELSE @]
    BY DEF SetReq
<1>3. at[c] \in Http
    BY <1>1 DEF SafeInv
<1>4. None \notin Http
    BY ServerAssumption DEF Http
<1>5. /\ req' \in [Conn -> ReqState]
      /\ at' \in [Conn -> Http \union {None}]
    BY <1>2 DEF SafeInv
<1>6. \A d \in Conn : at'[d] = None <=> req'[d] = "none"
    BY <1>2, <1>1 DEF SafeInv
<1>7. \A k \in Http : shut[k] = "returned" =>
         \A d \in Conn : at'[d] = k => req'[d] = "upgraded"
  <2> SUFFICES ASSUME NEW k \in Http, shut[k] = "returned", NEW d \in Conn, at'[d] = k
               PROVE  req'[d] = "upgraded"
      OBVIOUS
  <2>1. at[d] = k
      BY <1>2, <1>4 DEF SafeInv
  <2>2. req[d] = "upgraded"
      BY <2>1 DEF SafeInv
  <2>3. CASE d = c
      BY <1>1, <1>2, <1>4, <2>2, <2>3 DEF SafeInv
  <2>4. CASE d # c
      BY <1>2, <2>2, <2>4 DEF SafeInv
  <2> QED
      BY <2>3, <2>4
<1> QED
    BY <1>1, <1>5, <1>6, <1>7 DEF SafeInv, CleanExit

LEMMA ClientSafe ==
    ASSUME SafeInv, NEW c \in Conn,
           Request(c) \/ Respond(c) \/ Answer(c) \/ CancelRequest(c) \/ Upgrade(c) \/ Disconnect(c)
    PROVE  SafeInv'
<1>1. Replied(c) \in {"idle", "none"}
    BY DEF Replied
<1>2. CASE Request(c) \/ Respond(c) \/ Upgrade(c)
    BY <1>2, ReqSafe DEF Request, Respond, Upgrade
<1>3. CASE Answer(c) \/ CancelRequest(c)
    BY <1>1, <1>3, ReqSafe DEF Answer, CancelRequest
<1>4. CASE Disconnect(c)
    BY <1>4, ReqSafe DEF Disconnect
<1> QED
    BY <1>2, <1>3, <1>4

LEMMA ConnectSafe ==
    ASSUME SafeInv, NEW c \in Conn, NEW k \in Http, Connect(c, k)
    PROVE  SafeInv'
<1>1. /\ UNCHANGED <<phase, exit, next, registered, lst, srv, shut>> /\ exit # "clean"
      /\ at' = [at EXCEPT ![c] = k] /\ req' = [req EXCEPT ![c] = "idle"]
      /\ shut[k] = "no" /\ None \notin Http
    BY ServerAssumption DEF Connect, Running, run, boot, http, Http, SafeInv
<1>2. /\ req' \in [Conn -> ReqState]
      /\ at' \in [Conn -> Http \union {None}]
      /\ \A d \in Conn : at'[d] = None <=> req'[d] = "none"
    BY <1>1 DEF SafeInv
<1>3. \A j \in Http : shut[j] = "returned" =>
         \A d \in Conn : at'[d] = j => req'[d] = "upgraded"
    BY <1>1 DEF SafeInv
<1> QED
    BY <1>1, <1>2, <1>3 DEF SafeInv, CleanExit

LEMMA ShutdownHTTPSafe ==
    ASSUME SafeInv, NEW k \in Http, ShutdownHTTP(k)
    PROVE  SafeInv'
<1>1. /\ phase = "stopping" /\ exit # "clean"
      /\ UNCHANGED <<phase, exit, next, registered, lst, at, req>>
      /\ shut' = [shut EXCEPT ![k] = "asked"]
      /\ srv' = [srv EXCEPT ![k] = IF srv[k] = "open" THEN "closing" ELSE srv[k]]
    BY DEF ShutdownHTTP, run, boot, conns, SafeInv
<1>2. /\ srv' \in [Http -> {"none", "listening", "open", "closing", "done"}]
      /\ shut' \in [Http -> {"no", "asked", "returned", "late"}]
    BY <1>1 DEF SafeInv
<1>3. \A j \in Http : /\ srv'[j] # "none" => srv[j] # "none"
                      /\ shut'[j] # "no" => srv'[j] # "open"
                      /\ shut'[j] = "returned" => shut[j] = "returned"
    BY <1>1 DEF SafeInv
<1> QED
    BY <1>1, <1>2, <1>3 DEF SafeInv, CleanExit

\* Shutdown returns: only a request that it waited for, or an upgraded connection,
\* is left, the former not without an error.
LEMMA ShutdownReturnsSafe ==
    ASSUME SafeInv, NEW k \in Http, ShutdownReturns(k)
    PROVE  SafeInv'
<1> DEFINE idle == At(k, {"idle"})
<1>1. /\ phase # "exited" /\ exit # "clean" /\ shut[k] = "asked"
      /\ UNCHANGED <<phase, exit, next, registered, lst, srv>>
      /\ at' = [c \in Conn |-> IF c \in idle THEN None ELSE at[c]]
      /\ req' = [c \in Conn |-> IF c \in idle THEN "none" ELSE req[c]]
    BY DEF ShutdownReturns, Running, run, boot, SafeInv
<1>2. \/ At(k, InFlight) = {} /\ shut' = [shut EXCEPT ![k] = "returned"]
      \/ shut' = [shut EXCEPT ![k] = "late"]
    BY DEF ShutdownReturns
<1>3. None \notin Http
    BY ServerAssumption DEF Http
<1>4. /\ req' \in [Conn -> ReqState]
      /\ at' \in [Conn -> Http \union {None}]
      /\ \A d \in Conn : at'[d] = None <=> req'[d] = "none"
      /\ shut' \in [Http -> {"no", "asked", "returned", "late"}]
    BY <1>1, <1>2 DEF SafeInv
<1>5. \A j \in Http : shut'[j] = "returned" =>
         \A d \in Conn : at'[d] = j => req'[d] = "upgraded"
  <2> SUFFICES ASSUME NEW j \in Http, shut'[j] = "returned", NEW d \in Conn, at'[d] = j
               PROVE  req'[d] = "upgraded"
      OBVIOUS
  <2>1. d \notin idle /\ at[d] = j /\ req'[d] = req[d]
      BY <1>1, <1>3
  <2>2. CASE j = k
    <3>1. At(k, InFlight) = {}
        BY <1>2, <2>2 DEF SafeInv
    <3>2. req[d] \notin {"active", "copying", "idle", "none"}
        BY <3>1, <2>1, <2>2, <1>3 DEF At, SafeInv
    <3> QED
        BY <3>2, <2>1 DEF SafeInv
  <2>3. CASE j # k
      BY <1>2, <2>1, <2>3 DEF SafeInv
  <2> QED
      BY <2>2, <2>3
<1>6. \A j \in Http : shut'[j] # "no" => shut[j] # "no"
    BY <1>1, <1>2 DEF SafeInv
<1> QED
    BY <1>1, <1>4, <1>5, <1>6 DEF SafeInv, CleanExit

\* Every listener is registered when Stop runs, so a clean end covers all of them.
LEMMA StopReturnsSafe == ASSUME SafeInv, StopReturns PROVE SafeInv'
<1>1. UNCHANGED <<boot, ctx, deadline, lst, http, conns>> /\ phase = "stopping"
    BY DEF StopReturns
<1>2. registered = DOMAIN Kind
  <2>1. \A k \in DOMAIN Kind : \E i \in DOMAIN Config : Config[i] = k /\ i < next
      BY <1>1, ServerAssumption DEF SafeInv
  <2>2. \A k \in DOMAIN Kind : k \in registered
      BY <2>1 DEF SafeInv
  <2>3. registered \subseteq DOMAIN Kind
      BY DEF SafeInv
  <2> QED
      BY <2>2, <2>3
<1>3. CASE Exits("error")
    BY <1>1, <1>3, ExitSafe
<1>4. CASE ~Exits("error")
  <2>1. Exits("clean") /\ \A k \in Http : shut[k] = "returned"
      BY <1>2, <1>4 DEF StopReturns, Http
  <2>2. \A k \in Relay : lst[k].stop = "returned"
      BY <1>2 DEF StopReturns, Relay
  <2>3. \A k \in Http : srv[k] # "open"
      BY <2>1 DEF SafeInv
  <2>4. \A c \in Conn : req[c] \notin InFlight
      BY <2>1 DEF SafeInv
  <2>5. CleanExit'
      BY <1>1, <2>2, <2>3, <2>4 DEF CleanExit, http, conns
  <2> QED
      BY <1>1, <2>1, <2>5 DEF SafeInv, Exits, boot, http, conns
<1> QED
    BY <1>3, <1>4

LEMMA StepSafe == ASSUME SafeInv, [Next]_vars PROVE SafeInv'
<1>1. CASE Boot
    BY <1>1, BootSafe DEF Boot
<1>2. CASE Notify \/ Signal \/ Stop \/ Deadline
    BY <1>2, PhaseSafe
<1>3. CASE Killed
    BY <1>3, ExitSafe DEF Killed
<1>4. CASE StopReturns
    BY <1>4, StopReturnsSafe
<1>5. ASSUME NEW k \in DOMAIN Kind, StartFails(k)
      PROVE  SafeInv'
    BY <1>5, StartFailsSafe
<1>6. ASSUME NEW k \in Http,
             Listen(k) \/ ServeFails(k) \/ ServeReturns(k) \/ ShutdownHTTP(k) \/ ShutdownReturns(k)
      PROVE  SafeInv'
    BY <1>6, HttpRelay, ListenSafe, ShutdownHTTPSafe, ShutdownReturnsSafe
<1>7. ASSUME NEW k \in Relay, PassThrough(k) \/ ShutdownPassThrough(k)
      PROVE  SafeInv'
    BY <1>7, PassThroughSafe
<1>8. ASSUME NEW c \in Conn, Client(c)
      PROVE  SafeInv'
    BY <1>8, ClientSafe, ConnectSafe DEF Client
<1>9. CASE UNCHANGED vars
    BY <1>9 DEF vars, run, boot, http, conns, SafeInv, CleanExit
<1> QED
    BY <1>1, <1>2, <1>3, <1>4, <1>5, <1>6, <1>7, <1>8, <1>9 DEF Next

LEMMA SafeAlways == Spec => []SafeInv
<1>1. SafeInv /\ [Next]_vars => SafeInv'
    BY StepSafe
<1> QED
    BY <1>1, InitSafe, PTL DEF Spec

\* A process that reports a clean shutdown left no socket open and no request in
\* flight at an http.Server, and waited for every passthrough listener.
THEOREM CleanMeansClean == Spec => []CleanExit
<1>1. SafeInv => CleanExit
    BY DEF SafeInv
<1> QED
    BY <1>1, SafeAlways, PTL

-----------------------------------------------------------------------------
(* Types, and the contract of passthrough listeners                        *)

LEMMA StepTypes ==
    ASSUME NEW k, NEW l \in L(k)!State, NEW cancelled, NEW m \in L(k)!Steps(cancelled, l)
    PROVE  m \in L(k)!State /\ (m.stop # "no" => l.stop # "no")
<1>1. m \in L(k)!Bind(l) \/ m \in L(k)!Accept(l) \/ m \in L(k)!Handle(l) \/ m \in L(k)!Finish(l)
      \/ m \in L(k)!Close(cancelled, l) \/ m \in L(k)!Fail(cancelled, l) \/ m \in L(k)!Return(l)
    BY DEF L!Steps, L!When
<1> USE DEF L!When
<1>2. CASE m \in L(k)!Bind(l)
    BY <1>2 DEF L!State, L!Bind
<1>3. CASE m \in L(k)!Accept(l)
    BY <1>3 DEF L!State, L!Accept
<1>4. CASE m \in L(k)!Handle(l)
  <2>1. l.inhand \in Conn /\ l.held \union {l.inhand} \subseteq Conn
      BY <1>4 DEF L!State, L!Handle
  <2>2. m = [l EXCEPT !.held = @ \union {l.inhand}, !.inhand = None]
      BY <1>4 DEF L!Handle
  <2> QED
      BY <2>1, <2>2 DEF L!State
<1>5. CASE m \in L(k)!Finish(l)
    BY <1>5 DEF L!State, L!Finish
<1>6. CASE m \in L(k)!Close(cancelled, l) \/ m \in L(k)!Fail(cancelled, l) \/ m \in L(k)!Return(l)
    BY <1>6 DEF L!State, L!Close, L!Fail, L!Return
<1> QED
    BY <1>1, <1>2, <1>3, <1>4, <1>5, <1>6

\* The types that SafeInv leaves open, and that a shutdown comes after the
\* cancellation.
Typed ==
    /\ exit \in {"none", "clean", "error", "fatal", "killed"}
    /\ next \in 1..(Len(Config) + 1)
    /\ ctx \in BOOLEAN /\ deadline \in BOOLEAN
    /\ lst \in [Relay -> L(None)!State]
    /\ faults \in 0..MaxFault
    /\ phase \in {"cancelled", "stopping"} => ctx
    /\ \A k \in Relay : lst[k].stop # "no" => ctx

LEMMA InitTyped == Init => Typed
<1> SUFFICES ASSUME Init PROVE Typed
    OBVIOUS
<1>1. Len(Config) \in Nat /\ MaxFault \in Nat
    BY ServerAssumption
<1>2. \A k \in Relay : L(k)!Initial \in L(None)!State /\ L(k)!Initial.stop = "no"
    BY DEF L!Initial, L!State
<1>3. lst \in [Relay -> L(None)!State] /\ \A k \in Relay : lst[k].stop = "no"
    BY <1>2 DEF Init
<1>4. 1 \in 1..(Len(Config) + 1) /\ 0 \in 0..MaxFault
    BY <1>1
<1>5. /\ phase = "starting" /\ exit = "none" /\ next = 1
      /\ ctx = FALSE /\ deadline = FALSE /\ faults = 0
    BY DEF Init
<1> QED
    BY <1>3, <1>4, <1>5 DEF Typed

\* What the clients, the servers and their shutdowns leave alone.
LEMMA Untouched ==
    ASSUME Typed, UNCHANGED <<boot, lst>>,
           ctx' = ctx, deadline' = deadline \/ deadline' = TRUE,
           UNCHANGED faults \/ Fault,
           exit' = exit \/ exit' \in {"clean", "error", "fatal", "killed"},
           phase' \in {"cancelled", "stopping"} => phase \in {"cancelled", "stopping"}
    PROVE  Typed'
<1>1. faults' \in 0..MaxFault
    BY ServerAssumption DEF Typed, Fault
<1> QED
    BY <1>1 DEF Typed, boot

LEMMA BootTyped ==
    ASSUME Typed, NEW k \in DOMAIN Kind, StartHTTP(k) \/ StartProxyProtocol(k) \/ StartPassThrough(k)
    PROVE  Typed'
<1>1. /\ Starting(k) /\ next' = next + 1
      /\ UNCHANGED <<phase, exit, ctx, deadline, lst, faults>>
    BY DEF StartHTTP, StartProxyProtocol, StartPassThrough, Registers, run
<1>2. next' \in 1..(Len(Config) + 1)
    BY <1>1, ServerAssumption DEF Starting, Typed
<1> QED
    BY <1>1, <1>2 DEF Typed

LEMMA RelayTyped ==
    ASSUME Typed, NEW k \in Relay, PassThrough(k) \/ ShutdownPassThrough(k)
    PROVE  Typed'
<1>1. /\ UNCHANGED <<boot, ctx, deadline>> /\ faults' \in 0..MaxFault
      /\ phase' = phase \/ phase' = "exited"
      /\ exit' = exit \/ exit' = "fatal"
    BY ServerAssumption DEF PassThrough, ShutdownPassThrough, run, Fault, Exits, Typed
<1>2. PICK m : /\ lst' = [lst EXCEPT ![k] = m] /\ m \in L(None)!State
               /\ m.stop # "no" => ctx
  <2>1. L(k)!State = L(None)!State /\ lst[k] \in L(None)!State
      BY DEF L!State, Typed
  <2>2. CASE PassThrough(k)
    <3>1. PICK m \in L(k)!Steps(Cancelled(k), lst[k]) : lst' = [lst EXCEPT ![k] = m]
        BY <2>2 DEF PassThrough
    <3>2. m \in L(k)!State /\ (m.stop # "no" => lst[k].stop # "no")
        BY <2>1, <3>1, StepTypes
    <3> QED
        BY <2>1, <3>1, <3>2 DEF Typed
  <2>3. CASE ShutdownPassThrough(k)
    <3>1. [lst[k] EXCEPT !.stop = "asked"] \in L(None)!State
        BY <2>1 DEF L!State
    <3>2. lst' = [lst EXCEPT ![k] = [lst[k] EXCEPT !.stop = "asked"]] /\ phase = "stopping"
        BY <2>3 DEF ShutdownPassThrough
    <3>3. ctx
        BY <3>2 DEF Typed
    <3> QED
        BY <3>1, <3>2, <3>3
  <2> QED
      BY <2>2, <2>3
<1>3. lst' \in [Relay -> L(None)!State] /\ \A j \in Relay : lst'[j].stop # "no" => ctx
    BY <1>2 DEF Typed
<1> QED
    BY <1>1, <1>3 DEF Typed, boot

LEMMA StepTyped == ASSUME SafeInv, Typed, [Next]_vars PROVE Typed'
<1>1. CASE Boot
    BY <1>1, BootTyped DEF Boot
<1>2. CASE Signal
    BY <1>2 DEF Signal, Typed, boot
<1>3. CASE Notify \/ Stop \/ Deadline
    BY <1>3, Untouched DEF Notify, Stop, Deadline, run
<1>4. CASE Killed \/ StopReturns
    BY <1>4, Untouched DEF Killed, StopReturns, Exits
<1>5. ASSUME NEW k \in DOMAIN Kind, StartFails(k)
      PROVE  Typed'
    BY <1>5, Untouched DEF StartFails, Exits
<1>6. ASSUME NEW k \in Http,
             Listen(k) \/ ServeFails(k) \/ ServeReturns(k) \/ ShutdownHTTP(k) \/ ShutdownReturns(k)
      PROVE  Typed'
    BY <1>6, Untouched DEF Listen, ServeFails, ServeReturns, ServeEnds, ShutdownHTTP,
                           ShutdownReturns, Exits, run
<1>7. ASSUME NEW k \in Relay, PassThrough(k) \/ ShutdownPassThrough(k)
      PROVE  Typed'
    BY <1>7, RelayTyped
<1>8. ASSUME NEW c \in Conn, Client(c)
      PROVE  Typed'
    BY <1>8, Untouched DEF Client, Connect, Request, Respond, Answer, CancelRequest, Upgrade,
                           Disconnect, SetReq, run
<1>9. CASE UNCHANGED vars
    BY <1>9, Untouched DEF vars, run
<1> QED
    BY <1>1, <1>2, <1>3, <1>4, <1>5, <1>6, <1>7, <1>8, <1>9 DEF Next

LEMMA TypedAlways == Spec => []Typed
<1>1. SafeInv /\ Typed /\ [Next]_vars => Typed'
    BY StepTyped
<1> QED
    BY <1>1, InitTyped, SafeAlways, PTL DEF Spec

\* An action other than a stutter finds the process alive.
LEMMA StillAlive ==
    ASSUME SafeInv, Next
    PROVE  exit = "none"
<1>1. phase # "exited"
  <2>1. CASE Boot
      BY <2>1 DEF Boot, StartHTTP, StartProxyProtocol, StartPassThrough, Starting
  <2>2. CASE Notify \/ Killed \/ Signal \/ Stop \/ Deadline \/ StopReturns
      BY <2>2 DEF Notify, Killed, Signal, Stop, Deadline, StopReturns
  <2>3. CASE \E k \in DOMAIN Kind : StartFails(k)
      BY <2>3 DEF StartFails, Starting
  <2>4. CASE \E k \in Http : \/ Listen(k) \/ ServeFails(k) \/ ServeReturns(k)
                              \/ ShutdownHTTP(k) \/ ShutdownReturns(k)
      BY <2>4 DEF Listen, ServeFails, ServeReturns, ShutdownHTTP, ShutdownReturns, Running
  <2>5. CASE \E k \in Relay : PassThrough(k) \/ ShutdownPassThrough(k)
      BY <2>5 DEF PassThrough, ShutdownPassThrough, Running
  <2>6. CASE \E c \in Conn : Client(c)
      BY <2>6 DEF Client, Connect, Request, Respond, Answer, CancelRequest, Upgrade, Disconnect,
                  SetReq, Running
  <2> QED
      BY <2>1, <2>2, <2>3, <2>4, <2>5, <2>6 DEF Next
<1> QED
    BY <1>1 DEF SafeInv

\* Why serving goroutines end, and what a process has met that dies by log.Fatal.
Ending ==
    /\ \A k \in Http : srv[k] = "closing" => shut[k] # "no"
    /\ StopIsNoFailure

\* A step that is no Fatal without a fault keeps to it.
LEMMA EndingKept ==
    ASSUME Ending, exit = "none", Typed,
           UNCHANGED srv, UNCHANGED shut,
           Fault \/ UNCHANGED exit \/ exit' \in {"clean", "error", "killed"}
    PROVE  Ending'
<1>1. Fault => faults' > 0
    BY ServerAssumption DEF Fault, Typed
<1>2. Fault \/ exit' # "fatal"
    OBVIOUS
<1>3. StopIsNoFailure'
    BY <1>1, <1>2 DEF StopIsNoFailure
<1> QED
    BY <1>3 DEF Ending

LEMMA ServerEnding ==
    ASSUME SafeInv, Typed, Ending, exit = "none", NEW k \in Http,
           Listen(k) \/ ServeFails(k) \/ ServeReturns(k) \/ ShutdownHTTP(k) \/ ShutdownReturns(k)
    PROVE  Ending'
<1>1. Fault => faults' > 0
    BY ServerAssumption DEF Fault, Typed
<1>2. Fault \/ exit' # "fatal"
  <2>1. CASE Listen(k) \/ ServeFails(k)
      BY <2>1 DEF Listen, ServeFails, run
  <2>2. CASE ServeReturns(k)
    <3>1. ServeError(k) = "ErrServerClosed"
        BY <2>2 DEF ServeReturns, ServeError, Ending
    <3> QED
        BY <2>2, <3>1 DEF ServeReturns, ServeEnds, run
  <2>3. CASE ShutdownHTTP(k) \/ ShutdownReturns(k)
      BY <2>3 DEF ShutdownHTTP, ShutdownReturns, run
  <2> QED
      BY <2>1, <2>2, <2>3
<1>3. \A j \in Http : srv'[j] = "closing" => shut'[j] # "no"
  <2>1. CASE Listen(k)
      BY <2>1 DEF Listen, Ending, SafeInv
  <2>2. CASE ServeFails(k) \/ ServeReturns(k)
    <3>1. shut' = shut /\ srv' \in {srv, [srv EXCEPT ![k] = "done"]}
        BY <2>2 DEF ServeFails, ServeReturns, ServeEnds
    <3> QED
        BY <3>1 DEF Ending, SafeInv
  <2>3. CASE ShutdownHTTP(k)
      BY <2>3 DEF ShutdownHTTP, Ending, SafeInv
  <2>4. CASE ShutdownReturns(k)
    <3>1. srv' = srv /\ shut' \in {[shut EXCEPT ![k] = "returned"], [shut EXCEPT ![k] = "late"]}
        BY <2>4 DEF ShutdownReturns
    <3> QED
        BY <3>1 DEF Ending, SafeInv
  <2> QED
      BY <2>1, <2>2, <2>3, <2>4
<1> QED
    BY <1>1, <1>2, <1>3 DEF Ending, StopIsNoFailure

\* The only Fatal without a fault: Listen looks a name up when it is too late.
LEMMA RelayEnding ==
    ASSUME Typed, Ending, exit = "none", NEW k \in Relay, PassThrough(k) \/ ShutdownPassThrough(k)
    PROVE  Ending'
<1>1. UNCHANGED <<ctx, srv, shut>>
    BY DEF PassThrough, ShutdownPassThrough, http
<1>2. CASE Fault \/ UNCHANGED exit
    BY <1>1, <1>2, EndingKept
<1>3. CASE ~Fault /\ exit' # exit
  <2>1. PassThrough(k)
      BY <1>3 DEF ShutdownPassThrough, run
  <2>2. PICK m \in L(k)!Steps(Cancelled(k), lst[k]) :
          /\ lst' = [lst EXCEPT ![k] = m]
          /\ m.end = "failed" /\ TooLate(k)
      BY <1>3, <2>1 DEF PassThrough, run
  <2>3. m.sock = "unbound"
    <3>1. lst[k].sock = "unbound" /\ lst[k] \in L(None)!State
        BY <2>2 DEF TooLate, Typed
    <3>2. lst[k].end = "none"
        BY <2>2 DEF L!Steps, L!When
    <3>3. \/ m \in L(k)!Bind(lst[k]) \/ m \in L(k)!Accept(lst[k]) \/ m \in L(k)!Handle(lst[k])
          \/ m \in L(k)!Finish(lst[k]) \/ m \in L(k)!Close(Cancelled(k), lst[k])
          \/ m \in L(k)!Fail(Cancelled(k), lst[k]) \/ m \in L(k)!Return(lst[k])
        BY <2>2 DEF L!Steps, L!When
    <3>4. m \notin L(k)!Bind(lst[k]) /\ m \notin L(k)!Accept(lst[k]) /\ m \notin L(k)!Handle(lst[k])
        BY <2>2, <3>1, <3>2 DEF L!Bind, L!Accept, L!Handle, L!When, L!State
    <3>5. m \notin L(k)!Finish(lst[k]) /\ m \notin L(k)!Close(Cancelled(k), lst[k])
          /\ m \notin L(k)!Return(lst[k])
        BY <2>2, <3>1, <3>2 DEF L!Finish, L!Close, L!Return, L!When, L!State
    <3>6. m = [lst[k] EXCEPT !.end = "failed"]
        BY <3>3, <3>4, <3>5 DEF L!Fail, L!When
    <3> QED
        BY <3>1, <3>6 DEF L!State
  <2>4. lst'[k].sock = "unbound" /\ k \in Relay \cap ByName
      BY <2>2, <2>3 DEF Typed, TooLate
  <2>5. ctx'
      BY <1>1, <2>2 DEF TooLate, Cancelled, Typed
  <2>6. StopIsNoFailure'
      BY <2>4, <2>5 DEF StopIsNoFailure
  <2> QED
      BY <1>1, <2>6 DEF Ending
<1> QED
    BY <1>2, <1>3

LEMMA StepEnding == ASSUME SafeInv, Typed, Ending, [Next]_vars PROVE Ending'
<1>1. CASE UNCHANGED vars
    BY <1>1 DEF vars, run, http, Ending, StopIsNoFailure
<1> SUFFICES ASSUME Next PROVE Ending'
    BY <1>1
<1>2. exit = "none"
    BY StillAlive
<1>3. CASE Boot
  <2>1. ASSUME NEW k \in DOMAIN Kind, StartHTTP(k) \/ StartProxyProtocol(k)
        PROVE  Ending'
    <3>1. /\ UNCHANGED <<shut, exit>>
          /\ \E s \in {"listening", "open"} : srv' = [srv EXCEPT ![k] = s]
        BY <2>1 DEF StartHTTP, StartProxyProtocol, Registers, run
    <3>2. \A j \in Http : srv'[j] = "closing" => shut'[j] # "no"
        BY <3>1 DEF Ending, SafeInv
    <3> QED
        BY <1>2, <3>1, <3>2 DEF Ending, StopIsNoFailure
  <2>2. ASSUME NEW k \in DOMAIN Kind, StartPassThrough(k)
        PROVE  Ending'
      BY <1>2, <2>2, EndingKept DEF StartPassThrough, Registers, run, http
  <2> QED
      BY <1>3, <2>1, <2>2 DEF Boot
<1>4. CASE Notify \/ Killed \/ Signal \/ Stop \/ Deadline \/ StopReturns
    BY <1>2, <1>4, EndingKept DEF Notify, Killed, Signal, Stop, Deadline, StopReturns, Exits, run, http
<1>5. ASSUME NEW k \in DOMAIN Kind, StartFails(k)
      PROVE  Ending'
    BY <1>2, <1>5, EndingKept DEF StartFails, http
<1>6. ASSUME NEW k \in Http,
             Listen(k) \/ ServeFails(k) \/ ServeReturns(k) \/ ShutdownHTTP(k) \/ ShutdownReturns(k)
      PROVE  Ending'
    BY <1>2, <1>6, ServerEnding
<1>7. ASSUME NEW k \in Relay, PassThrough(k) \/ ShutdownPassThrough(k)
      PROVE  Ending'
    BY <1>2, <1>7, RelayEnding
<1>8. ASSUME NEW c \in Conn, Client(c)
      PROVE  Ending'
  <2>1. UNCHANGED <<srv, shut, exit>>
      BY <1>8 DEF Client, Connect, Request, Respond, Answer, CancelRequest, Upgrade, Disconnect,
                  SetReq, run, http
  <2> QED
      BY <1>2, <2>1, EndingKept
<1> QED
    BY <1>3, <1>4, <1>5, <1>6, <1>7, <1>8 DEF Next

LEMMA EndingAlways == Spec => []Ending
<1>1. Init => Ending
    BY DEF Init, Ending, StopIsNoFailure
<1>2. SafeInv /\ Typed /\ Ending /\ [Next]_vars => Ending'
    BY StepEnding
<1> QED
    BY <1>1, <1>2, SafeAlways, TypedAlways, PTL DEF Spec

\* A process that dies by log.Fatal has met a failure of its own, unless the
\* cancellation came while a passthrough listener looked up its host name: neither
\* what serving goroutines return when they are shut down nor the order in which
\* they are is taken for a failure.
THEOREM FatalOnlyByFault == Spec => []StopIsNoFailure
<1>1. Ending => StopIsNoFailure
    BY DEF Ending
<1> QED
    BY <1>1, EndingAlways, PTL

\* The types, the contracts' among them, the servers that Stop knows and what a server
\* that was shut down still has.
THEOREM Invariance == Spec => []IInv
<1>1. SafeInv /\ Typed /\ Ending => IInv
    BY DEF SafeInv, Typed, Ending, TypeOK, IInv
<1> QED
    BY <1>1, TypedAlways, SafeAlways, EndingAlways, PTL

\* Server asks of a passthrough listener, and does with it, what the contract that
\* PassThroughListener implements allows.
LEMMA ContractStep ==
    ASSUME Typed, [Next]_vars, NEW k \in Relay
    PROVE  L(k)!Next \/ UNCHANGED L(k)!vars
<1> USE DEF L!vars, Cancelled
<1>1. CASE Boot
    BY <1>1 DEF Boot, StartHTTP, StartProxyProtocol, StartPassThrough, Registers
<1>2. CASE Signal
    BY <1>2 DEF Signal, L!Next, L!Cancel
<1>3. CASE Notify \/ Stop \/ Deadline \/ Killed \/ StopReturns
    BY <1>3 DEF Notify, Stop, Deadline, Killed, StopReturns
<1>4. ASSUME NEW j \in DOMAIN Kind, StartFails(j)
      PROVE  UNCHANGED L(k)!vars
    BY <1>4 DEF StartFails
<1>5. ASSUME NEW j \in Http,
             Listen(j) \/ ServeFails(j) \/ ServeReturns(j) \/ ShutdownHTTP(j) \/ ShutdownReturns(j)
      PROVE  UNCHANGED L(k)!vars
    BY <1>5 DEF Listen, ServeFails, ServeReturns, ServeEnds, ShutdownHTTP, ShutdownReturns
<1>6. ASSUME NEW j \in Relay, PassThrough(j)
      PROVE  L(k)!Next \/ UNCHANGED L(k)!vars
  <2>1. ctx' = ctx
      BY <1>6 DEF PassThrough
  <2>2. PICK m \in L(j)!Steps(Cancelled(j), lst[j]) : lst' = [lst EXCEPT ![j] = m]
      BY <1>6 DEF PassThrough
  <2>3. lst'[k] = IF j = k THEN m ELSE lst[k]
      BY <2>2 DEF Typed
  <2>4. CASE j # k
      BY <2>1, <2>3, <2>4
  <2>5. CASE j = k
    <3>1. lst[k] \in L(k)!State
        BY DEF Typed, L!State
    <3>2. m.stop # "no" => lst[k].stop # "no"
        BY <2>2, <2>5, <3>1, StepTypes
    <3>3. Cancelled(k)' = Cancelled(k)
        BY <2>1, <2>3, <2>5, <3>2 DEF Typed
    <3>4. lst[k]' \in L(k)!Steps(Cancelled(k), lst[k])
        BY <2>2, <2>3, <2>5
    <3> QED
        BY <3>3, <3>4 DEF L!Next
  <2> QED
      BY <2>4, <2>5
<1>7. ASSUME NEW j \in Relay, ShutdownPassThrough(j)
      PROVE  L(k)!Next \/ UNCHANGED L(k)!vars
  <2>1. ctx' = ctx /\ phase = "stopping" /\ lst[j].stop = "no"
        /\ lst' = [lst EXCEPT ![j] = [lst[j] EXCEPT !.stop = "asked"]]
      BY <1>7 DEF ShutdownPassThrough
  <2>2. ctx'
      BY <2>1 DEF Typed
  <2>3. lst'[k] = IF j = k THEN [lst[k] EXCEPT !.stop = "asked"] ELSE lst[k]
      BY <2>1 DEF Typed
  <2> QED
      BY <2>1, <2>2, <2>3 DEF L!Next, L!Shutdown
<1>8. ASSUME NEW c \in Conn, Client(c)
      PROVE  UNCHANGED L(k)!vars
    BY <1>8 DEF Client, Connect, Request, Respond, Answer, CancelRequest, Upgrade, Disconnect,
                SetReq
<1>9. CASE UNCHANGED vars
    BY <1>9 DEF vars
<1> QED
    BY <1>1, <1>2, <1>3, <1>4, <1>5, <1>6, <1>7, <1>8, <1>9 DEF Next

\* Server drives each listener with passthrough routes only by steps that its contract
\* Listener has: whatever Start, Stop, the signal and the clients do.
THEOREM KeepsContract == Spec => ContractKept
<1>1. Typed /\ [Next]_vars => \A k \in Relay : L(k)!Next \/ UNCHANGED L(k)!vars
    BY ContractStep
<1> QED
    BY <1>1, TypedAlways, PTL DEF Spec, ContractKept

\* What Server says of a listener with passthrough routes is a behaviour of the contract,
\* which PassThroughListener implements: the assembled model has no listener of its own.
THEOREM Composes ==
    ASSUME NEW k \in Relay
    PROVE  Spec => L(k)!Spec
<1>1. ASSUME Init PROVE L(k)!Init
  <2>1. ctx = FALSE /\ lst[k] = L(k)!Initial
      BY <1>1 DEF Init
  <2>2. lst[k].stop = "no"
      BY <2>1 DEF L!Initial
  <2> QED
      BY <2>1, <2>2 DEF L!Init, Cancelled
<1>2. Typed /\ [Next]_vars => [L(k)!Next]_(L(k)!vars)
    BY ContractStep
<1> QED
    BY <1>1, <1>2, TypedAlways, PTL DEF Spec, L!Spec
=============================================================================
