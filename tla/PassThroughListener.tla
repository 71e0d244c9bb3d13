------------------------ MODULE PassThroughListener ------------------------
(***************************************************************************)
(* proxy.TLSPassThroughListener: ListenAndServe and the goroutine that     *)
(* closes its socket, one handleConn per connection with the two copy      *)
(* loops of a relayed one or the http.Server of a terminated one, and      *)
(* Shutdown.  The bytes are left out: a read or a write only has an        *)
(* outcome.                                                                *)
(***************************************************************************)
EXTENDS Integers, FiniteSets

CONSTANTS
    Conn,      \* connections that clients may open
    None,      \* no connection
    Stalled,   \* connections on which a write, or a dial through a SOCKS5 proxy,
               \* may block for ever
    ByName,    \* the address has a host name, which must be looked up
    MaxFault   \* bound: failures of Listen and Accept that are nobody's doing

ASSUME ConnAssumption ==
    /\ IsFiniteSet(Conn) /\ None \notin Conn
    /\ Stalled \subseteq Conn
    /\ ByName \in BOOLEAN
    /\ MaxFault \in Nat

VARIABLES
    ctx,        \* baseCtx is cancelled
    sock,       \* the listening socket
    listener,   \* the field l.listener is set
    server,     \* where ListenAndServe is
    accepted,   \* the connection it got from Accept and has not counted yet
    closer,     \* the goroutine that waits for baseCtx to close the socket
    shut,       \* where Shutdown is
    wg,         \* l.wg
    pc,         \* where each connection is in handleConn
    copy,       \* where each of its two copy loops is
    http,       \* the goroutine of http.Server for a terminated connection
    open,       \* the proxy's end of the connection is open
    faults      \* failures so far

loop  == <<sock, listener, server, accepted, closer>>
conns == <<wg, pc, copy, http, open>>
vars  == <<ctx, loop, shut, conns, faults>>

Dir == {"up", "down"}

\* handleConn runs, and is counted in wg.
Registered == {"peek", "dial", "relay", "handshake", "returning"}

PC == Registered \union {"away", "backlog", "accepted", "closed"}

TypeOK ==
    /\ ctx \in BOOLEAN
    /\ sock \in {"unbound", "open", "closed"}
    /\ listener \in BOOLEAN
    /\ server \in {"listen", "store", "accept", "add", "erring",
                   "returned", "failed"}
    /\ accepted \in Conn \union {None}
    /\ closer \in {"none", "waiting", "done"}
    /\ shut \in {"idle", "close", "wait", "returned"}
    /\ wg \in 0..Cardinality(Conn)
    /\ pc \in [Conn -> PC]
    /\ copy \in [Conn -> [Dir -> {"off", "check", "read", "write", "done"}]]
    /\ http \in [Conn -> {"none", "serving", "done"}]
    /\ open \in [Conn -> BOOLEAN]
    /\ faults \in 0..MaxFault

Init ==
    /\ ctx = FALSE
    /\ sock = "unbound"
    /\ listener = FALSE
    /\ server = "listen"
    /\ accepted = None
    /\ closer = "none"
    /\ shut = "idle"
    /\ wg = 0
    /\ pc = [c \in Conn |-> "away"]
    /\ copy = [c \in Conn |-> [d \in Dir |-> "off"]]
    /\ http = [c \in Conn |-> "none"]
    /\ open = [c \in Conn |-> FALSE]
    /\ faults = 0

-----------------------------------------------------------------------------
(* ListenAndServe                                                          *)

\* An error of ListenAndServe ends the process (logger.Fatal).
Alive == server # "failed"

Fault == faults < MaxFault /\ faults' = faults + 1

\* net.ListenConfig.Listen is given baseCtx: the look-up of a host name fails once
\* that is cancelled.
Listen ==
    /\ server = "listen"
    /\ \/ sock' = "open" /\ server' = "store" /\ UNCHANGED faults
       \/ /\ server' = "failed"
          /\ Fault \/ (ByName /\ ctx /\ UNCHANGED faults)
          /\ UNCHANGED sock
    /\ UNCHANGED <<ctx, listener, accepted, closer, shut, conns>>

\* Mutant of StoreListener: nobody waits for the context to close the socket.
StoreListenerOnly ==
    /\ server = "store"
    /\ listener' = TRUE
    /\ server' = "accept"
    /\ UNCHANGED <<ctx, sock, accepted, closer, shut, conns, faults>>

\* l.listener is set under l.mu; then the closing goroutine starts.
StoreListener ==
    /\ server = "store"
    /\ listener' = TRUE
    /\ closer' = "waiting"
    /\ server' = "accept"
    /\ UNCHANGED <<ctx, sock, accepted, shut, conns, faults>>

\* The kernel resets what is left in the backlog of a socket that closes.
CloseSocket ==
    /\ sock' = "closed"
    /\ pc' = [c \in Conn |-> IF pc[c] = "backlog" THEN "closed" ELSE pc[c]]
    /\ UNCHANGED <<wg, copy, http, open>>

\* <-baseCtx.Done(), then Close under l.mu.
CloseOnCancel ==
    /\ Alive
    /\ closer = "waiting"
    /\ ctx
    /\ CloseSocket
    /\ closer' = "done"
    /\ UNCHANGED <<ctx, listener, server, accepted, shut, faults>>

Accept ==
    /\ server = "accept"
    /\ \/ \E c \in Conn :
            /\ pc[c] = "backlog"
            /\ accepted' = c
            /\ pc' = [pc EXCEPT ![c] = "accepted"]
            /\ open' = [open EXCEPT ![c] = TRUE]
            /\ server' = "add"
            /\ UNCHANGED faults
       \/ /\ sock = "closed"
          /\ server' = "erring"
          /\ UNCHANGED <<accepted, pc, open, faults>>
       \/ /\ Fault
          /\ server' = "erring"
          /\ UNCHANGED <<accepted, pc, open>>
    /\ UNCHANGED <<ctx, sock, listener, closer, shut, wg, copy, http>>

\* Mutant of AcceptError: every error of Accept is returned.
AcceptErrorAlways ==
    /\ server = "erring"
    /\ server' = "failed"
    /\ UNCHANGED <<ctx, sock, listener, accepted, closer, shut, conns, faults>>

\* Accept failed: nil if the context is cancelled, the error otherwise.
AcceptError ==
    /\ server = "erring"
    /\ server' = IF ctx THEN "returned" ELSE "failed"
    /\ UNCHANGED <<ctx, sock, listener, accepted, closer, shut, conns, faults>>

\* Mutant of Spawn: the goroutine is left to count itself.
SpawnUncounted ==
    /\ server = "add"
    /\ pc' = [pc EXCEPT ![accepted] = "peek"]
    /\ accepted' = None
    /\ server' = "accept"
    /\ UNCHANGED <<ctx, sock, listener, closer, shut, wg, copy, http, open, faults>>

\* l.wg.Add(1), then the goroutine starts.
Spawn ==
    /\ server = "add"
    /\ wg' = wg + 1
    /\ pc' = [pc EXCEPT ![accepted] = "peek"]
    /\ accepted' = None
    /\ server' = "accept"
    /\ UNCHANGED <<ctx, sock, listener, closer, shut, copy, http, open, faults>>

-----------------------------------------------------------------------------
(* Shutdown, and the context it shares with the rest of the process        *)

\* main cancels the parent context.
Cancel ==
    /\ Alive
    /\ ~ctx
    /\ ctx' = TRUE
    /\ UNCHANGED <<loop, shut, conns, faults>>

\* Mutant of ShutdownCancel: the socket is closed with the context still live.
ShutdownNoCancel ==
    /\ Alive
    /\ shut = "idle"
    /\ shut' = "close"
    /\ UNCHANGED <<ctx, loop, conns, faults>>

\* Shutdown: l.cancel() comes first.
ShutdownCancel ==
    /\ Alive
    /\ shut = "idle"
    /\ ctx' = TRUE
    /\ shut' = "close"
    /\ UNCHANGED <<loop, conns, faults>>

\* Then l.listener is closed under l.mu, if there is one yet.
ShutdownClose ==
    /\ Alive
    /\ shut = "close"
    /\ \/ listener /\ CloseSocket
       \/ ~listener /\ UNCHANGED <<sock, conns>>
    /\ shut' = "wait"
    /\ UNCHANGED <<ctx, listener, server, accepted, closer, faults>>

\* l.wg.Wait() returns when the count is zero, without any deadline.
ShutdownWait ==
    /\ Alive
    /\ shut = "wait"
    /\ wg = 0
    /\ shut' = "returned"
    /\ UNCHANGED <<ctx, loop, conns, faults>>

-----------------------------------------------------------------------------
(* handleConn                                                              *)

Goto(c, label) == pc' = [pc EXCEPT ![c] = label]

\* A handler runs while the process does and leaves the rest alone.
Quiet == Alive /\ UNCHANGED <<ctx, loop, shut, faults>>

\* A client connects; the kernel queues it.
Connect(c) ==
    /\ pc[c] = "away"
    /\ sock = "open"
    /\ Goto(c, "backlog")
    /\ UNCHANGED <<wg, copy, http, open>>
    /\ Quiet

\* The first read returns within 10 seconds: an error or no matching route end
\* the handler, a route sends it to proxyTCP or to serveTLS.
Peek(c) ==
    /\ pc[c] = "peek"
    /\ \E next \in {"returning", "dial", "handshake"} : Goto(c, next)
    /\ UNCHANGED <<wg, copy, http, open>>
    /\ Quiet

\* dialUpstream and the PROXY header: either may fail.
Dial(c) ==
    /\ pc[c] = "dial"
    /\ \/ /\ Goto(c, "relay")
          /\ copy' = [copy EXCEPT ![c] = [d \in Dir |-> "check"]]
       \/ /\ Goto(c, "returning")
          /\ UNCHANGED copy
    /\ UNCHANGED <<wg, http, open>>
    /\ Quiet

SetCopy(c, d, label) ==
    /\ copy' = [copy EXCEPT ![c][d] = label]
    /\ UNCHANGED <<wg, pc, http, open>>
    /\ Quiet

\* Mutant of CopyCheck: the loop does not look at the context.
CopyCheckDeaf(c, d) ==
    /\ copy[c][d] = "check"
    /\ SetCopy(c, d, "read")

\* The head of copyContext's loop: a deadline for the read, then ctx.Done().
CopyCheck(c, d) ==
    /\ copy[c][d] = "check"
    /\ SetCopy(c, d, IF ctx THEN "done" ELSE "read")

\* The deadline of the read expires: the loop starts over.
ReadTimeout(c, d) ==
    /\ copy[c][d] = "read"
    /\ SetCopy(c, d, "check")

\* The peer sends data, closes or resets.
ReadReturns(c, d) ==
    /\ copy[c][d] = "read"
    /\ \E next \in {"write", "done"} : SetCopy(c, d, next)

\* Writes have no deadline: they return when the peer takes the data or fails.
WriteReturns(c, d) ==
    /\ copy[c][d] = "write"
    /\ \E next \in {"check", "done"} : SetCopy(c, d, next)

\* proxyTCP waits for both copy loops before it closes the upstream side.
RelayEnds(c) ==
    /\ pc[c] = "relay"
    /\ \A d \in Dir : copy[c][d] = "done"
    /\ Goto(c, "returning")
    /\ UNCHANGED <<wg, copy, http, open>>
    /\ Quiet

\* serveTLS: the handshake fails, or it succeeds and http.Server.Serve takes the
\* connection from singleConnListener, starts a goroutine for it and returns
\* with the error of the second Accept.
Handshake(c) ==
    /\ pc[c] = "handshake"
    /\ \/ UNCHANGED http
       \/ http' = [http EXCEPT ![c] = "serving"]
    /\ Goto(c, "returning")
    /\ UNCHANGED <<wg, copy, open>>
    /\ Quiet

HTTPEnds(c) ==
    /\ http[c] = "serving"
    /\ http' = [http EXCEPT ![c] = "done"]
    /\ UNCHANGED <<wg, pc, copy, open>>
    /\ Quiet

\* Mutant of Finish: wg.Done is called by the relay and by handleConn.
FinishTwice(c) ==
    /\ pc[c] = "returning"
    /\ open' = [open EXCEPT ![c] = FALSE]
    /\ wg' = wg - 2
    /\ Goto(c, "closed")
    /\ UNCHANGED <<copy, http>>
    /\ Quiet

\* Mutant of Finish: a return that leaves the connection open.
FinishLeaky(c) ==
    /\ pc[c] = "returning"
    /\ wg' = wg - 1
    /\ Goto(c, "closed")
    /\ UNCHANGED <<copy, http, open>>
    /\ Quiet

\* The deferred calls: conn.Close(), then l.wg.Done().
Finish(c) ==
    /\ pc[c] = "returning"
    /\ open' = [open EXCEPT ![c] = FALSE]
    /\ wg' = wg - 1
    /\ Goto(c, "closed")
    /\ UNCHANGED <<copy, http>>
    /\ Quiet

-----------------------------------------------------------------------------
Server == Listen \/ StoreListener \/ Accept \/ AcceptError \/ Spawn

Shutdown == ShutdownCancel \/ ShutdownClose \/ ShutdownWait

Copy(c, d) ==
    CopyCheck(c, d) \/ ReadTimeout(c, d) \/ ReadReturns(c, d) \/ WriteReturns(c, d)

Handler(c) ==
    \/ Peek(c) \/ Dial(c) \/ RelayEnds(c) \/ Handshake(c) \/ HTTPEnds(c)
    \/ Finish(c)
    \/ \E d \in Dir : Copy(c, d)

Next ==
    \/ Server \/ CloseOnCancel \/ Cancel \/ Shutdown
    \/ \E c \in Conn : Connect(c) \/ Handler(c)

\* What the code puts an end to by itself: its own steps, the first read (ten
\* seconds), a direct dial (its timeout, and the context), every read of a relay
\* (the deadline) and, once the context is cancelled, the handshake.  A dial
\* through a SOCKS5 proxy has no deadline and a write ends only if the peer takes
\* the data: both are fair only outside Stalled.  Clients, faults and signals are
\* not fair at all.
Fairness ==
    /\ WF_vars(Server)
    /\ WF_vars(CloseOnCancel)
    /\ WF_vars(ShutdownClose)
    /\ WF_vars(ShutdownWait)
    /\ \A c \in Conn :
         /\ WF_vars(Peek(c))
         /\ WF_vars(RelayEnds(c))
         /\ WF_vars(Finish(c))
         /\ WF_vars(ctx /\ Handshake(c))
         /\ \A d \in Dir :
              /\ WF_vars(CopyCheck(c, d))
              /\ WF_vars(ReadTimeout(c, d) \/ ReadReturns(c, d))
    /\ \A c \in Conn \ Stalled :
         /\ WF_vars(Dial(c))
         /\ \A d \in Dir : WF_vars(WriteReturns(c, d))

Spec == Init /\ [][Next]_vars /\ Fairness

-----------------------------------------------------------------------------
(* Properties                                                              *)

Handled == {c \in Conn : pc[c] \in Registered}

\* The count that Shutdown waits for is the number of handlers that run,
\* whatever early return each of them takes.
CountMatchesHandlers == wg = Cardinality(Handled)

\* Closing the socket to shut down is never taken for a failure of Accept,
\* which would kill the process while its connections drain: unless Listen or
\* Accept failed by itself, ListenAndServe returns no error.  The exception is a
\* Listen by host name that the cancellation overtakes: it never had a socket.
ShutdownIsNoFailure ==
    faults = 0 /\ server = "failed" => ByName /\ ctx /\ sock = "unbound"

\* A handler that holds a connection owns it: it is open as long as the
\* handler runs, and closed once the handler is gone.
OpenWhileHandled ==
    \A c \in Conn : open[c] <=> pc[c] \in Registered \union {"accepted"}

\* At the moment Shutdown returns, every handler that was counted is gone.
ShutdownWaits ==
    [][shut # "returned" /\ shut' = "returned" =>
         \A c \in Conn : pc[c] \notin Registered]_vars

\* Once cancelled, the listener gives up its port, even when Shutdown ran before
\* Listen and found no socket to close.
SocketCloses == (ctx /\ Alive) ~> (sock # "open" \/ ~Alive)

\* The handler is in a call without a deadline that ignores the context: a dial
\* through a SOCKS5 proxy, or the Write of copyContext.
Blocked(c) == pc[c] = "dial" \/ \E d \in Dir : copy[c][d] = "write"

\* Shutdown comes to an end unless a stalled peer keeps a handler in one of these
\* two calls: every other handler notices the cancellation, whatever its peers do
\* or omit.  (Shutdown has no deadline to fall back on.)
ShutdownEnds ==
    (shut = "wait" /\ Alive) ~>
      (shut = "returned" \/ ~Alive \/ \E c \in Stalled : Blocked(c))

\* The listener as Server sees it.
Stopping == IF shut \in {"close", "wait"} THEN "asked"
            ELSE IF shut = "returned" THEN "returned" ELSE "no"

Ending == IF Alive THEN "none" ELSE "failed"

AsListener == [sock |-> sock, inhand |-> accepted, held |-> Handled,
               stop |-> Stopping, end |-> Ending]

Contract == INSTANCE Listener WITH lst <- AsListener

\* ListenAndServe, the closing goroutine, the handlers and Shutdown together do
\* what Server relies on: in particular, no connection is taken without a bound
\* socket, and when Shutdown returns the only connection that may still get a
\* handler on a closed socket is the one the accept loop has in hand (its
\* wg.Add races with the Wait).
KeepsContract == Contract!Spec

\* README.md on passthrough listeners: a connection without passthrough is
\* terminated "normally" and its HTTP request is served.
ServedWhileOpen == \A c \in Conn : http[c] = "serving" => open[c]

-----------------------------------------------------------------------------
(* The inductive invariant behind the safety properties                    *)

\* Between Accept and wg.Add the accept loop, and nobody else, has the
\* connection.
AcceptInv ==
    /\ (server = "add") <=> (accepted # None)
    /\ \A c \in Conn : (pc[c] = "accepted") <=> (accepted = c)

\* The context is cancelled before anyone closes the socket, so that the error of
\* Accept is told from a failure.
CancelInv ==
    /\ shut # "idle" => ctx
    /\ sock = "closed" => ctx
    /\ server = "erring" /\ faults = 0 => ctx

\* A failure that nothing else explains comes from a look-up that was cancelled.
FailInv == server = "failed" /\ faults = 0 => ByName /\ ctx

IInv ==
    /\ TypeOK
    /\ AcceptInv
    /\ CancelInv
    /\ CountMatchesHandlers
    /\ OpenWhileHandled
    /\ FailInv

\* What the contract needs besides: only an open socket has a backlog, the socket is
\* bound before anybody accepts or closes, and a look-up that fails leaves none.
SockInv ==
    /\ \A c \in Conn : pc[c] = "backlog" => sock = "open"
    /\ server = "listen" => sock = "unbound"
    /\ sock = "unbound" => server \in {"listen", "failed"} /\ ~listener /\ closer = "none"
    /\ server = "failed" /\ faults = 0 => sock = "unbound"
=============================================================================
