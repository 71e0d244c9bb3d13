---------------------- MODULE PassThroughListenerProofs ----------------------
(***************************************************************************)
(* Proofs about PassThroughListener, for every finite set of connections   *)
(* and any number of failures of Listen and Accept.                        *)
(***************************************************************************)
EXTENDS PassThroughListener, FiniteSetTheorems, TLAPS

USE DEF Registered, PC

-----------------------------------------------------------------------------
(* Lemmas                                                                  *)

\* Any set of connections can be counted.
LEMMA SubsetSize ==
    ASSUME NEW S \in SUBSET Conn
    PROVE  /\ IsFiniteSet(S)
           /\ Cardinality(S) \in 0..Cardinality(Conn)
<1>1. IsFiniteSet(S) /\ Cardinality(S) <= Cardinality(Conn)
    BY ConnAssumption, FS_Subset
<1>2. Cardinality(S) \in Nat /\ Cardinality(Conn) \in Nat
    BY <1>1, ConnAssumption, FS_CardinalityType
<1> QED
    BY <1>1, <1>2

\* What a step says of the count and of open connections when no handler
\* begins or ends.
LEMMA FrameInv ==
    ASSUME IInv, pc' \in [Conn -> PC], UNCHANGED <<wg, open>>,
           \A e \in Conn : /\ pc'[e] \in Registered <=> pc[e] \in Registered
                           /\ pc'[e] = "accepted" <=> pc[e] = "accepted"
    PROVE  /\ wg' \in 0..Cardinality(Conn)
           /\ open' \in [Conn -> BOOLEAN]
           /\ CountMatchesHandlers'
           /\ OpenWhileHandled'
           /\ \A e \in Conn : pc'[e] = "accepted" <=> accepted = e
<1>1. Handled' = Handled
    BY DEF Handled
<1> QED
    BY <1>1 DEF IInv, TypeOK, CountMatchesHandlers, OpenWhileHandled, AcceptInv

-----------------------------------------------------------------------------
LEMMA InitInv == Init => IInv
<1> SUFFICES ASSUME Init PROVE IInv
    OBVIOUS
<1>1. Handled = {} /\ Cardinality({}) = 0
    BY FS_EmptySet DEF Init, Handled
<1>2. 0 \in 0..Cardinality(Conn) /\ 0 \in 0..MaxFault
    BY ConnAssumption, FS_CardinalityType
<1>3. TypeOK
    BY <1>2 DEF Init, TypeOK, Dir
<1>4. AcceptInv /\ CancelInv /\ FailInv
    BY ConnAssumption DEF Init, AcceptInv, CancelInv, FailInv
<1>5. CountMatchesHandlers /\ OpenWhileHandled
    BY <1>1 DEF Init, CountMatchesHandlers, OpenWhileHandled
<1> QED
    BY <1>3, <1>4, <1>5 DEF IInv

-----------------------------------------------------------------------------
(* Steps of ListenAndServe                                                 *)

LEMMA FaultType ==
    ASSUME IInv, Fault
    PROVE  faults' \in 0..MaxFault /\ faults' # 0
BY ConnAssumption DEF IInv, TypeOK, Fault

\* Steps that leave every connection alone.
LEMMA ConnsInv ==
    ASSUME IInv, UNCHANGED conns
    PROVE  CountMatchesHandlers' /\ OpenWhileHandled'
BY DEF IInv, CountMatchesHandlers, OpenWhileHandled, Handled, conns

LEMMA ListenInv == ASSUME IInv, Listen PROVE IInv'
<1>1. TypeOK'
    BY FaultType DEF IInv, TypeOK, Listen, conns
<1>2. AcceptInv' /\ CancelInv' /\ FailInv'
    BY FaultType DEF IInv, AcceptInv, CancelInv, FailInv, Listen, conns
<1> QED
    BY <1>1, <1>2, ConnsInv DEF Listen, IInv

LEMMA StoreListenerInv == ASSUME IInv, StoreListener PROVE IInv'
<1>1. TypeOK'
    BY DEF IInv, TypeOK, StoreListener, conns
<1>2. AcceptInv' /\ CancelInv' /\ FailInv'
    BY DEF IInv, AcceptInv, CancelInv, FailInv, StoreListener, conns
<1> QED
    BY <1>1, <1>2, ConnsInv DEF StoreListener, IInv

LEMMA AcceptErrorInv == ASSUME IInv, AcceptError PROVE IInv'
<1>1. TypeOK'
    BY DEF IInv, TypeOK, AcceptError, conns
<1>2. AcceptInv' /\ CancelInv' /\ FailInv'
    BY DEF IInv, AcceptInv, CancelInv, FailInv, AcceptError, conns
<1> QED
    BY <1>1, <1>2, ConnsInv DEF AcceptError, IInv

\* Accept opens the connection that it hands over; no handler runs yet.
LEMMA AcceptStepInv == ASSUME IInv, Accept PROVE IInv'
<1>1. ASSUME NEW c \in Conn, pc[c] = "backlog", accepted' = c,
             pc' = [pc EXCEPT ![c] = "accepted"],
             open' = [open EXCEPT ![c] = TRUE],
             server' = "add", UNCHANGED faults
      PROVE  IInv'
  <2>1. server = "accept" /\ UNCHANGED <<ctx, sock, listener, closer, shut, wg, copy, http>>
      BY DEF Accept
  <2>2. TypeOK'
      BY <1>1, <2>1 DEF IInv, TypeOK
  <2>3. AcceptInv'
      BY <1>1, <2>1, ConnAssumption DEF IInv, TypeOK, AcceptInv
  <2>4. CancelInv' /\ FailInv'
      BY <1>1, <2>1 DEF IInv, CancelInv, FailInv
  <2>5. Handled' = Handled
      BY <1>1 DEF IInv, TypeOK, Handled
  <2>6. CountMatchesHandlers'
      BY <2>1, <2>5 DEF IInv, CountMatchesHandlers
  <2>7. OpenWhileHandled'
      BY <1>1 DEF IInv, TypeOK, OpenWhileHandled
  <2> QED
      BY <2>2, <2>3, <2>4, <2>6, <2>7 DEF IInv
<1>2. ASSUME server' = "erring", UNCHANGED <<accepted, pc, open>>,
             \/ sock = "closed" /\ UNCHANGED faults
             \/ Fault
      PROVE  IInv'
  <2>1. server = "accept" /\ UNCHANGED <<ctx, sock, listener, closer, shut, wg, copy, http>>
      BY DEF Accept
  <2>2. TypeOK'
      BY <1>2, <2>1, FaultType DEF IInv, TypeOK
  <2>3. AcceptInv' /\ CancelInv' /\ FailInv'
      BY <1>2, <2>1, FaultType DEF IInv, AcceptInv, CancelInv, FailInv
  <2> QED
      BY <1>2, <2>1, <2>2, <2>3, ConnsInv DEF IInv, conns
<1> QED
    BY <1>1, <1>2 DEF Accept

\* wg.Add counts the handler that is about to run.
LEMMA SpawnInv == ASSUME IInv, Spawn PROVE IInv'
<1> DEFINE c == accepted
<1>1. c \in Conn /\ pc[c] = "accepted"
    BY DEF IInv, TypeOK, AcceptInv, Spawn
<1>2. Handled' = Handled \union {c} /\ c \notin Handled
    BY <1>1 DEF IInv, TypeOK, Handled, Spawn
<1>3. CountMatchesHandlers'
  <2>1. IsFiniteSet(Handled)
      BY SubsetSize DEF Handled
  <2> QED
      BY <1>2, <2>1, FS_AddElement DEF IInv, CountMatchesHandlers, Spawn
<1>4. wg' \in 0..Cardinality(Conn)
  <2>1. Handled' \in SUBSET Conn
      BY DEF Handled
  <2> QED
      BY <1>3, <2>1, SubsetSize DEF CountMatchesHandlers
<1>5. TypeOK'
    BY <1>4 DEF IInv, TypeOK, Spawn
<1>6. AcceptInv'
    BY <1>1, ConnAssumption DEF IInv, TypeOK, AcceptInv, Spawn
<1>7. CancelInv' /\ FailInv'
    BY DEF IInv, CancelInv, FailInv, Spawn
<1>8. OpenWhileHandled'
    BY <1>1 DEF IInv, TypeOK, OpenWhileHandled, Spawn
<1> QED
    BY <1>3, <1>5, <1>6, <1>7, <1>8 DEF IInv

-----------------------------------------------------------------------------
(* Shutdown and cancellation                                               *)

\* The socket closes under a cancelled context; what it resets was never
\* accepted.
LEMMA CloseSocketInv ==
    ASSUME IInv, CloseSocket, ctx,
           UNCHANGED <<ctx, listener, server, accepted, faults>>,
           closer' \in {"waiting", "done", closer},
           shut' \in {shut, "wait"}
    PROVE  IInv'
<1>1. pc' \in [Conn -> PC]
    BY DEF IInv, TypeOK, CloseSocket
<1>2. \A e \in Conn : /\ pc'[e] \in Registered <=> pc[e] \in Registered
                      /\ pc'[e] = "accepted" <=> pc[e] = "accepted"
    BY DEF CloseSocket
<1>3. TypeOK'
    BY <1>1, <1>2, FrameInv DEF IInv, TypeOK, CloseSocket
<1>4. AcceptInv'
    BY <1>1, <1>2, FrameInv DEF IInv, AcceptInv, CloseSocket
<1>5. CancelInv' /\ FailInv'
    BY DEF IInv, CancelInv, FailInv
<1> QED
    BY <1>1, <1>2, <1>3, <1>4, <1>5, FrameInv DEF IInv, CloseSocket

LEMMA CloseOnCancelInv == ASSUME IInv, CloseOnCancel PROVE IInv'
BY CloseSocketInv DEF CloseOnCancel

LEMMA CancelStepInv == ASSUME IInv, Cancel \/ ShutdownCancel PROVE IInv'
<1> USE DEF Cancel, ShutdownCancel, loop, conns
<1>1. TypeOK'
    BY DEF IInv, TypeOK
<1>2. AcceptInv' /\ CancelInv' /\ FailInv'
    BY DEF IInv, AcceptInv, CancelInv, FailInv
<1> QED
    BY <1>1, <1>2, ConnsInv DEF IInv

LEMMA ShutdownCloseInv == ASSUME IInv, ShutdownClose PROVE IInv'
<1>1. ctx
    BY DEF IInv, CancelInv, ShutdownClose
<1>2. CASE CloseSocket
    BY <1>1, <1>2, CloseSocketInv DEF ShutdownClose
<1>3. CASE UNCHANGED <<sock, conns>>
  <2> USE DEF ShutdownClose, conns
  <2>1. TypeOK'
      BY <1>3 DEF IInv, TypeOK
  <2>2. AcceptInv' /\ CancelInv' /\ FailInv'
      BY <1>1, <1>3 DEF IInv, AcceptInv, CancelInv, FailInv
  <2> QED
      BY <1>3, <2>1, <2>2, ConnsInv DEF IInv
<1> QED
    BY <1>2, <1>3 DEF ShutdownClose

LEMMA ShutdownWaitInv == ASSUME IInv, ShutdownWait PROVE IInv'
<1> USE DEF ShutdownWait, loop, conns
<1>1. TypeOK'
    BY DEF IInv, TypeOK
<1>2. AcceptInv' /\ CancelInv' /\ FailInv'
    BY DEF IInv, AcceptInv, CancelInv, FailInv
<1> QED
    BY <1>1, <1>2, ConnsInv DEF IInv

-----------------------------------------------------------------------------
(* Steps of a handler                                                      *)

Copies == [Conn -> [Dir -> {"off", "check", "read", "write", "done"}]]
Serving == [Conn -> {"none", "serving", "done"}]

\* A step of one connection that neither begins nor ends its handler.
LEMMA QuietInv ==
    ASSUME IInv, Quiet, pc' \in [Conn -> PC], copy' \in Copies, http' \in Serving,
           UNCHANGED <<wg, open>>,
           \A e \in Conn : /\ pc'[e] \in Registered <=> pc[e] \in Registered
                           /\ pc'[e] = "accepted" <=> pc[e] = "accepted"
    PROVE  IInv'
<1> USE DEF Quiet, loop
<1>1. TypeOK'
    BY FrameInv DEF IInv, TypeOK, Copies, Serving
<1>2. AcceptInv'
    BY FrameInv DEF IInv, AcceptInv
<1>3. CancelInv' /\ FailInv'
    BY DEF IInv, CancelInv, FailInv
<1> QED
    BY <1>1, <1>2, <1>3, FrameInv DEF IInv

\* Its program counter moves, among those of a handler or before it.
LEMMA GotoInv ==
    ASSUME IInv, NEW c \in Conn, NEW to \in PC, Goto(c, to), Quiet,
           pc[c] # "accepted", to # "accepted",
           to \in Registered <=> pc[c] \in Registered,
           copy' \in Copies, http' \in Serving, UNCHANGED <<wg, open>>
    PROVE  IInv'
<1>1. pc' \in [Conn -> PC]
    BY DEF IInv, TypeOK, Goto
<1>2. \A e \in Conn : /\ pc'[e] \in Registered <=> pc[e] \in Registered
                      /\ pc'[e] = "accepted" <=> pc[e] = "accepted"
    BY DEF IInv, TypeOK, Goto
<1> QED
    BY <1>1, <1>2, QuietInv

LEMMA CopyType == ASSUME IInv PROVE copy \in Copies /\ http \in Serving
BY DEF IInv, TypeOK, Copies, Serving

LEMMA SetCopyInv ==
    ASSUME IInv, NEW c \in Conn, NEW d \in Dir,
           NEW label \in {"check", "read", "write", "done"}, SetCopy(c, d, label)
    PROVE  IInv'
<1>1. copy' \in Copies /\ http' \in Serving
    BY CopyType DEF SetCopy, Copies
<1>2. pc' \in [Conn -> PC]
    BY DEF IInv, TypeOK, SetCopy
<1> QED
    BY <1>1, <1>2, QuietInv DEF SetCopy

\* wg.Done and Close end the handler that called them, and no other.
LEMMA FinishInv == ASSUME IInv, NEW c \in Conn, Finish(c) PROVE IInv'
<1> USE DEF Finish, Goto, Quiet, loop
<1>1. Handled' = Handled \ {c} /\ c \in Handled
    BY DEF IInv, TypeOK, Handled
<1>2. CountMatchesHandlers'
  <2>1. IsFiniteSet(Handled)
      BY SubsetSize DEF Handled
  <2> QED
      BY <1>1, <2>1, FS_RemoveElement DEF IInv, CountMatchesHandlers
<1>3. wg' \in 0..Cardinality(Conn)
  <2>1. Handled' \in SUBSET Conn
      BY DEF Handled
  <2> QED
      BY <1>2, <2>1, SubsetSize DEF CountMatchesHandlers
<1>4. TypeOK'
    BY <1>3 DEF IInv, TypeOK
<1>5. AcceptInv'
    BY DEF IInv, TypeOK, AcceptInv
<1>6. CancelInv' /\ FailInv'
    BY DEF IInv, CancelInv, FailInv
<1>7. OpenWhileHandled'
    BY DEF IInv, TypeOK, OpenWhileHandled
<1> QED
    BY <1>2, <1>4, <1>5, <1>6, <1>7 DEF IInv

LEMMA HandlerInv ==
    ASSUME IInv, NEW c \in Conn, Connect(c) \/ Handler(c)
    PROVE  IInv'
<1>1. CASE Connect(c)
    BY <1>1, GotoInv, CopyType DEF Connect
<1>2. CASE Peek(c)
    BY <1>2, GotoInv, CopyType DEF Peek
<1>3. CASE Dial(c)
  <2>1. copy' \in Copies
      BY <1>3, CopyType DEF Dial, Copies
  <2> QED
      BY <1>3, <2>1, GotoInv, CopyType DEF Dial
<1>4. CASE RelayEnds(c)
    BY <1>4, GotoInv, CopyType DEF RelayEnds
<1>5. CASE Handshake(c)
  <2>1. http' \in Serving
      BY <1>5, CopyType DEF Handshake, Serving
  <2> QED
      BY <1>5, <2>1, GotoInv, CopyType DEF Handshake
<1>6. CASE HTTPEnds(c)
  <2>1. http' \in Serving /\ pc' \in [Conn -> PC]
      BY <1>6, CopyType DEF HTTPEnds, Serving, IInv, TypeOK
  <2> QED
      BY <1>6, <2>1, QuietInv, CopyType DEF HTTPEnds
<1>7. CASE Finish(c)
    BY <1>7, FinishInv
<1>8. ASSUME NEW d \in Dir, Copy(c, d)
      PROVE  IInv'
    BY <1>8, SetCopyInv DEF Copy, CopyCheck, ReadTimeout, ReadReturns, WriteReturns
<1> QED
    BY <1>1, <1>2, <1>3, <1>4, <1>5, <1>6, <1>7, <1>8 DEF Handler

-----------------------------------------------------------------------------
(* The invariant                                                           *)

LEMMA StutterInv == ASSUME IInv, UNCHANGED vars PROVE IInv'
<1> USE DEF vars, loop, conns
<1>1. TypeOK'
    BY DEF IInv, TypeOK
<1>2. AcceptInv' /\ CancelInv' /\ FailInv'
    BY DEF IInv, AcceptInv, CancelInv, FailInv
<1> QED
    BY <1>1, <1>2, ConnsInv DEF IInv

LEMMA NextInv == ASSUME IInv, [Next]_vars PROVE IInv'
<1>1. CASE Server
    BY <1>1, ListenInv, StoreListenerInv, AcceptStepInv, AcceptErrorInv, SpawnInv
    DEF Server
<1>2. CASE Shutdown
    BY <1>2, CancelStepInv, ShutdownCloseInv, ShutdownWaitInv DEF Shutdown
<1> QED
    BY <1>1, <1>2, CloseOnCancelInv, CancelStepInv, HandlerInv, StutterInv DEF Next

\* Whatever connections come, fail and end, and whenever the listener is
\* cancelled or shut down: the count, the ownership of connections and the order
\* of cancellation and close hold in every reachable state.
THEOREM Invariance == Spec => []IInv
<1>1. Init => IInv
    BY InitInv
<1>2. IInv /\ [Next]_vars => IInv'
    BY NextInv
<1> QED
    BY <1>1, <1>2, PTL DEF Spec

\* The WaitGroup of the listener counts exactly the handlers that run, for any
\* number of connections and each of handleConn's early returns.
THEOREM Counting == Spec => []CountMatchesHandlers
<1>1. IInv => CountMatchesHandlers
    BY DEF IInv
<1> QED
    BY <1>1, Invariance, PTL

\* No connection outlives its handler and no handler works on a connection that
\* was closed.
THEOREM Ownership == Spec => []OpenWhileHandled
<1>1. IInv => OpenWhileHandled
    BY DEF IInv
<1> QED
    BY <1>1, Invariance, PTL

\* When Shutdown returns, none of the handlers that it counted is left.
THEOREM WaitsForAll == Spec => ShutdownWaits
<1>1. ASSUME IInv, [Next]_vars, shut # "returned", shut' = "returned"
      PROVE  \A c \in Conn : pc[c] \notin Registered
  <2>1. ShutdownWait
      BY <1>1 DEF Next, Server, Shutdown, Handler, Listen, StoreListener, Accept,
         AcceptError, Spawn, CloseOnCancel, Cancel, ShutdownCancel, ShutdownClose,
         Connect, Peek, Dial, RelayEnds, Handshake, HTTPEnds, Finish, Copy,
         CopyCheck, ReadTimeout, ReadReturns, WriteReturns, SetCopy, Quiet, vars
  <2>2. Cardinality(Handled) = 0 /\ IsFiniteSet(Handled)
      BY <1>1, <2>1, SubsetSize DEF IInv, CountMatchesHandlers, ShutdownWait, Handled
  <2>3. Handled = {}
      BY <2>2, FS_EmptySet
  <2> QED
      BY <2>3 DEF Handled
<1>2. IInv /\ [Next]_vars =>
        (shut # "returned" /\ shut' = "returned" =>
           \A c \in Conn : pc[c] \notin Registered)
    BY <1>1
<1> QED
    BY <1>2, Invariance, PTL DEF Spec, ShutdownWaits

-----------------------------------------------------------------------------
(* The listener implements its contract                                    *)

LEMMA SockStep == ASSUME IInv, SockInv, [Next]_vars PROVE SockInv'
<1> USE DEF SockInv
<1>1. CASE Listen \/ StoreListener \/ AcceptError
    BY <1>1, FaultType DEF Listen, StoreListener, AcceptError, conns, IInv, CancelInv
<1>2. CASE Accept
    BY <1>2 DEF Accept, IInv, TypeOK
<1>3. CASE Spawn
    BY <1>3 DEF Spawn, IInv, TypeOK
<1>4. CASE CloseOnCancel
    BY <1>4 DEF CloseOnCancel, CloseSocket, IInv, TypeOK
<1>5. CASE ShutdownClose
    BY <1>5 DEF ShutdownClose, CloseSocket, conns, IInv, TypeOK
<1>6. CASE Cancel \/ ShutdownCancel \/ ShutdownWait \/ UNCHANGED vars
    BY <1>6 DEF Cancel, ShutdownCancel, ShutdownWait, loop, conns, vars
<1>7. ASSUME NEW c \in Conn, Connect(c) \/ Handler(c)
      PROVE  SockInv'
  <2>1. UNCHANGED <<loop, faults>>
      BY <1>7 DEF Connect, Handler, Peek, Dial, RelayEnds, Handshake, HTTPEnds, Finish,
         Copy, CopyCheck, ReadTimeout, ReadReturns, WriteReturns, SetCopy, Quiet
  <2>2. \A e \in Conn : pc'[e] = "backlog" => pc[e] = "backlog" \/ sock = "open"
      BY <1>7 DEF Connect, Handler, Peek, Dial, RelayEnds, Handshake, HTTPEnds, Finish,
         Copy, CopyCheck, ReadTimeout, ReadReturns, WriteReturns, SetCopy, Goto, IInv, TypeOK
  <2> QED
      BY <2>1, <2>2 DEF loop
<1> QED
    BY <1>1, <1>2, <1>3, <1>4, <1>5, <1>6, <1>7 DEF Next, Server, Shutdown

LEMMA SockAlways == Spec => []SockInv
<1>1. Init => SockInv
    BY DEF Init, SockInv
<1>2. IInv /\ SockInv /\ [Next]_vars => SockInv'
    BY SockStep
<1> QED
    BY <1>1, <1>2, Invariance, PTL DEF Spec

\* ListenAndServe returns an error, which ends the process, only when Listen or
\* Accept failed by itself or when the look-up of its address was cancelled: never
\* because a socket was closed to shut down.
THEOREM OrderlyStop == Spec => []ShutdownIsNoFailure
<1>1. IInv /\ SockInv => ShutdownIsNoFailure
    BY DEF IInv, FailInv, SockInv, ShutdownIsNoFailure
<1> QED
    BY <1>1, Invariance, SockAlways, PTL

\* The record of the contract, built and updated field by field.
Rec(s, i, h, t, e) == [sock |-> s, inhand |-> i, held |-> h, stop |-> t, end |-> e]

LEMMA HeldUpdate ==
    \A s, i, h, t, e, x, l : l = Rec(s, i, h, t, e) =>
      [l EXCEPT !.held = x] = Rec(s, i, x, t, e)
BY DEF Rec

LEMMA InhandUpdate ==
    \A s, i, h, t, e, x, l : l = Rec(s, i, h, t, e) =>
      [l EXCEPT !.inhand = x] = Rec(s, x, h, t, e)
BY DEF Rec

\* The steps of the contract, written field by field.
LEMMA ContractSteps ==
    ASSUME NEW s, NEW i, NEW h, NEW t, NEW c, NEW m
    PROVE  \A l : l = Rec(s, i, h, t, "none") =>
      /\ s = "unbound" /\ m = Rec("open", i, h, t, "none") => m \in Contract!Steps(c, l)
      /\ s = "open" /\ i = None /\ (\E d \in Conn \ h : m = Rec(s, d, h, t, "none"))
           => m \in Contract!Steps(c, l)
      /\ i # None /\ m = Rec(s, None, h \union {i}, t, "none") => m \in Contract!Steps(c, l)
      /\ (\E d \in h : m = Rec(s, i, h \ {d}, t, "none")) => m \in Contract!Steps(c, l)
      /\ c /\ s = "open" /\ m = Rec("closed", i, h, t, "none") => m \in Contract!Steps(c, l)
      /\ (s = "unbound" \/ ~c) /\ m = Rec(s, i, h, t, "failed") => m \in Contract!Steps(c, l)
      /\ t = "asked" /\ h = {} /\ m = Rec(s, i, h, "returned", "none")
           => m \in Contract!Steps(c, l)
<1> TAKE l
<1> HAVE l = Rec(s, i, h, t, "none")
<1>1. l.sock = s /\ l.inhand = i /\ l.held = h /\ l.stop = t /\ l.end = "none"
    BY DEF Rec
<1>2. ASSUME s = "unbound", m = Rec("open", i, h, t, "none")
      PROVE  m \in Contract!Bind(l)
    BY <1>2 DEF Rec, Contract!Bind, Contract!When
<1>3. ASSUME s = "open", i = None, NEW d \in Conn \ h, m = Rec(s, d, h, t, "none")
      PROVE  m \in Contract!Accept(l)
  <2>1. m = [l EXCEPT !.inhand = d]
      BY <1>3 DEF Rec
  <2> QED
      BY <1>1, <1>3, <2>1 DEF Contract!Accept, Contract!When
<1>4. ASSUME i # None, m = Rec(s, None, h \union {i}, t, "none")
      PROVE  m \in Contract!Handle(l)
  <2> DEFINE x == h \union {i}
             k == [l EXCEPT !.held = x]
  <2>1. [l EXCEPT !.held = x, !.inhand = None] = [k EXCEPT !.inhand = None]
      OBVIOUS
  <2> HIDE DEF x
  <2>2. k = Rec(s, i, x, t, "none")
      BY HeldUpdate
  <2> HIDE DEF k
  <2>3. [k EXCEPT !.inhand = None] = Rec(s, None, x, t, "none")
      BY <2>2, InhandUpdate
  <2> QED
    <3>1. /\ l.inhand # None
          /\ m = [l EXCEPT !.held = l.held \union {l.inhand}, !.inhand = None]
        BY <1>1, <1>4, <2>1, <2>3 DEF x
    <3> QED
        BY <3>1, Zenon DEF Contract!Handle, Contract!When
<1>5. ASSUME NEW d \in h, m = Rec(s, i, h \ {d}, t, "none")
      PROVE  m \in Contract!Finish(l)
  <2>1. m = [l EXCEPT !.held = h \ {d}]
      BY <1>5 DEF Rec
  <2> QED
      BY <1>1, <1>5, <2>1 DEF Contract!Finish, Contract!When
<1>6. ASSUME c, s = "open", m = Rec("closed", i, h, t, "none")
      PROVE  m \in Contract!Close(c, l)
    BY <1>6 DEF Rec, Contract!Close, Contract!When
<1>7. ASSUME s = "unbound" \/ ~c, m = Rec(s, i, h, t, "failed")
      PROVE  m \in Contract!Fail(c, l)
    BY <1>7 DEF Rec, Contract!Fail, Contract!When
<1>8. ASSUME t = "asked", h = {}, m = Rec(s, i, h, "returned", "none")
      PROVE  m \in Contract!Return(l)
    BY <1>8 DEF Rec, Contract!Return, Contract!When
<1> QED
    BY <1>1, <1>2, <1>3, <1>4, <1>5, <1>6, <1>7, <1>8 DEF Contract!Steps, Contract!When

LEMMA ContractShutdown ==
    ASSUME AsListener = Rec(sock, accepted, Handled, "no", Ending), ctx',
           AsListener' = Rec(sock, accepted, Handled, "asked", Ending)
    PROVE  Contract!Shutdown
<1> DEFINE l == AsListener
<1> HIDE DEF l
<1>1. l.stop = "no" /\ [l EXCEPT !.stop = "asked"] = Rec(sock, accepted, Handled, "asked", Ending)
    BY DEF Rec, l
<1> QED
    BY <1>1 DEF Contract!Shutdown, l

LEMMA Mapped ==
    /\ AsListener = Rec(sock, accepted, Handled, Stopping, Ending)
    /\ AsListener' = Rec(sock', accepted', Handled', Stopping', Ending')
BY DEF AsListener, Rec

\* Each step of the threads is one step of the contract or none.
Maps == \/ AsListener' \in Contract!Steps(ctx, AsListener) /\ ctx' = ctx
        \/ ctx' = TRUE /\ AsListener' = AsListener
        \/ Contract!Shutdown
        \/ ctx' = ctx /\ AsListener' = AsListener

LEMMA StepMaps == ASSUME IInv, SockInv, [Next]_vars PROVE Maps
<1> USE Mapped, ContractSteps DEF Maps, Alive, Ending
<1>1. CASE Listen
  <2>1. Handled' = Handled /\ Stopping' = Stopping
      BY <1>1 DEF Listen, conns, Handled, Stopping
  <2> QED
      BY <1>1, <2>1 DEF Listen, SockInv
<1>2. CASE StoreListener
    BY <1>2 DEF StoreListener, conns, Handled, Stopping
<1>3. CASE Accept
  <2>1. Handled' = Handled /\ Stopping' = Stopping
      BY <1>3 DEF Accept, Handled, Stopping, IInv, TypeOK
  <2>2. ASSUME NEW c \in Conn, pc[c] = "backlog", accepted' = c, server' = "add"
        PROVE  AsListener' \in Contract!Steps(ctx, AsListener)
    <3>1. accepted = None /\ sock = "open" /\ c \notin Handled
        BY <1>3, <2>2 DEF Accept, IInv, AcceptInv, SockInv, Handled
    <3> QED
        BY <1>3, <2>1, <2>2, <3>1 DEF Accept
  <2> QED
      BY <1>3, <2>1, <2>2 DEF Accept
<1>4. CASE AcceptError
  <2>1. Handled' = Handled /\ Stopping' = Stopping
      BY <1>4 DEF AcceptError, conns, Handled, Stopping
  <2> QED
      BY <1>4, <2>1 DEF AcceptError
<1>5. CASE Spawn
  <2>1. /\ Handled' = Handled \union {accepted} /\ accepted # None
        /\ Stopping' = Stopping
      BY <1>5, ConnAssumption DEF Spawn, Handled, Stopping, IInv, TypeOK, AcceptInv
  <2> QED
      BY <1>5, <2>1 DEF Spawn
<1>6. CASE CloseOnCancel \/ (ShutdownClose /\ CloseSocket)
  <2>1. Handled' = Handled /\ Stopping' = Stopping
      BY <1>6 DEF CloseOnCancel, ShutdownClose, CloseSocket, Handled, Stopping, IInv, TypeOK
  <2>2. ctx /\ sock \in {"open", "closed"}
      BY <1>6 DEF CloseOnCancel, ShutdownClose, CloseSocket, SockInv, IInv, TypeOK, CancelInv
  <2>3. /\ Alive /\ ctx' = ctx /\ sock' = "closed"
        /\ UNCHANGED <<accepted, server>>
      BY <1>6 DEF CloseOnCancel, ShutdownClose, CloseSocket
  <2>4. /\ AsListener = Rec(sock, accepted, Handled, Stopping, "none")
        /\ AsListener' = Rec("closed", accepted, Handled, Stopping, "none")
      BY <2>1, <2>3
  <2>5. CASE sock = "open"
      BY <2>2, <2>3, <2>4, <2>5
  <2>6. CASE sock = "closed"
      BY <2>3, <2>4, <2>6
  <2> QED
      BY <2>2, <2>5, <2>6
<1>7. CASE ShutdownClose /\ UNCHANGED <<sock, conns>>
    BY <1>7 DEF ShutdownClose, conns, Handled, Stopping
<1>8. CASE Cancel
  <2>1. Handled' = Handled /\ Stopping' = Stopping
      BY <1>8 DEF Cancel, conns, Handled, Stopping
  <2> QED
      BY <1>8, <2>1 DEF Cancel, loop
<1>9. CASE ShutdownCancel
  <2>1. Handled' = Handled /\ Stopping = "no" /\ Stopping' = "asked"
      BY <1>9 DEF ShutdownCancel, conns, Handled, Stopping
  <2> QED
      BY <1>9, <2>1, ContractShutdown DEF ShutdownCancel, loop
<1>10. CASE ShutdownWait
  <2>1. Cardinality(Handled) = 0 /\ IsFiniteSet(Handled)
      BY <1>10, SubsetSize DEF IInv, CountMatchesHandlers, ShutdownWait, Handled
  <2>2. Handled = {} /\ Handled' = Handled
      BY <1>10, <2>1, FS_EmptySet DEF ShutdownWait, conns, Handled
  <2>3. Stopping = "asked" /\ Stopping' = "returned"
      BY <1>10 DEF ShutdownWait, Stopping
  <2> QED
      BY <1>10, <2>2, <2>3 DEF ShutdownWait, loop
<1>11. ASSUME NEW c \in Conn, Connect(c) \/ Handler(c)
       PROVE  Maps
  <2>1. Quiet
      BY <1>11 DEF Connect, Handler, Peek, Dial, RelayEnds, Handshake, HTTPEnds, Finish,
         Copy, CopyCheck, ReadTimeout, ReadReturns, WriteReturns, SetCopy
  <2>2. Stopping' = Stopping
      BY <2>1 DEF Quiet, Stopping
  <2>3. CASE Finish(c)
    <3>1. Handled' = Handled \ {c} /\ c \in Handled
        BY <2>3 DEF Finish, Goto, Handled, IInv, TypeOK
    <3> QED
        BY <2>1, <2>2, <3>1 DEF Quiet, loop
  <2>4. CASE ~Finish(c)
    <3>1. Handled' = Handled
        BY <1>11, <2>4 DEF Connect, Handler, Peek, Dial, RelayEnds, Handshake, HTTPEnds,
           Copy, CopyCheck, ReadTimeout, ReadReturns, WriteReturns, SetCopy, Goto,
           Handled, IInv, TypeOK
    <3> QED
        BY <2>1, <2>2, <3>1 DEF Quiet, loop
  <2> QED
      BY <2>3, <2>4
<1>12. CASE UNCHANGED vars
    BY <1>12 DEF vars, loop, conns, Handled, Stopping
<1> QED
    BY <1>1, <1>2, <1>3, <1>4, <1>5, <1>6, <1>7, <1>8, <1>9, <1>10, <1>11, <1>12
    DEF Next, Server, Shutdown, ShutdownClose

\* The threads of the listener together behave as Server relies on, for any number
\* of connections: no connection without a bound socket, no close and no failure
\* that the context does not explain, no return of Shutdown while a counted
\* handler runs.
THEOREM ImplementsListener == Spec => KeepsContract
<1>1. Init => Contract!Init
  <2>1. Init => Handled = {} /\ Stopping = "no"
      BY DEF Init, Handled, Stopping
  <2> QED
      BY <2>1 DEF Init, AsListener, Alive, Ending, Contract!Init, Contract!Initial
<1>2. IInv /\ SockInv /\ [Next]_vars => [Contract!Next]_(Contract!vars)
  <2>1. Maps => [Contract!Next]_(Contract!vars)
      BY DEF Maps, Contract!Next, Contract!Cancel, Contract!vars
  <2> QED
      BY <2>1, StepMaps
<1> QED
    BY <1>1, <1>2, Invariance, SockAlways, PTL DEF Spec, KeepsContract, Contract!Spec
=============================================================================
