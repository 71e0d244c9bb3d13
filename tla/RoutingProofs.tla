--------------------------- MODULE RoutingProofs ---------------------------
(* The routing of connections and requests, for any names, patterns, paths, *)
(* upstreams and any number of routes.                                      *)
EXTENDS Routing, NaturalOrder, SequenceTheorems

\* The loop of ServeHTTP is well defined: its state after each route is determined
\* by the state before it.
LEMMA LoopDefined ==
    ASSUME NEW rs, Len(rs) \in Nat, NEW host, NEW path
    PROVE  LET best == BestAfter(rs, host, path) IN
             best = [i \in 0..Len(rs) |->
                       IF i = 0 THEN 0
                       ELSE IF Better(rs, host, path, i, best[i - 1]) THEN i ELSE best[i - 1]]
<1> DEFINE n == Len(rs)
           Step(i, b) == IF Better(rs, host, path, i, b) THEN i ELSE b
           Run(f, m) == /\ f = [i \in 0..m |-> f[i]]
                        /\ f[0] = 0
                        /\ \A i \in 1..m : f[i] = Step(i, f[i - 1])
           Runs == {m \in 0..n : \E f : Run(f, m)}
<1> SUFFICES \E f : f = [i \in 0..n |-> IF i = 0 THEN 0 ELSE Step(i, f[i - 1])]
    BY Zenon DEF BestAfter
<1> HIDE DEF Step
<1>1. 0 \in Runs
  <2> DEFINE f == [i \in 0..0 |-> 0]
  <2>1. Run(f, 0) /\ 0 \in 0..n
      OBVIOUS
  <2> HIDE DEF f
  <2> QED
      BY <2>1
<1>2. ASSUME NEW m \in 0..(n - 1), m \in Runs
      PROVE  m + 1 \in Runs
  <2>1. PICK f : Run(f, m)
      BY <1>2
  <2> DEFINE g == [i \in 0..(m + 1) |-> IF i <= m THEN f[i] ELSE Step(i, f[i - 1])]
  <2>2. g = [i \in 0..(m + 1) |-> g[i]] /\ g[0] = 0
      BY <2>1
  <2>3. ASSUME NEW i \in 1..(m + 1)
        PROVE  g[i] = Step(i, g[i - 1])
    <3>1. i - 1 \in 0..m /\ g[i - 1] = f[i - 1]
        OBVIOUS
    <3>2. CASE i <= m
        BY <3>1, <3>2, <2>1
    <3>3. CASE ~(i <= m)
        BY <3>1, <3>3
    <3> QED
        BY <3>2, <3>3
  <2> HIDE DEF g
  <2>4. Run(g, m + 1)
      BY <2>2, <2>3
  <2>5. m + 1 \in 0..n
      OBVIOUS
  <2> QED
      BY <2>4, <2>5
<1>3. n \in Runs
  <2> HIDE DEF Runs
  <2>1. 0..n \subseteq Runs
      BY <1>1, <1>2, CountingUp
  <2> QED
      BY <2>1
<1>4. PICK f : Run(f, n)
    BY <1>3
<1>5. f = [i \in 0..n |-> IF i = 0 THEN 0 ELSE Step(i, f[i - 1])]
  <2>1. \A i \in 0..n : f[i] = IF i = 0 THEN 0 ELSE Step(i, f[i - 1])
      BY <1>4
  <2> QED
      BY <1>4, <2>1
<1> QED
    BY <1>5

\* What the loop has after i routes: nothing if none of them fits, else the longest
\* prefix, and of equally long ones the first.
BestOf(rs, host, path, i, b) ==
    /\ b \in 0..i
    /\ b = 0 => \A j \in 1..i : ~Fits(rs[j], host, path)
    /\ b # 0 =>
         /\ Fits(rs[b], host, path)
         /\ \A j \in 1..i : Fits(rs[j], host, path) =>
              \/ Len(rs[j].prefix) < Len(rs[b].prefix)
              \/ Len(rs[j].prefix) = Len(rs[b].prefix) /\ b <= j

LEMMA RouteTypes ==
    ASSUME NEW rs \in Seq(Route)
    PROVE  /\ Len(rs) \in Nat /\ DOMAIN rs = 1..Len(rs)
           /\ \A i \in 1..Len(rs) :
                /\ rs[i] \in Route
                /\ rs[i].prefix \in Seq(STRING) /\ rs[i].prefix # <<>>
                /\ Len(rs[i].prefix) \in Nat
                /\ rs[i].up \in Upstream
                /\ rs[i].passthrough \in BOOLEAN
<1>1. \A r \in Route : /\ r.prefix \in Seq(STRING) /\ r.prefix # <<>>
                       /\ r.up \in Upstream /\ r.passthrough \in BOOLEAN
    BY PathAssumption DEF Route
<1>2. \A i \in 1..Len(rs) : rs[i] \in Route
    OBVIOUS
<1> QED
    BY <1>1, <1>2

\* One turn of the loop keeps the best of what it has seen.
LEMMA LoopStep ==
    ASSUME NEW rs \in Seq(Route), NEW host, NEW path, NEW i \in 1..Len(rs), NEW b,
           BestOf(rs, host, path, i - 1, b)
    PROVE  BestOf(rs, host, path, i, IF Better(rs, host, path, i, b) THEN i ELSE b)
<1>1. \A j \in 1..Len(rs) : Len(rs[j].prefix) \in Nat
    BY RouteTypes
<1>2. Len(rs) \in Nat /\ i \in Nat /\ \A j \in 1..i : j \in 1..(i - 1) \/ j = i
    OBVIOUS
<1>3. CASE Better(rs, host, path, i, b)
  <2>1. Fits(rs[i], host, path) /\ (b = 0 \/ Len(rs[i].prefix) > Len(rs[b].prefix))
      BY <1>3 DEF Better
  <2>2. ASSUME NEW j \in 1..(i - 1), Fits(rs[j], host, path)
        PROVE  Len(rs[j].prefix) < Len(rs[i].prefix)
    <3>1. b # 0 /\ b \in 1..(i - 1)
        BY <2>2 DEF BestOf
    <3>2. Len(rs[j].prefix) <= Len(rs[b].prefix)
        BY <1>1, <2>2, <3>1 DEF BestOf
    <3> QED
        BY <1>1, <2>1, <3>1, <3>2
  <2>3. BestOf(rs, host, path, i, i)
      BY <1>1, <1>2, <2>1, <2>2 DEF BestOf
  <2> QED
      BY <1>3, <2>3
<1>4. CASE ~Better(rs, host, path, i, b)
  <2>1. ASSUME Fits(rs[i], host, path)
        PROVE  /\ b # 0
               /\ \/ Len(rs[i].prefix) < Len(rs[b].prefix)
                  \/ Len(rs[i].prefix) = Len(rs[b].prefix) /\ b <= i
    <3>1. b # 0 /\ b \in 1..(i - 1) /\ ~(Len(rs[i].prefix) > Len(rs[b].prefix))
        BY <1>4, <2>1 DEF Better, BestOf
    <3> QED
        BY <1>1, <3>1
  <2>2. BestOf(rs, host, path, i, b)
      BY <1>2, <2>1 DEF BestOf
  <2> QED
      BY <1>4, <2>2
<1> QED
    BY <1>3, <1>4

\* The loop computes the best route of the whole list.
LEMMA LoopBest ==
    ASSUME NEW rs \in Seq(Route), NEW host, NEW path
    PROVE  BestOf(rs, host, path, Len(rs), BestMatch(rs, host, path))
<1> DEFINE n == Len(rs)
           best == BestAfter(rs, host, path)
           T == {i \in 0..n : BestOf(rs, host, path, i, best[i])}
<1>1. n \in Nat
    OBVIOUS
<1>2. best = [i \in 0..n |-> IF i = 0 THEN 0
                             ELSE IF Better(rs, host, path, i, best[i - 1]) THEN i ELSE best[i - 1]]
    BY <1>1, LoopDefined
<1> HIDE DEF best, n
<1>3. best[0] = 0
    BY <1>1, <1>2
<1>4. 0 \in T
    BY <1>1, <1>3 DEF BestOf
<1>5. ASSUME NEW i \in 0..(n - 1), i \in T
      PROVE  i + 1 \in T
  <2>1. i + 1 \in 1..n /\ (i + 1) - 1 = i
      BY <1>1
  <2>2. best[i + 1] = IF Better(rs, host, path, i + 1, best[i]) THEN i + 1 ELSE best[i]
      BY <1>1, <1>2, <2>1
  <2>3. BestOf(rs, host, path, (i + 1) - 1, best[i])
      BY <1>5, <2>1
  <2>4. BestOf(rs, host, path, i + 1, best[i + 1])
      BY <2>1, <2>2, <2>3, LoopStep DEF n
  <2> QED
      BY <1>1, <2>1, <2>4
<1>6. n \in T
  <2> HIDE DEF T
  <2>1. 0..n \subseteq T
      BY <1>1, <1>4, <1>5, CountingUp
  <2> QED
      BY <1>1, <2>1
<1> QED
    BY <1>6 DEF best, n, BestMatch

\* The first match by name is one, and no match comes before it.
LEMMA FirstMatch ==
    ASSUME NEW rs \in Seq(Route), NEW host, NEW r, r = MatchRouteBySNI(rs, host)
    PROVE  /\ r \in 0..Len(rs)
           /\ r = 0 => Matching(rs, host) = {}
           /\ r # 0 => r \in Matching(rs, host) /\ \A i \in Matching(rs, host) : r <= i
<1>1. Matching(rs, host) \subseteq 1..Len(rs) /\ Len(rs) \in Nat
    BY DEF Matching
<1>2. CASE Matching(rs, host) = {}
    BY <1>1, <1>2 DEF MatchRouteBySNI
<1>3. CASE Matching(rs, host) # {}
  <2>1. r = Min(Matching(rs, host)) /\ Matching(rs, host) \subseteq Nat
      BY <1>1, <1>3 DEF MatchRouteBySNI
  <2>2. r \in Matching(rs, host) /\ \A i \in Matching(rs, host) : r <= i
      BY <1>3, <2>1, MinIsLeast
  <2> QED
      BY <1>1, <2>2
<1> QED
    BY <1>2, <1>3

-----------------------------------------------------------------------------
(* The invariant                                                           *)

LEMMA InitInv == Init => IInv
<1> SUFFICES ASSUME Init PROVE IInv
    OBVIOUS
<1>1. PICK m \in 0..MaxRoutes : routes \in [1..m -> Route]
    BY DEF Init, BoundedSeq, SeqOf
<1>2. MaxRoutes \in Nat /\ routes # <<>>
    BY HostAssumption DEF Init
<1>3. routes \in Seq(Route) /\ Len(routes) \in 1..MaxRoutes
    BY <1>1, <1>2
<1>4. hello \in Hello
    BY DEF Init, Hello
<1> QED
    BY <1>3, <1>4 DEF Init, IInv, TypeOK, ChoiceInv, RequestInv, NoRequest

LEMMA AcceptPlainStep == ASSUME IInv, NEW h \in Hello, AcceptPlain(h) PROVE IInv'
<1>1. /\ conn = "new" /\ conn' \in {"terminated", "closed"} /\ hello' = h
      /\ ~HasPassthroughRoutes(routes) /\ UNCHANGED <<routes, upstream, served>>
    BY DEF AcceptPlain
<1> QED
    BY <1>1 DEF IInv, TypeOK, ChoiceInv, RequestInv, HasPassthroughRoutes

\* handleConn does what the first route for the name says.
LEMMA AcceptPeekedStep == ASSUME IInv, NEW h \in Hello, AcceptPeeked(h) PROVE IInv'
<1> DEFINE r == MatchRouteBySNI(routes, ExtractSNI(h))
<1>1. conn = "new" /\ hello' = h /\ UNCHANGED <<routes, served>>
    BY DEF AcceptPeeked
<1>2. \/ r # 0 /\ routes[r].passthrough /\ conn' = "relayed" /\ upstream' = r
      \/ r # 0 /\ ~routes[r].passthrough /\ conn' = "terminated" /\ upstream' = 0
      \/ conn' = "closed" /\ upstream' = 0
    BY DEF AcceptPeeked
<1>3. r \in 0..Len(routes)
    BY FirstMatch DEF IInv, TypeOK
<1>4. served = NoRequest
    BY <1>1 DEF IInv, TypeOK
<1>5. ChoiceInv'
    BY <1>1, <1>2 DEF ChoiceInv
<1> HIDE DEF r
<1>6. TypeOK'
    BY <1>1, <1>2, <1>3, <1>4 DEF IInv, TypeOK
<1> QED
    BY <1>1, <1>4, <1>5, <1>6 DEF IInv, RequestInv

LEMMA ServeHTTPStep ==
    ASSUME IInv, NEW host \in Host, NEW path \in Path, ServeHTTP(host, path)
    PROVE  IInv'
<1> DEFINE best == BestMatch(routes, host, path)
           out == IF best = 0 THEN <<>> ELSE Rewrite(routes[best], path)
<1>1. conn = "terminated" /\ UNCHANGED <<routes, conn, hello, upstream>>
    BY DEF ServeHTTP
<1>2. served' = [host |-> host, path |-> path, route |-> best, out |-> out]
    BY DEF ServeHTTP
<1>3. best \in 0..Len(routes)
    BY LoopBest DEF IInv, TypeOK, BestOf
<1>4. RequestInv'
    BY <1>1, <1>2 DEF RequestInv
<1> HIDE DEF best, out
<1>5. TypeOK'
    BY <1>1, <1>2, <1>3 DEF IInv, TypeOK
<1> QED
    BY <1>1, <1>4, <1>5 DEF IInv, ChoiceInv

LEMMA CloseStep == ASSUME IInv, Close \/ Reconnect PROVE IInv'
<1>1. /\ UNCHANGED routes /\ conn' \in {"closed", "new"}
      /\ upstream' = 0 /\ served' = NoRequest
      /\ hello' \in {hello, [name |-> NoName, whole |-> TRUE]}
    BY DEF Close, Reconnect, IInv, TypeOK
<1>2. hello' \in Hello
  <2>1. [name |-> NoName, whole |-> TRUE] \in Hello
      BY DEF Hello
  <2> QED
      BY <1>1, <2>1 DEF IInv, TypeOK
<1> QED
    BY <1>1, <1>2 DEF IInv, TypeOK, ChoiceInv, RequestInv, NoRequest

LEMMA Step == ASSUME IInv, [Next]_vars PROVE IInv'
<1>1. CASE \E h \in Hello : AcceptPlain(h) \/ AcceptPeeked(h)
    BY <1>1, AcceptPlainStep, AcceptPeekedStep
<1>2. CASE \E host \in Host, path \in Path : ServeHTTP(host, path)
    BY <1>2, ServeHTTPStep
<1>3. CASE Close \/ Reconnect
    BY <1>3, CloseStep
<1>4. CASE UNCHANGED vars
    BY <1>4 DEF vars, IInv, TypeOK, ChoiceInv, RequestInv
<1> QED
    BY <1>1, <1>2, <1>3, <1>4 DEF Next

\* Types, what a terminated connection says of the first match, and where the last
\* request went.
THEOREM Invariance == Spec => []IInv
<1>1. IInv /\ [Next]_vars => IInv'
    BY Step
<1> QED
    BY <1>1, InitInv, PTL DEF Spec

-----------------------------------------------------------------------------
(* The properties                                                          *)

LEMMA ServedBest ==
    ASSUME IInv, served # NoRequest
    PROVE  BestOf(routes, served.host, served.path, Len(routes), served.route)
BY LoopBest DEF IInv, TypeOK, RequestInv

LEMMA CandidateFits ==
    ASSUME NEW host, NEW path, NEW i
    PROVE  i \in Candidates(host, path) <=> i \in DOMAIN routes /\ Fits(routes[i], host, path)
BY DEF Candidates, Matching, Fits

\* A request goes to the longest matching prefix, the earliest of equals, and to a
\* 404 only when nothing matches.
THEOREM LongestPrefixWins == Spec => []BestRoute
<1>1. ASSUME IInv PROVE BestRoute
  <2> SUFFICES ASSUME served # NoRequest
               PROVE  LET all == Candidates(served.host, served.path)
                          r   == served.route
                      IN  /\ r = 0 <=> all = {}
                          /\ r # 0 =>
                               /\ r \in all
                               /\ \A i \in all :
                                    \/ Len(routes[i].prefix) < Len(routes[r].prefix)
                                    \/ Len(routes[i].prefix) = Len(routes[r].prefix) /\ r <= i
      BY DEF BestRoute
  <2>1. BestOf(routes, served.host, served.path, Len(routes), served.route)
      BY <1>1, ServedBest
  <2>2. DOMAIN routes = 1..Len(routes) /\ Len(routes) \in Nat
      BY <1>1 DEF IInv, TypeOK
  <2> QED
      BY <2>1, <2>2, CandidateFits DEF BestOf
<1> QED
    BY <1>1, Invariance, PTL

\* The routing by SNI and the routing by request agree on a listener whose
\* passthrough routes come first.
THEOREM RoutingsAgree == Spec => []PassthroughKept
<1>1. ASSUME IInv PROVE PassthroughKept
  <2> DEFINE r == served.route
             first == MatchRouteBySNI(routes, hello.name)
             all == Matching(routes, hello.name)
  <2> SUFFICES ASSUME r # 0, hello.whole, served.host = hello.name, PassthroughFirst,
                      routes[r].passthrough
               PROVE  FALSE
      BY DEF PassthroughKept
  <2>1. served # NoRequest /\ conn = "terminated" /\ hello.name \in Host
      BY <1>1 DEF IInv, TypeOK, NoRequest, RequestInv
  <2>2. r \in all
    <3>1. Fits(routes[r], served.host, served.path) /\ r \in 1..Len(routes)
        BY <1>1, <2>1, ServedBest DEF BestOf, IInv, TypeOK
    <3> QED
        BY <1>1, <3>1 DEF Fits, Matching, IInv, TypeOK
  <2>3. HasPassthroughRoutes(routes)
      BY <2>2 DEF HasPassthroughRoutes, Matching
  <2>4. first # 0 /\ ~routes[first].passthrough
      BY <1>1, <2>1, <2>3 DEF IInv, ChoiceInv, ExtractSNI
  <2>5. first \in all /\ first <= r /\ first \in Nat /\ r \in Nat
      BY <1>1, <2>2, <2>4, FirstMatch DEF IInv, TypeOK
  <2> QED
      BY <2>1, <2>2, <2>4, <2>5 DEF PassthroughFirst
<1> QED
    BY <1>1, Invariance, PTL

\* Nothing that the SNI routes to a passthrough route is decrypted, unless the
\* ClientHello does not arrive with the first read.
THEOREM WholeHelloKept == Spec => [](hello.whole => NeverDecrypted)
<1>1. ASSUME IInv, hello.whole, conn = "terminated",
             MatchRouteBySNI(routes, hello.name) # 0
      PROVE  ~routes[MatchRouteBySNI(routes, hello.name)].passthrough
  <2> DEFINE first == MatchRouteBySNI(routes, hello.name)
  <2>1. first \in DOMAIN routes
      BY <1>1, FirstMatch DEF IInv, TypeOK, Matching
  <2> QED
      BY <1>1, <2>1 DEF IInv, ChoiceInv, ExtractSNI, HasPassthroughRoutes
<1>2. IInv => (hello.whole => NeverDecrypted)
    BY <1>1 DEF NeverDecrypted
<1> QED
    BY <1>2, Invariance, PTL

LEMMA WiderSeq == ASSUME NEW S, NEW T, S \subseteq T PROVE Seq(S) \subseteq Seq(T)
OBVIOUS

\* strip_prefix does what README.md says for upstreams whose URL has no path.
THEOREM StripsAtRoot ==
    ASSUME \A u \in Upstream : u.path = <<>>
    PROVE  Spec => []PrefixStripped
<1>1. ASSUME NEW path PROVE JoinPath(<<>>, path) = <<>> \o path
    BY DEF JoinPath, IsSuffix, IsPrefix, Slash, Reverse
<1>2. ASSUME IInv PROVE PrefixStripped
  <2> DEFINE r == routes[served.route]
             rest == SubSeq(served.path, Len(r.prefix) + 1, Len(served.path))
             below == IF IsPrefix(Slash, rest) THEN rest ELSE Slash \o rest
  <2> SUFFICES ASSUME served.route # 0, r.up.strip, r.prefix # Slash
               PROVE  served.out = JoinPath(r.up.path, below)
      BY DEF PrefixStripped
  <2>1. served # NoRequest
      BY DEF NoRequest
  <2>2. served.route \in 1..Len(routes) /\ Fits(r, served.host, served.path)
      BY <1>2, <2>1, ServedBest DEF BestOf, IInv, TypeOK
  <2>3. r.prefix # <<>> /\ r.prefix \in Seq(STRING) /\ r.up.path = <<>>
      BY <1>2, <2>2, RouteTypes DEF IInv, TypeOK
  <2>4. served.path \in Seq(STRING)
      BY <1>2, <2>1, PathAssumption DEF IInv, RequestInv
  <2>5. JoinPath(r.up.path, served.path) = served.path
      BY <1>1, <2>3, <2>4
  <2>6. IsPrefix(r.prefix, served.path)
      BY <2>2 DEF Fits
  <2>7. Rewrite(r, served.path) = below
      BY <2>3, <2>5, <2>6 DEF Rewrite
  <2>8. served.out = Rewrite(r, served.path)
      BY <1>2, <2>1 DEF IInv, RequestInv
  <2> DEFINE Char == STRING \union {"/"}
  <2>9. below \in Seq(Char)
    <3>1. Len(r.prefix) + 1 \in 1..(Len(served.path) + 1)
        BY <2>3, <2>4, <2>6 DEF IsPrefix
    <3>2. rest \in Seq(STRING)
        BY <2>4, <3>1
    <3>3. STRING \subseteq Char /\ Slash \in Seq(Char)
        BY DEF Slash
    <3> HIDE DEF rest, Char
    <3>4. rest \in Seq(Char)
        BY <3>2, <3>3, WiderSeq
    <3>5. Slash \o rest \in Seq(Char)
        BY <3>3, <3>4, ConcatProperties
    <3> QED
        BY <3>4, <3>5
  <2>10. JoinPath(r.up.path, below) = below
    <3> HIDE DEF below, Char
    <3> QED
        BY <1>1, <2>3, <2>9
  <2> QED
      BY <2>7, <2>8, <2>10
<1> QED
    BY <1>2, Invariance, PTL
=============================================================================
