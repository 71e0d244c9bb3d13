------------------------------ MODULE Routing ------------------------------
(***************************************************************************)
(* How one client connection of an https listener finds its upstream:      *)
(* startHTTPSListener chooses between the plain server and the one that    *)
(* looks at the SNI, handleConn routes the connection by the first segment *)
(* it reads, and Router.ServeHTTP routes each request of a connection that *)
(* was terminated.  Names are lower-case, trimmed and without a port, as   *)
(* the code makes them, and are written as sequences of labels; paths are  *)
(* sequences of characters.                                                *)
(***************************************************************************)
EXTENDS Integers, Sequences, FiniteSetsExt, SequencesExt

CONSTANTS
    Host,       \* names that clients ask for
    Pattern,    \* hosts of routes: Every, Exactly(n) or Under(n)
    Path,       \* paths of requests
    Prefix,     \* path prefixes of routes
    Upstream,   \* what follows the match: [path, strip], of the upstream's URL
                \* and of strip_prefix
    MaxRoutes   \* bound: routes of a listener

\* No name: what ExtractSNI returns as nil.
NoName == <<>>

Every       == [kind |-> "any",  name |-> NoName]   \* "" and "*"
Exactly(n)  == [kind |-> "name", name |-> n]
Under(n)    == [kind |-> "glob", name |-> n]        \* "*." before n

Direct == [path |-> <<>>, strip |-> FALSE]

ASSUME HostAssumption ==
    /\ Direct \in Upstream
    /\ \A h \in Host : h \in Seq(STRING) /\ h # NoName
    /\ \A p \in Pattern : p = Every \/ p.kind \in {"name", "glob"}
    /\ MaxRoutes \in Nat \ {0}

\* path_prefix is "/" by default, so no route has an empty one.
ASSUME PathAssumption ==
    /\ Path \subseteq Seq(STRING)
    /\ Prefix \subseteq Seq(STRING) \ {<<>>}
    /\ \A u \in Upstream : u.path \in Seq(STRING) /\ u.strip \in BOOLEAN

\* Only terminated routes have a use for what Upstream says; it is varied for those
\* with a prefix.
Route == {r \in [host : Pattern, prefix : Prefix, passthrough : BOOLEAN, up : Upstream] :
            r.passthrough \/ r.prefix = <<"/">> => r.up = Direct}

\* A ClientHello: the name it asks for, and whether its extensions arrive with
\* the first read of handleConn.
Hello == [name : Host \union {NoName}, whole : BOOLEAN]

VARIABLES
    routes,     \* the routes of the listener
    conn,       \* where the connection is
    hello,      \* what the client sent first
    upstream,   \* index of the route a relayed connection goes to, or 0
    served      \* the last request, the index of the route it went to, and the path
                \* that its upstream was asked for

vars == <<routes, conn, hello, upstream, served>>

NoRequest == [host |-> NoName, path |-> <<>>, route |-> 0, out |-> <<>>]

\* The type of each variable; a relayed connection has a route, and only a
\* terminated one has requests.
TypeOK ==
    /\ routes \in Seq(Route) /\ Len(routes) \in 1..MaxRoutes
    /\ conn \in {"new", "closed", "relayed", "terminated"}
    /\ hello \in Hello
    /\ upstream \in 0..Len(routes)
    /\ conn = "relayed" <=> upstream # 0
    /\ served.route \in 0..Len(routes)
    /\ served # NoRequest => conn = "terminated"

Init ==
    /\ routes \in BoundedSeq(Route, MaxRoutes) \ {<<>>}
    /\ conn = "new"
    /\ hello = [name |-> NoName, whole |-> TRUE]
    /\ upstream = 0
    /\ served = NoRequest

-----------------------------------------------------------------------------
(* Matching                                                                *)

\* matchHostShared: strings.HasSuffix(host, ".name") needs a label before it.
MatchHost(host, pattern) ==
    \/ pattern.kind = "any"
    \/ pattern.kind = "name" /\ host = pattern.name
    \/ pattern.kind = "glob" /\ IsStrictSuffix(pattern.name, host)

Matching(rs, host) == {i \in DOMAIN rs : MatchHost(host, rs[i].host)}

\* Mutant of MatchRouteBySNI: a later match replaces an earlier one.
MatchRouteBySNILast(rs, host) ==
    IF Matching(rs, host) = {} THEN 0 ELSE Max(Matching(rs, host))

\* matchRouteBySNI: the first route whose host matches, or 0.
MatchRouteBySNI(rs, host) ==
    IF Matching(rs, host) = {} THEN 0 ELSE Min(Matching(rs, host))

\* ExtractSNI on the bytes of the first read: nil when the extensions end beyond
\* them.  The hellos are well-formed but for the cut; a handshake of exactly 38
\* bytes, at which the code panics, and other malformed lengths are not among them.
ExtractSNI(h) == IF h.whole THEN h.name ELSE NoName

HasPassthroughRoutes(rs) == \E i \in DOMAIN rs : rs[i].passthrough

Fits(r, host, path) == MatchHost(host, r.host) /\ IsPrefix(r.prefix, path)

\* Mutant of Better: a prefix of the same length replaces the earlier one.
BetterOrEqual(rs, host, path, i, best) ==
    Fits(rs[i], host, path) /\ (best = 0 \/ Len(rs[i].prefix) >= Len(rs[best].prefix))

\* The loop's condition: route i takes the place of the best one before it (0 when
\* bestPrefixLen still is -1).
Better(rs, host, path, i, best) ==
    Fits(rs[i], host, path) /\ (best = 0 \/ Len(rs[i].prefix) > Len(rs[best].prefix))

\* bestMatch after the loop of ServeHTTP has seen i routes.
BestAfter(rs, host, path) ==
    LET best[i \in 0..Len(rs)] ==
          IF i = 0 THEN 0
          ELSE LET b == best[i - 1] IN IF Better(rs, host, path, i, b) THEN i ELSE b
    IN  best

BestMatch(rs, host, path) == BestAfter(rs, host, path)[Len(rs)]

Slash == <<"/">>

\* SetURL: the path of the upstream's URL and that of the request, one slash between.
JoinPath(base, path) ==
    IF IsSuffix(Slash, base) THEN base \o Tail(path) ELSE base \o path

\* createDirector: the prefix is cut off what SetURL has made.
Rewrite(r, path) ==
    LET joined == JoinPath(r.up.path, path)
        rest   == IF IsPrefix(r.prefix, joined)
                  THEN SubSeq(joined, Len(r.prefix) + 1, Len(joined)) ELSE joined
    IN  IF ~r.up.strip \/ r.prefix \in {<<>>, Slash} THEN joined
        ELSE IF IsPrefix(Slash, rest) THEN rest ELSE Slash \o rest

-----------------------------------------------------------------------------
(* The connection                                                          *)

\* startHTTPSListener without passthrough routes: http.Server terminates every
\* connection.
AcceptPlain(h) ==
    /\ conn = "new"
    /\ ~HasPassthroughRoutes(routes)
    /\ hello' = h
    /\ \E end \in {"terminated", "closed"} : conn' = end
    /\ UNCHANGED <<routes, upstream, served>>

\* Mutant of AcceptPeeked: a connection without a route is relayed anyway.
AcceptPeekedAnyway(h) ==
    /\ conn = "new"
    /\ HasPassthroughRoutes(routes)
    /\ hello' = h
    /\ LET r == MatchRouteBySNI(routes, ExtractSNI(h)) IN
         \/ r = 0 /\ conn' = "relayed" /\ upstream' = 0
         \/ r # 0 /\ routes[r].passthrough /\ conn' = "relayed" /\ upstream' = r
         \/ r # 0 /\ ~routes[r].passthrough /\ conn' = "terminated" /\ upstream' = 0
         \/ conn' = "closed" /\ upstream' = 0
    /\ UNCHANGED <<routes, served>>

\* handleConn: the connection goes to proxyTCP or to serveTLS as the first route
\* for the SNI says; without a route, or when the dial or the handshake fails,
\* it is closed.
AcceptPeeked(h) ==
    /\ conn = "new"
    /\ HasPassthroughRoutes(routes)
    /\ hello' = h
    /\ LET r == MatchRouteBySNI(routes, ExtractSNI(h)) IN
         \/ r # 0 /\ routes[r].passthrough /\ conn' = "relayed" /\ upstream' = r
         \/ r # 0 /\ ~routes[r].passthrough /\ conn' = "terminated" /\ upstream' = 0
         \/ conn' = "closed" /\ upstream' = 0
    /\ UNCHANGED <<routes, served>>

\* Router.ServeHTTP: one request of a terminated connection; 0 is the answer 404.
\* The router has every route of the listener, and the Host of a request need
\* not be the name of the handshake.
ServeHTTP(host, path) ==
    /\ conn = "terminated"
    /\ LET best == BestMatch(routes, host, path) IN
         served' = [host |-> host, path |-> path, route |-> best,
                    out |-> IF best = 0 THEN <<>> ELSE Rewrite(routes[best], path)]
    /\ UNCHANGED <<routes, conn, hello, upstream>>

\* Either side closes the connection.
Close ==
    /\ conn \in {"relayed", "terminated"}
    /\ conn' = "closed"
    /\ upstream' = 0
    /\ served' = NoRequest
    /\ UNCHANGED <<routes, hello>>

\* The client opens another connection.
Reconnect ==
    /\ conn = "closed"
    /\ conn' = "new"
    /\ hello' = [name |-> NoName, whole |-> TRUE]
    /\ UNCHANGED <<routes, upstream, served>>

Next ==
    \/ \E h \in Hello : AcceptPlain(h) \/ AcceptPeeked(h)
    \/ \E host \in Host, path \in Path : ServeHTTP(host, path)
    \/ Close
    \/ Reconnect

Spec == Init /\ [][Next]_vars

-----------------------------------------------------------------------------
(* Properties                                                              *)

Candidates(host, path) ==
    {i \in Matching(routes, host) : IsPrefix(routes[i].prefix, path)}

\* The loop of ServeHTTP computes what its comment promises, "the best route":
\* 404 only when no route matches, otherwise the longest matching prefix and,
\* of two equally long ones, the one that is configured first.
BestRoute ==
    served # NoRequest =>
      LET all == Candidates(served.host, served.path)
          r   == served.route
      IN  /\ r = 0 <=> all = {}
          /\ r # 0 =>
               /\ r \in all
               /\ \A i \in all :
                    \/ Len(routes[i].prefix) < Len(routes[r].prefix)
                    \/ Len(routes[i].prefix) = Len(routes[r].prefix) /\ r <= i

\* A listener whose passthrough routes are not shadowed: none comes after a
\* terminated route for a name they share.
PassthroughFirst ==
    \A h \in Host : \A i, j \in Matching(routes, h) :
      routes[j].passthrough /\ i < j => routes[i].passthrough

\* The two routings agree, first match by name and longest prefix by request:
\* when passthrough routes come first, a client that names the same host in its
\* (whole) ClientHello and in its requests is never proxied, decrypted, to the
\* upstream of a passthrough route.
PassthroughKept ==
    served.route # 0 /\ hello.whole /\ served.host = hello.name /\ PassthroughFirst
      => ~routes[served.route].passthrough

\* README.md on passthrough: when the route that matches the SNI has
\* no_tls_termination, "the proxy never sees the decrypted data".
NeverDecrypted ==
    conn = "terminated" =>
      LET r == MatchRouteBySNI(routes, hello.name)
      IN  r # 0 => ~routes[r].passthrough

\* README.md, on path prefix routing: "with optional path prefix stripping".  The
\* upstream of a route that strips is asked for what follows the prefix, below the
\* path of its own URL.
PrefixStripped ==
    served.route # 0 =>
      LET r     == routes[served.route]
          rest  == SubSeq(served.path, Len(r.prefix) + 1, Len(served.path))
          below == IF IsPrefix(Slash, rest) THEN rest ELSE Slash \o rest
      IN  r.up.strip /\ r.prefix # Slash => served.out = JoinPath(r.up.path, below)

-----------------------------------------------------------------------------
(* The inductive invariant behind the safety properties                    *)

\* A connection is terminated only if the first route for its SNI says so, or no
\* route of the listener passes anything through.
ChoiceInv ==
    conn = "terminated" /\ HasPassthroughRoutes(routes) =>
      LET r == MatchRouteBySNI(routes, ExtractSNI(hello))
      IN  r # 0 /\ ~routes[r].passthrough

\* The last request went where the loop of ServeHTTP sent it.
RequestInv ==
    served # NoRequest =>
      /\ served.host \in Host /\ served.path \in Path
      /\ served.route = BestMatch(routes, served.host, served.path)
      /\ served.route # 0 => served.out = Rewrite(routes[served.route], served.path)

IInv == TypeOK /\ ChoiceInv /\ RequestInv
=============================================================================
