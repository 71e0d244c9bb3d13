# Verification of edged

TLA+ models of edged, the reverse proxy in `src/`, with the TLC runs that check
them and the TLAPS proofs about them. Paths below are those of the repository.

    tlc -workers 2 -config MCCertManager.cfg MCCertManager
    tlapm CertManagerProofs.tla CertServiceProofs.tla PassThroughListenerProofs.tla \
          DNSChallengeProofs.tla ServerProofs.tla StartupProofs.tla RoutingProofs.tla

## 1. The system

One process. `cmd/main.go:runServer` loads the configuration, builds the ACME
manager, makes sure of the certificates, starts the renewal daemon and then the
listeners, waits for a signal, cancels the context and stops the listeners.

| Part | State | Operations | Talks to |
|---|---|---|---|
| Certificate manager, `acme/manager.go` | `certs`, `certMeta` (under `mu`), `obtainMu`, files `<storage>/certs/*.{crt,key}` | `EnsureDomains`, `obtainCertificate`, `loadCertificatesFromDisk`, `GetCertificate` | called by main, by the daemon, and by handshakes (`tls.Config.GetCertificate`); calls lego |
| Life cycle, `cmd/main.go`, `StartRenewalDaemon` | where `runServer` is, the ticker | boot, check, serve, tick | the manager |
| Account, `acme/user.go`, `options.go`, `loadOrCreatePrivateKey` | `accounts/private.key`, `accounts/user.json` | load or create the key, register, save | the CA |
| DNS-01 challenges, `acme/dns_router.go`, `arvancloud_fix.go` | TXT records in zones, record ids in the provider | `Present` with pre-cleanup, `CleanUp` | called by lego; DNS APIs |
| Provider selection, `config/dns_match.go`, `config.go:SelectDNSProvider` | none | glob matching, first match or default | the challenges |
| Mixed TLS listener, `proxy/tcp_proxy.go` | `listener`, `wg`, context, one handler per connection | `ListenAndServe`, `handleConn`, `proxyTCP`, `copyContext`, `serveTLS`, `Shutdown` | clients, upstreams, the router |
| Routing, `proxy/reverse_proxy.go:ServeHTTP`, `tcp_proxy.go:matchRouteBySNI`, `crypto/tls/extract_sni.go` | the routes | match by SNI, longest prefix by request | listeners, `httputil.ReverseProxy` |
| Server, `proxy/listener.go` | `servers`, `tlsPassthroughServers` | `Start`, `Stop` | main, all listeners |
| Reverse proxy, rest of `reverse_proxy.go` | CIDR cache | rewrite of requests, client address, error pages, `deriveContext` | upstreams |
| Configuration, `config/config.go` | none after start | `Load`, defaults, validation | all |

What is hard to test here: callers of `EnsureDomains` that overlap, crashes
between the writes of one bundle, checks that fail for days, records left by an
order that crashed, two authorizations under one TXT name, a start that dies
between the making of a key and the saving of a registration, a shutdown in the
middle of `Listen`, `Accept` and running relays, several listeners of different
kinds shut down at once under one deadline, the goroutine of `http.Server`
beside `handleConn`, and the agreement of two different routings. `PROJECT.json`
lists each hazard at its line with the properties that watch it.

What makes each part correct:

- manager: no needless request to the CA; nothing served before it is on disk;
  never an older certificate after a newer one; memory describes itself rightly;
  without failures the files of a pair belong together
- life cycle: certificates stay in date while at least one check of the renewal
  window succeeds; a restart finds on disk what was served; requests are spared
- start-up: one account for each CA, whatever the process dies of; a process comes
  up whatever an earlier one left; validation and start-up agree
- challenges: stale records never block an order, nothing is left behind, other
  names are not harmed, every domain is validated in the end
- mixed listener: the count is the handlers that run, a connection is open
  exactly as long as its handler, shutting down is no failure and comes to an end
- server: `Stop` knows every listener that `Start` brought up, a signal is never
  taken for a failure by anything but a look-up it cancels, a clean exit leaves no
  request in flight, the shutdown ends
- routing: the best route is the best one, and what the SNI says passes through
  is not decrypted and proxied by the request's routing

## 2. The modules

`CertManager` – `acme.Manager` at the level of its calls. A certificate is its
position in `issued`, the record of what the CA signed; a file holds a serial,
`None`, or `Torn` (does not parse). `EnsureDomains` is the first look under the
read lock; `LockObtain`, `Recheck`, `ObtainOK`/`ObtainFail`, `OpenCrt`, `FillCrt`,
`OpenKey`, `FillKey`, `WriteFails`, `Install` are `obtainCertificate`, with
`os.WriteFile` in its two steps (truncate, write). Memory changes only in
`Install` (the section under `mu.Lock`), `NewManager` (load from disk) and
`Crash`. Time is in days. Simplifications: the fall-back expiry of three months and
the file name as a domain are for leaves that do not parse or name nothing,
which lego does not return; reading a directory is atomic, as no writer runs
during `NewManager`.

`CertService` – EXTENDS it with `runServer` and the daemon: `Boot(l)`,
`BootCheck`, `Serve`, `Tick`, `Continue` (a step of the call in progress), `Die`,
`Day`. All calls come from one goroutine. Its steps are steps or stutters of
`CertManager`. `missed` is a history variable: failed checks in a row, up to
the number of checks that a renewal window holds.

`Startup` – what comes before that in a process: `Load` (defaults and
validation), `Prepare` (the storage path and its directories, `socks5_proxy`),
`LoadKey`, `OpenKey`, `FillKey` (`loadOrCreatePrivateKey`, where
whatever keeps the key from being read leads to a new one), `LoadUser`,
`NewClient` (the CA's directory, then the constructors of the DNS providers with
their least TTLs), `Register`, `OpenUser`, `FillUser`, `StartListeners` as far as
the configuration decides it. Any step but `Load` and `StartListeners` may fail,
and the process may die before each; the next `Boot` brings another
configuration. `exit` tells the refusals that the configuration causes
(`rejected`, `settings`, `provider`, `manager`, `certificate`) from failures
(`storage`). `key` and `reg` are the memory of `NewManager`, `keyFile` and
`userFile` the two files (`0` or `NoAccount` when absent or half-written),
`accounts` what the CAs have made; `keys` numbers the keys, `failed` and
`misread` are history. The selection of a DNS provider and the matching of
domains are operators: a name is a sequence of characters, a pattern a sequence
of atoms (`*`, `?`, a class or an escape, a character), and `PathMatch` cuts the
name into one piece for each atom. `Signable` are the domains that a CA signs,
with at most one wildcard label; `Plain` the patterns `*`, a name and `*.` before
a name.

`DNSChallenge` – one order after another as lego runs it: all `Present`s, then
the CA's look at each record, then all `CleanUp`s. lego and the CA are the
environment (external in the map), written from how `src/` depends on them;
`PreCleanup` and `CleanUp` are the repository's. A record is an authorization
and its generation, filed under a name that two authorizations may share.

`Listener` – the contract of a listener with passthrough routes: socket, the
connection in hand, those whose handlers are counted, the call of `Shutdown`. It
says when a connection may be taken, when the socket may close, what the return
of `Shutdown` promises, and that a connection in hand may still get its handler
after that.

`PassThroughListener` – `TLSPassThroughListener`: the accept loop, the closing
goroutine, `Shutdown`, and per connection the handler, the two copy loops and
the `http.Server` goroutine. Bytes are left out: a read or write has an outcome.
An error that `ListenAndServe` returns kills the process, as `startHTTPSListener`
logs it with `Fatal` (`Alive`). `Listen` fails by a fault, or because `baseCtx` is
cancelled while the host name of the address is looked up (`ByName`); an address
that is an IP is bound whatever the context says. It implements `Listener` under the mapping
`AsListener`: the threads and the places of a connection disappear, `held` is
the set of connections whose handlers are counted.

`Server` – `proxy.Server` and the end of `runServer`, with an instance of
`Listener` for each passthrough listener. `Start` goes through the
configuration: `StartHTTP` (a goroutine will listen), `StartProxyProtocol` (the
socket is opened by `Start` itself), `StartPassThrough`, and `StartFails` with
the listeners before it at work. `Signal`, `Stop`, `ShutdownHTTP` and
`ShutdownPassThrough` in any order, `Deadline`, `ShutdownReturns` and
`StopReturns` are the end. Of `net/http` there is what the code relies on:
`Shutdown` before `ListenAndServe` makes it return at once, idle connections are
closed, active ones are waited for until the context ends, upgraded ones are not
tracked. A request of an `http.Server` waits for its response (`active`), has it
copied to the client (`copying`), or has switched protocols (`upgraded`).
`CancelRequest` is `deriveContext`: once the server's context is cancelled, a
request without a response is answered 502, a response that is being copied is
aborted with its connection. The requests of a mixed listener are part of its
connections. `Cancelled(k)` is the context of a passthrough listener, the server's or
cancelled by its own `Shutdown`; `TooLate` is the look-up of a host name that this
context cuts off, the one `Fatal` that needs no fault. That every step is one the
contract of a passthrough listener has, or leaves that listener alone, is the
property `ContractKept`: it is what allows `TLSPassThroughListener`, shown to
implement the contract, to stand where `Server` has an instance of it.

`Routing` – one connection of an https listener: `AcceptPlain` or `AcceptPeeked`
by whether any route passes through, then any number of `ServeHTTP`. Names are
sequences of labels, patterns match by suffix, paths are sequences of
characters; the loop of `ServeHTTP` is `BestAfter`, a function from the number of
routes seen so far to the best of them. `Rewrite` is
the path that `createDirector` sends upstream: the upstream's own path is joined
first, the prefix is trimmed after that.

`MC*` modules give the constants their values. Definitions that begin with
"Mutant of" are faulty variants of the definition below them, used to see that
each property can fail.

## 3. The runs

| Run | Bounds | States | Shows |
|---|---|---|---|
| CertManager | 2 callers, 3 domains, 2 lists sharing a wildcard, 3 bundles, 1 crash, 1 fault, days 0–3 | 323k | `IInv`, `MemoryMatchesCertificates`, `PairsWhole`, `RequestsSpaced`, `IssueOnlyIfNeeded`, `DurableBeforeServed`, `NoDowngrade` |
| CertService | 2 domains, 2 configurations, lifetime 6, window 4, check every 2 days, days 0–9, 1 crash, 1 fault | 476k | `ServiceInv`, `GraceHolds`, `RestartFindsCertificates`, `DiskSparesTheCA`, `KeepsRenewing` |
| Startup | 79 configurations, 2 CAs, 2 crashes, 2 faults | 272k | `IInv`, `NoOrphan`, `AccountWorks`, `StartsAgain`, `AcceptedStarts`, `ACMECovered` |
| DNSChallenge | 4 authorizations (2 share a name, 1 without the fix), 1 crash, 1 fault, 1 expiry each | 193k | `IInv`, `NoDuplicate`, `NothingLeft`, `FailsOnlyByFault`, `AllValidInTheEnd` |
| PassThroughListener | a host name, 2 connections, 1 of them stalled, 1 fault | 27k | `IInv`, `CountMatchesHandlers`, `ShutdownIsNoFailure`, `OpenWhileHandled`, `ShutdownWaits`, `SocketCloses`, `ShutdownEnds`, `KeepsContract` |
| Server | 3 listeners, one of each kind, the mixed one under a host name, 2 clients of which one slow, 1 fault | 110k | `IInv`, `CleanExit`, `StopIsNoFailure`, `ContractKept`, `AllServe`, `StopEnds` |
| Routing | 3 names, 3 patterns, 2 prefixes, 3 paths, lists of up to 3 routes, upstreams at their root | 190k | `IInv`, `BestRoute`, `PassthroughKept` |

Two callers are enough for every race on `obtainMu`, since a caller is told from
another only by holding it; three bundles allow an overlap, a renewal of it and
a late installer. Symmetry of the callers is used where no liveness is checked,
and `CONSTRAINT FewIssued` likewise. In `CertService` the clock stops on
`MaxDay`, where ticks stay due, so the liveness property is about a service that
goes on being checked. In `Startup` two crashes allow one that leaves a key
without an account and one that leaves an account without `user.json`; its
configurations are one listener of every kind (alone, or beside an ACME one) and
every list of providers for the ACME listener, right and wrong: patterns with
`?`, a class, an escape and an inner `*`, TTLs below the constructors' and below
validation's, a blank storage path and a bad proxy among them. Two connections
let one be handled while another is in the backlog or in `Accept`. One listener
of each kind has every path through `Start` and `Stop`, and listeners meet only in
`Stop`'s wait, in the context and in the exit. Three routes make ties, a
shadowed route and a route between two others.

`CHECK_DEADLOCK FALSE` is set where the system may stop: the clock and the
faults of `CertManager` are used up, all authorizations are valid and nothing
expires any more, the listener has returned, or the process has exited.

Fairness. `CertService`: the scheduler runs the one goroutine and the ticker, a
supervisor restarts the process, and a CA asked for ever answers once in a
while (strong fairness of a good answer; everything else weak). `DNSChallenge`:
each API call returns, as the clients have timeouts, and a failed order is made
again by the daemon. `PassThroughListener`: the code's own steps, the first
read (10 s), a direct dial, the reads of a relay (deadline) and the handshake
once the context is cancelled; writes and dials only outside `Stalled`, as a write to
a peer that does not read (tcp_proxy.go:367) and a dial through a SOCKS5 proxy
(tcp_proxy.go:261) have neither a deadline nor the context; nothing for clients,
faults and signals. `Startup`: a process that is not killed goes on (weak fairness
of `Own`), as file operations return and calls of the CA have a timeout; nothing
makes an operator start one. `Server`: the steps of `Start`, `Stop`, the serving goroutines and
the deadline; of a passthrough listener what `SocketCloses` and `ShutdownEnds`
say of it; the noticing of a cancellation except by a request of a slow client.
`Deadline` has a guard instead of a clock: thirty seconds are long beside what
the code does by itself, so that only a slow client's request is left by then.
`Shutdown` of a passthrough listener is called without that context
(listener.go:258), which is why `StopEnds` names its slow clients as the exception.

Five runs are expected to fail; each refutes one sentence of the repository:

- `ConfigChange` / `ServedCertsAreRenewed` (README.md:24): a name dropped from
  the configuration is loaded from disk, shadows the fresh wildcard and expires.
- `ServedWhileOpen` (README.md:205): the connection of a terminated request is
  closed by `handleConn` while `http.Server` serves it.
- `LiveRecord` / `OnlyStaleRemoved` (arvancloud_fix.go:20): a domain and its
  wildcard share a name, and the second `Present` deletes the live record of
  the first. `AllValidInTheEnd` holds all the same, by a second order.
- `SplitHello` / `NeverDecrypted` (README.md:204): a ClientHello in two segments
  has no name in the first read and is terminated by the catch-all route.
- `StripPrefix` / `PrefixStripped` (README.md:12): `createDirector` joins the path
  of the upstream's URL (reverse_proxy.go:289) before it trims the prefix
  (reverse_proxy.go:314), which is then no prefix any more, for an upstream below
  a path.

## 4. The proofs

`CertManagerProofs` proves, for any sets of callers, domains and lists and any
numbers of days, crashes and faults, under the four assumptions of
`CertManager` (lists contain their primary; the numbers are naturals; `None`
and `Torn` are not serials; files are ordered):

- `Invariance`: `Spec => []IInv`
- `Memory`: `Spec => []MemoryMatchesCertificates`
- `KeysFit`, `AskedRarely`: `Spec => []PairsWhole`, `Spec => []RequestsSpaced`
- `ServesListed`: a name that is served belongs to some list
- `NoDuplicateRequest`, `NeverWorse`, `SavedFirst`: the action properties
  `IssueOnlyIfNeeded`, `NoDowngrade`, `DurableBeforeServed`

The properties are not inductive by themselves. That a renewal never replaces a
newer certificate needs the order of expiry along `issued` (`OrderInv`), that
the bundle in hand is the last one signed (`DraftInv`), and for that the lock
(`LockInv`). That what is served is on disk needs to know what has been written
at each point (`WriteInv`), and that a request is needed needs `CallInv`, which
holds because only the holder of `obtainMu` changes memory. `IInv` is their
conjunction with the types and `MemoryMatchesCertificates`; the run CertManager
checks it before the proof. The proof goes action by action; lemmas treat the
actions that only move a caller alike. `KeysFit` adds to `IInv` what the holder
of the lock has written of its pair at each point (`WholeInv`). `AskedRarely`
needs to know where the last request for a set of names is: while nothing
crashes or fails, each name of a bundle that was signed is in memory with an
expiry no earlier than the bundle's, or its caller still holds the lock and is about to
install it (`KeptInv`). A new request needs a name with no more than the window
left, and that name's expiry bounds the earlier bundle's. `ServesListed` follows
what is signed, written and loaded back (`SignedInv`).

`CertServiceProofs` proves, with the assumption of `CertService` on its numbers
and on the goroutine of main being a caller, that the program implements the
manager, and the safety properties of its life:

- `ServiceImplementsManager`: `ServiceSpec => Spec`. `Boot`, `Day`, `Die` are steps
  of the manager; a check is a call with the list of the running configuration
  (`ConfigInv` keeps that a running process has one), or finds nothing to do.
- `ServiceInherits`: the three action properties above and `RequestsSpaced`, of the
  program
- `ServiceInvariance`: `ServiceSpec => []ServiceInv`
- `GraceIsEnough`: `[]GraceHolds`. `GraceInv` counts in days: after the k-th failed
  check in a row the configured certificates have at least `Left(k)` days, the window
  less k intervals, when the next tick is due; each failed check takes one
  interval off, and a successful one gives the whole window back.
- `RestartsFind`, `SparesTheCA`: `[]RestartFindsCertificates` and
  `DiskSparesTheCA`, for configurations whose lists are disjoint (`ListsApart`, an
  assumption of the theorems) and a window that holds at least one check.
  `SavedInv` says that the bundle of the configuration is on disk and in memory
  or needs renewal; it rests on `FileInv`: a file of a list holds a bundle of that
  list, and the pair is not loadable while it is being replaced. With
  overlapping lists of two configurations an older bundle may be read after the
  newer one, and both would be false.
- `RenewedWithoutEdits`: `[]ServedCertsAreRenewed`, when all configurations list the
  same names. The run ConfigChange refutes it in general; the theorem says that the
  edit of the list is the only way to it. It combines `GraceIsEnough` with
  `ServesListed`.

`StartupProofs` proves, for any configurations, patterns and directories and any
numbers of crashes and faults (`StartupAssumption`; `ConfigAssumption` says that
names and patterns are sequences of strings, and that a class or escape is written
neither `*` nor `?` nor `.`): `Invariance` (`[]IInv`), and with it `OneAccount`
(`NoOrphan`), `Registered` (`AccountWorks`), `ValidationSuffices`
(`AcceptedStarts`) and `ChallengesAnswered` (`ACMECovered`). The invariant says
at each step which of key, key file, `user.json` and the CA's accounts know each
other: nothing is registered with a key that is not on disk, and while the key
file is empty no account exists that needs it. `ValidationSuffices` compares the
two: credentials that validation accepts are enough for the constructors
(`AcceptedBuilds`), so that only a short TTL is left (`ShortTTL`).
`ChallengesAnswered` is about the selection. What matches the name that a wildcard is
challenged under matches the wildcard too (`ChallengeCovers`), for any patterns, so
the entry that answers is the default or was made for the name. The converse holds for plain
patterns (`ChallengeMatches`): a star takes what is left of the name before the
literal rest (`StarCuts`, `StarFits`), and it can as well take it without the
wildcard label (`UnderMatches`). With it the two selections are the same entry
(`ChallengeSelects`).

`DNSChallengeProofs` proves `Invariance` (`[]IInv`) and from it `NeverRejected`,
`CleansUp`, `OthersUnharmed`: `NoDuplicate`, `NothingLeft`, `FailsOnlyByFault`.
`LiveInv` keeps the records that the CA has still to look at in the zone,
for authorizations that are `Alone` under their name; `ZoneInv` says of every
record in the zone which `CleanUp` is still to come for it. Two more theorems give
the limits of what the run LiveRecord shows: `OnlySharersRemove`, that a live record
is only ever removed by the pre-cleanup of another ArvanCloud authorization under
the same name, and `StaleOnly`, that `OnlyStaleRemoved` holds where no two
authorizations share a name.

`PassThroughListenerProofs` proves, for any finite set of connections that does
not contain `None` and any number of faults (`ConnAssumption`):

- `Invariance`: `Spec => []IInv`, and from it `Counting`, `Ownership`:
  `CountMatchesHandlers`, `OpenWhileHandled`
- `OrderlyStop`: `[]ShutdownIsNoFailure`
- `WaitsForAll`: the action property `ShutdownWaits`
- `ImplementsListener`: `Spec => KeepsContract`, the refinement of `Listener`

Counting needs to know who has a connection between `Accept` and `wg.Add`, when no
handler runs yet (`AcceptInv`); an orderly stop needs that the context is
cancelled before the socket is closed, by whichever of the closing goroutine
and `Shutdown` comes first, and that an error of `Accept` without a cancelled
context was a fault (`CancelInv`); a failure without a fault then is a look-up
that was cancelled (`FailInv`), before there was a socket (`SockInv`). `wg` changes with the set of handlers, whose
size is counted with the theorems about cardinality; the other steps leave the
set as it is, which one lemma (`FrameInv`) says for all of them. The refinement
adds that only an open socket has a backlog and that nobody accepts or closes
before it is bound (`SockInv`); then each step is one of the contract or a
stutter of it.

`ServerProofs` proves, for any list of listeners of the three kinds and any
connections (`ServerAssumption`): `Invariance` (`[]IInv`), `CleanMeansClean`
(`CleanExit`) and `FatalOnlyByFault` (`StopIsNoFailure`). `SafeInv` adds to
`CleanExit` that all listeners before `next` are registered, that a server with
a socket is registered, and that a server whose `Shutdown` returned has only
upgraded connections, although new ones came until its socket closed. `IInv` adds the
types, the states of the contracts among them, and what `FatalOnlyByFault` rests on
(`Ending`): whoever stops has cancelled the context, a socket of an `http.Server`
is only closed by its `Shutdown`, so that `Serve` returns `ErrServerClosed`, and a
contract fails without a fault only unbound and cancelled. `CleanMeansClean` says what is left when
the process exits, not what was cut off before. With it, `KeepsContract` proves `ContractKept` and `Composes` that
`Server` implements `Listener` for every passthrough listener. Two implementations
meet in that contract: `ImplementsListener` says that `TLSPassThroughListener`
does no more than it allows, `Composes` that `Server` relies on no more.

`RoutingProofs` proves, for any names, patterns, paths and prefixes and lists of
routes of any length (`HostAssumption`, `PathAssumption`):

- `Invariance`: `Spec => []IInv`; a connection is terminated only as the first route
  for its SNI says (`ChoiceInv`), and the last request went where the loop sent it
  (`RequestInv`)
- `LongestPrefixWins`: `[]BestRoute`. The loop is a function defined by recursion
  on the routes seen; `LoopDefined` says that it exists and `LoopBest` that its
  value after n routes is the best of them (`BestOf`, the loop's invariant).
- `RoutingsAgree`: `[]PassthroughKept`, from the meaning of the first match (`FirstMatch`)
  and of the best one
- `WholeHelloKept` and `StripsAtRoot` give the limits of two findings: with a whole
  ClientHello `NeverDecrypted` holds, and `PrefixStripped` holds when no upstream's
  URL has a path

`NaturalOrder` has what these need of the naturals: a set of them has a least
element, and what holds of 0 and is passed on holds up to n. The provers cannot
instantiate an induction theorem that takes a predicate, so both are stated about
sets and follow from the theorem that `<` is well-founded.

Only model-checked: the liveness properties (`KeepsRenewing`, `AllValidInTheEnd`,
`StartsAgain`, `SocketCloses`, `ShutdownEnds`, `AllServe`, `StopEnds`), as fairness is out of the
prover's reach. Every invariant and action property of the passing runs is proved.

## 5. Not modelled

- of the reverse proxy of one request: forwarding headers, the client's address
  and the cache of CIDRs, transports; functions of request and configuration
- bytes: `ExtractSNI` is modelled by what it returns for whole and cut
  ClientHellos, so not its lengths (a handshake of exactly 38 bytes, which is
  indexed at 38 after the length test, extract_sni.go:40); what a relay copies, the replayed ClientHello and the PROXY header
- of the configuration: YAML, the inheritance of the SOCKS5 proxy, tags on
  single fields except that on the TTLs; functional options and `Timeout` of the
  providers
- the single requests of a mixed listener, which live and end with its connections
- `GetCertificate` without SNI, which returns an arbitrary entry
- `crypto/tls/hello.go`, which the listeners do not call; `main.go` and the
  command `validate`, wrappers around `Load`

Observations on what is modelled, beside the runs that fail: a renewal in
progress is neither stopped nor awaited when the context is cancelled, so that an exit is a crash to the manager; a second signal is not
read; a shutdown does not wait for upgraded connections; a passthrough
connection in hand may be handled after `Shutdown` returned; another
`directory_url` goes on with the registration of the old CA, which is why
`AccountWorks` only asks for a registration that a CA knows; an idle relay ends
with its peers or the shutdown only, as the timeout of a read starts the next one
(`ReadTimeout`), where config.yaml:77 speaks of a connection that times out.
Four more concern the properties above:

- cmd/main.go:117 says "Allow up to 30 seconds for active connections to drain", but
  main.go:115 cancels the server's context first, and reverse_proxy.go:206 ties each
  request to it: a request without a response is answered 502, a response that is
  being copied is aborted. `CleanExit` therefore is about what is left in flight, and says nothing of what
  was cut off.
- A listener with passthrough routes whose address has a host name looks it up with
  the cancelled context if the signal comes early: `Listen` fails
  (tcp_proxy.go:106), and listener.go:187 ends the process with `Fatal`.
  `StopIsNoFailure` and `ShutdownIsNoFailure` except this case.
- Validation accepts `ttl: 60` (config.go:160, 171), which the providers'
  constructors refuse; a `socks5_proxy` that is no URL and a blank `storage_path` are
  refused only by `NewManager` (options.go:221, 366). `AcceptedStarts` excepts the
  first; the others end as `settings`.
- Patterns like `?.example.org` or `\*.example.org` match a wildcard's name and not its apex, so its challenge goes to another entry (dns_match.go:30);
  `ACMECovered` asks for the same entry only where all patterns are plain.

## 6. The plan

Done: all modules above and their proofs. Left, in this order:

1. `Relay`: the bytes of a relayed connection as two pipes, with the replay of
   the ClientHello, the PROXY header before it and the end of one direction,
   refining two FIFO channels.
2. `CertService` with overlapping lists of two configurations on one disk,
   without `ListsApart`: which of the bundles a restart reads.
3. Request headers, the client's address and the cache of CIDRs, if a property
   is found that a unit test does not show as well.
