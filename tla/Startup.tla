------------------------------ MODULE Startup ------------------------------
(***************************************************************************)
(* How a process comes up: config.Load fills in defaults and validates,    *)
(* acme.NewManager loads or makes the account in the storage directory and *)
(* at the CA and builds the DNS-01 providers, proxy.Server builds the TLS  *)
(* configuration of every listener.  A process may die at every step, and  *)
(* the next one starts with what is on disk and another configuration.     *)
(***************************************************************************)
EXTENDS Integers, SequencesExt

CONSTANTS
    Config,    \* configurations that an operator may write
    Class,     \* the characters that a class "[...]" or an escape in a pattern stands for
    Dir,       \* directories of ACME servers
    None,      \* no directory
    MaxCrash,  \* bound: deaths of the process before it serves
    MaxFault   \* bound: failed reads, writes and calls

ASSUME StartupAssumption ==
    /\ \A cfg \in Config : cfg.dir \in Dir
    /\ None \notin Dir
    /\ MaxCrash \in Nat /\ MaxFault \in Nat

VARIABLES
    phase,    \* where the process is
    exit,     \* why the last one ended
    failed,   \* something has failed in this process
    cfg,      \* its configuration
    key,      \* accountKey, 0 before it is known
    reg,      \* user.Registration
    keyFile,  \* accounts/private.key, 0 if there is no key in it
    userFile, \* the registration in accounts/user.json
    accounts, \* accounts at the CAs
    keys,     \* keys made so far
    misread,  \* the key file could not be read though it held a key
    crashes,  \* deaths so far
    faults    \* failures so far

disk == <<keyFile, userFile, accounts, keys, misread>>
vars == <<phase, exit, failed, cfg, key, reg, disk, crashes, faults>>

\* An account is known by its directory and its key; its URI names both.
Account   == [dir : Dir, key : Nat]
NoAccount == [dir |-> None, key |-> 0]

TypeOK ==
    /\ phase \in {"down", "load", "prepare", "key", "create", "fill", "user", "client", "register",
                  "save", "write", "listeners", "up"}
    /\ exit \in {"none", "died", "rejected", "settings", "storage", "provider", "manager",
                 "certificate"}
    /\ failed \in BOOLEAN
    /\ cfg \in Config
    /\ key \in 0..keys
    /\ reg \in Account \union {NoAccount}
    /\ keyFile \in 0..keys
    /\ userFile \in Account \union {NoAccount}
    /\ accounts \subseteq Account
    /\ keys \in Nat
    /\ misread \in BOOLEAN
    /\ crashes \in 0..MaxCrash
    /\ faults \in 0..MaxFault

Init ==
    /\ phase = "down"
    /\ exit = "none"
    /\ failed = FALSE
    /\ cfg \in Config
    /\ key = 0
    /\ reg = NoAccount
    /\ keyFile = 0
    /\ userFile = NoAccount
    /\ accounts = {}
    /\ keys = 0
    /\ misread = FALSE
    /\ crashes = 0
    /\ faults = 0

-----------------------------------------------------------------------------
(* Names and providers.  A domain is a sequence of characters, lower-case   *)
(* and trimmed.                                                             *)

IsWildcard(d) == IsPrefix(<<"*", ".">>, d)

\* lego presents the challenge of a wildcard on its apex.
Challenged(d) == IF IsWildcard(d) THEN SubSeq(d, 3, Len(d)) ELSE d

\* A pattern is a sequence of atoms: "*", "?", a class or an escape of Class, a
\* character that stands for itself; "[" is a bracket that is never closed.
Provider == [name : {"cloudflare", "arvancloud"}, match : SUBSET Seq(STRING),
             has : SUBSET STRING, ttl : Nat]

ASSUME ConfigAssumption ==
    /\ DOMAIN Class \intersect {"*", "?", "."} = {}
    /\ \A c \in Config :
         /\ \A i \in DOMAIN c.listeners : c.listeners[i].domains \subseteq Seq(STRING)
         /\ c.providers \in Seq(Provider)

\* ValidateGlobPattern
WellFormed(p) == p # <<>> /\ "[" \notin ToSet(p)

\* The piece of a name that an atom takes.
Takes(a, piece) ==
    \/ a = "*" /\ "/" \notin ToSet(piece)
    \/ a = "?" /\ \E ch \in ToSet(piece) : ch # "/" /\ piece = <<ch>>
    \/ a \in DOMAIN Class /\ \E ch \in Class[a] : piece = <<ch>>
    \/ a \notin {"*", "?"} \union DOMAIN Class /\ piece = <<a>>

\* path.Match: the name can be cut into one piece for each atom.
PathMatch(p, s) ==
    /\ WellFormed(p)
    /\ \E cut \in [0..Len(p) -> 0..Len(s)] :
         /\ cut[0] = 0 /\ cut[Len(p)] = Len(s)
         /\ \A i \in 1..Len(p) :
              cut[i - 1] <= cut[i] /\ Takes(p[i], SubSeq(s, cut[i - 1] + 1, cut[i]))

DomainCandidates(d) == {d, Challenged(d)}

\* Mutant of MatchDomain: a wildcard pattern is only a glob.
MatchDomainGlob(p, d) ==
    p # <<>> /\ d # <<>> /\ \E c \in DomainCandidates(d) : PathMatch(p, c)

\* A "*." pattern covers the name after it too, which path.Match does not.
MatchDomain(p, d) ==
    /\ p # <<>> /\ d # <<>>
    /\ \E c \in DomainCandidates(d) :
         PathMatch(p, c) \/ (IsWildcard(p) /\ SubSeq(p, 3, Len(p)) = c)

MatchesDomain(entry, d) == \E p \in entry.match : MatchDomain(p, d)

\* The first entry that matches, else the first one, else 0.
SelectDNSProvider(providers, d) ==
    LET found == {i \in DOMAIN providers : MatchesDomain(providers[i], d)}
    IN  IF providers = <<>> THEN 0 ELSE IF found = {} THEN 1 ELSE Min(found)

-----------------------------------------------------------------------------
(* Configuration                                                           *)

\* setDefaults, for what follows: an address that ends in ":443" means https.
Protocol(l) ==
    IF l.protocol # "" THEN l.protocol ELSE IF l.tlsPort THEN "https" ELSE "http"

UsesACME(l) == Protocol(l) = "https" /\ l.enabled /\ l.useACME

\* GetAllACMEDomains
AcmeDomains(c) ==
    UNION {c.listeners[i].domains : i \in {j \in DOMAIN c.listeners : UsesACME(c.listeners[j])}}

\* Mutant of ListenerValid: use_acme is accepted without domains.
ListenerValidNoDomains(l) == l.upstreams \/ l.redirect

\* listenerStructLevelValidation
ListenerValid(l) ==
    /\ Protocol(l) = "https" /\ l.useACME => l.domains # {}
    /\ l.upstreams \/ l.redirect

\* validateDNSProviderCredentials
CredentialsValid(entry) ==
    IF entry.name = "arvancloud"
    THEN "api_key" \in entry.has
    ELSE "api_token" \in entry.has \/ {"auth_email", "auth_key"} \subseteq entry.has

\* validateDNSProviders
ProvidersValid(ps) ==
    /\ ps # <<>>
    /\ \A i \in DOMAIN ps :
         /\ i > 1 => ps[i].match # {}
         /\ \A p \in ps[i].match : WellFormed(p)
         /\ CredentialsValid(ps[i])

\* configStructLevelValidation and the tags
Valid(c) ==
    /\ c.listeners # <<>>
    /\ \A i \in DOMAIN c.listeners : ListenerValid(c.listeners[i])
    /\ (\E i \in DOMAIN c.listeners : c.listeners[i].useACME) => c.email
    /\ \A i \in DOMAIN c.providers : c.providers[i].ttl >= 1
    /\ AcmeDomains(c) # {} => ProvidersValid(c.providers)

\* The shortest TTL that lego's client of the API takes.
MinTTL(name) == IF name = "arvancloud" THEN 600 ELSE 120

\* newDNS01Provider: what the constructors do not refuse.
Builds(entry) ==
    /\ entry.ttl >= MinTTL(entry.name)
    /\ entry.name = "arvancloud" => "api_key" \in entry.has
    /\ entry.name = "cloudflare" /\ "api_token" \notin entry.has
         => {"auth_email", "auth_key"} \subseteq entry.has

\* ServeTLS finds a certificate, or a way to get one.  A listener with passthrough
\* routes asks only during handshakes.
HasCertificate(l) ==
    Protocol(l) = "https" => l.passthrough \/ (l.enabled /\ (l.useACME \/ l.certFiles))

-----------------------------------------------------------------------------
(* Steps                                                                   *)

Fault == faults < MaxFault /\ faults' = faults + 1 /\ failed' = TRUE
Fine  == UNCHANGED <<faults, failed>>

Goto(p) == phase' = p /\ UNCHANGED exit

\* logger.Fatal: the process ends and forgets.
Ends(why) ==
    /\ phase' = "down"
    /\ exit' = why
    /\ key' = 0
    /\ reg' = NoAccount
    /\ UNCHANGED cfg

\* The process is started with a configuration.
Boot(c) ==
    /\ phase = "down"
    /\ phase' = "load"
    /\ exit' = "none"
    /\ failed' = FALSE
    /\ cfg' = c
    /\ UNCHANGED <<key, reg, disk, crashes, faults>>

\* config.Load; without ACME domains there is no manager.
Load ==
    /\ phase = "load"
    /\ \/ ~Valid(cfg) /\ Ends("rejected")
       \/ /\ Valid(cfg)
          /\ Goto(IF AcmeDomains(cfg) = {} THEN "listeners" ELSE "prepare")
          /\ UNCHANGED <<cfg, key, reg>>
    /\ Fine
    /\ UNCHANGED <<disk, crashes>>

\* NewManager before it touches a file: the storage path must not be blank, its
\* directories are made, and socks5_proxy must be a URL.
Prepare ==
    /\ phase = "prepare"
    /\ \/ Fine /\ (cfg.blankStorage \/ cfg.badProxy) /\ Ends("settings")
       \/ Fault /\ ~cfg.blankStorage /\ Ends("storage")
       \/ /\ Fine /\ ~cfg.blankStorage /\ ~cfg.badProxy
          /\ Goto("key")
          /\ UNCHANGED <<cfg, key, reg>>
    /\ UNCHANGED <<disk, crashes>>

\* loadOrCreatePrivateKey reads the file; whatever the reason that there is no key,
\* it makes one, which may fail too.
LoadKey ==
    /\ phase = "key"
    /\ \/ /\ keyFile # 0
          /\ key' = keyFile /\ Goto("user")
          /\ Fine
          /\ UNCHANGED <<cfg, reg, keys, misread>>
       \/ /\ IF keyFile = 0 THEN Fine ELSE Fault
          /\ misread' = (misread \/ keyFile # 0)
          /\ keys' = keys + 1
          /\ key' = keys + 1 /\ Goto("create")
          /\ UNCHANGED <<cfg, reg>>
       \/ /\ Fault /\ Ends("storage")
          /\ UNCHANGED <<keys, misread>>
    /\ UNCHANGED <<keyFile, userFile, accounts, crashes>>

\* Mutant of OpenKey: the file is not emptied.
OpenKeyKept ==
    /\ phase = "create"
    /\ \/ Goto("fill") /\ Fine /\ UNCHANGED <<cfg, key, reg, keyFile>>
       \/ Fault /\ Ends("storage") /\ UNCHANGED keyFile
    /\ UNCHANGED <<userFile, accounts, keys, misread, crashes>>

\* The key file is opened, which empties it.
OpenKey ==
    /\ phase = "create"
    /\ \/ keyFile' = 0 /\ Goto("fill") /\ Fine /\ UNCHANGED <<cfg, key, reg>>
       \/ Fault /\ Ends("storage") /\ UNCHANGED keyFile
    /\ UNCHANGED <<userFile, accounts, keys, misread, crashes>>

\* Mutant of FillKey: a failed write is only logged.
FillKeyLogged ==
    /\ phase = "fill"
    /\ Goto("user")
    /\ \/ keyFile' = key /\ Fine
       \/ Fault /\ UNCHANGED keyFile
    /\ UNCHANGED <<cfg, key, reg, userFile, accounts, keys, misread, crashes>>

\* The new key is written, before it is used.
FillKey ==
    /\ phase = "fill"
    /\ \/ keyFile' = key /\ Goto("user") /\ Fine /\ UNCHANGED <<cfg, key, reg>>
       \/ Fault /\ Ends("storage") /\ UNCHANGED keyFile
    /\ UNCHANGED <<userFile, accounts, keys, misread, crashes>>

\* Mutant of LoadUser: a file without a registration is an error.
LoadUserStrict ==
    /\ phase = "user"
    /\ IF userFile = NoAccount /\ accounts # {}
       THEN Ends("storage")
       ELSE Goto("client") /\ reg' = userFile /\ UNCHANGED <<cfg, key>>
    /\ Fine
    /\ UNCHANGED <<disk, crashes>>

\* loadUser: a file that cannot be read or parsed makes a new user.
LoadUser ==
    /\ phase = "user"
    /\ \/ reg' = userFile /\ Fine
       \/ userFile # NoAccount /\ reg' = NoAccount /\ Fault
    /\ Goto("client")
    /\ UNCHANGED <<cfg, key, disk, crashes>>

\* lego.NewClient asks for the directory; then the providers are built.
NewClient ==
    /\ phase = "client"
    /\ \/ Fault /\ Ends("storage")
       \/ /\ Fine
          /\ IF \A i \in DOMAIN cfg.providers : Builds(cfg.providers[i])
             THEN /\ Goto(IF reg = NoAccount THEN "register" ELSE "listeners")
                  /\ UNCHANGED <<cfg, key, reg>>
             ELSE Ends("provider")
    /\ UNCHANGED <<disk, crashes>>

\* registerUser: the CA answers with the account of the key, which it makes if it
\* has none; the answer may get lost.
Register ==
    /\ phase = "register"
    /\ LET mine == [dir |-> cfg.dir, key |-> key] IN
         \/ /\ accounts' = accounts \union {mine}
            /\ reg' = mine /\ Goto("save")
            /\ Fine
            /\ UNCHANGED <<cfg, key>>
         \/ /\ accounts' \in {accounts, accounts \union {mine}}
            /\ Fault /\ Ends("storage")
    /\ UNCHANGED <<keyFile, userFile, keys, misread, crashes>>

\* saveUser empties user.json and writes it; a failure is only logged.
OpenUser ==
    /\ phase = "save"
    /\ \/ userFile' = NoAccount /\ Goto("write") /\ Fine
       \/ Goto("listeners") /\ Fault /\ UNCHANGED userFile
    /\ UNCHANGED <<cfg, key, reg, keyFile, accounts, keys, misread, crashes>>

FillUser ==
    /\ phase = "write"
    /\ Goto("listeners")
    /\ \/ userFile' = reg /\ Fine
       \/ Fault /\ UNCHANGED userFile
    /\ UNCHANGED <<cfg, key, reg, keyFile, accounts, keys, misread, crashes>>

\* Server.Start, as far as the configuration decides: buildTLSConfig wants the
\* manager, and ListenAndServeTLS a certificate.
StartListeners ==
    /\ phase = "listeners"
    /\ LET ls == {cfg.listeners[i] : i \in DOMAIN cfg.listeners} IN
         IF AcmeDomains(cfg) = {} /\ \E l \in ls : UsesACME(l)
         THEN Ends("manager")
         ELSE IF \E l \in ls : ~HasCertificate(l)
         THEN Ends("certificate")
         ELSE Goto("up") /\ UNCHANGED <<cfg, key, reg>>
    /\ Fine
    /\ UNCHANGED <<disk, crashes>>

\* The operator stops the process.
Quit ==
    /\ phase = "up"
    /\ Ends("none")
    /\ Fine
    /\ UNCHANGED <<disk, crashes>>

\* The process dies on the way up.
Crash ==
    /\ phase \notin {"down", "up"}
    /\ crashes < MaxCrash
    /\ crashes' = crashes + 1
    /\ Ends("died")
    /\ Fine
    /\ UNCHANGED disk

\* The program's own steps.
Own ==
    \/ Load \/ Prepare \/ LoadKey \/ OpenKey \/ FillKey \/ LoadUser \/ NewClient
    \/ Register \/ OpenUser \/ FillUser
    \/ StartListeners

Next == (\E c \in Config : Boot(c)) \/ Own \/ Quit \/ Crash

\* A process that is not killed goes on: its calls of the file system return, and
\* those of the CA have a timeout.  Nothing makes an operator start it.
Spec == Init /\ [][Next]_vars /\ WF_vars(Own)

-----------------------------------------------------------------------------
(* Properties                                                              *)

\* Whatever crashes and failed writes the process met, every account that the CA
\* has made for it is the account of the key on disk, so there is one for each
\* directory; only a key file that could not be read loses accounts.
NoOrphan == ~misread => \A a \in accounts : a.key = keyFile

\* NewManager has returned a manager.
Managed == phase \in {"listeners", "up"} /\ AcmeDomains(cfg) # {}

\* The inductive invariant: beside the types, what the files, the CA and the memory
\* know of each other at every step of NewManager.
IInv ==
    /\ TypeOK
    /\ NoOrphan
    /\ \A a \in accounts : a.key # 0
    /\ userFile # NoAccount => userFile \in accounts
    /\ reg # NoAccount => reg \in accounts
    /\ phase \notin {"down", "load"} => Valid(cfg)
    /\ phase \in {"prepare", "key", "create", "fill", "user", "client", "register", "save", "write"}
         => AcmeDomains(cfg) # {}
    /\ phase = "create" /\ ~misread => keyFile = 0
    /\ phase = "fill" => keyFile = 0
    /\ phase \in {"create", "fill"} => key # 0
    /\ phase \in {"user", "client", "register", "save", "write"} \/ Managed
         => key # 0 /\ key = keyFile
    /\ phase \in {"save", "write"} \/ Managed => reg # NoAccount

\* A manager holds a registration that the CA knows, and it is the registration of
\* the key it signs with.  With directory_url of another CA it is not: user.json
\* is used as it is.
AccountWorks ==
    Managed =>
      /\ reg \in accounts
      /\ ~misread => reg.key = key

\* Nothing in a configuration keeps a process from serving.
Startable(c) ==
    /\ Valid(c)
    /\ AcmeDomains(c) # {} =>
         /\ ~c.blankStorage /\ ~c.badProxy
         /\ \A i \in DOMAIN c.providers : Builds(c.providers[i])
    /\ \A i \in DOMAIN c.listeners : HasCertificate(c.listeners[i])

\* No file that an earlier process left half-written, and no account it left at the
\* CA, spoils a start: with a configuration that can be served a process comes up,
\* unless something fails while it does or it dies.
StartsAgain ==
    phase = "load" /\ Startable(cfg) ~> phase = "up" \/ failed \/ exit = "died"

\* README.md: validation fails "before startup" for want of a DNS provider or its
\* credentials.  What it accepts is never refused by buildTLSConfig for want of the
\* manager, and by the constructors of the providers only for a TTL that is shorter
\* than theirs, which the tag "gte=1" lets through.
AcceptedStarts ==
    /\ exit # "manager"
    /\ exit = "provider" => \E i \in DOMAIN cfg.providers :
                              cfg.providers[i].ttl < MinTTL(cfg.providers[i].name)

\* A name that a CA signs: something, with at most one wildcard label in front.
Signable(d) == Challenged(d) # <<>> /\ ~IsWildcard(Challenged(d))

\* A pattern of the kind that README.md shows: a name, "*", or "*." and a name.
Literal(p) == ToSet(p) \intersect ({"*", "?", "["} \union DOMAIN Class) = {}
Plain(p) == Literal(p) \/ p = <<"*">> \/ (IsWildcard(p) /\ Literal(SubSeq(p, 3, Len(p))))

\* Every name of a listener whose handshakes ask the manager is among those that
\* are checked and renewed, and its challenge, which is on the apex, is answered by
\* an entry whose patterns match the name itself, or by the default.  It is the
\* entry that the name selects if the patterns are plain: others, like "?.x", may
\* match "*.x" and not "x".
ACMECovered ==
    phase = "up" =>
      \A i \in DOMAIN cfg.listeners : UsesACME(cfg.listeners[i]) =>
        /\ cfg.listeners[i].domains # {}
        /\ \A d \in cfg.listeners[i].domains :
             LET e == SelectDNSProvider(cfg.providers, Challenged(d)) IN
               /\ d \in AcmeDomains(cfg)
               /\ e \in DOMAIN cfg.providers
               /\ Signable(d) => e = 1 \/ MatchesDomain(cfg.providers[e], d)
               /\ Signable(d) /\ (\A j \in DOMAIN cfg.providers :
                                    \A p \in cfg.providers[j].match : Plain(p))
                    => e = SelectDNSProvider(cfg.providers, d)
=============================================================================
