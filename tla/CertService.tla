---------------------------- MODULE CertService ----------------------------
(***************************************************************************)
(* The certificate life cycle of the running program: cmd.runServer builds *)
(* the Manager for the domains of the configuration, ensures them once     *)
(* before the listeners start, and starts the renewal daemon, whose ticker *)
(* calls EnsureDomains again.  One goroutine makes all these calls.  The   *)
(* operator may edit the configuration between two runs of the process.    *)
(***************************************************************************)
EXTENDS CertManager

CONSTANTS
    Main,       \* the goroutine that ensures the domains: main, then the daemon
    Interval    \* cfg.CheckIntervalHours, in days

ASSUME ServiceAssumption == Main \in Caller /\ Interval \in Nat \ {0}

VARIABLES
    phase,      \* where runServer is
    config,     \* Config.acmeDomains() of this run of the process
    nextTick,   \* the day the ticker fires next
    missed      \* history: failed checks since the last success, up to Tolerance

service == <<phase, config, nextTick, missed>>
svars   == <<vars, service>>

\* How many checks fall in the renewal window of a certificate.
Tolerance == RenewBefore \div Interval

Phase == {"down", "boot", "ensuring", "serving"}

ServiceTypeOK ==
    /\ TypeOK
    /\ phase \in Phase
    /\ config \in Lists \union {None}
    /\ nextTick \in Nat
    /\ missed \in 0..Tolerance

ServiceInit ==
    /\ Init
    /\ phase = "down"
    /\ config = None
    /\ nextTick = 0
    /\ missed = 0

\* The ticker's channel holds a tick.  On the last day of the model it always
\* does, so that checks go on for ever.
TickDue == phase = "serving" /\ (now >= nextTick \/ now = MaxDay)

Idle == pc[Main] = "idle"

-----------------------------------------------------------------------------
\* A day passes.  A check is assumed to end on the day it begins.
Day ==
    /\ Idle
    /\ phase \in {"down", "serving"}
    /\ ~TickDue
    /\ NextDay
    /\ UNCHANGED service

\* runServer up to NewManager, with whatever configuration it finds.
Boot(l) ==
    /\ phase = "down"
    /\ NewManager
    /\ phase' = "boot"
    /\ config' = l
    /\ missed' = Tolerance
    /\ UNCHANGED nextTick

\* One call of EnsureDomains by Main, up to the decision to renew.
Check ==
    \/ /\ EnsureDomains(Main, config)
       /\ UNCHANGED missed
    \/ /\ ~NeedsAny(config)
       /\ missed' = 0
       /\ UNCHANGED vars

\* The call at boot; the listeners wait for it.
BootCheck ==
    /\ phase = "boot"
    /\ Check
    /\ phase' = "ensuring"
    /\ UNCHANGED <<config, nextTick>>

\* It returned, with an error or without: StartRenewalDaemon, Server.Start.
Serve ==
    /\ phase = "ensuring"
    /\ Idle
    /\ phase' = "serving"
    /\ nextTick' = now + Interval
    /\ UNCHANGED <<vars, config, missed>>

\* Mutant of Tick: the daemon's loop returns on the first error.
TickUntilError ==
    /\ TickDue
    /\ Idle
    /\ missed = 0
    /\ Check
    /\ nextTick' = now + Interval
    /\ UNCHANGED <<phase, config>>

\* The daemon receives a tick.  An error of the check is logged and the loop
\* goes on.
Tick ==
    /\ TickDue
    /\ Idle
    /\ Check
    /\ nextTick' = now + Interval
    /\ UNCHANGED <<phase, config>>

\* A call in progress goes on.
Continue ==
    /\ Step(Main)
    /\ UNCHANGED <<phase, config, nextTick>>
    /\ missed' = IF pc'[Main] # "idle" THEN missed
                 ELSE IF ~NeedsAny(config)' THEN 0
                 ELSE IF missed < Tolerance THEN missed + 1 ELSE missed

Die ==
    /\ Crash
    /\ phase' = "down"
    /\ config' = None
    /\ nextTick' = 0
    /\ missed' = 0

ServiceNext ==
    \/ Day \/ BootCheck \/ Serve \/ Tick \/ Continue \/ Die
    \/ \E l \in Lists : Boot(l)

\* lego answers with a usable bundle.
CAAnswers == Continue /\ ObtainOK(Main) /\ UNCHANGED faults

\* The scheduler runs the process, a supervisor restarts it, days go by, and a
\* CA asked again and again answers in the end.
Fairness ==
    /\ WF_svars(Day)
    /\ WF_svars(\E l \in Lists : Boot(l))
    /\ WF_svars(BootCheck)
    /\ WF_svars(Serve)
    /\ WF_svars(Tick)
    /\ WF_svars(Continue)
    /\ SF_svars(CAAnswers)

ServiceSpec == ServiceInit /\ [][ServiceNext]_svars /\ Fairness

-----------------------------------------------------------------------------
(* Properties                                                              *)

InDate(d) == certs[d] # None /\ now < issued[certs[d]].exp

Settled == phase = "serving" /\ Idle /\ ~TickDue

\* The renewal window absorbs failures: a configured domain goes without a
\* certificate in date only after every check of a whole window has failed.
GraceHolds ==
    Settled /\ missed < Tolerance => \A d \in config.names : InDate(d)

\* A bundle is requested only while none on disk holds exactly these domains
\* with more than the renewal window left: neither a crash between the writes
\* and the install nor a restart makes the program ask the CA again.
DiskSparesTheCA ==
    [][issued' # issued =>
         ~\E b \in Domain :
            /\ Loadable(b)
            /\ issued[crtFile[b]].names = config.names
            /\ issued[crtFile[b]].exp - now >= RenewBefore]_svars

\* In a settled service whose last check succeeded, a crash now and a restart
\* with the same configuration find every configured domain on disk.
RestartFindsCertificates ==
    Settled /\ missed = 0 =>
       \A d \in config.names :
          FilesFor(d) # {} /\ crtFile[LastFile(FilesFor(d))] = certs[d]

\* After any crashes, failed writes, bad bundles and refusals of the CA, the
\* program comes back to serving certificates that need no renewal.
KeepsRenewing == []<>(phase = "serving" /\ ~NeedsAny(config))

\* README.md, "Background Renewal Daemon": every certificate that handshakes
\* get is renewed, so while checks succeed none is served past its expiry.
ServedCertsAreRenewed ==
    Settled /\ missed = 0 =>
       \A h \in Domain : GetCertificate(h) # None =>
                            now < issued[GetCertificate(h)].exp

-----------------------------------------------------------------------------
(* The inductive invariant behind the safety properties                    *)

\* The calls are made by a running process, with its configuration, on a day on
\* which it needs them.
CallsInv ==
    /\ up <=> phase # "down"
    /\ phase # "down" => config \in Lists
    /\ ~Idle => phase \in {"ensuring", "serving"} /\ want[Main] = config /\ NeedsAny(config)

\* A file holds a bundle for a list that is filed there; while one is replaced,
\* what is there is no pair.
FileInv ==
    /\ \A b \in Domain : crtFile[b] \in Serial =>
         \E l \in Lists : l.primary = b /\ l.names = issued[crtFile[b]].names
    /\ pc[Main] \in {"openCrt", "fillCrt"} => \A b \in Domain : keyFile[b] # draft[Main]
    /\ pc[Main] \in {"fillCrt", "openKey", "fillKey"} => ~Loadable(want[Main].primary)

\* What the configured domains have at least left after the k-th failed check.
Left(k) == RenewBefore - k * Interval

\* What is left when the next tick is due, of what the last success found, shrinks
\* by an interval with every failed check.
GraceInv ==
    /\ phase = "serving" => now <= nextTick
    /\ phase = "serving" /\ ~Idle => nextTick = now + Interval
    /\ phase = "boot" \/ (phase = "ensuring" /\ ~Idle) => missed = Tolerance
    /\ phase = "ensuring" /\ missed < Tolerance =>
         \A d \in config.names : certMeta[d] # None /\ certMeta[d] - now >= RenewBefore
    /\ phase = "serving" /\ missed < Tolerance =>
         \A d \in config.names :
           certMeta[d] # None
           /\ certMeta[d] - nextTick >= Left(IF Idle THEN missed + 1 ELSE missed + 2)

\* No name is in two lists.  (With overlapping lists an older bundle may be read
\* after the newer one.)
ListsApart == \A l, m \in Lists : l = m \/ l.names \cap m.names = {}

\* The bundle of the configuration is on disk and in memory, or needs renewal.
SavedInv ==
    phase # "down" =>
      /\ Loadable(config.primary) /\ pc[Main] # "install" =>
           \A d \in config.names : certs[d] = crtFile[config.primary]
      /\ Loadable(config.primary) \/ NeedsAny(config)
      /\ missed = 0 /\ Idle => Loadable(config.primary)

ServiceInv ==
    /\ ServiceTypeOK
    /\ IInv
    /\ CallsInv
    /\ FileInv
    /\ GraceInv
    /\ ListsApart /\ Tolerance > 0 => SavedInv
=============================================================================
