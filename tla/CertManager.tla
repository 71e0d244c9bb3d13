---------------------------- MODULE CertManager ----------------------------
(***************************************************************************)
(* acme.Manager: the certificates in memory, the bundle files on disk and  *)
(* the goroutines that call EnsureDomains.                                 *)
(*                                                                         *)
(* A certificate is known by its serial, its position in `issued`, which   *)
(* records what the CA signed; a private key has the serial of the         *)
(* certificate it was generated for, because lego makes a new key for each *)
(* Obtain.  Time is counted in days.  A crash loses the memory and keeps   *)
(* the disk, whatever half-written file it holds.                          *)
(***************************************************************************)
EXTENDS Integers, Sequences

CONSTANTS
    Domain,       \* names a certificate is filed under, lower-cased and trimmed
    WildcardOf,   \* the name "*.<parent>" looked up when a name has no entry
    Rank,         \* position of a domain's bundle file in os.ReadDir's order
    Lists,        \* the domain lists EnsureDomains may be called with
    Caller,       \* goroutines that call EnsureDomains
    None,         \* no entry, no file, no list
    Torn,         \* a file whose bytes do not parse
    Lifetime,     \* days from issue to NotAfter, chosen by the CA
    RenewBefore,  \* cfg.RenewBeforeDays
    MaxDay,       \* bound: last day of the clock
    MaxCrash,     \* bound: number of crashes
    MaxFault      \* bound: failed disk writes and unusable bundles

ASSUME ListsAssumption ==
    \A l \in Lists : l \in [primary : Domain, names : SUBSET Domain]
                     /\ l.primary \in l.names

ASSUME DaysAssumption ==
    /\ Lifetime \in Nat /\ RenewBefore \in Nat
    /\ MaxDay \in Nat /\ MaxCrash \in Nat /\ MaxFault \in Nat

ASSUME NoneAssumption ==
    /\ None \notin Int /\ Torn \notin Int /\ None # Torn
    /\ None \notin Caller /\ None \notin Lists

ASSUME NamesAssumption ==
    /\ WildcardOf \in [Domain -> Domain \union {None}]
    /\ Rank \in [Domain -> Nat]
    /\ \A S \in SUBSET Domain :
         S # {} => \E last \in S : \A b \in S : Rank[b] <= Rank[last]

VARIABLES
    now,        \* the day
    issued,     \* what the CA signed, in order
    crtFile,    \* <storage>/certs/<domain>.crt
    keyFile,    \* <storage>/certs/<domain>.key
    up,         \* the process runs
    certs,      \* Manager.certs: domain -> serial
    certMeta,   \* Manager.certMeta: domain -> day of expiry
    obtainMu,   \* the holder of Manager.obtainMu
    pc,         \* where each caller is in EnsureDomains / obtainCertificate
    want,       \* the list each caller was called with
    draft,      \* the bundle each caller got from the CA and has not installed
    crashes,    \* crashes so far
    faults      \* failed writes and unusable bundles so far

disk  == <<crtFile, keyFile>>
mem   == <<certs, certMeta>>
calls == <<obtainMu, pc, want, draft>>
vars  == <<now, issued, disk, up, mem, calls, crashes, faults>>

Serial == 1..Len(issued)
Bundle == [names : SUBSET Domain, exp : Nat, good : BOOLEAN]

PC == {"idle", "locking", "rechecking", "obtaining",
       "openCrt", "fillCrt", "openKey", "fillKey", "install"}

\* The program counters between obtainMu.Lock() and the deferred Unlock().
Holding == PC \ {"idle", "locking"}

TypeOK ==
    /\ now \in Nat
    /\ issued \in Seq(Bundle)
    /\ crtFile \in [Domain -> Serial \union {None, Torn}]
    /\ keyFile \in [Domain -> Serial \union {None, Torn}]
    /\ up \in BOOLEAN
    /\ certs \in [Domain -> Serial \union {None}]
    /\ certMeta \in [Domain -> Nat \union {None}]
    /\ obtainMu \in Caller \union {None}
    /\ pc \in [Caller -> PC]
    /\ want \in [Caller -> Lists \union {None}]
    /\ draft \in [Caller -> Serial \union {None}]
    /\ crashes \in Nat
    /\ faults \in Nat

Init ==
    /\ now = 0
    /\ issued = << >>
    /\ crtFile = [d \in Domain |-> None]
    /\ keyFile = [d \in Domain |-> None]
    /\ up = FALSE
    /\ certs = [d \in Domain |-> None]
    /\ certMeta = [d \in Domain |-> None]
    /\ obtainMu = None
    /\ pc = [c \in Caller |-> "idle"]
    /\ want = [c \in Caller |-> None]
    /\ draft = [c \in Caller |-> None]
    /\ crashes = 0
    /\ faults = 0

-----------------------------------------------------------------------------
(* Lookups                                                                 *)

\* Mutant of Needs: the renewal window is forgotten.
NeedsExpired(d) == certMeta[d] # None => certMeta[d] <= now

\* The renewal test of EnsureDomains, repeated in obtainCertificate: no expiry is
\* recorded for the domain, or too few days are left.
Needs(d) == certMeta[d] # None => certMeta[d] - now < RenewBefore

NeedsAny(l) == \E d \in l.names : Needs(d)

\* GetCertificate for a name: the exact entry, then the wildcard entry of the
\* parent, then an error (None).
GetCertificate(host) ==
    IF certs[host] # None \/ WildcardOf[host] = None
    THEN certs[host]
    ELSE certs[WildcardOf[host]]

\* tls.LoadX509KeyPair accepts the bundle filed under b.
Loadable(b) ==
    /\ crtFile[b] \in Serial
    /\ keyFile[b] = crtFile[b]
    /\ issued[crtFile[b]].good

\* The files from which loadCertificatesFromDisk takes an entry for d; each one
\* overwrites the entry of those before it in directory order.
FilesFor(d) == {b \in Domain : Loadable(b) /\ d \in issued[crtFile[b]].names}

LastFile(S) == CHOOSE b \in S : \A x \in S : Rank[x] <= Rank[b]

-----------------------------------------------------------------------------
(* The process and its surroundings                                        *)

NextDay ==
    /\ now < MaxDay
    /\ now' = now + 1
    /\ UNCHANGED <<issued, disk, up, mem, calls, crashes, faults>>

\* The process dies; only the files survive.
Crash ==
    /\ up
    /\ crashes < MaxCrash
    /\ up' = FALSE
    /\ crashes' = crashes + 1
    /\ certs' = [d \in Domain |-> None]
    /\ certMeta' = [d \in Domain |-> None]
    /\ obtainMu' = None
    /\ pc' = [c \in Caller |-> "idle"]
    /\ want' = [c \in Caller |-> None]
    /\ draft' = [c \in Caller |-> None]
    /\ UNCHANGED <<now, issued, disk, faults>>

\* Mutant of NewManager: the expiry of what is loaded is not recorded.
NewManagerNoMeta ==
    /\ ~up
    /\ up' = TRUE
    /\ certs' = [d \in Domain |->
                   IF FilesFor(d) = {} THEN None
                   ELSE crtFile[LastFile(FilesFor(d))]]
    /\ UNCHANGED <<now, issued, disk, certMeta, calls, crashes, faults>>

\* NewManager: empty maps, the ACME client and account, then
\* loadCertificatesFromDisk.  When the client or the account fails, runServer
\* exits: the process stays down and no certificate has changed.
NewManager ==
    /\ ~up
    /\ up' = TRUE
    /\ certs' = [d \in Domain |->
                   IF FilesFor(d) = {} THEN None
                   ELSE crtFile[LastFile(FilesFor(d))]]
    /\ certMeta' = [d \in Domain |->
                      IF FilesFor(d) = {} THEN None
                      ELSE issued[crtFile[LastFile(FilesFor(d))]].exp]
    /\ UNCHANGED <<now, issued, disk, calls, crashes, faults>>

-----------------------------------------------------------------------------
(* EnsureDomains and obtainCertificate                                     *)

Goto(c, label) == pc' = [pc EXCEPT ![c] = label]

\* Mutant of Return: a path without the Unlock.
ReturnLocked(c) ==
    /\ UNCHANGED obtainMu
    /\ draft' = [draft EXCEPT ![c] = None]
    /\ want' = [want EXCEPT ![c] = None]
    /\ Goto(c, "idle")

\* Any return from obtainCertificate: the deferred Unlock, then EnsureDomains
\* returns too.
Return(c) ==
    /\ obtainMu' = None
    /\ draft' = [draft EXCEPT ![c] = None]
    /\ want' = [want EXCEPT ![c] = None]
    /\ Goto(c, "idle")

\* EnsureDomains reads certMeta under the read lock and goes on to
\* obtainCertificate only if some domain is missing or expiring; otherwise it
\* returns nil and nothing changes.
EnsureDomains(c, l) ==
    /\ up
    /\ pc[c] = "idle"
    /\ NeedsAny(l)
    /\ want' = [want EXCEPT ![c] = l]
    /\ Goto(c, "locking")
    /\ UNCHANGED <<now, issued, disk, up, mem, obtainMu, draft, crashes, faults>>

\* Mutant of LockObtain: callers do not wait for each other.
LockObtainShared(c) ==
    /\ pc[c] = "locking"
    /\ obtainMu' = c
    /\ Goto(c, "rechecking")
    /\ UNCHANGED <<now, issued, disk, up, mem, want, draft, crashes, faults>>

\* obtainMu.Lock().
LockObtain(c) ==
    /\ pc[c] = "locking"
    /\ obtainMu = None
    /\ obtainMu' = c
    /\ Goto(c, "rechecking")
    /\ UNCHANGED <<now, issued, disk, up, mem, want, draft, crashes, faults>>

\* Mutant of Recheck: no second look after the lock is taken.
RecheckNothing(c) ==
    /\ pc[c] = "rechecking"
    /\ Goto(c, "obtaining")
    /\ UNCHANGED <<now, issued, disk, up, mem, obtainMu, want, draft, crashes,
                   faults>>

\* What EnsureDomains found may be settled by now: the test is repeated.
Recheck(c) ==
    /\ pc[c] = "rechecking"
    /\ \/ /\ NeedsAny(want[c])
          /\ Goto(c, "obtaining")
          /\ UNCHANGED <<obtainMu, want, draft>>
       \/ /\ ~NeedsAny(want[c])
          /\ Return(c)
    /\ UNCHANGED <<now, issued, disk, up, mem, crashes, faults>>

\* lego returns a bundle for the whole list.  An unusable one (X509KeyPair
\* will reject it) counts as a fault.
ObtainOK(c) ==
    /\ pc[c] = "obtaining"
    /\ \E good \in BOOLEAN :
         /\ good \/ faults < MaxFault
         /\ issued' = Append(issued, [names |-> want[c].names,
                                      exp |-> now + Lifetime, good |-> good])
         /\ faults' = IF good THEN faults ELSE faults + 1
    /\ draft' = [draft EXCEPT ![c] = Len(issued) + 1]
    /\ Goto(c, "openCrt")
    /\ UNCHANGED <<now, disk, up, mem, obtainMu, want, crashes>>

\* The CA, the DNS provider or the network fails: the error is logged and the
\* next check starts over.
ObtainFail(c) ==
    /\ pc[c] = "obtaining"
    /\ Return(c)
    /\ UNCHANGED <<now, issued, disk, up, mem, crashes, faults>>

\* os.WriteFile opens with O_TRUNC and then writes: between the two, and for
\* good when the write fails, the file does not parse.
OpenCrt(c) ==
    /\ pc[c] = "openCrt"
    /\ crtFile' = [crtFile EXCEPT ![want[c].primary] = Torn]
    /\ Goto(c, "fillCrt")
    /\ UNCHANGED <<now, issued, keyFile, up, mem, obtainMu, want, draft,
                   crashes, faults>>

FillCrt(c) ==
    /\ pc[c] = "fillCrt"
    /\ crtFile' = [crtFile EXCEPT ![want[c].primary] = draft[c]]
    /\ Goto(c, "openKey")
    /\ UNCHANGED <<now, issued, keyFile, up, mem, obtainMu, want, draft,
                   crashes, faults>>

OpenKey(c) ==
    /\ pc[c] = "openKey"
    /\ keyFile' = [keyFile EXCEPT ![want[c].primary] = Torn]
    /\ Goto(c, "fillKey")
    /\ UNCHANGED <<now, issued, crtFile, up, mem, obtainMu, want, draft,
                   crashes, faults>>

FillKey(c) ==
    /\ pc[c] = "fillKey"
    /\ keyFile' = [keyFile EXCEPT ![want[c].primary] = draft[c]]
    /\ Goto(c, "install")
    /\ UNCHANGED <<now, issued, crtFile, up, mem, obtainMu, want, draft,
                   crashes, faults>>

\* Mutant of WriteFails: the error of the write is only logged.
WriteFailsLogged(c) ==
    /\ pc[c] \in {"openCrt", "fillCrt", "openKey", "fillKey"}
    /\ faults < MaxFault
    /\ faults' = faults + 1
    /\ Goto(c, "install")
    /\ UNCHANGED <<now, issued, disk, up, mem, obtainMu, want, draft, crashes>>

\* Either write fails, at the open or half-way: the error is returned and the
\* file stays as the step before left it.
WriteFails(c) ==
    /\ pc[c] \in {"openCrt", "fillCrt", "openKey", "fillKey"}
    /\ faults < MaxFault
    /\ faults' = faults + 1
    /\ Return(c)
    /\ UNCHANGED <<now, issued, disk, up, mem, crashes>>

\* Mutant of Install: the result of X509KeyPair is not looked at.
InstallUnparsed(c) ==
    /\ pc[c] = "install"
    /\ certs' = [d \in Domain |->
                   IF d \in want[c].names THEN draft[c] ELSE certs[d]]
    /\ certMeta' = [d \in Domain |->
                      IF d \in want[c].names THEN issued[draft[c]].exp
                      ELSE certMeta[d]]
    /\ Return(c)
    /\ UNCHANGED <<now, issued, disk, up, crashes, faults>>

\* Mutant of Install: the expiry stays the zero time, a day before all others.
InstallZeroTime(c) ==
    /\ pc[c] = "install"
    /\ certs' = [d \in Domain |->
                   IF d \in want[c].names THEN draft[c] ELSE certs[d]]
    /\ certMeta' = [d \in Domain |->
                      IF d \in want[c].names THEN -1 ELSE certMeta[d]]
    /\ Return(c)
    /\ UNCHANGED <<now, issued, disk, up, crashes, faults>>

\* tls.X509KeyPair accepts the bundle and, under the write lock, every domain
\* of the list gets it; a bundle it rejects is never installed.
Install(c) ==
    /\ pc[c] = "install"
    /\ \/ /\ issued[draft[c]].good
          /\ certs' = [d \in Domain |->
                         IF d \in want[c].names THEN draft[c] ELSE certs[d]]
          /\ certMeta' = [d \in Domain |->
                            IF d \in want[c].names THEN issued[draft[c]].exp
                            ELSE certMeta[d]]
       \/ /\ ~issued[draft[c]].good
          /\ UNCHANGED mem
    /\ Return(c)
    /\ UNCHANGED <<now, issued, disk, up, crashes, faults>>

Step(c) ==
    \/ LockObtain(c) \/ Recheck(c) \/ ObtainOK(c) \/ ObtainFail(c)
    \/ OpenCrt(c) \/ FillCrt(c) \/ OpenKey(c) \/ FillKey(c)
    \/ WriteFails(c) \/ Install(c)

Next ==
    \/ NextDay \/ Crash \/ NewManager
    \/ \E c \in Caller : Step(c) \/ \E l \in Lists : EnsureDomains(c, l)

Spec == Init /\ [][Next]_vars

-----------------------------------------------------------------------------
(* Properties                                                              *)

\* What obtainMu is for ("Mutex to prevent duplicate concurrent obtain
\* requests"): whenever the CA signs, the caller that asked still sees a domain
\* of its list missing or expiring, though other callers renewed the same
\* domains since it first looked.
IssueOnlyIfNeeded ==
    [][issued' # issued =>
         \E c \in Caller : pc[c] = "obtaining" /\ NeedsAny(want[c])]_vars

\* A certificate that GetCertificate starts to return, by a renewal or at
\* startup, is by then a key pair that a restart would load.
DurableBeforeServed ==
    [][\A d \in Domain :
         certs'[d] \notin {None, certs[d]} =>
            \E b \in Domain : crtFile'[b] = certs'[d] /\ Loadable(b)']_vars

\* A running process never loses a domain's certificate and never replaces it
\* by one that expires earlier, in whatever order the callers finish.
NoDowngrade ==
    [][up /\ up' => \A d \in Domain :
         certMeta[d] # None =>
            certMeta'[d] # None /\ certMeta'[d] >= certMeta[d]]_vars

\* Every entry in memory is a usable certificate that names its domain, and
\* the expiry that the renewal check reads is the one of that certificate.
MemoryMatchesCertificates ==
    \A d \in Domain :
      /\ (certs[d] = None) <=> (certMeta[d] = None)
      /\ certs[d] # None =>
            /\ issued[certs[d]].good
            /\ d \in issued[certs[d]].names
            /\ certMeta[d] = issued[certs[d]].exp

\* Without a crash or a failed write, the files of a bundle match whenever
\* nobody holds obtainMu: two callers never mix their certificate and key.
PairsWhole ==
    crashes = 0 /\ faults = 0 /\ obtainMu = None =>
       \A b \in Domain : crtFile[b] # None \/ keyFile[b] # None => Loadable(b)

\* The rate limits of a CA: while nothing crashes or fails, requests for the same
\* names, or for some of them, are more than Lifetime - RenewBefore days apart,
\* whichever callers make them.
RequestsSpaced ==
    crashes = 0 /\ faults = 0 =>
       \A i, j \in Serial : i < j /\ issued[j].names \subseteq issued[i].names =>
          issued[j].exp - issued[i].exp > Lifetime - RenewBefore

-----------------------------------------------------------------------------
(* The inductive invariant behind them                                     *)

\* Who is between Lock and Unlock holds the lock.
LockInv == \A c \in Caller : (pc[c] \in Holding) <=> (obtainMu = c)

\* What a caller carries at each point of obtainCertificate.
CallInv ==
    \A c \in Caller :
      /\ pc[c] # "idle" => up /\ want[c] \in Lists
      /\ pc[c] = "obtaining" => NeedsAny(want[c])
      /\ (pc[c] \in {"openCrt", "fillCrt", "openKey", "fillKey", "install"}) <=>
            (draft[c] # None)
      /\ draft[c] # None => issued[draft[c]].names = want[c].names

\* What the steps before have written for the caller that holds the lock.
WriteInv ==
    \A c \in Caller :
      LET b == IF pc[c] = "idle" THEN None ELSE want[c].primary IN
      /\ pc[c] \in {"openKey", "fillKey", "install"} => crtFile[b] = draft[c]
      /\ pc[c] = "install" => keyFile[b] = draft[c]

\* The order in which the CA signs is the order in which bundles expire.
OrderInv ==
    /\ \A i, j \in Serial : i <= j => issued[i].exp <= issued[j].exp
    /\ \A i \in Serial : issued[i].exp <= now + Lifetime

\* The draft of the lock's holder is the last bundle signed, so nothing in
\* memory or on disk outlives it.
DraftInv == \A c \in Caller : draft[c] # None => draft[c] = Len(issued)

\* Without a crash or a failure only the files that a caller is writing are not
\* whole: PairsWhole at every step.
WholeInv ==
    crashes = 0 /\ faults = 0 =>
      /\ \A i \in Serial : issued[i].good
      /\ \A b \in Domain :
           \/ \E c \in Caller : pc[c] \in {"fillCrt", "openKey", "fillKey"} /\ want[c].primary = b
           \/ crtFile[b] = None /\ keyFile[b] = None
           \/ Loadable(b)

IInv ==
    /\ TypeOK
    /\ LockInv
    /\ CallInv
    /\ WriteInv
    /\ OrderInv
    /\ DraftInv
    /\ MemoryMatchesCertificates
=============================================================================
