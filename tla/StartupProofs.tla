--------------------------- MODULE StartupProofs ---------------------------
(* What module Startup claims of files, accounts and configurations, for any *)
(* set of configurations and any number of crashes and faults.               *)
EXTENDS Startup, NaturalOrder, SequenceTheorems

\* A counter of failures stays within its bound.
LEMMA FaultStep ==
    ASSUME TypeOK, Fault \/ Fine
    PROVE  faults' \in 0..MaxFault /\ failed' \in BOOLEAN
<1>1. faults \in 0..MaxFault /\ MaxFault \in Nat /\ failed \in BOOLEAN
    BY StartupAssumption DEF TypeOK
<1>2. CASE Fault
  <2>1. faults' \in 0..MaxFault
      BY <1>1, <1>2 DEF Fault
  <2>2. failed' \in BOOLEAN
      BY <1>2 DEF Fault
  <2> QED
      BY <2>1, <2>2
<1>3. CASE Fine
    BY <1>1, <1>3 DEF Fine
<1> QED
    BY <1>2, <1>3

LEMMA NoAccountIsNone == NoAccount \notin Account /\ NoAccount.key = 0
BY StartupAssumption DEF NoAccount, Account

\* The end of a process leaves the disk and the CA in order.
LEMMA EndKeeps ==
    ASSUME IInv, NEW why \in {"none", "rejected", "settings", "storage", "provider", "manager",
                            "certificate"},
           Ends(why), Fault \/ Fine, UNCHANGED <<disk, crashes>>
    PROVE  IInv'
<1>1. TypeOK'
    BY FaultStep DEF IInv, TypeOK, Ends, disk
<1> QED
    BY <1>1 DEF IInv, Managed, NoOrphan, Ends, disk

LEMMA LoadStep == ASSUME IInv, Load PROVE IInv'
<1>1. CASE ~Valid(cfg) /\ Ends("rejected")
    BY <1>1, EndKeeps DEF Load
<1>2. CASE Valid(cfg) /\ Goto(IF AcmeDomains(cfg) = {} THEN "listeners" ELSE "prepare")
           /\ UNCHANGED <<cfg, key, reg>>
  <2>1. TypeOK'
      BY <1>2, FaultStep DEF IInv, TypeOK, Load, Goto, disk
  <2> QED
      BY <1>2, <2>1 DEF IInv, Managed, NoOrphan, Load, Goto, disk
<1> QED
    BY <1>1, <1>2 DEF Load

LEMMA PrepareStep == ASSUME IInv, Prepare PROVE IInv'
<1>1. CASE Fine /\ Ends("settings")
    BY <1>1, EndKeeps DEF Prepare
<1>2. CASE Fault /\ Ends("storage")
    BY <1>2, EndKeeps DEF Prepare
<1>3. CASE Fine /\ Goto("key") /\ UNCHANGED <<cfg, key, reg>>
  <2>1. TypeOK'
      BY <1>3, FaultStep DEF IInv, TypeOK, Prepare, Goto, disk
  <2> QED
      BY <1>3, <2>1 DEF IInv, Managed, NoOrphan, Prepare, Goto, disk
<1> QED
    BY <1>1, <1>2, <1>3 DEF Prepare

LEMMA LoadKeyStep == ASSUME IInv, LoadKey PROVE IInv'
<1> USE DEF LoadKey
<1>1. CASE keyFile # 0 /\ key' = keyFile /\ Goto("user") /\ Fine
           /\ UNCHANGED <<cfg, reg, keys, misread>>
  <2>1. TypeOK'
      BY <1>1, FaultStep DEF IInv, TypeOK, Goto
  <2> QED
      BY <1>1, <2>1 DEF IInv, Managed, NoOrphan, Goto
<1>2. CASE /\ IF keyFile = 0 THEN Fine ELSE Fault
           /\ misread' = (misread \/ keyFile # 0)
           /\ keys' = keys + 1
           /\ key' = keys + 1 /\ Goto("create")
           /\ UNCHANGED <<cfg, reg>>
  <2>1. misread' \in BOOLEAN /\ (~misread' => keyFile = 0 /\ ~misread)
      BY <1>2 DEF IInv, TypeOK
  <2>2. keys' \in Nat /\ key' \in 0..keys' /\ keyFile' \in 0..keys' /\ key' # 0
      BY <1>2 DEF IInv, TypeOK
  <2>3. TypeOK'
      BY <1>2, <2>1, <2>2, FaultStep DEF IInv, TypeOK, Goto
  <2> QED
      BY <1>2, <2>1, <2>2, <2>3 DEF IInv, Managed, NoOrphan, Goto
<1>3. CASE Fault /\ Ends("storage") /\ UNCHANGED <<keys, misread>>
    BY <1>3, EndKeeps DEF disk
<1> QED
    BY <1>1, <1>2, <1>3

LEMMA OpenKeyStep == ASSUME IInv, OpenKey PROVE IInv'
<1> USE DEF OpenKey
<1>1. CASE keyFile' = 0 /\ Goto("fill") /\ Fine /\ UNCHANGED <<cfg, key, reg>>
  <2>1. TypeOK'
      BY <1>1, FaultStep DEF IInv, TypeOK, Goto
  <2> QED
      BY <1>1, <2>1 DEF IInv, Managed, NoOrphan, Goto
<1>2. CASE Fault /\ Ends("storage") /\ UNCHANGED keyFile
    BY <1>2, EndKeeps DEF disk
<1> QED
    BY <1>1, <1>2

\* Before a key is written nothing is registered, unless an earlier one was lost.
LEMMA FillKeyStep == ASSUME IInv, FillKey PROVE IInv'
<1> USE DEF FillKey
<1>1. CASE keyFile' = key /\ Goto("user") /\ Fine /\ UNCHANGED <<cfg, key, reg>>
  <2>1. TypeOK'
      BY <1>1, FaultStep DEF IInv, TypeOK, Goto
  <2>2. ~misread => accounts = {}
      BY DEF IInv, Managed, NoOrphan
  <2> QED
      BY <1>1, <2>1, <2>2 DEF IInv, Managed, NoOrphan, Goto
<1>2. CASE Fault /\ Ends("storage") /\ UNCHANGED keyFile
    BY <1>2, EndKeeps DEF disk
<1> QED
    BY <1>1, <1>2

LEMMA LoadUserStep == ASSUME IInv, LoadUser PROVE IInv'
<1>1. TypeOK'
    BY FaultStep DEF LoadUser, IInv, TypeOK, Goto, disk
<1> QED
    BY <1>1 DEF LoadUser, IInv, Managed, NoOrphan, Goto, disk

\* What validation has accepted is built, unless its TTL is too short.
LEMMA AcceptedBuilds ==
    ASSUME Valid(cfg), AcmeDomains(cfg) # {}, NEW i \in DOMAIN cfg.providers,
           cfg.providers[i].ttl >= MinTTL(cfg.providers[i].name)
    PROVE  Builds(cfg.providers[i])
BY DEF Valid, ProvidersValid, CredentialsValid, Builds

\* An entry of the configuration has a TTL below that of its API's client.
LEMMA ShortTTL ==
    ASSUME IInv, phase = "client", ~\A i \in DOMAIN cfg.providers : Builds(cfg.providers[i])
    PROVE  \E i \in DOMAIN cfg.providers : cfg.providers[i].ttl < MinTTL(cfg.providers[i].name)
<1>1. PICK i \in DOMAIN cfg.providers : ~Builds(cfg.providers[i])
    OBVIOUS
<1>2. ~(cfg.providers[i].ttl >= MinTTL(cfg.providers[i].name))
    BY <1>1, AcceptedBuilds DEF IInv
<1>3. cfg.providers[i].ttl \in Nat /\ MinTTL(cfg.providers[i].name) \in Nat
  <2>1. cfg.providers \in Seq(Provider)
      BY ConfigAssumption DEF IInv, TypeOK
  <2>2. cfg.providers[i] \in Provider
      BY <2>1
  <2> QED
      BY <2>2 DEF Provider, MinTTL
<1> QED
    BY <1>2, <1>3

LEMMA NewClientStep ==
    ASSUME IInv, NewClient, AcceptedStarts
    PROVE  IInv' /\ AcceptedStarts'
<1> USE DEF NewClient
<1>1. CASE Fault /\ Ends("storage")
  <2>1. exit' = "storage"
      BY <1>1 DEF Ends
  <2> QED
      BY <1>1, <2>1, EndKeeps DEF AcceptedStarts
<1>2. CASE Fine /\ Ends("provider") /\ ~\A i \in DOMAIN cfg.providers : Builds(cfg.providers[i])
  <2>1. IInv'
      BY <1>2, EndKeeps
  <2>2. exit' = "provider" /\ cfg' = cfg
      BY <1>2 DEF Ends
  <2> QED
      BY <1>2, <2>1, <2>2, ShortTTL DEF AcceptedStarts
<1>3. CASE /\ Fine
           /\ Goto(IF reg = NoAccount THEN "register" ELSE "listeners")
           /\ UNCHANGED <<cfg, key, reg>>
  <2>1. TypeOK'
      BY <1>3, FaultStep DEF IInv, TypeOK, Goto, disk
  <2>2. /\ phase = "client" /\ UNCHANGED <<disk, cfg, key, reg>>
        /\ phase' = (IF reg = NoAccount THEN "register" ELSE "listeners") /\ exit' = exit
      BY <1>3 DEF Goto
  <2>3. CASE reg = NoAccount
      BY <2>1, <2>2, <2>3 DEF IInv, Managed, NoOrphan, disk, AcceptedStarts
  <2>4. CASE reg # NoAccount
      BY <2>1, <2>2, <2>4 DEF IInv, Managed, NoOrphan, disk, AcceptedStarts
  <2> QED
      BY <2>3, <2>4
<1> QED
    BY <1>1, <1>2, <1>3

\* The CA knows the registration, and its key is the one on disk.
LEMMA RegisterStep == ASSUME IInv, Register PROVE IInv'
<1> DEFINE mine == [dir |-> cfg.dir, key |-> key]
<1>1. mine \in Account /\ mine # NoAccount /\ mine.key = key /\ key # 0 /\ key = keyFile
  <2>1. phase = "register" /\ cfg.dir \in Dir /\ key \in Nat
      BY StartupAssumption DEF Register, IInv, TypeOK
  <2>2. key # 0 /\ key = keyFile
      BY <2>1 DEF IInv
  <2>3. mine \in Account
      BY <2>1 DEF Account
  <2> QED
      BY <2>2, <2>3, NoAccountIsNone
<1> HIDE DEF mine
<1>2. /\ phase = "register"
      /\ UNCHANGED <<keyFile, userFile, keys, misread, crashes>>
      /\ accounts' = accounts \/ accounts' = accounts \union {mine}
    BY DEF Register, mine
<1>3. \/ accounts' = accounts \union {mine} /\ reg' = mine /\ Goto("save") /\ Fine
         /\ UNCHANGED <<cfg, key>>
      \/ Fault /\ Ends("storage")
    BY DEF Register, mine
<1>4. TypeOK'
    BY <1>1, <1>2, <1>3, FaultStep DEF IInv, TypeOK, Goto, Ends
<1> QED
    BY <1>1, <1>2, <1>3, <1>4 DEF IInv, Managed, NoOrphan, Goto, Ends

LEMMA OpenUserStep == ASSUME IInv, OpenUser PROVE IInv'
<1>1. TypeOK'
    BY FaultStep DEF OpenUser, IInv, TypeOK, Goto
<1> QED
  <2>1. /\ phase = "save" /\ phase' \in {"write", "listeners"}
        /\ userFile' \in {userFile, NoAccount}
        /\ UNCHANGED <<cfg, key, reg, keyFile, accounts, misread>>
      BY DEF OpenUser, Goto
  <2> QED
      BY <1>1, <2>1 DEF IInv, Managed, NoOrphan

LEMMA FillUserStep == ASSUME IInv, FillUser PROVE IInv'
<1>1. TypeOK'
    BY FaultStep DEF FillUser, IInv, TypeOK, Goto
<1> QED
  <2>1. /\ phase = "write" /\ phase' = "listeners"
        /\ userFile' \in {userFile, reg}
        /\ UNCHANGED <<cfg, key, reg, keyFile, accounts, misread>>
      BY DEF FillUser, Goto
  <2> QED
      BY <1>1, <2>1 DEF IInv, Managed, NoOrphan

\* A listener that wants the manager has domains, so there is a manager.
LEMMA ManagerThere ==
    ASSUME Valid(cfg), NEW i \in DOMAIN cfg.listeners, UsesACME(cfg.listeners[i])
    PROVE  AcmeDomains(cfg) # {}
<1>1. cfg.listeners[i].domains # {}
    BY DEF Valid, ListenerValid, UsesACME
<1>2. cfg.listeners[i].domains \subseteq AcmeDomains(cfg)
    BY DEF AcmeDomains
<1> QED
    BY <1>1, <1>2

LEMMA StartListenersStep == ASSUME IInv, StartListeners PROVE IInv' /\ exit' \in {exit, "certificate"}
<1> USE DEF StartListeners
<1> DEFINE ls == {cfg.listeners[i] : i \in DOMAIN cfg.listeners}
<1>1. ~(AcmeDomains(cfg) = {} /\ \E l \in ls : UsesACME(l))
    BY ManagerThere DEF IInv
<1>2. CASE Ends("certificate")
  <2>1. exit' = "certificate"
      BY <1>2 DEF Ends
  <2> QED
      BY <1>2, <2>1, EndKeeps
<1>3. CASE Goto("up") /\ UNCHANGED <<cfg, key, reg>>
  <2>1. TypeOK'
      BY <1>3, FaultStep DEF IInv, TypeOK, Goto, disk
  <2>2. exit' = exit
      BY <1>3 DEF Goto
  <2> QED
      BY <1>3, <2>1, <2>2 DEF IInv, Managed, NoOrphan, Goto, disk
<1> QED
    BY <1>1, <1>2, <1>3

LEMMA BootStep == ASSUME IInv, NEW c \in Config, Boot(c) PROVE IInv'
<1>1. TypeOK'
    BY DEF Boot, IInv, TypeOK, disk
<1> QED
    BY <1>1 DEF Boot, IInv, Managed, NoOrphan, TypeOK, disk

LEMMA InitInv == Init => IInv
<1> SUFFICES ASSUME Init PROVE IInv
    OBVIOUS
<1>1. MaxCrash \in Nat /\ MaxFault \in Nat
    BY StartupAssumption
<1>2. TypeOK
  <2>1. key \in 0..keys /\ keyFile \in 0..keys /\ keys \in Nat
      BY DEF Init
  <2>2. crashes \in 0..MaxCrash /\ faults \in 0..MaxFault
      BY <1>1 DEF Init
  <2>3. failed \in BOOLEAN /\ misread \in BOOLEAN
      BY DEF Init
  <2>4. /\ cfg \in Config /\ accounts \subseteq Account
        /\ reg \in {NoAccount} /\ userFile \in {NoAccount}
        /\ phase = "down" /\ exit = "none"
      BY DEF Init
  <2> QED
      BY <2>1, <2>2, <2>3, <2>4 DEF TypeOK
<1> QED
    BY <1>2 DEF Init, IInv, Managed, NoOrphan

\* A step other than those that want a provider or a certificate does not end the
\* process for want of them.
LEMMA OtherSteps ==
    ASSUME AcceptedStarts,
           \/ \E c \in Config : Boot(c)
           \/ Load \/ Prepare \/ LoadKey \/ OpenKey \/ FillKey \/ LoadUser
           \/ Register \/ OpenUser \/ FillUser \/ Quit \/ Crash \/ UNCHANGED vars
    PROVE  AcceptedStarts'
<1> USE DEF AcceptedStarts
<1>1. CASE (\E c \in Config : Boot(c)) \/ Load \/ Prepare \/ Quit \/ Crash
    BY <1>1 DEF Boot, Load, Prepare, Quit, Crash, Ends, Goto
<1>2. CASE LoadKey \/ OpenKey \/ FillKey
    BY <1>2 DEF LoadKey, OpenKey, FillKey, Ends, Goto
<1>3. CASE LoadUser \/ OpenUser \/ FillUser
    BY <1>3 DEF LoadUser, OpenUser, FillUser, Ends, Goto
<1>4. CASE Register
    BY <1>4 DEF Register, Ends, Goto
<1>5. CASE UNCHANGED vars
    BY <1>5 DEF vars
<1> QED
    BY <1>1, <1>2, <1>3, <1>4, <1>5

LEMMA Step ==
    ASSUME IInv, AcceptedStarts, [Next]_vars
    PROVE  IInv' /\ AcceptedStarts'
<1>1. CASE \E c \in Config : Boot(c)
    BY <1>1, BootStep, OtherSteps
<1>2. CASE Load \/ Prepare \/ LoadKey \/ OpenKey \/ FillKey \/ LoadUser
    BY <1>2, LoadStep, PrepareStep, LoadKeyStep, OpenKeyStep, FillKeyStep, LoadUserStep, OtherSteps
<1>3. CASE NewClient
    BY <1>3, NewClientStep
<1>4. CASE Register \/ OpenUser \/ FillUser
    BY <1>4, RegisterStep, OpenUserStep, FillUserStep, OtherSteps
<1>5. CASE StartListeners
  <2>1. IInv' /\ exit' \in {exit, "certificate"} /\ UNCHANGED cfg
      BY <1>5, StartListenersStep DEF StartListeners, Ends
  <2> QED
      BY <2>1 DEF AcceptedStarts
<1>6. CASE Quit
    BY <1>6, EndKeeps, OtherSteps DEF Quit
<1>7. CASE Crash
  <2>1. TypeOK'
      BY <1>7, FaultStep, StartupAssumption DEF Crash, IInv, TypeOK, Ends, disk
  <2>2. IInv'
      BY <1>7, <2>1 DEF Crash, IInv, Managed, NoOrphan, Ends, disk
  <2> QED
      BY <1>7, <2>2, OtherSteps
<1>8. CASE UNCHANGED vars
  <2>1. IInv'
      BY <1>8 DEF vars, disk, IInv, Managed, TypeOK, NoOrphan
  <2> QED
      BY <1>8, <2>1, OtherSteps
<1> QED
    BY <1>1, <1>2, <1>3, <1>4, <1>5, <1>6, <1>7, <1>8 DEF Next, Own

LEMMA Inductive == Spec => [](IInv /\ AcceptedStarts)
<1>1. Init => AcceptedStarts
    BY DEF Init, AcceptedStarts
<1>2. IInv /\ AcceptedStarts /\ [Next]_vars => IInv' /\ AcceptedStarts'
    BY Step
<1> QED
    BY <1>1, <1>2, InitInv, PTL DEF Spec

\* The inductive invariant of NewManager's files, account and memory.
THEOREM Invariance == Spec => []IInv
BY Inductive, PTL

\* Every account at the CA belongs to the key on disk unless that key was misread.
THEOREM OneAccount == Spec => []NoOrphan
<1>1. IInv => NoOrphan
    BY DEF IInv
<1> QED
    BY <1>1, Invariance, PTL

\* A manager's registration is known to the CA and belongs to the manager's key.
THEOREM Registered == Spec => []AccountWorks
<1>1. IInv => AccountWorks
    BY DEF IInv, Managed, AccountWorks, NoOrphan
<1> QED
    BY <1>1, Invariance, PTL

\* What validation accepts finds the manager, and providers that are built unless a
\* TTL is shorter than their API takes.
THEOREM ValidationSuffices == Spec => []AcceptedStarts
BY Inductive, PTL

-----------------------------------------------------------------------------
(* Names and providers                                                     *)

\* A piece of a name.
LEMMA Piece ==
    ASSUME NEW s \in Seq(STRING), NEW k \in 0..Len(s), NEW l \in k..Len(s)
    PROVE  /\ SubSeq(s, k + 1, l) \in Seq(STRING) /\ Len(SubSeq(s, k + 1, l)) = l - k
           /\ \A i \in 1..(l - k) : SubSeq(s, k + 1, l)[i] = s[k + i]
<1>1. Len(s) \in Nat /\ k \in Int /\ l \in Int /\ k + 1 \in Int
    OBVIOUS
<1>2. \A i \in (k + 1)..l : s[i] \in STRING
    BY <1>1
<1>3. /\ SubSeq(s, k + 1, l) \in Seq(STRING)
      /\ Len(SubSeq(s, k + 1, l)) = IF k + 1 <= l THEN (l - (k + 1)) + 1 ELSE 0
      /\ \A i \in 1..((l - (k + 1)) + 1) : SubSeq(s, k + 1, l)[i] = s[((k + 1) + i) - 1]
    BY <1>1, <1>2, SubSeqProperties
<1>4. (l - (k + 1)) + 1 = l - k /\ \A i \in Int : ((k + 1) + i) - 1 = k + i
    BY <1>1
<1> QED
    BY <1>1, <1>3, <1>4

\* A wildcard and what follows it.
LEMMA WildParts ==
    ASSUME NEW d \in Seq(STRING), IsWildcard(d)
    PROVE  /\ Len(d) \in Nat /\ Len(d) >= 2 /\ d[1] = "*" /\ d[2] = "."
           /\ SubSeq(d, 3, Len(d)) \in Seq(STRING) /\ Len(SubSeq(d, 3, Len(d))) = Len(d) - 2
           /\ \A i \in 1..(Len(d) - 2) : SubSeq(d, 3, Len(d))[i] = d[i + 2]
<1> DEFINE w == <<"*", ".">>
<1>1. Len(w) = 2 /\ Len(d) \in Nat
    OBVIOUS
<1>2. 2 <= Len(d) /\ SubSeq(w, 1, 2) = SubSeq(d, 1, 2)
    BY <1>1 DEF IsWildcard, IsPrefix
<1>3. SubSeq(w, 1, 2)[1] = "*" /\ SubSeq(w, 1, 2)[2] = "."
    OBVIOUS
<1>4. SubSeq(d, 1, 2)[1] = d[1] /\ SubSeq(d, 1, 2)[2] = d[2]
    BY <1>1, <1>2
<1>5. d[1] = "*" /\ d[2] = "."
    BY <1>2, <1>3, <1>4
<1>6. 2 \in 0..Len(d) /\ Len(d) \in 2..Len(d) /\ 2 + 1 = 3
    BY <1>1, <1>2
<1>7. /\ SubSeq(d, 3, Len(d)) \in Seq(STRING) /\ Len(SubSeq(d, 3, Len(d))) = Len(d) - 2
      /\ \A i \in 1..(Len(d) - 2) : SubSeq(d, 3, Len(d))[i] = d[2 + i]
    BY <1>6, Piece
<1> QED
    BY <1>1, <1>2, <1>5, <1>7

\* An atom that stands for itself takes itself alone.
LEMMA OnePiece ==
    ASSUME NEW s \in Seq(STRING), NEW k \in 0..Len(s), NEW l \in k..Len(s),
           NEW a, a \notin {"*", "?"} \union DOMAIN Class
    PROVE  Takes(a, SubSeq(s, k + 1, l)) <=> l = k + 1 /\ s[l] = a
<1> DEFINE piece == SubSeq(s, k + 1, l)
<1>1. Takes(a, piece) <=> piece = <<a>>
    BY DEF Takes
<1>2. /\ piece \in Seq(STRING) /\ Len(piece) = l - k
      /\ \A i \in 1..(l - k) : piece[i] = s[k + i]
    BY Piece
<1>3. Len(s) \in Nat /\ k \in Nat /\ l \in Nat
    OBVIOUS
<1> HIDE DEF piece
<1>4. ASSUME piece = <<a>> PROVE l = k + 1 /\ s[l] = a
  <2>1. Len(piece) = 1 /\ piece[1] = a
      BY <1>4
  <2>2. l = k + 1
    <3>1. l - k = 1
        BY <1>2, <2>1
    <3> QED
        BY <1>3, <3>1
  <2>3. 1 \in 1..(l - k)
      BY <1>3, <2>2
  <2>4. piece[1] = s[k + 1]
      BY <1>2, <2>3
  <2> QED
      BY <2>1, <2>2, <2>4
<1>5. ASSUME l = k + 1, s[l] = a PROVE piece = <<a>>
  <2>1. Len(piece) = 1 /\ piece[1] = a
      BY <1>2, <1>3, <1>5
  <2> QED
      BY <1>2, <2>1
<1> QED
    BY <1>1, <1>4, <1>5 DEF piece

\* The star at the front of a pattern takes whatever has no slash.
LEMMA StarPiece ==
    ASSUME NEW s \in Seq(STRING), NEW k \in 0..Len(s)
    PROVE  Takes("*", SubSeq(s, 1, k)) <=> \A j \in 1..k : s[j] # "/"
<1> DEFINE piece == SubSeq(s, 1, k)
<1>1. Len(s) \in Nat /\ k \in Nat /\ 0 \in 0..Len(s) /\ k \in 0..Len(s) /\ 0 + 1 = 1 /\ k - 0 = k
    OBVIOUS
<1>2. piece \in Seq(STRING) /\ Len(piece) = k /\ \A j \in 1..k : piece[j] = s[0 + j]
    BY <1>1, Piece
<1>3. Takes("*", piece) <=> "/" \notin ToSet(piece)
    BY ConfigAssumption DEF Takes
<1> HIDE DEF piece
<1>4. DOMAIN piece = 1..k /\ \A j \in 1..k : piece[j] = s[j]
    BY <1>1, <1>2
<1> QED
    BY <1>3, <1>4 DEF ToSet, piece

\* An atom of a literal stands for itself.
LEMMA LiteralAtom ==
    ASSUME NEW p \in Seq(STRING), Literal(p), NEW i \in 1..Len(p)
    PROVE  p[i] \notin {"*", "?"} \union DOMAIN Class
<1>1. p[i] \in ToSet(p)
    BY DEF ToSet
<1> QED
    BY <1>1 DEF Literal

\* A star before a literal: k characters for the star, and the literal.
StarAnd(p, s, k) ==
    /\ Len(s) = k + (Len(p) - 1)
    /\ \A j \in 1..k : s[j] # "/"
    /\ \A i \in 2..Len(p) : s[k + (i - 1)] = p[i]

LEMMA StarCuts ==
    ASSUME NEW s \in Seq(STRING), NEW p \in Seq(STRING), p # <<>>, p[1] = "*",
           \A i \in 2..Len(p) : p[i] \notin {"*", "?"} \union DOMAIN Class, PathMatch(p, s)
    PROVE  \E k \in Nat : StarAnd(p, s, k)
<1> DEFINE m == Len(p)
           n == Len(s)
<1>1. m \in Nat /\ m >= 1 /\ n \in Nat
    OBVIOUS
<1>2. PICK cut \in [0..m -> 0..n] :
        /\ cut[0] = 0 /\ cut[m] = n
        /\ \A i \in 1..m : cut[i - 1] <= cut[i] /\ Takes(p[i], SubSeq(s, cut[i - 1] + 1, cut[i]))
    BY DEF PathMatch
<1> HIDE DEF m, n
<1>3. \A i \in 0..m : cut[i] \in 0..n
    BY <1>2
<1>4. ASSUME NEW i \in 2..m
      PROVE  cut[i] = cut[i - 1] + 1 /\ s[cut[i]] = p[i]
  <2>1. i \in 1..m /\ i - 1 \in 0..m /\ i \in 0..m
      BY <1>1
  <2>2. cut[i - 1] \in 0..n /\ cut[i] \in 0..n
      BY <1>3, <2>1
  <2>3. cut[i - 1] <= cut[i] /\ Takes(p[i], SubSeq(s, cut[i - 1] + 1, cut[i]))
      BY <1>2, <2>1
  <2>4. cut[i] \in cut[i - 1]..n
      BY <1>1, <2>2, <2>3
  <2>5. p[i] \notin {"*", "?"} \union DOMAIN Class
      BY DEF m
  <2> QED
      BY <2>2, <2>3, <2>4, <2>5, OnePiece DEF n
<1>5. PICK k \in 0..n : k = cut[1]
    BY <1>1, <1>3
<1>6. k \in Nat
    BY <1>1
<1>7. \A i \in 1..m : cut[i] = k + (i - 1)
  <2> DEFINE T == {i \in Nat : i + 1 <= m => cut[i + 1] = k + i}
  <2>1. 0 \in T
      BY <1>5, <1>6
  <2>2. ASSUME NEW i \in 0..((m - 1) - 1), i \in T PROVE i + 1 \in T
    <3>1. i \in Nat /\ i + 1 <= m /\ i + 2 \in 2..m /\ (i + 2) - 1 = i + 1 /\ (i + 1) + 1 = i + 2
        BY <1>1
    <3>2. cut[i + 1] = k + i
        BY <2>2, <3>1
    <3>3. cut[i + 2] = cut[i + 1] + 1
        BY <1>4, <3>1
    <3>4. cut[i + 2] = k + (i + 1)
        BY <1>6, <3>1, <3>2, <3>3
    <3> QED
        BY <3>1, <3>4
  <2>3. m - 1 \in Nat
      BY <1>1
  <2> HIDE DEF T
  <2>4. 0..(m - 1) \subseteq T
      BY <2>1, <2>2, <2>3, CountingUp
  <2>5. ASSUME NEW i \in 1..m PROVE i - 1 \in T /\ (i - 1) + 1 = i
      BY <1>1, <2>4
  <2> QED
      BY <1>1, <2>5 DEF T
<1>8. n = k + (m - 1)
    BY <1>1, <1>2, <1>7
<1>9. \A i \in 2..m : s[k + (i - 1)] = p[i]
  <2>1. \A i \in 2..m : i \in 1..m
      BY <1>1
  <2> QED
      BY <1>4, <1>7, <2>1
<1>10. \A j \in 1..k : s[j] # "/"
  <2>1. 1 \in 1..m /\ 1 - 1 = 0 /\ 0 + 1 = 1
      BY <1>1
  <2>2. Takes(p[1], SubSeq(s, 1, k))
      BY <1>2, <1>5, <2>1
  <2> QED
      BY <2>2, StarPiece DEF n
<1> QED
    BY <1>6, <1>8, <1>9, <1>10 DEF StarAnd, m, n

LEMMA StarFits ==
    ASSUME NEW s \in Seq(STRING), NEW p \in Seq(STRING), p # <<>>, p[1] = "*", WellFormed(p),
           \A i \in 2..Len(p) : p[i] \notin {"*", "?"} \union DOMAIN Class,
           NEW k \in Nat, StarAnd(p, s, k)
    PROVE  PathMatch(p, s)
<1> DEFINE m == Len(p)
           n == Len(s)
           cut == [i \in 0..m |-> IF i = 0 THEN 0 ELSE k + (i - 1)]
<1>1. m \in Nat /\ m >= 1 /\ n \in Nat
    OBVIOUS
<1>2. /\ n = k + (m - 1) /\ \A j \in 1..k : s[j] # "/"
      /\ \A i \in 2..m : s[k + (i - 1)] = p[i]
    BY DEF StarAnd
<1> HIDE DEF m, n
<1>3. cut[0] = 0 /\ \A i \in 1..m : cut[i] = k + (i - 1) /\ cut[i] \in 0..n
    BY <1>1, <1>2
<1>4. cut \in [0..m -> 0..n]
    BY <1>1, <1>2
<1> HIDE DEF cut
<1>5. cut[m] = n
    BY <1>1, <1>2, <1>3
<1>6. ASSUME NEW i \in 1..m
      PROVE  cut[i - 1] <= cut[i] /\ Takes(p[i], SubSeq(s, cut[i - 1] + 1, cut[i]))
  <2>1. CASE i = 1
    <3>1. cut[i - 1] = 0 /\ cut[i] = k /\ k \in 0..n /\ 0 + 1 = 1
        BY <1>1, <1>2, <1>3, <2>1
    <3>2. Takes(p[i], SubSeq(s, 1, k))
        BY <1>2, <2>1, <3>1, StarPiece DEF n
    <3> QED
        BY <3>1, <3>2
  <2>2. CASE i # 1
    <3>1. i \in 2..m /\ i - 1 \in 1..m
        BY <1>1, <2>2
    <3>2. cut[i - 1] \in 0..n /\ cut[i] \in cut[i - 1]..n /\ cut[i] = cut[i - 1] + 1
        BY <1>1, <1>3, <3>1
    <3>3. s[cut[i]] = p[i]
        BY <1>2, <1>3, <3>1
    <3>4. p[i] \notin {"*", "?"} \union DOMAIN Class
        BY <3>1 DEF m
    <3>5. Takes(p[i], SubSeq(s, cut[i - 1] + 1, cut[i]))
        BY <3>2, <3>3, <3>4, OnePiece DEF n
    <3>6. cut[i - 1] <= cut[i]
        BY <1>1, <3>2
    <3> QED
        BY <3>5, <3>6
  <2> QED
      BY <2>1, <2>2
<1> QED
    BY <1>3, <1>4, <1>5, <1>6 DEF PathMatch, m, n

\* A pattern "*" or "*.n" that matches a wildcard is "*." before the apex, or matches
\* the apex too.
LEMMA UnderMatches ==
    ASSUME NEW d \in Seq(STRING), IsWildcard(d), NEW p \in Seq(STRING),
           p = <<"*">> \/ (IsWildcard(p) /\ Literal(SubSeq(p, 3, Len(p)))),
           PathMatch(p, d)
    PROVE  \/ IsWildcard(p) /\ SubSeq(p, 3, Len(p)) = SubSeq(d, 3, Len(d))
           \/ PathMatch(p, SubSeq(d, 3, Len(d)))
<1> DEFINE m == Len(p)
           n == Len(d)
           c == SubSeq(d, 3, Len(d))
           rest == SubSeq(p, 3, Len(p))
<1>1. /\ n \in Nat /\ n >= 2 /\ d[1] = "*" /\ d[2] = "." /\ c \in Seq(STRING) /\ Len(c) = n - 2
      /\ \A i \in 1..(n - 2) : c[i] = d[i + 2]
    BY WildParts
<1>2. CASE p = <<"*">>
  <2>1. p # <<>> /\ p[1] = "*" /\ Len(p) = 1
      BY <1>2
  <2>2. PICK k \in Nat : StarAnd(p, d, k)
      BY <2>1, StarCuts
  <2>3. k = n /\ \A j \in 1..n : d[j] # "/"
      BY <1>1, <2>1, <2>2 DEF StarAnd
  <2> HIDE DEF n, c
  <2>4. n - 2 \in Nat /\ \A j \in 1..(n - 2) : c[j] # "/"
    <3>1. n - 2 \in Nat /\ \A j \in 1..(n - 2) : j + 2 \in 1..n
        BY <1>1
    <3>2. \A j \in 1..n : d[j] # "/"
        BY <2>3
    <3>3. \A j \in 1..(n - 2) : c[j] = d[j + 2]
        BY <1>1
    <3> QED
        BY <3>1, <3>2, <3>3
  <2>5. StarAnd(p, c, n - 2)
      BY <1>1, <2>1, <2>4 DEF StarAnd
  <2>6. WellFormed(p)
      BY DEF PathMatch
  <2>7. PathMatch(p, c)
      BY <1>1, <2>1, <2>4, <2>5, <2>6, StarFits
  <2> QED
      BY <2>7 DEF c
<1>3. CASE IsWildcard(p) /\ Literal(rest)
  <2>1. /\ m \in Nat /\ m >= 2 /\ p[1] = "*" /\ p[2] = "." /\ p # <<>>
        /\ rest \in Seq(STRING) /\ Len(rest) = m - 2
        /\ \A i \in 1..(m - 2) : rest[i] = p[i + 2]
      BY <1>3, WildParts
  <2>2. ASSUME NEW i \in 2..m
        PROVE  p[i] \notin {"*", "?"} \union DOMAIN Class
    <3>1. CASE i = 2
        BY <2>1, <3>1, ConfigAssumption
    <3>2. CASE i # 2
      <4>1. i - 2 \in 1..(m - 2) /\ (i - 2) + 2 = i
          BY <2>1, <3>2
      <4>2. rest[i - 2] = p[i] /\ i - 2 \in 1..Len(rest)
          BY <2>1, <4>1
      <4> QED
          BY <1>3, <2>1, <4>2, LiteralAtom
    <3> QED
        BY <3>1, <3>2
  <2>3. PICK k \in Nat : StarAnd(p, d, k)
      BY <2>1, <2>2, StarCuts
  <2>4. /\ n = k + (m - 1) /\ \A j \in 1..k : d[j] # "/"
        /\ \A i \in 2..m : d[k + (i - 1)] = p[i]
      BY <2>3 DEF StarAnd
  <2>5. WellFormed(p)
      BY DEF PathMatch
  <2> HIDE DEF m, n, c, rest
  <2>6. k # 0
    <3>1. k = 0 => d[1] = p[2]
        BY <2>1, <2>4
    <3> QED
        BY <1>1, <2>1, <3>1
  <2>7. CASE k = 1
    <3>1. n = m
        BY <2>1, <2>4, <2>7
    <3>2. \A i \in 1..(m - 2) : i + 2 \in 2..m /\ 1 + ((i + 2) - 1) = i + 2
        BY <2>1
    <3>3. \A i \in 1..(m - 2) : rest[i] = c[i]
        BY <1>1, <2>1, <2>4, <2>7, <3>1, <3>2
    <3>4. rest = c
        BY <1>1, <2>1, <3>1, <3>3
    <3> QED
        BY <1>3, <3>4 DEF rest, c
  <2>8. CASE k >= 2
    <3>1. k - 2 \in Nat /\ Len(c) = (k - 2) + (m - 1)
        BY <1>1, <2>1, <2>4, <2>8
    <3>2. \A j \in 1..(k - 2) : c[j] # "/"
      <4>1. \A j \in 1..(k - 2) : j \in 1..(n - 2) /\ j + 2 \in 1..k
          BY <2>1, <2>4, <2>8
      <4> QED
          BY <1>1, <2>4, <4>1
    <3>3. \A i \in 2..m : c[(k - 2) + (i - 1)] = p[i]
      <4>1. \A i \in 2..m : /\ (k - 2) + (i - 1) \in 1..(n - 2)
                             /\ ((k - 2) + (i - 1)) + 2 = k + (i - 1)
          BY <2>1, <2>4, <2>8
      <4> QED
          BY <1>1, <2>4, <4>1
    <3>4. StarAnd(p, c, k - 2)
        BY <3>1, <3>2, <3>3 DEF StarAnd, m
    <3>5. PathMatch(p, c)
        BY <1>1, <2>1, <2>2, <2>5, <3>1, <3>4, StarFits DEF m
    <3> QED
        BY <3>5 DEF c
  <2> QED
      BY <2>6, <2>7, <2>8
<1> QED
    BY <1>2, <1>3

\* A literal that matches a wildcard would begin with its star.
LEMMA LiteralMisses ==
    ASSUME NEW d \in Seq(STRING), IsWildcard(d), NEW p \in Seq(STRING), Literal(p)
    PROVE  ~PathMatch(p, d)
<1> SUFFICES ASSUME PathMatch(p, d) PROVE FALSE
    OBVIOUS
<1>1. Len(d) \in Nat /\ Len(d) >= 2 /\ d[1] = "*"
    BY WildParts
<1>2. PICK cut \in [0..Len(p) -> 0..Len(d)] :
        /\ cut[0] = 0 /\ cut[Len(p)] = Len(d)
        /\ \A i \in 1..Len(p) :
             cut[i - 1] <= cut[i] /\ Takes(p[i], SubSeq(d, cut[i - 1] + 1, cut[i]))
    BY DEF PathMatch
<1>3. Len(p) \in Nat /\ 1 \in 1..Len(p) /\ 1 \in 0..Len(p) /\ 0 \in 0..Len(p)
    BY <1>1, <1>2
<1>4. /\ cut[1] \in 0..Len(d) /\ 0 \in 0..Len(d)
      /\ Takes(p[1], SubSeq(d, 0 + 1, cut[1]))
    BY <1>1, <1>2, <1>3
<1>5. p[1] \notin {"*", "?"} \union DOMAIN Class
    BY <1>3, LiteralAtom
<1>6. cut[1] = 0 + 1 /\ d[cut[1]] = p[1]
    BY <1>4, <1>5, OnePiece
<1> QED
    BY <1>1, <1>5, <1>6

\* The challenge of a name that a CA signs is of a name without a wildcard.
LEMMA ChallengeNames ==
    ASSUME NEW d \in Seq(STRING), Signable(d)
    PROVE  /\ Challenged(d) \in Seq(STRING) /\ Challenged(d) # <<>> /\ d # <<>>
           /\ DomainCandidates(Challenged(d)) = {Challenged(d)}
           /\ d # Challenged(d) => IsWildcard(d) /\ Challenged(d) = SubSeq(d, 3, Len(d))
<1>1. DomainCandidates(Challenged(d)) = {Challenged(d)}
    BY DEF Signable, DomainCandidates, Challenged
<1>2. d # Challenged(d) => IsWildcard(d) /\ Challenged(d) = SubSeq(d, 3, Len(d))
    BY DEF Challenged
<1>3. Challenged(d) \in Seq(STRING)
    BY <1>2, WildParts
<1>4. d # <<>>
    BY <1>2, WildParts DEF Signable
<1> QED
    BY <1>1, <1>2, <1>3, <1>4 DEF Signable

\* A pattern that covers the name of the challenge covers the domain.
LEMMA ChallengeCovers ==
    ASSUME NEW d \in Seq(STRING), Signable(d), NEW p, MatchDomain(p, Challenged(d))
    PROVE  MatchDomain(p, d)
BY ChallengeNames DEF MatchDomain, DomainCandidates

\* A plain pattern that covers a domain covers the name of its challenge.
LEMMA ChallengeMatches ==
    ASSUME NEW d \in Seq(STRING), Signable(d),
           NEW p \in Seq(STRING), Plain(p), MatchDomain(p, d)
    PROVE  MatchDomain(p, Challenged(d))
<1> DEFINE c == Challenged(d)
           rest == SubSeq(p, 3, Len(p))
<1>1. /\ c \in Seq(STRING) /\ c # <<>> /\ DomainCandidates(c) = {c}
      /\ d # c => IsWildcard(d) /\ c = SubSeq(d, 3, Len(d))
    BY ChallengeNames
<1>2. p # <<>> /\ \E x \in {d, c} : PathMatch(p, x) \/ (IsWildcard(p) /\ rest = x)
    BY DEF MatchDomain, DomainCandidates
<1>3. SUFFICES PathMatch(p, c) \/ (IsWildcard(p) /\ rest = c)
    BY <1>1, <1>2 DEF MatchDomain
<1>4. CASE d = c
    BY <1>2, <1>4
<1>5. CASE d # c /\ PathMatch(p, d)
  <2>1. CASE Literal(p)
      BY <1>1, <1>5, <2>1, LiteralMisses
  <2>2. CASE p = <<"*">> \/ (IsWildcard(p) /\ Literal(rest))
      BY <1>1, <1>5, <2>2, UnderMatches
  <2> QED
      BY <2>1, <2>2 DEF Plain
<1>6. CASE d # c /\ IsWildcard(p) /\ rest = d
  <2>1. Len(d) >= 2 /\ Len(d) \in Nat /\ d[1] = "*"
      BY <1>1, <1>6, WildParts
  <2>2. Len(p) >= 2 /\ Len(p) \in Nat /\ p[1] = "*"
      BY <1>6, WildParts
  <2>3. ~Literal(p)
      BY <2>2, LiteralAtom
  <2>4. ~Literal(rest)
    <3>1. 1 \in 1..Len(d)
        BY <2>1
    <3> QED
        BY <1>6, <2>1, <3>1, LiteralAtom
  <2>5. p = <<"*">>
      BY <2>3, <2>4 DEF Plain
  <2> QED
      BY <2>2, <2>5
<1> QED
    BY <1>2, <1>4, <1>5, <1>6

\* The entry that answers the challenge of a domain: there is one, its patterns match
\* the domain or it is the default, and plain patterns choose it for the domain too.
LEMMA ChallengeSelects ==
    ASSUME NEW c \in Config, c.providers # <<>>,
           NEW i \in DOMAIN c.listeners, NEW d \in c.listeners[i].domains
    PROVE  LET e == SelectDNSProvider(c.providers, Challenged(d)) IN
             /\ e \in DOMAIN c.providers
             /\ Signable(d) => e = 1 \/ MatchesDomain(c.providers[e], d)
             /\ Signable(d) /\ (\A j \in DOMAIN c.providers :
                                  \A p \in c.providers[j].match : Plain(p))
                  => e = SelectDNSProvider(c.providers, d)
<1> DEFINE ps == c.providers
           Found(x) == {j \in DOMAIN ps : MatchesDomain(ps[j], x)}
           x == Challenged(d)
           e == SelectDNSProvider(ps, x)
<1>1. d \in Seq(STRING) /\ ps \in Seq(Provider)
    BY ConfigAssumption
<1>2. DOMAIN ps = 1..Len(ps) /\ Len(ps) \in Nat /\ 1 \in DOMAIN ps
    BY <1>1
<1>3. \A j \in DOMAIN ps : ps[j].match \subseteq Seq(STRING)
  <2>1. \A y \in Provider : y.match \subseteq Seq(STRING)
      BY DEF Provider
  <2> HIDE DEF ps
  <2>2. \A j \in DOMAIN ps : ps[j] \in Provider
      BY <1>1, <1>2
  <2> QED
      BY <2>1, <2>2
<1>4. e = 1 \/ e \in Found(x)
  <2>1. CASE Found(x) = {}
      BY <2>1 DEF SelectDNSProvider
  <2>2. CASE Found(x) # {}
    <3>1. Found(x) \subseteq Nat
        BY <1>2
    <3>2. e = Min(Found(x))
        BY <2>2 DEF SelectDNSProvider
    <3> HIDE DEF Found, e
    <3>3. Min(Found(x)) \in Found(x)
        BY <2>2, <3>1, MinIsLeast
    <3> QED
        BY <3>2, <3>3
  <2> QED
      BY <2>1, <2>2
<1>5. ASSUME Signable(d) PROVE Found(x) \subseteq Found(d)
    BY <1>1, <1>5, ChallengeCovers DEF MatchesDomain
<1>6. ASSUME Signable(d), \A j \in DOMAIN ps : \A p \in ps[j].match : Plain(p)
      PROVE  Found(d) \subseteq Found(x)
  <2>1. ASSUME NEW j \in DOMAIN ps, MatchesDomain(ps[j], d) PROVE MatchesDomain(ps[j], x)
    <3>1. PICK p \in ps[j].match : MatchDomain(p, d)
        BY <2>1 DEF MatchesDomain
    <3>2. p \in Seq(STRING) /\ Plain(p)
        BY <1>3, <1>6, <3>1
    <3>3. MatchDomain(p, x)
        BY <1>1, <1>6, <3>1, <3>2, ChallengeMatches
    <3> QED
        BY <3>1, <3>3 DEF MatchesDomain
  <2> QED
      BY <2>1
<1>7. ASSUME Found(d) = Found(x) PROVE e = SelectDNSProvider(ps, d)
    BY <1>7 DEF SelectDNSProvider
<1> HIDE DEF e
<1>8. e \in DOMAIN ps
    BY <1>2, <1>4
<1>9. Signable(d) => e = 1 \/ MatchesDomain(ps[e], d)
    BY <1>4, <1>5
<1>10. ASSUME Signable(d), \A j \in DOMAIN ps : \A p \in ps[j].match : Plain(p)
       PROVE  e = SelectDNSProvider(ps, d)
    BY <1>5, <1>6, <1>7, <1>10
<1> QED
    BY <1>8, <1>9, <1>10 DEF e

\* What handshakes ask for is checked and renewed, and its challenge is answered by
\* an entry whose patterns match it or by the default.
THEOREM ChallengesAnswered == Spec => []ACMECovered
<1>1. ASSUME IInv, phase = "up", NEW i \in DOMAIN cfg.listeners,
             UsesACME(cfg.listeners[i])
      PROVE  /\ cfg.listeners[i].domains # {}
             /\ cfg.listeners[i].domains \subseteq AcmeDomains(cfg)
             /\ cfg \in Config /\ cfg.providers # <<>>
  <2>1. Valid(cfg) /\ cfg \in Config
      BY <1>1 DEF IInv, TypeOK
  <2>2. AcmeDomains(cfg) # {}
      BY <1>1, <2>1, ManagerThere
  <2>3. cfg.listeners[i].domains # {} /\ cfg.listeners[i].domains \subseteq AcmeDomains(cfg)
      BY <1>1, <2>1 DEF Valid, ListenerValid, UsesACME, AcmeDomains
  <2>4. cfg.providers # <<>>
      BY <2>1, <2>2 DEF Valid, ProvidersValid
  <2> QED
      BY <2>1, <2>3, <2>4
<1>2. IInv => ACMECovered
    BY <1>1, ChallengeSelects DEF ACMECovered
<1> QED
    BY <1>2, Invariance, PTL
=============================================================================
