------------------------- MODULE CertServiceProofs -------------------------
(***************************************************************************)
(* CertService runs the Manager of CertManager: what is proved there of    *)
(* any callers holds of runServer and its daemon.  After the refinement:   *)
(* what the renewal window is worth when checks fail, and what a restart   *)
(* finds on disk.                                                          *)
(***************************************************************************)
EXTENDS CertService, CertManagerProofs

\* The calls of a running process are made with its configuration.
ConfigInv ==
    /\ phase \in Phase
    /\ config \in Lists \union {None}
    /\ phase # "down" => config \in Lists

LEMMA ConfigStep == ASSUME ConfigInv, [ServiceNext]_svars PROVE ConfigInv'
<1> USE DEF ConfigInv, Phase
<1>1. CASE Day \/ BootCheck \/ Serve \/ Tick \/ Continue
    BY <1>1 DEF Day, BootCheck, Serve, Tick, Continue, service
<1>2. CASE Die
    BY <1>2 DEF Die
<1>3. ASSUME NEW l \in Lists, Boot(l)
      PROVE  ConfigInv'
    BY <1>3 DEF Boot
<1>4. CASE UNCHANGED svars
    BY <1>4 DEF svars, service
<1> QED
    BY <1>1, <1>2, <1>3, <1>4 DEF ServiceNext

LEMMA ConfigInvariance == ServiceSpec => []ConfigInv
<1>1. ServiceInit => ConfigInv
    BY DEF ServiceInit, ConfigInv, Phase
<1>2. ConfigInv /\ [ServiceNext]_svars => ConfigInv'
    BY ConfigStep
<1> QED
    BY <1>1, <1>2, PTL DEF ServiceSpec

\* A call of the service is a call of the Manager, or finds nothing to do.
LEMMA CheckCalls ==
    ASSUME config \in Lists, Check
    PROVE  [Next]_vars
BY ServiceAssumption DEF Check, Next

LEMMA ServiceStep == ASSUME ConfigInv, [ServiceNext]_svars PROVE [Next]_vars
<1>1. CASE Day
    BY <1>1 DEF Day, Next
<1>2. ASSUME NEW l \in Lists, Boot(l)
      PROVE  [Next]_vars
    BY <1>2 DEF Boot, Next
<1>3. CASE BootCheck \/ Tick
  <2>1. config \in Lists
      BY <1>3 DEF ConfigInv, BootCheck, Tick, TickDue
  <2> QED
      BY <1>3, <2>1, CheckCalls DEF BootCheck, Tick
<1>4. CASE Serve
    BY <1>4 DEF Serve
<1>5. CASE Continue
    BY <1>5, ServiceAssumption DEF Continue, Next
<1>6. CASE Die
    BY <1>6 DEF Die, Next
<1>7. CASE UNCHANGED svars
    BY <1>7 DEF svars
<1> QED
    BY <1>1, <1>2, <1>3, <1>4, <1>5, <1>6, <1>7 DEF ServiceNext

\* The running program implements the Manager's specification: main, the daemon
\* and restarts with any configuration are callers and crashes it allows, so that
\* every theorem about CertManager is one about the program.
THEOREM ServiceImplementsManager == ServiceSpec => Spec
<1>1. ServiceInit => Init
    BY DEF ServiceInit
<1>2. ConfigInv /\ [ServiceNext]_svars => [Next]_vars
    BY ServiceStep
<1> QED
    BY <1>1, <1>2, ConfigInvariance, PTL DEF ServiceSpec, Spec

-----------------------------------------------------------------------------
(* Types                                                                   *)

\* The ticker and the history of failed checks.
TickInv == nextTick \in Nat /\ missed \in 0..Tolerance

LEMMA ToleranceType == Tolerance \in Nat
BY DaysAssumption, ServiceAssumption DEF Tolerance

LEMMA TickStep ==
    ASSUME TickInv, now \in Nat, [ServiceNext]_svars
    PROVE  TickInv'
<1> USE ToleranceType, ServiceAssumption DEF TickInv
<1>1. ASSUME Check, UNCHANGED nextTick \/ nextTick' = now + Interval
      PROVE  TickInv'
    BY <1>1 DEF Check
<1>2. CASE BootCheck \/ Tick
    BY <1>1, <1>2 DEF BootCheck, Tick
<1>3. CASE Continue
    BY <1>3 DEF Continue
<1>4. ASSUME NEW l \in Lists, Boot(l)
      PROVE  TickInv'
    BY <1>4 DEF Boot
<1>5. CASE Day \/ Serve \/ Die
    BY <1>5 DEF Day, Serve, Die, service
<1>6. CASE UNCHANGED svars
    BY <1>6 DEF svars, service
<1> QED
    BY <1>2, <1>3, <1>4, <1>5, <1>6 DEF ServiceNext

\* Whatever the calls of main and the daemon do, the Manager's invariant and the
\* types of the service hold.
THEOREM ServiceTypes == ServiceSpec => []ServiceTypeOK
<1>1. ServiceInit => TickInv
    BY ToleranceType DEF ServiceInit, TickInv
<1>2. IInv /\ TickInv /\ [ServiceNext]_svars => TickInv'
    BY TickStep DEF IInv, TypeOK
<1>3. IInv /\ ConfigInv /\ TickInv => ServiceTypeOK
    BY DEF IInv, ConfigInv, TickInv, ServiceTypeOK
<1>4. ServiceSpec => []IInv
    BY ServiceImplementsManager, Invariance, PTL
<1> QED
    BY <1>1, <1>2, <1>3, <1>4, ConfigInvariance, PTL DEF ServiceSpec

\* DurableBeforeServed, NoDowngrade and IssueOnlyIfNeeded for the program: at no
\* step of main or the daemon is a certificate requested without need, served
\* before it is on disk, or replaced by one that expires earlier.
THEOREM ServiceInherits ==
    ServiceSpec => /\ IssueOnlyIfNeeded /\ DurableBeforeServed /\ NoDowngrade
                   /\ []RequestsSpaced
BY ServiceImplementsManager, NoDuplicateRequest, SavedFirst, NeverWorse, AskedRarely, PTL

-----------------------------------------------------------------------------
(* The calls                                                               *)

LEMMA NeedsFrame ==
    ASSUME UNCHANGED <<now, certMeta, config>>
    PROVE  NeedsAny(config)' <=> NeedsAny(config)
BY DEF NeedsAny, Needs

\* A step of the call in progress: until it returns, it changes neither the memory
\* nor the list it was called with.
LEMMA CallStep ==
    ASSUME IInv, Step(Main)
    PROVE  /\ UNCHANGED <<now, up>>
           /\ pc[Main] # "idle"
           /\ pc'[Main] # "idle" => UNCHANGED mem /\ want'[Main] = want[Main]
<1> USE ServiceAssumption DEF IInv, TypeOK
<1>1. CASE LockObtain(Main) \/ ObtainOK(Main)
    BY <1>1 DEF LockObtain, ObtainOK, Goto
<1>2. CASE OpenCrt(Main) \/ FillCrt(Main) \/ OpenKey(Main) \/ FillKey(Main)
    BY <1>2 DEF OpenCrt, FillCrt, OpenKey, FillKey, Goto
<1>3. CASE ObtainFail(Main) \/ WriteFails(Main) \/ Install(Main)
  <2>1. pc'[Main] = "idle"
      BY <1>3 DEF ObtainFail, WriteFails, Install, Return, Goto
  <2> QED
      BY <1>3, <2>1 DEF ObtainFail, WriteFails, Install
<1>4. CASE Recheck(Main)
    BY <1>4 DEF Recheck, Return, Goto
<1> QED
    BY <1>1, <1>2, <1>3, <1>4 DEF Step

\* A check: either it becomes a call, or nothing needs one.
LEMMA CheckStep ==
    ASSUME IInv, Check, Idle
    PROVE  /\ UNCHANGED <<now, issued, disk, up, mem>>
           /\ \/ /\ pc'[Main] = "locking" /\ want'[Main] = config
                 /\ NeedsAny(config) /\ missed' = missed
              \/ ~NeedsAny(config) /\ missed' = 0 /\ UNCHANGED vars
BY ServiceAssumption DEF Check, EnsureDomains, Goto, IInv, TypeOK, vars

LEMMA CallsStep == ASSUME IInv, CallsInv, [ServiceNext]_svars PROVE CallsInv'
<1> USE DEF CallsInv
<1>1. CASE Day
    BY <1>1, NeedsFrame DEF Day, NextDay, calls, service, Idle
<1>2. ASSUME NEW l \in Lists, Boot(l)
      PROVE  CallsInv'
  <2>1. Idle
      BY <1>2, ServiceAssumption DEF Boot, NewManager, IInv, CallInv, Idle
  <2> QED
      BY <1>2, <2>1 DEF Boot, NewManager, calls, Idle
<1>3. CASE BootCheck \/ Tick
  <2>1. Check /\ Idle /\ phase' \in {"ensuring", "serving"} /\ config' = config
      BY <1>3 DEF BootCheck, Tick, TickDue
  <2>2. phase # "down"
      BY <1>3 DEF BootCheck, Tick, TickDue
  <2>3. CASE UNCHANGED vars
      BY <2>1, <2>2, <2>3 DEF vars, calls, Idle
  <2>4. CASE pc'[Main] = "locking" /\ want'[Main] = config /\ NeedsAny(config)
      BY <2>1, <2>2, <2>4, CheckStep, NeedsFrame DEF mem
  <2> QED
      BY <2>1, <2>3, <2>4, CheckStep
<1>4. CASE Serve
    BY <1>4, NeedsFrame DEF Serve, vars, calls, mem, Idle
<1>5. CASE Continue
  <2>1. Step(Main) /\ UNCHANGED <<phase, config>>
      BY <1>5 DEF Continue
  <2> QED
      BY <2>1, CallStep, NeedsFrame DEF Idle, mem
<1>6. CASE Die
    BY <1>6, ServiceAssumption DEF Die, Crash, Idle
<1>7. CASE UNCHANGED svars
    BY <1>7, NeedsFrame DEF svars, vars, calls, mem, service, Idle
<1> QED
    BY <1>1, <1>2, <1>3, <1>4, <1>5, <1>6, <1>7 DEF ServiceNext

-----------------------------------------------------------------------------
(* The files                                                               *)

\* What is on disk of a running call's list does not matter before the first write
\* and after the last.
LEMMA FileFrame ==
    ASSUME FileInv, UNCHANGED <<issued, crtFile>>,
           pc'[Main] \notin {"openCrt", "fillCrt", "openKey", "fillKey"}
    PROVE  FileInv'
BY DEF FileInv, Serial

LEMMA CallFiles ==
    ASSUME IInv, FileInv, Step(Main)
    PROVE  FileInv'
<1> USE ServiceAssumption DEF IInv, TypeOK
<1> DEFINE P == want[Main].primary
<1>1. CASE LockObtain(Main) \/ Recheck(Main) \/ ObtainFail(Main) \/ WriteFails(Main)
           \/ Install(Main)
  <2>1. UNCHANGED <<issued, disk>>
      BY <1>1 DEF LockObtain, Recheck, ObtainFail, WriteFails, Install
  <2>2. pc'[Main] \in {"idle", "rechecking", "obtaining"}
      BY <1>1 DEF LockObtain, Recheck, ObtainFail, WriteFails, Install, Return, Goto
  <2> QED
      BY <2>1, <2>2, FileFrame DEF disk
<1>2. CASE ObtainOK(Main)
  <2>1. PICK r \in Bundle : issued' = Append(issued, r)
    <3>1. want[Main] \in Lists /\ now + Lifetime \in Nat
        BY <1>2, DaysAssumption DEF ObtainOK, CallInv
    <3>2. PICK good \in BOOLEAN :
            issued' = Append(issued, [names |-> want[Main].names,
                                      exp |-> now + Lifetime, good |-> good])
        BY <1>2 DEF ObtainOK
    <3> QED
        BY <3>1, <3>2, ListsAssumption DEF Bundle
  <2>2. /\ \A i \in Serial : issued'[i] = issued[i]
        /\ \A b \in Domain : crtFile[b] \in Serial' => crtFile[b] \in Serial
    <3>1. \A b \in Domain : crtFile[b] \in Serial' => crtFile[b] \in Nat
        BY DEF Serial
    <3>2. \A b \in Domain : crtFile[b] \in Nat => crtFile[b] \in Serial
        BY NoneAssumption
    <3> QED
        BY <2>1, <3>1, <3>2, AppendBundle
  <2>3. \A b \in Domain : keyFile[b] # Len(issued) + 1
    <3>1. \A b \in Domain : keyFile[b] \in Serial \union {None, Torn}
        OBVIOUS
    <3>2. Len(issued) \in Nat
        OBVIOUS
    <3>3. Len(issued) + 1 \notin Serial \union {None, Torn}
        BY <3>2, NoneAssumption DEF Serial
    <3> QED
        BY <3>1, <3>3
  <2>4. /\ UNCHANGED <<crtFile, keyFile>> /\ draft'[Main] = Len(issued) + 1
        /\ pc'[Main] = "openCrt"
      BY <1>2 DEF ObtainOK, Goto, disk
  <2> QED
      BY <2>2, <2>3, <2>4 DEF FileInv
<1>3. CASE OpenCrt(Main)
  <2>1. want[Main] \in Lists /\ P \in Domain
      BY <1>3, ListsAssumption DEF OpenCrt, CallInv
  <2>2. /\ crtFile' = [crtFile EXCEPT ![P] = Torn] /\ pc'[Main] = "fillCrt"
        /\ UNCHANGED <<issued, keyFile, draft, want>> /\ pc[Main] = "openCrt"
      BY <1>3 DEF OpenCrt, Goto
  <2>3. Torn \notin Serial
      BY NoneAssumption DEF Serial
  <2> QED
      BY <2>1, <2>2, <2>3 DEF FileInv, Loadable, Serial
<1>4. CASE FillCrt(Main)
  <2>1. want[Main] \in Lists /\ P \in Domain /\ draft[Main] \in Serial
        /\ issued[draft[Main]].names = want[Main].names
      BY <1>4, ListsAssumption DEF FillCrt, CallInv
  <2>2. /\ crtFile' = [crtFile EXCEPT ![P] = draft[Main]] /\ pc'[Main] = "openKey"
        /\ UNCHANGED <<issued, keyFile, draft, want>> /\ pc[Main] = "fillCrt"
      BY <1>4 DEF FillCrt, Goto
  <2> QED
      BY <2>1, <2>2 DEF FileInv, Loadable, Serial
<1>5. CASE OpenKey(Main)
  <2>1. want[Main] \in Lists /\ P \in Domain
      BY <1>5, ListsAssumption DEF OpenKey, CallInv
  <2>2. /\ keyFile' = [keyFile EXCEPT ![P] = Torn] /\ pc'[Main] = "fillKey"
        /\ UNCHANGED <<issued, crtFile, want>>
      BY <1>5 DEF OpenKey, Goto
  <2>3. Torn \notin Serial
      BY NoneAssumption DEF Serial
  <2> QED
      BY <2>1, <2>2, <2>3 DEF FileInv, Loadable, Serial
<1>6. CASE FillKey(Main)
  <2>1. UNCHANGED <<issued, crtFile>> /\ pc'[Main] = "install"
      BY <1>6 DEF FillKey, Goto
  <2> QED
      BY <2>1, FileFrame
<1> QED
    BY <1>1, <1>2, <1>3, <1>4, <1>5, <1>6 DEF Step

LEMMA FileStep == ASSUME IInv, CallsInv, FileInv, [ServiceNext]_svars PROVE FileInv'
<1>1. CASE Day \/ Serve
    BY <1>1, FileFrame DEF Day, NextDay, Serve, vars, disk, calls, Idle
<1>2. ASSUME NEW l \in Lists, Boot(l)
      PROVE  FileInv'
  <2>1. pc[Main] = "idle"
      BY <1>2, ServiceAssumption DEF Boot, NewManager, IInv, CallInv
  <2> QED
      BY <1>2, <2>1, FileFrame DEF Boot, NewManager, disk, calls
<1>3. CASE BootCheck \/ Tick
  <2>1. Check /\ Idle
      BY <1>3 DEF BootCheck, Tick, CallsInv, Idle
  <2> QED
      BY <2>1, CheckStep, FileFrame DEF disk, vars, calls, Idle
<1>4. CASE Continue
    BY <1>4, CallFiles DEF Continue
<1>5. CASE Die
    BY <1>5, FileFrame, ServiceAssumption DEF Die, Crash, disk
<1>6. CASE UNCHANGED svars
    BY <1>6 DEF svars, vars, disk, calls, FileInv, Loadable, Serial
<1> QED
    BY <1>1, <1>2, <1>3, <1>4, <1>5, <1>6 DEF ServiceNext

-----------------------------------------------------------------------------
(* The grace                                                               *)

LEMMA LeftShrinks ==
    ASSUME NEW k \in Nat
    PROVE  /\ Left(k) \in Int
           /\ Left(k + 1) = Left(k) - Interval
           /\ Left(k + 1) <= RenewBefore - Interval
<1>1. k * Interval \in Nat
    BY ServiceAssumption
<1>2. (k + 1) * Interval = k * Interval + Interval
    BY ServiceAssumption
<1> QED
    BY <1>1, <1>2, DaysAssumption, ServiceAssumption DEF Left

\* The same for the checks that have been missed.
LEMMA LeftAfterMissed ==
    ASSUME missed \in Nat
    PROVE  /\ Left(missed + 1) \in Int /\ Left(missed + 2) \in Int
           /\ Left(missed + 1) <= RenewBefore - Interval
           /\ Left(missed + 2) = Left(missed + 1) - Interval
<1>1. missed + 1 \in Nat /\ (missed + 1) + 1 = missed + 2
    OBVIOUS
<1>2. Left(missed + 1) \in Int /\ Left(missed + 1) <= RenewBefore - Interval
    BY LeftShrinks
<1>3. Left((missed + 1) + 1) = Left(missed + 1) - Interval
    BY <1>1, LeftShrinks
<1> QED
    BY <1>1, <1>2, <1>3, ServiceAssumption

LEMMA LeftInWindow ==
    ASSUME NEW k \in Nat, k <= Tolerance
    PROVE  Left(k) >= 0
<1>1. Tolerance \in Nat /\ Tolerance * Interval <= RenewBefore
    BY DaysAssumption, ServiceAssumption DEF Tolerance
<1>2. k * Interval <= Tolerance * Interval
    BY <1>1, ServiceAssumption
<1> QED
    BY <1>1, <1>2, DaysAssumption, ServiceAssumption DEF Left

\* What a successful check has seen.
LEMMA NothingNeeded ==
    ASSUME TypeOK, config \in Lists, ~NeedsAny(config), NEW d \in config.names
    PROVE  certMeta[d] # None /\ certMeta[d] \in Nat /\ certMeta[d] - now >= RenewBefore
BY ListsAssumption, DaysAssumption DEF NeedsAny, Needs, TypeOK

\* A call that ends in time.  If it fails, what is left is an interval less.
LEMMA CallGrace ==
    ASSUME IInv, CallsInv, GraceInv, TickInv, Continue
    PROVE  GraceInv'
<1> USE ServiceAssumption, ToleranceType
<1>1. /\ Step(Main) /\ UNCHANGED <<phase, config, nextTick, now, up>>
      /\ ~Idle /\ TypeOK /\ TypeOK'
      /\ phase \in {"ensuring", "serving"} /\ up /\ config \in Lists
  <2>1. IInv'
      BY NextInv DEF Continue, Next
  <2> QED
      BY <2>1, CallStep DEF Continue, CallsInv, Idle, IInv
<1>2. CASE ~Idle'
    BY <1>1, <1>2, CallStep DEF Continue, Idle, GraceInv, mem
<1>3. CASE Idle' /\ ~NeedsAny(config)'
  <2>1. missed' = 0
      BY <1>3 DEF Continue, Idle
  <2>2. \A d \in config.names : certMeta'[d] # None /\ certMeta'[d] \in Nat
                                /\ certMeta'[d] - now >= RenewBefore
      BY <1>1, <1>3, ListsAssumption, DaysAssumption DEF NeedsAny, Needs, TypeOK
  <2>3. now \in Nat /\ Left(1) = RenewBefore - Interval /\ RenewBefore \in Nat
      BY <1>1, DaysAssumption DEF TypeOK, Left
  <2>4. phase = "serving" => nextTick = now + Interval /\ now <= nextTick
      BY <1>1 DEF GraceInv
  <2>5. phase = "serving" =>
          \A d \in config.names : certMeta'[d] - nextTick >= Left(1)
      BY <2>2, <2>3, <2>4
  <2> QED
      BY <1>1, <1>3, <2>1, <2>2, <2>4, <2>5 DEF GraceInv, Idle, Left
<1>4. CASE Idle' /\ NeedsAny(config)'
  <2>1. missed' = IF missed < Tolerance THEN missed + 1 ELSE missed
      BY <1>4 DEF Continue, Idle
  <2>2. missed \in Nat /\ missed <= Tolerance
      BY DEF TickInv
  <2>3. CASE phase = "ensuring"
      BY <1>1, <1>4, <2>1, <2>2, <2>3 DEF GraceInv, Idle
  <2>4. ASSUME phase = "serving", missed' < Tolerance, NEW d \in config.names
        PROVE  certMeta'[d] # None /\ certMeta'[d] - nextTick >= Left(missed' + 1)
    <3>1. missed' = missed + 1 /\ missed < Tolerance /\ missed' + 1 = missed + 2
        BY <2>1, <2>2, <2>4
    <3>2. d \in Domain
        BY <1>1, <2>4, ListsAssumption
    <3>3. certMeta[d] # None /\ certMeta[d] - nextTick >= Left(missed + 2)
        BY <1>1, <2>4, <3>1 DEF GraceInv
    <3>4. certMeta'[d] # None /\ certMeta'[d] >= certMeta[d]
        BY <1>1, <3>2, <3>3, ExpiryGrows DEF Next
    <3>5. certMeta[d] \in Nat /\ certMeta'[d] \in Nat /\ nextTick \in Nat
        BY <1>1, <3>2, <3>3, <3>4 DEF TypeOK, TickInv
    <3>6. Left(missed + 2) \in Int
        BY <2>2, LeftAfterMissed
    <3> QED
        BY <3>1, <3>3, <3>4, <3>5, <3>6
  <2>5. CASE phase = "serving"
      BY <1>1, <1>4, <2>4, <2>5 DEF GraceInv, Idle, Left
  <2> QED
      BY <1>1, <2>3, <2>5
<1> QED
    BY <1>2, <1>3, <1>4

LEMMA GraceStep ==
    ASSUME IInv, CallsInv, GraceInv, TickInv, [ServiceNext]_svars
    PROVE  GraceInv'
<1> USE ServiceAssumption, ToleranceType
<1>1. now \in Nat /\ nextTick \in Nat /\ missed \in 0..Tolerance /\ missed \in Nat /\ TypeOK
    BY DEF IInv, TypeOK, TickInv
<1>2. CASE Day
  <2>1. now' = now + 1 /\ Idle /\ Idle' /\ phase \in {"down", "serving"}
        /\ UNCHANGED <<certMeta, phase, config, nextTick, missed>>
      BY <1>2 DEF Day, NextDay, calls, mem, service, Idle
  <2>2. phase = "serving" => now < nextTick
      BY <1>1, <1>2 DEF Day, TickDue
  <2> QED
      BY <1>1, <2>1, <2>2 DEF GraceInv, Left
<1>3. ASSUME NEW l \in Lists, Boot(l)
      PROVE  GraceInv'
    BY <1>3 DEF Boot, GraceInv
<1>4. CASE BootCheck
  <2>1. Check /\ Idle /\ phase' = "ensuring" /\ config' = config /\ config \in Lists
        /\ missed = Tolerance
      BY <1>4 DEF BootCheck, CallsInv, Idle, GraceInv
  <2>2. CASE pc'[Main] = "locking" /\ missed' = missed
      BY <1>1, <2>1, <2>2 DEF GraceInv
  <2>3. CASE ~NeedsAny(config) /\ missed' = 0 /\ UNCHANGED vars
    <3>1. UNCHANGED <<now, certMeta>> /\ Idle'
        BY <2>1, <2>3 DEF vars, mem, calls, Idle
    <3>2. \A d \in config.names : certMeta[d] # None /\ certMeta[d] - now >= RenewBefore
        BY <1>1, <2>1, <2>3, NothingNeeded
    <3> QED
        BY <2>1, <3>1, <3>2 DEF GraceInv
  <2> QED
      BY <2>1, <2>2, <2>3, CheckStep
<1>5. CASE Serve
  <2>1. phase = "ensuring" /\ phase' = "serving" /\ nextTick' = now + Interval
        /\ UNCHANGED <<now, certMeta, config, missed>> /\ Idle /\ Idle' /\ config \in Lists
      BY <1>5 DEF Serve, vars, mem, calls, Idle, CallsInv
  <2>2. ASSUME missed < Tolerance, NEW d \in config.names
        PROVE  certMeta[d] # None /\ certMeta[d] - nextTick' >= Left(missed + 1)
    <3>1. certMeta[d] # None /\ certMeta[d] - now >= RenewBefore
        BY <2>1, <2>2 DEF GraceInv
    <3>2. certMeta[d] \in Nat
        BY <1>1, <2>1, <2>2, <3>1, ListsAssumption DEF TypeOK
    <3>3. Left(missed + 1) \in Int /\ Left(missed + 1) <= RenewBefore - Interval
        BY <1>1, LeftAfterMissed
    <3> QED
        BY <1>1, <2>1, <3>1, <3>2, <3>3, DaysAssumption
  <2> QED
      BY <1>1, <2>1, <2>2 DEF GraceInv, Left
<1>6. CASE Tick
  <2>1. Check /\ Idle /\ phase = "serving" /\ phase' = phase /\ config' = config
        /\ nextTick' = now + Interval /\ config \in Lists /\ now <= nextTick
      BY <1>6 DEF Tick, TickDue, CallsInv, GraceInv
  <2>2. CASE pc'[Main] = "locking" /\ missed' = missed
    <3>1. UNCHANGED <<now, certMeta>>
        BY <2>1, CheckStep DEF mem
    <3>2. ASSUME missed < Tolerance, NEW d \in config.names
          PROVE  certMeta[d] # None /\ certMeta[d] - nextTick' >= Left(missed + 2)
      <4>1. certMeta[d] # None /\ certMeta[d] - nextTick >= Left(missed + 1)
          BY <2>1, <3>2 DEF GraceInv
      <4>2. certMeta[d] \in Nat
          BY <1>1, <2>1, <3>2, <4>1, ListsAssumption DEF TypeOK
      <4>3. Left(missed + 1) \in Int /\ Left(missed + 2) = Left(missed + 1) - Interval
          BY <1>1, LeftAfterMissed
      <4> QED
          BY <1>1, <2>1, <4>1, <4>2, <4>3
    <3> QED
        BY <1>1, <2>1, <2>2, <3>1, <3>2 DEF GraceInv, Idle, Left
  <2>3. CASE ~NeedsAny(config) /\ missed' = 0 /\ UNCHANGED vars
    <3>1. UNCHANGED <<now, certMeta>> /\ Idle'
        BY <2>1, <2>3 DEF vars, mem, calls, Idle
    <3>2. \A d \in config.names : certMeta[d] # None /\ certMeta[d] \in Nat
                                  /\ certMeta[d] - now >= RenewBefore
        BY <1>1, <2>1, <2>3, NothingNeeded
    <3>3. Left(1) = RenewBefore - Interval /\ RenewBefore \in Nat
        BY DaysAssumption DEF Left
    <3>4. \A d \in config.names : certMeta[d] - nextTick' >= Left(1)
        BY <1>1, <2>1, <3>2, <3>3
    <3> QED
        BY <1>1, <2>1, <2>3, <3>1, <3>2, <3>4 DEF GraceInv, Left
  <2> QED
      BY <2>1, <2>2, <2>3, CheckStep
<1>7. CASE Continue
    BY <1>7, CallGrace
<1>8. CASE Die
    BY <1>8 DEF Die, GraceInv
<1>9. CASE UNCHANGED svars
    BY <1>9 DEF svars, vars, mem, calls, service, GraceInv, Idle, Left
<1> QED
    BY <1>2, <1>3, <1>4, <1>5, <1>6, <1>7, <1>8, <1>9 DEF ServiceNext

-----------------------------------------------------------------------------
(* What is saved                                                           *)

\* With disjoint lists, what the start loads for a name of a list is the bundle in
\* the list's own file.
LEMMA OnlyFile ==
    ASSUME ListsApart, FileInv, NEW l \in Lists, NEW d \in l.names
    PROVE  FilesFor(d) = IF Loadable(l.primary) THEN {l.primary} ELSE {}
<1>1. l.primary \in Domain /\ l.primary \in l.names
    BY ListsAssumption
<1>2. ASSUME NEW b \in FilesFor(d)
      PROVE  b = l.primary
  <2>1. b \in Domain /\ crtFile[b] \in Serial /\ d \in issued[crtFile[b]].names
      BY <1>2 DEF FilesFor, Loadable
  <2>2. PICK m \in Lists : m.primary = b /\ m.names = issued[crtFile[b]].names
      BY <2>1 DEF FileInv
  <2> QED
      BY <2>1, <2>2 DEF ListsApart
<1>3. ASSUME Loadable(l.primary)
      PROVE  l.primary \in FilesFor(d)
  <2>1. PICK m \in Lists :
            m.primary = l.primary /\ m.names = issued[crtFile[l.primary]].names
      BY <1>1, <1>3 DEF FileInv, Loadable
  <2>2. m = l
      BY <1>1, <2>1, ListsAssumption DEF ListsApart
  <2> QED
      BY <1>1, <1>3, <2>1, <2>2 DEF FilesFor
<1>4. ASSUME ~Loadable(l.primary)
      PROVE  FilesFor(d) = {}
    BY <1>2, <1>4 DEF FilesFor
<1> QED
    BY <1>2, <1>3, <1>4

\* As long as nobody touches the files and the memory, and the day is no earlier.
LEMMA SavedFrame ==
    ASSUME SavedInv, phase # "down", phase' # "down", TypeOK, config \in Lists,
           UNCHANGED <<issued, disk, mem, config>>, now' >= now, now' \in Nat,
           pc[Main] # "install", missed' = 0 /\ Idle' => ~NeedsAny(config)' \/ (missed = 0 /\ Idle)
    PROVE  SavedInv'
<1>1. Loadable(config.primary)' <=> Loadable(config.primary)
    BY DEF Loadable, disk, Serial
<1>2. NeedsAny(config) => NeedsAny(config)'
  <2>1. SUFFICES ASSUME NEW d \in config.names, Needs(d)
                 PROVE  Needs(d)'
      BY DEF NeedsAny
  <2>2. certMeta' = certMeta /\ certMeta[d] \in Nat \union {None} /\ now \in Nat
      BY ListsAssumption DEF mem, TypeOK
  <2> QED
      BY <2>1, <2>2, DaysAssumption DEF Needs
<1> QED
    BY <1>1, <1>2 DEF SavedInv, disk, mem

LEMMA BootSaved ==
    ASSUME IInv, FileInv, ListsApart, Tolerance > 0, NEW l \in Lists, Boot(l)
    PROVE  SavedInv'
<1>1. /\ UNCHANGED <<issued, crtFile, keyFile, now>> /\ config' = l /\ missed' = Tolerance
      /\ certs' = [d \in Domain |-> IF FilesFor(d) = {} THEN None
                                    ELSE crtFile[LastFile(FilesFor(d))]]
      /\ certMeta' = [d \in Domain |-> IF FilesFor(d) = {} THEN None
                                       ELSE issued[crtFile[LastFile(FilesFor(d))]].exp]
    BY DEF Boot, NewManager, disk
<1>2. l.names \subseteq Domain /\ l.primary \in l.names
    BY ListsAssumption
<1>3. Loadable(l.primary)' <=> Loadable(l.primary)
    BY <1>1 DEF Loadable, Serial
<1>4. CASE Loadable(l.primary)
  <2>1. ASSUME NEW d \in l.names
        PROVE  certs'[d] = crtFile[l.primary]
    <3>1. FilesFor(d) = {l.primary}
        BY <1>4, OnlyFile
    <3>2. LastFile(FilesFor(d)) = l.primary
        BY <1>2, <3>1, LastFileIsOne
    <3> QED
        BY <1>1, <1>2, <3>1, <3>2
  <2> QED
      BY <1>1, <1>3, <1>4, <2>1, ToleranceType DEF SavedInv
<1>5. CASE ~Loadable(l.primary)
  <2>1. FilesFor(l.primary) = {}
      BY <1>2, <1>5, OnlyFile
  <2>2. certMeta'[l.primary] = None
      BY <1>1, <1>2, <2>1
  <2>3. NeedsAny(l)'
      BY <1>2, <2>2 DEF NeedsAny, Needs
  <2> QED
      BY <1>1, <1>3, <1>5, <2>3, ToleranceType DEF SavedInv
<1> QED
    BY <1>4, <1>5

LEMMA CallSaved ==
    ASSUME IInv, CallsInv, FileInv, TickInv, SavedInv, Tolerance > 0, Continue
    PROVE  SavedInv'
<1> USE ServiceAssumption, ToleranceType
<1> DEFINE P == config.primary
<1>1. /\ Step(Main) /\ UNCHANGED <<phase, config, now>>
      /\ phase # "down" /\ config \in Lists
      /\ want[Main] = config /\ NeedsAny(config) /\ FileInv' /\ TypeOK /\ pc[Main] # "idle"
    BY CallStep, CallFiles DEF Continue, CallsInv, Idle, IInv
<1>2. P \in Domain /\ config.names \subseteq Domain
    BY <1>1, ListsAssumption
<1>3. missed' = 0 /\ Idle' => ~NeedsAny(config)'
    BY DEF Continue, Idle, TickInv
<1>4. CASE LockObtain(Main) \/ Recheck(Main) \/ ObtainFail(Main) \/ WriteFails(Main)
  <2>1. UNCHANGED <<issued, disk, mem>> /\ pc[Main] # "install"
      BY <1>4 DEF LockObtain, Recheck, ObtainFail, WriteFails
  <2> QED
      BY <1>1, <1>3, <2>1, SavedFrame DEF TypeOK
<1>5. CASE ObtainOK(Main)
  <2>1. UNCHANGED <<disk, mem>> /\ pc[Main] = "obtaining" /\ pc'[Main] = "openCrt"
      BY <1>1, <1>5 DEF ObtainOK, Goto, TypeOK
  <2>2. PICK r : issued' = Append(issued, r)
      BY <1>5 DEF ObtainOK
  <2>3. Loadable(P)' => Loadable(P)
    <3>1. Len(issued) \in Nat /\ Len(issued') = Len(issued) + 1
          /\ \A i \in Serial : issued'[i] = issued[i]
        BY <1>1, <2>2 DEF TypeOK, Serial
    <3>2. crtFile[P] \in Serial \union {None, Torn}
        BY <1>1, <1>2 DEF TypeOK
    <3>3. crtFile[P] \in Serial' => crtFile[P] \in Serial
        BY <3>2, NoneAssumption DEF Serial
    <3> QED
        BY <1>1, <2>1, <3>1, <3>3 DEF Loadable, disk
  <2> QED
      BY <1>1, <2>1, <2>3, NeedsFrame DEF SavedInv, disk, mem, Idle
<1>6. CASE OpenCrt(Main) \/ FillCrt(Main) \/ OpenKey(Main)
  <2>1. UNCHANGED <<mem, want>> /\ pc'[Main] \in {"fillCrt", "openKey", "fillKey"}
      BY <1>1, <1>6 DEF OpenCrt, FillCrt, OpenKey, Goto, TypeOK
  <2>2. ~Loadable(P)'
      BY <1>1, <2>1 DEF FileInv
  <2> QED
      BY <1>1, <2>1, <2>2, NeedsFrame DEF SavedInv, Idle, mem
<1>7. CASE FillKey(Main)
  <2>1. UNCHANGED mem /\ pc'[Main] = "install"
      BY <1>1, <1>7 DEF FillKey, Goto, TypeOK
  <2> QED
      BY <1>1, <2>1, NeedsFrame DEF SavedInv, Idle, mem
<1>8. CASE Install(Main)
  <2>1. pc[Main] = "install" /\ UNCHANGED <<issued, disk>> /\ draft[Main] \in Serial
        /\ crtFile[P] = draft[Main] /\ keyFile[P] = draft[Main]
      BY <1>1, <1>8 DEF Install, IInv, CallInv, WriteInv, TypeOK
  <2>2. Loadable(P)' <=> issued[draft[Main]].good
      BY <1>1, <2>1 DEF Loadable, disk, Serial
  <2>3. CASE issued[draft[Main]].good
    <3>1. \A d \in config.names : certs'[d] = crtFile'[P]
        BY <1>1, <1>2, <1>8, <2>1, <2>3 DEF Install, disk
    <3> QED
        BY <1>1, <2>2, <2>3, <3>1 DEF SavedInv
  <2>4. CASE ~issued[draft[Main]].good
    <3>1. UNCHANGED mem
        BY <1>8, <2>4 DEF Install
    <3>2. NeedsAny(config)'
        BY <1>1, <3>1, NeedsFrame DEF mem
    <3> QED
        BY <1>1, <1>3, <2>2, <2>4, <3>2 DEF SavedInv
  <2> QED
      BY <2>3, <2>4
<1> QED
    BY <1>1, <1>4, <1>5, <1>6, <1>7, <1>8 DEF Step

LEMMA SavedStep ==
    ASSUME IInv, CallsInv, FileInv, TickInv, ListsApart, Tolerance > 0, SavedInv,
           [ServiceNext]_svars
    PROVE  SavedInv'
<1> USE ToleranceType
<1>1. TypeOK /\ now \in Nat
    BY DEF IInv, TypeOK
<1>2. CASE phase' = "down"
    BY <1>2 DEF SavedInv
<1>3. CASE phase = "down" /\ phase' # "down"
  <2>1. PICK l \in Lists : Boot(l)
      BY <1>3 DEF ServiceNext, Day, BootCheck, Serve, Tick, TickDue, Continue, Die, service, svars
  <2> QED
      BY <2>1, BootSaved
<1>4. CASE Continue
    BY <1>4, CallSaved
<1>5. CASE phase # "down" /\ phase' # "down" /\ (Day \/ BootCheck \/ Serve \/ Tick \/ UNCHANGED svars)
  <2>1. config \in Lists /\ config' = config
      BY <1>5 DEF CallsInv, Day, BootCheck, Serve, Tick, svars, service
  <2>2. CASE Day
    <3>1. UNCHANGED <<issued, disk, mem, pc, missed>> /\ now' = now + 1 /\ Idle /\ Idle'
        BY <2>2 DEF Day, NextDay, calls, service, Idle
    <3> QED
        BY <1>1, <1>5, <2>1, <3>1, SavedFrame DEF Idle
  <2>3. CASE BootCheck \/ Tick
    <3>1. Check /\ Idle
        BY <2>3 DEF BootCheck, Tick, CallsInv, Idle
    <3>2. UNCHANGED <<issued, disk, mem, now>>
        BY <3>1, CheckStep
    <3>3. missed' = 0 /\ Idle' => ~NeedsAny(config)' \/ (missed = 0 /\ Idle)
        BY <2>1, <3>1, <3>2, CheckStep, NeedsFrame DEF mem
    <3> QED
        BY <1>1, <1>5, <2>1, <3>1, <3>2, <3>3, SavedFrame DEF Idle
  <2>4. CASE Serve
    <3>1. UNCHANGED <<issued, disk, mem, now, pc, missed>> /\ Idle /\ Idle'
        BY <2>4 DEF Serve, vars, calls, Idle
    <3> QED
        BY <1>1, <1>5, <2>1, <3>1, SavedFrame DEF Idle
  <2>5. CASE UNCHANGED svars
      BY <2>5 DEF svars, vars, service, disk, mem, calls, SavedInv, Loadable, Serial, NeedsAny,
         Needs, Idle
  <2> QED
      BY <1>5, <2>2, <2>3, <2>4, <2>5
<1>6. ASSUME NEW l \in Lists, Boot(l)
      PROVE  SavedInv'
    BY <1>6, BootSaved
<1>7. Die => phase' = "down"
    BY DEF Die
<1> QED
    BY <1>2, <1>3, <1>4, <1>5, <1>6, <1>7 DEF ServiceNext

-----------------------------------------------------------------------------
(* The theorems                                                            *)

LEMMA ServiceStart == ServiceInit => CallsInv /\ FileInv /\ GraceInv /\ SavedInv
<1> SUFFICES ASSUME ServiceInit
             PROVE  CallsInv /\ FileInv /\ GraceInv /\ SavedInv
    OBVIOUS
<1>1. pc[Main] = "idle" /\ phase = "down" /\ ~up /\ \A b \in Domain : crtFile[b] = None
    BY ServiceAssumption DEF ServiceInit, Init
<1>2. None \notin Serial
    BY NoneAssumption DEF Serial
<1> QED
    BY <1>1, <1>2 DEF CallsInv, FileInv, GraceInv, SavedInv, Idle

\* The inductive invariant of the life cycle: what a call in progress has done to the
\* files of its list, what is left of the certificates when the next tick is due, and
\* that a bundle which is missing on disk or in memory is one that will be renewed.
THEOREM ServiceInvariance == ServiceSpec => []ServiceInv
<1> DEFINE Apart == ListsApart /\ Tolerance > 0
           I == TickInv /\ CallsInv /\ FileInv /\ GraceInv /\ (Apart => SavedInv)
<1>1. ServiceInit => I
    BY ServiceStart, ToleranceType DEF ServiceInit, TickInv
<1>2. IInv /\ I /\ [ServiceNext]_svars => I'
  <2> SUFFICES ASSUME IInv, I, [ServiceNext]_svars
               PROVE  I'
      OBVIOUS
  <2>1. TickInv'
      BY TickStep DEF IInv, TypeOK
  <2>2. CallsInv'
      BY CallsStep
  <2>3. FileInv'
      BY FileStep
  <2>4. GraceInv'
      BY GraceStep
  <2>5. Apart' => SavedInv'
    <3>1. Apart' <=> Apart
        BY DEF ListsApart, Tolerance
    <3> QED
        BY <3>1, SavedStep
  <2> QED
      BY <2>1, <2>2, <2>3, <2>4, <2>5
<1>3. ServiceTypeOK /\ IInv /\ I => ServiceInv
    BY DEF ServiceInv
<1>4. ServiceSpec => []IInv
    BY ServiceImplementsManager, Invariance, PTL
<1> QED
    BY <1>1, <1>2, <1>3, <1>4, ServiceTypes, PTL DEF ServiceSpec

\* With a grace of n checks a settled service has every configured certificate in
\* date until n checks in a row have failed, whatever the window, the interval, the
\* lifetime and the configurations.
THEOREM GraceIsEnough == ServiceSpec => []GraceHolds
<1>1. ServiceInv => GraceHolds
  <2> SUFFICES ASSUME ServiceInv, Settled, missed < Tolerance, NEW d \in config.names
               PROVE  InDate(d)
      BY DEF GraceHolds
  <2>1. /\ phase = "serving" /\ Idle /\ now < nextTick /\ now \in Nat /\ nextTick \in Nat
        /\ missed \in Nat /\ config \in Lists
    <3>1. TypeOK /\ now <= nextTick
        BY DEF ServiceInv, ServiceTypeOK, Settled, GraceInv
    <3> QED
        BY <3>1, ToleranceType DEF ServiceInv, ServiceTypeOK, TypeOK, Settled, TickDue, CallsInv
  <2>2. d \in Domain
      BY <2>1, ListsAssumption
  <2>3. certMeta[d] # None /\ certMeta[d] - nextTick >= Left(missed + 1)
      BY <2>1 DEF ServiceInv, GraceInv
  <2>4. Left(missed + 1) >= 0 /\ Left(missed + 1) \in Int
    <3>1. missed + 1 \in Nat /\ missed + 1 <= Tolerance
        BY <2>1, ToleranceType
    <3> QED
        BY <2>1, <3>1, LeftInWindow, LeftAfterMissed
  <2>5. certMeta[d] \in Nat
      BY <2>2, <2>3 DEF ServiceInv, IInv, TypeOK
  <2>6. certMeta[d] > now
      BY <2>1, <2>3, <2>4, <2>5
  <2>7. certs[d] # None /\ issued[certs[d]].exp = certMeta[d]
      BY <2>2, <2>3 DEF ServiceInv, IInv, MemoryMatchesCertificates
  <2> QED
      BY <2>1, <2>5, <2>6, <2>7 DEF InDate
<1> QED
    BY <1>1, ServiceInvariance, PTL

\* After a successful check, a crash and a restart with the same configuration find
\* what was served, if no name is in two lists and the window holds a check.
THEOREM RestartsFind ==
    ASSUME ListsApart, Tolerance > 0
    PROVE  ServiceSpec => []RestartFindsCertificates
<1>1. ServiceInv => RestartFindsCertificates
  <2> SUFFICES ASSUME ServiceInv, Settled, missed = 0, NEW d \in config.names
               PROVE  FilesFor(d) # {} /\ crtFile[LastFile(FilesFor(d))] = certs[d]
      BY DEF RestartFindsCertificates
  <2>1. phase = "serving" /\ Idle /\ config \in Lists /\ d \in Domain
      BY ListsAssumption DEF Settled, ServiceInv, CallsInv
  <2>2. Loadable(config.primary) /\ certs[d] = crtFile[config.primary]
      BY <2>1 DEF ServiceInv, SavedInv, Idle
  <2>3. FilesFor(d) = {config.primary}
      BY <2>1, <2>2, OnlyFile DEF ServiceInv
  <2> QED
      BY <2>1, <2>2, <2>3, LastFileIsOne
<1> QED
    BY <1>1, ServiceInvariance, PTL

\* The CA is not asked for a list whose bundle on disk has more than the window left,
\* under the same conditions: neither crashes nor restarts cost requests.
THEOREM SparesTheCA ==
    ASSUME ListsApart, Tolerance > 0
    PROVE  ServiceSpec => DiskSparesTheCA
<1>1. ServiceInv /\ [ServiceNext]_svars =>
        (issued' # issued =>
           ~\E b \in Domain :
              /\ Loadable(b)
              /\ issued[crtFile[b]].names = config.names
              /\ issued[crtFile[b]].exp - now >= RenewBefore)
  <2> SUFFICES ASSUME ServiceInv, [ServiceNext]_svars, issued' # issued, NEW b \in Domain,
                      Loadable(b), issued[crtFile[b]].names = config.names,
                      issued[crtFile[b]].exp - now >= RenewBefore
               PROVE  FALSE
      OBVIOUS
  <2>1. ObtainOK(Main)
    <3>1. Continue
        BY DEF ServiceNext, Day, NextDay, Boot, NewManager, BootCheck, Tick, Check,
           EnsureDomains, Serve, Die, Crash, svars, vars
    <3> QED
        BY <3>1 DEF Continue, Step, LockObtain, Recheck, ObtainFail, OpenCrt, FillCrt, OpenKey,
           FillKey, WriteFails, Install
  <2>2. pc[Main] = "obtaining" /\ NeedsAny(config) /\ config \in Lists /\ phase # "down"
      BY <2>1 DEF ObtainOK, ServiceInv, CallsInv, Idle
  <2>3. b = config.primary
    <3>1. PICK m \in Lists : m.primary = b /\ m.names = issued[crtFile[b]].names
        BY DEF ServiceInv, FileInv, Loadable
    <3> QED
        BY <2>2, <3>1, ListsAssumption DEF ListsApart
  <2>4. PICK d \in config.names : Needs(d)
      BY <2>2 DEF NeedsAny
  <2>5. d \in Domain /\ certs[d] = crtFile[b] /\ certs[d] \in Serial
      BY <2>2, <2>3, <2>4, ListsAssumption DEF ServiceInv, SavedInv, Loadable
  <2>6. certMeta[d] = issued[crtFile[b]].exp /\ certMeta[d] \in Nat /\ now \in Nat
      BY <2>5, NoneAssumption DEF ServiceInv, IInv, MemoryMatchesCertificates, TypeOK, Serial
  <2> QED
      BY <2>4, <2>6, NoneAssumption, DaysAssumption DEF Needs
<1> QED
    BY <1>1, ServiceInvariance, PTL DEF ServiceSpec, DiskSparesTheCA

\* What README.md says of renewal holds as long as the operator never edits the list
\* of names: while checks succeed no handshake gets a certificate past its expiry.
THEOREM RenewedWithoutEdits ==
    ASSUME \A l, m \in Lists : l.names = m.names, Tolerance > 0
    PROVE  ServiceSpec => []ServedCertsAreRenewed
<1> DEFINE Listed == \A d \in Domain : certs[d] # None => \E l \in Lists : d \in l.names
<1>1. ASSUME ServiceInv, GraceHolds, Listed
      PROVE  ServedCertsAreRenewed
  <2> SUFFICES ASSUME Settled, missed = 0, NEW h \in Domain, GetCertificate(h) # None
               PROVE  now < issued[GetCertificate(h)].exp
      BY DEF ServedCertsAreRenewed
  <2>1. PICK d \in Domain : GetCertificate(h) = certs[d]
      BY NamesAssumption DEF GetCertificate
  <2>2. d \in config.names
    <3>1. config \in Lists
        BY <1>1 DEF ServiceInv, CallsInv, Settled
    <3> QED
        BY <1>1, <2>1, <3>1
  <2>3. InDate(d)
      BY <1>1, <2>2 DEF GraceHolds
  <2> QED
      BY <2>1, <2>3 DEF InDate
<1>2. ServiceSpec => []Listed
    BY ServiceImplementsManager, ServesListed, PTL
<1> QED
    BY <1>1, <1>2, ServiceInvariance, GraceIsEnough, PTL
=============================================================================
