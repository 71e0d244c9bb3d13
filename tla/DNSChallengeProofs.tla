-------------------------- MODULE DNSChallengeProofs --------------------------
(***************************************************************************)
(* The safety properties of DNSChallenge for any authorizations, names and *)
(* bounds: an invariant, one lemma per conjunct, one step per action.      *)
(***************************************************************************)
EXTENDS DNSChallenge, TLAPS

\* Records are told apart by their owners.
LEMMA OneRecord ==
    ASSUME NEW a, NEW S, TXT(a) \in {TXT(b) : b \in S}
    PROVE  a \in S
BY DEF TXT

\* Live in terms of authorizations.
LEMMA LiveCases ==
    ASSUME NEW a
    PROVE  TXT(a) \in Live <=>
             (phase = "present" /\ a \in order \ todo) \/ (phase = "solve" /\ a \in todo)
<1>1. CASE phase = "present"
    BY <1>1, OneRecord DEF Live
<1>2. CASE phase = "solve"
    BY <1>2, OneRecord DEF Live
<1>3. CASE phase \notin {"present", "solve"}
    BY <1>3 DEF Live
<1> QED
    BY <1>1, <1>2, <1>3

LEMMA InitInv == Init => IInv
<1> SUFFICES ASSUME Init PROVE IInv
    OBVIOUS
<1>1. TypeOK
    BY AuthzAssumption DEF Init, TypeOK
<1>2. Live = {} /\ zone = {} /\ current = None
    BY DEF Init, Live
<1>3. NoDuplicate /\ PresentInv /\ LiveInv
    BY <1>2, AuthzAssumption DEF NoDuplicate, PresentInv, LiveInv
<1>4. FailsOnlyByFault /\ ZoneInv
    BY AuthzAssumption DEF Init, FailsOnlyByFault, ZoneInv, Alone
<1> QED
    BY <1>1, <1>3, <1>4 DEF IInv

LEMMA DoneTypes ==
    ASSUME NEW a, NEW next \in {"solve", "cleanup"}, TypeOK, Done(a, next), order' = order
    PROVE  todo' \subseteq order' /\ phase' \in {"idle", "present", "solve", "cleanup"}
BY DEF Done, TypeOK

LEMMA TypeStep == ASSUME TypeOK, PresentInv, Next PROVE TypeOK'
<1> USE AuthzAssumption
<1>1. CASE NewOrder
    BY <1>1 DEF NewOrder, TypeOK, PresentInv
<1>2. CASE EndOrder
  <2>1. gen' \in [Authz -> Nat]
      BY <1>2 DEF EndOrder, TypeOK
  <2>2. faults' \in 0..MaxFault
      BY <1>2 DEF EndOrder, Fault, TypeOK
  <2> QED
      BY <1>2, <2>1, <2>2 DEF EndOrder, TypeOK, PresentInv
<1>3. ASSUME NEW a \in Authz, PreCleanup(a) PROVE TypeOK'
  <2>1. faults' \in 0..MaxFault /\ zone' \subseteq Record
      BY <1>3 DEF PreCleanup, Fault, SameName, TypeOK
  <2> QED
      BY <1>3, <2>1 DEF PreCleanup, TypeOK
<1>4. ASSUME NEW a \in Authz, CreateRecord(a) PROVE TypeOK'
  <2>1. TXT(a) \in Record
      BY DEF TXT, Record, TypeOK
  <2>2. /\ faults' \in 0..MaxFault
        /\ zone' \subseteq Record /\ recordIDs' \subseteq Record
        /\ fate' \in [Authz -> {"none", "pending", "invalid"}]
      BY <1>4, <2>1 DEF CreateRecord, Fault, TypeOK
  <2>3. todo' \subseteq order' /\ phase' \in {"idle", "present", "solve", "cleanup"}
      BY <1>4, DoneTypes DEF CreateRecord
  <2> QED
      BY <1>4, <2>2, <2>3 DEF CreateRecord, TypeOK
<1>5. ASSUME NEW a \in Authz, Solve(a) PROVE TypeOK'
  <2>1. /\ faults' \in 0..MaxFault /\ valid' \subseteq Authz
        /\ fate' \in [Authz -> {"none", "pending", "invalid"}]
      BY <1>5 DEF Solve, Fault, TypeOK
  <2>2. todo' \subseteq order' /\ phase' \in {"idle", "present", "solve", "cleanup"}
      BY <1>5, DoneTypes DEF Solve
  <2> QED
      BY <1>5, <2>1, <2>2 DEF Solve, TypeOK, PresentInv
<1>6. ASSUME NEW a \in Authz, CleanUp(a) PROVE TypeOK'
  <2>1. /\ faults' \in 0..MaxFault
        /\ zone' \subseteq Record /\ recordIDs' \subseteq Record
      BY <1>6 DEF CleanUp, Fault, TypeOK
  <2> QED
      BY <1>6, <2>1 DEF CleanUp, TypeOK, PresentInv
<1>7. CASE Crash
    BY <1>7 DEF Crash, TypeOK
<1>8. ASSUME NEW a \in Authz, Expire(a) PROVE TypeOK'
    BY <1>8 DEF Expire, TypeOK
<1> QED
    BY <1>1, <1>2, <1>3, <1>4, <1>5, <1>6, <1>7, <1>8 DEF Next, OrderStep

LEMMA PresentStep == ASSUME PresentInv, TypeOK, Next PROVE PresentInv'
BY DEF PresentInv, TypeOK, Next, OrderStep, NewOrder, EndOrder, PreCleanup, CreateRecord,
   Solve, CleanUp, Crash, Expire, Done

\* A failure is never forgotten.
LEMMA FaultsGrow == ASSUME TypeOK, Next, faults' = 0 PROVE faults = 0
BY DEF TypeOK, Next, OrderStep, NewOrder, EndOrder, PreCleanup, CreateRecord, Solve, CleanUp,
   Crash, Expire, Fault

LEMMA CrashesGrow == ASSUME TypeOK, Next, crashes' = 0 PROVE crashes = 0 /\ ~Crash
BY DEF TypeOK, Next, OrderStep, NewOrder, EndOrder, PreCleanup, CreateRecord, Solve, CleanUp,
   Crash, Expire

\* Without failures each action is its first disjunct.
LEMMA Unfaulted == ASSUME TypeOK, faults = 0, Fault, faults' = 0 PROVE FALSE
BY DEF Fault

LEMMA DuplicateStep == ASSUME IInv, Next PROVE NoDuplicate'
<1> SUFFICES ASSUME NEW a \in Fixed, faults' = 0, current' = a
             PROVE  TXT(a)' \notin zone'
    BY DEF NoDuplicate
<1> USE AuthzAssumption DEF IInv
<1>1. a \in Authz /\ a # None /\ faults = 0
    BY FaultsGrow
<1>2. CASE current = a
  <2>1. TXT(a) \notin zone /\ phase = "present"
      BY <1>1, <1>2 DEF NoDuplicate, PresentInv
  <2>2. UNCHANGED <<zone, gen>>
      BY <1>1, <1>2, <2>1 DEF Next, OrderStep, NewOrder, EndOrder, PreCleanup, CreateRecord,
         Solve, CleanUp, Crash, Expire
  <2> QED
      BY <2>1, <2>2 DEF TXT
<1>3. CASE current # a
  <2>1. PreCleanup(a)
      BY <1>1, <1>3 DEF Next, OrderStep, NewOrder, EndOrder, PreCleanup, CreateRecord,
         Solve, CleanUp, Crash, Expire
  <2>2. zone' = zone \ SameName(a) /\ gen' = gen
      BY <1>1, <2>1, Unfaulted DEF PreCleanup
  <2> QED
      BY <2>2 DEF SameName, TXT
<1> QED
    BY <1>2, <1>3

LEMMA FateStep == ASSUME IInv, Next PROVE FailsOnlyByFault'
<1> SUFFICES ASSUME NEW a \in Alone, faults' = 0
             PROVE  fate'[a] = "none"
    BY DEF FailsOnlyByFault, Alone
<1> USE AuthzAssumption DEF IInv
<1>1. a \in Fixed /\ a \in Authz /\ faults = 0 /\ fate[a] = "none"
    BY FaultsGrow DEF Alone, FailsOnlyByFault
<1>2. ASSUME NEW b \in Authz, CreateRecord(b) PROVE fate'[a] = "none"
  <2>1. CASE b = a
    <3>1. TXT(a) \notin zone
        BY <1>1, <1>2, <2>1 DEF CreateRecord, NoDuplicate
    <3> QED
        BY <1>1, <1>2, <2>1, <3>1, Unfaulted DEF CreateRecord
  <2>2. CASE b # a
      BY <1>1, <1>2, <2>2 DEF CreateRecord, TypeOK
  <2> QED
      BY <2>1, <2>2
<1>3. ASSUME NEW b \in Authz, Solve(b) PROVE fate'[a] = "none"
  <2>1. CASE b = a
    <3>1. TXT(a) \in zone
        BY <1>1, <1>3, <2>1, LiveCases DEF Solve, LiveInv
    <3> QED
        BY <1>1, <1>3, <2>1, <3>1, Unfaulted DEF Solve
  <2>2. CASE b # a
      BY <1>1, <1>3, <2>2 DEF Solve, TypeOK
  <2> QED
      BY <2>1, <2>2
<1>4. ASSUME NewOrder \/ EndOrder \/ Crash
             \/ \E b \in Authz : PreCleanup(b) \/ CleanUp(b) \/ Expire(b)
      PROVE  fate'[a] = "none"
    BY <1>1, <1>4 DEF NewOrder, EndOrder, PreCleanup, CleanUp, Crash, Expire
<1> QED
    BY <1>2, <1>3, <1>4 DEF Next, OrderStep

LEMMA LiveStep == ASSUME IInv, Next PROVE LiveInv'
<1> SUFFICES ASSUME NEW a \in Alone, faults' = 0, TXT(a)' \in Live'
             PROVE  TXT(a)' \in zone'
    BY DEF LiveInv, Alone
<1> USE AuthzAssumption DEF IInv
<1>1. a \in Fixed /\ a \in Authz /\ faults = 0
    BY FaultsGrow DEF Alone
<1>2. \/ phase' = "present" /\ a \in order' \ todo'
      \/ phase' = "solve" /\ a \in todo'
  <2>1. CASE phase' = "present"
      BY <2>1 DEF Live, TXT
  <2>2. CASE phase' = "solve"
      BY <2>2 DEF Live, TXT
  <2>3. CASE phase' \notin {"present", "solve"}
      BY <2>3 DEF Live
  <2> QED
      BY <2>1, <2>2, <2>3
<1>3. ASSUME NEW b \in Authz, PreCleanup(b) PROVE TXT(a)' \in zone'
  <2>1. TXT(a) \in zone /\ b # a
      BY <1>1, <1>2, <1>3, LiveCases DEF PreCleanup, LiveInv
  <2>2. zone \ SameName(b) \subseteq zone' /\ gen' = gen
      BY <1>1, <1>3, Unfaulted DEF PreCleanup
  <2>3. TXT(a) \notin SameName(b)
      BY <2>1 DEF SameName, TXT, Alone
  <2> QED
      BY <2>1, <2>2, <2>3 DEF TXT
<1>4. ASSUME NEW b \in Authz, CreateRecord(b) PROVE TXT(a)' \in zone'
  <2>1. gen' = gen /\ zone \subseteq zone' /\ phase = "present"
      BY <1>4 DEF CreateRecord, PresentInv
  <2>2. CASE b = a
    <3>1. TXT(a) \notin zone
        BY <1>1, <1>4, <2>2 DEF CreateRecord, NoDuplicate
    <3> QED
        BY <1>1, <1>4, <2>1, <2>2, <3>1, Unfaulted DEF CreateRecord, TXT
  <2>3. CASE b # a
    <3>1. a \in order \ todo
        BY <1>2, <1>4, <2>1, <2>3 DEF CreateRecord, Done
    <3> QED
        BY <1>1, <2>1, <3>1, LiveCases DEF LiveInv, TXT
  <2> QED
      BY <2>2, <2>3
<1>5. ASSUME NEW b \in Authz, Solve(b) PROVE TXT(a)' \in zone'
  <2>1. phase = "solve" /\ a \in todo /\ gen' = gen /\ zone' = zone
      BY <1>2, <1>5 DEF Solve, Done
  <2> QED
      BY <1>1, <2>1, LiveCases DEF LiveInv, TXT
<1>6. ASSUME NewOrder \/ EndOrder \/ Crash \/ \E b \in Authz : CleanUp(b) \/ Expire(b)
      PROVE  FALSE
    BY <1>2, <1>6 DEF NewOrder, EndOrder, CleanUp, Crash, Expire
<1> QED
    BY <1>3, <1>4, <1>5, <1>6 DEF Next, OrderStep

LEMMA ZoneStep == ASSUME IInv, Next PROVE ZoneInv'
<1> DEFINE S == IF phase = "cleanup" THEN todo ELSE order
<1> SUFFICES ASSUME faults' = 0, crashes' = 0
             PROVE  /\ zone' \subseteq recordIDs'
                    /\ zone' \subseteq {TXT(a)' : a \in S'}
                    /\ phase' = "idle" => order' = {}
    BY DEF ZoneInv
<1> USE AuthzAssumption DEF IInv
<1>1. /\ faults = 0 /\ crashes = 0 /\ ~Crash
      /\ zone \subseteq recordIDs
      /\ zone \subseteq {TXT(a) : a \in S}
      /\ phase = "idle" => order = {}
    BY FaultsGrow, CrashesGrow DEF ZoneInv
<1>2. CASE phase = "idle"
  <2>1. zone = {}
      BY <1>1, <1>2
  <2> QED
      BY <1>1, <1>2, <2>1 DEF Next, OrderStep, NewOrder, EndOrder, PreCleanup, CreateRecord,
         Solve, CleanUp, Expire, PresentInv
<1>3. ASSUME NEW b \in Authz, PreCleanup(b)
      PROVE  zone' \subseteq recordIDs' /\ zone' \subseteq {TXT(a)' : a \in S'} /\ phase' # "idle"
    BY <1>1, <1>3 DEF PreCleanup, TXT
<1>4. ASSUME NEW b \in Authz, CreateRecord(b)
      PROVE  zone' \subseteq recordIDs' /\ zone' \subseteq {TXT(a)' : a \in S'} /\ phase' # "idle"
  <2>1. /\ phase = "present" /\ phase' \in {"present", "solve"} /\ b \in order
        /\ order' = order /\ gen' = gen
      BY <1>4 DEF CreateRecord, Done, PresentInv, TypeOK
  <2>2. \/ zone' = zone \union {TXT(b)} /\ recordIDs' = recordIDs \union {TXT(b)}
        \/ zone' = zone /\ recordIDs' = recordIDs
      BY <1>4 DEF CreateRecord
  <2> QED
      BY <1>1, <2>1, <2>2 DEF TXT
<1>5. ASSUME NEW b \in Authz, Solve(b)
      PROVE  zone' \subseteq recordIDs' /\ zone' \subseteq {TXT(a)' : a \in S'} /\ phase' # "idle"
  <2>1. S' = order /\ S = order /\ phase' # "idle" /\ UNCHANGED <<zone, recordIDs, gen>>
      BY <1>5 DEF Solve, Done
  <2> QED
      BY <1>1, <2>1 DEF TXT
<1>6. ASSUME NEW b \in Authz, CleanUp(b)
      PROVE  zone' \subseteq recordIDs' /\ zone' \subseteq {TXT(a)' : a \in S'} /\ phase' # "idle"
  <2>1. /\ phase = "cleanup" /\ phase' = "cleanup" /\ gen' = gen
        /\ todo' = todo \ {b}
      BY <1>6 DEF CleanUp
  <2>2. zone' = zone \ {TXT(b)} /\ zone' \subseteq recordIDs'
      BY <1>1, <1>6, Unfaulted DEF CleanUp
  <2> QED
      BY <1>1, <2>1, <2>2 DEF TXT
<1>7. ASSUME EndOrder
      PROVE  zone' = {} /\ order' = {}
    BY <1>1, <1>7 DEF EndOrder
<1> QED
    BY <1>1, <1>2, <1>3, <1>4, <1>5, <1>6, <1>7 DEF Next, OrderStep, NewOrder, Expire

LEMMA StutterStep == ASSUME IInv, UNCHANGED vars PROVE IInv'
BY DEF vars, IInv, TypeOK, PresentInv, NoDuplicate, FailsOnlyByFault, LiveInv, ZoneInv, Alone,
   Live, TXT

\* The invariant of the order of calls around arvancloudFixProvider and the zones.
THEOREM Invariance == Spec => []IInv
<1>1. IInv /\ [Next]_vars => IInv'
  <2>1. IInv /\ Next => IInv'
      BY TypeStep, PresentStep, DuplicateStep, FateStep, LiveStep, ZoneStep DEF IInv
  <2> QED
      BY <2>1, StutterStep
<1> QED
    BY <1>1, InitInv, PTL DEF Spec

\* Whatever an earlier order has left in the zones, arvancloudFixProvider.Present
\* never adds a record that is there already, unless a call to the API failed.
THEOREM NeverRejected == Spec => []NoDuplicate
BY Invariance, PTL DEF IInv

\* Between orders without failures and crashes the zones hold no challenge: each
\* CleanUp removes what its Present made.
THEOREM CleansUp == Spec => []NothingLeft
<1>1. IInv => NothingLeft
    BY DEF IInv, ZoneInv, NothingLeft
<1> QED
    BY <1>1, Invariance, PTL

\* Without failures an authorization with a name of its own is never refused, however
\* the other authorizations of the order are presented, solved and cleaned up.
THEOREM OthersUnharmed == Spec => []FailsOnlyByFault
BY Invariance, PTL DEF IInv

\* A record that the CA has still to look at is removed only by the pre-cleanup of
\* another ArvanCloud authorization with the same name.
LostToSharer ==
    \A r \in zone \ zone' : r \in Live =>
      \E b \in Fixed \ {r.owner} : NameOf[b] = NameOf[r.owner]

LEMMA RemovalStep == ASSUME TypeOK, [Next]_vars PROVE LostToSharer
<1> SUFFICES ASSUME NEW r \in zone, r \notin zone', r \in Live
             PROVE  \E b \in Fixed \ {r.owner} : NameOf[b] = NameOf[r.owner]
    BY DEF LostToSharer
<1>1. ASSUME NEW a \in Authz, PreCleanup(a)
      PROVE  \E b \in Fixed \ {r.owner} : NameOf[b] = NameOf[r.owner]
  <2>1. phase = "present" /\ a \in todo /\ a \in Fixed /\ r \in SameName(a)
      BY <1>1 DEF PreCleanup
  <2>2. PICK b \in order \ todo : r = TXT(b)
      BY <2>1 DEF Live
  <2>3. r.owner = b /\ b # a
      BY <2>1, <2>2 DEF TXT
  <2> QED
      BY <2>1, <2>3 DEF SameName
<1>2. ASSUME NEW a \in Authz, CleanUp(a) PROVE FALSE
    BY <1>2 DEF CleanUp, Live
<1> QED
    BY <1>1, <1>2 DEF Next, OrderStep, NewOrder, EndOrder, CreateRecord, Solve, Crash, Expire, vars

\* arvancloudFixProvider takes a live record away only for a domain and its wildcard in
\* one order: no other step, no CleanUp and no other name's pre-cleanup does.
THEOREM OnlySharersRemove == Spec => [][LostToSharer]_vars
<1>1. IInv /\ [Next]_vars => LostToSharer
    BY RemovalStep DEF IInv
<1> QED
    BY <1>1, Invariance, PTL DEF Spec

\* Where no two authorizations of an order share a name, arvancloudFixProvider does
\* what its comment says: it removes only stale records.
THEOREM StaleOnly ==
    ASSUME \A a, b \in Authz : NameOf[a] = NameOf[b] => a = b
    PROVE  Spec => OnlyStaleRemoved
<1>1. ASSUME IInv, [Next]_vars
      PROVE  \A r \in zone \ zone' : r \notin Live
  <2>1. zone \subseteq Record /\ \A r \in Record : r.owner \in Authz
      BY <1>1 DEF IInv, TypeOK, Record
  <2> QED
      BY <1>1, <2>1, RemovalStep, AuthzAssumption DEF LostToSharer, IInv
<1> QED
    BY <1>1, Invariance, PTL DEF Spec, OnlyStaleRemoved
=============================================================================
