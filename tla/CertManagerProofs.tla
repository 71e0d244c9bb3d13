------------------------- MODULE CertManagerProofs -------------------------
(***************************************************************************)
(* Proofs about CertManager, for every set of domains, lists and callers   *)
(* and every bound.                                                        *)
(***************************************************************************)
EXTENDS CertManager, TLAPS

USE DEF Serial

-----------------------------------------------------------------------------
(* Lemmas about the operators                                              *)

\* The file from which a domain's entry is loaded is one of those that hold a
\* certificate for it.
LEMMA LastFileIsOne ==
    ASSUME NEW d \in Domain, FilesFor(d) # {}
    PROVE  LastFile(FilesFor(d)) \in FilesFor(d)
BY NamesAssumption DEF FilesFor, LastFile

\* A longer list of bundles leaves the old ones as they are.
LEMMA AppendBundle ==
    ASSUME issued \in Seq(Bundle), NEW r \in Bundle
    PROVE  /\ Append(issued, r) \in Seq(Bundle)
           /\ Len(Append(issued, r)) = Len(issued) + 1
           /\ \A i \in Serial : Append(issued, r)[i] = issued[i]
           /\ Append(issued, r)[Len(issued) + 1] = r
OBVIOUS

\* What a bundle of the list holds.
LEMMA BundleFields ==
    ASSUME TypeOK, NEW i \in Serial
    PROVE  /\ issued[i].names \in SUBSET Domain
           /\ issued[i].exp \in Nat
<1>1. issued[i] \in Bundle
    BY DEF TypeOK
<1> QED
    BY <1>1 DEF Bundle

\* At most one caller is between Lock and Unlock.
LEMMA OneHolder ==
    ASSUME LockInv, NEW c \in Caller, NEW e \in Caller,
           pc[c] \in Holding, pc[e] \in Holding
    PROVE  c = e
BY DEF LockInv

\* Only the caller that writes or installs carries a bundle.
LEMMA DraftOfHolder ==
    ASSUME LockInv, CallInv, NEW c \in Caller, NEW e \in Caller,
           pc[c] \in Holding, draft[e] # None
    PROVE  c = e
BY OneHolder DEF CallInv, Holding, PC

-----------------------------------------------------------------------------
(* The initial state                                                       *)

LEMMA InitInv == Init => IInv
<1> SUFFICES ASSUME Init PROVE IInv
    OBVIOUS
<1>1. TypeOK
  <2>1. issued \in Seq(Bundle) /\ now \in Nat /\ crashes \in Nat /\ faults \in Nat
    BY DEF Init
  <2>2. pc \in [Caller -> PC]
    BY DEF Init, PC
  <2>3. crtFile \in [Domain -> Serial \union {None, Torn}]
    BY DEF Init
  <2> QED
    BY <2>1, <2>2, <2>3 DEF Init, TypeOK
<1>2. LockInv
    BY NoneAssumption DEF Init, LockInv, Holding
<1>3. CallInv /\ WriteInv /\ OrderInv /\ DraftInv
    BY DEF Init, CallInv, WriteInv, OrderInv, DraftInv
<1>4. MemoryMatchesCertificates
    BY DEF Init, MemoryMatchesCertificates
<1> QED
    BY <1>1, <1>2, <1>3, <1>4 DEF IInv

-----------------------------------------------------------------------------
(* Steps that touch neither the memory nor the list of bundles             *)

\* With the bundles, the memory and the clock as they were, what is said of
\* them stays true.
LEMMA FrameInv ==
    ASSUME IInv, UNCHANGED <<now, issued, mem>>
    PROVE  OrderInv' /\ MemoryMatchesCertificates'
BY DEF IInv, OrderInv, MemoryMatchesCertificates, mem

\* A return gives up the lock and the bundle.
LEMMA ReturnInv ==
    ASSUME IInv, NEW c \in Caller, pc[c] \in Holding, Return(c),
           UNCHANGED <<now, issued, up, mem>>, disk' = disk
    PROVE  LockInv' /\ CallInv' /\ WriteInv' /\ DraftInv'
<1> USE DEF IInv
<1>1. LockInv'
    BY OneHolder, NoneAssumption DEF Return, Goto, LockInv, Holding, TypeOK, PC
<1>2. CallInv'
    BY OneHolder DEF Return, Goto, CallInv, Holding, TypeOK, PC, NeedsAny, Needs, mem
<1>3. WriteInv'
    BY DEF Return, Goto, WriteInv, CallInv, Holding, TypeOK, PC, disk
<1>4. DraftInv'
    BY DEF Return, Goto, DraftInv, TypeOK
<1> QED
    BY <1>1, <1>2, <1>3, <1>4

LEMMA ReturnType ==
    ASSUME TypeOK, NEW c \in Caller, Return(c)
    PROVE  /\ obtainMu' \in Caller \union {None}
           /\ pc' \in [Caller -> PC]
           /\ want' \in [Caller -> Lists \union {None}]
           /\ draft' \in [Caller -> Serial \union {None}]
BY DEF TypeOK, Return, Goto, PC

-----------------------------------------------------------------------------
(* The process and its surroundings                                        *)

LEMMA NextDayInv == ASSUME IInv, NextDay PROVE IInv'
<1> USE DEF IInv, NextDay
<1>1. TypeOK'
    BY DEF TypeOK, disk, mem, calls
<1>2. LockInv' /\ WriteInv' /\ DraftInv'
    BY DEF LockInv, WriteInv, DraftInv, disk, mem, calls
<1>3. CallInv'
  <2>1. UNCHANGED <<issued, up, pc, want, draft>>
      BY DEF calls
  <2>2. ASSUME NEW c \in Caller, pc[c] = "obtaining"
        PROVE  NeedsAny(want[c])'
    <3>1. PICK d \in want[c].names : Needs(d)
        BY <2>2 DEF CallInv, NeedsAny
    <3>2. d \in Domain
        BY <2>2, ListsAssumption DEF CallInv
    <3>3. Needs(d)'
        BY <3>1, <3>2, DaysAssumption DEF Needs, TypeOK, mem
    <3> QED
        BY <3>1, <3>3, <2>1 DEF NeedsAny
  <2> QED
      BY <2>1, <2>2 DEF CallInv
<1>4. OrderInv'
  <2>1. \A i \in Serial : issued[i].exp \in Nat
      BY BundleFields
  <2> QED
      BY <2>1, DaysAssumption DEF OrderInv, TypeOK
<1>5. MemoryMatchesCertificates'
    BY DEF MemoryMatchesCertificates, mem
<1> QED
    BY <1>1, <1>2, <1>3, <1>4, <1>5

LEMMA CrashInv == ASSUME IInv, Crash PROVE IInv'
<1> USE DEF IInv, Crash
<1>1. TypeOK'
  <2>1. UNCHANGED <<now, issued, crtFile, keyFile, faults>>
      BY DEF disk
  <2>2. pc' \in [Caller -> PC]
      BY DEF PC
  <2>3. /\ certs' \in [Domain -> Serial \union {None}]
        /\ certMeta' \in [Domain -> Nat \union {None}]
      OBVIOUS
  <2>4. /\ want' \in [Caller -> Lists \union {None}]
        /\ draft' \in [Caller -> Serial \union {None}]
      OBVIOUS
  <2>5. up' \in BOOLEAN
      OBVIOUS
  <2>6. obtainMu' \in Caller \union {None} /\ crashes' \in Nat
      BY DEF TypeOK
  <2> QED
      BY <2>1, <2>2, <2>3, <2>4, <2>5, <2>6 DEF TypeOK
<1>2. LockInv'
    BY NoneAssumption DEF LockInv, Holding
<1>3. CallInv' /\ WriteInv' /\ DraftInv'
    BY DEF CallInv, WriteInv, DraftInv
<1>4. OrderInv'
    BY DEF OrderInv
<1>5. MemoryMatchesCertificates'
    BY DEF MemoryMatchesCertificates
<1> QED
    BY <1>1, <1>2, <1>3, <1>4, <1>5

LEMMA NewManagerInv == ASSUME IInv, NewManager PROVE IInv'
<1> USE DEF IInv, NewManager
<1> DEFINE Last(d) == LastFile(FilesFor(d))
<1>1. ASSUME NEW d \in Domain, FilesFor(d) # {}
      PROVE  /\ Last(d) \in Domain
             /\ crtFile[Last(d)] \in Serial
             /\ issued[crtFile[Last(d)]] \in Bundle
             /\ issued[crtFile[Last(d)]].good
             /\ d \in issued[crtFile[Last(d)]].names
  <2>1. Last(d) \in FilesFor(d)
      BY <1>1, LastFileIsOne
  <2>2. /\ Last(d) \in Domain
        /\ crtFile[Last(d)] \in Serial
        /\ issued[crtFile[Last(d)]].good
        /\ d \in issued[crtFile[Last(d)]].names
      BY <2>1 DEF FilesFor, Loadable
  <2> QED
      BY <2>2 DEF TypeOK
<1>2. TypeOK'
  <2>1. certs' \in [Domain -> Serial \union {None}]
      BY <1>1
  <2>2. certMeta' \in [Domain -> Nat \union {None}]
      BY <1>1 DEF Bundle
  <2> QED
      BY <2>1, <2>2 DEF TypeOK, disk, calls
<1>3. LockInv' /\ WriteInv' /\ DraftInv'
    BY DEF LockInv, WriteInv, DraftInv, disk, calls
<1>4. CallInv'
    BY DEF CallInv, calls
<1>5. OrderInv'
    BY DEF OrderInv
<1>6. MemoryMatchesCertificates'
  <2> SUFFICES ASSUME NEW d \in Domain
               PROVE  /\ (certs'[d] = None) <=> (certMeta'[d] = None)
                      /\ certs'[d] # None =>
                           /\ issued[certs'[d]].good
                           /\ d \in issued[certs'[d]].names
                           /\ certMeta'[d] = issued[certs'[d]].exp
      BY DEF MemoryMatchesCertificates
  <2>1. CASE FilesFor(d) = {}
      BY <2>1
  <2>2. CASE FilesFor(d) # {}
      BY <2>2, <1>1, NoneAssumption DEF Bundle
  <2> QED
      BY <2>1, <2>2
<1> QED
    BY <1>2, <1>3, <1>4, <1>5, <1>6

-----------------------------------------------------------------------------
(* EnsureDomains and the lock                                              *)

LEMMA EnsureDomainsInv ==
    ASSUME IInv, NEW c \in Caller, NEW l \in Lists, EnsureDomains(c, l)
    PROVE  IInv'
<1> USE DEF IInv, EnsureDomains, Goto
<1>1. TypeOK'
    BY DEF TypeOK, PC, disk, mem
<1>2. LockInv'
    BY DEF LockInv, TypeOK, Holding, PC
<1>3. CallInv'
    BY DEF CallInv, NeedsAny, Needs, TypeOK, PC, mem
<1>4. WriteInv' /\ DraftInv'
    BY DEF WriteInv, DraftInv, CallInv, TypeOK, disk
<1> QED
    BY <1>1, <1>2, <1>3, <1>4, FrameInv

LEMMA LockObtainInv ==
    ASSUME IInv, NEW c \in Caller, LockObtain(c)
    PROVE  IInv'
<1> USE DEF IInv, LockObtain, Goto
<1>1. TypeOK'
    BY DEF TypeOK, PC, disk, mem
<1>2. LockInv'
    BY NoneAssumption DEF LockInv, TypeOK, Holding, PC
<1>3. CallInv'
    BY DEF CallInv, NeedsAny, Needs, TypeOK, PC, mem
<1>4. WriteInv' /\ DraftInv'
    BY DEF WriteInv, DraftInv, CallInv, TypeOK, disk
<1> QED
    BY <1>1, <1>2, <1>3, <1>4, FrameInv

LEMMA RecheckInv ==
    ASSUME IInv, NEW c \in Caller, Recheck(c)
    PROVE  IInv'
<1> USE DEF IInv
<1>1. CASE NeedsAny(want[c]) /\ Goto(c, "obtaining")
             /\ UNCHANGED <<obtainMu, want, draft>>
  <2> USE <1>1 DEF Recheck, Goto
  <2>1. TypeOK'
      BY DEF TypeOK, PC, disk, mem
  <2>2. LockInv'
      BY DEF LockInv, TypeOK, Holding, PC
  <2>3. CallInv'
      BY DEF CallInv, NeedsAny, Needs, TypeOK, PC, mem
  <2>4. WriteInv' /\ DraftInv'
      BY DEF WriteInv, DraftInv, CallInv, TypeOK, disk
  <2> QED
      BY <2>1, <2>2, <2>3, <2>4, FrameInv
<1>2. CASE Return(c)
  <2>1. TypeOK'
      BY <1>2, ReturnType DEF Recheck, TypeOK, disk, mem
  <2> QED
      BY <1>2, <2>1, ReturnInv, FrameInv DEF Recheck, Holding, PC
<1> QED
    BY <1>1, <1>2 DEF Recheck

-----------------------------------------------------------------------------
(* The steps of the caller that holds the lock                             *)

LEMMA ObtainOKInv ==
    ASSUME IInv, NEW c \in Caller, ObtainOK(c)
    PROVE  IInv'
<1> USE DEF IInv
<1>1. PICK good \in BOOLEAN :
        /\ issued' = Append(issued, [names |-> want[c].names,
                                     exp |-> now + Lifetime, good |-> good])
        /\ faults' = IF good THEN faults ELSE faults + 1
    BY DEF ObtainOK
<1> DEFINE r == [names |-> want[c].names, exp |-> now + Lifetime, good |-> good]
<1>2. pc[c] = "obtaining" /\ pc[c] \in Holding
    BY DEF ObtainOK, Holding, PC
<1>3. r \in Bundle
  <2>1. want[c].names \in SUBSET Domain
      BY <1>2, ListsAssumption DEF CallInv
  <2> QED
      BY <2>1, DaysAssumption DEF TypeOK, Bundle
<1> HIDE DEF r
<1>4. /\ issued' \in Seq(Bundle)
      /\ Len(issued') = Len(issued) + 1
      /\ \A i \in Serial : issued'[i] = issued[i]
      /\ issued'[Len(issued) + 1] = r
    BY <1>1, <1>3, AppendBundle DEF TypeOK, r
<1>5. r.names = want[c].names /\ r.exp = now + Lifetime
    BY DEF r
<1>6. Len(issued) \in Nat /\ Serial \subseteq Serial'
    BY <1>4 DEF TypeOK
<1>7. TypeOK'
  <2>1. draft' \in [Caller -> Serial' \union {None}]
      BY <1>4, <1>6 DEF ObtainOK, TypeOK
  <2>2. /\ crtFile' \in [Domain -> Serial' \union {None, Torn}]
        /\ keyFile' \in [Domain -> Serial' \union {None, Torn}]
        /\ certs' \in [Domain -> Serial' \union {None}]
      BY <1>6 DEF ObtainOK, TypeOK, disk, mem
  <2>3. pc' \in [Caller -> PC]
      BY DEF ObtainOK, TypeOK, Goto, PC
  <2>4. faults' \in Nat
      BY <1>1 DEF TypeOK
  <2>5. UNCHANGED <<now, up, certMeta, obtainMu, want, crashes>>
      BY DEF ObtainOK, mem
  <2> QED
      BY <1>4, <2>1, <2>2, <2>3, <2>4, <2>5 DEF TypeOK
<1>8. LockInv'
    BY DEF ObtainOK, LockInv, TypeOK, Goto, Holding, PC
<1>9. \A e \in Caller : e # c => draft[e] = None /\ draft'[e] = None
    BY <1>2, DraftOfHolder DEF ObtainOK, TypeOK
<1>10. draft'[c] = Len(issued) + 1 /\ draft'[c] # None
    BY <1>6, NoneAssumption DEF ObtainOK, TypeOK
<1>11. CallInv'
  <2> SUFFICES ASSUME NEW e \in Caller
               PROVE  /\ pc'[e] # "idle" => up' /\ want'[e] \in Lists
                      /\ pc'[e] = "obtaining" => NeedsAny(want[e])'
                      /\ (pc'[e] \in {"openCrt", "fillCrt", "openKey", "fillKey",
                                      "install"}) <=> (draft'[e] # None)
                      /\ draft'[e] # None =>
                            issued'[draft'[e]].names = want'[e].names
      BY DEF CallInv
  <2>1. UNCHANGED <<up, want, certMeta, now>>
      BY DEF ObtainOK, mem
  <2>2. CASE e = c
      BY <2>1, <2>2, <1>2, <1>4, <1>5, <1>10 DEF CallInv, ObtainOK, Goto, TypeOK
  <2>3. CASE e # c
    <3>1. pc'[e] = pc[e]
        BY <2>3 DEF ObtainOK, Goto, TypeOK
    <3>2. pc[e] # "obtaining"
        BY <2>3, <1>2, OneHolder DEF Holding, PC
    <3> QED
        BY <2>1, <2>3, <3>1, <3>2, <1>9 DEF CallInv
  <2> QED
      BY <2>2, <2>3
<1>12. WriteInv'
  <2> SUFFICES ASSUME NEW e \in Caller
               PROVE  pc'[e] \notin {"openKey", "fillKey", "install"}
      BY DEF WriteInv
  <2>1. CASE e = c
      BY <2>1 DEF ObtainOK, Goto, TypeOK
  <2>2. CASE e # c
      BY <2>2, <1>2, OneHolder DEF ObtainOK, Goto, TypeOK, Holding, PC
  <2> QED
      BY <2>1, <2>2
<1>13. OrderInv'
  <2>1. now' = now
      BY DEF ObtainOK
  <2>2. ASSUME NEW i \in Serial'
        PROVE  issued'[i].exp <= now + Lifetime /\ issued'[i].exp \in Nat
    <3>1. CASE i \in Serial
        BY <3>1, <1>4, BundleFields DEF OrderInv
    <3>2. CASE i = Len(issued) + 1
        BY <3>2, <1>4, <1>5, DaysAssumption DEF TypeOK
    <3> QED
        BY <3>1, <3>2, <1>4, <1>6
  <2>3. ASSUME NEW i \in Serial', NEW j \in Serial', i <= j
        PROVE  issued'[i].exp <= issued'[j].exp
    <3>1. CASE j \in Serial
        BY <2>3, <3>1, <1>4, <1>6 DEF OrderInv
    <3>2. CASE j = Len(issued) + 1
        BY <2>2, <3>2, <1>4, <1>5
    <3> QED
        BY <3>1, <3>2, <1>4, <1>6
  <2> QED
      BY <2>1, <2>2, <2>3 DEF OrderInv
<1>14. DraftInv'
    BY <1>4, <1>9, <1>10 DEF DraftInv
<1>15. MemoryMatchesCertificates'
  <2>1. UNCHANGED <<certs, certMeta>>
      BY DEF ObtainOK, mem
  <2>2. \A d \in Domain : certs[d] # None => issued'[certs[d]] = issued[certs[d]]
      BY <1>4 DEF TypeOK
  <2> QED
      BY <2>1, <2>2 DEF MemoryMatchesCertificates
<1> QED
    BY <1>7, <1>8, <1>11, <1>12, <1>13, <1>14, <1>15

LEMMA ObtainFailInv ==
    ASSUME IInv, NEW c \in Caller, ObtainFail(c)
    PROVE  IInv'
<1> USE DEF IInv, ObtainFail
<1>1. TypeOK'
    BY ReturnType DEF TypeOK, disk, mem
<1> QED
    BY <1>1, ReturnInv, FrameInv DEF Holding, PC

LEMMA WriteFailsInv ==
    ASSUME IInv, NEW c \in Caller, WriteFails(c)
    PROVE  IInv'
<1> USE DEF IInv, WriteFails
<1>1. TypeOK'
    BY ReturnType DEF TypeOK, disk, mem
<1> QED
    BY <1>1, ReturnInv, FrameInv DEF Holding, PC

LEMMA OpenCrtInv ==
    ASSUME IInv, NEW c \in Caller, OpenCrt(c)
    PROVE  IInv'
<1> USE DEF IInv, OpenCrt, Goto
<1>1. want[c].primary \in Domain /\ pc[c] \in Holding
    BY ListsAssumption DEF CallInv, Holding, PC
<1>2. draft[c] \in Serial
    BY DEF CallInv, TypeOK
<1>3. TypeOK'
    BY <1>1, <1>2 DEF TypeOK, PC, mem
<1>4. LockInv'
    BY DEF LockInv, TypeOK, Holding, PC
<1>5. CallInv'
    BY DEF CallInv, NeedsAny, Needs, TypeOK, PC, mem
<1>6. WriteInv'
    BY <1>1, OneHolder DEF WriteInv, CallInv, TypeOK, PC, Holding
<1>7. DraftInv'
    BY DEF DraftInv
<1> QED
    BY <1>3, <1>4, <1>5, <1>6, <1>7, FrameInv

LEMMA FillCrtInv ==
    ASSUME IInv, NEW c \in Caller, FillCrt(c)
    PROVE  IInv'
<1> USE DEF IInv, FillCrt, Goto
<1>1. want[c].primary \in Domain /\ pc[c] \in Holding
    BY ListsAssumption DEF CallInv, Holding, PC
<1>2. draft[c] \in Serial
    BY DEF CallInv, TypeOK
<1>3. TypeOK'
    BY <1>1, <1>2 DEF TypeOK, PC, mem
<1>4. LockInv'
    BY DEF LockInv, TypeOK, Holding, PC
<1>5. CallInv'
    BY DEF CallInv, NeedsAny, Needs, TypeOK, PC, mem
<1>6. WriteInv'
    BY <1>1, OneHolder DEF WriteInv, CallInv, TypeOK, PC, Holding
<1>7. DraftInv'
    BY DEF DraftInv
<1> QED
    BY <1>3, <1>4, <1>5, <1>6, <1>7, FrameInv

LEMMA OpenKeyInv ==
    ASSUME IInv, NEW c \in Caller, OpenKey(c)
    PROVE  IInv'
<1> USE DEF IInv, OpenKey, Goto
<1>1. want[c].primary \in Domain /\ pc[c] \in Holding
    BY ListsAssumption DEF CallInv, Holding, PC
<1>2. draft[c] \in Serial
    BY DEF CallInv, TypeOK
<1>3. TypeOK'
    BY <1>1, <1>2 DEF TypeOK, PC, mem
<1>4. LockInv'
    BY DEF LockInv, TypeOK, Holding, PC
<1>5. CallInv'
    BY DEF CallInv, NeedsAny, Needs, TypeOK, PC, mem
<1>6. WriteInv'
    BY <1>1, OneHolder DEF WriteInv, CallInv, TypeOK, PC, Holding
<1>7. DraftInv'
    BY DEF DraftInv
<1> QED
    BY <1>3, <1>4, <1>5, <1>6, <1>7, FrameInv

LEMMA FillKeyInv ==
    ASSUME IInv, NEW c \in Caller, FillKey(c)
    PROVE  IInv'
<1> USE DEF IInv, FillKey, Goto
<1>1. want[c].primary \in Domain /\ pc[c] \in Holding
    BY ListsAssumption DEF CallInv, Holding, PC
<1>2. draft[c] \in Serial
    BY DEF CallInv, TypeOK
<1>3. TypeOK'
    BY <1>1, <1>2 DEF TypeOK, PC, mem
<1>4. LockInv'
    BY DEF LockInv, TypeOK, Holding, PC
<1>5. CallInv'
    BY DEF CallInv, NeedsAny, Needs, TypeOK, PC, mem
<1>6. WriteInv'
    BY <1>1, OneHolder DEF WriteInv, CallInv, TypeOK, PC, Holding
<1>7. DraftInv'
    BY DEF DraftInv
<1> QED
    BY <1>3, <1>4, <1>5, <1>6, <1>7, FrameInv

LEMMA InstallInv ==
    ASSUME IInv, NEW c \in Caller, Install(c)
    PROVE  IInv'
<1> USE DEF IInv
<1>1. /\ pc[c] \in Holding
      /\ draft[c] \in Serial
      /\ issued[draft[c]].names = want[c].names
      /\ issued[draft[c]].exp \in Nat
    BY BundleFields DEF Install, CallInv, TypeOK, Holding, PC
<1>2. /\ Return(c)
      /\ UNCHANGED <<now, issued, up, crashes, faults, crtFile, keyFile>>
    BY DEF Install, disk
<1>3. CASE issued[draft[c]].good
           /\ certs' = [d \in Domain |->
                          IF d \in want[c].names THEN draft[c] ELSE certs[d]]
           /\ certMeta' = [d \in Domain |->
                             IF d \in want[c].names THEN issued[draft[c]].exp
                             ELSE certMeta[d]]
  <2>1. /\ certs' \in [Domain -> Serial \union {None}]
        /\ certMeta' \in [Domain -> Nat \union {None}]
      BY <1>1, <1>3 DEF TypeOK
  <2>2. TypeOK'
      BY <1>2, <2>1, ReturnType DEF TypeOK
  <2>3. LockInv'
      BY <1>1, <1>2, OneHolder, NoneAssumption
      DEF Return, Goto, LockInv, Holding, TypeOK, PC
  <2>4. CallInv'
    <3>1. \A e \in Caller : pc'[e] # "obtaining"
        BY <1>1, <1>2, OneHolder DEF Return, Goto, TypeOK, Holding, PC
    <3> QED
        BY <1>2, <3>1 DEF Return, Goto, CallInv, TypeOK, PC
  <2>5. WriteInv'
      BY <1>2 DEF Return, Goto, WriteInv, CallInv, TypeOK, PC
  <2>6. OrderInv' /\ DraftInv'
      BY <1>2 DEF Return, OrderInv, DraftInv, TypeOK
  <2>7. MemoryMatchesCertificates'
    <3> SUFFICES ASSUME NEW d \in Domain
                 PROVE  /\ (certs'[d] = None) <=> (certMeta'[d] = None)
                        /\ certs'[d] # None =>
                             /\ issued[certs'[d]].good
                             /\ d \in issued[certs'[d]].names
                             /\ certMeta'[d] = issued[certs'[d]].exp
        BY <1>2 DEF MemoryMatchesCertificates
    <3>1. CASE d \in want[c].names
        BY <1>1, <1>3, <3>1, NoneAssumption
    <3>2. CASE d \notin want[c].names
        BY <1>3, <3>2 DEF MemoryMatchesCertificates
    <3> QED
        BY <3>1, <3>2
  <2> QED
      BY <2>2, <2>3, <2>4, <2>5, <2>6, <2>7
<1>4. CASE UNCHANGED mem
  <2>1. TypeOK'
      BY <1>2, <1>4, ReturnType DEF TypeOK, mem
  <2> QED
      BY <1>1, <1>2, <1>4, <2>1, ReturnInv, FrameInv DEF disk
<1> QED
    BY <1>3, <1>4 DEF Install

-----------------------------------------------------------------------------
(* The invariant                                                           *)

LEMMA StutterInv == ASSUME IInv, UNCHANGED vars PROVE IInv'
<1> USE DEF IInv, vars, disk, mem, calls
<1>1. TypeOK' /\ LockInv'
    BY DEF TypeOK, LockInv
<1>2. CallInv' /\ WriteInv' /\ DraftInv'
    BY DEF CallInv, WriteInv, DraftInv, NeedsAny, Needs
<1> QED
    BY <1>1, <1>2, FrameInv

LEMMA NextInv == ASSUME IInv, [Next]_vars PROVE IInv'
<1>1. ASSUME NEW c \in Caller, Step(c)
      PROVE  IInv'
    BY <1>1, LockObtainInv, RecheckInv, ObtainOKInv, ObtainFailInv, OpenCrtInv,
       FillCrtInv, OpenKeyInv, FillKeyInv, WriteFailsInv, InstallInv
    DEF Step
<1> QED
    BY <1>1, NextDayInv, CrashInv, NewManagerInv, EnsureDomainsInv, StutterInv
    DEF Next

\* What the lock, the order of the writes and the order in which the CA signs
\* keep true in every reachable state of the Manager, whatever its callers, the
\* CA, the disk and crashes do.
THEOREM Invariance == Spec => []IInv
<1>1. Init => IInv
    BY InitInv
<1>2. IInv /\ [Next]_vars => IInv'
    BY NextInv
<1> QED
    BY <1>1, <1>2, PTL DEF Spec

\* Every entry that GetCertificate can return is a usable certificate naming its
\* domain, and the renewal check reads that certificate's own expiry.
THEOREM Memory == Spec => []MemoryMatchesCertificates
<1>1. IInv => MemoryMatchesCertificates
    BY DEF IInv
<1> QED
    BY <1>1, Invariance, PTL

-----------------------------------------------------------------------------
(* What a step may never do                                                *)

\* The steps that leave the list of bundles or the memory alone.
LEMMA IssuedChanges ==
    ASSUME IInv, [Next]_vars, issued' # issued
    PROVE  \E c \in Caller : ObtainOK(c)
BY DEF Next, Step, NextDay, Crash, NewManager, EnsureDomains, LockObtain, Recheck,
       ObtainFail, OpenCrt, FillCrt, OpenKey, FillKey, WriteFails, Install, vars

LEMMA MemoryChanges ==
    ASSUME [Next]_vars, mem' # mem
    PROVE  Crash \/ NewManager \/ \E c \in Caller : Install(c)
BY DEF Next, Step, NextDay, EnsureDomains, LockObtain, Recheck, ObtainOK,
       ObtainFail, OpenCrt, FillCrt, OpenKey, FillKey, WriteFails, vars

\* The CA is only asked while the asking caller still sees a domain that is
\* missing or expiring: obtainMu and the repeated test suffice for any number of
\* callers and any overlap of their lists.
THEOREM NoDuplicateRequest == Spec => IssueOnlyIfNeeded
<1>1. IInv /\ [Next]_vars =>
        (issued' # issued =>
           \E c \in Caller : pc[c] = "obtaining" /\ NeedsAny(want[c]))
    BY IssuedChanges DEF IInv, CallInv, ObtainOK
<1> QED
    BY <1>1, Invariance, PTL DEF Spec, IssueOnlyIfNeeded

\* Nothing in memory expires after the last bundle the CA signed.
LEMMA LastBundleIsLatest ==
    ASSUME IInv, NEW d \in Domain, certMeta[d] # None
    PROVE  /\ certs[d] \in Serial
           /\ certMeta[d] = issued[certs[d]].exp
           /\ issued[certs[d]].exp <= issued[Len(issued)].exp
<1>1. certs[d] \in Serial /\ certMeta[d] = issued[certs[d]].exp
    BY DEF IInv, TypeOK, MemoryMatchesCertificates
<1> QED
    BY <1>1 DEF IInv, TypeOK, OrderInv

\* The expiry of a domain never moves back while the process runs.
LEMMA ExpiryGrows ==
    ASSUME IInv, [Next]_vars, up, up', NEW d \in Domain, certMeta[d] # None
    PROVE  certMeta'[d] # None /\ certMeta'[d] >= certMeta[d]
<1>1. certMeta[d] \in Nat
    BY DEF IInv, TypeOK
<1>2. CASE UNCHANGED mem
    BY <1>1, <1>2 DEF mem
<1>3. ASSUME NEW c \in Caller, Install(c)
      PROVE  certMeta'[d] # None /\ certMeta'[d] >= certMeta[d]
  <2>1. draft[c] = Len(issued) /\ draft[c] \in Serial
      BY <1>3 DEF IInv, DraftInv, CallInv, TypeOK, Install
  <2>2. issued[draft[c]].exp \in Nat
      BY <2>1, BundleFields DEF IInv
  <2>3. certMeta'[d] = certMeta[d] \/ certMeta'[d] = issued[draft[c]].exp
      BY <1>3 DEF Install, mem
  <2>4. certMeta[d] <= issued[draft[c]].exp
      BY <2>1, LastBundleIsLatest
  <2> QED
      BY <1>1, <2>2, <2>3, <2>4, NoneAssumption
<1>4. ~Crash /\ ~NewManager
    BY DEF Crash, NewManager
<1> QED
    BY <1>2, <1>3, <1>4, MemoryChanges

\* As long as the process runs, a domain keeps a certificate and the day it
\* expires never moves back, however the calls for it are interleaved.
THEOREM NeverWorse == Spec => NoDowngrade
<1>1. IInv /\ [Next]_vars =>
        (up /\ up' => \A d \in Domain :
           certMeta[d] # None =>
              certMeta'[d] # None /\ certMeta'[d] >= certMeta[d])
    BY ExpiryGrows
<1> QED
    BY <1>1, Invariance, PTL DEF Spec, NoDowngrade

\* What GetCertificate starts to return is on disk as a matching pair by then: a
\* crash right after it was first served does not lose it.
THEOREM SavedFirst == Spec => DurableBeforeServed
<1>1. ASSUME IInv, [Next]_vars,
             NEW d \in Domain, certs'[d] \notin {None, certs[d]}
      PROVE  \E b \in Domain : crtFile'[b] = certs'[d] /\ Loadable(b)'
  <2>1. mem' # mem
      BY <1>1 DEF mem
  <2>2. ~Crash
      BY <1>1 DEF Crash
  <2>3. CASE NewManager
    <3>1. FilesFor(d) # {} /\ certs'[d] = crtFile[LastFile(FilesFor(d))]
        BY <1>1, <2>3 DEF NewManager
    <3>2. LastFile(FilesFor(d)) \in Domain /\ Loadable(LastFile(FilesFor(d)))
        BY <3>1, LastFileIsOne DEF FilesFor
    <3>3. UNCHANGED <<issued, crtFile, keyFile>>
        BY <2>3 DEF NewManager, disk
    <3> QED
        BY <3>1, <3>2, <3>3 DEF Loadable
  <2>4. ASSUME NEW c \in Caller, Install(c)
        PROVE  \E b \in Domain : crtFile'[b] = certs'[d] /\ Loadable(b)'
    <3>1. UNCHANGED <<issued, crtFile, keyFile>>
        BY <2>4 DEF Install, disk
    <3>2. certs'[d] = draft[c] /\ issued[draft[c]].good
        BY <1>1, <2>4, <2>1 DEF Install, mem
    <3>3. draft[c] \in Serial /\ want[c].primary \in Domain
      <4>1. pc[c] = "install" /\ want[c] \in Lists /\ draft[c] # None
          BY <1>1, <2>4 DEF Install, IInv, CallInv
      <4> QED
          BY <1>1, <4>1, ListsAssumption DEF IInv, TypeOK
    <3>4. PICK b \in Domain : b = want[c].primary
        BY <3>3
    <3>5. crtFile[b] = draft[c] /\ keyFile[b] = draft[c]
      <4>1. pc[c] = "install"
          BY <2>4 DEF Install
      <4> QED
          BY <1>1, <3>4, <4>1 DEF IInv, WriteInv
    <3>6. Loadable(b)'
        BY <3>1, <3>2, <3>3, <3>5 DEF Loadable
    <3> QED
        BY <3>1, <3>2, <3>5, <3>6
  <2> QED
      BY <1>1, <2>1, <2>2, <2>3, <2>4, MemoryChanges
<1>2. IInv /\ [Next]_vars =>
        (\A d \in Domain :
           certs'[d] \notin {None, certs[d]} =>
              \E b \in Domain : crtFile'[b] = certs'[d] /\ Loadable(b)')
    BY <1>1
<1> QED
    BY <1>2, Invariance, PTL DEF Spec, DurableBeforeServed
-----------------------------------------------------------------------------
(* Whole pairs                                                             *)

\* While one caller holds the lock, only its own files are being written.
LEMMA OneWriter ==
    ASSUME IInv, NEW c \in Caller, pc[c] \in Holding, NEW e \in Caller,
           pc[e] \in {"fillCrt", "openKey", "fillKey"}
    PROVE  e = c
BY OneHolder DEF IInv, Holding, PC

\* A step after which nothing has crashed or failed is one without.
LEMMA NothingFailed ==
    ASSUME IInv, [Next]_vars, crashes' = 0, faults' = 0
    PROVE  crashes = 0 /\ faults = 0 /\ ~Crash /\ \A c \in Caller : ~WriteFails(c)
<1>1. crashes \in Nat /\ faults \in Nat
    BY DEF IInv, TypeOK
<1>2. ~Crash /\ \A c \in Caller : ~WriteFails(c)
    BY <1>1 DEF Crash, WriteFails
<1>3. ASSUME NEW c \in Caller, ObtainOK(c)
      PROVE  crashes' = crashes /\ (faults' = faults \/ faults' = faults + 1)
  <2>1. PICK good \in BOOLEAN : faults' = IF good THEN faults ELSE faults + 1
      BY <1>3 DEF ObtainOK
  <2>2. crashes' = crashes
      BY <1>3 DEF ObtainOK
  <2> QED
      BY <2>1, <2>2
<1>4. ASSUME NEW c \in Caller,
             \/ LockObtain(c) \/ Recheck(c) \/ ObtainFail(c)
             \/ OpenCrt(c) \/ FillCrt(c) \/ OpenKey(c) \/ FillKey(c) \/ Install(c)
      PROVE  crashes' = crashes /\ faults' = faults
    BY <1>4 DEF LockObtain, Recheck, ObtainFail, OpenCrt, FillCrt, OpenKey, FillKey,
       Install
<1>5. ASSUME NEW c \in Caller, NEW l \in Lists, EnsureDomains(c, l)
      PROVE  crashes' = crashes /\ faults' = faults
    BY <1>5 DEF EnsureDomains
<1>6. NextDay \/ NewManager => crashes' = crashes /\ faults' = faults
    BY DEF NextDay, NewManager
<1>7. UNCHANGED vars => crashes' = crashes /\ faults' = faults
    BY DEF vars
<1>8. crashes' = crashes /\ (faults' = faults \/ faults' = faults + 1)
    BY <1>2, <1>3, <1>4, <1>5, <1>6, <1>7 DEF Next, Step
<1> QED
    BY <1>1, <1>2, <1>8

\* Good bundles stay good and, without a failure, a new one is good.
LEMMA GoodBundles ==
    ASSUME IInv, WholeInv, [Next]_vars, crashes' = 0, faults' = 0
    PROVE  /\ \A i \in Serial : i \in Serial' /\ issued'[i] = issued[i]
           /\ \A i \in Serial' : issued'[i].good
<1>1. crashes = 0 /\ faults = 0
    BY NothingFailed
<1>2. \A i \in Serial : issued[i].good
    BY <1>1 DEF WholeInv
<1>3. ASSUME NEW c \in Caller, ObtainOK(c)
      PROVE  /\ \A i \in Serial : i \in Serial' /\ issued'[i] = issued[i]
             /\ \A i \in Serial' : issued'[i].good
  <2>1. PICK r \in Bundle : r.good /\ issued' = Append(issued, r)
    <3>1. want[c].names \in SUBSET Domain /\ now + Lifetime \in Nat
      <4>1. want[c] \in Lists /\ now \in Nat
          BY <1>3 DEF ObtainOK, IInv, CallInv, TypeOK
      <4> QED
          BY <4>1, ListsAssumption, DaysAssumption
    <3>2. PICK good \in BOOLEAN :
             /\ issued' = Append(issued, [names |-> want[c].names,
                                          exp |-> now + Lifetime, good |-> good])
             /\ faults' = IF good THEN faults ELSE faults + 1
        BY <1>3 DEF ObtainOK
    <3>3. good = TRUE
        BY <1>1, <3>2
    <3> QED
        BY <3>1, <3>2, <3>3 DEF Bundle
  <2> QED
      BY <1>2, <2>1, AppendBundle DEF IInv, TypeOK
<1>4. CASE issued' = issued
    BY <1>2, <1>4
<1> QED
    BY <1>3, <1>4, IssuedChanges

LEMMA WholeStep == ASSUME IInv, WholeInv, [Next]_vars PROVE WholeInv'
<1> DEFINE W == {"fillCrt", "openKey", "fillKey"}
           Busy(b) == \E c \in Caller : pc[c] \in W /\ want[c].primary = b
           Blank(b) == crtFile[b] = None /\ keyFile[b] = None
<1> SUFFICES ASSUME crashes' = 0, faults' = 0, NEW b \in Domain
             PROVE  Busy(b)' \/ Blank(b)' \/ Loadable(b)'
    BY GoodBundles DEF WholeInv
<1>1. Busy(b) \/ Blank(b) \/ Loadable(b)
    BY NothingFailed DEF WholeInv
<1>2. ASSUME crtFile'[b] = crtFile[b], keyFile'[b] = keyFile[b], ~Busy(b)
      PROVE  Blank(b)' \/ Loadable(b)'
    BY <1>1, <1>2, GoodBundles DEF Loadable
<1>3. ASSUME NEW c \in Caller, OpenCrt(c) \/ FillCrt(c) \/ OpenKey(c)
      PROVE  Busy(b)' \/ Blank(b)' \/ Loadable(b)'
  <2>1. pc'[c] \in W /\ want' = want /\ pc[c] \in Holding
      BY <1>3 DEF OpenCrt, FillCrt, OpenKey, Goto, IInv, TypeOK, Holding, PC
  <2>2. CASE want[c].primary = b
      BY <2>1, <2>2
  <2>3. CASE want[c].primary # b
    <3>1. crtFile'[b] = crtFile[b] /\ keyFile'[b] = keyFile[b]
        BY <1>3, <2>3 DEF OpenCrt, FillCrt, OpenKey, IInv, TypeOK
    <3>2. ~Busy(b)
        BY <2>1, <2>3, OneWriter
    <3> QED
        BY <1>2, <3>1, <3>2
  <2> QED
      BY <2>2, <2>3
<1>4. ASSUME NEW c \in Caller, FillKey(c)
      PROVE  Blank(b)' \/ Loadable(b)'
  <2>1. pc[c] = "fillKey" /\ pc[c] \in Holding
      BY <1>4 DEF FillKey, Holding, PC
  <2>2. CASE want[c].primary = b
    <3>1. draft[c] \in Serial
        BY <2>1 DEF IInv, CallInv, TypeOK
    <3>2. crtFile[b] = draft[c]
        BY <2>1, <2>2 DEF IInv, WriteInv
    <3>3. crtFile' = crtFile /\ keyFile'[b] = draft[c]
        BY <1>4, <2>2 DEF FillKey, IInv, TypeOK
    <3> QED
        BY <3>1, <3>2, <3>3, GoodBundles DEF Loadable
  <2>3. CASE want[c].primary # b
    <3>1. crtFile'[b] = crtFile[b] /\ keyFile'[b] = keyFile[b]
        BY <1>4, <2>3 DEF FillKey, IInv, TypeOK
    <3>2. ~Busy(b)
        BY <2>1, <2>3, OneWriter
    <3> QED
        BY <1>2, <3>1, <3>2
  <2> QED
      BY <2>2, <2>3
<1>5. ASSUME UNCHANGED disk,
             \A e \in Caller : pc[e] \in W => pc'[e] = pc[e] /\ want'[e] = want[e]
      PROVE  Busy(b)' \/ Blank(b)' \/ Loadable(b)'
  <2>1. CASE Busy(b)
      BY <1>5, <2>1
  <2>2. CASE ~Busy(b)
      BY <1>2, <1>5, <2>2 DEF disk
  <2> QED
      BY <2>1, <2>2
<1>6. ASSUME NEW c \in Caller,
             \/ LockObtain(c) \/ Recheck(c) \/ ObtainOK(c) \/ ObtainFail(c) \/ Install(c)
             \/ \E l \in Lists : EnsureDomains(c, l)
      PROVE  \A e \in Caller : pc[e] \in W => pc'[e] = pc[e] /\ want'[e] = want[e]
    BY <1>6 DEF LockObtain, Recheck, ObtainOK, ObtainFail, Install, EnsureDomains, Return, Goto,
       IInv, TypeOK
<1>7. ASSUME NEW c \in Caller,
             \/ LockObtain(c) \/ Recheck(c) \/ ObtainOK(c) \/ ObtainFail(c) \/ Install(c)
             \/ \E l \in Lists : EnsureDomains(c, l)
      PROVE  UNCHANGED disk
    BY <1>7 DEF LockObtain, Recheck, ObtainOK, ObtainFail, Install, EnsureDomains
<1>8. CASE NextDay \/ NewManager \/ UNCHANGED vars
  <2>1. UNCHANGED <<disk, pc, want>>
      BY <1>8 DEF NextDay, NewManager, vars, calls
  <2> QED
      BY <1>5, <2>1
<1> QED
    BY <1>3, <1>4, <1>5, <1>6, <1>7, <1>8, NothingFailed DEF Next, Step

\* However many callers renew overlapping lists, a certificate on disk lies beside
\* its own key whenever none of them holds obtainMu, as long as nothing crashed or
\* failed.
THEOREM KeysFit == Spec => []PairsWhole
<1>1. Init => WholeInv
    BY DEF Init, WholeInv
<1>2. IInv /\ WholeInv => PairsWhole
  <2> SUFFICES ASSUME IInv, WholeInv, crashes = 0, faults = 0, obtainMu = None, NEW b \in Domain
               PROVE  (crtFile[b] = None /\ keyFile[b] = None) \/ Loadable(b)
      BY DEF PairsWhole
  <2>1. \A c \in Caller : pc[c] \notin {"fillCrt", "openKey", "fillKey"}
      BY NoneAssumption DEF IInv, LockInv, Holding, PC
  <2> QED
      BY <2>1 DEF WholeInv
<1>3. IInv /\ WholeInv /\ [Next]_vars => WholeInv'
    BY WholeStep
<1> QED
    BY <1>1, <1>2, <1>3, Invariance, PTL DEF Spec

\* Every bundle is for one of the lists that EnsureDomains is called with.
SignedInv == \A i \in Serial : \E l \in Lists : issued[i].names = l.names

LEMMA SignedStep == ASSUME IInv, SignedInv, [Next]_vars PROVE SignedInv'
<1>1. ASSUME NEW c \in Caller, ObtainOK(c)
      PROVE  SignedInv'
  <2>1. want[c] \in Lists /\ want[c].names \in SUBSET Domain /\ now + Lifetime \in Nat
    <3>1. want[c] \in Lists /\ now \in Nat
        BY <1>1 DEF ObtainOK, IInv, CallInv, TypeOK
    <3> QED
        BY <3>1, ListsAssumption, DaysAssumption
  <2>2. PICK r \in Bundle : r.names = want[c].names /\ issued' = Append(issued, r)
      BY <1>1, <2>1 DEF ObtainOK, Bundle
  <2>3. Len(issued) \in Nat /\ \A i \in Serial' : i \in Serial \/ i = Len(issued) + 1
      BY <2>2, AppendBundle DEF Serial, IInv, TypeOK
  <2> QED
      BY <2>1, <2>2, <2>3, AppendBundle DEF SignedInv, IInv, TypeOK
<1>2. CASE issued' = issued
    BY <1>2 DEF SignedInv, Serial
<1> QED
    BY <1>1, <1>2, IssuedChanges

LEMMA SignedLists == Spec => []SignedInv
<1>1. Init => SignedInv
    BY DEF Init, SignedInv, Serial
<1>2. IInv /\ SignedInv /\ [Next]_vars => SignedInv'
    BY SignedStep
<1> QED
    BY <1>1, <1>2, Invariance, PTL DEF Spec

\* Nobody is served a certificate under a name of no list, whatever files a process
\* finds when it starts.
THEOREM ServesListed ==
    Spec => [](\A d \in Domain : certs[d] # None => \E l \in Lists : d \in l.names)
<1>1. ASSUME IInv, SignedInv, NEW d \in Domain, certs[d] # None
      PROVE  \E l \in Lists : d \in l.names
  <2>1. certs[d] \in Serial /\ d \in issued[certs[d]].names
      BY <1>1 DEF IInv, TypeOK, MemoryMatchesCertificates
  <2> QED
      BY <1>1, <2>1 DEF SignedInv
<1>2. IInv /\ SignedInv => \A d \in Domain : certs[d] # None => \E l \in Lists : d \in l.names
    BY <1>1
<1> QED
    BY <1>2, SignedLists, Invariance, PTL

-----------------------------------------------------------------------------
(* How often the CA is asked                                               *)

\* A bundle that no caller carries any more is what its names have in memory, or
\* they have later ones.
Kept(i) == \A d \in issued[i].names : certMeta[d] # None /\ certMeta[d] >= issued[i].exp

KeptInv ==
    crashes = 0 /\ faults = 0 =>
      /\ ~up => issued = <<>>
      /\ \A i \in Serial : (\E c \in Caller : draft[c] = i) \/ Kept(i)

LEMMA KeptObtain ==
    ASSUME IInv, WholeInv, KeptInv, RequestsSpaced, crashes' = 0, faults' = 0,
           crashes = 0, faults = 0, NEW c \in Caller, ObtainOK(c)
    PROVE  KeptInv' /\ RequestsSpaced'
<1>1. PICK r \in Bundle :
         r.names = want[c].names /\ r.exp = now + Lifetime /\ issued' = Append(issued, r)
  <2>1. want[c] \in Lists /\ now \in Nat
      BY DEF ObtainOK, IInv, CallInv, TypeOK
  <2>2. want[c].names \in SUBSET Domain /\ now + Lifetime \in Nat
      BY <2>1, ListsAssumption, DaysAssumption
  <2> QED
      BY <2>2 DEF ObtainOK, Bundle
<1>2. /\ Len(issued) \in Nat /\ Len(issued') = Len(issued) + 1
      /\ \A i \in Serial : issued'[i] = issued[i]
      /\ issued'[Len(issued) + 1] = r
      /\ \A i \in Serial' : i \in Serial \/ i = Len(issued) + 1
    BY <1>1, AppendBundle DEF Serial, IInv, TypeOK
<1>3. /\ UNCHANGED <<certMeta, now, up>> /\ up /\ now \in Nat
      /\ draft'[c] = Len(issued) + 1 /\ NeedsAny(want[c]) /\ want[c] \in Lists
    BY DEF ObtainOK, mem, IInv, CallInv, TypeOK
<1>4. \A i \in Serial : Kept(i)
  <2>1. \A e \in Caller : draft[e] = None
    <3>1. pc[c] = "obtaining" /\ pc[c] \in Holding
        BY DEF ObtainOK, Holding, PC
    <3>2. ASSUME NEW e \in Caller, draft[e] # None PROVE e = c
      <4>1. pc[e] \in Holding
          BY <3>2 DEF IInv, CallInv, Holding, PC
      <4> QED
          BY <3>1, <4>1, OneHolder DEF IInv
    <3>3. draft[c] = None
        BY <3>1 DEF IInv, CallInv
    <3> QED
        BY <3>2, <3>3
  <2> QED
      BY <2>1, NoneAssumption DEF KeptInv, Serial
<1>5. KeptInv'
  <2>1. \A i \in Serial : Kept(i)'
      BY <1>2, <1>3, <1>4 DEF Kept
  <2> QED
      BY <1>2, <1>3, <2>1 DEF KeptInv
<1>6. ASSUME NEW i \in Serial, r.names \subseteq issued[i].names
      PROVE  r.exp - issued[i].exp > Lifetime - RenewBefore
  <2>1. PICK d \in want[c].names : Needs(d)
      BY <1>3 DEF NeedsAny
  <2>2. d \in Domain /\ certMeta[d] \in Nat /\ certMeta[d] >= issued[i].exp
    <3>1. d \in Domain /\ certMeta[d] # None /\ certMeta[d] >= issued[i].exp
        BY <1>1, <1>3, <1>4, <1>6, <2>1, ListsAssumption DEF Kept
    <3> QED
        BY <3>1 DEF IInv, TypeOK
  <2>3. certMeta[d] - now < RenewBefore
      BY <2>1, <2>2, NoneAssumption DEF Needs
  <2>4. issued[i].exp \in Nat
    <3>1. issued[i] \in Bundle
        BY DEF Serial, IInv, TypeOK
    <3> QED
        BY <3>1 DEF Bundle
  <2> QED
      BY <1>1, <1>3, <2>2, <2>3, <2>4, DaysAssumption
<1>7. RequestsSpaced'
  <2> SUFFICES ASSUME NEW i \in Serial', NEW j \in Serial', i < j,
                      issued'[j].names \subseteq issued'[i].names
               PROVE  issued'[j].exp - issued'[i].exp > Lifetime - RenewBefore
      BY DEF RequestsSpaced
  <2>1. i \in Serial
      BY <1>2 DEF Serial
  <2>2. CASE j \in Serial
      BY <1>2, <2>1, <2>2 DEF RequestsSpaced
  <2>3. CASE j = Len(issued) + 1
      BY <1>2, <1>6, <2>1, <2>3
  <2> QED
      BY <1>2, <2>2, <2>3
<1> QED
    BY <1>5, <1>7

\* The other steps: what is installed is kept, and a draft is only given up with a
\* failure.
LEMMA KeptOther ==
    ASSUME IInv, WholeInv, KeptInv, [Next]_vars, crashes' = 0, faults' = 0,
           crashes = 0, faults = 0, issued' = issued
    PROVE  KeptInv'
<1>1. up => up'
  <2>1. ~Crash
      BY NothingFailed
  <2> QED
      BY <2>1 DEF Next, Step, NextDay, NewManager, EnsureDomains, LockObtain, Recheck,
         ObtainOK, ObtainFail, OpenCrt, FillCrt, OpenKey, FillKey, WriteFails, Install, vars
<1>2. ASSUME NEW i \in Serial, Kept(i), up
      PROVE  Kept(i)'
  <2>1. issued[i].names \subseteq Domain
    <3>1. issued[i] \in Bundle
        BY DEF Serial, IInv, TypeOK
    <3> QED
        BY <3>1 DEF Bundle
  <2>2. up'
      BY <1>2, <1>1
  <2>3. ASSUME NEW d \in issued[i].names
        PROVE  certMeta'[d] # None /\ certMeta'[d] >= issued[i].exp
    <3>1. certMeta[d] # None /\ certMeta[d] >= issued[i].exp /\ d \in Domain
        BY <1>2, <2>1, <2>3 DEF Kept
    <3>2. certMeta'[d] # None /\ certMeta'[d] >= certMeta[d]
        BY <1>2, <2>2, <3>1, ExpiryGrows
    <3>3. certMeta[d] \in Nat /\ certMeta'[d] \in Nat /\ issued[i].exp \in Nat
        BY <3>1, <3>2, NextInv, BundleFields DEF IInv, TypeOK
    <3> QED
        BY <3>1, <3>2, <3>3
  <2> QED
      BY <1>2, <2>3 DEF Kept
<1>3. ASSUME NEW i \in Serial, NEW c \in Caller, draft[c] = i
      PROVE  draft'[c] = i \/ Kept(i)'
  <2>1. pc[c] \in {"openCrt", "fillCrt", "openKey", "fillKey", "install"}
      BY <1>3, NoneAssumption DEF IInv, CallInv, Serial
  <2>2. ~Crash /\ ~WriteFails(c)
      BY NothingFailed
  <2>3. CASE Install(c)
    <3>1. issued[i].good /\ issued[i].names = want[c].names
        BY <1>3, <2>1, NoneAssumption DEF WholeInv, IInv, CallInv, Serial
    <3>2. /\ certMeta' = [d \in Domain |-> IF d \in want[c].names THEN issued[i].exp ELSE certMeta[d]]
        BY <1>3, <2>3, <3>1 DEF Install
    <3>3. want[c].names \subseteq Domain /\ issued[i].exp \in Nat
        BY <1>3, <2>1, <3>1, BundleFields DEF IInv
    <3> QED
        BY <3>1, <3>2, <3>3, NoneAssumption DEF Kept
  <2>4. CASE ~Install(c)
      BY <1>3, <2>1, <2>2, <2>4 DEF Next, Step, NextDay, NewManager, EnsureDomains, LockObtain,
         Recheck, ObtainOK, ObtainFail, OpenCrt, FillCrt, OpenKey, FillKey, WriteFails, Install,
         Return, vars, calls, IInv, TypeOK
  <2> QED
      BY <2>3, <2>4
<1>4. ASSUME NEW i \in Serial
      PROVE  (\E c \in Caller : draft'[c] = i) \/ Kept(i)'
  <2>1. up
      BY <1>4 DEF KeptInv, Serial
  <2> QED
      BY <1>2, <1>3, <1>4, <2>1 DEF KeptInv
<1>5. ~up' => issued' = <<>>
    BY <1>1 DEF KeptInv
<1> QED
    BY <1>4, <1>5 DEF KeptInv, Serial

\* While nothing crashes or fails, the CA is asked for the same names, or for some of
\* them, at most once in Lifetime - RenewBefore days, for any number of callers with
\* overlapping lists.
THEOREM AskedRarely == Spec => []RequestsSpaced
<1> DEFINE I == WholeInv /\ KeptInv /\ RequestsSpaced
<1>1. Init => I
    BY DEF Init, WholeInv, KeptInv, RequestsSpaced, Serial
<1>2. ASSUME IInv, I, [Next]_vars
      PROVE  I'
  <2>1. WholeInv'
      BY <1>2, WholeStep
  <2>2. CASE crashes' = 0 /\ faults' = 0
    <3>1. crashes = 0 /\ faults = 0
        BY <1>2, <2>2, NothingFailed
    <3>2. CASE issued' = issued
      <4>1. RequestsSpaced'
          BY <1>2, <3>1, <3>2 DEF RequestsSpaced, Serial
      <4> QED
          BY <1>2, <2>1, <2>2, <3>1, <3>2, <4>1, KeptOther
    <3>3. CASE issued' # issued
        BY <1>2, <2>1, <2>2, <3>1, <3>3, KeptObtain, IssuedChanges
    <3> QED
        BY <3>2, <3>3
  <2>3. CASE ~(crashes' = 0 /\ faults' = 0)
      BY <2>1, <2>3 DEF KeptInv, RequestsSpaced
  <2> QED
      BY <2>2, <2>3
<1>3. IInv /\ I /\ [Next]_vars => I'
    BY <1>2
<1> QED
    BY <1>1, <1>3, Invariance, PTL DEF Spec
=============================================================================
