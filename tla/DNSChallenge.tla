---------------------------- MODULE DNSChallenge ----------------------------
(***************************************************************************)
(* The DNS-01 challenges of one certificate request: lego presents the     *)
(* challenge of every authorization through acme.routedDNSProvider, lets   *)
(* the CA look at the TXT records, and cleans up.  Authorizations routed   *)
(* to ArvanCloud go through acme.arvancloudFixProvider, which first        *)
(* deletes the TXT records that it finds under the name.                   *)
(*                                                                         *)
(* A TXT record has the name and the value of the challenge it answers; a  *)
(* new authorization for the same domain has a new value (`gen`).  Orders  *)
(* follow each other: obtainMu is held during Obtain.                      *)
(***************************************************************************)
EXTENDS Integers, FiniteSets

CONSTANTS
    Authz,      \* authorizations of the order: one per requested domain
    NameOf,     \* _acme-challenge name; a domain and its wildcard share it
    Fixed,      \* authorizations that SelectDNSProvider routes to ArvanCloud
    None,       \* no authorization
    MaxGen,     \* bound: authorizations made for a domain as older ones expire
    MaxCrash,   \* bound: crashes during an order
    MaxFault    \* bound: failed API calls and refused validations

ASSUME AuthzAssumption ==
    /\ IsFiniteSet(Authz) /\ None \notin Authz /\ Fixed \subseteq Authz
    /\ MaxGen \in Nat /\ MaxCrash \in Nat /\ MaxFault \in Nat

VARIABLES
    zone,       \* TXT records in the DNS zones
    recordIDs,  \* records that the inner provider remembers by token
    gen,        \* the current authorization of each domain
    valid,      \* authorizations that the CA holds valid
    phase,      \* where lego is in the order
    order,      \* the authorizations that the order has to solve
    todo,       \* those the current phase has not reached
    current,    \* the one whose Present runs
    fate,       \* how an authorization failed in this order
    crashes,    \* crashes so far
    faults      \* failed calls so far

vars == <<zone, recordIDs, gen, valid, phase, order, todo, current, fate,
          crashes, faults>>

Record == [owner : Authz, gen : Nat]

TypeOK ==
    /\ zone \subseteq Record
    /\ recordIDs \subseteq Record
    /\ gen \in [Authz -> Nat]
    /\ valid \subseteq Authz
    /\ phase \in {"idle", "present", "solve", "cleanup"}
    /\ order \subseteq Authz
    /\ todo \subseteq order
    /\ current \in todo \union {None}
    /\ fate \in [Authz -> {"none", "pending", "invalid"}]
    /\ crashes \in 0..MaxCrash
    /\ faults \in 0..MaxFault

Init ==
    /\ zone = {}
    /\ recordIDs = {}
    /\ gen = [a \in Authz |-> 0]
    /\ valid = {}
    /\ phase = "idle"
    /\ order = {}
    /\ todo = {}
    /\ current = None
    /\ fate = [a \in Authz |-> "none"]
    /\ crashes = 0
    /\ faults = 0

\* The TXT record that answers the present challenge of a.
TXT(a) == [owner |-> a, gen |-> gen[a]]

\* What deleteRecordsByName finds under a's name.
SameName(a) == {r \in zone : NameOf[r.owner] = NameOf[a]}

\* Records of this order that the CA has still to look at.
Live == CASE phase = "present" -> {TXT(a) : a \in order \ todo}
          [] phase = "solve"   -> {TXT(a) : a \in todo}
          [] OTHER             -> {}

Fault == faults < MaxFault /\ faults' = faults + 1

\* The phase is through with a; after the last one the next phase begins.
Done(a, next) ==
    /\ todo' = IF todo = {a} THEN order ELSE todo \ {a}
    /\ phase' = IF todo = {a} THEN next ELSE phase

-----------------------------------------------------------------------------
\* A request is made; the CA returns the authorizations it still holds valid as
\* they are, and lego skips those.
NewOrder ==
    /\ phase = "idle"
    /\ valid # Authz
    /\ order' = Authz \ valid
    /\ todo' = Authz \ valid
    /\ phase' = "present"
    /\ fate' = [a \in Authz |-> "none"]
    /\ UNCHANGED <<zone, recordIDs, gen, valid, current, crashes, faults>>

\* Mutant of PreCleanup: nothing is deleted.
PreCleanupNothing(a) ==
    /\ phase = "present"
    /\ current = None
    /\ a \in todo
    /\ current' = a
    /\ UNCHANGED <<zone, recordIDs, gen, valid, phase, order, todo, fate, crashes,
                   faults>>

\* Mutant of PreCleanup: the records of other names go too.
PreCleanupZone(a) ==
    /\ phase = "present"
    /\ current = None
    /\ a \in todo
    /\ zone' = {}
    /\ current' = a
    /\ UNCHANGED <<recordIDs, gen, valid, phase, order, todo, fate, crashes, faults>>

\* arvancloudFixProvider.Present, first half: delete, as far as the API lets
\* it, what deleteRecordsByName finds.  Other providers delete nothing.
PreCleanup(a) ==
    /\ phase = "present"
    /\ current = None
    /\ a \in todo
    /\ \/ /\ zone' = IF a \in Fixed THEN zone \ SameName(a) ELSE zone
          /\ UNCHANGED faults
       \/ /\ a \in Fixed
          /\ Fault
          /\ \E gone \in SUBSET SameName(a) : zone' = zone \ gone
    /\ current' = a
    /\ UNCHANGED <<recordIDs, gen, valid, phase, order, todo, fate, crashes>>

\* Mutant of CreateRecord: Present does not wait for the provider's answer.
CreateRecordUnawaited(a) ==
    /\ current = a
    /\ Done(a, "solve")
    /\ UNCHANGED <<zone, recordIDs, gen, valid, order, current, fate, crashes,
                   faults>>

\* Mutant of CreateRecord: the call is repeated as long as the API answers that
\* the record is there already.
CreateUntilAccepted(a) ==
    /\ current = a
    /\ TXT(a) \notin zone
    /\ \/ /\ zone' = zone \union {TXT(a)}
          /\ recordIDs' = recordIDs \union {TXT(a)}
          /\ UNCHANGED <<fate, faults>>
       \/ /\ Fault
          /\ fate' = [fate EXCEPT ![a] = "pending"]
          /\ UNCHANGED <<zone, recordIDs>>
    /\ current' = None
    /\ Done(a, "solve")
    /\ UNCHANGED <<gen, valid, order, crashes>>

\* The rest of Present: the inner provider creates the record, which the API
\* rejects as a duplicate when the zone has the same name and value.
CreateRecord(a) ==
    /\ current = a
    /\ \/ /\ TXT(a) \notin zone
          /\ zone' = zone \union {TXT(a)}
          /\ recordIDs' = recordIDs \union {TXT(a)}
          /\ UNCHANGED <<fate, faults>>
       \/ /\ TXT(a) \in zone \/ Fault
          /\ TXT(a) \in zone => UNCHANGED faults
          /\ fate' = [fate EXCEPT ![a] = "pending"]
          /\ UNCHANGED <<zone, recordIDs>>
    /\ current' = None
    /\ Done(a, "solve")
    /\ UNCHANGED <<gen, valid, order, crashes>>

\* lego leaves out what failed to be presented; the CA validates the others by
\* the record it finds.
Solve(a) ==
    /\ phase = "solve"
    /\ a \in todo
    /\ \/ /\ fate[a] = "none" /\ TXT(a) \in zone
          /\ valid' = valid \union {a}
          /\ UNCHANGED <<fate, faults>>
       \/ /\ fate[a] = "none"
          /\ TXT(a) \in zone => Fault
          /\ TXT(a) \notin zone => UNCHANGED faults
          /\ fate' = [fate EXCEPT ![a] = "invalid"]
          /\ UNCHANGED valid
       \/ /\ fate[a] # "none"
          /\ UNCHANGED <<valid, fate, faults>>
    /\ Done(a, "cleanup")
    /\ UNCHANGED <<zone, recordIDs, gen, order, current, crashes>>

\* Mutant of CleanUp: the call is routed to a provider that did not present.
CleanUpElsewhere(a) ==
    /\ phase = "cleanup"
    /\ a \in todo
    /\ todo' = todo \ {a}
    /\ UNCHANGED <<zone, recordIDs, gen, valid, phase, order, current, fate,
                   crashes, faults>>

\* CleanUp deletes the record it remembers for the token.
CleanUp(a) ==
    /\ phase = "cleanup"
    /\ a \in todo
    /\ \/ /\ TXT(a) \in recordIDs
          /\ zone' = zone \ {TXT(a)}
          /\ recordIDs' = recordIDs \ {TXT(a)}
          /\ UNCHANGED faults
       \/ /\ TXT(a) \in recordIDs => Fault
          /\ TXT(a) \notin recordIDs => UNCHANGED faults
          /\ UNCHANGED <<zone, recordIDs>>
    /\ todo' = todo \ {a}
    /\ UNCHANGED <<gen, valid, phase, order, current, fate, crashes>>

\* Obtain returns.  An authorization that failed is replaced next time, unless
\* lego could not deactivate a pending one.
EndOrder ==
    /\ phase = "cleanup"
    /\ todo = {}
    /\ \/ /\ gen' = [a \in Authz |-> IF fate[a] = "none" THEN gen[a] ELSE gen[a] + 1]
          /\ UNCHANGED faults
       \/ /\ \E a \in Authz : fate[a] = "pending"
          /\ Fault
          /\ gen' = [a \in Authz |-> IF fate[a] = "invalid" THEN gen[a] + 1 ELSE gen[a]]
    /\ phase' = "idle"
    /\ order' = {}
    /\ UNCHANGED <<zone, recordIDs, valid, todo, current, fate, crashes>>

\* The process dies: the records stay, and the CA keeps pending authorizations.
Crash ==
    /\ phase # "idle"
    /\ crashes < MaxCrash
    /\ crashes' = crashes + 1
    /\ recordIDs' = {}
    /\ gen' = [a \in Authz |-> IF fate[a] = "invalid" THEN gen[a] + 1 ELSE gen[a]]
    /\ phase' = "idle"
    /\ order' = {}
    /\ todo' = {}
    /\ current' = None
    /\ UNCHANGED <<zone, valid, fate, faults>>

\* A valid authorization expires between two requests.
Expire(a) ==
    /\ phase = "idle"
    /\ a \in valid
    /\ gen[a] < MaxGen
    /\ valid' = valid \ {a}
    /\ gen' = [gen EXCEPT ![a] = @ + 1]
    /\ UNCHANGED <<zone, recordIDs, phase, order, todo, current, fate, crashes,
                   faults>>

OrderStep ==
    \/ NewOrder \/ EndOrder
    \/ \E a \in Authz : PreCleanup(a) \/ CreateRecord(a) \/ Solve(a) \/ CleanUp(a)

Next == OrderStep \/ Crash \/ \E a \in Authz : Expire(a)

\* Every API call returns (the clients have timeouts) and a failed request is
\* made again by the next check of the renewal daemon.
Spec == Init /\ [][Next]_vars /\ WF_vars(OrderStep)

-----------------------------------------------------------------------------
(* Properties                                                              *)

\* What the pre-cleanup is for: a record left behind by a crash or by a failed
\* CleanUp never makes ArvanCloud reject the challenge as a duplicate, unless
\* the API failed.
NoDuplicate == \A a \in Fixed : faults = 0 /\ current = a => TXT(a) \notin zone

\* Orders whose calls do not fail and that no crash cuts short leave none of their
\* records in the zones: every Present has its CleanUp, at the same authorization.
NothingLeft == faults = 0 /\ crashes = 0 /\ phase = "idle" => zone = {}

\* Every authorization gets valid in the end, whatever crashes and failures
\* came before, even where two of them share a name.
AllValidInTheEnd == <>[](valid = Authz)

\* ArvanCloud authorizations whose name no other authorization has.
Alone == {a \in Fixed : \A b \in Authz : NameOf[b] = NameOf[a] => b = a}

\* An authorization that shares its name with no other fails only if some call
\* failed: the pre-cleanups of the others leave its record alone.
FailsOnlyByFault == faults = 0 => \A a \in Alone : fate[a] = "none"

\* A Present runs only while lego presents.
PresentInv == current # None => phase = "present"

\* What the CA has still to look at is there to be found.
LiveInv == faults = 0 => \A a \in Alone : TXT(a) \in Live => TXT(a) \in zone

\* Without failures every record is one of this order that the provider remembers
\* and that CleanUp is still to come to.
ZoneInv ==
    faults = 0 /\ crashes = 0 =>
      /\ zone \subseteq recordIDs
      /\ zone \subseteq {TXT(a) : a \in IF phase = "cleanup" THEN todo ELSE order}
      /\ phase = "idle" => order = {}

\* The inductive invariant of the three properties above.
IInv ==
    /\ TypeOK
    /\ PresentInv
    /\ NoDuplicate
    /\ FailsOnlyByFault
    /\ LiveInv
    /\ ZoneInv

\* The comment on arvancloudFixProvider: the pre-cleanup "removes any stale TXT
\* records".  It never removes one that this order is waiting to have looked at.
OnlyStaleRemoved ==
    [][\A r \in zone \ zone' : r \notin Live]_vars
=============================================================================
