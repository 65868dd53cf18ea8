---------------------------- MODULE AmfRegistry ----------------------------
(***************************************************************************)
(* What the UDM promises about AMF registrations, whatever it keeps in     *)
(* memory and however its handlers interleave.  A slot is one access of    *)
(* one subscriber.  A registration takes its slot at most once, between    *)
(* its arrival and its answer; an answer of success means that it did.     *)
(* A registration that took its slot may have the AMF of another one for   *)
(* the same slot told to deregister.  This never comes to all of the       *)
(* registrations that took the slot.  The registry does not know whose AMF *)
(* is whose: one that has registered twice is told because of its first.   *)
(***************************************************************************)
EXTENDS FiniteSets

CONSTANTS
  Registrations,
  Slots,
  None

VARIABLES
  slot,         \* the slot a registration is for, None before it arrives
  taken,        \* the registrations that took their slot
  holder,       \* the registration that took a slot last
  told,         \* the registrations because of which an AMF was told to deregister
  reply         \* the answer a registration got

registryVars == <<slot, taken, holder, told, reply>>

Takers(k) == {r \in taken : slot[r] = k}

RegistryInit ==
  /\ slot = [r \in Registrations |-> None]
  /\ taken = {}
  /\ holder = [k \in Slots |-> None]
  /\ told = {}
  /\ reply = [r \in Registrations |-> "none"]

Pending(r) == slot[r] # None /\ reply[r] = "none"

Open(r) ==
  /\ slot[r] = None
  /\ reply[r] = "none"
  /\ \E k \in Slots : slot' = [slot EXCEPT ![r] = k]
  /\ UNCHANGED <<taken, holder, told, reply>>

(* The answer may be lost, so that the caller learns of a failure.         *)
Take(r) ==
  /\ Pending(r)
  /\ r \notin taken
  /\ taken' = taken \cup {r}
  /\ holder' = [holder EXCEPT ![slot[r]] = r]
  /\ reply' \in {reply, [reply EXCEPT ![r] = "failed"]}
  /\ UNCHANGED <<slot, told>>

(* The AMF of o is told to deregister; one registration is not told.       *)
Tell(r, o) ==
  /\ Pending(r)
  /\ r \in taken
  /\ o # r
  /\ slot[o] = slot[r]
  /\ told' = told \cup {o}
  /\ ~ (Takers(slot[r]) \subseteq told')
  /\ UNCHANGED <<slot, taken, holder, reply>>

Succeed(r) ==
  /\ Pending(r)
  /\ r \in taken
  /\ reply' = [reply EXCEPT ![r] = "ok"]
  /\ UNCHANGED <<slot, taken, holder, told>>

Fail(lost) ==
  /\ \A r \in lost : Pending(r)
  /\ reply' = [r \in Registrations |-> IF r \in lost THEN "failed" ELSE reply[r]]
  /\ UNCHANGED <<slot, taken, holder, told>>

RegistryNext ==
  \/ \E r \in Registrations : Open(r) \/ Take(r) \/ Succeed(r)
  \/ \E r, o \in Registrations : Tell(r, o)
  \/ \E lost \in SUBSET Registrations : Fail(lost)

RegistrySpec == RegistryInit /\ [][RegistryNext]_registryVars
=============================================================================
