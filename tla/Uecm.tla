-------------------------------- MODULE Uecm --------------------------------
(***************************************************************************)
(* The UE context management service, Nudm_UECM                            *)
(* (producer/ue_context_management.go, producer/callback/callback.go).     *)
(*                                                                         *)
(* A registration handler reads the old registration, stores the new one   *)
(* in memory, writes it to the UDR and then tells the old AMF.  The UDR    *)
(* and the AMFs are external: they may accept, refuse, or leave the caller *)
(* without a usable answer.                                                *)
(***************************************************************************)
EXTENDS Handler

CONSTANT
  ValidPdus     \* the PDU session ids that strconv.ParseInt accepts

UecmKinds == AmfKinds \cup SmfKinds

ASSUME UecmAssumption ==
  /\ ValidPdus \subseteq Pdus
  /\ None \notin Supis \X Accesses

VARIABLES
  before,       \* what a handler found on entry: old registration or PduSessionID
  notified,     \* the registration whose AMF it told to deregister
  location,     \* the PDU session in the Location header of a 201
  udrAmf,       \* the UDR's AMF registrations
  udrSmf,       \* the UDR's SMF registrations
  accepted      \* history: the requests whose write the UDR carried out

udrVars == <<udrAmf, udrSmf, accepted>>
uecmVars == <<before, notified, location, udrVars>>
vars == <<handlerVars, uecmVars>>

(* An AMF registration at the UDR: the request that created it, the GUAMI  *)
(* it shows and its purge flag.                                            *)
AmfRecord ==
  [by : Requests \cup {None}, guami : Amfs \cup {None}, purged : BOOLEAN]
NoAmfRecord == [by |-> None, guami |-> None, purged |-> FALSE]

UecmTypeOK ==
  /\ before \in [Requests -> Requests \cup Pdus \cup {None}]
  /\ notified \in [Requests -> Requests \cup Pdus \cup {None}]
  /\ location \in [Requests -> Pdus \cup {None}]
  /\ udrAmf \in [Supis -> [Accesses -> AmfRecord]]
  /\ udrSmf \in [Supis -> SUBSET Pdus]
  /\ accepted \in SUBSET Requests

TypeOK == HandlerTypeOK /\ UecmTypeOK

UecmInit ==
  /\ before = [r \in Requests |-> None]
  /\ notified = [r \in Requests |-> None]
  /\ location = [r \in Requests |-> None]
  /\ udrAmf = [s \in Supis |-> [a \in Accesses |-> NoAmfRecord]]
  /\ udrSmf = [s \in Supis |-> {}]
  /\ accepted = {}

-----------------------------------------------------------------------------
UdrRefuses(r) == UdrFails(r) /\ UNCHANGED udrVars

(***************************************************************************)
(* RegistrationAmf3gppAccessProcedure, RegisterAmfNon3gppAccessProcedure.  *)
(***************************************************************************)

(* Mutant: the handler keeps the UE context instead of its registration.   *)
ReadOldContext(r) ==
  /\ At(r, "exists", {"amfReg"})
  /\ before' = [before EXCEPT ![r] = UdmUeFindBySupi(req[r].supi)]
  /\ Goto(r, "find")
  /\ UNCHANGED <<ueVars, req, ue, answer, restarts, notified, location, udrVars>>

(* The exists test and the read of the old registration each look the UE   *)
(* up.  The first one that finds nothing decides, so the pair is one read, *)
(* at the first look-up if that finds nothing and at the second otherwise. *)
ReadOldRegistration(r) ==
  /\ At(r, "exists", {"amfReg"})
  /\ before' = [before EXCEPT ![r] = GetAmfRegContext(req[r].supi, req[r].access)]
  /\ Goto(r, "find")
  /\ UNCHANGED <<ueVars, req, ue, answer, restarts, notified, location, udrVars>>

(* Mutant: the first registration stays, as it does for an SMF.            *)
CreateAmfRegContextOnce(r) ==
  /\ At(r, "write", {"amfReg"})
  /\ IF heap[ue[r]].amf[req[r].access] = None
     THEN SetAmfRegContext(ue[r], req[r].access, r)
     ELSE UNCHANGED heap
  /\ Goto(r, "client")
  /\ UNCHANGED <<pool, req, ue, answer, restarts, before, notified, location, udrVars>>

(* CreateAmf3gppRegContext, CreateAmfNon3gppRegContext: the assignment     *)
(* through the pointer, before the UDR has been asked.                     *)
CreateAmfRegContext(r) ==
  /\ At(r, "write", {"amfReg"})
  /\ SetAmfRegContext(ue[r], req[r].access, r)
  /\ Goto(r, "client")
  /\ UNCHANGED <<pool, req, ue, answer, restarts, before, notified, location, udrVars>>

CommitAmf(r) ==
  /\ udrAmf' = [udrAmf EXCEPT ![req[r].supi][req[r].access] =
                  [by |-> r, guami |-> req[r].amf, purged |-> FALSE]]
  /\ accepted' = accepted \cup {r}
  /\ UNCHANGED udrSmf

(* Mutant: a refusal is treated like the error that comes with a 201.      *)
UdrCreateAmfUnchecked(r) ==
  /\ At(r, "udr", {"amfReg"})
  /\ \/ CommitAmf(r)
     \/ UNCHANGED udrVars
  /\ Goto(r, "respond")
  /\ UNCHANGED <<ueVars, req, ue, answer, restarts, before, notified, location>>

(* CreateAmfContext3gpp, CreateAmfContextNon3gpp: the UDR may carry the    *)
(* write out and its answer be lost.  An error that comes with a 201       *)
(* counts as success for 3GPP access and crashes the non-3GPP handler;     *)
(* both outcomes are here.                                                 *)
UdrCreateAmf(r) ==
  /\ At(r, "udr", {"amfReg"})
  /\ \/ /\ CommitAmf(r)
        /\ Goto(r, "respond")
        /\ UNCHANGED answer
     \/ /\ Faults
        /\ CommitAmf(r)
        /\ Reply(r, "crash")
     \/ UdrRefuses(r)
  /\ UNCHANGED <<ueVars, req, ue, restarts, before, notified, location>>

(* Mutant: the old registration is looked up when it is needed.            *)
NotifyStoredAmf(r) ==
  /\ At(r, "respond", {"amfReg"})
  /\ before[r] # None
  /\ notified' = [notified EXCEPT ![r] = GetAmfRegContext(req[r].supi, req[r].access)]
  /\ Goto(r, "answer")
  /\ UNCHANGED <<ueVars, req, ue, answer, restarts, before, location, udrVars>>

(* Mutant: only 3GPP access notifies.                                      *)
NotifyOld3gppAmf(r) ==
  /\ At(r, "respond", {"amfReg"})
  /\ before[r] # None
  /\ notified' = [notified EXCEPT ![r] = IF req[r].access = "3gpp" THEN before[r] ELSE None]
  /\ Goto(r, "answer")
  /\ UNCHANGED <<ueVars, req, ue, answer, restarts, before, location, udrVars>>

(* SendOnDeregistrationNotification to the old registration's callback     *)
(* URI; whether the AMF answers does not matter.                           *)
NotifyOldAmf(r) ==
  /\ At(r, "respond", {"amfReg"})
  /\ before[r] # None
  /\ notified' = [notified EXCEPT ![r] = before[r]]
  /\ Goto(r, "answer")
  /\ UNCHANGED <<ueVars, req, ue, answer, restarts, before, location, udrVars>>

(* return nil, nil, nil: the handler answers 204.                          *)
AnswerReplaced(r) ==
  /\ At(r, "answer", {"amfReg"})
  /\ Reply(r, "noContent")
  /\ UNCHANGED <<ueVars, req, ue, restarts, before, notified, location, udrVars>>

(* No old registration: 201 with a Location built from the UE's context.   *)
(* The look-up ignores a miss, which would be a nil dereference.           *)
AnswerCreated(r) ==
  /\ At(r, "respond", {"amfReg"})
  /\ before[r] = None
  /\ Reply(r, IF UdmUeFindBySupi(req[r].supi) = None THEN "crash" ELSE "created")
  /\ UNCHANGED <<ueVars, req, ue, restarts, before, notified, location, udrVars>>

-----------------------------------------------------------------------------
(***************************************************************************)
(* UpdateAmf3gppAccessProcedure, UpdateAmfNon3gppAccessProcedure.          *)
(***************************************************************************)

(* currentContext == nil: CONTEXT_NOT_FOUND.                               *)
FindCurrentContext(r) ==
  /\ At(r, "exists", {"amfUpdate"})
  /\ IF GetAmfRegContext(req[r].supi, req[r].access) = None
     THEN Reply(r, "problem")
     ELSE /\ Goto(r, IF req[r].amf = None THEN "client" ELSE "match")
          /\ UNCHANGED answer
  /\ UNCHANGED <<ueVars, req, ue, restarts, before, notified, location, udrVars>>

(* Mutant: any stored registration will do.                                *)
AnyStoredGUAMI(r) == GetAmfRegContext(req[r].supi, req[r].access) # None

(* SameAsStoredGUAMI3gpp, SameAsStoredGUAMINon3gpp: a second look-up.      *)
SameAsStoredGUAMI(r) ==
  LET stored == GetAmfRegContext(req[r].supi, req[r].access)
  IN  stored # None /\ req[stored].amf = req[r].amf

(* The same GUAMI makes the update a deregistration, PurgeFlag = true; any *)
(* other is INVALID_GUAMI.                                                 *)
CheckGuami(r) ==
  /\ At(r, "match", {"amfUpdate"})
  /\ IF SameAsStoredGUAMI(r)
     THEN /\ req' = [req EXCEPT ![r].purge = TRUE]
          /\ Goto(r, "client")
          /\ UNCHANGED answer
     ELSE Reply(r, "problem") /\ UNCHANGED req
  /\ UNCHANGED <<ueVars, ue, restarts, before, notified, location, udrVars>>

(* The patch items, applied to the record the UDR holds by then.           *)
PatchAmf(r) ==
  LET s == req[r].supi
      a == req[r].access
  IN  /\ udrAmf[s][a].by # None
      /\ udrAmf' = [udrAmf EXCEPT ![s][a].guami = IF req[r].amf = None THEN @ ELSE req[r].amf,
                                  ![s][a].purged = @ \/ req[r].purge]
      /\ accepted' = accepted \cup {r}
      /\ UNCHANGED udrSmf

(* AmfContext3gpp, AmfContextNon3gpp.  The in-memory registration stays.   *)
UdrPatchAmf(r) ==
  /\ At(r, "udr", {"amfUpdate"})
  /\ \/ PatchAmf(r) /\ Reply(r, "noContent")
     \/ Faults /\ PatchAmf(r) /\ Reply(r, "crash")
     \/ udrAmf[req[r].supi][req[r].access].by = None /\ Reply(r, "problem") /\ UNCHANGED udrVars
     \/ UdrRefuses(r)
  /\ UNCHANGED <<ueVars, req, ue, restarts, before, notified, location>>

(* GetAmf3gppAccessProcedure, GetAmfNon3gppAccessProcedure: a read at the  *)
(* UDR, after getUdrURI may have created the context.                      *)
UdrReadAmf(r) ==
  /\ At(r, "udr", {"amfGet"})
  /\ \/ /\ udrAmf[req[r].supi][req[r].access].by # None
        /\ Reply(r, "content")
        /\ UNCHANGED udrVars
     \/ /\ udrAmf[req[r].supi][req[r].access].by = None
        /\ Reply(r, "problem")
        /\ UNCHANGED udrVars
     \/ UdrRefuses(r)
  /\ UNCHANGED <<ueVars, req, ue, restarts, before, notified, location>>

-----------------------------------------------------------------------------
(***************************************************************************)
(* RegistrationSmfRegistrationsProcedure.                                  *)
(***************************************************************************)

(* Mutant: the AMF registration decides whether a context existed.         *)
ReadAmfRegistration(r) ==
  /\ At(r, "exists", {"smfReg"})
  /\ before' = [before EXCEPT ![r] = GetAmfRegContext(req[r].supi, "3gpp")]
  /\ Goto(r, "find")
  /\ UNCHANGED <<ueVars, req, ue, answer, restarts, notified, location, udrVars>>

(* contextExisted := !UdmSmfRegContextNotExists(ueID).                     *)
ReadPduSessionID(r) ==
  /\ At(r, "exists", {"smfReg"})
  /\ before' = [before EXCEPT ![r] = GetPduSessionID(req[r].supi)]
  /\ Goto(r, "find")
  /\ UNCHANGED <<ueVars, req, ue, answer, restarts, notified, location, udrVars>>

(* CreateSmfRegContext: only a context without a PDU session takes this    *)
(* one; the test and the assignment are two accesses.                      *)
TestPduSessionID(r) ==
  /\ At(r, "write", {"smfReg"})
  /\ Goto(r, IF heap[ue[r]].pdu = None THEN "setPdu" ELSE "client")
  /\ UNCHANGED <<ueVars, req, ue, answer, restarts, before, notified, location, udrVars>>

CreateSmfRegContext(r) ==
  /\ At(r, "setPdu", {"smfReg"})
  /\ SetPduSessionID(ue[r], req[r].pdu)
  /\ Goto(r, "client")
  /\ UNCHANGED <<pool, req, ue, answer, restarts, before, notified, location, udrVars>>

(* QueryAmData and what follows it: data that bars packet services, or no  *)
(* data (404), refuses the registration; any other failure of the query    *)
(* lets it go on.  Then the PDU session id is parsed.                      *)
AuthorizeSmf(r) ==
  /\ At(r, "query", {"smfReg"})
  /\ \E data \in {"clear", "barred", "missing"} \cup (IF Faults THEN {"error"} ELSE {}) :
       IF data \in {"clear", "error"} /\ req[r].pdu \in ValidPdus
       THEN Goto(r, "udr") /\ UNCHANGED answer
       ELSE Reply(r, "problem")
  /\ UNCHANGED <<ueVars, req, ue, restarts, before, notified, location, udrVars>>

CommitSmf(r) ==
  /\ udrSmf' = [udrSmf EXCEPT ![req[r].supi] = @ \cup {req[r].pdu}]
  /\ accepted' = accepted \cup {r}
  /\ UNCHANGED udrAmf

(* CreateSmfContextNon3gpp: an error without a 200 or 201 is a problem     *)
(* even when the response is missing.                                      *)
UdrCreateSmf(r) ==
  /\ At(r, "udr", {"smfReg"})
  /\ \/ CommitSmf(r) /\ Goto(r, "respond") /\ UNCHANGED answer
     \/ Faults /\ CommitSmf(r) /\ Reply(r, "problem")
     \/ Faults /\ Reply(r, "problem") /\ UNCHANGED udrVars
  /\ UNCHANGED <<ueVars, req, ue, restarts, before, notified, location>>

(* 204 when a context existed, else 201 with the Location of ue.PduSessionID. *)
AnswerSmf(r) ==
  /\ At(r, "respond", {"smfReg"})
  /\ IF before[r] # None
     THEN Reply(r, "noContent") /\ UNCHANGED location
     ELSE IF UdmUeFindBySupi(req[r].supi) = None
     THEN Reply(r, "crash") /\ UNCHANGED location
     ELSE /\ Reply(r, "created")
          /\ location' = [location EXCEPT ![r] = GetPduSessionID(req[r].supi)]
  /\ UNCHANGED <<ueVars, req, ue, restarts, before, notified, udrVars>>

(* DeregistrationSmfRegistrationsProcedure: the UDR only; the in-memory    *)
(* PduSessionID stays.                                                     *)
UdrDeleteSmf(r) ==
  LET Remove == /\ udrSmf' = [udrSmf EXCEPT ![req[r].supi] = @ \ {req[r].pdu}]
                /\ accepted' = accepted \cup {r}
                /\ UNCHANGED udrAmf
  IN  /\ At(r, "udr", {"smfDereg"})
      /\ \/ Remove /\ Reply(r, "noContent")
         \/ Faults /\ Remove /\ Reply(r, "crash")
         \/ UdrRefuses(r)
      /\ UNCHANGED <<ueVars, req, ue, restarts, before, notified, location>>

-----------------------------------------------------------------------------
AmfRegistration(r) ==
  \/ ReadOldRegistration(r) \/ CreateAmfRegContext(r) \/ UdrCreateAmf(r)
  \/ NotifyOldAmf(r) \/ AnswerReplaced(r) \/ AnswerCreated(r)

AmfUpdate(r) ==
  FindCurrentContext(r) \/ CheckGuami(r) \/ UdrPatchAmf(r) \/ UdrReadAmf(r)

SmfRegistration(r) ==
  \/ ReadPduSessionID(r) \/ TestPduSessionID(r) \/ CreateSmfRegContext(r)
  \/ AuthorizeSmf(r) \/ UdrCreateSmf(r) \/ AnswerSmf(r) \/ UdrDeleteSmf(r)

UecmStep(r) == AmfRegistration(r) \/ AmfUpdate(r) \/ SmfRegistration(r)

Init == HandlerInit /\ UecmInit

(* One step of the goroutine that serves r.                                *)
Handle(r) == UecmStep(r) \/ (SharedStep(r) /\ UNCHANGED uecmVars)

Next ==
  \/ Restart /\ UNCHANGED uecmVars
  \/ \E r \in Requests : (Arrive(r) /\ UNCHANGED uecmVars) \/ Handle(r)

Spec == Init /\ [][Next]_vars

-----------------------------------------------------------------------------
(***************************************************************************)
(* Properties.                                                             *)
(***************************************************************************)
AmfRegs == {r \in Requests : req[r] # None /\ req[r].kind = "amfReg"}

(* The registrations for an access of a subscriber that the UDR took.      *)
AcceptedFor(s, a) ==
  {r \in accepted \cap AmfRegs : req[r].supi = s /\ req[r].access = a}

NotifiedRegs == {notified[r] : r \in Requests} \ {None}

(* Success is only ever answered for a write the UDR carried out: the      *)
(* handlers write their own memory first and ask the UDR afterwards.       *)
SuccessOnlyIfAccepted ==
  \A r \in Requests :
    answer[r] \in {"created", "noContent"} /\ req[r].kind \in UecmKinds => r \in accepted

(* A deregistration notification goes to another registration of the same  *)
(* subscriber and the same access, never to the request's own, and only    *)
(* when the UDR has taken the registration that supersedes it.             *)
NotifiedHeldTheAccess ==
  \A r \in Requests : notified[r] # None =>
    /\ r \in accepted
    /\ notified[r] \in AmfRegs \ {r}
    /\ req[notified[r]].supi = req[r].supi
    /\ req[notified[r]].access = req[r].access

(* Two registrations never tell each other's AMF to deregister: each reads *)
(* the old registration before it stores its own.                          *)
NoMutualDeregistration ==
  \A r, o \in Requests : notified[r] = o => notified[o] # r

(* The registrations for an access of a subscriber, whether the UDR took   *)
(* them or not, and the AMFs that were told to deregister from it.         *)
SlotRegs(s, a) == {r \in AmfRegs : req[r].supi = s /\ req[r].access = a}
NotifiedAmfs(s, a) == {req[o].amf : o \in NotifiedRegs \cap SlotRegs(s, a)}

RegistersOnce(s, a) ==
  \A r, o \in SlotRegs(s, a) : req[r].amf = req[o].amf => r = o

(* However registrations race, fail or are lost, an AMF whose registration *)
(* the UDR took is left that has not been told to deregister, if no AMF    *)
(* registers twice for the access.  One that does is told to deregister    *)
(* because of its own new registration (ue_context_management.go:247 looks *)
(* at no GUAMI), be it the only AMF of the access.                         *)
SomeAmfStays ==
  \A s \in Supis, a \in Accesses :
    AcceptedFor(s, a) # {} /\ RegistersOnce(s, a) =>
      \E r \in AcceptedFor(s, a) : req[r].amf \notin NotifiedAmfs(s, a)

(* The look-up behind a Location header finds a context: nothing removes   *)
(* one from the pool while the handler runs.                               *)
LocationFindsContext ==
  \A r \in Requests : pc[r] = "respond" => pool[req[r].supi] # None

(* The context filed under a SUPI carries that SUPI and registrations made *)
(* for that SUPI and access, although handlers write through pointers they *)
(* looked up earlier.                                                      *)
ContextHoldsItsOwn ==
  /\ FiledUnderItsSupi
  /\ \A s \in Supis, a \in Accesses : GetAmfRegContext(s, a) # None =>
       LET o == GetAmfRegContext(s, a)
       IN  o \in AmfRegs /\ req[o].supi = s /\ req[o].access = a

(* With requests one at a time and no failures, the memory and the UDR     *)
(* agree between requests on who holds each access.                        *)
MemoryMatchesUdr ==
  AtRest => \A s \in Supis, a \in Accesses :
              GetAmfRegContext(s, a) = udrAmf[s][a].by

(* Every registration the UDR took and no longer shows has had its AMF     *)
(* told: the notification "to the old AMF corresponding to the same        *)
(* access, if one exists" (ue_context_management.go:245).                  *)
SupersededIsNotified ==
  AtRest => \A s \in Supis, a \in Accesses :
              \A o \in AcceptedFor(s, a) \ {udrAmf[s][a].by} : o \in NotifiedRegs

(* A deregistration update lands on the registration of the AMF that sent  *)
(* it, never on the one that has replaced it.                              *)
RecordShowsItsAmf ==
  \A s \in Supis, a \in Accesses :
    udrAmf[s][a].by # None => udrAmf[s][a].guami = req[udrAmf[s][a].by].amf

(* However updates race with registrations, the UDR's record shows an AMF  *)
(* that registered for this subscriber and this access: an update only     *)
(* passes with the GUAMI of a registration stored in the same slot.        *)
RecordShowsARegisteredAmf ==
  \A s \in Supis, a \in Accesses : udrAmf[s][a].by # None =>
    \E o \in AmfRegs : /\ req[o].supi = s
                        /\ req[o].access = a
                        /\ req[o].amf = udrAmf[s][a].guami

(* The Location of a new SMF registration names the session it registered. *)
LocationNamesTheSession ==
  \A r \in Requests : location[r] # None => location[r] = req[r].pdu

(* AmfRegistry, with the UDR's records as its holders.                     *)
Registry == INSTANCE AmfRegistry WITH
  Registrations <- Requests,
  Slots  <- Supis \X Accesses,
  slot   <- [r \in Requests |-> IF r \in AmfRegs THEN <<req[r].supi, req[r].access>> ELSE None],
  taken  <- accepted \cap AmfRegs,
  holder <- [k \in Supis \X Accesses |-> udrAmf[k[1]][k[2]].by],
  told   <- NotifiedRegs,
  reply  <- [r \in Requests |-> IF r \notin AmfRegs \/ answer[r] = "none" THEN "none"
                               ELSE IF answer[r] \in {"created", "noContent"} THEN "ok"
                               ELSE "failed"]

(* The handlers implement the registry at every interleaving.              *)
ImplementsRegistry == Registry!RegistrySpec
=============================================================================
