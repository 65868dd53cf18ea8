----------------------------- MODULE UeContext -----------------------------
(***************************************************************************)
(* The in-memory UE contexts of the UDM (context/context.go).              *)
(*                                                                         *)
(* UDMContext.UdmUePool is a sync.Map from a SUPI to a *UdmUeContext.      *)
(* Handlers look a pointer up, keep it in a local variable and assign      *)
(* fields through it without holding any lock, so the model keeps the      *)
(* pointers: pool maps a SUPI to an object, heap maps an object to its     *)
(* fields.  NewUdmUe always allocates, so an object that has left the pool *)
(* may still be written through a pointer some handler holds.              *)
(*                                                                         *)
(* An object is named by the request whose goroutine allocates it and the  *)
(* place in the code where it does: a handler runs each place at most      *)
(* once, so the name is fresh and no counter is needed.                    *)
(***************************************************************************)
EXTENDS Naturals, FiniteSets

CONSTANTS
  Supis,        \* subscribers
  Requests,     \* HTTP requests, each served by a goroutine of its own
  Sites,        \* the places that call NewUdmUe: a find-or-create helper of
                \* context.go, getUdrURI, and each dataset an SDM retrieval stores
  Pdus,         \* PDU session ids, as they appear in the request path
  None          \* the nil pointer, the empty string, the missing entry

Accesses == {"3gpp", "non3gpp"}

(* The per-UE datasets an SDM retrieval stores in the context.             *)
Datasets == {"am", "smfSel", "trace", "sm", "ueCtxInSmf", "nssai"}

Objects == Requests \X Sites

ASSUME SitesAssumption == {"create", "getUdrURI"} \subseteq Sites

ASSUME NoneAssumption ==
  /\ None \notin Requests
  /\ None \notin Objects
  /\ None \notin Pdus
  /\ None \notin Supis

VARIABLES
  pool,         \* UDMContext.UdmUePool
  heap          \* the UdmUeContext objects

ueVars == <<pool, heap>>

(* UdmUeContext.  A registration, an authentication event or a             *)
(* subscription is named by the request that carried it: the stored        *)
(* pointer is to that request's own copy, which nobody changes.  auth is   *)
(* LastAuthenticationEvent, subs SubscribeToNotifChange, data the datasets *)
(* whose field holds what the UDR answered.                                *)
UdmUeContext ==
  [supi : Supis \cup {None},
   amf  : [Accesses -> Requests \cup {None}],
   pdu  : Pdus \cup {None},
   auth : Requests \cup {None},
   data : SUBSET Datasets,
   subs : SUBSET Requests]

NewContext(s) ==
  [supi |-> s, amf |-> [a \in Accesses |-> None], pdu |-> None,
   auth |-> None, data |-> {}, subs |-> {}]

UeTypeOK ==
  /\ pool \in [Supis -> Objects \cup {None}]
  /\ heap \in [Objects -> UdmUeContext]

UeInit ==
  /\ pool = [s \in Supis |-> None]
  /\ heap = [o \in Objects |-> NewContext(None)]

(* (context *UDMContext) UdmUeFindBySupi                                   *)
UdmUeFindBySupi(s) == pool[s]

(* Put a freshly allocated context into the pool, whatever was there.      *)
StoreUe(o, context) ==
  /\ pool' = [pool EXCEPT ![context.supi] = o]
  /\ heap' = [heap EXCEPT ![o] = context]

(* (context *UDMContext) NewUdmUe                                          *)
NewUdmUe(o, s) == StoreUe(o, NewContext(s))

(* Mutant: both accesses read the 3GPP registration.                       *)
GetAmfRegContextAny3gpp(s, a) ==
  IF UdmUeFindBySupi(s) = None THEN None ELSE heap[UdmUeFindBySupi(s)].amf["3gpp"]

(* UdmAmf3gppRegContextExists and GetAmf3gppRegContext, and the non-3GPP   *)
(* pair: the stored registration, None when the UE or the registration is  *)
(* missing.                                                                *)
GetAmfRegContext(s, a) ==
  IF UdmUeFindBySupi(s) = None THEN None ELSE heap[UdmUeFindBySupi(s)].amf[a]

(* UdmSmfRegContextNotExists: the PduSessionID, None for "" or no UE.      *)
GetPduSessionID(s) ==
  IF UdmUeFindBySupi(s) = None THEN None ELSE heap[UdmUeFindBySupi(s)].pdu

(* Mutant: the registration is stored for both accesses.                   *)
SetAmfRegContextBoth(o, a, r) == heap' = [heap EXCEPT ![o].amf = [b \in Accesses |-> r]]

(* ue.Amf3GppAccessRegistration = &body, through the pointer o.            *)
SetAmfRegContext(o, a, r) == heap' = [heap EXCEPT ![o].amf[a] = r]

(* ue.PduSessionID = pduSessionID, through the pointer o.                  *)
SetPduSessionID(o, p) == heap' = [heap EXCEPT ![o].pdu = p]

(* A registered context is filed under the subscriber it belongs to.       *)
FiledUnderItsSupi ==
  \A s \in Supis : pool[s] # None => heap[pool[s]].supi = s
=============================================================================
