------------------------------ MODULE Handler ------------------------------
(***************************************************************************)
(* What the request handlers of all services share: a goroutine per        *)
(* request, the find-or-create helpers of context/context.go, and          *)
(* createUDMClientToUDR / getUdrURI of producer/ue_context_management.go,  *)
(* which nearly every handler calls before it talks to the UDR.            *)
(*                                                                         *)
(* One action is one access to the shared pool, one access through a       *)
(* pointer, or one network call, so every interleaving the sync.Map and    *)
(* the network allow is a behaviour.  The services extend this module,     *)
(* add their own steps and say what the shared steps leave unchanged.      *)
(***************************************************************************)
EXTENDS UeContext

CONSTANTS
  Amfs,         \* AMF instances, each standing for its GUAMI and callback URI
  Kinds,        \* the operations the instance exercises
  InFlight,     \* bound: how many requests are served at the same time
  Faults,       \* may an external call fail?
  MaxRestarts   \* bound: how often the process is restarted

AmfKinds == {"amfReg", "amfUpdate", "amfGet"}
SmfKinds == {"smfReg", "smfDereg"}
GetKinds == {"getAm", "getNssai", "getSm", "getSmfSel", "getTrace", "getUeCtxInSmf", "getSupi"}
SubsKinds == {"subscribe", "unsubscribe", "modify"}
AuthKinds == {"authGen", "authConfirm", "authDelete"}

(* Requests for which no UE context is made: those that only ask the UDR,  *)
(* those about subscriptions to shared data, and the UDR's notifications.  *)
AskKinds == {"getIdTranslation", "getSharedData", "modifyShared", "ppUpdate"}
SharedSubsKinds == {"subscribeShared", "unsubscribeShared"}
OtherKinds == AskKinds \cup SharedSubsKinds \cup {"dataChange"}

(* The retrievals that put an empty dataset into the context before they   *)
(* ask the UDR.                                                            *)
PlaceholderKinds == {"getSmfSel", "getTrace", "getUeCtxInSmf"}

(* The operations that go through a find-or-create helper.                 *)
FindOrCreateKinds == {"amfReg", "smfReg", "subscribe", "authConfirm"} \cup PlaceholderKinds

ASSUME HandlerAssumption ==
  /\ Kinds \subseteq AmfKinds \cup SmfKinds \cup GetKinds \cup SubsKinds \cup AuthKinds \cup OtherKinds
  /\ None \notin Amfs
  /\ InFlight \in Nat
  /\ MaxRestarts \in Nat
  /\ Faults \in BOOLEAN

VARIABLES
  pc,           \* where the handler of a request is
  req,          \* the request it serves
  ue,           \* its local variable ue: a pointer to a UdmUeContext
  answer,       \* the HTTP answer it gave
  restarts      \* how often the process has been restarted

handlerVars == <<ueVars, pc, req, ue, answer, restarts>>

Labels == {"idle", "exists", "find", "new", "write", "setPdu", "match", "client",
           "clientNew", "discover", "query", "udr", "store", "respond", "answer",
           "done"}

Answers == {"none", "content", "created", "noContent", "problem", "crash"}

(* What a request carries that the handlers look at.                       *)
Body ==
  [kind : Kinds, supi : Supis, access : Accesses, amf : Amfs \cup {None},
   pdu : Pdus \cup {None}, purge : BOOLEAN]

ASSUME BodyAssumption == None \notin Body

(* The requests the API layer hands over: a field that another kind of     *)
(* request would carry has a fixed value.  An update may leave the GUAMI   *)
(* out.                                                                    *)
Bodies ==
  {b \in Body :
     /\ b.kind = "amfReg" => b.amf # None
     /\ b.kind \notin {"amfReg", "amfUpdate"} => b.amf = None
     /\ b.kind \notin AmfKinds => b.access = "3gpp"
     /\ b.kind \in SmfKinds <=> b.pdu # None
     /\ b.kind # "amfUpdate" => ~ b.purge}

HandlerTypeOK ==
  /\ UeTypeOK
  /\ pc \in [Requests -> Labels]
  /\ req \in [Requests -> Body \cup {None}]
  /\ ue \in [Requests -> Objects \cup {None}]
  /\ answer \in [Requests -> Answers]
  /\ restarts \in 0..MaxRestarts

HandlerInit ==
  /\ UeInit
  /\ pc = [r \in Requests |-> "idle"]
  /\ req = [r \in Requests |-> None]
  /\ ue = [r \in Requests |-> None]
  /\ answer = [r \in Requests |-> "none"]
  /\ restarts = 0

-----------------------------------------------------------------------------
Goto(r, l) == pc' = [pc EXCEPT ![r] = l]

Reply(r, code) ==
  /\ Goto(r, "done")
  /\ answer' = [answer EXCEPT ![r] = code]

At(r, l, kinds) == pc[r] = l /\ req[r].kind \in kinds

Serving == {r \in Requests : pc[r] \notin {"idle", "done"}}

AtRest == Serving = {}

(* Where a handler starts, and where it goes on with a client to the UDR.  *)
(* For an id that is no SUPI getUdrURI looks no UE up.                     *)
FirstStep(kind) ==
  CASE kind \in {"amfReg", "smfReg", "amfUpdate", "authDelete", "dataChange"} -> "exists"
    [] kind \in AskKinds -> "discover"
    [] kind \in SharedSubsKinds -> "udr"
    [] OTHER -> "client"

UdrStep(kind) ==
  CASE kind \in {"smfReg", "authGen"} -> "query"
    [] kind \in PlaceholderKinds -> "find"
    [] OTHER -> "udr"

(* A request reaches its handler.                                          *)
Arrive(r) ==
  /\ pc[r] = "idle"
  /\ Cardinality(Serving) < InFlight
  /\ \E b \in Bodies :
       /\ req' = [req EXCEPT ![r] = b]
       /\ Goto(r, FirstStep(b.kind))
  /\ UNCHANGED <<ueVars, ue, answer, restarts>>

(* ue, ok := UdmUeFindBySupi(supi) in a find-or-create helper.             *)
FindUe(r) ==
  /\ At(r, "find", FindOrCreateKinds)
  /\ ue' = [ue EXCEPT ![r] = UdmUeFindBySupi(req[r].supi)]
  /\ Goto(r, IF UdmUeFindBySupi(req[r].supi) = None THEN "new" ELSE "write")
  /\ UNCHANGED <<ueVars, req, answer, restarts>>

(* if !ok { ue = context.NewUdmUe(supi) }: another handler may have stored *)
(* a context since FindUe looked; NewUdmUe replaces it.                    *)
CreateUe(r) ==
  /\ At(r, "new", FindOrCreateKinds)
  /\ NewUdmUe(<<r, "create">>, req[r].supi)
  /\ ue' = [ue EXCEPT ![r] = <<r, "create">>]
  /\ Goto(r, "write")
  /\ UNCHANGED <<req, answer, restarts>>

(* The same pair in getUdrURI.                                             *)
GetUdrUriFind(r) ==
  /\ pc[r] = "client"
  /\ Goto(r, IF UdmUeFindBySupi(req[r].supi) = None THEN "clientNew" ELSE "discover")
  /\ UNCHANGED <<ueVars, req, ue, answer, restarts>>

GetUdrUriCreate(r) ==
  /\ pc[r] = "clientNew"
  /\ NewUdmUe(<<r, "getUdrURI">>, req[r].supi)
  /\ Goto(r, "discover")
  /\ UNCHANGED <<req, ue, answer, restarts>>

(* consumer.SendNFInstancesUDR and createUDMClientToUDR: without a UDR URI *)
(* the request ends with a system failure.                                 *)
Discover(r) ==
  /\ pc[r] = "discover"
  /\ \/ /\ Goto(r, UdrStep(req[r].kind))
        /\ UNCHANGED answer
     \/ /\ Faults
        /\ Reply(r, "problem")
  /\ UNCHANGED <<ueVars, req, ue, restarts>>

(* The UDR refuses a call with a problem, or answers nothing the handler *)
(* can use: it then dereferences a nil response, or asserts the type of a  *)
(* nil model, and gin's recovery answers 500.                              *)
UdrFails(r) ==
  /\ Faults
  /\ \E code \in {"problem", "crash"} : Reply(r, code)

(* The steps that are the same for every service.                          *)
SharedStep(r) ==
  \/ FindUe(r) \/ CreateUe(r)
  \/ GetUdrUriFind(r) \/ GetUdrUriCreate(r) \/ Discover(r)

(* Mutant: the pool is initialised again under the running handlers.       *)
RestartUnderHandlers ==
  /\ restarts < MaxRestarts
  /\ restarts' = restarts + 1
  /\ pool' = [s \in Supis |-> None]
  /\ UNCHANGED <<pc, answer, heap, req, ue>>

(* The process is restarted: the pool and every handler are lost, the UDR  *)
(* keeps its data, the callers see the connection break.                   *)
Restart ==
  /\ restarts < MaxRestarts
  /\ restarts' = restarts + 1
  /\ pool' = [s \in Supis |-> None]
  /\ pc' = [r \in Requests |-> IF r \in Serving THEN "done" ELSE pc[r]]
  /\ answer' = [r \in Requests |-> IF r \in Serving THEN "crash" ELSE answer[r]]
  /\ UNCHANGED <<heap, req, ue>>
=============================================================================
