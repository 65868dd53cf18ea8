----------------------------- MODULE UecmProofs -----------------------------
(***************************************************************************)
(* Proofs about Uecm, for every value of its constants.                    *)
(*                                                                         *)
(* TypeCorrect is the type invariant.  The safety theorems rest on Inv,    *)
(* which orders the registrations of a slot by who read whom: a handler    *)
(* reads the old registration before it stores its own, so whatever it     *)
(* read had been stored when nothing of its own had been.                  *)
(* RecordInv adds what the UDR's records show; with it the handlers        *)
(* implement AmfRegistry.  SerialInv is the invariant of runs with one     *)
(* request at a time.                                                      *)
(***************************************************************************)
EXTENDS Uecm, HandlerProofs, FiniteSetTheorems

-----------------------------------------------------------------------------
(***************************************************************************)
(* Types.                                                                  *)
(***************************************************************************)

Typed == TypeOK /\ HasRequest

LEMMA TypedHandlers == Typed <=> HandlerTyped /\ UecmTypeOK
  BY DEF Typed, TypeOK, HandlerTyped

LEMMA InitTyped == Init => Typed
<1> SUFFICES ASSUME Init PROVE Typed
  OBVIOUS
<1>1. HandlerTyped
  BY HandlerInitTyped DEF Init
<1>2. UecmTypeOK
  BY DEF Init, UecmInit, UecmTypeOK, AmfRecord, NoAmfRecord
<1> QED
  BY <1>1, <1>2, TypedHandlers

(* The lemmas of HandlerProofs, for the handlers of this service.          *)
LEMMA LookUpTyped ==
  ASSUME TypeOK, NEW s \in Supis, NEW a \in Accesses
  PROVE  /\ pool[s] \in Objects \cup {None}
         /\ GetAmfRegContext(s, a) \in Requests \cup {None}
         /\ GetPduSessionID(s) \in Pdus \cup {None}
  BY ContextReads DEF TypeOK, HandlerTypeOK

LEMMA RequestTyped ==
  ASSUME Typed, NEW r \in Requests, pc[r] # "idle"
  PROVE  /\ req[r] \in Body
         /\ req[r].kind \in Kinds
         /\ req[r].supi \in Supis
         /\ req[r].access \in Accesses
         /\ req[r].amf \in Amfs \cup {None}
         /\ req[r].pdu \in Pdus \cup {None}
         /\ req[r].purge \in BOOLEAN
  BY TypedHandlers, RequestOf

LEMMA MovesTyped ==
  ASSUME Typed, NEW r \in Requests, pc[r] # "idle", UNCHANGED req,
         NEW l \in Labels \ {"idle"}, Goto(r, l)
  PROVE  HasRequest' /\ pc' \in [Requests -> Labels]
  BY TypedHandlers, MoveOf

(* A step that leaves the contexts alone and answers, or moves on to       *)
(* "respond", "client", "match" or "udr".                                  *)
Advances(r) ==
  \/ Goto(r, "respond") /\ UNCHANGED answer
  \/ Goto(r, "client") /\ UNCHANGED answer
  \/ Goto(r, "setPdu") /\ UNCHANGED answer
  \/ Goto(r, "match") /\ UNCHANGED answer
  \/ Goto(r, "udr") /\ UNCHANGED answer
  \/ \E c \in Answers : Reply(r, c)

LEMMA AdvancesTyped ==
  ASSUME Typed, NEW r \in Requests, pc[r] # "idle",
         UNCHANGED <<ueVars, req, ue, restarts>>, Advances(r)
  PROVE  HandlerTypeOK' /\ HasRequest'
<1>1. {"respond", "client", "setPdu", "match", "udr"} \subseteq Labels \ {"idle"}
  BY DEF Labels
<1>2. HandlerTyped'
  BY <1>1, TypedHandlers, AdvanceTyped DEF Advances
<1> QED
  BY <1>2 DEF HandlerTyped

LEMMA SharedTyped ==
  ASSUME Typed, NEW r \in Requests, SharedStep(r), UNCHANGED uecmVars
  PROVE  Typed'
<1>1. UecmTypeOK'
  BY TypedHandlers DEF UecmTypeOK, uecmVars, udrVars
<1>2. HandlerTyped'
  BY TypedHandlers, SharedStepTyped
<1> QED
  BY <1>1, <1>2 DEF Typed, TypeOK, HandlerTyped

(* The writes at the UDR.                                                  *)
LEMMA CommitAmfTyped ==
  ASSUME Typed, NEW r \in Requests, pc[r] # "idle", CommitAmf(r)
  PROVE  /\ udrAmf' \in [Supis -> [Accesses -> AmfRecord]]
         /\ udrSmf' \in [Supis -> SUBSET Pdus]
         /\ accepted' \in SUBSET Requests
<1>1. [by |-> r, guami |-> req[r].amf, purged |-> FALSE] \in AmfRecord
  BY RequestTyped DEF AmfRecord
<1> QED
  BY <1>1, RequestTyped DEF Typed, TypeOK, UecmTypeOK, CommitAmf

LEMMA PatchAmfTyped ==
  ASSUME Typed, NEW r \in Requests, pc[r] # "idle", PatchAmf(r)
  PROVE  /\ udrAmf' \in [Supis -> [Accesses -> AmfRecord]]
         /\ udrSmf' \in [Supis -> SUBSET Pdus]
         /\ accepted' \in SUBSET Requests
<1> DEFINE s == req[r].supi
           a == req[r].access
           old == udrAmf[s][a]
           new == [old EXCEPT !.guami = IF req[r].amf = None THEN @ ELSE req[r].amf,
                              !.purged = @ \/ req[r].purge]
<1>1. s \in Supis /\ a \in Accesses
  BY RequestTyped
<1>2. old \in AmfRecord
  BY <1>1 DEF Typed, TypeOK, UecmTypeOK
<1>3. new \in AmfRecord
  <2>1. (old.purged \/ req[r].purge) \in BOOLEAN
    BY <1>2, RequestTyped DEF AmfRecord
  <2> QED
    BY <1>2, <2>1, RequestTyped DEF AmfRecord
<1>4. udrAmf' = [udrAmf EXCEPT ![s][a] = new]
  BY ZenonT(40) DEF PatchAmf
<1> HIDE DEF new
<1>5. udrAmf' \in [Supis -> [Accesses -> AmfRecord]]
  BY <1>1, <1>3, <1>4 DEF Typed, TypeOK, UecmTypeOK
<1> QED
  BY <1>5 DEF PatchAmf, Typed, TypeOK, UecmTypeOK

LEMMA CommitSmfTyped ==
  ASSUME Typed, NEW r \in Requests, pc[r] # "idle", CommitSmf(r), req[r].kind = "smfReg"
  PROVE  /\ udrAmf' \in [Supis -> [Accesses -> AmfRecord]]
         /\ udrSmf' \in [Supis -> SUBSET Pdus]
         /\ accepted' \in SUBSET Requests
<1>1. req[r].pdu \in Pdus /\ req[r].supi \in Supis
  BY RequestTyped DEF Typed, HasRequest, SmfKinds
<1> QED
  BY <1>1 DEF Typed, TypeOK, UecmTypeOK, CommitSmf
(* The assignments through a pointer.                                      *)
LEMMA SetAmfRegContextTyped ==
  ASSUME heap \in [Objects -> UdmUeContext], NEW o \in Objects \cup {None},
         NEW a \in Accesses, NEW r \in Requests, SetAmfRegContext(o, a, r)
  PROVE  heap' \in [Objects -> UdmUeContext]
<1>1. CASE o \in Objects
  <2> DEFINE new == [heap[o] EXCEPT !.amf = [@ EXCEPT ![a] = r]]
  <2>1. new \in UdmUeContext
    BY <1>1 DEF UdmUeContext
  <2>2. heap' = [heap EXCEPT ![o] = new]
    BY <1>1 DEF SetAmfRegContext, UdmUeContext
  <2> HIDE DEF new
  <2> QED
    BY <1>1, <2>1, <2>2
<1>2. CASE o = None
  BY <1>2, NoneAssumption DEF SetAmfRegContext
<1> QED
  BY <1>1, <1>2

LEMMA SetPduSessionIDTyped ==
  ASSUME heap \in [Objects -> UdmUeContext], NEW o \in Objects \cup {None},
         NEW p \in Pdus, SetPduSessionID(o, p)
  PROVE  heap' \in [Objects -> UdmUeContext]
<1>1. CASE o \in Objects
  <2> DEFINE new == [heap[o] EXCEPT !.pdu = p]
  <2>1. new \in UdmUeContext
    BY <1>1 DEF UdmUeContext
  <2>2. heap' = [heap EXCEPT ![o] = new]
    BY <1>1 DEF SetPduSessionID, UdmUeContext
  <2> HIDE DEF new
  <2> QED
    BY <1>1, <2>1, <2>2
<1>2. CASE o = None
  BY <1>2, NoneAssumption DEF SetPduSessionID
<1> QED
  BY <1>1, <1>2

LEMMA AmfRegistrationTyped ==
  ASSUME Typed, NEW r \in Requests, AmfRegistration(r)
  PROVE  Typed'
<1>0. pc[r] # "idle" /\ {"created", "noContent", "problem", "crash"} \subseteq Answers
  BY DEF AmfRegistration, ReadOldRegistration, CreateAmfRegContext, UdrCreateAmf,
         NotifyOldAmf, AnswerReplaced, AnswerCreated, At, Answers
<1> USE DEF Typed, TypeOK
<1>1. CASE ReadOldRegistration(r)
  <2>1. GetAmfRegContext(req[r].supi, req[r].access) \in Requests \cup {None}
    BY <1>0, RequestTyped, LookUpTyped
  <2>2. HasRequest' /\ pc' \in [Requests -> Labels]
    BY <1>0, <1>1, MovesTyped DEF ReadOldRegistration, Labels
  <2> QED
    BY <1>1, <2>1, <2>2 DEF ReadOldRegistration, HandlerTypeOK, UecmTypeOK, ueVars, udrVars, UeTypeOK
<1>2. CASE CreateAmfRegContext(r)
  <2>1. UeTypeOK'
    BY <1>0, <1>2, RequestTyped, SetAmfRegContextTyped
    DEF CreateAmfRegContext, HandlerTypeOK, UeTypeOK
  <2>2. HasRequest' /\ pc' \in [Requests -> Labels]
    BY <1>0, <1>2, MovesTyped DEF CreateAmfRegContext, Labels
  <2> QED
    BY <1>2, <2>1, <2>2 DEF CreateAmfRegContext, HandlerTypeOK, UecmTypeOK, udrVars
<1>3. CASE UdrCreateAmf(r)
  <2>1. HandlerTypeOK' /\ HasRequest'
    BY <1>0, <1>3, AdvancesTyped DEF UdrCreateAmf, Advances, UdrRefuses, UdrFails
  <2>2. CASE CommitAmf(r)
    BY <1>0, <1>3, <2>1, <2>2, CommitAmfTyped DEF UdrCreateAmf, UecmTypeOK
  <2>3. CASE UNCHANGED udrVars
    BY <1>3, <2>1, <2>3 DEF UdrCreateAmf, UecmTypeOK, udrVars
  <2> QED
    BY <1>3, <2>2, <2>3 DEF UdrCreateAmf, UdrRefuses
<1>4. CASE NotifyOldAmf(r)
  <2>1. HasRequest' /\ pc' \in [Requests -> Labels]
    BY <1>0, <1>4, MovesTyped DEF NotifyOldAmf, Labels
  <2> QED
    BY <1>4, <2>1 DEF NotifyOldAmf, HandlerTypeOK, UecmTypeOK, ueVars, udrVars, UeTypeOK
<1>5. CASE AnswerReplaced(r)
  <2>1. HandlerTypeOK' /\ HasRequest'
    BY <1>0, <1>5, AdvancesTyped DEF AnswerReplaced, Advances
  <2> QED
    BY <1>5, <2>1 DEF AnswerReplaced, UecmTypeOK, udrVars
<1>6. CASE AnswerCreated(r)
  <2>1. HandlerTypeOK' /\ HasRequest'
    BY <1>0, <1>6, AdvancesTyped DEF AnswerCreated, Advances
  <2> QED
    BY <1>6, <2>1 DEF AnswerCreated, UecmTypeOK, udrVars
<1> QED
  BY <1>1, <1>2, <1>3, <1>4, <1>5, <1>6 DEF AmfRegistration
LEMMA AmfUpdateTyped ==
  ASSUME Typed, NEW r \in Requests, AmfUpdate(r)
  PROVE  Typed'
<1>0. pc[r] # "idle" /\ {"content", "noContent", "problem", "crash"} \subseteq Answers
  BY DEF AmfUpdate, FindCurrentContext, CheckGuami, UdrPatchAmf, UdrReadAmf, At, Answers
<1> USE DEF Typed, TypeOK
<1>1. CASE FindCurrentContext(r)
  <2>1. HandlerTypeOK' /\ HasRequest'
    BY <1>0, <1>1, AdvancesTyped DEF FindCurrentContext, Advances
  <2> QED
    BY <1>1, <2>1 DEF FindCurrentContext, UecmTypeOK, udrVars
<1>2. CASE CheckGuami(r)
  <2>1. CASE UNCHANGED req
    <3>1. HandlerTypeOK' /\ HasRequest'
      BY <1>0, <1>2, <2>1, AdvancesTyped DEF CheckGuami, Advances
    <3> QED
      BY <1>2, <3>1 DEF CheckGuami, UecmTypeOK, udrVars
  <2>2. CASE /\ req' = [req EXCEPT ![r].purge = TRUE]
             /\ Goto(r, "client")
             /\ UNCHANGED answer
    <3>1. req' \in [Requests -> Body \cup {None}]
      <4>1. [req[r] EXCEPT !.purge = TRUE] \in Body
        BY <1>0, RequestTyped DEF Body
      <4> QED
        BY <2>2, <4>1 DEF HandlerTypeOK
    <3>2. req'[r] \in Body /\ req'[r].kind = req[r].kind /\ req'[r].pdu = req[r].pdu
      BY <1>0, <2>2, RequestTyped DEF HandlerTypeOK, Body
    <3>3. \A q \in Requests \ {r} : req'[q] = req[q] /\ pc'[q] = pc[q]
      BY <2>2 DEF HandlerTypeOK, Goto
    <3>4. pc' \in [Requests -> Labels] /\ pc'[r] = "client"
      BY <2>2 DEF HandlerTypeOK, Goto, Labels
    <3>5. HasRequest'
      BY <1>0, <3>2, <3>3, <3>4, BodyAssumption DEF HasRequest
    <3> QED
      BY <1>2, <2>2, <3>1, <3>4, <3>5
      DEF CheckGuami, HandlerTypeOK, ueVars, UeTypeOK, UecmTypeOK, udrVars
  <2> QED
    BY <1>2, <2>1, <2>2 DEF CheckGuami
<1>3. CASE UdrPatchAmf(r)
  <2>1. HandlerTypeOK' /\ HasRequest'
    BY <1>0, <1>3, AdvancesTyped DEF UdrPatchAmf, Advances, UdrRefuses, UdrFails
  <2>2. CASE PatchAmf(r)
    BY <1>0, <1>3, <2>1, <2>2, PatchAmfTyped DEF UdrPatchAmf, UecmTypeOK
  <2>3. CASE UNCHANGED udrVars
    BY <1>3, <2>1, <2>3 DEF UdrPatchAmf, UecmTypeOK, udrVars
  <2> QED
    BY <1>3, <2>2, <2>3 DEF UdrPatchAmf, UdrRefuses
<1>4. CASE UdrReadAmf(r)
  <2>1. HandlerTypeOK' /\ HasRequest'
    BY <1>0, <1>4, AdvancesTyped DEF UdrReadAmf, Advances, UdrRefuses, UdrFails
  <2> QED
    BY <1>4, <2>1 DEF UdrReadAmf, UdrRefuses, UecmTypeOK, udrVars
<1> QED
  BY <1>1, <1>2, <1>3, <1>4 DEF AmfUpdate

LEMMA SmfRegistrationTyped ==
  ASSUME Typed, NEW r \in Requests, SmfRegistration(r)
  PROVE  Typed'
<1>0. /\ pc[r] # "idle"
      /\ {"created", "noContent", "problem", "crash"} \subseteq Answers
  BY DEF SmfRegistration, ReadPduSessionID, TestPduSessionID, CreateSmfRegContext,
         AuthorizeSmf, UdrCreateSmf, AnswerSmf, UdrDeleteSmf, At, Answers
<1> USE DEF Typed, TypeOK
<1>1. CASE ReadPduSessionID(r)
  <2>1. GetPduSessionID(req[r].supi) \in Pdus \cup {None}
    BY <1>0, RequestTyped, LookUpTyped DEF Accesses
  <2>2. HasRequest' /\ pc' \in [Requests -> Labels]
    BY <1>0, <1>1, MovesTyped DEF ReadPduSessionID, Labels
  <2> QED
    BY <1>1, <2>1, <2>2 DEF ReadPduSessionID, HandlerTypeOK, UecmTypeOK, ueVars, udrVars, UeTypeOK
<1>2. CASE TestPduSessionID(r)
  <2>1. HandlerTypeOK' /\ HasRequest'
    BY <1>0, <1>2, AdvancesTyped DEF TestPduSessionID, Advances
  <2> QED
    BY <1>2, <2>1 DEF TestPduSessionID, UecmTypeOK, udrVars
<1>3. CASE CreateSmfRegContext(r)
  <2>1. req[r].pdu \in Pdus
    BY <1>0, <1>3, RequestTyped DEF CreateSmfRegContext, At, HasRequest, SmfKinds
  <2>2. UeTypeOK'
    BY <1>3, <2>1, SetPduSessionIDTyped DEF CreateSmfRegContext, HandlerTypeOK, UeTypeOK
  <2>3. HasRequest' /\ pc' \in [Requests -> Labels]
    BY <1>0, <1>3, MovesTyped DEF CreateSmfRegContext, Labels
  <2> QED
    BY <1>3, <2>2, <2>3 DEF CreateSmfRegContext, HandlerTypeOK, UecmTypeOK, udrVars
<1>4. CASE AuthorizeSmf(r)
  <2>1. HandlerTypeOK' /\ HasRequest'
    BY <1>0, <1>4, AdvancesTyped DEF AuthorizeSmf, Advances
  <2> QED
    BY <1>4, <2>1 DEF AuthorizeSmf, UecmTypeOK, udrVars
<1>5. CASE UdrCreateSmf(r)
  <2>1. HandlerTypeOK' /\ HasRequest'
    BY <1>0, <1>5, AdvancesTyped DEF UdrCreateSmf, Advances
  <2>2. CASE CommitSmf(r)
    BY <1>0, <1>5, <2>1, <2>2, CommitSmfTyped DEF UdrCreateSmf, UecmTypeOK, At
  <2>3. CASE UNCHANGED udrVars
    BY <1>5, <2>1, <2>3 DEF UdrCreateSmf, UecmTypeOK, udrVars
  <2> QED
    BY <1>5, <2>2, <2>3 DEF UdrCreateSmf
<1>6. CASE AnswerSmf(r)
  <2>1. HandlerTypeOK' /\ HasRequest'
    BY <1>0, <1>6, AdvancesTyped DEF AnswerSmf, Advances
  <2>2. GetPduSessionID(req[r].supi) \in Pdus \cup {None}
    BY <1>0, RequestTyped, LookUpTyped DEF Accesses
  <2> QED
    BY <1>6, <2>1, <2>2 DEF AnswerSmf, UecmTypeOK, udrVars
<1>7. CASE UdrDeleteSmf(r)
  <2>1. HandlerTypeOK' /\ HasRequest'
    BY <1>0, <1>7, AdvancesTyped DEF UdrDeleteSmf, Advances, UdrRefuses, UdrFails
  <2> QED
    BY <1>0, <1>7, <2>1, RequestTyped DEF UdrDeleteSmf, UdrRefuses, UecmTypeOK, udrVars
<1> QED
  BY <1>1, <1>2, <1>3, <1>4, <1>5, <1>6, <1>7 DEF SmfRegistration

LEMMA ArriveTyped ==
  ASSUME Typed, NEW r \in Requests, Arrive(r), UNCHANGED uecmVars
  PROVE  Typed'
<1>1. UecmTypeOK'
  BY TypedHandlers DEF UecmTypeOK, uecmVars, udrVars
<1>2. HandlerTyped'
  BY TypedHandlers, ArrivalTyped
<1> QED
  BY <1>1, <1>2 DEF Typed, TypeOK, HandlerTyped

LEMMA RestartTyped ==
  ASSUME Typed, Restart, UNCHANGED uecmVars
  PROVE  Typed'
<1>1. UecmTypeOK'
  BY TypedHandlers DEF UecmTypeOK, uecmVars, udrVars
<1>2. HandlerTyped'
  BY TypedHandlers, RestartedTyped
<1> QED
  BY <1>1, <1>2 DEF Typed, TypeOK, HandlerTyped

LEMMA NextTyped == Typed /\ [Next]_vars => Typed'
<1> SUFFICES ASSUME Typed, [Next]_vars PROVE Typed'
  OBVIOUS
<1>1. CASE Restart /\ UNCHANGED uecmVars
  BY <1>1, RestartTyped
<1>2. CASE \E r \in Requests : Arrive(r) /\ UNCHANGED uecmVars
  BY <1>2, ArriveTyped
<1>3. CASE \E r \in Requests : Handle(r)
  BY <1>3, AmfRegistrationTyped, AmfUpdateTyped, SmfRegistrationTyped, SharedTyped
  DEF Handle, UecmStep
<1>4. CASE UNCHANGED vars
  BY <1>4 DEF vars, handlerVars, uecmVars, udrVars, ueVars, Typed, TypeOK, HandlerTypeOK,
              UecmTypeOK, UeTypeOK, HasRequest
<1> QED
  BY <1>1, <1>2, <1>3, <1>4 DEF Next

(* Every variable keeps its type, and the process is restarted no more     *)
(* often than its bound says.                                              *)
THEOREM TypeCorrect == Spec => []TypeOK
<1>1. Typed => TypeOK
  BY DEF Typed
<1> QED
  BY InitTyped, NextTyped, <1>1, PTL DEF Spec
-----------------------------------------------------------------------------
(***************************************************************************)
(* The inductive invariant.                                                *)
(***************************************************************************)

(* Before its own assignment, and before it can be read by anyone.         *)
Unwritten(r) == pc[r] \in {"idle", "exists", "find", "new", "write"}

(* An object a handler allocated is for the subscriber of its request.     *)
ObjectsOwned ==
  \A r \in Requests, x \in Sites :
    heap[<<r, x>>].supi # None => req[r] # None /\ heap[<<r, x>>].supi = req[r].supi

(* The pointer a handler is about to write through.                        *)
PointersOwned ==
  \A r \in Requests :
    pc[r] = "write" => ue[r] # None /\ heap[ue[r]].supi = req[r].supi

(* A stored registration belongs where it is stored, and its handler is    *)
(* past the assignment.                                                    *)
StoredFits ==
  \A o \in Objects, a \in Accesses, q \in Requests : heap[o].amf[a] = q =>
    /\ q \in AmfRegs
    /\ ~ Unwritten(q)
    /\ req[q].supi = heap[o].supi
    /\ req[q].access = a

(* So does the old registration a handler has read.                        *)
ReadFits ==
  \A r \in AmfRegs :
    /\ pc[r] \in {"idle", "exists"} => before[r] = None
    /\ before[r] # None =>
         /\ before[r] \in AmfRegs
         /\ ~ Unwritten(before[r])
         /\ req[before[r]].supi = req[r].supi
         /\ req[before[r]].access = req[r].access

NothingReadYet == \A r \in Requests : pc[r] = "idle" => before[r] = None

(* "r has read m" has no cycle: in every set of registrations there is one *)
(* that none of the set has read.                                          *)
ReadsAcyclic ==
  \A X \in SUBSET AmfRegs : X # {} => \E m \in X : \A q \in X : before[q] # m

(* An AMF is told on behalf of a registration that read its own and that   *)
(* the UDR took.                                                           *)
ToldWasRead ==
  \A r \in Requests : notified[r] # None =>
    r \in AmfRegs /\ notified[r] = before[r] /\ r \in accepted /\ pc[r] \in {"answer", "done"}

(* From the UDR's acceptance to the answer of success.                     *)
AcceptedFirst ==
  \A r \in Requests :
    /\ pc[r] \in {"respond", "answer"} => r \in accepted
    /\ answer[r] \in {"created", "noContent"} /\ req[r].kind \in UecmKinds => r \in accepted

(* An answer is the last a handler does.                                   *)
Answered == \A r \in Requests : pc[r] = "done" <=> answer[r] # "none"

(* The requests that make no context.                                      *)
WithoutContext(r) == req[r].kind \in OtherKinds

(* Any other handler that has asked for a UDR, and one that is about to    *)
(* write, has a context in the pool.                                       *)
ContextInPool ==
  \A r \in Requests :
    /\ pc[r] \in {"write", "discover", "query", "udr"} => WithoutContext(r) \/ pool[req[r].supi] # None
    /\ pc[r] \in {"respond", "answer"} => pool[req[r].supi] # None

Inv ==
  /\ Typed
  /\ ObjectsOwned
  /\ FiledUnderItsSupi
  /\ PointersOwned
  /\ StoredFits
  /\ ReadFits
  /\ NothingReadYet
  /\ ReadsAcyclic
  /\ ToldWasRead
  /\ AcceptedFirst
  /\ Answered
  /\ ContextInPool

LEMMA InitInv == Init => Inv
<1> SUFFICES ASSUME Init PROVE Inv
  OBVIOUS
<1>1. Typed
  BY InitTyped
<1>2. /\ \A r \in Requests : /\ pc[r] = "idle" /\ req[r] = None
                             /\ before[r] = None /\ notified[r] = None /\ answer[r] = "none"
      /\ pool = [s \in Supis |-> None]
      /\ heap = [o \in Objects |-> NewContext(None)]
  BY DEF Init, HandlerInit, UeInit, UecmInit
<1>3. AmfRegs = {}
  BY <1>2 DEF AmfRegs
<1>4. ObjectsOwned /\ StoredFits
  BY <1>2, NoneAssumption DEF ObjectsOwned, StoredFits, NewContext, Objects
<1>5. FiledUnderItsSupi /\ PointersOwned /\ ContextInPool
  BY <1>2 DEF FiledUnderItsSupi, PointersOwned, ContextInPool
<1>6. ReadFits /\ NothingReadYet /\ ReadsAcyclic
  BY <1>2, <1>3 DEF ReadFits, NothingReadYet, ReadsAcyclic
<1>7. ToldWasRead /\ AcceptedFirst /\ Answered
  BY <1>2 DEF ToldWasRead, AcceptedFirst, Answered
<1> QED
  BY <1>1, <1>4, <1>5, <1>6, <1>7 DEF Inv

(* What a request carries stays as it arrived, but for the purge flag.     *)
SameRequests ==
  \A q \in Requests :
    /\ req'[q] = None <=> req[q] = None
    /\ req[q] # None => /\ req'[q].kind = req[q].kind
                        /\ req'[q].supi = req[q].supi
                        /\ req'[q].access = req[q].access
                        /\ req'[q].amf = req[q].amf

(* The fields of the contexts that the invariant speaks of.                *)
SameRegistrations ==
  \A o \in Objects : heap'[o].supi = heap[o].supi /\ heap'[o].amf = heap[o].amf

LEMMA AmfRegsKept ==
  ASSUME SameRequests
  PROVE  AmfRegs' = AmfRegs
  BY DEF SameRequests, AmfRegs

(* A step of r that changes neither the registrations in the contexts nor  *)
(* what handlers have read of them.                                        *)
SameContexts(r) ==
  /\ UNCHANGED <<pool, ue, notified>>
  /\ \A q \in Requests : q # r \/ q \in AmfRegs => before'[q] = before[q]
  /\ SameRegistrations

Quiet(r, l) ==
  /\ SameContexts(r)
  /\ SameRequests
  /\ Goto(r, l)
  /\ pc[r] \notin {"idle", "done"}
  /\ pc[r] = "answer" => l = "done"
  /\ l \notin {"idle", "exists", "write"}
  /\ r \in AmfRegs => l \notin {"find", "new"}
  /\ accepted \subseteq accepted'
  /\ l \in {"respond", "answer"} => r \in accepted'
  /\ \A q \in Requests \ {r} : answer'[q] = answer[q]
  /\ answer'[r] # "none" <=> l = "done"
  /\ answer'[r] \in {"created", "noContent"} /\ req[r].kind \in UecmKinds => r \in accepted'
  /\ l \in {"discover", "query", "udr"} => WithoutContext(r) \/ pool[req[r].supi] # None
  /\ l \in {"respond", "answer"} => pool[req[r].supi] # None

LEMMA QuietKeepsInv ==
  ASSUME Inv, Typed', NEW r \in Requests, NEW l, Quiet(r, l)
  PROVE  Inv'
<1>1. /\ \A q \in Requests : pc'[q] = IF q = r THEN l ELSE pc[q]
      /\ pc[r] # "idle" /\ req[r] # None
  BY DEF Inv, Typed, TypeOK, HandlerTypeOK, HasRequest, Quiet, Goto
<1>2. /\ pool' = pool /\ ue' = ue /\ notified' = notified
      /\ \A o \in Objects : heap'[o].supi = heap[o].supi /\ heap'[o].amf = heap[o].amf
      /\ \A q \in Requests : q # r \/ q \in AmfRegs => before'[q] = before[q]
  BY DEF Quiet, SameContexts, SameRegistrations
<1>3. AmfRegs' = AmfRegs
  BY AmfRegsKept DEF Quiet
<1>4. \A q \in Requests : req[q] # None =>
        /\ req'[q] # None /\ req'[q].supi = req[q].supi /\ req'[q].access = req[q].access
        /\ req'[q].kind = req[q].kind
  BY DEF Quiet, SameRequests
<1>5. \A q \in AmfRegs : req[q] # None /\ q \in Requests /\ (~ Unwritten(q) => ~ Unwritten(q)')
  BY <1>1 DEF Quiet, Unwritten, AmfRegs
<1>6. ObjectsOwned' /\ FiledUnderItsSupi'
  <2>1. ObjectsOwned'
    BY <1>2, <1>4 DEF Inv, ObjectsOwned, Objects
  <2>2. FiledUnderItsSupi'
    BY <1>2 DEF Inv, FiledUnderItsSupi, Typed, TypeOK, HandlerTypeOK, UeTypeOK
  <2> QED
    BY <2>1, <2>2
<1>7. PointersOwned'
  <2> SUFFICES ASSUME NEW q \in Requests, pc'[q] = "write"
               PROVE  ue'[q] # None /\ heap'[ue'[q]].supi = req'[q].supi
    BY DEF PointersOwned
  <2>1. q # r /\ pc[q] = "write"
    BY <1>1 DEF Quiet
  <2>2. req[q] # None /\ ue[q] # None /\ ue[q] \in Objects
    BY <2>1 DEF Inv, Typed, HasRequest, PointersOwned, TypeOK, HandlerTypeOK
  <2> QED
    BY <1>2, <1>4, <2>1, <2>2 DEF Inv, PointersOwned
<1>8. StoredFits'
  BY <1>2, <1>3, <1>4, <1>5 DEF Inv, StoredFits
<1>9. ReadFits'
  BY <1>1, <1>2, <1>3, <1>4, <1>5 DEF Inv, ReadFits, Quiet
<1>10. NothingReadYet' /\ ReadsAcyclic'
  <2>1. NothingReadYet'
    BY <1>1, <1>2 DEF Inv, NothingReadYet, Quiet
  <2>2. \A q \in AmfRegs : before'[q] = before[q]
    BY <1>2, <1>5
  <2> QED
    BY <1>3, <2>1, <2>2 DEF Inv, ReadsAcyclic
<1>11. ToldWasRead'
  BY <1>1, <1>2, <1>3, <1>5 DEF Inv, ToldWasRead, Quiet
<1>12. AcceptedFirst'
  <2>1. \A q \in Requests : req'[q].kind = req[q].kind
    BY <1>4 DEF Quiet, SameRequests
  <2> QED
    BY <1>1, <2>1 DEF Inv, AcceptedFirst, Quiet
<1>14. Answered'
  BY <1>1 DEF Inv, Answered, Quiet
<1>13. ContextInPool'
  <2> SUFFICES ASSUME NEW q \in Requests,
                      pc'[q] \in {"write", "discover", "query", "udr", "respond", "answer"}
               PROVE  \/ pool'[req'[q].supi] # None
                      \/ WithoutContext(q)' /\ pc'[q] \notin {"respond", "answer"}
    BY DEF ContextInPool
  <2>0. req[q] # None
    BY <1>1 DEF Inv, Typed, HasRequest
  <2>1. WithoutContext(q)' = WithoutContext(q) /\ req'[q].supi = req[q].supi
    BY <2>0 DEF WithoutContext, Quiet, SameRequests
  <2>2. CASE q = r
    BY <1>1, <1>2, <2>1, <2>2 DEF Quiet
  <2>3. CASE q # r
    BY <1>1, <1>2, <2>1, <2>3 DEF Inv, ContextInPool
  <2> QED
    BY <2>2, <2>3
<1> QED
  BY <1>6, <1>7, <1>8, <1>9, <1>10, <1>11, <1>12, <1>13, <1>14 DEF Inv

(* The arrival of a request: it has read, written and been told nothing.   *)
LEMMA ArriveKeepsInv ==
  ASSUME Inv, Typed', NEW r \in Requests, Arrive(r), UNCHANGED uecmVars
  PROVE  Inv'
<1>1. /\ pool' = pool /\ heap' = heap /\ ue' = ue /\ answer' = answer
      /\ before' = before /\ notified' = notified /\ accepted' = accepted
  BY DEF Arrive, uecmVars, udrVars, ueVars
<1>2. pc[r] = "idle" /\ req[r] = None /\ before[r] = None
  BY DEF Arrive, Inv, Typed, HasRequest, NothingReadYet
<1>3. PICK b \in Bodies : req' = [req EXCEPT ![r] = b] /\ Goto(r, FirstStep(b.kind))
  BY DEF Arrive
<1>4. /\ b # None
      /\ FirstStep(b.kind) \in {"exists", "client", "discover", "udr"}
      /\ FirstStep(b.kind) \in {"discover", "udr"} => b.kind \in OtherKinds
      /\ b.kind = "amfReg" => FirstStep(b.kind) = "exists"
  <2>1. b # None
    BY BodyAssumption DEF Bodies
  <2>2. /\ FirstStep(b.kind) \in {"exists", "client", "discover", "udr"}
        /\ FirstStep(b.kind) \in {"discover", "udr"} => b.kind \in OtherKinds
    BY DEF FirstStep, OtherKinds
  <2>3. b.kind = "amfReg" => FirstStep(b.kind) = "exists"
    BY DEF FirstStep, AskKinds, SharedSubsKinds
  <2> QED
    BY <2>1, <2>2, <2>3
<1>5. \A q \in Requests \ {r} : pc'[q] = pc[q] /\ req'[q] = req[q]
  BY <1>3 DEF Goto, Inv, Typed, TypeOK, HandlerTypeOK
<1>6. req'[r] = b /\ pc'[r] = FirstStep(b.kind)
  BY <1>3 DEF Goto, Inv, Typed, TypeOK, HandlerTypeOK
<1>7. /\ r \notin AmfRegs
      /\ AmfRegs' \in {AmfRegs, AmfRegs \cup {r}}
      /\ r \in AmfRegs' => pc'[r] = "exists"
  BY <1>2, <1>4, <1>5, <1>6 DEF AmfRegs
<1>8. \A q \in AmfRegs : q \in Requests \ {r} /\ q \in AmfRegs' /\ (~ Unwritten(q) => ~ Unwritten(q)')
  BY <1>5, <1>7 DEF AmfRegs, Unwritten
<1>9. ObjectsOwned' /\ FiledUnderItsSupi'
  BY <1>1, <1>2, <1>5, <1>6 DEF Inv, ObjectsOwned, FiledUnderItsSupi
<1>10. PointersOwned'
  BY <1>1, <1>4, <1>5, <1>6 DEF Inv, PointersOwned
<1>11. StoredFits'
  BY <1>1, <1>5, <1>8 DEF Inv, StoredFits
<1>12. ReadFits'
  <2>1. \A q \in AmfRegs : before[q] # None => before[q] \in AmfRegs
    BY DEF Inv, ReadFits
  <2> QED
    BY <1>1, <1>2, <1>5, <1>7, <1>8, <2>1 DEF Inv, ReadFits
<1>13. NothingReadYet'
  BY <1>1, <1>4, <1>5, <1>6 DEF Inv, NothingReadYet
<1>14. ReadsAcyclic'
  <2> SUFFICES ASSUME NEW X \in SUBSET AmfRegs', X # {}
               PROVE  \E m \in X : \A q \in X : before[q] # m
    BY <1>1 DEF ReadsAcyclic
  <2>1. CASE r \in X
    <3>1. \A q \in X : before[q] # r
      BY <1>2, <1>7, NoneAssumption DEF Inv, ReadFits
    <3> QED
      BY <2>1, <3>1
  <2>2. CASE r \notin X
    BY <1>7, <2>2 DEF Inv, ReadsAcyclic
  <2> QED
    BY <2>1, <2>2
<1>15. ToldWasRead'
  BY <1>1, <1>5, <1>7, <1>8 DEF Inv, ToldWasRead
<1>16. AcceptedFirst' /\ Answered'
  <2>1. answer[r] = "none" /\ pc'[r] # "done"
    BY <1>2, <1>4, <1>6 DEF Inv, Answered
  <2> QED
    BY <1>1, <1>4, <1>5, <1>6, <2>1 DEF Inv, AcceptedFirst, Answered
<1>17. ContextInPool'
  BY <1>1, <1>4, <1>5, <1>6 DEF Inv, ContextInPool, WithoutContext
<1> QED
  BY <1>9, <1>10, <1>11, <1>12, <1>13, <1>14, <1>15, <1>16, <1>17 DEF Inv

LEMMA RestartKeepsInv ==
  ASSUME Inv, Typed', Restart, UNCHANGED uecmVars
  PROVE  Inv'
<1>1. /\ pool' = [s \in Supis |-> None] /\ heap' = heap /\ ue' = ue /\ req' = req
      /\ before' = before /\ notified' = notified /\ accepted' = accepted
  BY DEF Restart, uecmVars, udrVars
<1>2. \A q \in Requests : /\ pc'[q] \in {"idle", "done"}
                          /\ pc[q] \in {"idle", "done"} => pc'[q] = pc[q]
                          /\ pc[q] \notin {"idle", "done"} => pc'[q] = "done"
                          /\ answer'[q] = IF pc[q] \in {"idle", "done"} THEN answer[q] ELSE "crash"
  BY DEF Restart, Serving
<1>3. AmfRegs' = AmfRegs
  BY <1>1 DEF AmfRegs
<1>4. \A q \in AmfRegs : req[q] # None /\ q \in Requests /\ (~ Unwritten(q) => ~ Unwritten(q)')
  BY <1>2 DEF Unwritten, AmfRegs
<1>5. ObjectsOwned' /\ FiledUnderItsSupi' /\ PointersOwned' /\ ContextInPool'
  BY <1>1, <1>2 DEF Inv, ObjectsOwned, FiledUnderItsSupi, PointersOwned, ContextInPool
<1>6. StoredFits'
  BY <1>1, <1>3, <1>4 DEF Inv, StoredFits
<1>7. ReadFits' /\ NothingReadYet' /\ ReadsAcyclic'
  BY <1>1, <1>2, <1>3, <1>4 DEF Inv, ReadFits, NothingReadYet, ReadsAcyclic
<1>8. ToldWasRead' /\ AcceptedFirst' /\ Answered'
  BY <1>1, <1>2, <1>3 DEF Inv, ToldWasRead, AcceptedFirst, Answered
<1> QED
  BY <1>5, <1>6, <1>7, <1>8 DEF Inv

(* A new context, for the subscriber of the request that allocates it.     *)
LEMMA StoreUeKeepsInv ==
  ASSUME Inv, Typed', NEW r \in Requests, NEW x \in Sites,
         NEW l \in {"write", "discover", "udr", "done"},
         pc[r] # "idle", Unwritten(r) \/ l # "write",
         NEW c \in UdmUeContext, c.supi = req[r].supi, \A a \in Accesses : c.amf[a] = None,
         StoreUe(<<r, x>>, c), Goto(r, l),
         ue' = IF l = "write" THEN [ue EXCEPT ![r] = <<r, x>>] ELSE ue,
         pc[r] \notin {"answer", "done"},
         \A q \in Requests \ {r} : answer'[q] = answer[q],
         answer'[r] \notin {"created", "noContent"}, answer'[r] # "none" <=> l = "done",
         UNCHANGED <<req, restarts, uecmVars>>
  PROVE  Inv'
<1> DEFINE s == req[r].supi
<1>1. /\ req[r] # None /\ s \in Supis /\ <<r, x>> \in Objects
      /\ req' = req /\ before' = before /\ notified' = notified
      /\ accepted' = accepted
  BY RequestTyped, SitesAssumption, BodyAssumption DEF Inv, Objects, uecmVars, udrVars
<1>2. \A q \in Requests : pc'[q] = IF q = r THEN l ELSE pc[q]
  BY DEF Inv, Typed, TypeOK, HandlerTypeOK, Goto
<1>3. pool' = [pool EXCEPT ![s] = <<r, x>>] /\ heap' = [heap EXCEPT ![<<r, x>>] = c]
  BY DEF StoreUe
<1>4. /\ heap'[<<r, x>>].supi = s
      /\ \A a \in Accesses : heap'[<<r, x>>].amf[a] = None
      /\ \A o \in Objects \ {<<r, x>>} : heap'[o] = heap[o]
  BY <1>1, <1>3 DEF Inv, Typed, TypeOK, HandlerTypeOK, UeTypeOK
<1>5. \A o \in Objects : heap[o].supi # None => heap'[o].supi = heap[o].supi
  BY <1>1, <1>4 DEF Inv, ObjectsOwned
<1>6. AmfRegs' = AmfRegs
  BY <1>1 DEF AmfRegs
<1>7. \A q \in AmfRegs : req[q] # None /\ q \in Requests /\ (~ Unwritten(q) => ~ Unwritten(q)')
  BY <1>2 DEF Unwritten, AmfRegs
<1>8. ObjectsOwned'
  <2> SUFFICES ASSUME NEW q \in Requests, NEW y \in Sites, heap'[<<q, y>>].supi # None
               PROVE  req[q] # None /\ heap'[<<q, y>>].supi = req[q].supi
    BY <1>1 DEF ObjectsOwned
  <2>1. CASE <<q, y>> = <<r, x>>
    BY <1>1, <1>4, <2>1
  <2>2. CASE <<q, y>> # <<r, x>>
    BY <1>4, <2>2 DEF Inv, ObjectsOwned, Objects
  <2> QED
    BY <2>1, <2>2
<1>9. s # None /\ \A q \in Requests : pc[q] = "write" => req[q].supi # None
  BY <1>1, RequestTyped, NoneAssumption DEF Inv
<1>10. FiledUnderItsSupi'
  <2> SUFFICES ASSUME NEW t \in Supis, pool'[t] # None
               PROVE  heap'[pool'[t]].supi = t
    BY DEF FiledUnderItsSupi
  <2>1. CASE t = s
    BY <1>1, <1>3, <1>4, <2>1 DEF Inv, Typed, TypeOK, HandlerTypeOK, UeTypeOK
  <2>2. CASE t # s
    <3>1. pool'[t] = pool[t] /\ pool[t] \in Objects /\ heap[pool[t]].supi = t
      BY <1>3, <2>2 DEF Inv, Typed, TypeOK, HandlerTypeOK, UeTypeOK, FiledUnderItsSupi
    <3>2. t # None
      BY NoneAssumption
    <3> QED
      BY <1>5, <3>1, <3>2
  <2> QED
    BY <2>1, <2>2
<1>11. PointersOwned'
  <2> SUFFICES ASSUME NEW q \in Requests, pc'[q] = "write"
               PROVE  ue'[q] # None /\ heap'[ue'[q]].supi = req[q].supi
    BY <1>1 DEF PointersOwned
  <2>1. CASE q = r
    <3>1. ue'[q] = <<r, x>>
      BY <1>2, <2>1 DEF Inv, Typed, TypeOK, HandlerTypeOK
    <3> QED
      BY <1>1, <1>4, <2>1, <3>1, NoneAssumption
  <2>2. CASE q # r
    <3>1. ue'[q] = ue[q] /\ pc[q] = "write"
      BY <1>2, <2>2 DEF Inv, Typed, TypeOK, HandlerTypeOK
    <3>2. ue[q] \in Objects /\ heap[ue[q]].supi = req[q].supi
      BY <3>1 DEF Inv, Typed, TypeOK, HandlerTypeOK, PointersOwned
    <3> QED
      BY <1>5, <1>9, <3>1, <3>2, NoneAssumption
  <2> QED
    BY <2>1, <2>2
<1>12. StoredFits'
  <2> SUFFICES ASSUME NEW o \in Objects, NEW a \in Accesses, NEW q \in Requests,
                      heap'[o].amf[a] = q
               PROVE  /\ q \in AmfRegs' /\ ~ Unwritten(q)'
                      /\ req'[q].supi = heap'[o].supi /\ req'[q].access = a
    BY DEF StoredFits
  <2>1. heap'[o] = heap[o]
    BY <1>4, NoneAssumption
  <2> QED
    BY <1>1, <1>6, <1>7, <2>1 DEF Inv, StoredFits
<1>13. ReadFits' /\ NothingReadYet' /\ ReadsAcyclic'
  BY <1>1, <1>2, <1>6, <1>7 DEF Inv, ReadFits, NothingReadYet, ReadsAcyclic
<1>14. ToldWasRead' /\ AcceptedFirst' /\ Answered'
  BY <1>1, <1>2, <1>6 DEF Inv, ToldWasRead, AcceptedFirst, Answered
<1>15. ContextInPool'
  <2> SUFFICES ASSUME NEW q \in Requests,
                      pc'[q] \in {"write", "discover", "query", "udr", "respond", "answer"}
               PROVE  \/ pool'[req[q].supi] # None
                      \/ WithoutContext(q) /\ pc'[q] \notin {"respond", "answer"}
    BY <1>1 DEF ContextInPool, WithoutContext
  <2>1. CASE req[q].supi = s
    BY <1>1, <1>3, <2>1, NoneAssumption DEF Inv, Typed, TypeOK, HandlerTypeOK, UeTypeOK
  <2>2. CASE req[q].supi # s
    <3>1. q # r /\ pc[q] \in {"write", "discover", "query", "udr", "respond", "answer"}
      BY <1>2, <2>2
    <3>2. /\ req[q].supi \in Supis
          /\ \/ pool[req[q].supi] # None
             \/ WithoutContext(q) /\ pc[q] \notin {"respond", "answer"}
      BY <3>1, RequestTyped DEF Inv, ContextInPool
    <3> QED
      BY <1>2, <1>3, <2>2, <3>1, <3>2 DEF Inv, Typed, TypeOK, HandlerTypeOK, UeTypeOK
  <2> QED
    BY <2>1, <2>2
<1> QED
  BY <1>8, <1>10, <1>11, <1>12, <1>13, <1>14, <1>15 DEF Inv
LEMMA NewUeKeepsInv ==
  ASSUME Inv, Typed', NEW r \in Requests, NEW x \in Sites, NEW l \in {"write", "discover"},
         pc[r] \notin {"idle", "answer", "done"}, Unwritten(r) \/ l # "write",
         NewUdmUe(<<r, x>>, req[r].supi), Goto(r, l),
         ue' = IF l = "write" THEN [ue EXCEPT ![r] = <<r, x>>] ELSE ue,
         UNCHANGED <<req, answer, restarts, uecmVars>>
  PROVE  Inv'
<1> DEFINE c == NewContext(req[r].supi)
<1>1. req[r].supi \in Supis /\ answer[r] = "none"
  BY RequestTyped DEF Inv, Answered
<1>2. /\ c \in UdmUeContext /\ c.supi = req[r].supi
      /\ \A a \in Accesses : c.amf[a] = None
  BY <1>1, NewContextTyped DEF NewContext
<1>3. StoreUe(<<r, x>>, c)
  BY DEF NewUdmUe
<1> HIDE DEF c
<1> QED
  BY <1>1, <1>2, <1>3, StoreUeKeepsInv

LEMMA UnchangedRequests ==
  ASSUME UNCHANGED req
  PROVE  SameRequests
  BY DEF SameRequests

LEMMA UnchangedContexts ==
  ASSUME UNCHANGED <<ueVars, ue, before, notified>>, NEW r \in Requests
  PROVE  SameContexts(r)
  BY DEF SameContexts, SameRegistrations, ueVars

(* A step of this service that answers or goes on, quiet in the sense      *)
(* above: what remains to be shown of it is where it goes and what it      *)
(* answers.                                                                *)
LEMMA AnswerIsQuiet ==
  ASSUME Inv, NEW r \in Requests, NEW c \in Answers \ {"none"}, Reply(r, c),
         SameContexts(r), SameRequests,
         pc[r] \notin {"idle", "done"},
         accepted \subseteq accepted',
         c \in {"created", "noContent"} /\ req[r].kind \in UecmKinds => r \in accepted'
  PROVE  Quiet(r, "done")
<1>1. \A q \in Requests : answer'[q] = IF q = r THEN c ELSE answer[q]
  BY DEF Reply, Inv, Typed, TypeOK, HandlerTypeOK
<1> QED
  BY <1>1 DEF Quiet, Reply

LEMMA MoveIsQuiet ==
  ASSUME Inv, NEW r \in Requests,
         NEW l \in Labels \ {"idle", "exists", "write", "answer", "done"},
         Goto(r, l), UNCHANGED answer, SameContexts(r), SameRequests,
         pc[r] \notin {"idle", "answer", "done"},
         accepted \subseteq accepted',
         r \in AmfRegs => l \notin {"find", "new"},
         l = "respond" => r \in accepted' /\ ~ WithoutContext(r),
         l \in {"discover", "query", "udr", "respond"} =>
           pc[r] \in {"write", "discover", "query", "udr"} \/ pool[req[r].supi] # None
  PROVE  Quiet(r, l)
<1>1. l \in {"discover", "query", "udr", "respond"} => WithoutContext(r) \/ pool[req[r].supi] # None
  BY DEF Inv, ContextInPool
<1>2. answer[r] = "none" /\ \A q \in Requests : answer'[q] = answer[q]
  BY DEF Inv, Answered
<1> QED
  BY <1>1, <1>2 DEF Quiet

LEMMA SharedKeepsInv ==
  ASSUME Inv, Typed', NEW r \in Requests, SharedStep(r), UNCHANGED uecmVars
  PROVE  Inv'
<1>0. UNCHANGED <<before, notified, accepted>> /\ SameRequests
  BY UnchangedRequests
  DEF uecmVars, udrVars, SharedStep, FindUe, CreateUe, GetUdrUriFind, GetUdrUriCreate, Discover
<1>1. CASE FindUe(r)
  <2> DEFINE l == IF UdmUeFindBySupi(req[r].supi) = None THEN "new" ELSE "write"
  <2>1. /\ pc[r] = "find" /\ ue' = [ue EXCEPT ![r] = pool[req[r].supi]] /\ Goto(r, l)
        /\ pool' = pool /\ heap' = heap /\ req' = req /\ answer' = answer
        /\ before' = before /\ notified' = notified /\ accepted' = accepted
    BY <1>0, <1>1 DEF FindUe, At, UdmUeFindBySupi, ueVars
  <2>2. \A q \in Requests : /\ pc'[q] = IF q = r THEN l ELSE pc[q]
                            /\ ue'[q] = IF q = r THEN pool[req[r].supi] ELSE ue[q]
    BY <2>1 DEF Inv, Typed, TypeOK, HandlerTypeOK, Goto
  <2>3. req[r].supi \in Supis /\ (l = "write" => pool[req[r].supi] # None) /\ l \in {"new", "write"}
    BY <2>1, RequestTyped DEF Inv, UdmUeFindBySupi
  <2>4. AmfRegs' = AmfRegs
    BY <1>0, AmfRegsKept
  <2>5. \A q \in AmfRegs : req[q] # None /\ q \in Requests /\ (~ Unwritten(q) => ~ Unwritten(q)')
    BY <2>1, <2>2 DEF Unwritten, AmfRegs
  <2> HIDE DEF l
  <2>6. ObjectsOwned' /\ FiledUnderItsSupi'
    BY <2>1 DEF Inv, ObjectsOwned, FiledUnderItsSupi
  <2>7. PointersOwned'
    BY <2>1, <2>2, <2>3 DEF Inv, PointersOwned, FiledUnderItsSupi
  <2>8. StoredFits'
    BY <2>1, <2>4, <2>5 DEF Inv, StoredFits
  <2>9. ReadFits' /\ NothingReadYet' /\ ReadsAcyclic'
    BY <2>1, <2>2, <2>3, <2>4, <2>5 DEF Inv, ReadFits, NothingReadYet, ReadsAcyclic
  <2>10. ToldWasRead' /\ AcceptedFirst' /\ Answered' /\ ContextInPool'
    BY <2>1, <2>2, <2>3, <2>4 DEF Inv, ToldWasRead, AcceptedFirst, Answered, ContextInPool, WithoutContext
  <2> QED
    BY <2>6, <2>7, <2>8, <2>9, <2>10 DEF Inv
<1>2. CASE CreateUe(r)
  <2>1. "create" \in Sites /\ pc[r] = "new" /\ Unwritten(r)
    BY <1>2, SitesAssumption DEF CreateUe, At, Unwritten
  <2> QED
    BY <1>2, <2>1, NewUeKeepsInv DEF CreateUe
<1>3. CASE GetUdrUriFind(r)
  <2> DEFINE l == IF UdmUeFindBySupi(req[r].supi) = None THEN "clientNew" ELSE "discover"
  <2>1. /\ pc[r] = "client" /\ Goto(r, l) /\ UNCHANGED answer /\ SameContexts(r)
        /\ l = "discover" => pool[req[r].supi] # None
        /\ l \in {"clientNew", "discover"}
    BY <1>0, <1>3, UnchangedContexts DEF GetUdrUriFind, UdmUeFindBySupi
  <2> HIDE DEF l
  <2> QED
    BY <1>0, <2>1, MoveIsQuiet, QuietKeepsInv DEF Labels
<1>4. CASE GetUdrUriCreate(r)
  <2>1. "getUdrURI" \in Sites /\ pc[r] = "clientNew"
    BY <1>4, SitesAssumption DEF GetUdrUriCreate
  <2> QED
    BY <1>4, <2>1, NewUeKeepsInv DEF GetUdrUriCreate
<1>5. CASE Discover(r)
  <2>1. pc[r] = "discover" /\ SameContexts(r)
    BY <1>0, <1>5, UnchangedContexts DEF Discover
  <2>2. CASE Goto(r, UdrStep(req[r].kind)) /\ UNCHANGED answer
    <3>1. /\ UdrStep(req[r].kind) \in {"query", "find", "udr"}
          /\ r \in AmfRegs => UdrStep(req[r].kind) = "udr"
      BY DEF UdrStep, AmfRegs, PlaceholderKinds
    <3> QED
      BY <1>0, <2>1, <2>2, <3>1, MoveIsQuiet, QuietKeepsInv DEF Labels
  <2>3. CASE Reply(r, "problem")
    BY <1>0, <2>1, <2>3, AnswerIsQuiet, QuietKeepsInv DEF Answers
  <2> QED
    BY <1>5, <2>2, <2>3 DEF Discover
<1> QED
  BY <1>1, <1>2, <1>3, <1>4, <1>5 DEF SharedStep
(* Reading the old registration adds one edge, from a registration that    *)
(* nobody has read yet.                                                    *)
LEMMA ReadOldKeepsInv ==
  ASSUME Inv, Typed', NEW r \in Requests, ReadOldRegistration(r)
  PROVE  Inv'
<1> DEFINE s == req[r].supi
           a == req[r].access
           old == GetAmfRegContext(s, a)
<1>1. /\ pc[r] = "exists" /\ r \in AmfRegs /\ s \in Supis /\ a \in Accesses
      /\ pool' = pool /\ heap' = heap /\ ue' = ue /\ req' = req /\ answer' = answer
      /\ notified' = notified /\ accepted' = accepted
  BY RequestTyped, BodyAssumption
  DEF ReadOldRegistration, At, AmfRegs, ueVars, udrVars, Inv, Typed, HasRequest
<1>2. \A q \in Requests : /\ pc'[q] = IF q = r THEN "find" ELSE pc[q]
                          /\ before'[q] = IF q = r THEN old ELSE before[q]
  BY DEF ReadOldRegistration, Goto, Inv, Typed, TypeOK, HandlerTypeOK, UecmTypeOK
<1>3. old # None => /\ old \in AmfRegs \ {r} /\ ~ Unwritten(old)
                    /\ req[old].supi = s /\ req[old].access = a
  <2> SUFFICES ASSUME old # None
               PROVE  /\ old \in AmfRegs \ {r} /\ ~ Unwritten(old)
                      /\ req[old].supi = s /\ req[old].access = a
    OBVIOUS
  <2>1. pool[s] \in Objects /\ old = heap[pool[s]].amf[a] /\ old \in Requests
    BY <1>1, LookUpTyped DEF GetAmfRegContext, UdmUeFindBySupi, Inv, Typed
  <2>2. heap[pool[s]].supi = s
    BY <1>1, <2>1, NoneAssumption DEF Inv, FiledUnderItsSupi
  <2>3. Unwritten(r)
    BY <1>1 DEF Unwritten
  <2>4. /\ old \in AmfRegs /\ ~ Unwritten(old)
        /\ req[old].supi = heap[pool[s]].supi /\ req[old].access = a
    <3> DEFINE o == pool[s]
    <3>1. StoredFits /\ o \in Objects /\ old \in Requests /\ a \in Accesses /\ heap[o].amf[a] = old
      BY <1>1, <2>1 DEF Inv
    <3> HIDE DEF o, old, a
    <3>2. old \in AmfRegs /\ ~ Unwritten(old) /\ req[old].supi = heap[o].supi /\ req[old].access = a
      BY ONLY <3>1 DEF StoredFits
    <3> QED
      BY <3>2 DEF o
  <2> QED
    BY <2>2, <2>3, <2>4
<1>4. AmfRegs' = AmfRegs
  BY <1>1 DEF AmfRegs
<1>5. \A q \in AmfRegs : req[q] # None /\ q \in Requests /\ (~ Unwritten(q) => ~ Unwritten(q)')
  BY <1>1, <1>2 DEF Unwritten, AmfRegs
<1>6. \A q \in AmfRegs : before[q] # r
  <2>1. Unwritten(r)
    BY <1>1 DEF Unwritten
  <2> QED
    BY <1>1, <2>1, NoneAssumption DEF Inv, ReadFits
<1> HIDE DEF old
<1>7. ObjectsOwned' /\ FiledUnderItsSupi' /\ PointersOwned'
  BY <1>1, <1>2 DEF Inv, ObjectsOwned, FiledUnderItsSupi, PointersOwned
<1>8. StoredFits'
  BY <1>1, <1>4, <1>5 DEF Inv, StoredFits
<1>9. ReadFits'
  BY <1>1, <1>2, <1>3, <1>4, <1>5 DEF Inv, ReadFits
<1>10. NothingReadYet'
  BY <1>1, <1>2 DEF Inv, NothingReadYet
<1>11. ReadsAcyclic'
  <2> SUFFICES ASSUME NEW X \in SUBSET AmfRegs, X # {}
               PROVE  \E m \in X : \A q \in X : before'[q] # m
    BY <1>4 DEF ReadsAcyclic
  <2>1. CASE r \in X
    <3>1. old # r
      BY <1>1, <1>3, NoneAssumption
    <3>2. \A q \in X : before'[q] # r
      BY <1>2, <1>5, <1>6, <3>1
    <3> QED
      BY <2>1, <3>2
  <2>2. CASE r \notin X
    <3>1. \A q \in X : before'[q] = before[q]
      BY <1>2, <1>5, <2>2
    <3> QED
      BY <3>1 DEF Inv, ReadsAcyclic
  <2> QED
    BY <2>1, <2>2
<1>12. ToldWasRead' /\ AcceptedFirst' /\ Answered' /\ ContextInPool'
  BY <1>1, <1>2, <1>4 DEF Inv, ToldWasRead, AcceptedFirst, Answered, ContextInPool, WithoutContext
<1> QED
  BY <1>7, <1>8, <1>9, <1>10, <1>11, <1>12 DEF Inv

(* The handler stores its own registration, in a context of its subscriber. *)
LEMMA CreateAmfKeepsInv ==
  ASSUME Inv, Typed', NEW r \in Requests, CreateAmfRegContext(r)
  PROVE  Inv'
<1> DEFINE a == req[r].access
<1>1. /\ pc[r] = "write" /\ r \in AmfRegs /\ a \in Accesses
      /\ pool' = pool /\ ue' = ue /\ req' = req /\ answer' = answer
      /\ before' = before /\ notified' = notified /\ accepted' = accepted
  BY RequestTyped, BodyAssumption
  DEF CreateAmfRegContext, At, AmfRegs, udrVars, Inv, Typed, HasRequest
<1>2. \A q \in Requests : pc'[q] = IF q = r THEN "client" ELSE pc[q]
  BY DEF CreateAmfRegContext, Goto, Inv, Typed, TypeOK, HandlerTypeOK
<1>3. ue[r] \in Objects /\ heap[ue[r]].supi = req[r].supi
  BY <1>1 DEF Inv, PointersOwned, Typed, TypeOK, HandlerTypeOK
<1>4. heap' = [heap EXCEPT ![ue[r]].amf[a] = r]
  BY DEF CreateAmfRegContext, SetAmfRegContext
<1>5. \A o \in Objects : /\ heap'[o].supi = heap[o].supi
                         /\ \A b \in Accesses :
                              heap'[o].amf[b] = IF o = ue[r] /\ b = a THEN r ELSE heap[o].amf[b]
  BY <1>3, <1>4 DEF Inv, Typed, TypeOK, HandlerTypeOK, UeTypeOK, UdmUeContext
<1>6. AmfRegs' = AmfRegs
  BY <1>1 DEF AmfRegs
<1>7. /\ \A q \in AmfRegs : req[q] # None /\ q \in Requests /\ (~ Unwritten(q) => ~ Unwritten(q)')
      /\ ~ Unwritten(r)'
  BY <1>1, <1>2 DEF Unwritten, AmfRegs
<1>8. ObjectsOwned'
  BY <1>1, <1>5 DEF Inv, ObjectsOwned, Objects
<1>9. FiledUnderItsSupi'
  BY <1>1, <1>5 DEF Inv, FiledUnderItsSupi, Typed, TypeOK, HandlerTypeOK, UeTypeOK
<1>10. PointersOwned'
  BY <1>1, <1>2, <1>5 DEF Inv, PointersOwned, Typed, TypeOK, HandlerTypeOK
<1>11. StoredFits'
  <2> SUFFICES ASSUME NEW o \in Objects, NEW b \in Accesses, NEW q \in Requests,
                      heap'[o].amf[b] = q
               PROVE  /\ q \in AmfRegs' /\ ~ Unwritten(q)'
                      /\ req'[q].supi = heap'[o].supi /\ req'[q].access = b
    BY DEF StoredFits
  <2>1. CASE o = ue[r] /\ b = a
    BY <1>1, <1>3, <1>5, <1>6, <1>7, <2>1
  <2>2. CASE ~ (o = ue[r] /\ b = a)
    BY <1>1, <1>5, <1>6, <1>7, <2>2 DEF Inv, StoredFits
  <2> QED
    BY <2>1, <2>2
<1>12. ReadFits' /\ NothingReadYet' /\ ReadsAcyclic'
  BY <1>1, <1>2, <1>6, <1>7 DEF Inv, ReadFits, NothingReadYet, ReadsAcyclic
<1>13. ToldWasRead' /\ AcceptedFirst' /\ Answered' /\ ContextInPool'
  BY <1>1, <1>2, <1>6 DEF Inv, ToldWasRead, AcceptedFirst, Answered, ContextInPool, WithoutContext
<1> QED
  BY <1>8, <1>9, <1>10, <1>11, <1>12, <1>13 DEF Inv

LEMMA NotifyKeepsInv ==
  ASSUME Inv, Typed', NEW r \in Requests, NotifyOldAmf(r)
  PROVE  Inv'
<1>1. /\ pc[r] = "respond" /\ r \in AmfRegs /\ r \in accepted
      /\ pool' = pool /\ heap' = heap /\ ue' = ue /\ req' = req /\ answer' = answer
      /\ before' = before /\ accepted' = accepted
  BY BodyAssumption
  DEF NotifyOldAmf, At, AmfRegs, ueVars, udrVars, Inv, Typed, HasRequest, AcceptedFirst
<1>2. \A q \in Requests : /\ pc'[q] = IF q = r THEN "answer" ELSE pc[q]
                          /\ notified'[q] = IF q = r THEN before[r] ELSE notified[q]
  BY DEF NotifyOldAmf, Goto, Inv, Typed, TypeOK, HandlerTypeOK, UecmTypeOK
<1>3. AmfRegs' = AmfRegs
  BY <1>1 DEF AmfRegs
<1>4. \A q \in AmfRegs : req[q] # None /\ q \in Requests /\ (~ Unwritten(q) => ~ Unwritten(q)')
  BY <1>1, <1>2 DEF Unwritten, AmfRegs
<1>5. ObjectsOwned' /\ FiledUnderItsSupi' /\ PointersOwned'
  BY <1>1, <1>2 DEF Inv, ObjectsOwned, FiledUnderItsSupi, PointersOwned
<1>6. StoredFits'
  BY <1>1, <1>3, <1>4 DEF Inv, StoredFits
<1>7. ReadFits' /\ NothingReadYet' /\ ReadsAcyclic'
  BY <1>1, <1>2, <1>3, <1>4 DEF Inv, ReadFits, NothingReadYet, ReadsAcyclic
<1>8. ToldWasRead' /\ AcceptedFirst' /\ Answered' /\ ContextInPool'
  BY <1>1, <1>2, <1>3 DEF Inv, ToldWasRead, AcceptedFirst, Answered, ContextInPool, WithoutContext
<1> QED
  BY <1>5, <1>6, <1>7, <1>8 DEF Inv
LEMMA AmfRegistrationKeepsInv ==
  ASSUME Inv, Typed', NEW r \in Requests, AmfRegistration(r)
  PROVE  Inv'
<1>0. {"created", "noContent", "problem", "crash"} \subseteq Answers \ {"none"}
  BY DEF Answers
<1>1. CASE ReadOldRegistration(r)
  BY <1>1, ReadOldKeepsInv
<1>2. CASE CreateAmfRegContext(r)
  BY <1>2, CreateAmfKeepsInv
<1>3. CASE UdrCreateAmf(r)
  <2>0. ~ WithoutContext(r)
    BY <1>3 DEF UdrCreateAmf, At, WithoutContext, OtherKinds, AskKinds, SharedSubsKinds
  <2>1. /\ pc[r] = "udr" /\ SameRequests /\ accepted \subseteq accepted'
        /\ SameContexts(r)
    BY <1>3, UnchangedRequests, UnchangedContexts DEF UdrCreateAmf, At, CommitAmf, UdrRefuses, UdrFails, udrVars
  <2>2. CASE CommitAmf(r) /\ Goto(r, "respond") /\ UNCHANGED answer
    <3>1. Quiet(r, "respond")
      BY <2>0, <2>1, <2>2, MoveIsQuiet DEF CommitAmf, Labels
    <3> QED
      BY <3>1, QuietKeepsInv
  <2>3. CASE Reply(r, "problem") \/ Reply(r, "crash")
    BY <1>0, <2>1, <2>3, AnswerIsQuiet, QuietKeepsInv
  <2> QED
    BY <1>3, <2>2, <2>3 DEF UdrCreateAmf, UdrRefuses, UdrFails
<1>4. CASE NotifyOldAmf(r)
  BY <1>4, NotifyKeepsInv
<1>5. CASE AnswerReplaced(r)
  <2>1. /\ pc[r] = "answer" /\ SameRequests /\ accepted' = accepted /\ r \in accepted
        /\ SameContexts(r) /\ Reply(r, "noContent")
    BY <1>5, UnchangedRequests, UnchangedContexts DEF AnswerReplaced, At, udrVars, Inv, AcceptedFirst
  <2> QED
    BY <1>0, <2>1, AnswerIsQuiet, QuietKeepsInv
<1>6. CASE AnswerCreated(r)
  <2>1. /\ pc[r] = "respond" /\ SameRequests /\ accepted' = accepted /\ r \in accepted
        /\ SameContexts(r)
        /\ Reply(r, "created") \/ Reply(r, "crash")
    BY <1>6, UnchangedRequests, UnchangedContexts DEF AnswerCreated, At, udrVars, Inv, AcceptedFirst
  <2> QED
    BY <1>0, <2>1, AnswerIsQuiet, QuietKeepsInv
<1> QED
  BY <1>1, <1>2, <1>3, <1>4, <1>5, <1>6 DEF AmfRegistration

(* The one field of a request that a handler changes.                      *)
LEMMA PurgeIsAllThatChanges ==
  ASSUME Inv, NEW r \in Requests, pc[r] # "idle", req' = [req EXCEPT ![r].purge = TRUE]
  PROVE  SameRequests
<1>1. req[r] \in Body /\ req \in [Requests -> Body \cup {None}]
  BY RequestTyped DEF Inv, Typed, TypeOK, HandlerTypeOK
<1>2. [req[r] EXCEPT !.purge = TRUE] \in Body
  BY <1>1 DEF Body
<1>3. req'[r] = [req[r] EXCEPT !.purge = TRUE] /\ req'[r] # None /\ req[r] # None
  BY <1>1, <1>2, BodyAssumption
<1>4. /\ req'[r].kind = req[r].kind /\ req'[r].supi = req[r].supi
      /\ req'[r].access = req[r].access /\ req'[r].amf = req[r].amf
      /\ \A q \in Requests \ {r} : req'[q] = req[q]
  BY <1>1, <1>3 DEF Body
<1> QED
  BY <1>3, <1>4 DEF SameRequests

LEMMA AmfUpdateKeepsInv ==
  ASSUME Inv, Typed', NEW r \in Requests, AmfUpdate(r)
  PROVE  Inv'
<1>0. {"content", "noContent", "problem", "crash"} \subseteq Answers \ {"none"}
  BY DEF Answers
<1>1. CASE FindCurrentContext(r)
  <2>1. /\ pc[r] = "exists" /\ SameRequests /\ accepted' = accepted
        /\ SameContexts(r)
    BY <1>1, UnchangedRequests, UnchangedContexts DEF FindCurrentContext, At, udrVars
  <2>2. CASE Reply(r, "problem")
    BY <1>0, <2>1, <2>2, AnswerIsQuiet, QuietKeepsInv
  <2>3. CASE UNCHANGED answer /\ \E l \in {"client", "match"} : Goto(r, l)
    BY <2>1, <2>3, MoveIsQuiet, QuietKeepsInv DEF Labels
  <2> QED
    BY <1>1, <2>2, <2>3 DEF FindCurrentContext
<1>2. CASE CheckGuami(r)
  <2>1. /\ pc[r] = "match" /\ accepted' = accepted
        /\ SameContexts(r)
    BY <1>2, UnchangedContexts DEF CheckGuami, At, udrVars
  <2>2. CASE Reply(r, "problem") /\ UNCHANGED req
    BY <1>0, <2>1, <2>2, UnchangedRequests, AnswerIsQuiet, QuietKeepsInv
  <2>3. CASE req' = [req EXCEPT ![r].purge = TRUE] /\ Goto(r, "client") /\ UNCHANGED answer
    <3>1. SameRequests
      BY <2>1, <2>3, PurgeIsAllThatChanges
    <3> QED
      BY <2>1, <2>3, <3>1, MoveIsQuiet, QuietKeepsInv DEF Labels
  <2> QED
    BY <1>2, <2>2, <2>3 DEF CheckGuami
<1>3. CASE UdrPatchAmf(r)
  <2>1. /\ pc[r] = "udr" /\ SameRequests /\ accepted \subseteq accepted'
        /\ SameContexts(r)
    BY <1>3, UnchangedRequests, UnchangedContexts DEF UdrPatchAmf, At, PatchAmf, UdrRefuses, UdrFails, udrVars
  <2>2. CASE PatchAmf(r) /\ Reply(r, "noContent")
    <3>1. r \in accepted'
      BY <2>2 DEF PatchAmf
    <3> QED
      BY <1>0, <2>1, <2>2, <3>1, AnswerIsQuiet, QuietKeepsInv
  <2>3. CASE Reply(r, "problem") \/ Reply(r, "crash")
    BY <1>0, <2>1, <2>3, AnswerIsQuiet, QuietKeepsInv
  <2> QED
    BY <1>3, <2>2, <2>3 DEF UdrPatchAmf, UdrRefuses, UdrFails
<1>4. CASE UdrReadAmf(r)
  <2>1. /\ pc[r] = "udr" /\ SameRequests /\ accepted' = accepted
        /\ SameContexts(r)
        /\ \E c \in {"content", "problem", "crash"} : Reply(r, c)
    BY <1>4, UnchangedRequests, UnchangedContexts DEF UdrReadAmf, At, UdrRefuses, UdrFails, udrVars
  <2> QED
    BY <1>0, <2>1, AnswerIsQuiet, QuietKeepsInv
<1> QED
  BY <1>1, <1>2, <1>3, <1>4 DEF AmfUpdate
(* A PDU session in before is nobody's old registration.                   *)
LEMMA ReadPduKeepsInv ==
  ASSUME Inv, Typed', NEW r \in Requests, ReadPduSessionID(r)
  PROVE  Inv'
<1>1. /\ pc[r] = "exists" /\ r \notin AmfRegs /\ Goto(r, "find")
      /\ accepted' = accepted /\ UNCHANGED answer
  BY DEF ReadPduSessionID, At, AmfRegs, udrVars
<1>2. SameContexts(r) /\ SameRequests
  BY <1>1, UnchangedRequests
  DEF ReadPduSessionID, SameContexts, SameRegistrations, ueVars, Inv, Typed, TypeOK, UecmTypeOK
<1> QED
  BY <1>1, <1>2, MoveIsQuiet, QuietKeepsInv DEF Labels

LEMMA CreateSmfKeepsInv ==
  ASSUME Inv, Typed', NEW r \in Requests, CreateSmfRegContext(r)
  PROVE  Inv'
<1>1. /\ pc[r] = "setPdu" /\ Goto(r, "client") /\ accepted' = accepted
      /\ UNCHANGED <<pool, ue, before, notified, answer>>
  BY DEF CreateSmfRegContext, At, udrVars
<1>2. SameRegistrations
  BY DEF SameRegistrations, CreateSmfRegContext, SetPduSessionID, Inv, Typed, TypeOK,
         HandlerTypeOK, UeTypeOK, UdmUeContext
<1>3. SameContexts(r) /\ SameRequests
  BY <1>1, <1>2, UnchangedRequests DEF CreateSmfRegContext, SameContexts
<1> QED
  BY <1>1, <1>3, MoveIsQuiet, QuietKeepsInv DEF Labels

LEMMA SmfRegistrationKeepsInv ==
  ASSUME Inv, Typed', NEW r \in Requests, SmfRegistration(r)
  PROVE  Inv'
<1>0. {"created", "noContent", "problem", "crash"} \subseteq Answers \ {"none"}
  BY DEF Answers
<1>1. CASE ReadPduSessionID(r)
  BY <1>1, ReadPduKeepsInv
<1>2. CASE TestPduSessionID(r)
  <2>1. /\ pc[r] = "write" /\ SameRequests /\ accepted' = accepted
        /\ SameContexts(r) /\ UNCHANGED answer
        /\ \E l \in {"setPdu", "client"} : Goto(r, l)
    BY <1>2, UnchangedRequests, UnchangedContexts DEF TestPduSessionID, At, udrVars
  <2> QED
    BY <2>1, MoveIsQuiet, QuietKeepsInv DEF Labels
<1>3. CASE CreateSmfRegContext(r)
  BY <1>3, CreateSmfKeepsInv
<1>4. CASE AuthorizeSmf(r)
  <2>1. /\ pc[r] = "query" /\ SameRequests /\ accepted' = accepted
        /\ SameContexts(r)
    BY <1>4, UnchangedRequests, UnchangedContexts DEF AuthorizeSmf, At, udrVars
  <2>2. CASE Goto(r, "udr") /\ UNCHANGED answer
    BY <2>1, <2>2, MoveIsQuiet, QuietKeepsInv DEF Labels
  <2>3. CASE Reply(r, "problem")
    BY <1>0, <2>1, <2>3, AnswerIsQuiet, QuietKeepsInv
  <2> QED
    BY <1>4, <2>2, <2>3 DEF AuthorizeSmf
<1>5. CASE UdrCreateSmf(r)
  <2>0. ~ WithoutContext(r)
    BY <1>5 DEF UdrCreateSmf, At, WithoutContext, OtherKinds, AskKinds, SharedSubsKinds
  <2>1. /\ pc[r] = "udr" /\ SameRequests /\ accepted \subseteq accepted'
        /\ SameContexts(r)
    BY <1>5, UnchangedRequests, UnchangedContexts DEF UdrCreateSmf, At, CommitSmf, udrVars
  <2>2. CASE CommitSmf(r) /\ Goto(r, "respond") /\ UNCHANGED answer
    <3>1. r \in accepted'
      BY <2>2 DEF CommitSmf
    <3> QED
      BY <2>0, <2>1, <2>2, <3>1, MoveIsQuiet, QuietKeepsInv DEF Labels
  <2>3. CASE Reply(r, "problem")
    BY <1>0, <2>1, <2>3, AnswerIsQuiet, QuietKeepsInv
  <2> QED
    BY <1>5, <2>2, <2>3 DEF UdrCreateSmf
<1>6. CASE AnswerSmf(r)
  <2>1. /\ pc[r] = "respond" /\ SameRequests /\ accepted' = accepted /\ r \in accepted
        /\ SameContexts(r)
        /\ \E c \in {"noContent", "crash", "created"} : Reply(r, c)
    BY <1>6, UnchangedRequests, UnchangedContexts DEF AnswerSmf, At, udrVars, Inv, AcceptedFirst
  <2> QED
    BY <1>0, <2>1, AnswerIsQuiet, QuietKeepsInv
<1>7. CASE UdrDeleteSmf(r)
  <2>1. /\ pc[r] = "udr" /\ SameRequests /\ accepted \subseteq accepted'
        /\ SameContexts(r)
        /\ \/ r \in accepted' /\ Reply(r, "noContent")
           \/ Reply(r, "problem") \/ Reply(r, "crash")
    BY <1>7, UnchangedRequests, UnchangedContexts DEF UdrDeleteSmf, At, UdrRefuses, UdrFails, udrVars
  <2> QED
    BY <1>0, <2>1, AnswerIsQuiet, QuietKeepsInv
<1> QED
  BY <1>1, <1>2, <1>3, <1>4, <1>5, <1>6, <1>7 DEF SmfRegistration

LEMMA NextInv == Inv /\ [Next]_vars => Inv'
<1> SUFFICES ASSUME Inv, [Next]_vars PROVE Inv'
  OBVIOUS
<1>0. Typed'
  BY NextTyped DEF Inv
<1>1. CASE Restart /\ UNCHANGED uecmVars
  BY <1>0, <1>1, RestartKeepsInv
<1>2. CASE \E r \in Requests : Arrive(r) /\ UNCHANGED uecmVars
  BY <1>0, <1>2, ArriveKeepsInv
<1>3. CASE \E r \in Requests : Handle(r)
  BY <1>0, <1>3, AmfRegistrationKeepsInv, AmfUpdateKeepsInv, SmfRegistrationKeepsInv,
     SharedKeepsInv DEF Handle, UecmStep
<1>4. CASE UNCHANGED vars
  BY <1>0, <1>4
  DEF vars, handlerVars, uecmVars, udrVars, ueVars, Inv, ObjectsOwned, FiledUnderItsSupi,
      PointersOwned, StoredFits, ReadFits, NothingReadYet, ReadsAcyclic, ToldWasRead,
      AcceptedFirst, Answered, ContextInPool, WithoutContext, AmfRegs, Unwritten
<1> QED
  BY <1>1, <1>2, <1>3, <1>4 DEF Next

LEMMA Invariance == Spec => []Inv
  BY InitInv, NextInv, PTL DEF Spec
-----------------------------------------------------------------------------
(***************************************************************************)
(* The UDR's records.                                                      *)
(***************************************************************************)

(* A registration for the same slot and with the same GUAMI has been       *)
(* received.                                                               *)
OfRegistered(r) ==
  \E o \in AmfRegs : /\ req[o].supi = req[r].supi
                     /\ req[o].access = req[r].access
                     /\ req[o].amf = req[r].amf

(* An update that carries a GUAMI and is on its way to the UDR.            *)
PastMatch(r) ==
  /\ pc[r] \in {"client", "clientNew", "discover", "udr"}
  /\ req[r].kind = "amfUpdate"
  /\ req[r].amf # None

MatchedFirst == \A r \in Requests : PastMatch(r) => OfRegistered(r)

(* The UDR takes a registration once.                                      *)
TakenOnce ==
  \A r \in accepted :
    /\ pc[r] # "idle"
    /\ r \in AmfRegs => pc[r] \in {"respond", "answer", "done"}

RecordInv ==
  /\ Inv
  /\ MatchedFirst
  /\ TakenOnce
  /\ RecordShowsARegisteredAmf

LEMMA InitRecordInv == Init => RecordInv
<1> SUFFICES ASSUME Init PROVE RecordInv
  OBVIOUS
<1>1. Inv
  BY InitInv
<1>2. /\ \A r \in Requests : pc[r] = "idle"
      /\ accepted = {}
      /\ \A s \in Supis, a \in Accesses : udrAmf[s][a].by = None
  BY DEF Init, HandlerInit, UecmInit, NoAmfRecord
<1> QED
  BY <1>1, <1>2 DEF RecordInv, MatchedFirst, PastMatch, TakenOnce, RecordShowsARegisteredAmf

LEMMA SameFields ==
  ASSUME SameRequests
  PROVE  /\ AmfRegs' = AmfRegs
         /\ \A q \in Requests : /\ req'[q].kind = req[q].kind /\ req'[q].supi = req[q].supi
                               /\ req'[q].access = req[q].access /\ req'[q].amf = req[q].amf
  BY AmfRegsKept DEF SameRequests

LEMMA StillRegistered ==
  ASSUME SameRequests, NEW q \in Requests, OfRegistered(q)
  PROVE  OfRegistered(q)'
  BY SameFields DEF OfRegistered, AmfRegs

(* A step that leaves the AMF registrations at the UDR alone.              *)
LEMMA RecordsKept ==
  ASSUME RecordInv, Inv', NEW r \in Requests, SameRequests,
         \A q \in Requests \ {r} : pc'[q] = pc[q], pc'[r] # "idle",
         PastMatch(r)' => PastMatch(r) \/ OfRegistered(r),
         accepted' = accepted \/ (r \notin AmfRegs /\ accepted' = accepted \cup {r}),
         r \in AmfRegs /\ pc[r] \in {"respond", "answer", "done"} => pc'[r] \in {"answer", "done"},
         UNCHANGED udrAmf
  PROVE  RecordInv'
<1>0. /\ MatchedFirst /\ TakenOnce /\ RecordShowsARegisteredAmf
      /\ accepted \subseteq Requests /\ AmfRegs \subseteq Requests
  BY DEF RecordInv, Inv, Typed, TypeOK, UecmTypeOK, AmfRegs
<1>1. /\ AmfRegs' = AmfRegs
      /\ \A q \in Requests : /\ req'[q].kind = req[q].kind /\ req'[q].supi = req[q].supi
                             /\ req'[q].access = req[q].access /\ req'[q].amf = req[q].amf
  BY SameFields
<1>2. MatchedFirst'
  <2> SUFFICES ASSUME NEW q \in Requests, PastMatch(q)' PROVE OfRegistered(q)'
    BY DEF MatchedFirst
  <2>1. PastMatch(q) \/ OfRegistered(q)
    <3>1. CASE q = r
      BY <3>1
    <3>2. CASE q # r
      BY <1>1, <3>2 DEF PastMatch
    <3> QED
      BY <3>1, <3>2
  <2> QED
    BY <1>0, <2>1, StillRegistered DEF MatchedFirst
<1>3. TakenOnce'
  <2> SUFFICES ASSUME NEW q \in accepted'
               PROVE  /\ pc'[q] # "idle"
                      /\ q \in AmfRegs => pc'[q] \in {"respond", "answer", "done"}
    BY <1>1 DEF TakenOnce
  <2> QED
    BY <1>0 DEF TakenOnce
<1>4. RecordShowsARegisteredAmf'
  BY <1>0, <1>1 DEF RecordShowsARegisteredAmf
<1> QED
  BY <1>2, <1>3, <1>4 DEF RecordInv

(* The two kinds of writes.                                                *)
LEMMA CommitKeepsRecords ==
  ASSUME RecordInv, Inv', NEW r \in Requests, SameRequests, r \in AmfRegs, pc[r] = "udr",
         \A q \in Requests \ {r} : pc'[q] = pc[q], pc'[r] \in {"respond", "done"},
         CommitAmf(r)
  PROVE  RecordInv'
<1>0. /\ MatchedFirst /\ TakenOnce /\ RecordShowsARegisteredAmf
      /\ accepted \subseteq Requests /\ AmfRegs \subseteq Requests
      /\ req[r].supi \in Supis /\ req[r].access \in Accesses
      /\ udrAmf \in [Supis -> [Accesses -> AmfRecord]]
  BY RequestTyped DEF RecordInv, Inv, Typed, TypeOK, UecmTypeOK, AmfRegs
<1>1. /\ AmfRegs' = AmfRegs
      /\ \A q \in Requests : /\ req'[q].kind = req[q].kind /\ req'[q].supi = req[q].supi
                             /\ req'[q].access = req[q].access /\ req'[q].amf = req[q].amf
  BY SameFields
<1>2. MatchedFirst'
  <2> SUFFICES ASSUME NEW q \in Requests, PastMatch(q)' PROVE OfRegistered(q)'
    BY DEF MatchedFirst
  <2>1. PastMatch(q)
    <3>1. CASE q = r
      BY <1>1, <3>1 DEF PastMatch
    <3>2. CASE q # r
      BY <1>1, <3>2 DEF PastMatch
    <3> QED
      BY <3>1, <3>2
  <2> QED
    BY <1>0, <2>1, StillRegistered DEF MatchedFirst
<1>3. TakenOnce'
  <2> SUFFICES ASSUME NEW q \in accepted'
               PROVE  /\ pc'[q] # "idle"
                      /\ q \in AmfRegs => pc'[q] \in {"respond", "answer", "done"}
    BY <1>1 DEF TakenOnce
  <2>1. q \in accepted \/ q = r
    BY DEF CommitAmf
  <2> QED
    BY <1>0, <2>1 DEF TakenOnce
<1>4. RecordShowsARegisteredAmf'
  <2> SUFFICES ASSUME NEW s \in Supis, NEW a \in Accesses, udrAmf'[s][a].by # None
               PROVE  \E o \in AmfRegs : /\ req[o].supi = s /\ req[o].access = a
                                         /\ req[o].amf = udrAmf'[s][a].guami
    BY <1>0, <1>1 DEF RecordShowsARegisteredAmf
  <2>1. CASE s = req[r].supi /\ a = req[r].access
    <3>1. udrAmf'[s][a].guami = req[r].amf
      BY <1>0, <2>1 DEF CommitAmf
    <3> QED
      BY <2>1, <3>1
  <2>2. CASE ~ (s = req[r].supi /\ a = req[r].access)
    <3>1. udrAmf'[s][a] = udrAmf[s][a]
      BY <1>0, <2>2 DEF CommitAmf
    <3> QED
      BY <1>0, <3>1 DEF RecordShowsARegisteredAmf
  <2> QED
    BY <2>1, <2>2
<1> QED
  BY <1>2, <1>3, <1>4 DEF RecordInv

(* A patch leaves the registration a record is from as it is, and may show *)
(* the GUAMI of the request.                                               *)
LEMMA PatchedRecord ==
  ASSUME Typed, NEW r \in Requests, pc[r] # "idle", PatchAmf(r), NEW s \in Supis, NEW a \in Accesses
  PROVE  /\ udrAmf'[s][a].by = udrAmf[s][a].by
         /\ \/ udrAmf'[s][a].guami = udrAmf[s][a].guami
            \/ /\ s = req[r].supi /\ a = req[r].access
               /\ req[r].amf # None /\ udrAmf'[s][a].guami = req[r].amf
<1> DEFINE t == req[r].supi
           b == req[r].access
<1>1. t \in Supis /\ b \in Accesses
  BY RequestTyped
<1>2. udrAmf[t][b] \in AmfRecord
  BY <1>1 DEF Typed, TypeOK, UecmTypeOK
<1>3. /\ udrAmf'[t][b].by = udrAmf[t][b].by
      /\ udrAmf'[t][b].guami = IF req[r].amf = None THEN udrAmf[t][b].guami ELSE req[r].amf
  BY <1>1, <1>2 DEF PatchAmf, Typed, TypeOK, UecmTypeOK, AmfRecord
<1>4. ~ (s = t /\ a = b) => udrAmf'[s][a] = udrAmf[s][a]
  BY <1>1 DEF PatchAmf, Typed, TypeOK, UecmTypeOK
<1> QED
  BY <1>3, <1>4

LEMMA PatchKeepsRecords ==
  ASSUME RecordInv, Inv', NEW r \in Requests, UNCHANGED req,
         pc[r] = "udr", req[r].kind = "amfUpdate", Goto(r, "done"), PatchAmf(r)
  PROVE  RecordInv'
<1> USE DEF RecordInv
<1>0. /\ SameRequests /\ r \notin AmfRegs /\ pc'[r] = "done"
      /\ \A q \in Requests \ {r} : pc'[q] = pc[q]
  BY UnchangedRequests DEF AmfRegs, Goto, Inv, Typed, TypeOK, HandlerTypeOK
<1>1. MatchedFirst'
  <2> SUFFICES ASSUME NEW q \in Requests, PastMatch(q)' PROVE OfRegistered(q)'
    BY DEF MatchedFirst
  <2>1. PastMatch(q)
    BY <1>0 DEF PastMatch
  <2> QED
    BY <1>0, <2>1, StillRegistered DEF MatchedFirst
<1>2. TakenOnce'
  <2>0. AmfRegs' = AmfRegs /\ accepted' = accepted \cup {r} /\ accepted \subseteq Requests
    BY <1>0, SameFields DEF PatchAmf, Inv, Typed, TypeOK, UecmTypeOK
  <2> SUFFICES ASSUME NEW q \in accepted'
               PROVE  /\ pc'[q] # "idle"
                      /\ q \in AmfRegs => pc'[q] \in {"respond", "answer", "done"}
    BY <2>0 DEF TakenOnce
  <2> QED
    BY <1>0, <2>0 DEF TakenOnce
<1>3. RecordShowsARegisteredAmf'
  <2> SUFFICES ASSUME NEW s \in Supis, NEW a \in Accesses, udrAmf'[s][a].by # None
               PROVE  \E o \in AmfRegs : /\ req[o].supi = s /\ req[o].access = a
                                         /\ req[o].amf = udrAmf'[s][a].guami
    BY <1>0, SameFields DEF RecordShowsARegisteredAmf, AmfRegs
  <2>1. /\ udrAmf[s][a].by # None
        /\ \/ udrAmf'[s][a].guami = udrAmf[s][a].guami
           \/ /\ s = req[r].supi /\ a = req[r].access
              /\ req[r].amf # None /\ udrAmf'[s][a].guami = req[r].amf
    BY PatchedRecord DEF Inv
  <2>2. CASE udrAmf'[s][a].guami = udrAmf[s][a].guami
    BY <2>1, <2>2 DEF RecordShowsARegisteredAmf
  <2>3. CASE s = req[r].supi /\ a = req[r].access /\ req[r].amf # None
             /\ udrAmf'[s][a].guami = req[r].amf
    <3>1. OfRegistered(r)
      BY <2>3 DEF MatchedFirst, PastMatch
    <3> QED
      BY <2>3, <3>1 DEF OfRegistered
  <2> QED
    BY <2>1, <2>2, <2>3
<1> QED
  BY <1>1, <1>2, <1>3

(* A handler that goes on to l without a write to the AMF registrations.   *)
LEMMA GoKeepsRecords ==
  ASSUME RecordInv, Inv', NEW r \in Requests, SameRequests, UNCHANGED udrAmf,
         NEW l \in Labels \ {"idle"}, Goto(r, l),
         PastMatch(r) \/ OfRegistered(r) \/ req[r].amf = None \/ req[r].kind # "amfUpdate"
           \/ l \in {"find", "new", "write", "match", "done"},
         accepted' = accepted \/ (r \notin AmfRegs /\ accepted' = accepted \cup {r}),
         l \in {"answer", "done"} \/ r \notin AmfRegs \/ pc[r] \notin {"respond", "answer", "done"}
  PROVE  RecordInv'
<1>1. /\ pc'[r] = l /\ \A q \in Requests \ {r} : pc'[q] = pc[q]
  BY DEF Goto, RecordInv, Inv, Typed, TypeOK, HandlerTypeOK
<1>2. PastMatch(r)' => PastMatch(r) \/ OfRegistered(r)
  BY <1>1, SameFields DEF PastMatch
<1> QED
  BY <1>1, <1>2, RecordsKept

LEMMA AmfRegistrationKeepsRecords ==
  ASSUME RecordInv, Inv', NEW r \in Requests, AmfRegistration(r)
  PROVE  RecordInv'
<1>0. /\ SameRequests /\ r \in AmfRegs /\ req[r].kind # "amfUpdate"
      /\ {"find", "client", "answer", "respond", "done"} \subseteq Labels \ {"idle"}
  <2>1. UNCHANGED req /\ req[r].kind = "amfReg" /\ pc[r] # "idle"
    BY DEF AmfRegistration, ReadOldRegistration, CreateAmfRegContext, UdrCreateAmf,
           NotifyOldAmf, AnswerReplaced, AnswerCreated, At
  <2> QED
    BY <2>1, UnchangedRequests DEF RecordInv, Inv, Typed, HasRequest, AmfRegs, Labels
<1>1. CASE ReadOldRegistration(r)
  BY <1>0, <1>1, GoKeepsRecords DEF ReadOldRegistration, At, udrVars
<1>2. CASE CreateAmfRegContext(r)
  BY <1>0, <1>2, GoKeepsRecords DEF CreateAmfRegContext, At, udrVars
<1>3. CASE UdrCreateAmf(r)
  <2>1. CASE UdrRefuses(r)
    BY <1>0, <1>3, <2>1, GoKeepsRecords DEF UdrCreateAmf, UdrRefuses, UdrFails, Reply, At, udrVars
  <2>2. CASE CommitAmf(r) /\ \E l \in {"respond", "done"} : Goto(r, l)
    <3>1. pc'[r] \in {"respond", "done"} /\ \A q \in Requests \ {r} : pc'[q] = pc[q]
      BY <2>2 DEF Goto, RecordInv, Inv, Typed, TypeOK, HandlerTypeOK
    <3>2. pc[r] = "udr"
      BY <1>3 DEF UdrCreateAmf, At
    <3> QED
      BY <1>0, <2>2, <3>1, <3>2, CommitKeepsRecords
  <2> QED
    BY <1>3, <2>1, <2>2 DEF UdrCreateAmf, Reply
<1>4. CASE NotifyOldAmf(r)
  BY <1>0, <1>4, GoKeepsRecords DEF NotifyOldAmf, At, udrVars
<1>5. CASE AnswerReplaced(r)
  BY <1>0, <1>5, GoKeepsRecords DEF AnswerReplaced, Reply, At, udrVars
<1>6. CASE AnswerCreated(r)
  BY <1>0, <1>6, GoKeepsRecords DEF AnswerCreated, Reply, At, udrVars
<1> QED
  BY <1>1, <1>2, <1>3, <1>4, <1>5, <1>6 DEF AmfRegistration

(* An update with a GUAMI goes on when that GUAMI is the one of the        *)
(* registration stored in the slot, and that one has been received.        *)
LEMMA StoredIsRegistered ==
  ASSUME Inv, NEW r \in Requests, pc[r] # "idle", SameAsStoredGUAMI(r)
  PROVE  OfRegistered(r)
<1> DEFINE o == pool[req[r].supi]
           q == heap[o].amf[req[r].access]
<1>1. req[r].supi \in Supis /\ req[r].access \in Accesses
  BY RequestTyped DEF Inv
<1>2. o # None /\ q # None /\ req[q].amf = req[r].amf
  BY DEF SameAsStoredGUAMI, GetAmfRegContext, UdmUeFindBySupi
<1>3. o \in Objects /\ q \in Requests
  BY <1>1, <1>2, LookUpTyped DEF Inv, Typed, GetAmfRegContext, UdmUeFindBySupi
<1>4. q \in AmfRegs /\ req[q].supi = heap[o].supi /\ req[q].access = req[r].access
  <2> DEFINE a == req[r].access
  <2>1. StoredFits /\ o \in Objects /\ q \in Requests /\ a \in Accesses /\ heap[o].amf[a] = q
    BY <1>1, <1>3 DEF Inv
  <2> HIDE DEF o, q, a
  <2>2. q \in AmfRegs /\ req[q].supi = heap[o].supi /\ req[q].access = a
    BY ONLY <2>1 DEF StoredFits
  <2> QED
    BY <2>2 DEF a
<1>5. heap[o].supi = req[r].supi
  BY <1>1, <1>2 DEF Inv, FiledUnderItsSupi
<1> QED
  BY <1>2, <1>4, <1>5 DEF OfRegistered

LEMMA AmfUpdateKeepsRecords ==
  ASSUME RecordInv, Inv', NEW r \in Requests, AmfUpdate(r)
  PROVE  RecordInv'
<1>0. /\ r \notin AmfRegs /\ pc[r] # "idle"
      /\ {"client", "match", "done"} \subseteq Labels \ {"idle"}
  BY DEF AmfUpdate, FindCurrentContext, CheckGuami, UdrPatchAmf, UdrReadAmf, At, AmfRegs, Labels
<1>1. CASE FindCurrentContext(r)
  <2>1. SameRequests /\ UNCHANGED <<udrAmf, accepted>>
    BY <1>1, UnchangedRequests DEF FindCurrentContext, udrVars
  <2>2. CASE \E l \in {"match", "done"} : Goto(r, l)
    BY <1>0, <2>1, <2>2, GoKeepsRecords
  <2>3. CASE Goto(r, "client") /\ req[r].amf = None
    BY <1>0, <2>1, <2>3, GoKeepsRecords
  <2> QED
    BY <1>1, <2>2, <2>3 DEF FindCurrentContext, Reply
<1>2. CASE CheckGuami(r)
  <2>1. UNCHANGED <<udrAmf, accepted>>
    BY <1>2 DEF CheckGuami, udrVars
  <2>2. CASE Reply(r, "problem") /\ UNCHANGED req
    BY <1>0, <2>1, <2>2, UnchangedRequests, GoKeepsRecords DEF Reply
  <2>3. CASE SameAsStoredGUAMI(r) /\ req' = [req EXCEPT ![r].purge = TRUE] /\ Goto(r, "client")
    <3>1. SameRequests
      BY <1>0, <2>3, PurgeIsAllThatChanges DEF RecordInv
    <3>2. OfRegistered(r)
      BY <1>0, <2>3, StoredIsRegistered DEF RecordInv
    <3> QED
      BY <1>0, <2>1, <2>3, <3>1, <3>2, GoKeepsRecords
  <2> QED
    BY <1>2, <2>2, <2>3 DEF CheckGuami
<1>3. CASE UdrPatchAmf(r)
  <2>1. UNCHANGED req /\ pc[r] = "udr" /\ req[r].kind = "amfUpdate" /\ SameRequests
    BY <1>3, UnchangedRequests DEF UdrPatchAmf, At
  <2>2. CASE PatchAmf(r) /\ Goto(r, "done")
    BY <2>1, <2>2, PatchKeepsRecords
  <2>3. CASE UNCHANGED udrVars /\ Goto(r, "done")
    BY <1>0, <2>1, <2>3, GoKeepsRecords DEF udrVars
  <2> QED
    BY <1>3, <2>2, <2>3 DEF UdrPatchAmf, UdrRefuses, UdrFails, Reply
<1>4. CASE UdrReadAmf(r)
  BY <1>0, <1>4, UnchangedRequests, GoKeepsRecords
  DEF UdrReadAmf, UdrRefuses, UdrFails, Reply, udrVars
<1> QED
  BY <1>1, <1>2, <1>3, <1>4 DEF AmfUpdate

LEMMA SmfRegistrationKeepsRecords ==
  ASSUME RecordInv, Inv', NEW r \in Requests, SmfRegistration(r)
  PROVE  RecordInv'
<1>1. /\ UNCHANGED req /\ UNCHANGED udrAmf /\ req[r].kind \in {"smfReg", "smfDereg"}
      /\ \E l \in {"find", "setPdu", "client", "udr", "respond", "done"} : Goto(r, l)
      /\ accepted' = accepted \/ accepted' = accepted \cup {r}
  BY DEF SmfRegistration, ReadPduSessionID, TestPduSessionID, CreateSmfRegContext, AuthorizeSmf,
         UdrCreateSmf, AnswerSmf, UdrDeleteSmf, CommitSmf, UdrRefuses, UdrFails, Reply, At, udrVars
<1>2. SameRequests /\ r \notin AmfRegs
  BY <1>1, UnchangedRequests DEF AmfRegs
<1>3. PICK l \in {"find", "setPdu", "client", "udr", "respond", "done"} : Goto(r, l)
  BY <1>1
<1>4. l \in Labels \ {"idle"} /\ req[r].kind # "amfUpdate"
  BY <1>1 DEF Labels
<1> QED
  BY <1>1, <1>2, <1>3, <1>4, GoKeepsRecords

LEMMA SharedKeepsRecords ==
  ASSUME RecordInv, Inv', NEW r \in Requests, SharedStep(r), UNCHANGED uecmVars
  PROVE  RecordInv'
<1>1. UNCHANGED <<req, udrAmf, accepted>> /\ pc[r] \in {"find", "new", "client", "clientNew", "discover"}
  BY DEF SharedStep, FindUe, CreateUe, GetUdrUriFind, GetUdrUriCreate, Discover, At, uecmVars, udrVars
<1>2. PICK l \in Labels \ {"idle"} : /\ Goto(r, l)
                                     /\ \/ l \in {"find", "new", "write", "match", "done"}
                                        \/ pc[r] \in {"client", "clientNew", "discover"}
  BY DEF SharedStep, FindUe, CreateUe, GetUdrUriFind, GetUdrUriCreate, Discover, UdrStep, Reply, Labels
<1>3. \/ PastMatch(r) \/ req[r].amf = None \/ req[r].kind # "amfUpdate"
      \/ l \in {"find", "new", "write", "match", "done"}
  BY <1>2 DEF PastMatch
<1> QED
  BY <1>1, <1>2, <1>3, UnchangedRequests, GoKeepsRecords

LEMMA ArriveKeepsRecords ==
  ASSUME RecordInv, Inv', NEW r \in Requests, Arrive(r), UNCHANGED uecmVars
  PROVE  RecordInv'
<1>1. /\ \A q \in Requests \ {r} : pc'[q] = pc[q] /\ req'[q] = req[q]
      /\ UNCHANGED <<udrAmf, accepted>> /\ pc[r] = "idle"
      /\ pc'[r] = FirstStep(req'[r].kind)
      /\ accepted \subseteq Requests
  <2>1. PICK b \in Bodies : req' = [req EXCEPT ![r] = b] /\ Goto(r, FirstStep(b.kind))
    BY DEF Arrive
  <2> QED
    BY <2>1 DEF Arrive, Goto, RecordInv, Inv, Typed, TypeOK, HandlerTypeOK, UecmTypeOK,
                uecmVars, udrVars
<1>2. r \notin AmfRegs /\ r \notin accepted
  BY <1>1 DEF RecordInv, Inv, Typed, HasRequest, AmfRegs, TakenOnce
<1>3. \A o \in AmfRegs : o \in AmfRegs' /\ req'[o] = req[o]
  BY <1>1, <1>2 DEF AmfRegs
<1>4. \A q \in Requests \ {r} : OfRegistered(q) => OfRegistered(q)'
  BY <1>1, <1>3 DEF OfRegistered
<1>5. MatchedFirst'
  <2> SUFFICES ASSUME NEW q \in Requests, PastMatch(q)' PROVE OfRegistered(q)'
    BY DEF MatchedFirst
  <2>1. q # r
    <3>1. FirstStep("amfUpdate") = "exists"
      BY DEF FirstStep, AskKinds, SharedSubsKinds
    <3> QED
      BY <1>1, <3>1 DEF PastMatch
  <2>2. PastMatch(q)
    BY <1>1, <2>1 DEF PastMatch
  <2> QED
    BY <1>4, <2>1, <2>2 DEF RecordInv, MatchedFirst
<1>6. TakenOnce'
  BY <1>1, <1>2 DEF RecordInv, TakenOnce, AmfRegs
<1>7. RecordShowsARegisteredAmf'
  BY <1>1, <1>3 DEF RecordInv, RecordShowsARegisteredAmf
<1> QED
  BY <1>5, <1>6, <1>7 DEF RecordInv

LEMMA RestartKeepsRecords ==
  ASSUME RecordInv, Inv', Restart, UNCHANGED uecmVars
  PROVE  RecordInv'
<1>1. /\ \A q \in Requests : pc'[q] = IF pc[q] = "idle" THEN "idle" ELSE "done"
      /\ UNCHANGED <<req, udrAmf, accepted>> /\ AmfRegs' = AmfRegs
  BY DEF Restart, Serving, uecmVars, udrVars, AmfRegs
<1>2. MatchedFirst'
  BY <1>1 DEF MatchedFirst, PastMatch
<1>3. TakenOnce'
  BY <1>1 DEF RecordInv, Inv, Typed, TypeOK, UecmTypeOK, TakenOnce
<1>4. RecordShowsARegisteredAmf'
  BY <1>1 DEF RecordInv, RecordShowsARegisteredAmf
<1> QED
  BY <1>2, <1>3, <1>4 DEF RecordInv

LEMMA NextRecordInv == RecordInv /\ [Next]_vars => RecordInv'
<1> SUFFICES ASSUME RecordInv, [Next]_vars PROVE RecordInv'
  OBVIOUS
<1>0. Inv'
  BY NextInv DEF RecordInv
<1>1. CASE Restart /\ UNCHANGED uecmVars
  BY <1>0, <1>1, RestartKeepsRecords
<1>2. CASE \E r \in Requests : Arrive(r) /\ UNCHANGED uecmVars
  BY <1>0, <1>2, ArriveKeepsRecords
<1>3. CASE \E r \in Requests : Handle(r)
  BY <1>0, <1>3, AmfRegistrationKeepsRecords, AmfUpdateKeepsRecords,
     SmfRegistrationKeepsRecords, SharedKeepsRecords DEF Handle, UecmStep
<1>4. CASE UNCHANGED vars
  <2>1. UNCHANGED <<pc, req, udrAmf, accepted>> /\ AmfRegs' = AmfRegs
    BY <1>4 DEF vars, handlerVars, uecmVars, udrVars, AmfRegs
  <2> QED
    BY <1>0, <2>1 DEF RecordInv, MatchedFirst, PastMatch, OfRegistered, TakenOnce,
                      RecordShowsARegisteredAmf
<1> QED
  BY <1>1, <1>2, <1>3, <1>4 DEF Next

LEMMA RecordInvariance == Spec => []RecordInv
  BY InitRecordInv, NextRecordInv, PTL DEF Spec

-----------------------------------------------------------------------------
(***************************************************************************)
(* The refinement of AmfRegistry: every step of a handler is a step of the *)
(* registry or leaves it alone.                                            *)
(***************************************************************************)

(* The registry's variables, as Registry substitutes them.                 *)
SlotMap == [r \in Requests |-> IF r \in AmfRegs THEN <<req[r].supi, req[r].access>> ELSE None]
TakenRegs == accepted \cap AmfRegs
HolderMap == [k \in Supis \X Accesses |-> udrAmf[k[1]][k[2]].by]
ReplyMap ==
  [r \in Requests |-> IF r \notin AmfRegs \/ answer[r] = "none" THEN "none"
                      ELSE IF answer[r] \in {"created", "noContent"} THEN "ok"
                      ELSE "failed"]

SameHolders == \A s \in Supis, a \in Accesses : udrAmf'[s][a].by = udrAmf[s][a].by

LEMMA RegistryIsSubstituted ==
  Registry!registryVars = <<SlotMap, TakenRegs, HolderMap, NotifiedRegs, ReplyMap>>
  BY DEF Registry!registryVars, SlotMap, TakenRegs, HolderMap, ReplyMap

LEMMA SlotsKept ==
  ASSUME SameRequests
  PROVE  SlotMap' = SlotMap /\ AmfRegs' = AmfRegs
<1>1. AmfRegs' = AmfRegs /\ \A r \in AmfRegs : req'[r].supi = req[r].supi /\ req'[r].access = req[r].access
  BY SameFields DEF AmfRegs
<1> QED
  BY <1>1 DEF SlotMap

LEMMA HoldersKept ==
  ASSUME SameHolders
  PROVE  HolderMap' = HolderMap
  BY DEF SameHolders, HolderMap

LEMMA RepliesKept ==
  ASSUME SameRequests, \A q \in AmfRegs : answer'[q] = answer[q]
  PROVE  ReplyMap' = ReplyMap
  BY SlotsKept DEF ReplyMap, AmfRegs

(* A step that takes no slot, tells no AMF and answers no registration.    *)
LEMMA RegistryStutters ==
  ASSUME SameRequests, SameHolders, TakenRegs' = TakenRegs, UNCHANGED notified,
         \A q \in AmfRegs : answer'[q] = answer[q]
  PROVE  UNCHANGED Registry!registryVars
<1>1. NotifiedRegs' = NotifiedRegs
  BY DEF NotifiedRegs
<1> QED
  BY <1>1, SlotsKept, HoldersKept, RepliesKept
  DEF Registry!registryVars, SlotMap, TakenRegs, HolderMap, ReplyMap

LEMMA PendingRegistration ==
  ASSUME Inv, NEW r \in AmfRegs, pc[r] \notin {"idle", "done"}
  PROVE  /\ SlotMap[r] = <<req[r].supi, req[r].access>>
         /\ SlotMap[r] \in Supis \X Accesses
         /\ ReplyMap[r] = "none"
         /\ Registry!Pending(r)
<1>1. r \in Requests /\ req[r].supi \in Supis /\ req[r].access \in Accesses /\ answer[r] = "none"
  BY RequestTyped DEF Inv, Answered, AmfRegs
<1>2. /\ SlotMap[r] = <<req[r].supi, req[r].access>>
      /\ SlotMap[r] \in Supis \X Accesses
      /\ ReplyMap[r] = "none"
  BY <1>1 DEF SlotMap, ReplyMap
<1>3. SlotMap[r] # None
  BY <1>2, UecmAssumption
<1> QED
  BY <1>2, <1>3 DEF Registry!Pending, SlotMap, ReplyMap

(* The registrations in lost are answered without success.                 *)
LEMMA RegistryFails ==
  ASSUME Inv, SameRequests, SameHolders, TakenRegs' = TakenRegs, UNCHANGED notified,
         NEW lost \in SUBSET AmfRegs,
         \A q \in lost : /\ pc[q] \notin {"idle", "done"}
                         /\ answer'[q] \in {"problem", "crash"},
         \A q \in AmfRegs \ lost : answer'[q] = answer[q]
  PROVE  Registry!RegistryNext
<1>1. NotifiedRegs' = NotifiedRegs /\ lost \in SUBSET Requests
  BY DEF NotifiedRegs, AmfRegs
<1>2. ReplyMap' = [r \in Requests |-> IF r \in lost THEN "failed" ELSE ReplyMap[r]]
  BY SlotsKept DEF ReplyMap
<1>3. \A q \in lost : Registry!Pending(q)
  BY PendingRegistration
<1>4. Registry!Fail(lost)
  BY <1>1, <1>2, <1>3, SlotsKept, HoldersKept
  DEF Registry!Fail, SlotMap, TakenRegs, HolderMap, ReplyMap
<1> QED
  BY <1>1, <1>4 DEF Registry!RegistryNext

LEMMA RegistrySucceeds ==
  ASSUME Inv, SameRequests, SameHolders, TakenRegs' = TakenRegs, UNCHANGED notified,
         NEW r \in AmfRegs, r \in accepted, pc[r] \notin {"idle", "done"},
         NEW c \in {"created", "noContent"}, answer' = [answer EXCEPT ![r] = c]
  PROVE  Registry!RegistryNext
<1>1. NotifiedRegs' = NotifiedRegs /\ r \in Requests /\ answer \in [Requests -> Answers]
  BY DEF NotifiedRegs, AmfRegs, Inv, Typed, TypeOK, HandlerTypeOK
<1>2. ReplyMap' = [ReplyMap EXCEPT ![r] = "ok"]
  BY <1>1, SlotsKept DEF ReplyMap
<1>3. Registry!Succeed(r)
  BY <1>1, <1>2, SlotsKept, HoldersKept, PendingRegistration
  DEF Registry!Succeed, SlotMap, TakenRegs, HolderMap, ReplyMap
<1> QED
  BY <1>1, <1>3 DEF Registry!RegistryNext

(* The write at the UDR takes the slot.                                    *)
LEMMA CommitTakes ==
  ASSUME RecordInv, SameRequests, NEW r \in AmfRegs, pc[r] = "udr", CommitAmf(r), UNCHANGED notified,
         answer' = answer \/ answer' = [answer EXCEPT ![r] = "crash"]
  PROVE  Registry!RegistryNext
<1>1. /\ NotifiedRegs' = NotifiedRegs /\ r \in Requests /\ answer \in [Requests -> Answers]
      /\ udrAmf \in [Supis -> [Accesses -> AmfRecord]]
      /\ req[r].supi \in Supis /\ req[r].access \in Accesses
  BY RequestTyped DEF NotifiedRegs, AmfRegs, RecordInv, Inv, Typed, TypeOK, HandlerTypeOK, UecmTypeOK
<1>2. /\ SlotMap[r] = <<req[r].supi, req[r].access>>
      /\ ReplyMap[r] = "none"
      /\ Registry!Pending(r)
  BY PendingRegistration DEF RecordInv
<1>3. r \notin TakenRegs /\ TakenRegs' = TakenRegs \cup {r}
  BY SlotsKept DEF RecordInv, TakenOnce, TakenRegs, CommitAmf
<1>4. HolderMap' = [HolderMap EXCEPT ![SlotMap[r]] = r]
  <2>1. ASSUME NEW k \in Supis \X Accesses
        PROVE  HolderMap'[k] = IF k = <<req[r].supi, req[r].access>> THEN r ELSE HolderMap[k]
    <3>1. k[1] \in Supis /\ k[2] \in Accesses /\ k = <<k[1], k[2]>>
      OBVIOUS
    <3>2. udrAmf'[k[1]][k[2]].by =
            IF k[1] = req[r].supi /\ k[2] = req[r].access THEN r ELSE udrAmf[k[1]][k[2]].by
      BY <1>1, <3>1 DEF CommitAmf
    <3> QED
      BY <3>1, <3>2 DEF HolderMap
  <2> QED
    BY <1>2, <2>1 DEF HolderMap
<1>5. ReplyMap' \in {ReplyMap, [ReplyMap EXCEPT ![r] = "failed"]}
  <2>1. CASE answer' = answer
    BY <2>1, RepliesKept
  <2>2. CASE answer' = [answer EXCEPT ![r] = "crash"]
    BY <1>1, <2>2, SlotsKept DEF ReplyMap
  <2> QED
    BY <2>1, <2>2
<1>6. Registry!Take(r)
  BY <1>1, <1>2, <1>3, <1>4, <1>5, SlotsKept
  DEF Registry!Take, SlotMap, TakenRegs, HolderMap, ReplyMap
<1> QED
  BY <1>1, <1>6 DEF Registry!RegistryNext

(* Of the registrations for an access that the UDR took, one is left whose *)
(* AMF was not told because of it: the one that none of the others read.   *)
SomeRegistrationStays ==
  \A s \in Supis, a \in Accesses :
    AcceptedFor(s, a) # {} => ~ (AcceptedFor(s, a) \subseteq NotifiedRegs)

LEMMA InvSomeRegistrationStays ==
  ASSUME Inv
  PROVE  SomeRegistrationStays
<1> SUFFICES ASSUME NEW s \in Supis, NEW a \in Accesses, AcceptedFor(s, a) # {},
                    AcceptedFor(s, a) \subseteq NotifiedRegs
             PROVE  FALSE
  BY DEF SomeRegistrationStays
<1>1. AcceptedFor(s, a) \in SUBSET AmfRegs
  BY DEF AcceptedFor
<1>2. PICK m \in AcceptedFor(s, a) : \A q \in AcceptedFor(s, a) : before[q] # m
  BY <1>1 DEF Inv, ReadsAcyclic
<1>3. PICK q \in Requests : notified[q] = m
  BY <1>2 DEF NotifiedRegs
<1>4. m # None /\ req[m].supi = s /\ req[m].access = a
  BY <1>2, NoneAssumption DEF AcceptedFor, AmfRegs
<1>5. q \in AmfRegs /\ q \in accepted /\ before[q] = m
  BY <1>3, <1>4 DEF Inv, ToldWasRead
<1>6. req[q].supi = s /\ req[q].access = a
  BY <1>4, <1>5 DEF Inv, ReadFits
<1>7. q \in AcceptedFor(s, a)
  BY <1>5, <1>6 DEF AcceptedFor
<1> QED
  BY <1>2, <1>5, <1>7

LEMMA NotifyTells ==
  ASSUME Inv, Inv', NEW r \in Requests, NotifyOldAmf(r)
  PROVE  Registry!RegistryNext
<1> DEFINE o == before[r]
           s == req[r].supi
           a == req[r].access
<1>1. /\ r \in AmfRegs /\ r \in accepted /\ o # None /\ pc[r] = "respond"
      /\ UNCHANGED <<req, answer, udrAmf, accepted>> /\ SameRequests /\ SameHolders
  BY UnchangedRequests
  DEF NotifyOldAmf, At, AmfRegs, Inv, Typed, HasRequest, AcceptedFirst, udrVars, SameHolders
<1>2. /\ o \in AmfRegs /\ req[o].supi = s /\ req[o].access = a
      /\ s \in Supis /\ a \in Accesses
  BY <1>1, RequestTyped DEF Inv, ReadFits
<1>3. o # r
  <2>1. {r} \in SUBSET AmfRegs /\ {r} # {}
    BY <1>1
  <2> QED
    BY <2>1 DEF Inv, ReadsAcyclic
<1>4. NotifiedRegs' = NotifiedRegs \cup {o}
  <2>1. notified[r] = None
    BY <1>1 DEF Inv, ToldWasRead
  <2>2. \A q \in Requests : notified'[q] = IF q = r THEN o ELSE notified[q]
    BY DEF NotifyOldAmf, Inv, Typed, TypeOK, UecmTypeOK
  <2> QED
    BY <1>1, <2>1, <2>2 DEF NotifiedRegs
<1>5. /\ SlotMap' = SlotMap /\ AmfRegs' = AmfRegs /\ TakenRegs' = TakenRegs
      /\ HolderMap' = HolderMap /\ ReplyMap' = ReplyMap
  BY <1>1, SlotsKept, HoldersKept, RepliesKept DEF TakenRegs
<1>6. /\ SlotMap[r] = <<s, a>> /\ SlotMap[o] = SlotMap[r] /\ Registry!Pending(r)
      /\ o \in Requests /\ r \in TakenRegs
  BY <1>1, <1>2, PendingRegistration DEF SlotMap, AmfRegs, TakenRegs
<1>7. ~ ({q \in TakenRegs : SlotMap[q] = SlotMap[r]} \subseteq NotifiedRegs')
  <2>1. SomeRegistrationStays'
    BY InvSomeRegistrationStays, PTL
  <2>2. PICK t \in Supis, b \in Accesses : t = s /\ b = a
    BY <1>2
  <2>3. AcceptedFor(t, b)' = {q \in TakenRegs : SlotMap[q] = SlotMap[r]}
    BY <1>1, <1>2, <1>5, <1>6, <2>2 DEF AcceptedFor, TakenRegs, SlotMap, AmfRegs
  <2>4. r \in {q \in TakenRegs : SlotMap[q] = SlotMap[r]}
    BY <1>6
  <2>5. ~ (AcceptedFor(t, b)' \subseteq NotifiedRegs')
    BY <2>1, <2>3, <2>4 DEF SomeRegistrationStays
  <2> QED
    BY <2>3, <2>5
<1>8. Registry!Tell(r, o)
  BY <1>3, <1>4, <1>5, <1>6, <1>7
  DEF Registry!Tell, Registry!Takers, SlotMap, TakenRegs, HolderMap, ReplyMap
<1> QED
  BY <1>1, <1>6, <1>8 DEF Registry!RegistryNext

(* A registration arrives.                                                 *)
LEMMA ArriveOpens ==
  ASSUME RecordInv, NEW r \in Requests, Arrive(r), UNCHANGED uecmVars
  PROVE  Registry!RegistryNext \/ UNCHANGED Registry!registryVars
<1>1. PICK b \in Bodies : req' = [req EXCEPT ![r] = b]
  BY DEF Arrive
<1>2. /\ b \in Body /\ b # None /\ b.supi \in Supis /\ b.access \in Accesses
      /\ req'[r] = b /\ \A q \in Requests \ {r} : req'[q] = req[q]
  BY <1>1, BodyAssumption DEF Bodies, Body, RecordInv, Inv, Typed, TypeOK, HandlerTypeOK
<1>3. /\ r \notin AmfRegs /\ r \notin accepted /\ answer[r] = "none"
      /\ UNCHANGED <<answer, udrAmf, accepted, notified>>
  BY DEF Arrive, uecmVars, udrVars, RecordInv, Inv, Typed, HasRequest, AmfRegs, TakenOnce, Answered
<1>4. TakenRegs' = TakenRegs /\ HolderMap' = HolderMap /\ NotifiedRegs' = NotifiedRegs
  BY <1>2, <1>3 DEF TakenRegs, AmfRegs, HolderMap, NotifiedRegs
<1>5. ReplyMap' = ReplyMap
  BY <1>2, <1>3 DEF ReplyMap, AmfRegs
<1>6. CASE b.kind = "amfReg"
  <2>1. AmfRegs' = AmfRegs \cup {r}
    BY <1>2, <1>3, <1>6 DEF AmfRegs
  <2>2. SlotMap' = [SlotMap EXCEPT ![r] = <<b.supi, b.access>>]
    BY <1>2, <2>1 DEF SlotMap, AmfRegs
  <2>3. SlotMap[r] = None /\ ReplyMap[r] = "none" /\ <<b.supi, b.access>> \in Supis \X Accesses
    BY <1>2, <1>3 DEF SlotMap, ReplyMap
  <2>4. Registry!Open(r)
    BY <1>4, <1>5, <2>2, <2>3
    DEF Registry!Open, SlotMap, TakenRegs, HolderMap, ReplyMap
  <2> QED
    BY <2>4 DEF Registry!RegistryNext
<1>7. CASE b.kind # "amfReg"
  <2>1. AmfRegs' = AmfRegs
    BY <1>2, <1>3, <1>7 DEF AmfRegs
  <2>2. SlotMap' = SlotMap
    BY <1>2, <1>3, <2>1 DEF SlotMap
  <2> QED
    BY <1>4, <1>5, <2>2, RegistryIsSubstituted
    DEF Registry!registryVars, SlotMap, TakenRegs, HolderMap, ReplyMap
<1> QED
  BY <1>6, <1>7

LEMMA RestartFails ==
  ASSUME Inv, Restart, UNCHANGED uecmVars
  PROVE  Registry!RegistryNext
<1> DEFINE lost == Serving \cap AmfRegs
<1>1. /\ SameRequests /\ SameHolders /\ TakenRegs' = TakenRegs /\ UNCHANGED notified
  BY UnchangedRequests DEF Restart, uecmVars, udrVars, SameHolders, TakenRegs, AmfRegs
<1>2. /\ lost \in SUBSET AmfRegs
      /\ \A q \in lost : pc[q] \notin {"idle", "done"} /\ answer'[q] \in {"problem", "crash"}
      /\ \A q \in AmfRegs \ lost : answer'[q] = answer[q]
  BY DEF Restart, Serving, AmfRegs
<1> QED
  BY <1>1, <1>2, RegistryFails

(* A registration that changes nothing at the UDR and tells no AMF either  *)
(* goes on or fails.                                                       *)
LEMMA FailsOrStutters ==
  ASSUME Inv, NEW r \in Requests, pc[r] \notin {"idle", "done"},
         UNCHANGED <<req, udrAmf, accepted, notified>>,
         \/ UNCHANGED answer
         \/ \E c \in {"problem", "crash"} : answer' = [answer EXCEPT ![r] = c]
  PROVE  Registry!RegistryNext \/ UNCHANGED Registry!registryVars
<1>1. /\ SameRequests /\ SameHolders /\ TakenRegs' = TakenRegs
      /\ answer \in [Requests -> Answers]
  BY UnchangedRequests DEF SameHolders, TakenRegs, AmfRegs, Inv, Typed, TypeOK, HandlerTypeOK
<1>2. CASE r \in AmfRegs /\ answer' # answer
  BY <1>1, <1>2, RegistryFails, {r} \in SUBSET AmfRegs DEF AmfRegs
<1>3. CASE r \notin AmfRegs \/ answer' = answer
  <2>1. \A q \in AmfRegs : answer'[q] = answer[q]
    BY <1>1, <1>3 DEF AmfRegs
  <2> QED
    BY <1>1, <2>1, RegistryStutters
<1> QED
  BY <1>2, <1>3

LEMMA AmfRegistrationRefines ==
  ASSUME RecordInv, Inv', NEW r \in Requests, AmfRegistration(r)
  PROVE  Registry!RegistryNext \/ UNCHANGED Registry!registryVars
<1>0. Inv /\ UNCHANGED req /\ SameRequests /\ r \in AmfRegs /\ pc[r] \notin {"idle", "done"}
  <2>1. UNCHANGED req /\ req[r].kind = "amfReg" /\ pc[r] \notin {"idle", "done"}
    BY DEF AmfRegistration, ReadOldRegistration, CreateAmfRegContext, UdrCreateAmf,
           NotifyOldAmf, AnswerReplaced, AnswerCreated, At
  <2> QED
    BY <2>1, UnchangedRequests DEF RecordInv, Inv, Typed, HasRequest, AmfRegs
<1>1. CASE ReadOldRegistration(r)
  BY <1>0, <1>1, FailsOrStutters DEF ReadOldRegistration, udrVars
<1>2. CASE CreateAmfRegContext(r)
  BY <1>0, <1>2, FailsOrStutters DEF CreateAmfRegContext, udrVars
<1>3. CASE UdrCreateAmf(r)
  <2>1. CASE UdrRefuses(r)
    BY <1>0, <1>3, <2>1, FailsOrStutters DEF UdrCreateAmf, UdrRefuses, UdrFails, Reply, udrVars
  <2>2. CASE CommitAmf(r) /\ (answer' = answer \/ answer' = [answer EXCEPT ![r] = "crash"])
    <3>1. pc[r] = "udr" /\ UNCHANGED notified
      BY <1>3 DEF UdrCreateAmf, At
    <3> QED
      BY <1>0, <2>2, <3>1, CommitTakes
  <2> QED
    BY <1>3, <2>1, <2>2 DEF UdrCreateAmf, Reply
<1>4. CASE NotifyOldAmf(r)
  BY <1>0, <1>4, NotifyTells
<1>5. CASE AnswerReplaced(r) \/ (AnswerCreated(r) /\ answer' = [answer EXCEPT ![r] = "created"])
  <2>1. /\ UNCHANGED <<udrAmf, accepted, notified>> /\ pc[r] \in {"respond", "answer"}
        /\ \E c \in {"created", "noContent"} : answer' = [answer EXCEPT ![r] = c]
    BY <1>5 DEF AnswerReplaced, AnswerCreated, At, Reply, udrVars
  <2>2. r \in accepted /\ SameHolders /\ TakenRegs' = TakenRegs
    BY <1>0, <2>1 DEF Inv, AcceptedFirst, SameHolders, TakenRegs, AmfRegs
  <2> QED
    BY <1>0, <2>1, <2>2, RegistrySucceeds
<1>6. CASE AnswerCreated(r) /\ answer' = [answer EXCEPT ![r] = "crash"]
  BY <1>0, <1>6, FailsOrStutters DEF AnswerCreated, udrVars
<1> QED
  BY <1>1, <1>2, <1>3, <1>4, <1>5, <1>6 DEF AmfRegistration, AnswerCreated, Reply

(* An update, a read or an SMF registration leaves the registry alone.     *)
LEMMA OthersStutter ==
  ASSUME Inv, NEW r \in Requests, AmfUpdate(r) \/ SmfRegistration(r)
  PROVE  UNCHANGED Registry!registryVars
<1>0. r \notin AmfRegs /\ pc[r] # "idle" /\ UNCHANGED notified
  BY DEF AmfUpdate, FindCurrentContext, CheckGuami, UdrPatchAmf, UdrReadAmf, SmfRegistration,
         ReadPduSessionID, TestPduSessionID, CreateSmfRegContext, AuthorizeSmf, UdrCreateSmf,
         AnswerSmf, UdrDeleteSmf, At, AmfRegs
<1>1. SameRequests
  <2>1. CASE CheckGuami(r)
    BY <1>0, <2>1, UnchangedRequests, PurgeIsAllThatChanges DEF CheckGuami
  <2>2. CASE ~ CheckGuami(r)
    <3>1. UNCHANGED req
      BY <2>2
      DEF AmfUpdate, FindCurrentContext, UdrPatchAmf, UdrReadAmf, SmfRegistration,
          ReadPduSessionID, TestPduSessionID, CreateSmfRegContext, AuthorizeSmf, UdrCreateSmf,
          AnswerSmf, UdrDeleteSmf
    <3> QED
      BY <3>1, UnchangedRequests
  <2> QED
    BY <2>1, <2>2
<1>2. UNCHANGED answer \/ \E c \in Answers : answer' = [answer EXCEPT ![r] = c]
  BY DEF AmfUpdate, FindCurrentContext, CheckGuami, UdrPatchAmf, UdrReadAmf, UdrRefuses, UdrFails,
         SmfRegistration, ReadPduSessionID, TestPduSessionID, CreateSmfRegContext, AuthorizeSmf,
         UdrCreateSmf, AnswerSmf, UdrDeleteSmf, Reply, Answers
<1>3. \A q \in AmfRegs : answer'[q] = answer[q]
  BY <1>0, <1>2 DEF AmfRegs, Inv, Typed, TypeOK, HandlerTypeOK
<1>4. accepted' = accepted \/ accepted' = accepted \cup {r}
  BY DEF AmfUpdate, FindCurrentContext, CheckGuami, UdrPatchAmf, UdrReadAmf, UdrRefuses, PatchAmf,
         SmfRegistration, ReadPduSessionID, TestPduSessionID, CreateSmfRegContext, AuthorizeSmf,
         UdrCreateSmf, CommitSmf, AnswerSmf, UdrDeleteSmf, udrVars
<1>5. TakenRegs' = TakenRegs
  BY <1>0, <1>1, <1>4, SlotsKept DEF TakenRegs
<1>6. SameHolders
  <2>1. CASE UNCHANGED udrAmf
    BY <2>1 DEF SameHolders
  <2>2. CASE PatchAmf(r)
    BY <1>0, <2>2, PatchedRecord DEF SameHolders, Inv
  <2> QED
    BY <2>1, <2>2
    DEF AmfUpdate, FindCurrentContext, CheckGuami, UdrPatchAmf, UdrReadAmf, UdrRefuses,
        SmfRegistration, ReadPduSessionID, TestPduSessionID, CreateSmfRegContext, AuthorizeSmf,
        UdrCreateSmf, CommitSmf, AnswerSmf, UdrDeleteSmf, udrVars
<1> QED
  BY <1>0, <1>1, <1>3, <1>5, <1>6, RegistryStutters

LEMMA SharedRefines ==
  ASSUME Inv, NEW r \in Requests, SharedStep(r), UNCHANGED uecmVars
  PROVE  Registry!RegistryNext \/ UNCHANGED Registry!registryVars
<1>1. /\ pc[r] \notin {"idle", "done"} /\ UNCHANGED <<req, udrAmf, accepted, notified>>
      /\ UNCHANGED answer \/ answer' = [answer EXCEPT ![r] = "problem"]
  BY DEF SharedStep, FindUe, CreateUe, GetUdrUriFind, GetUdrUriCreate, Discover, Reply, At,
         uecmVars, udrVars
<1> QED
  BY <1>1, FailsOrStutters

LEMMA InitRefines == Init => Registry!RegistryInit
<1> SUFFICES ASSUME Init PROVE Registry!RegistryInit
  OBVIOUS
<1>1. /\ AmfRegs = {} /\ accepted = {} /\ \A r \in Requests : notified[r] = None
      /\ \A s \in Supis, a \in Accesses : udrAmf[s][a].by = None
  BY DEF Init, HandlerInit, UecmInit, AmfRegs, NoAmfRecord
<1>2. \A k \in Supis \X Accesses : udrAmf[k[1]][k[2]].by = None
  BY <1>1
<1> QED
  BY <1>1, <1>2 DEF Registry!RegistryInit, NotifiedRegs

LEMMA NextRefines ==
  RecordInv /\ [Next]_vars => [Registry!RegistryNext]_Registry!registryVars
<1> SUFFICES ASSUME RecordInv, [Next]_vars
             PROVE  Registry!RegistryNext \/ UNCHANGED Registry!registryVars
  OBVIOUS
<1>0. Inv /\ Inv'
  BY NextInv DEF RecordInv
<1>1. CASE Restart /\ UNCHANGED uecmVars
  BY <1>0, <1>1, RestartFails
<1>2. CASE \E r \in Requests : Arrive(r) /\ UNCHANGED uecmVars
  BY <1>2, ArriveOpens
<1>3. CASE \E r \in Requests : Handle(r)
  BY <1>0, <1>3, AmfRegistrationRefines, OthersStutter, SharedRefines DEF Handle, UecmStep
<1>4. CASE UNCHANGED vars
  <2>1. /\ UNCHANGED <<req, answer, udrAmf, accepted, notified>> /\ SameHolders
        /\ TakenRegs' = TakenRegs
    BY <1>4 DEF vars, handlerVars, uecmVars, udrVars, SameHolders, TakenRegs, AmfRegs
  <2> QED
    BY <2>1, UnchangedRequests, RegistryStutters
<1> QED
  BY <1>1, <1>2, <1>3, <1>4 DEF Next

-----------------------------------------------------------------------------
(***************************************************************************)
(* The theorems.                                                           *)
(***************************************************************************)

(* What the invariant says of the properties.                              *)
LEMMA InvSafety ==
  ASSUME Inv
  PROVE  /\ SuccessOnlyIfAccepted
         /\ NotifiedHeldTheAccess
         /\ NoMutualDeregistration
         /\ SomeAmfStays
         /\ LocationFindsContext
         /\ ContextHoldsItsOwn
<1>1. SuccessOnlyIfAccepted
  BY DEF Inv, AcceptedFirst, SuccessOnlyIfAccepted
<1>2. NotifiedHeldTheAccess
  <2> SUFFICES ASSUME NEW r \in Requests, notified[r] # None
               PROVE  /\ r \in accepted
                      /\ notified[r] \in AmfRegs \ {r}
                      /\ req[notified[r]].supi = req[r].supi
                      /\ req[notified[r]].access = req[r].access
    BY DEF NotifiedHeldTheAccess
  <2>1. r \in AmfRegs /\ r \in accepted /\ notified[r] = before[r]
    BY DEF Inv, ToldWasRead
  <2>2. /\ before[r] \in AmfRegs
        /\ req[before[r]].supi = req[r].supi
        /\ req[before[r]].access = req[r].access
    BY <2>1 DEF Inv, ReadFits
  <2>3. before[r] # r
    <3>1. {r} \in SUBSET AmfRegs /\ {r} # {}
      BY <2>1
    <3> QED
      BY <3>1 DEF Inv, ReadsAcyclic
  <2> QED
    BY <2>1, <2>2, <2>3
<1>3. NoMutualDeregistration
  <2> SUFFICES ASSUME NEW r \in Requests, NEW o \in Requests,
                      notified[r] = o, notified[o] = r
               PROVE  FALSE
    BY DEF NoMutualDeregistration
  <2>1. r \in AmfRegs /\ o \in AmfRegs /\ before[r] = o /\ before[o] = r
    BY NoneAssumption DEF Inv, ToldWasRead
  <2>2. {r, o} \in SUBSET AmfRegs /\ {r, o} # {}
    BY <2>1
  <2>3. \E m \in {r, o} : \A q \in {r, o} : before[q] # m
    BY <2>2 DEF Inv, ReadsAcyclic
  <2> QED
    BY <2>1, <2>3
<1>4. LocationFindsContext
  BY DEF Inv, ContextInPool, LocationFindsContext
<1>5. ContextHoldsItsOwn
  <2> SUFFICES ASSUME NEW s \in Supis, NEW a \in Accesses, GetAmfRegContext(s, a) # None
               PROVE  LET o == GetAmfRegContext(s, a)
                      IN  o \in AmfRegs /\ req[o].supi = s /\ req[o].access = a
    BY DEF ContextHoldsItsOwn, Inv
  <2>1. /\ pool[s] \in Objects /\ GetAmfRegContext(s, a) = heap[pool[s]].amf[a]
        /\ GetAmfRegContext(s, a) \in Requests
    BY LookUpTyped DEF GetAmfRegContext, UdmUeFindBySupi, Inv, Typed
  <2>2. heap[pool[s]].supi = s
    BY <2>1, NoneAssumption DEF Inv, FiledUnderItsSupi
  <2> QED
    BY <2>1, <2>2 DEF Inv, StoredFits
<1>6. SomeAmfStays
  <2> SUFFICES ASSUME NEW s \in Supis, NEW a \in Accesses,
                      AcceptedFor(s, a) # {}, RegistersOnce(s, a)
               PROVE  \E r \in AcceptedFor(s, a) : req[r].amf \notin NotifiedAmfs(s, a)
    BY DEF SomeAmfStays
  <2>1. PICK r \in AcceptedFor(s, a) : r \notin NotifiedRegs
    BY InvSomeRegistrationStays DEF SomeRegistrationStays
  <2>2. r \in SlotRegs(s, a)
    BY DEF AcceptedFor, SlotRegs
  <2>3. ASSUME NEW o \in NotifiedRegs \cap SlotRegs(s, a), req[o].amf = req[r].amf
        PROVE  FALSE
    BY <2>1, <2>2, <2>3 DEF RegistersOnce
  <2> QED
    BY <2>1, <2>3 DEF NotifiedAmfs
<1> QED
  BY <1>1, <1>2, <1>3, <1>4, <1>5, <1>6

(* Success is only answered for a write the UDR carried out.               *)
THEOREM SuccessIsAccepted == Spec => []SuccessOnlyIfAccepted
  BY Invariance, InvSafety, PTL

(* A deregistration notification is for the slot of a registration that    *)
(* the UDR took, and never for that registration itself.                   *)
THEOREM NotificationIsForTheSlot == Spec => []NotifiedHeldTheAccess
  BY Invariance, InvSafety, PTL

(* No two registrations have each other's AMF told to deregister.          *)
THEOREM NotificationsAreOneWay == Spec => []NoMutualDeregistration
  BY Invariance, InvSafety, PTL

(* Of the AMFs whose registration for an access the UDR took, one is left  *)
(* that has not been told to deregister, if no AMF registers twice for the *)
(* access: the one whose registration none of the others has read.  An AMF *)
(* that registers again is told because of its own new registration.       *)
THEOREM AnAmfStays == Spec => []SomeAmfStays
  BY Invariance, InvSafety, PTL

(* A handler that builds a Location header finds the UE's context.         *)
THEOREM LocationIsSafe == Spec => []LocationFindsContext
  BY Invariance, InvSafety, PTL

(* A context holds its own SUPI and registrations made for it.             *)
THEOREM ContextsAreNotMixedUp == Spec => []ContextHoldsItsOwn
  BY Invariance, InvSafety, PTL

(* However updates race with registrations, the UDR's record of an access  *)
(* shows the GUAMI of a registration received for that access.             *)
THEOREM RecordIsOfARegisteredAmf == Spec => []RecordShowsARegisteredAmf
<1>1. RecordInv => RecordShowsARegisteredAmf
  BY DEF RecordInv
<1> QED
  BY RecordInvariance, <1>1, PTL

(* However the handlers interleave, fail or are lost, they implement the   *)
(* registry: each registration takes its slot at most once, success means  *)
(* that it did, and not every registration that took a slot is told.       *)
THEOREM HandlersImplementTheRegistry == Spec => ImplementsRegistry
  BY RecordInvariance, InitRefines, NextRefines, PTL
  DEF Spec, ImplementsRegistry, Registry!RegistrySpec

-----------------------------------------------------------------------------
(***************************************************************************)
(* Requests one at a time, and no failures: what the handlers promise when *)
(* nothing races.                                                          *)
(***************************************************************************)

(* The bounds of such a run.                                               *)
OneAtATime ==
  /\ InFlight = 1 /\ IsFiniteSet(Requests)
  /\ ~ Faults
  /\ MaxRestarts = 0

HolderOf(r) == udrAmf[req[r].supi][req[r].access].by

(* Its registration is in memory, and the UDR does not have it yet.        *)
MemoryAhead(r) == r \in AmfRegs /\ pc[r] \in {"client", "clientNew", "discover", "udr"}

OneServed == \A r, o \in Serving : r = o

(* What the one handler knows: its look-ups are still true, ...            *)
LookUpsHold(r) ==
  /\ pc[r] \in {"new", "clientNew"} => pool[req[r].supi] = None
  /\ pc[r] \in {"write", "setPdu"} => ue[r] = pool[req[r].supi] /\ ue[r] # None
  /\ pc[r] \in {"client", "clientNew"} /\ req[r].kind \in {"amfReg", "smfReg"} => pool[req[r].supi] # None

(* ... the old registration is the one at the UDR, ...                     *)
OldIsTheHolder(r) ==
  /\ r \in AmfRegs /\ pc[r] \in {"find", "new", "write"} => before[r] = HolderOf(r)
  /\ MemoryAhead(r) => before[r] = HolderOf(r) /\ GetAmfRegContext(req[r].supi, req[r].access) = r

(* ... an update that passed the match is for the holder, ...              *)
MatchedTheHolder(r) ==
  PastMatch(r) => HolderOf(r) # None /\ req[HolderOf(r)].amf = req[r].amf

(* ... and a first PDU session is the one that gets stored.                *)
FirstSession(r) ==
  req[r].kind = "smfReg" /\ before[r] = None =>
    /\ pc[r] \in {"find", "new", "write"} => GetPduSessionID(req[r].supi) = None
    /\ pc[r] \in {"client", "clientNew", "discover", "query", "udr", "respond"} =>
         GetPduSessionID(req[r].supi) = req[r].pdu

InHand(r) == LookUpsHold(r) /\ OldIsTheHolder(r) /\ MatchedTheHolder(r) /\ FirstSession(r)

(* Memory differs from the UDR only where a registration is on its way.    *)
MemoryFollows ==
  \A s \in Supis, a \in Accesses :
    \/ GetAmfRegContext(s, a) = udrAmf[s][a].by
    \/ \E r \in Requests : MemoryAhead(r) /\ GetAmfRegContext(s, a) = r

(* An AMF that is superseded has been told, or is about to be.             *)
SupersededIsTold ==
  \A s \in Supis, a \in Accesses :
    \A o \in AcceptedFor(s, a) \ {udrAmf[s][a].by} :
      o \in NotifiedRegs \/ \E r \in AmfRegs : pc[r] = "respond" /\ before[r] = o

LocatedSession ==
  \A r \in Requests : location[r] # None => pc[r] # "idle" /\ location[r] = req[r].pdu

SerialInv ==
  /\ RecordInv
  /\ OneServed
  /\ \A r \in Serving : InHand(r)
  /\ MemoryFollows
  /\ SupersededIsTold
  /\ RecordShowsItsAmf
  /\ LocatedSession

LEMMA InitSerialInv == Init => SerialInv
<1> SUFFICES ASSUME Init PROVE SerialInv
  OBVIOUS
<1>1. RecordInv
  BY InitRecordInv
<1>2. /\ \A r \in Requests : pc[r] = "idle" /\ location[r] = None
      /\ accepted = {} /\ pool = [s \in Supis |-> None]
      /\ \A s \in Supis, a \in Accesses : udrAmf[s][a].by = None
  BY DEF Init, HandlerInit, UeInit, UecmInit, NoAmfRecord
<1>3. \A s \in Supis, a \in Accesses : GetAmfRegContext(s, a) = None
  BY <1>2 DEF GetAmfRegContext, UdmUeFindBySupi
<1>4. Serving = {}
  BY <1>2 DEF Serving
<1> QED
  BY <1>1, <1>2, <1>3, <1>4
  DEF SerialInv, OneServed, MemoryFollows, SupersededIsTold, AcceptedFor, RecordShowsItsAmf, LocatedSession

(* While r is served, nobody else is.                                      *)
LEMMA OthersAtRest ==
  ASSUME SerialInv, NEW r \in Requests, pc[r] \notin {"idle", "done"}
  PROVE  /\ r \in Serving
         /\ \A q \in Requests \ {r} : pc[q] \in {"idle", "done"}
         /\ InHand(r)
         /\ req[r] # None /\ req[r].supi \in Supis /\ req[r].access \in Accesses
<1>1. r \in Serving /\ \A q \in Requests \ {r} : q \notin Serving
  BY DEF Serving, SerialInv, OneServed
<1>2. Typed
  BY DEF SerialInv, RecordInv, Inv
<1>3. req[r] # None
  BY <1>2 DEF Typed, HasRequest
<1> QED
  BY <1>1, <1>2, <1>3, RequestTyped DEF Serving, SerialInv

(* Unless r's registration is on its way, memory and UDR agree.            *)
LEMMA MemoryIsUdr ==
  ASSUME SerialInv, NEW r \in Requests, pc[r] \notin {"idle", "done"},
         NEW s \in Supis, NEW a \in Accesses, ~ MemoryAhead(r) \/ <<s, a>> # <<req[r].supi, req[r].access>>
  PROVE  GetAmfRegContext(s, a) = udrAmf[s][a].by
<1> SUFFICES ASSUME NEW q \in Requests, MemoryAhead(q), GetAmfRegContext(s, a) = q
             PROVE  FALSE
  BY DEF SerialInv, MemoryFollows
<1>1. q = r
  BY OthersAtRest DEF MemoryAhead
<1>2. req[q].supi = s /\ req[q].access = a
  <2>1. ContextHoldsItsOwn
    BY InvSafety DEF SerialInv, RecordInv
  <2> QED
    BY <2>1, NoneAssumption DEF ContextHoldsItsOwn
<1> QED
  BY <1>1, <1>2

(* What is to be shown of a step of r.                                     *)
LEMMA SerialAfter ==
  ASSUME SerialInv, NEW r \in Requests, pc[r] \notin {"idle", "done"},
         \A q \in Requests \ {r} : pc'[q] = pc[q],
         RecordInv', pc'[r] = "done" \/ InHand(r)',
         MemoryFollows', SupersededIsTold', RecordShowsItsAmf', LocatedSession'
  PROVE  SerialInv'
<1>1. \A q \in Requests \ {r} : pc'[q] \in {"idle", "done"}
  BY OthersAtRest
<1>2. \A q \in Serving' : q = r /\ pc'[r] # "done"
  BY <1>1 DEF Serving
<1> QED
  BY <1>2 DEF SerialInv, OneServed

(* A step that changes neither the registrations in memory nor those at    *)
(* the UDR, nor tells an AMF.                                              *)
SameTables(r) ==
  /\ SameRequests
  /\ \A q \in Requests \ {r} : pc'[q] = pc[q] /\ before'[q] = before[q]
  /\ MemoryAhead(r) => pc'[r] \in {"client", "clientNew", "discover", "udr"}
  /\ r \in AmfRegs => pc[r] # "respond" \/ before[r] = None
  /\ \A s \in Supis, a \in Accesses : GetAmfRegContext(s, a)' = GetAmfRegContext(s, a)
  /\ UNCHANGED <<udrAmf, notified>>
  /\ accepted' = accepted \/ (r \notin AmfRegs /\ accepted' = accepted \cup {r})

LEMMA SameAcceptedFor ==
  ASSUME SerialInv, NEW r \in Requests, SameRequests,
         accepted' = accepted \/ (r \notin AmfRegs /\ accepted' = accepted \cup {r})
  PROVE  \A s \in Supis, a \in Accesses : AcceptedFor(s, a)' = AcceptedFor(s, a)
<1>1. /\ AmfRegs' = AmfRegs
      /\ \A q \in Requests : req'[q].supi = req[q].supi /\ req'[q].access = req[q].access
  BY SameFields
<1>2. accepted' \cap AmfRegs = accepted \cap AmfRegs /\ AmfRegs \subseteq Requests
  BY DEF AmfRegs
<1> QED
  BY <1>1, <1>2 DEF AcceptedFor

LEMMA TablesKept ==
  ASSUME SerialInv, NEW r \in Requests, SameTables(r)
  PROVE  MemoryFollows' /\ SupersededIsTold' /\ RecordShowsItsAmf'
<1>1. /\ AmfRegs' = AmfRegs /\ AmfRegs \subseteq Requests
      /\ \A q \in Requests : req'[q].amf = req[q].amf
      /\ udrAmf' = udrAmf /\ notified' = notified
      /\ NotifiedRegs' = NotifiedRegs
  BY SameFields DEF AmfRegs, SameTables, NotifiedRegs
<1>2. MemoryFollows'
  <2> SUFFICES ASSUME NEW s \in Supis, NEW a \in Accesses
               PROVE  \/ GetAmfRegContext(s, a)' = udrAmf[s][a].by
                      \/ \E q \in Requests : MemoryAhead(q)' /\ GetAmfRegContext(s, a)' = q
    BY <1>1 DEF MemoryFollows
  <2>1. \A q \in Requests : MemoryAhead(q) => MemoryAhead(q)'
    BY <1>1 DEF MemoryAhead, SameTables
  <2> QED
    BY <2>1 DEF SerialInv, MemoryFollows, SameTables
<1>3. SupersededIsTold'
  <2> SUFFICES ASSUME NEW s \in Supis, NEW a \in Accesses,
                      NEW o \in AcceptedFor(s, a) \ {udrAmf[s][a].by}
               PROVE  o \in NotifiedRegs \/ \E q \in AmfRegs : pc'[q] = "respond" /\ before'[q] = o
    BY <1>1, SameAcceptedFor DEF SupersededIsTold, SameTables
  <2>1. o \in NotifiedRegs \/ \E q \in AmfRegs : pc[q] = "respond" /\ before[q] = o
    BY DEF SerialInv, SupersededIsTold
  <2>2. o # None
    BY <1>1, NoneAssumption DEF AcceptedFor
  <2> QED
    BY <1>1, <2>1, <2>2 DEF SameTables
<1>4. RecordShowsItsAmf'
  <2>1. \A s \in Supis, a \in Accesses : udrAmf[s][a].by # None => udrAmf[s][a].by \in Requests
    BY DEF SerialInv, RecordInv, Inv, Typed, TypeOK, UecmTypeOK, AmfRecord
  <2> QED
    BY <1>1, <2>1 DEF SerialInv, RecordShowsItsAmf
<1> QED
  BY <1>2, <1>3, <1>4

(* A new context in an empty place has no registration and no session,     *)
(* either.                                                                 *)
LEMMA NewUeInEmptyPlace ==
  ASSUME Inv, NEW r \in Requests, NEW x \in Sites, req[r] # None, req[r].supi \in Supis,
         pool[req[r].supi] = None, NewUdmUe(<<r, x>>, req[r].supi)
  PROVE  /\ pool'[req[r].supi] = <<r, x>>
         /\ \A s \in Supis : GetPduSessionID(s)' = GetPduSessionID(s)
         /\ \A s \in Supis, a \in Accesses : GetAmfRegContext(s, a)' = GetAmfRegContext(s, a)
<1> DEFINE s == req[r].supi
           o == <<r, x>>
           c == NewContext(s)
<1>1. /\ UeTypeOK /\ o \in Objects /\ c \in UdmUeContext /\ c.supi = s
      /\ c.pdu = None /\ \A a \in Accesses : c.amf[a] = None
  BY NewContextTyped DEF Inv, Typed, TypeOK, HandlerTypeOK, Objects, NewContext
<1>2. StoreUe(o, c)
  BY DEF NewUdmUe
<1> HIDE DEF o, c
<1>3. /\ pool'[s] = o /\ heap'[o] = c
      /\ \A t \in Supis \ {s} : pool'[t] = pool[t]
      /\ \A p \in Objects \ {o} : heap'[p] = heap[p]
  BY <1>1, <1>2, StoredContext
<1>4. \A t \in Supis \ {s} : pool[t] # o
  <2> SUFFICES ASSUME NEW t \in Supis, t # s, pool[t] = o
               PROVE  FALSE
    OBVIOUS
  <2>1. o # None
    BY <1>1, NoneAssumption
  <2>2. heap[o].supi = t /\ t # None
    BY <2>1, NoneAssumption DEF Inv, FiledUnderItsSupi
  <2> QED
    BY <2>2 DEF Inv, ObjectsOwned, o
<1>5. \A t \in Supis \ {s} : pool'[t] = pool[t] /\ (pool[t] # None => heap'[pool[t]] = heap[pool[t]])
  BY <1>1, <1>3, <1>4 DEF UeTypeOK
<1>6. o # None
  BY <1>1, NoneAssumption
<1>7. \A t \in Supis : GetPduSessionID(t)' = GetPduSessionID(t)
  BY <1>1, <1>3, <1>5, <1>6 DEF GetPduSessionID, UdmUeFindBySupi
<1>8. \A t \in Supis, a \in Accesses : GetAmfRegContext(t, a)' = GetAmfRegContext(t, a)
  BY <1>1, <1>3, <1>5, <1>6 DEF GetAmfRegContext, UdmUeFindBySupi
<1> QED
  BY <1>3, <1>7, <1>8 DEF o

(* Where a handler goes on to, and what it leaves alone.                   *)
LEMMA GoesTo ==
  ASSUME SerialInv, NEW r \in Requests, NEW l, Goto(r, l)
  PROVE  pc'[r] = l /\ \A q \in Requests \ {r} : pc'[q] = pc[q]
  BY DEF Goto, SerialInv, RecordInv, Inv, Typed, TypeOK, HandlerTypeOK

LEMMA LocationsKept ==
  ASSUME SerialInv, NEW r \in Requests, pc[r] # "idle", UNCHANGED <<req, location>>,
         NEW l, l # "idle", Goto(r, l)
  PROVE  LocatedSession'
  BY GoesTo DEF SerialInv, LocatedSession

(* A step of r that changes no table, and what r knows afterwards.         *)
LEMMA QuietStepKeepsSerial ==
  ASSUME SerialInv, RecordInv', NEW r \in Requests, pc[r] \notin {"idle", "done"},
         UNCHANGED <<req, location>>, NEW l, l # "idle", Goto(r, l), SameTables(r),
         l = "done" \/ InHand(r)'
  PROVE  SerialInv'
  BY GoesTo, LocationsKept, TablesKept, SerialAfter

(* The contexts and the tables stay, and so does what r has read.          *)
LEMMA SameTablesIf ==
  ASSUME SerialInv, NEW r \in Requests, NEW l, Goto(r, l),
         UNCHANGED <<ueVars, req, before, udrAmf, notified>>,
         accepted' = accepted \/ (r \notin AmfRegs /\ accepted' = accepted \cup {r}),
         MemoryAhead(r) => l \in {"client", "clientNew", "discover", "udr"},
         r \in AmfRegs => pc[r] # "respond" \/ before[r] = None
  PROVE  /\ SameTables(r)
         /\ \A s \in Supis : GetPduSessionID(s)' = GetPduSessionID(s)
<1>1. \A s \in Supis, a \in Accesses : GetAmfRegContext(s, a)' = GetAmfRegContext(s, a)
  BY DEF GetAmfRegContext, UdmUeFindBySupi, ueVars
<1>2. \A s \in Supis : GetPduSessionID(s)' = GetPduSessionID(s)
  BY DEF GetPduSessionID, UdmUeFindBySupi, ueVars
<1>3. SameRequests
  BY UnchangedRequests
<1> QED
  BY <1>1, <1>2, <1>3, GoesTo DEF SameTables

(* A step that answers.                                                    *)
LEMMA AnswerKeepsSerial ==
  ASSUME SerialInv, RecordInv', NEW r \in Requests, pc[r] \notin {"idle", "done"},
         UNCHANGED <<ueVars, req, before, location, udrAmf, notified>>, Goto(r, "done"),
         accepted' = accepted \/ (r \notin AmfRegs /\ accepted' = accepted \cup {r}),
         ~ MemoryAhead(r),
         r \in AmfRegs => pc[r] # "respond" \/ before[r] = None
  PROVE  SerialInv'
  BY SameTablesIf, QuietStepKeepsSerial

LEMMA SharedKeepsSerial ==
  ASSUME OneAtATime, SerialInv, RecordInv', NEW r \in Requests, SharedStep(r), UNCHANGED uecmVars
  PROVE  SerialInv'
<1>0. /\ UNCHANGED <<req, before, location, notified, udrAmf, accepted>>
      /\ pc[r] \notin {"idle", "done"}
  BY DEF uecmVars, udrVars, SharedStep, FindUe, CreateUe, GetUdrUriFind, GetUdrUriCreate, Discover, At
<1>1. /\ req[r] # None /\ req[r].supi \in Supis /\ req[r].access \in Accesses
      /\ InHand(r)
  BY <1>0, OthersAtRest
<1>2. /\ r \in AmfRegs <=> req[r].kind = "amfReg"
      /\ AmfRegs' = AmfRegs
  BY <1>0, <1>1 DEF AmfRegs
<1> DEFINE s == req[r].supi
           a == req[r].access
<1>3. CASE FindUe(r)
  <2>1. PICK l \in {"new", "write"} :
          /\ pc[r] = "find" /\ UNCHANGED ueVars /\ Goto(r, l) /\ ue' = [ue EXCEPT ![r] = pool[s]]
          /\ l = "new" <=> pool[s] = None
    <3>1. /\ pc[r] = "find" /\ UNCHANGED ueVars /\ ue' = [ue EXCEPT ![r] = pool[s]]
          /\ Goto(r, IF pool[s] = None THEN "new" ELSE "write")
      BY <1>3 DEF FindUe, At, UdmUeFindBySupi
    <3>2. CASE pool[s] = None
      <4>1. Goto(r, "new")
        BY <3>1, <3>2, Zenon
      <4> QED
        BY <3>1, <3>2, <4>1
    <3>3. CASE pool[s] # None
      <4>1. Goto(r, "write")
        BY <3>1, <3>3, Zenon
      <4> QED
        BY <3>1, <3>3, <4>1
    <3> QED
      BY <3>2, <3>3
  <2>2. SameTables(r) /\ GetPduSessionID(s)' = GetPduSessionID(s)
    BY <1>0, <1>1, <2>1, SameTablesIf DEF MemoryAhead
  <2>3. pc'[r] = l /\ ue'[r] = pool[s] /\ pool' = pool
    BY <2>1, GoesTo DEF SerialInv, RecordInv, Inv, Typed, TypeOK, HandlerTypeOK, ueVars
  <2>5. LookUpsHold(r)'
    BY <1>0, <2>1, <2>3 DEF LookUpsHold
  <2>6. OldIsTheHolder(r)' /\ MatchedTheHolder(r)'
    BY <1>0, <1>1, <1>2, <2>1, <2>3
    DEF InHand, OldIsTheHolder, MatchedTheHolder, HolderOf, MemoryAhead, PastMatch
  <2>7. FirstSession(r)'
    BY <1>0, <1>1, <2>1, <2>2, <2>3 DEF InHand, FirstSession
  <2> QED
    BY <1>0, <2>1, <2>2, <2>5, <2>6, <2>7, QuietStepKeepsSerial DEF InHand
<1>4. CASE CreateUe(r) \/ GetUdrUriCreate(r)
  <2>1. PICK x \in Sites, l \in {"write", "discover"} :
          /\ NewUdmUe(<<r, x>>, s) /\ Goto(r, l)
          /\ l = "write" => pc[r] = "new" /\ ue' = [ue EXCEPT ![r] = <<r, x>>]
          /\ l = "discover" => pc[r] = "clientNew"
    BY <1>4, SitesAssumption DEF CreateUe, GetUdrUriCreate, At
  <2>2. pc[r] \in {"new", "clientNew"} /\ pool[s] = None
    BY <1>1, <2>1 DEF InHand, LookUpsHold
  <2>3. /\ pool'[s] = <<r, x>>
        /\ GetPduSessionID(s)' = GetPduSessionID(s)
        /\ \A t \in Supis, b \in Accesses : GetAmfRegContext(t, b)' = GetAmfRegContext(t, b)
    BY <1>0, <1>1, <2>1, <2>2, NewUeInEmptyPlace DEF SerialInv, RecordInv
  <2>4. /\ pc'[r] = l /\ \A q \in Requests \ {r} : pc'[q] = pc[q]
        /\ l = "write" => ue'[r] = <<r, x>>
        /\ <<r, x>> # None
    BY <2>1, GoesTo, NoneAssumption
    DEF SerialInv, RecordInv, Inv, Typed, TypeOK, HandlerTypeOK, Objects
  <2>5. SameTables(r)
    BY <1>0, <2>2, <2>1, <2>3, <2>4, UnchangedRequests DEF SameTables, MemoryAhead
  <2>6. LookUpsHold(r)'
    BY <1>0, <2>1, <2>3, <2>4 DEF LookUpsHold
  <2>7. OldIsTheHolder(r)'
    <3>1. GetAmfRegContext(s, a)' = GetAmfRegContext(s, a) /\ HolderOf(r)' = HolderOf(r)
      BY <1>0, <1>1, <2>3 DEF HolderOf
    <3> QED
      BY <1>0, <1>1, <1>2, <2>1, <2>4, <3>1 DEF InHand, OldIsTheHolder, MemoryAhead
  <2>8. MatchedTheHolder(r)'
    BY <1>0, <1>1, <2>1, <2>4 DEF InHand, MatchedTheHolder, HolderOf, PastMatch
  <2>9. FirstSession(r)'
    BY <1>0, <1>1, <2>1, <2>3, <2>4 DEF InHand, FirstSession
  <2> QED
    BY <1>0, <2>1, <2>5, <2>6, <2>7, <2>8, <2>9, QuietStepKeepsSerial DEF InHand
<1>5. CASE GetUdrUriFind(r) \/ Discover(r)
  <2>1. PICK l : /\ Goto(r, l) /\ l \in {"clientNew", "discover", "query", "find", "udr"}
                 /\ pc[r] = "client" => (l = "clientNew" /\ pool[s] = None) \/ l = "discover"
                 /\ pc[r] # "client" => /\ pc[r] = "discover" /\ l \in {"query", "find", "udr"}
                                        /\ l = UdrStep(req[r].kind)
    <3>1. CASE GetUdrUriFind(r)
      BY <3>1 DEF GetUdrUriFind, UdmUeFindBySupi
    <3>2. CASE Discover(r)
      BY <3>2 DEF Discover, OneAtATime, UdrStep
    <3> QED
      BY <1>5, <3>1, <3>2
  <2>2. pc[r] \in {"client", "discover"} /\ UNCHANGED ueVars
    BY <1>5 DEF GetUdrUriFind, Discover
  <2>3. pc[r] = "discover" => /\ req[r].kind = "amfReg" => l = "udr"
                              /\ req[r].kind = "smfReg" => l = "query"
    BY <2>1 DEF UdrStep, PlaceholderKinds
  <2>4. SameTables(r) /\ GetPduSessionID(s)' = GetPduSessionID(s)
    <3>1. MemoryAhead(r) => l \in {"client", "clientNew", "discover", "udr"}
      BY <1>2, <2>1, <2>2, <2>3 DEF MemoryAhead
    <3> QED
      BY <1>0, <1>1, <2>1, <2>2, <3>1, SameTablesIf
  <2>5. pc'[r] = l /\ pool' = pool
    BY <2>1, <2>2, GoesTo DEF ueVars
  <2>6. LookUpsHold(r)'
    BY <1>0, <1>1, <2>1, <2>2, <2>5 DEF InHand, LookUpsHold
  <2>7. OldIsTheHolder(r)'
    <3>1. GetAmfRegContext(s, a)' = GetAmfRegContext(s, a) /\ HolderOf(r)' = HolderOf(r)
      BY <1>0, <1>1, <2>4 DEF HolderOf, SameTables
    <3>2. r \in AmfRegs => MemoryAhead(r) /\ l \notin {"find", "new", "write"}
      BY <1>2, <2>1, <2>2, <2>3 DEF MemoryAhead
    <3> QED
      BY <1>0, <1>1, <1>2, <2>5, <3>1, <3>2 DEF InHand, OldIsTheHolder, MemoryAhead
  <2>8. MatchedTheHolder(r)'
    BY <1>0, <1>1, <2>2, <2>5 DEF InHand, MatchedTheHolder, HolderOf, PastMatch
  <2>9. FirstSession(r)'
    BY <1>0, <1>1, <2>1, <2>2, <2>3, <2>4, <2>5 DEF InHand, FirstSession
  <2> QED
    BY <1>0, <2>1, <2>4, <2>6, <2>7, <2>8, <2>9, QuietStepKeepsSerial DEF InHand
<1> QED
  BY <1>3, <1>4, <1>5 DEF SharedStep

LEMMA ReadOldKeepsSerial ==
  ASSUME SerialInv, RecordInv', NEW r \in Requests, ReadOldRegistration(r)
  PROVE  SerialInv'
<1> DEFINE s == req[r].supi
           a == req[r].access
<1>1. /\ pc[r] = "exists" /\ req[r].kind = "amfReg" /\ Goto(r, "find")
      /\ before' = [before EXCEPT ![r] = GetAmfRegContext(s, a)]
      /\ UNCHANGED <<ueVars, req, location, notified, udrAmf, accepted>>
  BY DEF ReadOldRegistration, At, udrVars
<1>2. s \in Supis /\ a \in Accesses /\ req[r] # None
  BY <1>1, OthersAtRest
<1>3. /\ pc'[r] = "find" /\ \A q \in Requests \ {r} : pc'[q] = pc[q]
      /\ \A q \in Requests : before'[q] = IF q = r THEN GetAmfRegContext(s, a) ELSE before[q]
  BY <1>1, GoesTo DEF SerialInv, RecordInv, Inv, Typed, TypeOK, UecmTypeOK
<1>4. GetAmfRegContext(s, a) = HolderOf(r)
  BY <1>1, <1>2, MemoryIsUdr DEF MemoryAhead, HolderOf
<1>5. SameTables(r)
  <2>1. \A t \in Supis, b \in Accesses : GetAmfRegContext(t, b)' = GetAmfRegContext(t, b)
    BY <1>1 DEF GetAmfRegContext, UdmUeFindBySupi, ueVars
  <2> QED
    BY <1>1, <1>3, <2>1, UnchangedRequests DEF SameTables, MemoryAhead
<1>6. LookUpsHold(r)' /\ MatchedTheHolder(r)' /\ OldIsTheHolder(r)' /\ FirstSession(r)'
  BY <1>1, <1>3, <1>4
  DEF LookUpsHold, MatchedTheHolder, PastMatch, OldIsTheHolder, HolderOf, MemoryAhead, FirstSession
<1> QED
  BY <1>1, <1>5, <1>6, QuietStepKeepsSerial DEF InHand

(* The registration is stored: until the UDR has it, memory is ahead.      *)
LEMMA CreateAmfKeepsSerial ==
  ASSUME SerialInv, RecordInv', NEW r \in Requests, CreateAmfRegContext(r)
  PROVE  SerialInv'
<1> DEFINE s == req[r].supi
           a == req[r].access
<1>1. /\ pc[r] = "write" /\ req[r].kind = "amfReg" /\ Goto(r, "client")
      /\ heap' = [heap EXCEPT ![ue[r]].amf[a] = r]
      /\ UNCHANGED <<pool, req, before, location, notified, udrAmf, accepted>>
  BY DEF CreateAmfRegContext, SetAmfRegContext, At, udrVars
<1>2. s \in Supis /\ a \in Accesses /\ req[r] # None /\ InHand(r)
  BY <1>1, OthersAtRest
<1>3. /\ r \in AmfRegs /\ AmfRegs' = AmfRegs /\ HolderOf(r)' = HolderOf(r)
      /\ before[r] = HolderOf(r)
      /\ ue[r] = pool[s] /\ pool[s] # None
  BY <1>1, <1>2 DEF AmfRegs, InHand, LookUpsHold, OldIsTheHolder, HolderOf
<1>4. pc'[r] = "client" /\ \A q \in Requests \ {r} : pc'[q] = pc[q]
  BY <1>1, GoesTo
<1>5. \A t \in Supis, b \in Accesses :
        GetAmfRegContext(t, b)' = IF t = s /\ b = a THEN r ELSE GetAmfRegContext(t, b)
  <2> DEFINE o == pool[s]
  <2>1. /\ o \in Objects
        /\ \A p \in Objects, b \in Accesses :
             heap'[p].amf[b] = IF p = o /\ b = a THEN r ELSE heap[p].amf[b]
    BY <1>1, <1>2, <1>3 DEF SerialInv, RecordInv, Inv, Typed, TypeOK, HandlerTypeOK, UeTypeOK, UdmUeContext
  <2>2. \A t \in Supis : /\ pool[t] \in Objects \cup {None}
                         /\ t # s /\ pool[t] # None => pool[t] # o
    BY <1>2, <1>3 DEF SerialInv, RecordInv, Inv, FiledUnderItsSupi, Typed, TypeOK, HandlerTypeOK, UeTypeOK
  <2> HIDE DEF o
  <2>3. /\ pool' = pool /\ pool[s] = o /\ o # None
    BY <1>1, <1>3 DEF o
  <2> QED
    BY <1>2, <2>1, <2>2, <2>3 DEF GetAmfRegContext, UdmUeFindBySupi
<1>6. MemoryFollows'
  <2> SUFFICES ASSUME NEW t \in Supis, NEW b \in Accesses
               PROVE  \/ GetAmfRegContext(t, b)' = udrAmf[t][b].by
                      \/ \E q \in Requests : MemoryAhead(q)' /\ GetAmfRegContext(t, b)' = q
    BY <1>1 DEF MemoryFollows
  <2>1. MemoryAhead(r)'
    BY <1>3, <1>4 DEF MemoryAhead
  <2>2. GetAmfRegContext(t, b) = udrAmf[t][b].by
    BY <1>1, MemoryIsUdr DEF MemoryAhead
  <2> QED
    BY <1>5, <2>1, <2>2
<1>7. SupersededIsTold' /\ RecordShowsItsAmf' /\ LocatedSession'
  <2>1. AcceptedFor(s, a)' = AcceptedFor(s, a) /\ NotifiedRegs' = NotifiedRegs
    BY <1>1 DEF AcceptedFor, NotifiedRegs, AmfRegs
  <2>2. \A t \in Supis, b \in Accesses : AcceptedFor(t, b)' = AcceptedFor(t, b)
    BY <1>1, <1>3 DEF AcceptedFor
  <2>3. SupersededIsTold'
    BY <1>1, <1>3, <1>4, <2>1, <2>2 DEF SerialInv, SupersededIsTold, AmfRegs
  <2> QED
    BY <1>1, <1>4, <2>3 DEF SerialInv, RecordShowsItsAmf, LocatedSession
<1>8. InHand(r)'
  <2>1. GetAmfRegContext(s, a)' = r
    BY <1>1, <1>2, <1>5
  <2>2. LookUpsHold(r)' /\ MatchedTheHolder(r)' /\ FirstSession(r)'
    BY <1>1, <1>3, <1>4 DEF LookUpsHold, MatchedTheHolder, PastMatch, FirstSession
  <2>3. OldIsTheHolder(r)'
    BY <1>1, <1>3, <1>4, <2>1 DEF OldIsTheHolder, MemoryAhead
  <2> QED
    BY <2>2, <2>3 DEF InHand
<1> QED
  BY <1>1, <1>4, <1>6, <1>7, <1>8, SerialAfter

(* The UDR takes the registration: the one before it is superseded, and    *)
(* the handler knows it.                                                   *)
LEMMA CommitKeepsSerial ==
  ASSUME OneAtATime, SerialInv, RecordInv', NEW r \in Requests, UdrCreateAmf(r)
  PROVE  SerialInv'
<1> DEFINE s == req[r].supi
           a == req[r].access
           new == [by |-> r, guami |-> req[r].amf, purged |-> FALSE]
<1>1. /\ pc[r] = "udr" /\ req[r].kind = "amfReg" /\ Goto(r, "respond")
      /\ udrAmf' = [udrAmf EXCEPT ![s][a] = new] /\ accepted' = accepted \cup {r}
      /\ UNCHANGED <<ueVars, req, before, location, notified>>
  BY DEF UdrCreateAmf, CommitAmf, UdrRefuses, UdrFails, At, OneAtATime
<1>2. s \in Supis /\ a \in Accesses /\ req[r] # None /\ InHand(r)
  BY <1>1, OthersAtRest
<1>3. /\ r \in AmfRegs /\ AmfRegs' = AmfRegs /\ MemoryAhead(r)
      /\ before[r] = udrAmf[s][a].by /\ GetAmfRegContext(s, a) = r
      /\ NotifiedRegs' = NotifiedRegs
  BY <1>1, <1>2 DEF AmfRegs, InHand, OldIsTheHolder, MemoryAhead, HolderOf, NotifiedRegs
<1>4. pc'[r] = "respond" /\ \A q \in Requests \ {r} : pc'[q] = pc[q] /\ pc[q] \in {"idle", "done"}
  BY <1>1, GoesTo, OthersAtRest
<1>5. \A t \in Supis, b \in Accesses : udrAmf'[t][b] = IF t = s /\ b = a THEN new ELSE udrAmf[t][b]
  BY <1>1, <1>2 DEF SerialInv, RecordInv, Inv, Typed, TypeOK, UecmTypeOK
<1>6. \A t \in Supis, b \in Accesses : GetAmfRegContext(t, b)' = GetAmfRegContext(t, b)
  BY <1>1 DEF GetAmfRegContext, UdmUeFindBySupi, ueVars
<1>7. MemoryFollows'
  <2> SUFFICES ASSUME NEW t \in Supis, NEW b \in Accesses
               PROVE  GetAmfRegContext(t, b)' = udrAmf'[t][b].by
    BY DEF MemoryFollows
  <2>1. CASE t = s /\ b = a
    BY <1>3, <1>5, <1>6, <2>1
  <2>2. CASE ~ (t = s /\ b = a)
    <3>1. GetAmfRegContext(t, b) = udrAmf[t][b].by
      BY <1>1, <2>2, MemoryIsUdr
    <3> QED
      BY <1>5, <1>6, <2>2, <3>1
  <2> QED
    BY <2>1, <2>2
<1>8. SupersededIsTold'
  <2> SUFFICES ASSUME NEW t \in Supis, NEW b \in Accesses,
                      NEW o \in AcceptedFor(t, b)', o # udrAmf'[t][b].by
               PROVE  o \in NotifiedRegs \/ \E q \in AmfRegs : pc'[q] = "respond" /\ before[q] = o
    BY <1>1, <1>3 DEF SupersededIsTold
  <2>1. o \in AmfRegs /\ (o \in accepted \/ o = r) /\ req[o].supi = t /\ req[o].access = b
    BY <1>1, <1>3 DEF AcceptedFor
  <2>2. o # r /\ o \in AcceptedFor(t, b)
    BY <1>5, <2>1 DEF AcceptedFor
  <2>3. CASE o = udrAmf[t][b].by
    <3>1. t = s /\ b = a
      BY <1>5, <2>3
    <3> QED
      BY <1>3, <1>4, <2>3, <3>1
  <2>4. CASE o # udrAmf[t][b].by
    BY <1>1, <1>4, <2>2, <2>4 DEF SerialInv, SupersededIsTold, AmfRegs
  <2> QED
    BY <2>3, <2>4
<1>9. RecordShowsItsAmf'
  BY <1>1, <1>5 DEF SerialInv, RecordShowsItsAmf
<1>10. LocatedSession'
  BY <1>1, LocationsKept
<1>11. InHand(r)'
  BY <1>1, <1>4
  DEF InHand, LookUpsHold, OldIsTheHolder, MemoryAhead, MatchedTheHolder, PastMatch, FirstSession
<1> QED
  BY <1>1, <1>4, <1>7, <1>8, <1>9, <1>10, <1>11, SerialAfter

(* The AMF of the old registration is told.                                *)
LEMMA NotifyKeepsSerial ==
  ASSUME SerialInv, RecordInv', NEW r \in Requests, NotifyOldAmf(r)
  PROVE  SerialInv'
<1>1. /\ pc[r] = "respond" /\ req[r].kind = "amfReg" /\ Goto(r, "answer") /\ before[r] # None
      /\ notified' = [notified EXCEPT ![r] = before[r]]
      /\ UNCHANGED <<ueVars, req, before, location, udrAmf, accepted>>
  BY DEF NotifyOldAmf, At, udrVars
<1>2. req[r] # None /\ r \in AmfRegs /\ AmfRegs' = AmfRegs
  BY <1>1, OthersAtRest DEF AmfRegs
<1>3. pc'[r] = "answer" /\ \A q \in Requests \ {r} : pc'[q] = pc[q]
  BY <1>1, GoesTo
<1>4. NotifiedRegs' = NotifiedRegs \cup {before[r]}
  <2>1. notified[r] = None
    BY <1>1 DEF SerialInv, RecordInv, Inv, ToldWasRead
  <2>2. \A q \in Requests : notified'[q] = IF q = r THEN before[r] ELSE notified[q]
    BY <1>1 DEF SerialInv, RecordInv, Inv, Typed, TypeOK, UecmTypeOK
  <2> QED
    BY <1>1, <2>1, <2>2 DEF NotifiedRegs
<1>5. MemoryFollows'
  <2>1. \A t \in Supis, b \in Accesses : /\ GetAmfRegContext(t, b)' = GetAmfRegContext(t, b)
                                         /\ GetAmfRegContext(t, b) = udrAmf[t][b].by
    BY <1>1, MemoryIsUdr DEF MemoryAhead, GetAmfRegContext, UdmUeFindBySupi, ueVars
  <2> QED
    BY <1>1, <2>1 DEF MemoryFollows
<1>6. SupersededIsTold'
  <2>1. \A t \in Supis, b \in Accesses : AcceptedFor(t, b)' = AcceptedFor(t, b)
    BY <1>1, <1>2 DEF AcceptedFor
  <2> QED
    BY <1>1, <1>2, <1>3, <1>4, <2>1 DEF SerialInv, SupersededIsTold, AmfRegs
<1>7. RecordShowsItsAmf' /\ LocatedSession'
  BY <1>1, LocationsKept DEF SerialInv, RecordShowsItsAmf
<1>8. InHand(r)'
  BY <1>1, <1>3
  DEF InHand, LookUpsHold, OldIsTheHolder, MemoryAhead, MatchedTheHolder, PastMatch, FirstSession
<1> QED
  BY <1>1, <1>3, <1>5, <1>6, <1>7, <1>8, SerialAfter

LEMMA AmfRegistrationKeepsSerial ==
  ASSUME OneAtATime, SerialInv, RecordInv', NEW r \in Requests, AmfRegistration(r)
  PROVE  SerialInv'
<1>1. CASE AnswerReplaced(r) \/ AnswerCreated(r)
  <2>1. /\ pc[r] \in {"respond", "answer"} /\ Goto(r, "done")
        /\ pc[r] = "respond" => before[r] = None
        /\ UNCHANGED <<ueVars, req, before, location, notified, udrAmf, accepted>>
    BY <1>1 DEF AnswerReplaced, AnswerCreated, At, Reply, udrVars
  <2> QED
    BY <2>1, AnswerKeepsSerial DEF MemoryAhead
<1> QED
  BY <1>1, ReadOldKeepsSerial, CreateAmfKeepsSerial, CommitKeepsSerial, NotifyKeepsSerial
  DEF AmfRegistration

(* An update that passes the match is for the AMF that the UDR shows.      *)
LEMMA MatchKeepsSerial ==
  ASSUME SerialInv, RecordInv', NEW r \in Requests, CheckGuami(r), SameAsStoredGUAMI(r)
  PROVE  SerialInv'
<1> DEFINE s == req[r].supi
           a == req[r].access
<1>1. /\ pc[r] = "match" /\ req[r].kind = "amfUpdate" /\ Goto(r, "client")
      /\ req' = [req EXCEPT ![r].purge = TRUE]
      /\ UNCHANGED <<ueVars, before, location, notified, udrAmf, accepted>>
  BY DEF CheckGuami, At, udrVars
<1>2. s \in Supis /\ a \in Accesses /\ req[r] # None
  BY <1>1, OthersAtRest
<1>3. pc'[r] = "client" /\ \A q \in Requests \ {r} : pc'[q] = pc[q]
  BY <1>1, GoesTo
<1>4. SameRequests
  BY <1>1, PurgeIsAllThatChanges DEF SerialInv, RecordInv
<1>5. SameTables(r)
  <2>1. \A t \in Supis, b \in Accesses : GetAmfRegContext(t, b)' = GetAmfRegContext(t, b)
    BY <1>1 DEF GetAmfRegContext, UdmUeFindBySupi, ueVars
  <2> QED
    BY <1>1, <1>3, <1>4, <2>1 DEF SameTables, MemoryAhead, AmfRegs
<1>6. HolderOf(r) # None /\ req[HolderOf(r)].amf = req[r].amf /\ HolderOf(r) \in Requests
  <2>1. GetAmfRegContext(s, a) = HolderOf(r)
    BY <1>1, <1>2, MemoryIsUdr DEF MemoryAhead, AmfRegs, HolderOf
  <2>2. GetAmfRegContext(s, a) \in Requests \cup {None}
    BY <1>2, LookUpTyped DEF SerialInv, RecordInv, Inv, Typed
  <2> QED
    BY <2>1, <2>2 DEF SameAsStoredGUAMI
<1>7. /\ req'[r].kind = "amfUpdate" /\ HolderOf(r)' = HolderOf(r)
      /\ AmfRegs' = AmfRegs /\ r \notin AmfRegs
      /\ \A q \in Requests : req'[q].amf = req[q].amf
  BY <1>1, <1>4, SameFields DEF HolderOf, AmfRegs
<1>8. InHand(r)'
  <2>1. LookUpsHold(r)' /\ OldIsTheHolder(r)' /\ FirstSession(r)'
    BY <1>3, <1>7 DEF LookUpsHold, OldIsTheHolder, MemoryAhead, FirstSession
  <2>2. MatchedTheHolder(r)'
    BY <1>6, <1>7 DEF MatchedTheHolder
  <2> QED
    BY <2>1, <2>2 DEF InHand
<1>9. LocatedSession'
  <2>1. req[r] \in Body /\ req \in [Requests -> Body \cup {None}]
    BY <1>1, RequestTyped DEF SerialInv, RecordInv, Inv, Typed, TypeOK, HandlerTypeOK
  <2>2. \A q \in Requests : req'[q].pdu = req[q].pdu
    BY <1>1, <2>1 DEF Body
  <2> QED
    BY <1>1, <1>3, <2>2 DEF SerialInv, LocatedSession
<1> QED
  BY <1>1, <1>3, <1>5, <1>8, <1>9, TablesKept, SerialAfter

(* A patch with a GUAMI shows the one that is already there.               *)
LEMMA PatchKeepsSerial ==
  ASSUME SerialInv, RecordInv', NEW r \in Requests, PatchAmf(r), At(r, "udr", {"amfUpdate"}),
         Goto(r, "done"), UNCHANGED <<ueVars, req, before, location, notified>>
  PROVE  SerialInv'
<1>1. /\ pc[r] = "udr" /\ req[r].kind = "amfUpdate" /\ r \notin AmfRegs
      /\ accepted' = accepted \cup {r} /\ SameRequests
  BY UnchangedRequests DEF At, PatchAmf, AmfRegs
<1>2. pc'[r] = "done" /\ \A q \in Requests \ {r} : pc'[q] = pc[q]
  BY GoesTo
<1>3. InHand(r) /\ Typed
  BY <1>1, OthersAtRest DEF SerialInv, RecordInv, Inv
<1>4. \A t \in Supis, b \in Accesses :
        /\ udrAmf'[t][b].by = udrAmf[t][b].by
        /\ \/ udrAmf'[t][b].guami = udrAmf[t][b].guami
           \/ /\ t = req[r].supi /\ b = req[r].access
              /\ req[r].amf # None /\ udrAmf'[t][b].guami = req[r].amf
  BY <1>1, <1>3, PatchedRecord
<1>5. MemoryFollows'
  <2>1. \A t \in Supis, b \in Accesses : /\ GetAmfRegContext(t, b)' = GetAmfRegContext(t, b)
                                         /\ GetAmfRegContext(t, b) = udrAmf[t][b].by
    BY <1>1, MemoryIsUdr DEF MemoryAhead, GetAmfRegContext, UdmUeFindBySupi, ueVars
  <2> QED
    BY <1>4, <2>1 DEF MemoryFollows
<1>6. SupersededIsTold'
  <2>1. \A t \in Supis, b \in Accesses : AcceptedFor(t, b)' = AcceptedFor(t, b)
    BY <1>1, SameAcceptedFor
  <2>2. AmfRegs' = AmfRegs /\ NotifiedRegs' = NotifiedRegs /\ AmfRegs \subseteq Requests
    BY DEF AmfRegs, NotifiedRegs
  <2> QED
    BY <1>1, <1>2, <1>4, <2>1, <2>2 DEF SerialInv, SupersededIsTold
<1>7. RecordShowsItsAmf'
  <2> SUFFICES ASSUME NEW t \in Supis, NEW b \in Accesses, udrAmf'[t][b].by # None
               PROVE  udrAmf'[t][b].guami = req[udrAmf[t][b].by].amf
    BY <1>4 DEF RecordShowsItsAmf
  <2>1. udrAmf[t][b].guami = req[udrAmf[t][b].by].amf
    BY <1>4 DEF SerialInv, RecordShowsItsAmf
  <2>2. req[r].amf # None => req[udrAmf[req[r].supi][req[r].access].by].amf = req[r].amf
    BY <1>1, <1>3 DEF InHand, MatchedTheHolder, PastMatch, HolderOf
  <2> QED
    BY <1>4, <2>1, <2>2
<1>8. LocatedSession'
  BY <1>1, LocationsKept
<1> QED
  BY <1>1, <1>2, <1>5, <1>6, <1>7, <1>8, SerialAfter

LEMMA AmfUpdateKeepsSerial ==
  ASSUME OneAtATime, SerialInv, RecordInv', NEW r \in Requests, AmfUpdate(r)
  PROVE  SerialInv'
<1>1. CASE FindCurrentContext(r)
  <2>1. /\ pc[r] = "exists" /\ req[r].kind = "amfUpdate" /\ r \notin AmfRegs
        /\ UNCHANGED <<ueVars, req, before, location, notified, udrAmf, accepted>>
    BY <1>1 DEF FindCurrentContext, At, AmfRegs, udrVars
  <2>2. PICK l \in {"done", "match", "client"} : Goto(r, l) /\ (l = "client" => req[r].amf = None)
    <3>1. \/ Goto(r, "done")
          \/ Goto(r, IF req[r].amf = None THEN "client" ELSE "match")
      BY <1>1 DEF FindCurrentContext, Reply
    <3>2. Goto(r, "done") \/ Goto(r, "match") \/ (Goto(r, "client") /\ req[r].amf = None)
      BY <3>1, Zenon
    <3> QED
      BY <3>2
  <2>3. SameTables(r)
    BY <2>1, <2>2, SameTablesIf DEF MemoryAhead
  <2>4. InHand(r)'
    <3>1. pc'[r] = l /\ r \notin AmfRegs'
      BY <2>1, <2>2, GoesTo DEF AmfRegs
    <3> QED
      BY <2>1, <2>2, <3>1
      DEF InHand, LookUpsHold, OldIsTheHolder, MemoryAhead, MatchedTheHolder, PastMatch, FirstSession
  <2> QED
    BY <2>1, <2>2, <2>3, <2>4, QuietStepKeepsSerial
<1>2. CASE CheckGuami(r)
  <2>1. CASE SameAsStoredGUAMI(r)
    BY <1>2, <2>1, MatchKeepsSerial
  <2>2. CASE ~ SameAsStoredGUAMI(r)
    BY <1>2, <2>2, AnswerKeepsSerial DEF CheckGuami, At, Reply, udrVars, MemoryAhead
  <2> QED
    BY <2>1, <2>2
<1>3. CASE UdrPatchAmf(r) /\ PatchAmf(r)
  BY <1>3, PatchKeepsSerial DEF UdrPatchAmf, At, Reply, UdrRefuses, UdrFails
<1>4. CASE (UdrPatchAmf(r) /\ UNCHANGED udrVars) \/ UdrReadAmf(r)
  <2>1. /\ pc[r] = "udr" /\ req[r].kind \in {"amfUpdate", "amfGet"} /\ r \notin AmfRegs
        /\ UNCHANGED <<ueVars, req, before, location, notified>>
    BY <1>4 DEF UdrPatchAmf, UdrReadAmf, At, AmfRegs
  <2>2. Goto(r, "done") /\ UNCHANGED <<udrAmf, accepted>>
    BY <1>4 DEF UdrPatchAmf, UdrReadAmf, UdrRefuses, UdrFails, Reply, udrVars
  <2> QED
    BY <2>1, <2>2, AnswerKeepsSerial DEF MemoryAhead
<1> QED
  BY <1>1, <1>2, <1>3, <1>4 DEF AmfUpdate, UdrPatchAmf, UdrRefuses

LEMMA SmfRegistrationKeepsSerial ==
  ASSUME OneAtATime, SerialInv, RecordInv', NEW r \in Requests, SmfRegistration(r)
  PROVE  SerialInv'
<1> DEFINE s == req[r].supi
<1>0. /\ pc[r] \notin {"idle", "done"} /\ req[r].kind \in SmfKinds
      /\ UNCHANGED <<req, notified, udrAmf>>
  BY DEF SmfRegistration, ReadPduSessionID, TestPduSessionID, CreateSmfRegContext, AuthorizeSmf,
         UdrCreateSmf, AnswerSmf, UdrDeleteSmf, CommitSmf, UdrRefuses, At, SmfKinds, udrVars
<1>1. /\ s \in Supis /\ req[r] # None /\ r \notin AmfRegs /\ AmfRegs' = AmfRegs /\ InHand(r)
      /\ LookUpsHold(r) /\ FirstSession(r)
  BY <1>0, OthersAtRest DEF AmfRegs, SmfKinds, InHand
<1>2. OldIsTheHolder(r)' /\ MatchedTheHolder(r)'
  BY <1>0, <1>1 DEF OldIsTheHolder, MemoryAhead, MatchedTheHolder, PastMatch, SmfKinds
<1>3. CASE ReadPduSessionID(r)
  <2>1. /\ pc[r] = "exists" /\ Goto(r, "find")
        /\ before' = [before EXCEPT ![r] = GetPduSessionID(s)]
        /\ UNCHANGED <<ueVars, location, accepted>>
    BY <1>3 DEF ReadPduSessionID, At, udrVars
  <2>2. /\ pc'[r] = "find" /\ \A q \in Requests \ {r} : pc'[q] = pc[q]
        /\ \A q \in Requests : before'[q] = IF q = r THEN GetPduSessionID(s) ELSE before[q]
    BY <2>1, GoesTo DEF SerialInv, RecordInv, Inv, Typed, TypeOK, UecmTypeOK
  <2>3. /\ \A t \in Supis, b \in Accesses : GetAmfRegContext(t, b)' = GetAmfRegContext(t, b)
        /\ GetPduSessionID(s)' = GetPduSessionID(s)
    BY <1>0, <2>1 DEF GetAmfRegContext, GetPduSessionID, UdmUeFindBySupi, ueVars
  <2>4. SameTables(r)
    BY <1>0, <1>1, <2>1, <2>2, <2>3, UnchangedRequests DEF SameTables, MemoryAhead
  <2>5. LookUpsHold(r)' /\ FirstSession(r)'
    BY <1>0, <2>2, <2>3 DEF LookUpsHold, FirstSession
  <2> QED
    BY <1>0, <1>2, <2>1, <2>4, <2>5, QuietStepKeepsSerial DEF InHand
<1>4. CASE TestPduSessionID(r)
  <2>1. /\ pc[r] = "write" /\ req[r].kind = "smfReg"
        /\ UNCHANGED <<ueVars, ue, before, location, accepted>>
        /\ ue[r] = pool[s] /\ pool[s] # None
    BY <1>1, <1>4 DEF TestPduSessionID, At, udrVars, LookUpsHold
  <2>2. GetPduSessionID(s) = heap[ue[r]].pdu
    BY <2>1 DEF GetPduSessionID, UdmUeFindBySupi
  <2>3. PICK l \in {"setPdu", "client"} : Goto(r, l) /\ (l = "client" => GetPduSessionID(s) # None)
    <3>1. Goto(r, IF GetPduSessionID(s) = None THEN "setPdu" ELSE "client")
      BY <1>4, <2>2 DEF TestPduSessionID
    <3>2. Goto(r, "setPdu") \/ (Goto(r, "client") /\ GetPduSessionID(s) # None)
      BY <3>1, Zenon
    <3> QED
      BY <3>2
  <2>4. SameTables(r) /\ GetPduSessionID(s)' = GetPduSessionID(s) /\ pc'[r] = l /\ pool' = pool
    BY <1>0, <1>1, <2>1, <2>3, SameTablesIf, GoesTo DEF MemoryAhead, ueVars
  <2>5. LookUpsHold(r)' /\ FirstSession(r)'
    BY <1>0, <1>1, <2>1, <2>3, <2>4 DEF LookUpsHold, FirstSession
  <2> QED
    BY <1>0, <1>2, <2>1, <2>3, <2>4, <2>5, QuietStepKeepsSerial DEF InHand
<1>5. CASE CreateSmfRegContext(r)
  <2>1. /\ pc[r] = "setPdu" /\ Goto(r, "client")
        /\ heap' = [heap EXCEPT ![ue[r]].pdu = req[r].pdu]
        /\ UNCHANGED <<pool, before, location, accepted>>
        /\ ue[r] = pool[s] /\ pool[s] # None
    BY <1>1, <1>5 DEF CreateSmfRegContext, SetPduSessionID, At, udrVars, LookUpsHold
  <2>2. /\ pool[s] \in Objects /\ heap'[pool[s]].pdu = req[r].pdu
        /\ \A o \in Objects : heap'[o].amf = heap[o].amf
        /\ \A t \in Supis : pool[t] \in Objects \cup {None}
    BY <1>1, <2>1 DEF SerialInv, RecordInv, Inv, Typed, TypeOK, HandlerTypeOK, UeTypeOK, UdmUeContext
  <2>3. \A t \in Supis, b \in Accesses : GetAmfRegContext(t, b)' = GetAmfRegContext(t, b)
    BY <2>1, <2>2 DEF GetAmfRegContext, UdmUeFindBySupi
  <2>4. GetPduSessionID(s)' = req[r].pdu
    BY <1>0, <2>1, <2>2 DEF GetPduSessionID, UdmUeFindBySupi
  <2>5. pc'[r] = "client" /\ \A q \in Requests \ {r} : pc'[q] = pc[q]
    BY <2>1, GoesTo
  <2>6. SameTables(r)
    BY <1>0, <1>1, <2>1, <2>3, <2>5, UnchangedRequests DEF SameTables, MemoryAhead
  <2>7. LookUpsHold(r)' /\ FirstSession(r)'
    BY <1>0, <2>1, <2>4, <2>5 DEF LookUpsHold, FirstSession
  <2> QED
    BY <1>0, <1>2, <2>1, <2>6, <2>7, QuietStepKeepsSerial DEF InHand
<1>6. CASE AuthorizeSmf(r) \/ UdrCreateSmf(r) \/ UdrDeleteSmf(r)
  <2>1. PICK l \in {"done", "udr", "respond"} :
          /\ Goto(r, l)
          /\ l = "udr" => pc[r] = "query"
          /\ l = "respond" => pc[r] = "udr"
    <3>1. \/ Goto(r, "done")
          \/ Goto(r, "udr") /\ pc[r] = "query"
          \/ Goto(r, "respond") /\ pc[r] = "udr"
      BY <1>6 DEF AuthorizeSmf, UdrCreateSmf, UdrDeleteSmf, UdrRefuses, UdrFails, Reply, At
    <3> QED
      BY <3>1
  <2>2. /\ UNCHANGED <<ueVars, before, location>>
        /\ accepted' = accepted \/ accepted' = accepted \cup {r}
    BY <1>6 DEF AuthorizeSmf, UdrCreateSmf, UdrDeleteSmf, UdrRefuses, CommitSmf, udrVars
  <2>3. SameTables(r) /\ GetPduSessionID(s)' = GetPduSessionID(s) /\ pc'[r] = l
    BY <1>0, <1>1, <2>1, <2>2, SameTablesIf, GoesTo DEF MemoryAhead
  <2>4. l = "done" \/ (LookUpsHold(r)' /\ FirstSession(r)')
    BY <1>0, <1>1, <2>1, <2>2, <2>3 DEF LookUpsHold, FirstSession
  <2> QED
    BY <1>0, <1>2, <2>1, <2>2, <2>3, <2>4, QuietStepKeepsSerial DEF InHand
<1>7. CASE AnswerSmf(r)
  <2>1. /\ pc[r] = "respond" /\ req[r].kind = "smfReg" /\ Goto(r, "done")
        /\ UNCHANGED <<ueVars, before, accepted>>
        /\ \/ UNCHANGED location
           \/ before[r] = None /\ location' = [location EXCEPT ![r] = GetPduSessionID(s)]
    BY <1>7 DEF AnswerSmf, At, Reply, udrVars
  <2>2. pc'[r] = "done" /\ \A q \in Requests \ {r} : pc'[q] = pc[q]
    BY <2>1, GoesTo
  <2>3. SameTables(r)
    BY <1>0, <1>1, <2>1, SameTablesIf DEF MemoryAhead
  <2>4. LocatedSession'
    <3>1. before[r] = None => GetPduSessionID(s) = req[r].pdu
      BY <1>1, <2>1 DEF FirstSession
    <3>2. \A q \in Requests : location'[q] = location[q] \/ (q = r /\ location'[q] = req[r].pdu)
      BY <2>1, <3>1 DEF SerialInv, RecordInv, Inv, Typed, TypeOK, UecmTypeOK
    <3> QED
      BY <1>0, <2>1, <2>2, <3>2 DEF SerialInv, LocatedSession
  <2> QED
    BY <1>0, <2>2, <2>3, <2>4, TablesKept, SerialAfter
<1> QED
  BY <1>3, <1>4, <1>5, <1>6, <1>7 DEF SmfRegistration

(* A request only arrives when no other is served.                         *)
LEMMA ArriveKeepsSerial ==
  ASSUME OneAtATime, SerialInv, RecordInv', NEW r \in Requests, Arrive(r), UNCHANGED uecmVars
  PROVE  SerialInv'
<1>1. PICK b \in Bodies : req' = [req EXCEPT ![r] = b] /\ Goto(r, FirstStep(b.kind))
  BY DEF Arrive
<1>2. /\ pc[r] = "idle" /\ Cardinality(Serving) < InFlight
      /\ UNCHANGED <<ueVars, before, location, notified, udrAmf, accepted>>
  BY DEF Arrive, uecmVars, udrVars
<1>3. Serving = {}
  <2>1. IsFiniteSet(Serving)
    BY FS_Subset DEF OneAtATime, Serving
  <2>2. Cardinality(Serving) \in Nat
    BY <2>1, FS_CardinalityType
  <2> QED
    BY <1>2, <2>1, <2>2, FS_EmptySet DEF OneAtATime
<1>4. /\ pc'[r] = FirstStep(b.kind) /\ req'[r] = b
      /\ \A q \in Requests \ {r} : pc'[q] = pc[q] /\ req'[q] = req[q]
      /\ \A q \in Requests : pc[q] \in {"idle", "done"}
  BY <1>1, <1>3, GoesTo DEF SerialInv, RecordInv, Inv, Typed, TypeOK, HandlerTypeOK, Serving
<1>5. r \notin AmfRegs /\ r \notin accepted /\ location[r] = None /\ AmfRegs \subseteq Requests
  BY <1>2 DEF SerialInv, LocatedSession, RecordInv, Inv, Typed, HasRequest, AmfRegs, TakenOnce
<1>6. \A s \in Supis, a \in Accesses : AcceptedFor(s, a)' = AcceptedFor(s, a)
  <2>1. \A q \in accepted : q \in AmfRegs' <=> q \in AmfRegs
    BY <1>4, <1>5 DEF AmfRegs
  <2> QED
    BY <1>2, <1>4, <1>5, <2>1 DEF AcceptedFor
<1>7. \A s \in Supis, a \in Accesses :
        /\ GetAmfRegContext(s, a)' = GetAmfRegContext(s, a)
        /\ GetAmfRegContext(s, a) = udrAmf[s][a].by
        /\ udrAmf[s][a].by # None => udrAmf[s][a].by \in AmfRegs
  <2>1. ContextHoldsItsOwn
    BY InvSafety DEF SerialInv, RecordInv
  <2>2. \A s \in Supis, a \in Accesses : GetAmfRegContext(s, a) = udrAmf[s][a].by
    BY <1>4 DEF SerialInv, MemoryFollows, MemoryAhead
  <2>3. \A s \in Supis, a \in Accesses : GetAmfRegContext(s, a)' = GetAmfRegContext(s, a)
    BY <1>2 DEF GetAmfRegContext, UdmUeFindBySupi, ueVars
  <2> QED
    BY <2>1, <2>2, <2>3 DEF ContextHoldsItsOwn
<1>8. MemoryFollows'
  BY <1>2, <1>7 DEF MemoryFollows
<1>9. SupersededIsTold'
  BY <1>2, <1>4, <1>5, <1>6 DEF SerialInv, SupersededIsTold, NotifiedRegs
<1>10. RecordShowsItsAmf'
  BY <1>2, <1>4, <1>5, <1>7 DEF SerialInv, RecordShowsItsAmf
<1>11. FirstStep(b.kind) # "idle"
  BY LabelsOfSteps
<1>12. LocatedSession'
  BY <1>2, <1>4, <1>5, <1>11 DEF SerialInv, LocatedSession
<1>13. InHand(r)'
  <2>1. /\ FirstStep(b.kind) \in {"exists", "discover", "udr", "client"}
        /\ b.kind \in {"amfReg", "smfReg", "amfUpdate"} => FirstStep(b.kind) = "exists"
    <3>1. FirstStep(b.kind) \in {"exists", "discover", "udr", "client"}
      BY DEF FirstStep
    <3>2. /\ FirstStep("amfReg") = "exists" /\ FirstStep("smfReg") = "exists"
          /\ FirstStep("amfUpdate") = "exists"
      BY DEF FirstStep, AskKinds, SharedSubsKinds
    <3> QED
      BY <3>1, <3>2
  <2> QED
    BY <1>4, <2>1 DEF InHand, LookUpsHold, OldIsTheHolder, MemoryAhead, AmfRegs, MatchedTheHolder,
                     PastMatch, FirstSession
<1>14. OneServed' /\ \A q \in Serving' : InHand(q)'
  <2>1. \A q \in Serving' : q = r
    BY <1>4 DEF Serving
  <2> QED
    BY <1>13, <2>1 DEF OneServed
<1> QED
  BY <1>8, <1>9, <1>10, <1>12, <1>14 DEF SerialInv

LEMMA NextSerialInv == OneAtATime /\ SerialInv /\ [Next]_vars => SerialInv'
<1> SUFFICES ASSUME OneAtATime, SerialInv, [Next]_vars PROVE SerialInv'
  OBVIOUS
<1>0. RecordInv'
  BY NextRecordInv DEF SerialInv
<1>1. CASE Restart
  BY <1>1 DEF Restart, OneAtATime, SerialInv, RecordInv, Inv, Typed, TypeOK, HandlerTypeOK
<1>2. CASE \E r \in Requests : Arrive(r) /\ UNCHANGED uecmVars
  BY <1>0, <1>2, ArriveKeepsSerial
<1>3. CASE \E r \in Requests : Handle(r)
  BY <1>0, <1>3, AmfRegistrationKeepsSerial, AmfUpdateKeepsSerial, SmfRegistrationKeepsSerial,
     SharedKeepsSerial DEF Handle, UecmStep
<1>4. CASE UNCHANGED vars
  <2>1. /\ UNCHANGED <<ueVars, pc, req, ue, before, notified, location, udrAmf, accepted>>
        /\ Serving' = Serving /\ AmfRegs' = AmfRegs /\ NotifiedRegs' = NotifiedRegs
    BY <1>4 DEF vars, handlerVars, uecmVars, udrVars, Serving, AmfRegs, NotifiedRegs
  <2>2. /\ \A s \in Supis, a \in Accesses : GetAmfRegContext(s, a)' = GetAmfRegContext(s, a)
        /\ \A s \in Supis, a \in Accesses : AcceptedFor(s, a)' = AcceptedFor(s, a)
        /\ \A r \in Requests : GetPduSessionID(req[r].supi)' = GetPduSessionID(req[r].supi)
        /\ \A r \in Requests : GetAmfRegContext(req[r].supi, req[r].access)' = GetAmfRegContext(req[r].supi, req[r].access)
    BY <2>1 DEF GetAmfRegContext, GetPduSessionID, UdmUeFindBySupi, ueVars, AcceptedFor
  <2>3. \A r \in Serving : InHand(r)'
    <3> SUFFICES ASSUME NEW r \in Serving PROVE InHand(r)'
      OBVIOUS
    <3>1. InHand(r) /\ r \in Requests
      BY DEF SerialInv, Serving
    <3> QED
      BY <2>1, <2>2, <3>1
      DEF InHand, LookUpsHold, OldIsTheHolder, MatchedTheHolder, FirstSession, HolderOf, MemoryAhead,
          PastMatch, ueVars
  <2>4. MemoryFollows' /\ SupersededIsTold' /\ RecordShowsItsAmf' /\ LocatedSession' /\ OneServed'
    BY <2>1, <2>2
    DEF SerialInv, MemoryFollows, MemoryAhead, SupersededIsTold, RecordShowsItsAmf, LocatedSession, OneServed
  <2> QED
    BY <1>0, <2>1, <2>3, <2>4 DEF SerialInv
<1> QED
  BY <1>1, <1>2, <1>3, <1>4 DEF Next

LEMMA SerialSafety ==
  ASSUME SerialInv
  PROVE  /\ MemoryMatchesUdr
         /\ SupersededIsNotified
         /\ RecordShowsItsAmf
         /\ LocationNamesTheSession
<1>1. AtRest => \A r \in Requests : pc[r] \in {"idle", "done"}
  BY DEF AtRest, Serving
<1>2. MemoryMatchesUdr
  BY <1>1 DEF MemoryMatchesUdr, SerialInv, MemoryFollows, MemoryAhead
<1>3. SupersededIsNotified
  BY <1>1 DEF SupersededIsNotified, SerialInv, SupersededIsTold, AmfRegs
<1> QED
  BY <1>2, <1>3 DEF SerialInv, LocatedSession, LocationNamesTheSession

LEMMA SerialInvariance ==
  ASSUME OneAtATime
  PROVE  Spec => []SerialInv
<1>1. SerialInv /\ [Next]_vars => SerialInv'
  BY NextSerialInv, OneAtATime
<1> QED
  BY InitSerialInv, <1>1, PTL DEF Spec

(* With requests one at a time and no failures, however many subscribers   *)
(* and requests, the memory and the UDR agree between requests on who      *)
(* holds each access.                                                      *)
THEOREM MemoryAgrees ==
  ASSUME OneAtATime
  PROVE  Spec => []MemoryMatchesUdr
<1>1. Spec => []SerialInv
  BY SerialInvariance
<1> QED
  BY <1>1, SerialSafety, PTL

(* In such a run, each AMF whose registration the UDR took and another one *)
(* has superseded has been told, between requests.                         *)
THEOREM SupersededAreTold ==
  ASSUME OneAtATime
  PROVE  Spec => []SupersededIsNotified
<1>1. Spec => []SerialInv
  BY SerialInvariance
<1> QED
  BY <1>1, SerialSafety, PTL

(* In such a run, an update never shows the GUAMI of another registration. *)
THEOREM RecordIsOfItsAmf ==
  ASSUME OneAtATime
  PROVE  Spec => []RecordShowsItsAmf
<1>1. Spec => []SerialInv
  BY SerialInvariance
<1> QED
  BY <1>1, SerialSafety, PTL

(* In such a run, the Location of a 201 names the session of its request.  *)
THEOREM LocationIsTheSession ==
  ASSUME OneAtATime
  PROVE  Spec => []LocationNamesTheSession
<1>1. Spec => []SerialInv
  BY SerialInvariance
<1> QED
  BY <1>1, SerialSafety, PTL
=============================================================================
