--------------------------- MODULE HandlerProofs ---------------------------
(***************************************************************************)
(* What the proofs about every service need of the handlers they share:    *)
(* which labels a step goes to, and that the shared steps keep the types.  *)
(***************************************************************************)
EXTENDS Handler, TLAPS

(* A handler has a request from its arrival on, and one for an SMF         *)
(* registration names a PDU session.                                       *)
HasRequest ==
  \A r \in Requests :
    /\ pc[r] = "idle" <=> req[r] = None
    /\ req[r] # None /\ req[r].kind \in SmfKinds => req[r].pdu # None

HandlerTyped == HandlerTypeOK /\ HasRequest

(* What a step of the handler of r may do to the control state.            *)
LEMMA LabelsOfSteps ==
  ASSUME NEW kind
  PROVE  FirstStep(kind) \in Labels \ {"idle"} /\ UdrStep(kind) \in Labels \ {"idle"}
  BY DEF FirstStep, UdrStep, Labels

LEMMA HandlerInitTyped == HandlerInit => HandlerTyped
<1> SUFFICES ASSUME HandlerInit PROVE HandlerTyped
  OBVIOUS
<1> USE DEF HandlerInit, UeInit
<1>1. UeTypeOK
  BY DEF UeTypeOK, NewContext, UdmUeContext
<1> QED
  BY <1>1, HandlerAssumption DEF HandlerTyped, HandlerTypeOK, HasRequest, Labels, Answers

(* The old registration and the old PDU session that a handler reads.      *)
LEMMA ContextReads ==
  ASSUME UeTypeOK, NEW s \in Supis, NEW a \in Accesses
  PROVE  /\ pool[s] \in Objects \cup {None}
         /\ GetAmfRegContext(s, a) \in Requests \cup {None}
         /\ GetPduSessionID(s) \in Pdus \cup {None}
<1> USE DEF UeTypeOK
<1>1. pool[s] \in Objects \cup {None}
  OBVIOUS
<1>2. \A o \in Objects : heap[o].amf[a] \in Requests \cup {None} /\ heap[o].pdu \in Pdus \cup {None}
  BY DEF UdmUeContext
<1> QED
  BY <1>1, <1>2 DEF GetAmfRegContext, GetPduSessionID, UdmUeFindBySupi

(* A context put into the pool.                                            *)
LEMMA StoredContext ==
  ASSUME UeTypeOK, NEW o \in Objects, NEW c \in UdmUeContext, c.supi \in Supis, StoreUe(o, c)
  PROVE  /\ UeTypeOK'
         /\ pool'[c.supi] = o /\ heap'[o] = c
         /\ \A s \in Supis \ {c.supi} : pool'[s] = pool[s]
         /\ \A p \in Objects \ {o} : heap'[p] = heap[p]
  BY DEF UeTypeOK, StoreUe

LEMMA NewContextTyped ==
  ASSUME NEW s \in Supis
  PROVE  NewContext(s) \in UdmUeContext /\ NewContext(s).supi = s
  BY DEF NewContext, UdmUeContext

(* A handler that is not idle serves a request of the right type.          *)
LEMMA RequestOf ==
  ASSUME HandlerTyped, NEW r \in Requests, pc[r] # "idle"
  PROVE  /\ req[r] \in Body
         /\ req[r].kind \in Kinds
         /\ req[r].supi \in Supis
         /\ req[r].access \in Accesses
         /\ req[r].amf \in Amfs \cup {None}
         /\ req[r].pdu \in Pdus \cup {None}
         /\ req[r].purge \in BOOLEAN
  BY DEF HandlerTyped, HandlerTypeOK, HasRequest, Body

(* What the steps have in common: one handler moves on, to a label other   *)
(* than "idle".                                                            *)
LEMMA MoveOf ==
  ASSUME HandlerTyped, NEW r \in Requests, pc[r] # "idle", UNCHANGED req,
         NEW l \in Labels \ {"idle"}, Goto(r, l)
  PROVE  /\ HasRequest' /\ pc' \in [Requests -> Labels]
         /\ \A q \in Requests : pc'[q] = IF q = r THEN l ELSE pc[q]
  BY DEF HandlerTyped, HandlerTypeOK, HasRequest, Goto

LEMMA ReplyOf ==
  ASSUME HandlerTyped, NEW r \in Requests, pc[r] # "idle", UNCHANGED req,
         NEW c \in Answers, Reply(r, c)
  PROVE  /\ HasRequest' /\ pc' \in [Requests -> Labels]
         /\ answer' \in [Requests -> Answers]
         /\ \A q \in Requests : /\ pc'[q] = IF q = r THEN "done" ELSE pc[q]
                                /\ answer'[q] = IF q = r THEN c ELSE answer[q]
<1>1. "done" \in Labels \ {"idle"} /\ Goto(r, "done")
  BY DEF Labels, Reply
<1>2. /\ HasRequest' /\ pc' \in [Requests -> Labels]
      /\ \A q \in Requests : pc'[q] = IF q = r THEN "done" ELSE pc[q]
  BY <1>1, MoveOf
<1> QED
  BY <1>2 DEF HandlerTyped, HandlerTypeOK, Reply

(* A step that leaves the contexts alone, and answers or moves on.         *)
LEMMA AdvanceTyped ==
  ASSUME HandlerTyped, NEW r \in Requests, pc[r] # "idle", UNCHANGED <<ueVars, req, ue, restarts>>,
         \/ UNCHANGED answer /\ \E l \in Labels \ {"idle"} : Goto(r, l)
         \/ \E c \in Answers : Reply(r, c)
  PROVE  HandlerTyped'
<1>1. HasRequest' /\ pc' \in [Requests -> Labels] /\ answer' \in [Requests -> Answers]
  <2>1. CASE \E c \in Answers : Reply(r, c)
    BY <2>1, ReplyOf
  <2>2. CASE UNCHANGED answer /\ \E l \in Labels \ {"idle"} : Goto(r, l)
    BY <2>2, MoveOf DEF HandlerTyped, HandlerTypeOK
  <2> QED
    BY <2>1, <2>2
<1> QED
  BY <1>1 DEF HandlerTyped, HandlerTypeOK, ueVars, UeTypeOK

LEMMA SharedStepTyped ==
  ASSUME HandlerTyped, NEW r \in Requests, SharedStep(r)
  PROVE  HandlerTyped'
<1> USE DEF HandlerTyped, HandlerTypeOK
<1>1. CASE FindUe(r)
  <2>1. pc[r] # "idle"
    BY <1>1 DEF FindUe, At
  <2>2. UdmUeFindBySupi(req[r].supi) \in Objects \cup {None}
    BY <2>1, RequestOf DEF UdmUeFindBySupi, UeTypeOK
  <2>3. PICK l \in {"new", "write"} : Goto(r, l)
    BY <1>1 DEF FindUe
  <2>4. l \in Labels \ {"idle"}
    BY DEF Labels
  <2>5. HasRequest' /\ pc' \in [Requests -> Labels]
    BY <1>1, <2>1, <2>3, <2>4, MoveOf DEF FindUe
  <2> QED
    BY <1>1, <2>2, <2>5 DEF FindUe, ueVars, UeTypeOK
<1>2. CASE CreateUe(r)
  <2>1. pc[r] # "idle" /\ "write" \in Labels \ {"idle"}
    BY <1>2 DEF CreateUe, At, Labels
  <2>2. <<r, "create">> \in Objects
    BY SitesAssumption DEF Objects
  <2>3. UeTypeOK'
    BY <1>2, <2>1, <2>2, RequestOf, NewContextTyped, StoredContext DEF CreateUe, NewUdmUe
  <2>4. HasRequest' /\ pc' \in [Requests -> Labels]
    BY <1>2, <2>1, MoveOf DEF CreateUe
  <2> QED
    BY <1>2, <2>2, <2>3, <2>4 DEF CreateUe
<1>3. CASE GetUdrUriFind(r)
  <2>1. pc[r] # "idle"
    BY <1>3 DEF GetUdrUriFind
  <2>2. PICK l \in {"clientNew", "discover"} : Goto(r, l)
    BY <1>3 DEF GetUdrUriFind
  <2>3. l \in Labels \ {"idle"}
    BY DEF Labels
  <2> QED
    BY <1>3, <2>1, <2>2, <2>3, AdvanceTyped DEF GetUdrUriFind
<1>4. CASE GetUdrUriCreate(r)
  <2>1. pc[r] # "idle" /\ "discover" \in Labels \ {"idle"}
    BY <1>4 DEF GetUdrUriCreate, Labels
  <2>2. <<r, "getUdrURI">> \in Objects
    BY SitesAssumption DEF Objects
  <2>3. UeTypeOK'
    BY <1>4, <2>1, <2>2, RequestOf, NewContextTyped, StoredContext DEF GetUdrUriCreate, NewUdmUe
  <2>4. HasRequest' /\ pc' \in [Requests -> Labels]
    BY <1>4, <2>1, MoveOf DEF GetUdrUriCreate
  <2> QED
    BY <1>4, <2>3, <2>4 DEF GetUdrUriCreate
<1>5. CASE Discover(r)
  <2>1. pc[r] # "idle" /\ "problem" \in Answers
    BY <1>5 DEF Discover, Answers
  <2> QED
    BY <1>5, <2>1, LabelsOfSteps, AdvanceTyped DEF Discover
<1> QED
  BY <1>1, <1>2, <1>3, <1>4, <1>5 DEF SharedStep

LEMMA ArrivalTyped ==
  ASSUME HandlerTyped, NEW r \in Requests, Arrive(r)
  PROVE  HandlerTyped'
<1>1. PICK b \in Bodies : req' = [req EXCEPT ![r] = b] /\ Goto(r, FirstStep(b.kind))
  BY DEF Arrive
<1>2. b \in Body /\ (b.kind \in SmfKinds => b.pdu # None)
  BY DEF Bodies
<1>3. FirstStep(b.kind) \in Labels \ {"idle"}
  BY LabelsOfSteps
<1>4. HasRequest'
  BY <1>1, <1>2, <1>3, BodyAssumption DEF HasRequest, HandlerTyped, HandlerTypeOK, Goto
<1>5. HandlerTypeOK'
  BY <1>1, <1>2, <1>3 DEF HandlerTyped, HandlerTypeOK, Arrive, Goto, ueVars, UeTypeOK
<1> QED
  BY <1>4, <1>5 DEF HandlerTyped

LEMMA RestartedTyped ==
  ASSUME HandlerTyped, Restart
  PROVE  HandlerTyped'
<1> USE DEF HandlerTyped
<1>1. HasRequest'
  BY DEF Restart, HasRequest, HandlerTypeOK, Serving
<1>2. UeTypeOK'
  BY DEF Restart, HandlerTypeOK, UeTypeOK
<1>3. restarts' \in 0..MaxRestarts
  BY HandlerAssumption DEF Restart, HandlerTypeOK
<1>4. pc' \in [Requests -> Labels] /\ answer' \in [Requests -> Answers]
  BY DEF Restart, HandlerTypeOK, Labels, Answers
<1> QED
  BY <1>1, <1>2, <1>3, <1>4 DEF Restart, HandlerTypeOK
=============================================================================
