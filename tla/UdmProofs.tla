----------------------------- MODULE UdmProofs ------------------------------
(***************************************************************************)
(* Proofs about Udm, for every value of its constants: the invariants of   *)
(* Uecm survive the steps of the SDM handlers, which write into the same   *)
(* contexts, and the subscriptions in the contexts are those of the UDR.   *)
(***************************************************************************)
EXTENDS Udm, UecmProofs

-----------------------------------------------------------------------------
(***************************************************************************)
(* The datasets of a retrieval.                                            *)
(***************************************************************************)
LEMMA DatasetsOfKinds ==
  /\ DatasetsOf("getAm") = <<"am">>
  /\ DatasetsOf("getNssai") = <<"nssai">>
  /\ DatasetsOf("getSm") = <<"sm">>
  /\ DatasetsOf("getSmfSel") = <<"smfSel">>
  /\ DatasetsOf("getTrace") = <<"trace">>
  /\ DatasetsOf("getUeCtxInSmf") = <<"ueCtxInSmf">>
  /\ DatasetsOf("getSupi") = <<"am", "smfSel", "trace", "sm", "ueCtxInSmf">>
  BY DEF DatasetsOf

LEMMA DatasetsTyped ==
  ASSUME NEW kind \in GetKinds
  PROVE  /\ Len(DatasetsOf(kind)) \in 1..5
         /\ \A i \in 1..Len(DatasetsOf(kind)) : DatasetsOf(kind)[i] \in Datasets
<1>1. CASE kind = "getSupi"
  <2> DEFINE d == <<"am", "smfSel", "trace", "sm", "ueCtxInSmf">>
  <2>1. Len(d) = 5 /\ \A i \in 1..5 : d[i] \in Datasets
    BY DEF Datasets
  <2> QED
    BY <1>1, <2>1, DatasetsOfKinds
<1>2. CASE kind # "getSupi"
  <2>1. PICK d \in Datasets : DatasetsOf(kind) = <<d>>
    BY <1>2, DatasetsOfKinds DEF GetKinds, Datasets
  <2>2. Len(<<d>>) = 1 /\ \A i \in 1..1 : <<d>>[i] \in Datasets
    OBVIOUS
  <2> QED
    BY <2>1, <2>2
<1> QED
  BY <1>1, <1>2

(* A retrieval that goes on has a dataset left to ask for.                 *)
Fetching ==
  \A r \in Requests :
    /\ pc[r] = "idle" => fetched[r] = 0
    /\ pc[r] \notin {"idle", "done"} /\ req[r].kind \in GetKinds =>
         fetched[r] < Len(DatasetsOf(req[r].kind))

LEMMA WantedTyped ==
  ASSUME SdmTypeOK, Fetching, NEW r \in Requests, pc[r] \notin {"idle", "done"},
         req[r].kind \in GetKinds
  PROVE  /\ Wanted(r) \in Datasets
         /\ fetched[r] + 1 \in 1..5
         /\ fetched[r] + 1 <= Len(DatasetsOf(req[r].kind))
<1>1. fetched[r] \in Nat /\ fetched[r] < Len(DatasetsOf(req[r].kind))
  BY DEF SdmTypeOK, Fetching
<1>2. Len(DatasetsOf(req[r].kind)) \in 1..5
  BY DatasetsTyped
<1>3. fetched[r] + 1 \in 1..Len(DatasetsOf(req[r].kind))
  BY <1>1, <1>2
<1> QED
  BY <1>1, <1>2, <1>3, DatasetsTyped DEF Wanted

-----------------------------------------------------------------------------
(***************************************************************************)
(* The inductive invariant.                                                *)
(***************************************************************************)

(* A context holds subscriptions that the UDR took for its subscriber, and *)
(* a handler that is about to add one has the UDR's answer.                *)
SubscriptionsTaken ==
  /\ \A o \in Objects : heap[o].supi \in Supis => heap[o].subs \subseteq udrSubs[heap[o].supi]
  /\ \A r \in Requests :
       pc[r] \in {"find", "new", "write"} /\ req[r].kind = "subscribe" => r \in udrSubs[req[r].supi]

SharedTaken ==
  /\ sharedSubs \subseteq takenShared
  /\ \A r \in Requests : pc[r] = "store" /\ req[r].kind = "subscribeShared" => r \in takenShared

SdmInv == SdmTypeOK /\ Fetching /\ SubscriptionsTaken /\ SharedTaken

UdmInv == RecordInv /\ SdmInv

LEMMA InitUdmInv == UdmInit => UdmInv
<1> SUFFICES ASSUME UdmInit PROVE UdmInv
  OBVIOUS
<1>1. RecordInv
  BY InitRecordInv DEF UdmInit
<1>2. SdmTypeOK
  BY DEF UdmInit, SdmInit, SdmTypeOK
<1>3. \A r \in Requests : pc[r] = "idle"
  BY DEF UdmInit, Init, HandlerInit
<1>4. Fetching /\ SharedTaken
  BY <1>3 DEF UdmInit, SdmInit, Fetching, SharedTaken
<1>5. SubscriptionsTaken
  <2>1. \A o \in Objects : heap[o].supi = None
    BY DEF UdmInit, Init, HandlerInit, UeInit, NewContext
  <2> QED
    BY <1>3, <2>1, NoneAssumption DEF SubscriptionsTaken
<1> QED
  BY <1>1, <1>2, <1>4, <1>5 DEF UdmInv, SdmInv

(* A step of one handler that leaves the SDM service's own variables and   *)
(* the subscriptions in the contexts as they are.                          *)
LEMMA OtherStepKeepsSdm ==
  ASSUME UdmInv, NEW r \in Requests, SameRequests, UNCHANGED sdmVars,
         NEW l \in Labels \ {"idle"}, Goto(r, l), pc[r] \notin {"idle", "done"},
         l \in {"find", "new", "write"} /\ req[r].kind = "subscribe" => pc[r] \in {"find", "new", "write"},
         l # "store" \/ req[r].kind # "subscribeShared",
         \A o \in Objects : \/ heap'[o].supi = heap[o].supi /\ heap'[o].subs = heap[o].subs
                            \/ heap'[o].subs = {}
  PROVE  SdmInv'
<1>1. /\ \A q \in Requests : pc'[q] = IF q = r THEN l ELSE pc[q]
      /\ \A q \in Requests : req'[q].kind = req[q].kind /\ req'[q].supi = req[q].supi
  BY SameFields DEF UdmInv, RecordInv, Inv, Typed, TypeOK, HandlerTypeOK, Goto
<1>2. /\ UNCHANGED <<fetched, udrSubs, sharedSubs, sharedData, takenShared>>
      /\ SdmTypeOK /\ Fetching /\ SubscriptionsTaken /\ SharedTaken
  BY DEF sdmVars, sharedVars, UdmInv, SdmInv
<1>3. SdmTypeOK'
  BY <1>2 DEF SdmTypeOK
<1>4. Fetching'
  BY <1>1, <1>2 DEF Fetching
<1>5. SubscriptionsTaken'
  BY <1>1, <1>2 DEF SubscriptionsTaken
<1>6. SharedTaken'
  BY <1>1, <1>2 DEF SharedTaken
<1> QED
  BY <1>3, <1>4, <1>5, <1>6 DEF SdmInv

(* What the assignments of Uecm through a pointer leave alone.             *)
LEMMA UecmKeepsSubscriptions ==
  ASSUME UdmInv, NEW r \in Requests, UecmStep(r), NEW o \in Objects
  PROVE  heap'[o].supi = heap[o].supi /\ heap'[o].subs = heap[o].subs
<1>0. heap \in [Objects -> UdmUeContext]
  BY DEF UdmInv, RecordInv, Inv, Typed, TypeOK, HandlerTypeOK, UeTypeOK
<1>1. CASE CreateAmfRegContext(r)
  BY <1>0, <1>1 DEF CreateAmfRegContext, SetAmfRegContext, UdmUeContext
<1>2. CASE CreateSmfRegContext(r)
  BY <1>0, <1>2 DEF CreateSmfRegContext, SetPduSessionID, UdmUeContext
<1>3. CASE UNCHANGED heap
  BY <1>3
<1> QED
  BY <1>1, <1>2, <1>3
  DEF UecmStep, AmfRegistration, ReadOldRegistration, UdrCreateAmf, NotifyOldAmf, AnswerReplaced,
      AnswerCreated, AmfUpdate, FindCurrentContext, CheckGuami, UdrPatchAmf, UdrReadAmf,
      SmfRegistration, ReadPduSessionID, TestPduSessionID, AuthorizeSmf, UdrCreateSmf, AnswerSmf,
      UdrDeleteSmf, ueVars

LEMMA UecmMoves ==
  ASSUME NEW r \in Requests, UecmStep(r)
  PROVE  /\ pc[r] \notin {"idle", "done"}
         /\ req[r].kind \in UecmKinds
         /\ \E l \in Labels \ {"idle", "store"} : Goto(r, l)
         /\ CheckGuami(r) \/ UNCHANGED req
<1>1. CASE AmfRegistration(r)
  BY <1>1 DEF AmfRegistration, ReadOldRegistration, CreateAmfRegContext, UdrCreateAmf, UdrRefuses,
              UdrFails, NotifyOldAmf, AnswerReplaced, AnswerCreated, At, Reply, Labels,
              UecmKinds, AmfKinds
<1>2. CASE AmfUpdate(r)
  BY <1>2 DEF AmfUpdate, FindCurrentContext, CheckGuami, UdrPatchAmf, UdrReadAmf, UdrRefuses,
              UdrFails, At, Reply, Labels, UecmKinds, AmfKinds
<1>3. CASE SmfRegistration(r)
  BY <1>3 DEF SmfRegistration, ReadPduSessionID, TestPduSessionID, CreateSmfRegContext,
              AuthorizeSmf, UdrCreateSmf, AnswerSmf, UdrDeleteSmf, UdrRefuses, UdrFails, At, Reply,
              Labels, UecmKinds, SmfKinds
<1> QED
  BY <1>1, <1>2, <1>3 DEF UecmStep

LEMMA UecmKeepsSdm ==
  ASSUME UdmInv, NEW r \in Requests, UecmStep(r), UNCHANGED sdmVars
  PROVE  SdmInv'
<1>1. /\ pc[r] \notin {"idle", "done"}
      /\ req[r].kind \notin {"subscribe", "subscribeShared"}
  BY UecmMoves DEF UecmKinds, AmfKinds, SmfKinds
<1>2. PICK l \in Labels \ {"idle", "store"} : Goto(r, l)
  BY UecmMoves
<1>3. SameRequests
  BY <1>1, UecmMoves, UnchangedRequests, PurgeIsAllThatChanges DEF CheckGuami, UdmInv, RecordInv
<1> QED
  BY <1>1, <1>2, <1>3, UecmKeepsSubscriptions, OtherStepKeepsSdm

LEMMA NewContextsKeepSubscriptions ==
  ASSUME UdmInv, NEW r \in Requests, NEW x \in Sites, NEW c \in UdmUeContext, c.subs = {},
         StoreUe(<<r, x>>, c), NEW o \in Objects
  PROVE  \/ heap'[o].supi = heap[o].supi /\ heap'[o].subs = heap[o].subs
         \/ heap'[o].subs = {}
  BY DEF StoreUe, Objects, UdmInv, RecordInv, Inv, Typed, TypeOK, HandlerTypeOK, UeTypeOK

LEMMA SharedKeepsSdm ==
  ASSUME UdmInv, NEW r \in Requests, SharedStep(r), UNCHANGED sdmVars
  PROVE  SdmInv'
<1>1. UNCHANGED req /\ pc[r] \notin {"idle", "done"} /\ SameRequests
  BY UnchangedRequests
  DEF SharedStep, FindUe, CreateUe, GetUdrUriFind, GetUdrUriCreate, Discover, At
<1>2. UdrStep("subscribe") = "udr"
  BY DEF UdrStep, PlaceholderKinds
<1>3. PICK l \in Labels \ {"idle", "store"} :
        /\ Goto(r, l)
        /\ \/ pc[r] \in {"find", "new", "write"}
           \/ l \in {"clientNew", "discover", "udr", "done"} \/ req[r].kind # "subscribe"
  BY <1>2
  DEF SharedStep, FindUe, CreateUe, GetUdrUriFind, GetUdrUriCreate, Discover, UdrStep, Reply, Labels, At
<1>4. ASSUME NEW o \in Objects
      PROVE  \/ heap'[o].supi = heap[o].supi /\ heap'[o].subs = heap[o].subs
             \/ heap'[o].subs = {}
  <2>1. CASE UNCHANGED heap
    BY <2>1
  <2>2. CASE \E x \in Sites : NewUdmUe(<<r, x>>, req[r].supi)
    <3>1. PICK x \in Sites : StoreUe(<<r, x>>, NewContext(req[r].supi))
      BY <2>2 DEF NewUdmUe
    <3>2. NewContext(req[r].supi) \in UdmUeContext /\ NewContext(req[r].supi).subs = {}
      BY <1>1, RequestTyped, NewContextTyped DEF UdmInv, RecordInv, Inv, NewContext
    <3> QED
      BY <3>1, <3>2, NewContextsKeepSubscriptions
  <2> QED
    BY <2>1, <2>2, SitesAssumption
    DEF SharedStep, FindUe, CreateUe, GetUdrUriFind, GetUdrUriCreate, Discover, ueVars
<1> QED
  BY <1>1, <1>3, <1>4, OtherStepKeepsSdm

-----------------------------------------------------------------------------
(***************************************************************************)
(* The steps of the SDM handlers.                                          *)
(***************************************************************************)

(* Those that leave the contexts alone.                                    *)
Asks(r) ==
  \/ QueryUdr(r) \/ CreateSdmSubscription(r) \/ ChangeSubscription(r)
  \/ AskUdr(r) \/ QuerySharedData(r)
  \/ SubscribeToSharedData(r) \/ CreateSubstoNotifSharedData(r) \/ UnsubscribeForSharedData(r)
  \/ DataChangeNotification(r)

LEMMA SdmSteps ==
  ASSUME NEW r \in Requests
  PROVE  SdmStep(r) <=> \/ Asks(r) \/ PutPlaceholder(r) \/ StoreDataset(r)
                        \/ CreateSubscriptiontoNotifChange(r)
  BY DEF SdmStep, Asks

LEMMA AsksMove ==
  ASSUME NEW r \in Requests, Asks(r)
  PROVE  /\ UNCHANGED <<ueVars, req, ue, restarts>>
         /\ pc[r] \in {"exists", "udr", "store"} /\ req[r].kind \notin UecmKinds
         /\ \/ \E c \in Answers \ {"none"} : Reply(r, c)
            \/ UNCHANGED answer /\ Goto(r, "store") /\ QueryUdr(r)
            \/ UNCHANGED answer /\ Goto(r, "store") /\ SubscribeToSharedData(r)
            \/ UNCHANGED answer /\ Goto(r, "find") /\ CreateSdmSubscription(r)
<1> USE DEF Answers, At, UecmKinds, AmfKinds, SmfKinds, UdrFails
<1>1. CASE QueryUdr(r)
  BY <1>1 DEF QueryUdr, GetKinds
<1>2. CASE CreateSdmSubscription(r)
  BY <1>2 DEF CreateSdmSubscription
<1>3. CASE ChangeSubscription(r)
  BY <1>3 DEF ChangeSubscription
<1>4. CASE AskUdr(r)
  BY <1>4 DEF AskUdr, AskKinds
<1>5. CASE QuerySharedData(r)
  BY <1>5 DEF QuerySharedData
<1>6. CASE SubscribeToSharedData(r)
  BY <1>6 DEF SubscribeToSharedData
<1>7. CASE CreateSubstoNotifSharedData(r)
  BY <1>7 DEF CreateSubstoNotifSharedData
<1>8. CASE UnsubscribeForSharedData(r)
  BY <1>8 DEF UnsubscribeForSharedData
<1>9. CASE DataChangeNotification(r)
  BY <1>9 DEF DataChangeNotification
<1> QED
  BY <1>1, <1>2, <1>3, <1>4, <1>5, <1>6, <1>7, <1>8, <1>9 DEF Asks

(* A step of this service that leaves those of Uecm alone is quiet.        *)
LEMMA AsksKeepInv ==
  ASSUME Inv, NEW r \in Requests, Asks(r), UNCHANGED uecmVars
  PROVE  Inv'
<1>1. /\ UNCHANGED <<ueVars, req, ue, restarts>>
      /\ pc[r] \in {"exists", "udr", "store"} /\ req[r].kind \notin UecmKinds
      /\ \/ \E c \in Answers \ {"none"} : Reply(r, c)
         \/ UNCHANGED answer /\ \E l \in {"store", "find"} : Goto(r, l)
  BY AsksMove
<1>2. HandlerTyped'
  BY <1>1, TypedHandlers, AdvanceTyped DEF Inv, Labels
<1>3. Typed'
  BY <1>2, TypedHandlers DEF Typed, TypeOK, HandlerTyped, Inv, UecmTypeOK, uecmVars, udrVars
<1>4. /\ SameContexts(r) /\ SameRequests /\ accepted' = accepted /\ r \notin AmfRegs
  BY <1>1, UnchangedContexts, UnchangedRequests DEF uecmVars, udrVars, AmfRegs, UecmKinds, AmfKinds
<1>5. CASE \E c \in Answers \ {"none"} : Reply(r, c)
  BY <1>1, <1>3, <1>4, <1>5, AnswerIsQuiet, QuietKeepsInv
<1>6. CASE UNCHANGED answer /\ \E l \in {"store", "find"} : Goto(r, l)
  BY <1>1, <1>3, <1>4, <1>6, MoveIsQuiet, QuietKeepsInv DEF Labels
<1> QED
  BY <1>1, <1>5, <1>6

(* The two that write through a pointer.                                   *)
LEMMA WritesTyped ==
  ASSUME UdmInv, NEW r \in Requests, PutPlaceholder(r) \/ CreateSubscriptiontoNotifChange(r)
  PROVE  /\ heap' \in [Objects -> UdmUeContext]
         /\ \A o \in Objects : /\ heap'[o].supi = heap[o].supi /\ heap'[o].amf = heap[o].amf
                               /\ \/ heap'[o].subs = heap[o].subs
                                  \/ /\ CreateSubscriptiontoNotifChange(r)
                                     /\ o = ue[r] /\ heap'[o].subs = heap[o].subs \cup {r}
<1>1. heap \in [Objects -> UdmUeContext]
  BY DEF UdmInv, RecordInv, Inv, Typed, TypeOK, HandlerTypeOK, UeTypeOK
<1>2. PICK o \in Objects \cup {None} : o = ue[r]
  BY DEF UdmInv, RecordInv, Inv, Typed, TypeOK, HandlerTypeOK
<1>3. CASE o = None
  BY <1>1, <1>2, <1>3, NoneAssumption DEF PutPlaceholder, CreateSubscriptiontoNotifChange
<1>4. CASE o \in Objects /\ PutPlaceholder(r)
  <2> DEFINE new == [heap[o] EXCEPT !.data = heap[o].data \ {Wanted(r)}]
  <2>1. heap' = [heap EXCEPT ![o] = new]
    BY <1>1, <1>2, <1>4 DEF PutPlaceholder
  <2>2. new \in UdmUeContext
    BY <1>1, <1>4 DEF UdmUeContext
  <2>3. new.supi = heap[o].supi /\ new.amf = heap[o].amf /\ new.subs = heap[o].subs
    BY <1>1, <1>4 DEF UdmUeContext
  <2> HIDE DEF new
  <2> QED
    BY <1>1, <1>4, <2>1, <2>2, <2>3
<1>5. CASE o \in Objects /\ CreateSubscriptiontoNotifChange(r)
  <2> DEFINE new == [heap[o] EXCEPT !.subs = heap[o].subs \cup {r}]
  <2>1. heap' = [heap EXCEPT ![o] = new]
    BY <1>1, <1>2, <1>5 DEF CreateSubscriptiontoNotifChange
  <2>2. new \in UdmUeContext
    BY <1>1, <1>5 DEF UdmUeContext
  <2>3. new.supi = heap[o].supi /\ new.amf = heap[o].amf /\ new.subs = heap[o].subs \cup {r}
    BY <1>1, <1>5 DEF UdmUeContext
  <2> HIDE DEF new
  <2> QED
    BY <1>1, <1>2, <1>5, <2>1, <2>2, <2>3
<1> QED
  BY <1>3, <1>4, <1>5

LEMMA WritesKeepInv ==
  ASSUME UdmInv, NEW r \in Requests, UNCHANGED uecmVars,
         PutPlaceholder(r) \/ CreateSubscriptiontoNotifChange(r)
  PROVE  Inv'
<1>0. Inv
  BY DEF UdmInv, RecordInv
<1>1. /\ UNCHANGED <<pool, req, ue, restarts, before, notified, accepted, udrAmf, udrSmf, location>>
      /\ pc[r] = "write" /\ req[r].kind \notin UecmKinds
      /\ \/ UNCHANGED answer /\ Goto(r, "udr")
         \/ Reply(r, "created")
  BY DEF PutPlaceholder, CreateSubscriptiontoNotifChange, At, PlaceholderKinds, UecmKinds, AmfKinds,
         SmfKinds, uecmVars, udrVars
<1>2. HasRequest' /\ pc' \in [Requests -> Labels] /\ answer' \in [Requests -> Answers]
  <2>1. CASE UNCHANGED answer /\ Goto(r, "udr")
    BY <1>0, <1>1, <2>1, TypedHandlers, MoveOf DEF Inv, HandlerTyped, HandlerTypeOK, Labels
  <2>2. CASE Reply(r, "created")
    BY <1>0, <1>1, <2>2, TypedHandlers, ReplyOf DEF Inv, Answers
  <2> QED
    BY <1>1, <2>1, <2>2
<1>3. Typed'
  BY <1>0, <1>1, <1>2, WritesTyped DEF Inv, Typed, TypeOK, HandlerTypeOK, UeTypeOK, UecmTypeOK
<1>4. SameContexts(r) /\ SameRequests /\ r \notin AmfRegs
  BY <1>1, WritesTyped, UnchangedRequests
  DEF SameContexts, SameRegistrations, AmfRegs, UecmKinds, AmfKinds
<1>5. CASE UNCHANGED answer /\ Goto(r, "udr")
  BY <1>0, <1>1, <1>3, <1>4, <1>5, MoveIsQuiet, QuietKeepsInv DEF Labels
<1>6. CASE Reply(r, "created")
  BY <1>0, <1>1, <1>3, <1>4, <1>6, AnswerIsQuiet, QuietKeepsInv DEF Answers
<1> QED
  BY <1>1, <1>5, <1>6

(* A retrieval replaces the context.                                       *)
LEMMA StoreDatasetStores ==
  ASSUME UdmInv, NEW r \in Requests, StoreDataset(r)
  PROVE  /\ Wanted(r) \in Sites
         /\ \E c \in UdmUeContext : /\ c.supi = req[r].supi /\ c.subs = {}
                                    /\ \A a \in Accesses : c.amf[a] = None
                                    /\ StoreUe(<<r, Wanted(r)>>, c)
<1> DEFINE n == NewContext(req[r].supi)
           c == [n EXCEPT !.data = {Wanted(r)}]
<1>1. pc[r] = "store" /\ req[r].kind \in GetKinds
  BY DEF StoreDataset, At
<1>2. Wanted(r) \in Datasets
  BY <1>1, WantedTyped DEF UdmInv, SdmInv
<1>3. n \in UdmUeContext /\ n.supi = req[r].supi /\ n.subs = {} /\ \A a \in Accesses : n.amf[a] = None
  BY <1>1, RequestTyped, NewContextTyped DEF UdmInv, RecordInv, Inv, NewContext
<1>4. StoreUe(<<r, Wanted(r)>>, c)
  BY DEF StoreDataset
<1> HIDE DEF n
<1>5. c \in UdmUeContext /\ c.supi = n.supi /\ c.subs = n.subs /\ c.amf = n.amf
  BY <1>2, <1>3 DEF UdmUeContext
<1> QED
  BY <1>2, <1>3, <1>4, <1>5, SdmAssumption

LEMMA StoreDatasetKeepsInv ==
  ASSUME UdmInv, NEW r \in Requests, StoreDataset(r), UNCHANGED uecmVars
  PROVE  Inv'
<1>0. Inv /\ HandlerTyped
  BY TypedHandlers DEF UdmInv, RecordInv, Inv
<1>1. /\ UNCHANGED <<req, ue, restarts>> /\ pc[r] = "store" /\ req[r].kind \in GetKinds
      /\ (Goto(r, "udr") /\ UNCHANGED answer) \/ Reply(r, "content")
  BY DEF StoreDataset, At
<1>2. PICK c \in UdmUeContext : /\ c.supi = req[r].supi
                                /\ \A a \in Accesses : c.amf[a] = None
                                /\ StoreUe(<<r, Wanted(r)>>, c)
  BY StoreDatasetStores
<1>3. Wanted(r) \in Sites /\ <<r, Wanted(r)>> \in Objects /\ c.supi \in Supis
  BY <1>0, <1>1, <1>2, RequestOf, StoreDatasetStores DEF Objects
<1>4. UeTypeOK'
  BY <1>0, <1>2, <1>3, StoredContext DEF HandlerTyped, HandlerTypeOK
<1>5. /\ HasRequest' /\ pc' \in [Requests -> Labels] /\ answer' \in [Requests -> Answers]
      /\ \A q \in Requests \ {r} : answer'[q] = answer[q]
      /\ \/ Goto(r, "udr") /\ answer'[r] = "none"
         \/ Goto(r, "done") /\ answer'[r] = "content"
  <2>1. CASE Goto(r, "udr") /\ UNCHANGED answer
    <3>0. "udr" \in Labels \ {"idle"} /\ pc[r] # "idle" /\ HandlerTyped /\ Goto(r, "udr")
      BY <1>0, <1>1, <2>1 DEF Labels
    <3>1. HasRequest' /\ pc' \in [Requests -> Labels]
      BY <1>1, <3>0, MoveOf
    <3>2. answer \in [Requests -> Answers] /\ answer[r] = "none"
      BY <1>0, <1>1 DEF HandlerTyped, HandlerTypeOK, Inv, Answered
    <3> QED
      BY <2>1, <3>1, <3>2
  <2>2. CASE Reply(r, "content")
    BY <1>0, <1>1, <2>2, ReplyOf DEF Answers, Reply
  <2> QED
    BY <1>1, <2>1, <2>2
<1>6. Typed'
  BY <1>0, <1>1, <1>4, <1>5
  DEF Inv, Typed, TypeOK, HandlerTypeOK, UecmTypeOK, uecmVars, udrVars
<1>7. PICK l \in {"udr", "done"} : Goto(r, l) /\ (answer'[r] # "none" <=> l = "done")
                                   /\ answer'[r] \notin {"created", "noContent"}
  BY <1>5
<1> QED
  BY <1>0, <1>1, <1>2, <1>3, <1>5, <1>6, <1>7, StoreUeKeepsInv

LEMMA SdmKeepsInv ==
  ASSUME UdmInv, NEW r \in Requests, SdmStep(r), UNCHANGED uecmVars
  PROVE  Inv'
  BY SdmSteps, AsksKeepInv, WritesKeepInv, StoreDatasetKeepsInv DEF UdmInv, RecordInv

(* No step of this service is one of an AMF registration or update.        *)
LEMMA SdmMoves ==
  ASSUME NEW r \in Requests, SdmStep(r)
  PROVE  /\ UNCHANGED req /\ pc[r] \notin {"idle", "done"} /\ req[r].kind \notin UecmKinds
         /\ \E l \in Labels \ {"idle"} : Goto(r, l)
<1>1. CASE Asks(r)
  BY <1>1, AsksMove DEF Reply, Labels
<1>2. CASE PutPlaceholder(r) \/ CreateSubscriptiontoNotifChange(r) \/ StoreDataset(r)
  BY <1>2 DEF PutPlaceholder, CreateSubscriptiontoNotifChange, StoreDataset, At, PlaceholderKinds,
              GetKinds, UecmKinds, AmfKinds, SmfKinds, Reply, Labels
<1> QED
  BY <1>1, <1>2, SdmSteps

LEMMA SdmKeepsRecords ==
  ASSUME UdmInv, NEW r \in Requests, SdmStep(r), UNCHANGED uecmVars
  PROVE  RecordInv'
<1>1. /\ SameRequests /\ r \notin AmfRegs /\ req[r].kind # "amfUpdate"
      /\ UNCHANGED <<udrAmf, accepted>>
      /\ \E l \in Labels \ {"idle"} : Goto(r, l)
  BY SdmMoves, UnchangedRequests DEF UecmKinds, AmfKinds, AmfRegs, uecmVars, udrVars
<1> QED
  BY <1>1, SdmKeepsInv, GoKeepsRecords DEF UdmInv

(* The SDM service's own part.                                             *)
LEMMA AsksKeepSdm ==
  ASSUME UdmInv, NEW r \in Requests, Asks(r)
  PROVE  SdmInv'
<1>1. /\ SdmTypeOK /\ Fetching /\ SubscriptionsTaken /\ SharedTaken
      /\ UNCHANGED <<pool, heap, req, fetched>>
      /\ pc[r] \in {"exists", "udr", "store"}
      /\ req[r].supi \in Supis
  BY AsksMove, RequestTyped DEF UdmInv, SdmInv, RecordInv, Inv, ueVars, Asks, QueryUdr,
     CreateSdmSubscription, ChangeSubscription, AskUdr, QuerySharedData, SubscribeToSharedData,
     CreateSubstoNotifSharedData, UnsubscribeForSharedData, DataChangeNotification, sdmVars
<1>2. PICK l \in {"done", "store", "find"} :
        /\ Goto(r, l)
        /\ l = "store" => QueryUdr(r) \/ (SubscribeToSharedData(r) /\ UNCHANGED answer)
        /\ l = "find" => CreateSdmSubscription(r)
  BY AsksMove DEF Reply
<1>3. \A q \in Requests : pc'[q] = IF q = r THEN l ELSE pc[q]
  BY <1>2 DEF UdmInv, RecordInv, Inv, Typed, TypeOK, HandlerTypeOK, Goto
<1>4. \/ udrSubs' = udrSubs /\ l # "find"
      \/ udrSubs' = [udrSubs EXCEPT ![req[r].supi] = @ \cup {r}]
  <2>1. CASE CreateSdmSubscription(r)
    <3>1. CASE udrSubs' = [udrSubs EXCEPT ![req[r].supi] = @ \cup {r}]
      BY <3>1
    <3>2. CASE udrSubs' = udrSubs /\ \E c \in {"problem", "crash"} : Reply(r, c)
      BY <1>2, <1>3, <3>2 DEF Reply, Goto, UdmInv, RecordInv, Inv, Typed, TypeOK, HandlerTypeOK
    <3> QED
      BY <2>1, <3>1, <3>2 DEF CreateSdmSubscription, UdrFails
  <2>2. CASE ~ CreateSdmSubscription(r)
    BY <1>2, <2>2 DEF Asks, QueryUdr, ChangeSubscription, AskUdr, QuerySharedData,
       SubscribeToSharedData, CreateSubstoNotifSharedData, UnsubscribeForSharedData,
       DataChangeNotification, sdmVars
  <2> QED
    BY <2>1, <2>2
<1>5. /\ takenShared' \in {takenShared, takenShared \cup {r}}
      /\ \/ sharedSubs' = sharedSubs
         \/ sharedSubs' = sharedSubs \cup {r} /\ r \in takenShared
      /\ l = "store" /\ req[r].kind = "subscribeShared" => r \in takenShared'
      /\ sharedData' \in {sharedData, r}
  <2>1. CASE SubscribeToSharedData(r)
    <3>1. CASE takenShared' = takenShared \cup {r}
      BY <2>1, <3>1 DEF SubscribeToSharedData
    <3>2. CASE takenShared' = takenShared /\ \E c \in {"problem", "crash"} : Reply(r, c)
      <4>1. l = "done"
        BY <1>2, <1>3, <3>2 DEF Reply, Goto, UdmInv, RecordInv, Inv, Typed, TypeOK, HandlerTypeOK
      <4> QED
        BY <2>1, <3>2, <4>1 DEF SubscribeToSharedData
    <3> QED
      BY <2>1, <3>1, <3>2 DEF SubscribeToSharedData, UdrFails
  <2>2. CASE CreateSubstoNotifSharedData(r)
    <3>1. r \in takenShared
      BY <1>1, <2>2 DEF CreateSubstoNotifSharedData, At, SharedTaken
    <3>2. l = "done"
      BY <1>2, <1>3, <2>2
      DEF CreateSubstoNotifSharedData, Reply, Goto, UdmInv, RecordInv, Inv, Typed, TypeOK, HandlerTypeOK
    <3> QED
      BY <2>2, <3>1, <3>2 DEF CreateSubstoNotifSharedData
  <2>3. CASE ~ SubscribeToSharedData(r) /\ ~ CreateSubstoNotifSharedData(r)
    <3>1. /\ UNCHANGED <<sharedSubs, takenShared>> /\ sharedData' \in {sharedData, r}
      BY <2>3 DEF Asks, QueryUdr, CreateSdmSubscription, ChangeSubscription, AskUdr,
         QuerySharedData, UnsubscribeForSharedData, DataChangeNotification, sdmVars, sharedVars
    <3>2. l = "store" => req[r].kind # "subscribeShared"
      BY <1>2, <2>3 DEF QueryUdr, At, GetKinds
    <3> QED
      BY <3>1, <3>2
  <2> QED
    BY <2>1, <2>2, <2>3
<1>6. SdmTypeOK'
  BY <1>1, <1>4, <1>5 DEF SdmTypeOK
<1>7. Fetching'
  BY <1>1, <1>3 DEF Fetching
<1>8. SubscriptionsTaken'
  <2>1. \A s \in Supis : udrSubs[s] \subseteq udrSubs'[s]
    BY <1>1, <1>4 DEF SdmTypeOK
  <2>2. l = "find" => r \in udrSubs'[req[r].supi]
    BY <1>1, <1>4 DEF SdmTypeOK
  <2>3. \A q \in Requests : q # r /\ pc[q] \in {"find", "new", "write"} => req[q].supi \in Supis
    BY RequestTyped DEF UdmInv, RecordInv, Inv
  <2> QED
    BY <1>1, <1>3, <2>1, <2>2, <2>3 DEF SubscriptionsTaken
<1>9. SharedTaken'
  BY <1>1, <1>3, <1>5 DEF SharedTaken
<1> QED
  BY <1>6, <1>7, <1>8, <1>9 DEF SdmInv

LEMMA PutPlaceholderKeepsSdm ==
  ASSUME UdmInv, NEW r \in Requests, PutPlaceholder(r)
  PROVE  SdmInv'
<1>1. /\ UNCHANGED req /\ UNCHANGED sdmVars /\ Goto(r, "udr") /\ "udr" \in Labels \ {"idle"}
      /\ pc[r] \notin {"idle", "done"} /\ SameRequests
  BY UnchangedRequests DEF PutPlaceholder, At, Labels
<1>2. \A o \in Objects : heap'[o].supi = heap[o].supi /\ heap'[o].subs = heap[o].subs
  <2>1. ~ CreateSubscriptiontoNotifChange(r)
    BY DEF PutPlaceholder, CreateSubscriptiontoNotifChange, At, PlaceholderKinds
  <2> QED
    BY <2>1, WritesTyped
<1> QED
  BY <1>1, <1>2, OtherStepKeepsSdm

(* The entry is made for a subscription that the UDR has taken, and in a   *)
(* context of its subscriber.                                              *)
LEMMA CreateSubscriptionKeepsSdm ==
  ASSUME UdmInv, NEW r \in Requests, CreateSubscriptiontoNotifChange(r)
  PROVE  SdmInv'
<1>1. /\ SdmTypeOK /\ Fetching /\ SubscriptionsTaken /\ SharedTaken
      /\ UNCHANGED <<req, fetched, udrSubs, sharedSubs, sharedData, takenShared>>
      /\ pc[r] = "write" /\ req[r].kind = "subscribe"
  BY DEF UdmInv, SdmInv, CreateSubscriptiontoNotifChange, At, sdmVars, sharedVars
<1>2. \A q \in Requests : pc'[q] = IF q = r THEN "done" ELSE pc[q]
  BY DEF CreateSubscriptiontoNotifChange, Reply, Goto, UdmInv, RecordInv, Inv, Typed, TypeOK,
         HandlerTypeOK
<1>3. SdmTypeOK' /\ Fetching' /\ SharedTaken'
  BY <1>1, <1>2 DEF SdmTypeOK, Fetching, SharedTaken
<1>4. heap[ue[r]].supi = req[r].supi /\ r \in udrSubs[req[r].supi]
  BY <1>1 DEF SubscriptionsTaken, UdmInv, RecordInv, Inv, PointersOwned
<1>5. \A o \in Objects : /\ heap'[o].supi = heap[o].supi
                         /\ \/ heap'[o].subs = heap[o].subs
                            \/ o = ue[r] /\ heap'[o].subs = heap[o].subs \cup {r}
  BY WritesTyped
<1>6. SubscriptionsTaken'
  BY <1>1, <1>2, <1>4, <1>5 DEF SubscriptionsTaken
<1> QED
  BY <1>3, <1>6 DEF SdmInv

LEMMA StoreDatasetKeepsSdm ==
  ASSUME UdmInv, NEW r \in Requests, StoreDataset(r)
  PROVE  SdmInv'
<1>1. /\ SdmTypeOK /\ Fetching /\ SubscriptionsTaken /\ SharedTaken
      /\ UNCHANGED <<req, udrSubs, sharedSubs, sharedData, takenShared>>
      /\ pc[r] = "store" /\ req[r].kind \in GetKinds
  BY DEF UdmInv, SdmInv, StoreDataset, At, sharedVars
<1>2. /\ fetched' = [fetched EXCEPT ![r] = @ + 1]
      /\ \/ fetched[r] + 1 < Len(DatasetsOf(req[r].kind)) /\ Goto(r, "udr")
         \/ Goto(r, "done")
  BY DEF StoreDataset, Reply
<1>3. fetched[r] + 1 \in 1..5
  BY <1>1, WantedTyped
<1>4. PICK l \in {"udr", "done"} :
        /\ \A q \in Requests : pc'[q] = IF q = r THEN l ELSE pc[q]
        /\ l = "udr" => fetched[r] + 1 < Len(DatasetsOf(req[r].kind))
  BY <1>2 DEF Goto, UdmInv, RecordInv, Inv, Typed, TypeOK, HandlerTypeOK
<1>5. SdmTypeOK' /\ Fetching'
  BY <1>1, <1>2, <1>3, <1>4 DEF SdmTypeOK, Fetching
<1>6. \A o \in Objects : \/ heap'[o].supi = heap[o].supi /\ heap'[o].subs = heap[o].subs
                         \/ heap'[o].subs = {}
  BY StoreDatasetStores, NewContextsKeepSubscriptions
<1>7. SubscriptionsTaken' /\ SharedTaken'
  BY <1>1, <1>4, <1>6 DEF SubscriptionsTaken, SharedTaken
<1> QED
  BY <1>5, <1>7 DEF SdmInv

LEMMA SdmKeepsSdm ==
  ASSUME UdmInv, NEW r \in Requests, SdmStep(r)
  PROVE  SdmInv'
  BY SdmSteps, AsksKeepSdm, PutPlaceholderKeepsSdm, CreateSubscriptionKeepsSdm, StoreDatasetKeepsSdm

LEMMA ArriveKeepsSdm ==
  ASSUME UdmInv, NEW r \in Requests, Arrive(r), UNCHANGED sdmVars
  PROVE  SdmInv'
<1>1. /\ SdmTypeOK /\ Fetching /\ SubscriptionsTaken /\ SharedTaken
      /\ UNCHANGED <<heap, fetched, udrSubs, sharedSubs, sharedData, takenShared>>
      /\ pc[r] = "idle"
  BY DEF UdmInv, SdmInv, Arrive, ueVars, sdmVars, sharedVars
<1>2. PICK b \in Bodies : req' = [req EXCEPT ![r] = b] /\ Goto(r, FirstStep(b.kind))
  BY DEF Arrive
<1>3. /\ \A q \in Requests : /\ pc'[q] = IF q = r THEN FirstStep(b.kind) ELSE pc[q]
                             /\ req'[q] = IF q = r THEN b ELSE req[q]
  BY <1>2 DEF Goto, UdmInv, RecordInv, Inv, Typed, TypeOK, HandlerTypeOK
<1>4. FirstStep(b.kind) \in {"exists", "client", "discover", "udr"}
  BY DEF FirstStep
<1>5. SdmTypeOK' /\ SubscriptionsTaken' /\ SharedTaken'
  BY <1>1, <1>3, <1>4 DEF SdmTypeOK, SubscriptionsTaken, SharedTaken
<1>6. Fetching'
  <2>1. fetched[r] = 0
    BY <1>1 DEF Fetching
  <2>2. ASSUME b.kind \in GetKinds
        PROVE  0 < Len(DatasetsOf(b.kind))
    <3>1. PICK n \in 1..5 : n = Len(DatasetsOf(b.kind))
      BY <2>2, DatasetsTyped
    <3>2. 0 < n
      OBVIOUS
    <3> QED
      BY <3>1, <3>2, Zenon
  <2> QED
    BY <1>1, <1>3, <1>4, <2>1, <2>2 DEF Fetching
<1> QED
  BY <1>5, <1>6 DEF SdmInv

LEMMA RestartKeepsSdm ==
  ASSUME UdmInv, Restart, SdmRestart
  PROVE  SdmInv'
<1>1. /\ \A q \in Requests : pc'[q] = IF pc[q] = "idle" THEN "idle" ELSE "done"
      /\ UNCHANGED <<heap, req, fetched, udrSubs, takenShared>> /\ sharedSubs' = {} /\ sharedData' = None
  BY DEF Restart, Serving, SdmRestart
<1> QED
  BY <1>1 DEF UdmInv, SdmInv, SdmTypeOK, Fetching, SubscriptionsTaken, SharedTaken

LEMMA NextUdmInv == UdmInv /\ [UdmNext]_udmVars => UdmInv'
<1> SUFFICES ASSUME UdmInv, [UdmNext]_udmVars PROVE UdmInv'
  OBVIOUS
<1>1. CASE Restart /\ SdmRestart /\ UNCHANGED uecmVars
  BY <1>1, NextRecordInv, RestartKeepsSdm DEF UdmInv, Next
<1>2. CASE \E r \in Requests : Arrive(r) /\ UNCHANGED <<uecmVars, sdmVars>>
  BY <1>2, NextRecordInv, ArriveKeepsSdm DEF UdmInv, Next
<1>3. CASE \E r \in Requests : UecmStep(r) /\ UNCHANGED sdmVars
  BY <1>3, NextRecordInv, UecmKeepsSdm DEF UdmInv, Next, Handle
<1>4. CASE \E r \in Requests : SdmStep(r) /\ UNCHANGED uecmVars
  BY <1>4, SdmKeepsRecords, SdmKeepsSdm DEF UdmInv
<1>5. CASE \E r \in Requests : SharedStep(r) /\ UNCHANGED <<uecmVars, sdmVars>>
  BY <1>5, NextRecordInv, SharedKeepsSdm DEF UdmInv, Next, Handle
<1>6. CASE UNCHANGED udmVars
  <2>1. RecordInv'
    BY <1>6, NextRecordInv DEF UdmInv, udmVars
  <2>2. SdmInv'
    BY <1>6 DEF UdmInv, SdmInv, SdmTypeOK, Fetching, SubscriptionsTaken, SharedTaken,
                udmVars, vars, handlerVars, ueVars, sdmVars, sharedVars
  <2> QED
    BY <2>1, <2>2 DEF UdmInv
<1> QED
  BY <1>1, <1>2, <1>3, <1>4, <1>5, <1>6 DEF UdmNext, UdmHandle

LEMMA UdmInvariance == UdmSpec => []UdmInv
  BY InitUdmInv, NextUdmInv, PTL DEF UdmSpec

(* A step of this service is none of the registry.                         *)
LEMMA UdmNextRefines ==
  UdmInv /\ [UdmNext]_udmVars => [Registry!RegistryNext]_Registry!registryVars
<1> SUFFICES ASSUME UdmInv, [UdmNext]_udmVars
             PROVE  [Registry!RegistryNext]_Registry!registryVars
  OBVIOUS
<1>1. CASE [Next]_vars
  BY <1>1, NextRefines DEF UdmInv
<1>2. CASE \E r \in Requests : SdmStep(r) /\ UNCHANGED uecmVars
  <2>1. PICK r \in Requests : SdmStep(r) /\ UNCHANGED uecmVars
    BY <1>2
  <2>2. /\ SameRequests /\ SameHolders /\ TakenRegs' = TakenRegs /\ UNCHANGED notified
        /\ r \notin AmfRegs
    BY <2>1, SdmMoves, UnchangedRequests
    DEF SameHolders, TakenRegs, AmfRegs, UecmKinds, AmfKinds, uecmVars, udrVars
  <2>3. UNCHANGED answer \/ \E c \in Answers : answer' = [answer EXCEPT ![r] = c]
    BY <2>1, SdmSteps, AsksMove
    DEF PutPlaceholder, CreateSubscriptiontoNotifChange, StoreDataset, Reply, Answers
  <2>4. \A q \in AmfRegs : answer'[q] = answer[q]
    BY <2>2, <2>3 DEF AmfRegs, UdmInv, RecordInv, Inv, Typed, TypeOK, HandlerTypeOK
  <2> QED
    BY <2>2, <2>4, RegistryStutters
<1> QED
  BY <1>1, <1>2 DEF UdmNext, UdmHandle, Next, Handle, udmVars

-----------------------------------------------------------------------------
(***************************************************************************)
(* The theorems.                                                           *)
(***************************************************************************)

(* Every variable of the two services keeps its type.                      *)
THEOREM UdmTypeCorrect == UdmSpec => []UdmTypeOK
<1>1. UdmInv => UdmTypeOK
  BY DEF UdmInv, RecordInv, Inv, Typed, SdmInv, UdmTypeOK
<1> QED
  BY UdmInvariance, <1>1, PTL

(* An entry for a subscription in a context is one the UDR took for that   *)
(* subscriber, whichever handler has replaced the context since.           *)
THEOREM EntriesAreAtUdr == UdmSpec => []SubscriptionsAreAtUdr
<1>1. UdmInv => SubscriptionsAreAtUdr
  <2> SUFFICES ASSUME UdmInv PROVE SubscriptionsAreAtUdr
    OBVIOUS
  <2>1. \A s \in Supis : pool[s] # None => pool[s] \in Objects /\ heap[pool[s]].supi = s
    BY DEF UdmInv, RecordInv, Inv, FiledUnderItsSupi, Typed, TypeOK, HandlerTypeOK, UeTypeOK
  <2> QED
    BY <2>1 DEF UdmInv, SdmInv, SubscriptionsTaken, SharedTaken, SubscriptionsAreAtUdr
<1> QED
  BY UdmInvariance, <1>1, PTL

(* The retrievals, which replace contexts, mix up neither contexts nor the *)
(* registrations in them, nor what is answered or told on their behalf.    *)
THEOREM UdmContextsAreNotMixedUp ==
  UdmSpec => []( /\ ContextHoldsItsOwn
                 /\ SuccessOnlyIfAccepted
                 /\ NotifiedHeldTheAccess
                 /\ NoMutualDeregistration
                 /\ SomeAmfStays
                 /\ LocationFindsContext )
<1>1. UdmInv => Inv
  BY DEF UdmInv, RecordInv
<1> QED
  BY UdmInvariance, InvSafety, <1>1, PTL

(* The UDR's record shows a registered AMF in the composition as well.     *)
THEOREM UdmRecordIsOfARegisteredAmf == UdmSpec => []RecordShowsARegisteredAmf
<1>1. UdmInv => RecordShowsARegisteredAmf
  BY DEF UdmInv, RecordInv
<1> QED
  BY UdmInvariance, <1>1, PTL

(* The composition of the two services implements the registry.            *)
THEOREM UdmImplementsTheRegistry == UdmSpec => ImplementsRegistry
<1>1. UdmInit => Registry!RegistryInit
  BY InitRefines DEF UdmInit
<1> QED
  BY UdmInvariance, UdmNextRefines, <1>1, PTL
  DEF UdmSpec, ImplementsRegistry, Registry!RegistrySpec
=============================================================================
