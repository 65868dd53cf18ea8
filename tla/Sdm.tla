-------------------------------- MODULE Sdm ---------------------------------
(***************************************************************************)
(* The subscriber data management service, Nudm_SDM                        *)
(* (producer/subscriber_data_management.go).                               *)
(*                                                                         *)
(* A retrieval asks the UDR for a dataset and stores the answer in the UE  *)
(* context it takes from NewUdmUe: the context that was in the pool is     *)
(* replaced by one that holds the dataset and nothing else.  Three         *)
(* retrievals first put an empty dataset into the context they find.       *)
(* Shared data, identity translation, parameter provision                  *)
(* (producer/parameter_provision.go) and the UDR's data change             *)
(* notifications (producer/callback.go) make no UE context.                *)
(***************************************************************************)
EXTENDS Handler, Sequences

ASSUME SdmAssumption == Datasets \subseteq Sites

VARIABLES
  fetched,      \* how many of its datasets a retrieval has stored
  udrSubs,      \* the UDR's subscriptions to data changes
  sharedSubs,   \* UDMContext.SubscriptionOfSharedDataChange
  sharedData,   \* UDMContext.SharedSubsDataMap: the retrieval it comes from
  takenShared   \* history: the shared data subscriptions that were taken

sharedVars == <<sharedSubs, sharedData, takenShared>>
sdmVars == <<fetched, udrSubs, sharedVars>>

(* The datasets of a retrieval, in the order getSupiProcedure asks.        *)
DatasetsOf(kind) ==
  CASE kind = "getAm" -> <<"am">>
    [] kind = "getNssai" -> <<"nssai">>
    [] kind = "getSm" -> <<"sm">>
    [] kind = "getSmfSel" -> <<"smfSel">>
    [] kind = "getTrace" -> <<"trace">>
    [] kind = "getUeCtxInSmf" -> <<"ueCtxInSmf">>
    [] kind = "getSupi" -> <<"am", "smfSel", "trace", "sm", "ueCtxInSmf">>

Wanted(r) == DatasetsOf(req[r].kind)[fetched[r] + 1]

SdmTypeOK ==
  /\ fetched \in [Requests -> 0..5]
  /\ udrSubs \in [Supis -> SUBSET Requests]
  /\ sharedSubs \in SUBSET Requests
  /\ sharedData \in Requests \cup {None}
  /\ takenShared \in SUBSET Requests

SdmInit ==
  /\ fetched = [r \in Requests |-> 0]
  /\ udrSubs = [s \in Supis |-> {}]
  /\ sharedSubs = {}
  /\ sharedData = None
  /\ takenShared = {}

-----------------------------------------------------------------------------
(* CreateTraceDataforUe and its like: the dataset in the context is        *)
(* overwritten by an empty one, whatever the UDR is going to answer.       *)
PutPlaceholder(r) ==
  /\ At(r, "write", PlaceholderKinds)
  /\ heap' = [heap EXCEPT ![ue[r]].data = @ \ {Wanted(r)}]
  /\ Goto(r, "udr")
  /\ UNCHANGED <<pool, req, ue, answer, restarts, sdmVars>>

(* The query at the UDR: the dataset, no dataset (DATA_NOT_FOUND), or a    *)
(* failure.  A retrieval that stops here keeps what it has stored.         *)
QueryUdr(r) ==
  /\ At(r, "udr", GetKinds)
  /\ \/ Goto(r, "store") /\ UNCHANGED answer
     \/ Reply(r, "problem")
     \/ UdrFails(r)
  /\ UNCHANGED <<ueVars, req, ue, restarts, sdmVars>>

(* udmUe := NewUdmUe(supi), then the setter, which changes nothing but the *)
(* dataset.  The answer reads the dataset back from the new context, where *)
(* a placeholder of another handler may have emptied it; what an answer    *)
(* contains is not modelled.                                               *)
StoreDataset(r) ==
  /\ At(r, "store", GetKinds)
  /\ StoreUe(<<r, Wanted(r)>>, [NewContext(req[r].supi) EXCEPT !.data = {Wanted(r)}])
  /\ fetched' = [fetched EXCEPT ![r] = @ + 1]
  /\ IF fetched[r] + 1 < Len(DatasetsOf(req[r].kind))
     THEN Goto(r, "udr") /\ UNCHANGED answer
     ELSE Reply(r, "content")
  /\ UNCHANGED <<req, ue, restarts, udrSubs, sharedVars>>

(* Mutant: the context gets its entry whatever the UDR answered.           *)
CreateSdmSubscriptionUnchecked(r) ==
  /\ At(r, "udr", {"subscribe"})
  /\ udrSubs' \in {udrSubs, [udrSubs EXCEPT ![req[r].supi] = @ \cup {r}]}
  /\ Goto(r, "find")
  /\ UNCHANGED <<ueVars, req, ue, answer, restarts, fetched, sharedVars>>

(* subscribeProcedure, up to the UDR's 201.                                *)
CreateSdmSubscription(r) ==
  LET Commit == udrSubs' = [udrSubs EXCEPT ![req[r].supi] = @ \cup {r}]
  IN  /\ At(r, "udr", {"subscribe"})
      /\ \/ Commit /\ Goto(r, "find") /\ UNCHANGED answer
         \/ Faults /\ Commit /\ Reply(r, "crash")
         \/ Reply(r, "problem") /\ UNCHANGED udrSubs
         \/ UdrFails(r) /\ UNCHANGED udrSubs
      /\ UNCHANGED <<ueVars, req, ue, restarts, fetched, sharedVars>>

(* Mutant: the entry is filed under the subscriber, not the subscription.  *)
CreateSubscriptionBySupi(r) ==
  /\ At(r, "write", {"subscribe"})
  /\ heap' = [heap EXCEPT ![ue[r]].subs = @ \cup {req[r].supi}]
  /\ Reply(r, "created")
  /\ UNCHANGED <<pool, req, ue, restarts, sdmVars>>

(* CreateSubscriptiontoNotifChange, in the context found by then.          *)
CreateSubscriptiontoNotifChange(r) ==
  /\ At(r, "write", {"subscribe"})
  /\ heap' = [heap EXCEPT ![ue[r]].subs = @ \cup {r}]
  /\ Reply(r, "created")
  /\ UNCHANGED <<pool, req, ue, restarts, sdmVars>>

(* unsubscribeProcedure gives the UDR a fixed name for the UE, so that none of *)
(* the subscriber's subscriptions goes; modifyProcedure sends an empty     *)
(* subscription.  Neither touches the context.                             *)
ChangeSubscription(r) ==
  /\ At(r, "udr", {"unsubscribe", "modify"})
  /\ \/ Reply(r, IF req[r].kind = "modify" THEN "content" ELSE "noContent")
     \/ Reply(r, "problem")
     \/ UdrFails(r)
  /\ UNCHANGED <<ueVars, req, ue, restarts, sdmVars>>

-----------------------------------------------------------------------------
(***************************************************************************)
(* Requests for which no UE context is made.                               *)
(***************************************************************************)

(* getIdTranslationResultProcedure, modifyForSharedDataProcedure, and      *)
(* UpdateProcedure of parameter_provision.go: one call to the UDR.         *)
AskUdr(r) ==
  /\ At(r, "udr", AskKinds \ {"getSharedData"})
  /\ \/ Reply(r, IF req[r].kind = "ppUpdate" THEN "noContent" ELSE "content")
     \/ Reply(r, "problem")
     \/ UdrFails(r)
  /\ UNCHANGED <<ueVars, req, ue, restarts, sdmVars>>

(* getSharedDataProcedure.                                                 *)
QuerySharedData(r) ==
  /\ At(r, "udr", {"getSharedData"})
  /\ \/ Reply(r, "content") /\ sharedData' = r
     \/ Reply(r, "problem") /\ UNCHANGED sharedData
     \/ UdrFails(r) /\ UNCHANGED sharedData
  /\ UNCHANGED <<ueVars, req, ue, restarts, fetched, udrSubs, sharedSubs, takenShared>>

(* subscribeToSharedDataProcedure asks a UDM, by a client that has not     *)
(* been given an address.                                                  *)
SubscribeToSharedData(r) ==
  LET Commit == takenShared' = takenShared \cup {r}
  IN  /\ At(r, "udr", {"subscribeShared"})
      /\ \/ Commit /\ Goto(r, "store") /\ UNCHANGED answer
         \/ Faults /\ Commit /\ Reply(r, "crash")
         \/ Reply(r, "problem") /\ UNCHANGED takenShared
         \/ UdrFails(r) /\ UNCHANGED takenShared
      /\ UNCHANGED <<ueVars, req, ue, restarts, fetched, udrSubs, sharedSubs, sharedData>>

(* CreateSubstoNotifSharedData.                                            *)
CreateSubstoNotifSharedData(r) ==
  /\ At(r, "store", {"subscribeShared"})
  /\ sharedSubs' = sharedSubs \cup {r}
  /\ Reply(r, "created")
  /\ UNCHANGED <<ueVars, req, ue, restarts, fetched, udrSubs, sharedData, takenShared>>

(* unsubscribeForSharedDataProcedure leaves the entry where it is.         *)
UnsubscribeForSharedData(r) ==
  /\ At(r, "udr", {"unsubscribeShared"})
  /\ \/ Reply(r, "noContent")
     \/ Reply(r, "problem")
     \/ UdrFails(r)
  /\ UNCHANGED <<ueVars, req, ue, restarts, sdmVars>>

(* DataChangeNotificationProcedure dereferences what it finds.  Nothing    *)
(* fills UdmSubsToNotify, so there is nobody to notify.                    *)
DataChangeNotification(r) ==
  /\ At(r, "exists", {"dataChange"})
  /\ Reply(r, IF UdmUeFindBySupi(req[r].supi) = None THEN "crash" ELSE "noContent")
  /\ UNCHANGED <<ueVars, req, ue, restarts, sdmVars>>

(* Maps outside the pool do not survive a restart either.                  *)
SdmRestart ==
  /\ sharedSubs' = {}
  /\ sharedData' = None
  /\ UNCHANGED <<fetched, udrSubs, takenShared>>

SdmStep(r) ==
  \/ PutPlaceholder(r) \/ QueryUdr(r) \/ StoreDataset(r)
  \/ CreateSdmSubscription(r) \/ CreateSubscriptiontoNotifChange(r)
  \/ ChangeSubscription(r)
  \/ AskUdr(r) \/ QuerySharedData(r)
  \/ SubscribeToSharedData(r) \/ CreateSubstoNotifSharedData(r) \/ UnsubscribeForSharedData(r)
  \/ DataChangeNotification(r)
=============================================================================
