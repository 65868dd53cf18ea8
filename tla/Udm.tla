-------------------------------- MODULE Udm ---------------------------------
(***************************************************************************)
(* The UDM's services on the UE contexts they share: UE context management *)
(* (Uecm) and subscriber data management (Sdm), whose handlers interleave  *)
(* in one process.                                                         *)
(***************************************************************************)
EXTENDS Uecm, Sdm

udmVars == <<vars, sdmVars>>

UdmTypeOK == TypeOK /\ SdmTypeOK

UdmInit == Init /\ SdmInit

UdmHandle(r) ==
  \/ UecmStep(r) /\ UNCHANGED sdmVars
  \/ SdmStep(r) /\ UNCHANGED uecmVars
  \/ SharedStep(r) /\ UNCHANGED <<uecmVars, sdmVars>>

UdmNext ==
  \/ Restart /\ SdmRestart /\ UNCHANGED uecmVars
  \/ \E r \in Requests : Arrive(r) /\ UNCHANGED <<uecmVars, sdmVars>>
  \/ \E r \in Requests : UdmHandle(r)

UdmSpec == UdmInit /\ [][UdmNext]_udmVars

-----------------------------------------------------------------------------
(***************************************************************************)
(* Properties, next to those of Uecm.                                      *)
(***************************************************************************)

(* Every subscription entry in a context in the pool is one the UDR took   *)
(* for that subscriber, and every entry for shared data one that was       *)
(* taken: the entries are only made after the answer.                      *)
SubscriptionsAreAtUdr ==
  /\ \A s \in Supis : pool[s] # None => heap[pool[s]].subs \subseteq udrSubs[s]
  /\ sharedSubs \subseteq takenShared

(* A retrieval of subscriber data leaves the registrations in the UE       *)
(* context alone: NewUdmUe "initializes or retrieves the UE context in     *)
(* memory" (subscriber_data_management.go:575).                            *)
RetrievalKeepsRegistrations ==
  [][\A r \in Requests : StoreDataset(r) =>
       \A a \in Accesses :
         GetAmfRegContext(req[r].supi, a)' = GetAmfRegContext(req[r].supi, a)]_udmVars
=============================================================================
