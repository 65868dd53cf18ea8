--------------------------- MODULE EventExposure ----------------------------
(***************************************************************************)
(* The event exposure service, Nudm_EE (producer/event_exposure.go).       *)
(*                                                                         *)
(* A subscription for any UE is entered into each context in the pool by a *)
(* sync.Map.Range, while other creations and deletions range over the same *)
(* pool and the handlers of the other services store new contexts in it.   *)
(*                                                                         *)
(* Nothing in the program sets the fields Gpsi and ExternalGroupID of a    *)
(* context, so that no UE is found by a GPSI and none belongs to a group.  *)
(***************************************************************************)
EXTENDS UeContext

CONSTANTS
  EeRequests,   \* the requests for this service; the others stand for all
                \* handlers that store a new context
  EeIds,        \* the ids the generator has
  MaxRestarts   \* bound: how often the process is restarted

ASSUME EeAssumption ==
  /\ EeRequests \subseteq Requests
  /\ None \notin EeIds
  /\ MaxRestarts \in Nat

(* What a ueIdentity is recognised as: "anyUE", an external group, or a    *)
(* GPSI or anything else, for which there is no UE.  How a deletion writes *)
(* the number of its subscription: "1" or "01".                            *)
Identities == {"any", "group", "other"}
Spellings == {"plain", "padded"}

VARIABLES
  pc,                   \* where the handler of a request is
  op,                   \* what it does: create or delete
  identity,             \* the request's ueIdentity
  spelling,             \* how a deletion writes its subscription id
  subscriptionID,       \* the id allocated, or to be deleted
  visited,              \* the keys the Range of a handler has come to
  answer,
  eeSubscriptions,      \* UdmUeContext.EeSubscriptions, of each context
  allocated,            \* UDMContext.EeSubscriptionIDGenerator: the ids in use
  restarts

eeVars == <<pc, op, identity, spelling, subscriptionID, visited, answer, eeSubscriptions,
            allocated, restarts>>

(* History.                                                                *)
VARIABLES
  present,      \* the contexts in the pool when the handler's Range began
  earlier,      \* the creations that were answered before a deletion began
  contested     \* creations whose id was named by a deletion since, or still
                \* used by another creation when they got it

history == <<present, earlier, contested>>
vars == <<ueVars, eeVars, history>>

TypeOK ==
  /\ UeTypeOK
  /\ pc \in [EeRequests -> {"idle", "range", "free", "done"}]
  /\ op \in [EeRequests -> {"none", "create", "delete"}]
  /\ identity \in [EeRequests -> Identities]
  /\ spelling \in [EeRequests -> Spellings]
  /\ subscriptionID \in [EeRequests -> EeIds \cup {None}]
  /\ visited \in [EeRequests -> SUBSET Supis]
  /\ answer \in [EeRequests -> {"none", "created", "noContent", "problem", "crash"}]
  /\ eeSubscriptions \in [Objects -> [EeIds -> EeRequests \cup {None}]]
  /\ allocated \in SUBSET EeIds
  /\ restarts \in 0..MaxRestarts
  /\ present \in [EeRequests -> SUBSET Objects]
  /\ earlier \in [EeRequests -> SUBSET EeRequests]
  /\ contested \in SUBSET EeRequests

Init ==
  /\ UeInit
  /\ pc = [r \in EeRequests |-> "idle"]
  /\ op = [r \in EeRequests |-> "none"]
  /\ identity = [r \in EeRequests |-> "any"]
  /\ spelling = [r \in EeRequests |-> "plain"]
  /\ subscriptionID = [r \in EeRequests |-> None]
  /\ visited = [r \in EeRequests |-> {}]
  /\ answer = [r \in EeRequests |-> "none"]
  /\ eeSubscriptions = [o \in Objects |-> [k \in EeIds |-> None]]
  /\ allocated = {}
  /\ restarts = 0
  /\ present = [r \in EeRequests |-> {}]
  /\ earlier = [r \in EeRequests |-> {}]
  /\ contested = {}

-----------------------------------------------------------------------------
(* What a handler does before its first access to shared state is part of  *)
(* that step.                                                              *)
Goto(r, l) == pc' = [pc EXCEPT ![r] = l]

Reply(r, code) ==
  /\ Goto(r, "done")
  /\ answer' = [answer EXCEPT ![r] = code]

Pooled == {pool[s] : s \in Supis} \ {None}

Creations(k) ==
  {r \in EeRequests : op[r] = "create" /\ pc[r] \in {"range", "done"} /\ subscriptionID[r] = k}

(* UdmUePool.Range begins: it comes to each key that is in the pool now,   *)
(* and may come to others.                                                 *)
BeginRange(r) ==
  /\ Goto(r, "range")
  /\ present' = [present EXCEPT ![r] = Pooled]

InRange(r, s) == pc[r] = "range" /\ pool[s] # None /\ s \notin visited[r]

Visit(r, s) == visited' = [visited EXCEPT ![r] = @ \cup {s}]

(* Mutant: the callback returns false, which ends the Range.               *)
RangeEndsEarly(r) == pc[r] = "range" /\ (visited[r] = {} => present[r] = {})

RangeIsOver(r) ==
  pc[r] = "range" /\ \A o \in present[r] : heap[o].supi \in visited[r]

-----------------------------------------------------------------------------
(***************************************************************************)
(* CreateEeSubscriptionProcedure.                                          *)
(***************************************************************************)

(* UdmUeFindByGpsi finds nobody; an identity of no known form is refused.  *)
RefuseCreation(r) ==
  /\ pc[r] = "idle"
  /\ Reply(r, "problem")
  /\ UNCHANGED <<ueVars, op, identity, spelling, subscriptionID, visited, eeSubscriptions,
                 allocated, restarts, history>>

(* EeSubscriptionIDGenerator.Allocate; the Range over a group stores       *)
(* nothing.                                                                *)
Allocate(r) ==
  /\ pc[r] = "idle"
  /\ op' = [op EXCEPT ![r] = "create"]
  /\ \E i \in {"group", "any"} : identity' = [identity EXCEPT ![r] = i]
  /\ \/ \E k \in EeIds \ allocated :
          /\ allocated' = allocated \cup {k}
          /\ subscriptionID' = [subscriptionID EXCEPT ![r] = k]
          /\ contested' = IF \E c \in Creations(k) : pc[c] = "range"
                          THEN contested \cup {r} ELSE contested
          /\ IF identity'[r] = "any"
             THEN BeginRange(r) /\ UNCHANGED answer
             ELSE Reply(r, "created") /\ UNCHANGED present
     \/ /\ allocated = EeIds
        /\ Reply(r, "problem")
        /\ UNCHANGED <<subscriptionID, allocated, present, contested>>
  /\ UNCHANGED <<ueVars, spelling, visited, eeSubscriptions, restarts, earlier>>

(* Mutant: the entry names the UE instead of the subscription.             *)
EnterUe(r, s) ==
  /\ op[r] = "create"
  /\ InRange(r, s)
  /\ eeSubscriptions' = [eeSubscriptions EXCEPT ![pool[s]][subscriptionID[r]] = s]
  /\ Visit(r, s)
  /\ UNCHANGED <<ueVars, pc, op, identity, spelling, subscriptionID, answer, allocated,
                 restarts, history>>

(* The callback of the Range.  A context that is replaced between the load *)
(* of the key and the assignment is not in the pool any more, as if it had *)
(* been replaced afterwards.                                               *)
EnterSubscription(r, s) ==
  /\ op[r] = "create"
  /\ InRange(r, s)
  /\ eeSubscriptions' = [eeSubscriptions EXCEPT ![pool[s]][subscriptionID[r]] = r]
  /\ Visit(r, s)
  /\ UNCHANGED <<ueVars, pc, op, identity, spelling, subscriptionID, answer, allocated,
                 restarts, history>>

AnswerCreation(r) ==
  /\ op[r] = "create"
  /\ RangeIsOver(r)
  /\ Reply(r, "created")
  /\ UNCHANGED <<ueVars, op, identity, spelling, subscriptionID, visited, eeSubscriptions,
                 allocated, restarts, history>>

-----------------------------------------------------------------------------
(***************************************************************************)
(* DeleteEeSubscriptionProcedure.                                          *)
(***************************************************************************)

(* Only "anyUE" finds contexts; the others, a group's too, come to FreeID  *)
(* at once.                                                                *)
BeginDeletion(r) ==
  /\ pc[r] = "idle"
  /\ op' = [op EXCEPT ![r] = "delete"]
  /\ \/ identity' = [identity EXCEPT ![r] = "any"] /\ BeginRange(r)
     \/ identity' = [identity EXCEPT ![r] = "other"] /\ Goto(r, "free") /\ UNCHANGED present
  /\ \E w \in Spellings : spelling' = [spelling EXCEPT ![r] = w]
  /\ \E k \in EeIds : subscriptionID' = [subscriptionID EXCEPT ![r] = k]
  /\ earlier' = [earlier EXCEPT ![r] = {c \in EeRequests : answer[c] = "created"}]
  /\ UNCHANGED <<ueVars, visited, answer, eeSubscriptions, allocated, restarts, contested>>

(* delete(ue.EeSubscriptions, subscriptionID): the key is the plain id.    *)
RemoveSubscription(r, s) ==
  /\ op[r] = "delete"
  /\ InRange(r, s)
  /\ eeSubscriptions' = IF spelling[r] = "plain"
                        THEN [eeSubscriptions EXCEPT ![pool[s]][subscriptionID[r]] = None]
                        ELSE eeSubscriptions
  /\ Visit(r, s)
  /\ UNCHANGED <<ueVars, pc, op, identity, spelling, subscriptionID, answer, allocated,
                 restarts, history>>

EndRemoval(r) ==
  /\ op[r] = "delete"
  /\ RangeIsOver(r)
  /\ Goto(r, "free")
  /\ UNCHANGED <<ueVars, op, identity, spelling, subscriptionID, visited, answer,
                 eeSubscriptions, allocated, restarts, history>>

(* FreeID, of whatever number the id is parsed to, whoever asks.           *)
FreeID(r) ==
  /\ pc[r] = "free"
  /\ allocated' = allocated \ {subscriptionID[r]}
  /\ contested' = contested \cup Creations(subscriptionID[r])
  /\ Reply(r, "noContent")
  /\ UNCHANGED <<ueVars, op, identity, spelling, subscriptionID, visited, eeSubscriptions,
                 restarts, present, earlier>>

(* UpdateEeSubscriptionProcedure looks subscriptions up and patches none; a *)
(* deletion of what is not a number finds no entry and frees no id.        *)
UpdateEeSubscription(r) ==
  /\ pc[r] = "idle"
  /\ \E i \in Identities : Reply(r, IF i = "other" THEN "problem" ELSE "noContent")
  /\ UNCHANGED <<ueVars, op, identity, spelling, subscriptionID, visited, eeSubscriptions,
                 allocated, restarts, history>>

-----------------------------------------------------------------------------
(* A handler of another service stores a new context, whether in place of  *)
(* one or not.                                                             *)
StoreNewUe(r) ==
  /\ <<r, "create">> \notin {o \in Objects : heap[o].supi # None}
  /\ \E s \in Supis : NewUdmUe(<<r, "create">>, s)
  /\ UNCHANGED <<eeVars, history>>

(* The pool, the ids and the handlers are lost.                            *)
Restart ==
  /\ restarts < MaxRestarts
  /\ restarts' = restarts + 1
  /\ pool' = [s \in Supis |-> None]
  /\ allocated' = {}
  /\ pc' = [r \in EeRequests |-> IF pc[r] = "idle" THEN "idle" ELSE "done"]
  /\ answer' = [r \in EeRequests |-> IF pc[r] \in {"idle", "done"} THEN answer[r] ELSE "crash"]
  /\ UNCHANGED <<heap, op, identity, spelling, subscriptionID, visited, eeSubscriptions, history>>

EeStep(r) ==
  \/ RefuseCreation(r) \/ Allocate(r) \/ AnswerCreation(r)
  \/ BeginDeletion(r) \/ EndRemoval(r) \/ FreeID(r) \/ UpdateEeSubscription(r)
  \/ \E s \in Supis : EnterSubscription(r, s) \/ RemoveSubscription(r, s)

Next ==
  \/ \E r \in EeRequests : EeStep(r)
  \/ \E r \in Requests \ EeRequests : StoreNewUe(r)
  \/ Restart

Spec == Init /\ [][Next]_vars

-----------------------------------------------------------------------------
(***************************************************************************)
(* Properties.                                                             *)
(***************************************************************************)

(* A deletion of the id is under way.                                      *)
BeingDeleted(k) ==
  \E d \in EeRequests :
    op[d] = "delete" /\ pc[d] \notin {"idle", "done"} /\ subscriptionID[d] = k

(* A subscription for "any UEs" (event_exposure.go:106) that was answered  *)
(* with 201 is in every context that was in the pool when its Range began  *)
(* and still is, however other creations, deletions and new contexts come  *)
(* in between, as long as no deletion names its id.                        *)
AnyUeMeansEveryUe ==
  \A r \in EeRequests \ contested :
    LET k == subscriptionID[r]
    IN  answer[r] = "created" /\ identity[r] = "any" /\ ~ BeingDeleted(k) =>
          \A o \in Pooled \cap present[r] : eeSubscriptions[o][k] = r

(* After a deletion for any UE no context has the subscription any more,   *)
(* unless its creation had not yet been answered.                          *)
DeletedEverywhere ==
  \A d \in EeRequests :
    answer[d] = "noContent" /\ op[d] = "delete" /\ identity[d] = "any" /\ spelling[d] = "plain" =>
      \A o \in Pooled : eeSubscriptions[o][subscriptionID[d]] \notin earlier[d]
=============================================================================
