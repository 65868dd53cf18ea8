-------------------------- MODULE NrfSubscriptions --------------------------
(***************************************************************************)
(* Discovery of UDR instances at the NRF and the subscriptions that tell   *)
(* the UDM when an instance is gone (consumer/nf_discovery.go,             *)
(* producer/callback.go, and the subscription calls of                     *)
(* consumer/nf_management.go).                                             *)
(*                                                                         *)
(* Every handler that needs the UDR discovers it, so discoveries overlap   *)
(* with each other and with the NRF's notifications.  What they share is   *)
(* a sync.Map, NfStatusSubscriptions, and the NRF cache, an external       *)
(* library.  The NRF is external too.                                      *)
(***************************************************************************)
EXTENDS Naturals

CONSTANTS
  Instances,        \* UDR instances
  Discoveries,      \* calls of SendSearchNFInstances
  Notifications,    \* notifications the NRF sends
  None,             \* no entry in the map
  Empty,            \* the subscription id ""
  EnableNrfCaching, \* the UDM's configuration
  Faults,           \* may a call to the NRF fail?
  MaxChanges,       \* bound: how often an instance leaves or comes back
  MaxRestarts       \* bound: how often the process is restarted

(* A subscription is named by the discovery that asked for it.             *)
Subscriptions == Discoveries \X Instances

ASSUME NrfAssumption ==
  /\ EnableNrfCaching \in BOOLEAN
  /\ Faults \in BOOLEAN
  /\ MaxChanges \in Nat
  /\ MaxRestarts \in Nat
  /\ Discoveries \cap Notifications = {}
  /\ None # Empty
  /\ {None, Empty} \cap (Subscriptions \cup Instances) = {}

VARIABLES
  pc,           \* where a discovery or the handler of a notification is
  found,        \* the instances in the NRF's answer to a discovery
  todo,         \* those its loop has not come to
  at,           \* the instance a discovery subscribes to, a notification is about
  id,           \* the local subscription id of a discovery or a notification
  err,          \* does a discovery end with an error?
  nfStatusSubscriptions,  \* UDMContext.NfStatusSubscriptions
  cache,        \* the instances in the NRF cache
  registered,   \* NRF: the instances that are registered
  live,         \* NRF: the subscriptions it has
  due,          \* NRF: the subscriptions it has to notify
  changes, restarts

udmVars == <<pc, found, todo, at, id, err, nfStatusSubscriptions, cache>>
nrfVars == <<registered, live, due, changes>>

(* History: what has come between an instance and its subscription.        *)
VARIABLES
  refused,      \* instances for which creating a subscription has brought no id
  missed,       \* instances that left without the UDM being notified
  crossed,      \* instances on which two goroutines have worked at once
  unconfirmed,  \* subscriptions removed without the UDM learning of it
  strays        \* subscriptions left behind by a restart

history == <<refused, missed, crossed, unconfirmed, strays>>
vars == <<udmVars, nrfVars, restarts, history>>

Goroutines == Discoveries \cup Notifications

TypeOK ==
  /\ pc \in [Goroutines -> {"idle", "ask", "loop", "create", "store",
                            "load", "remove", "delete", "done"}]
  /\ found \in [Discoveries -> SUBSET Instances]
  /\ todo \in [Discoveries -> SUBSET Instances]
  /\ at \in [Goroutines -> Instances \cup {None}]
  /\ \A g \in Goroutines : pc[g] \notin {"idle", "ask", "loop", "done"} => at[g] \in Instances
  /\ id \in [Goroutines -> Subscriptions \cup {Empty, None}]
  /\ err \in [Discoveries -> BOOLEAN]
  /\ nfStatusSubscriptions \in [Instances -> Subscriptions \cup {Empty, None}]
  /\ cache \in SUBSET Instances
  /\ registered \in SUBSET Instances
  /\ live \in SUBSET Subscriptions
  /\ due \in SUBSET Subscriptions
  /\ changes \in 0..MaxChanges
  /\ restarts \in 0..MaxRestarts
  /\ refused \in SUBSET Instances
  /\ missed \in SUBSET Instances
  /\ crossed \in SUBSET Instances
  /\ unconfirmed \in SUBSET Subscriptions
  /\ strays \in SUBSET Subscriptions

Init ==
  /\ pc = [g \in Goroutines |-> "idle"]
  /\ found = [d \in Discoveries |-> {}]
  /\ todo = [d \in Discoveries |-> {}]
  /\ at = [g \in Goroutines |-> None]
  /\ id = [g \in Goroutines |-> None]
  /\ err = [d \in Discoveries |-> FALSE]
  /\ nfStatusSubscriptions = [i \in Instances |-> None]
  /\ cache = {}
  /\ registered = Instances
  /\ live = {}
  /\ due = {}
  /\ changes = 0
  /\ restarts = 0
  /\ refused = {} /\ missed = {} /\ crossed = {}
  /\ unconfirmed = {} /\ strays = {}

-----------------------------------------------------------------------------
Running == {g \in Goroutines : pc[g] \notin {"idle", "done"}}

(* The goroutines at work on an instance: the discoveries in whose answer  *)
(* it is, and the handlers of its notifications.                           *)
Working(i) ==
  {g \in Running : IF g \in Discoveries THEN i \in found[g] ELSE at[g] = i}

Goto(g, l) == pc' = [pc EXCEPT ![g] = l]

(* A goroutine ends, and its local variables with it.                      *)
End(g) ==
  /\ Goto(g, "done")
  /\ at' = [at EXCEPT ![g] = None]
  /\ id' = [id EXCEPT ![g] = None]

EndSearch(d) ==
  /\ End(d)
  /\ found' = [found EXCEPT ![d] = {}]
  /\ err' = [err EXCEPT ![d] = FALSE]

(***************************************************************************)
(* SendSearchNFInstances and SendNfDiscoveryToNrf.                         *)
(***************************************************************************)

(* With caching the cache is asked; only if it has nothing is the NRF.     *)
SendSearchNFInstances(d) ==
  /\ pc[d] = "idle"
  /\ Goto(d, IF EnableNrfCaching /\ cache # {} THEN "done" ELSE "ask")
  /\ UNCHANGED <<found, todo, at, id, err, nfStatusSubscriptions, cache, nrfVars,
                 refused, missed, unconfirmed, strays>>

(* StoreApiSearchNFInstances.  An error or a redirection brings no         *)
(* instances.                                                              *)
SearchAtNrf(d) ==
  /\ pc[d] = "ask"
  /\ \/ /\ found' = [found EXCEPT ![d] = registered]
        /\ todo' = [todo EXCEPT ![d] = registered]
        /\ UNCHANGED err
     \/ /\ Faults
        /\ err' = [err EXCEPT ![d] = TRUE]
        /\ UNCHANGED <<found, todo>>
  /\ Goto(d, "loop")
  /\ UNCHANGED <<at, id, nfStatusSubscriptions, cache, nrfVars,
                 refused, missed, unconfirmed, strays>>

(* Mutant: each discovery subscribes.                                      *)
NeverNoted(d) ==
  /\ pc[d] = "loop"
  /\ \E i \in todo[d] :
       /\ todo' = [todo EXCEPT ![d] = @ \ {i}]
       /\ at' = [at EXCEPT ![d] = i]
       /\ Goto(d, "create")
  /\ UNCHANGED <<found, id, err, nfStatusSubscriptions, cache, nrfVars,
                 refused, missed, unconfirmed, strays>>

(* The next instance of the answer, and NfStatusSubscriptions.Load.        *)
LoadSubscription(d) ==
  /\ pc[d] = "loop"
  /\ \E i \in todo[d] :
       /\ todo' = [todo EXCEPT ![d] = @ \ {i}]
       /\ IF nfStatusSubscriptions[i] = None
          THEN at' = [at EXCEPT ![d] = i] /\ Goto(d, "create")
          ELSE UNCHANGED <<at, pc>>
  /\ UNCHANGED <<found, id, err, nfStatusSubscriptions, cache, nrfVars,
                 refused, missed, unconfirmed, strays>>

(* SendCreateSubscription.  Its error replaces that of the instance before *)
(* it.  After a failure the id is "", and it is "" without an error if the *)
(* answer has none.  The NRF may have made the subscription or not.        *)
CreateSubscription(d) ==
  LET i == at[d]
      Answered(sub, failed) ==
        /\ id' = [id EXCEPT ![d] = sub]
        /\ err' = [err EXCEPT ![d] = failed]
        /\ refused' = IF sub = Empty THEN refused \cup {i} ELSE refused
  IN  /\ pc[d] = "create"
      /\ \/ live' = live \cup {<<d, i>>} /\ Answered(<<d, i>>, FALSE)
         \/ /\ Faults
            /\ live' \in {live, live \cup {<<d, i>>}}
            /\ \E failed \in BOOLEAN : Answered(Empty, failed)
      /\ Goto(d, "store")
      /\ UNCHANGED <<found, todo, at, nfStatusSubscriptions, cache, registered, due, changes,
                     missed, unconfirmed, strays>>

(* Mutant: the instance's id is stored in place of the subscription's.     *)
StoreInstanceId(d) ==
  /\ pc[d] = "store"
  /\ nfStatusSubscriptions' = [nfStatusSubscriptions EXCEPT ![at[d]] = at[d]]
  /\ Goto(d, "loop")
  /\ UNCHANGED <<found, todo, at, id, err, cache, nrfVars,
                 refused, missed, unconfirmed, strays>>

(* NfStatusSubscriptions.Store, whatever the answer was.                   *)
StoreSubscription(d) ==
  /\ pc[d] = "store"
  /\ nfStatusSubscriptions' = [nfStatusSubscriptions EXCEPT ![at[d]] = id[d]]
  /\ Goto(d, "loop")
  /\ UNCHANGED <<found, todo, at, id, err, cache, nrfVars,
                 refused, missed, unconfirmed, strays>>

(* The cache takes over an answer that comes without an error.             *)
EndDiscovery(d) ==
  /\ pc[d] = "loop"
  /\ todo[d] = {}
  /\ cache' = IF EnableNrfCaching /\ ~ err[d] THEN cache \cup found[d] ELSE cache
  /\ EndSearch(d)
  /\ UNCHANGED <<todo, nfStatusSubscriptions, nrfVars,
                 refused, missed, unconfirmed, strays>>

-----------------------------------------------------------------------------
(***************************************************************************)
(* NfSubscriptionStatusNotifyProcedure.                                    *)
(***************************************************************************)

(* Mutant: the cache is left as it is.                                     *)
KeepInCache(n) ==
  /\ pc[n] = "idle"
  /\ \E sub \in due :
       /\ at' = [at EXCEPT ![n] = sub[2]]
       /\ due' \in {due \ {sub}} \cup IF Faults THEN {due} ELSE {}
  /\ Goto(n, "load")
  /\ UNCHANGED <<found, todo, id, err, nfStatusSubscriptions, cache, registered, live, changes,
                 refused, missed, unconfirmed, strays>>

(* A DEREGISTERED notification arrives; it may be sent again.  The first   *)
(* thing the handler does is to remove the instance from the cache.        *)
(* Notifications of another event, or without one, change nothing.         *)
RemoveFromCache(n) ==
  /\ pc[n] = "idle"
  /\ \E sub \in due :
       /\ at' = [at EXCEPT ![n] = sub[2]]
       /\ cache' = IF EnableNrfCaching THEN cache \ {sub[2]} ELSE cache
       /\ due' \in {due \ {sub}} \cup IF Faults THEN {due} ELSE {}
  /\ Goto(n, "load")
  /\ UNCHANGED <<found, todo, id, err, nfStatusSubscriptions, registered, live, changes,
                 refused, missed, unconfirmed, strays>>

(* NfStatusSubscriptions.Load: without an entry there is nothing to do.    *)
FindSubscription(n) ==
  /\ pc[n] = "load"
  /\ IF nfStatusSubscriptions[at[n]] = None
     THEN End(n)
     ELSE /\ id' = [id EXCEPT ![n] = nfStatusSubscriptions[at[n]]]
          /\ Goto(n, "remove")
          /\ UNCHANGED at
  /\ UNCHANGED <<found, todo, err, nfStatusSubscriptions, cache, nrfVars,
                 refused, missed, unconfirmed, strays>>

(* SendRemoveSubscription: the NRF has no subscription "", nor one that is *)
(* gone.  After a failure the entry stays.                                 *)
SendRemoveSubscription(n) ==
  /\ pc[n] = "remove"
  /\ \/ /\ id[n] \in live
        /\ live' = live \ {id[n]}
        /\ due' = due \ {id[n]}
        /\ \/ Goto(n, "delete") /\ UNCHANGED <<at, id, unconfirmed>>
           \/ /\ Faults
              /\ End(n)
              /\ unconfirmed' = unconfirmed \cup {id[n]}
     \/ /\ id[n] \notin live \/ Faults
        /\ End(n)
        /\ UNCHANGED <<live, due, unconfirmed>>
  /\ UNCHANGED <<found, todo, err, nfStatusSubscriptions, cache, registered, changes,
                 refused, missed, strays>>

(* Mutant: the entry stays although the subscription is gone.              *)
KeepSubscription(n) ==
  /\ pc[n] = "delete"
  /\ End(n)
  /\ UNCHANGED <<found, todo, err, nfStatusSubscriptions, cache, nrfVars,
                 refused, missed, unconfirmed, strays>>

(* NfStatusSubscriptions.Delete, of whatever entry there is by then.       *)
DeleteSubscription(n) ==
  /\ pc[n] = "delete"
  /\ nfStatusSubscriptions' = [nfStatusSubscriptions EXCEPT ![at[n]] = None]
  /\ End(n)
  /\ UNCHANGED <<found, todo, err, cache, nrfVars,
                 refused, missed, unconfirmed, strays>>

-----------------------------------------------------------------------------
(***************************************************************************)
(* The NRF, the cache and the process.                                     *)
(***************************************************************************)

Watching(i) == {sub \in live : sub[2] = i}

(* An instance leaves: each subscription to it is notified.  A discovery   *)
(* that has found it and not yet subscribed will not hear of it.           *)
Deregister(i) ==
  /\ i \in registered
  /\ changes < MaxChanges
  /\ changes' = changes + 1
  /\ registered' = registered \ {i}
  /\ due' = due \cup Watching(i)
  /\ missed' = IF Watching(i) = {} /\ Working(i) # {} THEN missed \cup {i} ELSE missed
  /\ UNCHANGED <<udmVars, live, refused, unconfirmed, strays>>

ComeBack(i) ==
  /\ i \notin registered
  /\ changes < MaxChanges
  /\ changes' = changes + 1
  /\ registered' = registered \cup {i}
  /\ UNCHANGED <<udmVars, live, due, refused, missed, unconfirmed, strays>>

LoseNotification(sub) ==
  /\ Faults
  /\ sub \in due
  /\ due' = due \ {sub}
  /\ missed' = missed \cup {sub[2]}
  /\ UNCHANGED <<udmVars, registered, live, changes, refused, unconfirmed, strays>>

(* The validity of a cached answer ends.                                   *)
Evict(i) ==
  /\ i \in cache
  /\ cache' = cache \ {i}
  /\ UNCHANGED <<pc, found, todo, at, id, err, nfStatusSubscriptions, nrfVars,
                 refused, missed, unconfirmed, strays>>

(* The map and the cache are lost, the NRF keeps its subscriptions.        *)
Restart ==
  /\ restarts < MaxRestarts
  /\ restarts' = restarts + 1
  /\ nfStatusSubscriptions' = [i \in Instances |-> None]
  /\ cache' = {}
  /\ pc' = [g \in Goroutines |-> IF g \in Running THEN "done" ELSE pc[g]]
  /\ found' = [d \in Discoveries |-> {}]
  /\ todo' = [d \in Discoveries |-> {}]
  /\ at' = [g \in Goroutines |-> None]
  /\ id' = [g \in Goroutines |-> None]
  /\ err' = [d \in Discoveries |-> FALSE]
  /\ strays' = strays \cup live
  /\ UNCHANGED <<nrfVars, refused, missed, unconfirmed>>

Discovery(d) ==
  \/ SendSearchNFInstances(d) \/ SearchAtNrf(d) \/ LoadSubscription(d)
  \/ CreateSubscription(d) \/ StoreSubscription(d) \/ EndDiscovery(d)

StatusNotify(n) ==
  \/ RemoveFromCache(n) \/ FindSubscription(n)
  \/ SendRemoveSubscription(n) \/ DeleteSubscription(n)

NrfStep ==
  \/ \E i \in Instances : Deregister(i) \/ ComeBack(i) \/ Evict(i)
  \/ \E sub \in due : LoseNotification(sub)

Cross ==
  crossed' = crossed \cup {i \in Instances : \E g, h \in Working(i)' : g # h}

Next ==
  \/ /\ \/ \E d \in Discoveries : Discovery(d)
        \/ \E n \in Notifications : StatusNotify(n)
        \/ NrfStep
     /\ UNCHANGED restarts
     /\ Cross
  \/ Restart /\ UNCHANGED crossed

Spec == Init /\ [][Next]_vars

-----------------------------------------------------------------------------
(***************************************************************************)
(* Properties.                                                             *)
(***************************************************************************)
(* An id in the map is that of a subscription the NRF has, for the         *)
(* instance it is filed under, unless a handler is about to delete it or   *)
(* the NRF's answer to its removal was lost: no interleaving of            *)
(* discoveries and notifications leaves another kind of stale id.          *)
StoredIdIsLive ==
  \A i \in Instances : nfStatusSubscriptions[i] \in Subscriptions =>
    LET sub == nfStatusSubscriptions[i]
    IN  /\ sub[2] = i
        /\ \/ sub \in live
           \/ sub \in unconfirmed
           \/ \E n \in Notifications : pc[n] = "delete" /\ id[n] = sub

(* The NRF has one subscription of this process for an instance, unless    *)
(* two goroutines worked on it at once: a subscription is noted before the *)
(* next look-up, its entry only goes when it has gone, and one whose       *)
(* answer was lost leaves an entry that keeps others from being made.      *)
OneSubscriptionPerInstance ==
  \A i \in Instances \ crossed :
    \A sub, other \in Watching(i) \ strays : sub = other

(* A cached instance is watched, so that the UDM learns when it is gone,   *)
(* unless two goroutines worked on it at once or creating its subscription *)
(* brought no id.                                                          *)
CachedIsWatched ==
  \A i \in cache \ (crossed \cup refused) :
    Watching(i) # {} \/ \E sub \in unconfirmed : sub[2] = i

(* An instance that is gone is only in the cache while a notification of   *)
(* it is on its way: its removal "will force the UDM to do nf discovery"   *)
(* (callback.go:72).  The same faults as before make an exception.         *)
GoneIsNotCached ==
  \A i \in cache \ (registered \cup crossed \cup refused \cup missed) :
    \E sub \in due \cup unconfirmed : sub[2] = i
=============================================================================
