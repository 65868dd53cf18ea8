----------------------- MODULE NrfSubscriptionsProofs -----------------------
(***************************************************************************)
(* Proofs about NrfSubscriptions: type correctness, that the ids in the    *)
(* map are those of subscriptions the NRF has, and that there is one of    *)
(* them for an instance on which no two goroutines have worked at once.    *)
(***************************************************************************)
EXTENDS NrfSubscriptions, TLAPS

(* The discovery d has stored its subscription to i, if it made one.       *)
Past(d, i) ==
  /\ pc[d] \in {"loop", "create", "store", "done"}
  /\ i \notin todo[d]
  /\ pc[d] \in {"create", "store"} => at[d] # i

Noted(sub) == Past(sub[1], sub[2])

(* What a discovery that is about to subscribe holds.                      *)
Holds(d) ==
  /\ pc[d] \in {"idle", "ask"} => found[d] = {}
  /\ todo[d] \subseteq found[d]
  /\ pc[d] \in {"create", "store"} => at[d] \in found[d] \ todo[d]
  /\ pc[d] = "store" /\ id[d] \in Subscriptions => id[d] = <<d, at[d]>> /\ id[d] \in live
  /\ pc[d] = "store" /\ id[d] \notin Subscriptions => id[d] = Empty /\ at[d] \in refused

InHand == \A d \in Discoveries : Holds(d)

(* What the handler of a notification has looked up.                       *)
Knows(n) ==
  /\ pc[n] \in {"remove", "delete"} /\ id[n] \in Subscriptions =>
       id[n][2] = at[n] /\ Noted(id[n])
  /\ pc[n] = "delete" => id[n] \in Subscriptions \ live

LookedUp == \A n \in Notifications : Knows(n)

(* An id in the map has been stored by the discovery that made it.         *)
StoredByItsDiscovery ==
  \A i \in Instances : nfStatusSubscriptions[i] \in Subscriptions =>
    nfStatusSubscriptions[i][2] = i /\ Noted(nfStatusSubscriptions[i])

Stored == InHand /\ LookedUp /\ StoredByItsDiscovery /\ StoredIdIsLive

(* At most one goroutine is at work on an instance that is not crossed.    *)
Alone == \A i \in Instances \ crossed : \A g, h \in Working(i) : g = h

(* While one is, nobody else changes the entry.                            *)
Undisturbed ==
  \A i \in Instances \ crossed :
    /\ \A d \in Discoveries : pc[d] \in {"create", "store"} /\ at[d] = i =>
         /\ nfStatusSubscriptions[i] = None
         /\ pc[d] = "create" => Watching(i) \subseteq strays
    /\ \A n \in Notifications : pc[n] \in {"remove", "delete"} /\ at[n] = i =>
         nfStatusSubscriptions[i] = id[n]

(* A subscription is in the map, or its answer was lost, or the discovery  *)
(* that made it has still to store what it was given.                      *)
Accounted ==
  \A i \in Instances \ crossed : \A sub \in Watching(i) \ strays :
    \/ nfStatusSubscriptions[i] \in {sub, Empty}
    \/ pc[sub[1]] = "store" /\ at[sub[1]] = i

Inv == TypeOK /\ Stored /\ Alone /\ Undisturbed /\ Accounted /\ OneSubscriptionPerInstance

(* The discovery d has gone past i in the answer it holds.                 *)
Covered(d, i) ==
  pc[d] \in {"loop", "create", "store"} /\ i \in found[d] /\ Past(d, i)

(* A refused creation is noted as "".                                      *)
EmptyIsRefused ==
  \A i \in Instances : nfStatusSubscriptions[i] = Empty => i \in refused

(* While a notification of an instance is handled, the cache is without it. *)
OutOfCache ==
  /\ EnableNrfCaching \/ cache = {}
  /\ \A n \in Notifications : pc[n] \in {"load", "remove", "delete"} =>
       at[n] \notin cache \ crossed

(* What is in the cache, or about to be put there, is watched.             *)
Watched ==
  \A i \in Instances \ (crossed \cup refused) :
    i \in cache \/ (\E d \in Discoveries : Covered(d, i)) =>
      Watching(i) # {} \/ \E sub \in unconfirmed : sub[2] = i

(* Of an instance that is gone, and that is cached or in the answer of a   *)
(* discovery, a notification is due.                                       *)
Announced ==
  \A i \in Instances \ (registered \cup crossed \cup refused \cup missed) :
    i \in cache \/ (\E d \in Discoveries : d \in Working(i)) =>
      \E sub \in due \cup unconfirmed : sub[2] = i

CacheInv == Inv /\ EmptyIsRefused /\ OutOfCache /\ Watched /\ Announced

-----------------------------------------------------------------------------
(* What a goroutine does when it ends.                                     *)
LEMMA EndType ==
  ASSUME TypeOK, NEW g \in Goroutines, End(g)
  PROVE  /\ pc' \in [Goroutines -> {"idle", "ask", "loop", "create", "store",
                                     "load", "remove", "delete", "done"}]
         /\ at' \in [Goroutines -> Instances \cup {None}]
         /\ \A h \in Goroutines :
              pc'[h] \notin {"idle", "ask", "loop", "done"} => at'[h] \in Instances
         /\ id' \in [Goroutines -> Subscriptions \cup {Empty, None}]
BY DEF TypeOK, End, Goto


(* Every step of the model keeps the types.                                *)
LEMMA TypeStep ==
  ASSUME TypeOK, [Next]_vars
  PROVE  TypeOK'
<1> USE NrfAssumption DEF TypeOK, Goto, udmVars, nrfVars, history
<1> Discoveries \subseteq Goroutines /\ Notifications \subseteq Goroutines
  BY DEF Goroutines
<1>1. CASE UNCHANGED vars
  BY <1>1 DEF vars
<1>2. CASE Restart /\ UNCHANGED crossed
  <2>1. pc' \in [Goroutines -> {"idle", "ask", "loop", "create", "store",
                                "load", "remove", "delete", "done"}]
    BY <1>2 DEF Restart, Running
  <2>2. \A g \in Goroutines : pc'[g] \in {"idle", "done"}
    BY <1>2 DEF Restart, Running
  <2>3. /\ found' = [d \in Discoveries |-> {}] /\ todo' = [d \in Discoveries |-> {}]
        /\ at' = [g \in Goroutines |-> None] /\ id' = [g \in Goroutines |-> None]
        /\ err' = [d \in Discoveries |-> FALSE]
        /\ nfStatusSubscriptions' = [i \in Instances |-> None]
    BY <1>2 DEF Restart
  <2>4. /\ cache' = {} /\ restarts' \in 0..MaxRestarts /\ strays' = strays \cup live
        /\ UNCHANGED <<registered, live, due, changes, refused, missed, unconfirmed, crossed>>
    BY <1>2 DEF Restart
  <2> HIDE DEF Goto
  <2> QED  BY <2>1, <2>2, <2>3, <2>4
<1>3. ASSUME UNCHANGED restarts, Cross PROVE crossed' \in SUBSET Instances /\ restarts' \in 0..MaxRestarts
  BY <1>3 DEF Cross
<1>4. ASSUME UNCHANGED restarts, Cross, NEW d \in Discoveries, SendSearchNFInstances(d) PROVE TypeOK'
  BY <1>3, <1>4 DEF SendSearchNFInstances
<1>5. ASSUME UNCHANGED restarts, Cross, NEW d \in Discoveries, SearchAtNrf(d) PROVE TypeOK'
  BY <1>3, <1>5 DEF SearchAtNrf
<1>6. ASSUME UNCHANGED restarts, Cross, NEW d \in Discoveries, LoadSubscription(d) PROVE TypeOK'
  BY <1>3, <1>6 DEF LoadSubscription
<1>7. ASSUME UNCHANGED restarts, Cross, NEW d \in Discoveries, CreateSubscription(d) PROVE TypeOK'
  <2>1. at[d] \in Instances /\ <<d, at[d]>> \in Subscriptions
    BY <1>7 DEF CreateSubscription, Subscriptions
  <2>2. /\ live' \in SUBSET Subscriptions
        /\ refused' \in SUBSET Instances
        /\ id' \in [Goroutines -> Subscriptions \cup {Empty, None}]
        /\ err' \in [Discoveries -> BOOLEAN]
    <3>1. \/ id' = [id EXCEPT ![d] = <<d, at[d]>>]
          \/ id' = [id EXCEPT ![d] = Empty]
      BY <1>7 DEF CreateSubscription
    <3>2. err' = [err EXCEPT ![d] = FALSE] \/ err' = [err EXCEPT ![d] = TRUE]
      BY <1>7 DEF CreateSubscription
    <3>3. refused' = refused \/ refused' = refused \cup {at[d]}
      BY <1>7 DEF CreateSubscription
    <3>4. live' = live \/ live' = live \cup {<<d, at[d]>>}
      BY <1>7 DEF CreateSubscription
    <3>5. id' \in [Goroutines -> Subscriptions \cup {Empty, None}]
      BY <3>1, <2>1
    <3>6. err' \in [Discoveries -> BOOLEAN]
      BY <3>2
    <3>7. refused' \in SUBSET Instances /\ live' \in SUBSET Subscriptions
      BY <3>3, <3>4, <2>1
    <3> QED  BY <3>5, <3>6, <3>7
  <2>3. /\ pc' = [pc EXCEPT ![d] = "store"]
        /\ UNCHANGED <<found, todo, at, nfStatusSubscriptions, cache, registered, due, changes,
                       missed, unconfirmed, strays>>
    BY <1>7 DEF CreateSubscription
  <2> QED  BY <1>3, <1>7, <2>1, <2>2, <2>3
<1>8. ASSUME UNCHANGED restarts, Cross, NEW d \in Discoveries, StoreSubscription(d) PROVE TypeOK'
  BY <1>3, <1>8 DEF StoreSubscription
<1>9. ASSUME UNCHANGED restarts, Cross, NEW d \in Discoveries, EndDiscovery(d) PROVE TypeOK'
  BY <1>3, <1>9, EndType DEF EndDiscovery, EndSearch
<1>10. ASSUME UNCHANGED restarts, Cross, NEW n \in Notifications, RemoveFromCache(n) PROVE TypeOK'
  BY <1>3, <1>10 DEF RemoveFromCache, Subscriptions
<1>11. ASSUME UNCHANGED restarts, Cross, NEW n \in Notifications, FindSubscription(n) PROVE TypeOK'
  BY <1>3, <1>11, EndType DEF FindSubscription
<1>12. ASSUME UNCHANGED restarts, Cross, NEW n \in Notifications, SendRemoveSubscription(n) PROVE TypeOK'
  BY <1>3, <1>12, EndType DEF SendRemoveSubscription
<1>13. ASSUME UNCHANGED restarts, Cross, NEW n \in Notifications, DeleteSubscription(n) PROVE TypeOK'
  BY <1>3, <1>13, EndType DEF DeleteSubscription
<1>14. ASSUME UNCHANGED restarts, Cross, NEW i \in Instances, Deregister(i) PROVE TypeOK'
  BY <1>3, <1>14 DEF Deregister, Watching
<1>15. ASSUME UNCHANGED restarts, Cross, NEW i \in Instances, ComeBack(i) PROVE TypeOK'
  BY <1>3, <1>15 DEF ComeBack, Watching
<1>16. ASSUME UNCHANGED restarts, Cross, NEW i \in Instances, Evict(i) PROVE TypeOK'
  BY <1>3, <1>16 DEF Evict, Watching
<1>17. ASSUME UNCHANGED restarts, Cross, NEW sub \in due, LoseNotification(sub) PROVE TypeOK'
  BY <1>3, <1>17 DEF LoseNotification, Subscriptions
<1> QED
  BY <1>1, <1>2, <1>4, <1>5, <1>6, <1>7, <1>8, <1>9, <1>10, <1>11, <1>12, <1>13, <1>14, <1>15, <1>16, <1>17
     DEF Next, Discovery, StatusNotify, NrfStep

LEMMA TypeInit == Init => TypeOK
BY NrfAssumption DEF Init, TypeOK

(* The variables of the model keep their types.                            *)
THEOREM TypeCorrect == Spec => []TypeOK
BY TypeInit, TypeStep, PTL DEF Spec

-----------------------------------------------------------------------------
(* Nobody takes a stored subscription back into a discovery's hand.        *)
LEMMA PastStep ==
  ASSUME TypeOK, NEW e \in Discoveries, NEW j \in Instances, Past(e, j), [Next]_vars
  PROVE  Past(e, j)'
<1> USE NrfAssumption DEF TypeOK, Goto, udmVars, nrfVars, Past
<1> Goroutines = Discoveries \cup Notifications
  BY DEF Goroutines
<1>1. CASE UNCHANGED vars
  BY <1>1 DEF vars
<1>2. CASE Restart
  BY <1>2 DEF Restart, Running
<1>3. ASSUME NEW d \in Discoveries, SendSearchNFInstances(d) PROVE Past(e, j)'
  BY <1>3 DEF SendSearchNFInstances
<1>4. ASSUME NEW d \in Discoveries, SearchAtNrf(d) PROVE Past(e, j)'
  BY <1>4 DEF SearchAtNrf
<1>5. ASSUME NEW d \in Discoveries, LoadSubscription(d) PROVE Past(e, j)'
  BY <1>5 DEF LoadSubscription
<1>6. ASSUME NEW d \in Discoveries, CreateSubscription(d) PROVE Past(e, j)'
  BY <1>6 DEF CreateSubscription
<1>7. ASSUME NEW d \in Discoveries, StoreSubscription(d) PROVE Past(e, j)'
  BY <1>7 DEF StoreSubscription
<1>8. ASSUME NEW d \in Discoveries, EndDiscovery(d) PROVE Past(e, j)'
  BY <1>8 DEF EndSearch, End, EndDiscovery
<1>9. ASSUME NEW n \in Notifications, RemoveFromCache(n) PROVE Past(e, j)'
  BY <1>9 DEF RemoveFromCache
<1>10. ASSUME NEW n \in Notifications, FindSubscription(n) PROVE Past(e, j)'
  BY <1>10 DEF End, FindSubscription
<1>11. ASSUME NEW n \in Notifications, SendRemoveSubscription(n) PROVE Past(e, j)'
  BY <1>11 DEF End, SendRemoveSubscription
<1>12. ASSUME NEW n \in Notifications, DeleteSubscription(n) PROVE Past(e, j)'
  BY <1>12 DEF End, DeleteSubscription
<1>13. ASSUME NEW i \in Instances, Deregister(i) PROVE Past(e, j)'
  BY <1>13 DEF Deregister
<1>14. ASSUME NEW i \in Instances, ComeBack(i) PROVE Past(e, j)'
  BY <1>14 DEF ComeBack
<1>15. ASSUME NEW i \in Instances, Evict(i) PROVE Past(e, j)'
  BY <1>15 DEF Evict
<1>16. ASSUME NEW sub \in due, LoseNotification(sub) PROVE Past(e, j)'
  BY <1>16 DEF LoseNotification
<1> QED
  BY <1>1, <1>2, <1>3, <1>4, <1>5, <1>6, <1>7, <1>8, <1>9, <1>10, <1>11, <1>12, <1>13, <1>14, <1>15, <1>16
     DEF Next, Discovery, StatusNotify, NrfStep

-----------------------------------------------------------------------------
(* Only three actions write the map.                                       *)
LEMMA MapWriters ==
  ASSUME [Next]_vars
  PROVE  \/ UNCHANGED nfStatusSubscriptions
         \/ \E d \in Discoveries : StoreSubscription(d)
         \/ \E n \in Notifications : DeleteSubscription(n)
         \/ Restart
BY DEF Next, Discovery, StatusNotify, NrfStep, vars, udmVars, SendSearchNFInstances, SearchAtNrf,
       LoadSubscription, CreateSubscription, EndDiscovery, RemoveFromCache, FindSubscription,
       SendRemoveSubscription, Deregister, ComeBack, Evict, LoseNotification

(* A subscription is made in one place, and removed in one other.          *)
LEMMA LiveWriters ==
  ASSUME [Next]_vars
  PROVE  \/ UNCHANGED live
         \/ \E d \in Discoveries : CreateSubscription(d) /\ live' = live \cup {<<d, at[d]>>}
         \/ \E n \in Notifications : SendRemoveSubscription(n) /\ live' = live \ {id[n]}
BY DEF Next, Discovery, StatusNotify, NrfStep, vars, nrfVars, SendSearchNFInstances, SearchAtNrf,
       LoadSubscription, CreateSubscription, StoreSubscription, EndDiscovery, RemoveFromCache,
       FindSubscription, SendRemoveSubscription, DeleteSubscription, Deregister, ComeBack, Evict,
       LoseNotification, Restart

(* A discovery stores what it was given.  The removal of a subscription    *)
(* needs that it has been stored.                                          *)
LEMMA InHandStep ==
  ASSUME TypeOK, InHand, LookedUp, [Next]_vars
  PROVE  InHand'
<1> SUFFICES ASSUME NEW e \in Discoveries PROVE Holds(e)'
  BY DEF InHand
<1> USE NrfAssumption DEF TypeOK, Goto, udmVars, nrfVars, history, Holds
<1> Goroutines = Discoveries \cup Notifications /\ e \in Goroutines
  BY DEF Goroutines
<1> Holds(e)
  BY DEF InHand
<1>1. CASE UNCHANGED vars
  BY <1>1 DEF vars
<1>2. ASSUME NEW d \in Discoveries, SendSearchNFInstances(d) PROVE Holds(e)'
  BY <1>2 DEF SendSearchNFInstances
<1>3. ASSUME NEW d \in Discoveries, SearchAtNrf(d) PROVE Holds(e)'
  BY <1>3 DEF SearchAtNrf
<1>4. ASSUME NEW d \in Discoveries, LoadSubscription(d) PROVE Holds(e)'
  BY <1>4 DEF LoadSubscription
<1>5. ASSUME NEW d \in Discoveries, CreateSubscription(d) PROVE Holds(e)'
  <2>1. \/ id' = [id EXCEPT ![d] = <<d, at[d]>>] /\ live' = live \cup {<<d, at[d]>>} /\ UNCHANGED refused
        \/ id' = [id EXCEPT ![d] = Empty] /\ live \subseteq live' /\ refused' = refused \cup {at[d]}
    BY <1>5 DEF CreateSubscription
  <2>2. pc[d] = "create" /\ pc' = [pc EXCEPT ![d] = "store"] /\ UNCHANGED <<todo, found, at>>
    BY <1>5 DEF CreateSubscription
  <2>3. Empty \notin Subscriptions /\ at[d] \in Instances
    BY <2>2
  <2>4. <<d, at[d]>> \in Subscriptions
    BY <2>3 DEF Subscriptions
  <2>5. CASE e = d
    BY <2>1, <2>2, <2>3, <2>4, <2>5
  <2>6. CASE e # d
    BY <2>1, <2>2, <2>6
  <2> QED  BY <2>5, <2>6
<1>6. ASSUME NEW d \in Discoveries, StoreSubscription(d) PROVE Holds(e)'
  BY <1>6 DEF StoreSubscription
<1>7. ASSUME NEW d \in Discoveries, EndDiscovery(d) PROVE Holds(e)'
  BY <1>7 DEF EndDiscovery, EndSearch, End
<1>8. ASSUME NEW n \in Notifications, RemoveFromCache(n) PROVE Holds(e)'
  BY <1>8 DEF RemoveFromCache
<1>9. ASSUME NEW n \in Notifications, FindSubscription(n) PROVE Holds(e)'
  BY <1>9 DEF FindSubscription, End
<1>10. ASSUME NEW n \in Notifications, SendRemoveSubscription(n) PROVE Holds(e)'
  <2>1. e # n /\ pc[n] = "remove" /\ UNCHANGED <<todo, found, refused>>
    BY <1>10 DEF SendRemoveSubscription
  <2>2. pc'[e] = pc[e] /\ at'[e] = at[e] /\ id'[e] = id[e]
    BY <1>10, <2>1 DEF SendRemoveSubscription, End
  <2>3. pc[e] = "store" /\ id[e] \in Subscriptions => id[e] \in live'
    <3> SUFFICES ASSUME pc[e] = "store", id[e] \in Subscriptions, id[e] = id[n] PROVE FALSE
      BY <1>10, <2>2 DEF SendRemoveSubscription
    <3> QED  BY <2>1 DEF LookedUp, Knows, Noted, Past
  <2> QED  BY <2>1, <2>2, <2>3
<1>11. ASSUME NEW n \in Notifications, DeleteSubscription(n) PROVE Holds(e)'
  BY <1>11 DEF DeleteSubscription, End
<1>12. ASSUME NEW i \in Instances, Deregister(i) PROVE Holds(e)'
  BY <1>12 DEF Deregister
<1>13. ASSUME NEW i \in Instances, ComeBack(i) PROVE Holds(e)'
  BY <1>13 DEF ComeBack
<1>14. ASSUME NEW i \in Instances, Evict(i) PROVE Holds(e)'
  BY <1>14 DEF Evict
<1>15. ASSUME NEW sub \in due, LoseNotification(sub) PROVE Holds(e)'
  BY <1>15 DEF LoseNotification
<1>16. ASSUME Restart PROVE Holds(e)'
  BY <1>16 DEF Restart, Running
<1> QED
  BY <1>1, <1>2, <1>3, <1>4, <1>5, <1>6, <1>7, <1>8, <1>9, <1>10, <1>11, <1>12, <1>13, <1>14, <1>15, <1>16
     DEF Next, Discovery, StatusNotify, NrfStep

LEMMA NotedStep ==
  ASSUME TypeOK, NEW sub \in Subscriptions, Noted(sub), [Next]_vars
  PROVE  Noted(sub)'
BY PastStep DEF Noted, Subscriptions

(* A handler stays where it is with what it knows, moves on with it, or    *)
(* looks it up.                                                            *)
LEMMA HandlerMoves ==
  ASSUME TypeOK, NEW m \in Notifications, [Next]_vars, pc'[m] \in {"remove", "delete"}
  PROVE  \/ pc[m] = pc'[m] /\ id'[m] = id[m] /\ at'[m] = at[m]
         \/ pc[m] = "load" /\ pc'[m] = "remove" /\ at'[m] = at[m]
              /\ id'[m] = nfStatusSubscriptions[at[m]] /\ UNCHANGED nfStatusSubscriptions
         \/ pc[m] = "remove" /\ pc'[m] = "delete" /\ id'[m] = id[m] /\ at'[m] = at[m]
              /\ id[m] \in live /\ live' = live \ {id[m]}
<1> DEFINE Goal == \/ pc[m] = pc'[m] /\ id'[m] = id[m] /\ at'[m] = at[m]
                   \/ pc[m] = "load" /\ pc'[m] = "remove" /\ at'[m] = at[m]
                       /\ id'[m] = nfStatusSubscriptions[at[m]] /\ UNCHANGED nfStatusSubscriptions
                   \/ pc[m] = "remove" /\ pc'[m] = "delete" /\ id'[m] = id[m] /\ at'[m] = at[m]
                       /\ id[m] \in live /\ live' = live \ {id[m]}
<1> USE NrfAssumption DEF TypeOK, Goto, udmVars
<1> Goroutines = Discoveries \cup Notifications /\ m \in Goroutines
  BY DEF Goroutines
<1>1. CASE UNCHANGED vars
  BY <1>1 DEF vars
<1>2. ASSUME NEW d \in Discoveries, SendSearchNFInstances(d) PROVE Goal
  BY <1>2 DEF SendSearchNFInstances
<1>3. ASSUME NEW d \in Discoveries, SearchAtNrf(d) PROVE Goal
  BY <1>3 DEF SearchAtNrf
<1>4. ASSUME NEW d \in Discoveries, LoadSubscription(d) PROVE Goal
  BY <1>4 DEF LoadSubscription
<1>5. ASSUME NEW d \in Discoveries, CreateSubscription(d) PROVE Goal
  <2>1. \E sub \in {<<d, at[d]>>, Empty} : id' = [id EXCEPT ![d] = sub]
    BY <1>5 DEF CreateSubscription
  <2> QED  BY <1>5, <2>1 DEF CreateSubscription
<1>6. ASSUME NEW d \in Discoveries, StoreSubscription(d) PROVE Goal
  BY <1>6 DEF StoreSubscription
<1>7. ASSUME NEW d \in Discoveries, EndDiscovery(d) PROVE Goal
  BY <1>7 DEF EndDiscovery, EndSearch, End
<1>8. ASSUME NEW n \in Notifications, RemoveFromCache(n) PROVE Goal
  BY <1>8 DEF RemoveFromCache
<1>9. ASSUME NEW n \in Notifications, FindSubscription(n) PROVE Goal
  BY <1>9 DEF FindSubscription, End
<1>10. ASSUME NEW n \in Notifications, SendRemoveSubscription(n) PROVE Goal
  BY <1>10 DEF SendRemoveSubscription, End
<1>11. ASSUME NEW n \in Notifications, DeleteSubscription(n) PROVE Goal
  BY <1>11 DEF DeleteSubscription, End
<1>12. ASSUME NEW i \in Instances, Deregister(i) PROVE Goal
  BY <1>12 DEF Deregister
<1>13. ASSUME NEW i \in Instances, ComeBack(i) PROVE Goal
  BY <1>13 DEF ComeBack
<1>14. ASSUME NEW i \in Instances, Evict(i) PROVE Goal
  BY <1>14 DEF Evict
<1>15. ASSUME NEW sub \in due, LoseNotification(sub) PROVE Goal
  BY <1>15 DEF LoseNotification
<1>16. ASSUME Restart PROVE Goal
  BY <1>16 DEF Restart, Running
<1> QED
  BY <1>1, <1>2, <1>3, <1>4, <1>5, <1>6, <1>7, <1>8, <1>9, <1>10, <1>11, <1>12, <1>13, <1>14, <1>15, <1>16
     DEF Next, Discovery, StatusNotify, NrfStep

(* A handler has looked up an id that was stored.                          *)
LEMMA LookedUpStep ==
  ASSUME TypeOK, LookedUp, StoredByItsDiscovery, [Next]_vars
  PROVE  LookedUp'
<1> SUFFICES ASSUME NEW m \in Notifications PROVE Knows(m)'
  BY DEF LookedUp
<1> SUFFICES ASSUME pc'[m] \in {"remove", "delete"} PROVE Knows(m)'
  BY DEF Knows
<1> Knows(m) /\ m \in Goroutines
  BY DEF LookedUp, Goroutines
<1>1. CASE pc[m] = pc'[m] /\ id'[m] = id[m] /\ at'[m] = at[m]
  <2>1. id[m] \in Subscriptions => Noted(id[m])'
    BY <1>1, NotedStep DEF Knows
  <2>2. ASSUME pc[m] = "delete" PROVE id[m] \notin live'
    <3> SUFFICES ASSUME NEW d \in Discoveries, CreateSubscription(d), id[m] = <<d, at[d]>>
                 PROVE  FALSE
      BY <2>2, LiveWriters DEF Knows
    <3> QED  BY <2>2 DEF Knows, Noted, Past, CreateSubscription
  <2> QED  BY <1>1, <2>1, <2>2 DEF Knows, Noted, Past
<1>2. CASE /\ pc[m] = "load" /\ pc'[m] = "remove" /\ at'[m] = at[m]
           /\ id'[m] = nfStatusSubscriptions[at[m]] /\ UNCHANGED nfStatusSubscriptions
  <2>1. at[m] \in Instances
    BY <1>2 DEF TypeOK
  <2>2. id'[m] \in Subscriptions => id'[m][2] = at[m] /\ Noted(nfStatusSubscriptions[at[m]])
    BY <1>2, <2>1 DEF StoredByItsDiscovery
  <2> QED  BY <1>2, <2>2, NotedStep DEF Knows, Noted, Past
<1>3. CASE /\ pc[m] = "remove" /\ pc'[m] = "delete" /\ id'[m] = id[m] /\ at'[m] = at[m]
           /\ id[m] \in live /\ live' = live \ {id[m]}
  <2>1. id[m] \in Subscriptions
    BY <1>3 DEF TypeOK
  <2>2. Noted(id[m])'
    BY <1>3, <2>1, NotedStep DEF Knows
  <2> QED  BY <1>3, <2>1, <2>2 DEF Knows, Noted, Past
<1> QED
  BY <1>1, <1>2, <1>3, HandlerMoves

(* A handler leaves its last step by taking it.                            *)
LEMMA HandlerLeaves ==
  ASSUME TypeOK, NEW m \in Notifications, [Next]_vars, pc[m] = "delete", pc'[m] # "delete"
  PROVE  DeleteSubscription(m) \/ Restart
<1> USE NrfAssumption DEF TypeOK, Goto, udmVars
<1> Goroutines = Discoveries \cup Notifications /\ m \in Goroutines
  BY DEF Goroutines
<1>1. CASE UNCHANGED vars
  BY <1>1 DEF vars
<1>2. ASSUME NEW d \in Discoveries, SendSearchNFInstances(d) PROVE DeleteSubscription(m) \/ Restart
  BY <1>2 DEF SendSearchNFInstances
<1>3. ASSUME NEW d \in Discoveries, SearchAtNrf(d) PROVE DeleteSubscription(m) \/ Restart
  BY <1>3 DEF SearchAtNrf
<1>4. ASSUME NEW d \in Discoveries, LoadSubscription(d) PROVE DeleteSubscription(m) \/ Restart
  BY <1>4 DEF LoadSubscription
<1>5. ASSUME NEW d \in Discoveries, CreateSubscription(d) PROVE DeleteSubscription(m) \/ Restart
  BY <1>5 DEF CreateSubscription
<1>6. ASSUME NEW d \in Discoveries, StoreSubscription(d) PROVE DeleteSubscription(m) \/ Restart
  BY <1>6 DEF StoreSubscription
<1>7. ASSUME NEW d \in Discoveries, EndDiscovery(d) PROVE DeleteSubscription(m) \/ Restart
  BY <1>7 DEF EndDiscovery, EndSearch, End
<1>8. ASSUME NEW n \in Notifications, RemoveFromCache(n) PROVE DeleteSubscription(m) \/ Restart
  BY <1>8 DEF RemoveFromCache
<1>9. ASSUME NEW n \in Notifications, FindSubscription(n) PROVE DeleteSubscription(m) \/ Restart
  BY <1>9 DEF FindSubscription, End
<1>10. ASSUME NEW n \in Notifications, SendRemoveSubscription(n) PROVE DeleteSubscription(m) \/ Restart
  BY <1>10 DEF SendRemoveSubscription, End
<1>11. ASSUME NEW n \in Notifications, DeleteSubscription(n) PROVE DeleteSubscription(m) \/ Restart
  BY <1>11 DEF DeleteSubscription, End
<1>12. ASSUME NEW i \in Instances, Deregister(i) PROVE DeleteSubscription(m) \/ Restart
  BY <1>12 DEF Deregister
<1>13. ASSUME NEW i \in Instances, ComeBack(i) PROVE DeleteSubscription(m) \/ Restart
  BY <1>13 DEF ComeBack
<1>14. ASSUME NEW i \in Instances, Evict(i) PROVE DeleteSubscription(m) \/ Restart
  BY <1>14 DEF Evict
<1>15. ASSUME NEW sub \in due, LoseNotification(sub) PROVE DeleteSubscription(m) \/ Restart
  BY <1>15 DEF LoseNotification
<1>16. ASSUME Restart PROVE DeleteSubscription(m) \/ Restart
  BY <1>16 DEF Restart
<1> QED
  BY <1>1, <1>2, <1>3, <1>4, <1>5, <1>6, <1>7, <1>8, <1>9, <1>10, <1>11, <1>12, <1>13, <1>14, <1>15, <1>16
     DEF Next, Discovery, StatusNotify, NrfStep

LEMMA StoredByItsDiscoveryStep ==
  ASSUME TypeOK, InHand, StoredByItsDiscovery, [Next]_vars
  PROVE  StoredByItsDiscovery'
<1> SUFFICES ASSUME NEW i \in Instances, nfStatusSubscriptions'[i] \in Subscriptions
             PROVE  /\ nfStatusSubscriptions'[i][2] = i
                    /\ Noted(nfStatusSubscriptions[i])'
  BY DEF StoredByItsDiscovery
<1>1. CASE nfStatusSubscriptions'[i] = nfStatusSubscriptions[i]
  <2>1. nfStatusSubscriptions[i][2] = i /\ Noted(nfStatusSubscriptions[i])
    BY <1>1 DEF StoredByItsDiscovery
  <2>2. Noted(nfStatusSubscriptions[i])'
    BY <1>1, <2>1, NotedStep DEF Noted, Past
  <2> QED  BY <1>1, <2>1, <2>2
<1>2. ASSUME NEW d \in Discoveries, StoreSubscription(d),
             nfStatusSubscriptions'[i] # nfStatusSubscriptions[i]
      PROVE  /\ nfStatusSubscriptions'[i][2] = i
             /\ Noted(nfStatusSubscriptions[i])'
  <2> d \in Goroutines
    BY DEF Goroutines
  <2>1. i = at[d] /\ nfStatusSubscriptions'[i] = id[d] /\ pc[d] = "store"
    BY <1>2 DEF StoreSubscription, TypeOK
  <2>2. id[d] = <<d, i>> /\ i \notin todo[d]
    BY <2>1 DEF InHand, Holds
  <2>3. pc'[d] = "loop" /\ UNCHANGED todo
    BY <1>2 DEF StoreSubscription, Goto, TypeOK
  <2> QED  BY <2>1, <2>2, <2>3 DEF Noted, Past
<1>3. ASSUME NEW n \in Notifications, DeleteSubscription(n),
             nfStatusSubscriptions'[i] # nfStatusSubscriptions[i]
      PROVE  FALSE
  BY <1>3, NrfAssumption DEF DeleteSubscription, TypeOK
<1>4. CASE Restart
  BY <1>4, NrfAssumption DEF Restart
<1> QED
  BY <1>1, <1>2, <1>3, <1>4, MapWriters

(* What is removed is in the hand of the handler that removes it, or its   *)
(* removal is unconfirmed.                                                 *)
LEMMA StoredIdIsLiveStep ==
  ASSUME TypeOK, InHand, LookedUp, StoredIdIsLive, [Next]_vars
  PROVE  StoredIdIsLive'
<1> DEFINE Backed(sub) == \/ sub \in live
                          \/ sub \in unconfirmed
                          \/ \E n \in Notifications : pc[n] = "delete" /\ id[n] = sub
<1> SUFFICES ASSUME NEW i \in Instances, NEW sub \in Subscriptions, nfStatusSubscriptions'[i] = sub
             PROVE  sub[2] = i /\ Backed(sub)'
  BY DEF StoredIdIsLive
<1> Goroutines = Discoveries \cup Notifications
  BY DEF Goroutines
<1>1. ASSUME sub \in live PROVE Backed(sub)'
  <2> SUFFICES ASSUME NEW n \in Notifications, SendRemoveSubscription(n), id[n] = sub, sub \notin live'
               PROVE  Backed(sub)'
    BY <1>1, LiveWriters
  <2>1. \/ pc' = [pc EXCEPT ![n] = "delete"] /\ UNCHANGED id
        \/ sub \in unconfirmed'
    BY <1>1 DEF SendRemoveSubscription, Goto
  <2> QED  BY <2>1 DEF TypeOK
<1>2. unconfirmed \subseteq unconfirmed'
  BY DEF Next, Discovery, StatusNotify, NrfStep, vars, history, SendSearchNFInstances, SearchAtNrf,
         LoadSubscription, CreateSubscription, StoreSubscription, EndDiscovery, RemoveFromCache,
         FindSubscription, SendRemoveSubscription, DeleteSubscription, Deregister, ComeBack, Evict,
         LoseNotification, Restart
<1>3. ASSUME NEW n \in Notifications, pc[n] = "delete", id[n] = sub, sub[2] = i
      PROVE  Backed(sub)'
  <2>1. at[n] = i
    BY <1>3 DEF LookedUp, Knows
  <2>2. CASE pc'[n] = "delete"
    BY <1>3, <2>2, HandlerMoves
  <2>3. CASE pc'[n] # "delete"
    <3>1. DeleteSubscription(n) \/ Restart
      BY <1>3, <2>3, HandlerLeaves
    <3>2. nfStatusSubscriptions'[i] = None
      BY <3>1, <2>1 DEF DeleteSubscription, Restart, TypeOK
    <3> QED  BY <3>2, NrfAssumption
  <2> QED  BY <2>2, <2>3
<1>4. CASE nfStatusSubscriptions'[i] = nfStatusSubscriptions[i]
  BY <1>1, <1>2, <1>3, <1>4 DEF StoredIdIsLive
<1>5. ASSUME NEW d \in Discoveries, StoreSubscription(d),
             nfStatusSubscriptions'[i] # nfStatusSubscriptions[i]
      PROVE  sub[2] = i /\ Backed(sub)'
  <2>1. i = at[d] /\ sub = id[d] /\ pc[d] = "store" /\ UNCHANGED live
    BY <1>5 DEF StoreSubscription, TypeOK, nrfVars
  <2> QED  BY <2>1 DEF InHand, Holds
<1>6. ASSUME NEW n \in Notifications, DeleteSubscription(n),
             nfStatusSubscriptions'[i] # nfStatusSubscriptions[i]
      PROVE  FALSE
  BY <1>6, NrfAssumption DEF DeleteSubscription, TypeOK
<1>7. CASE Restart
  BY <1>7, NrfAssumption DEF Restart
<1> QED
  BY <1>4, <1>5, <1>6, <1>7, MapWriters

LEMMA StoredInit == Init => Stored
BY NrfAssumption DEF Init, Stored, InHand, Holds, LookedUp, Knows, StoredByItsDiscovery,
   StoredIdIsLive, Goroutines

LEMMA StoredStep == TypeOK /\ Stored /\ [Next]_vars => Stored'
BY InHandStep, LookedUpStep, StoredByItsDiscoveryStep, StoredIdIsLiveStep DEF Stored

(* The ids in the map are those of subscriptions the NRF has, filed under  *)
(* the instance they are for, unless a removal is on its way or its answer *)
(* was lost.                                                               *)
THEOREM StoredIdsAreLive == Spec => []StoredIdIsLive
<1>1. Init => TypeOK /\ Stored
  BY TypeInit, StoredInit
<1>2. TypeOK /\ Stored /\ [Next]_vars => (TypeOK /\ Stored)'
  BY TypeStep, StoredStep
<1>3. TypeOK /\ Stored => StoredIdIsLive
  BY DEF Stored
<1> QED
  BY <1>1, <1>2, <1>3, PTL DEF Spec

-----------------------------------------------------------------------------
(* A discovery that is subscribing to an instance took it up just now, has *)
(* asked the NRF, or has not moved.                                        *)
LEMMA DiscoveryMoves ==
  ASSUME TypeOK, NEW e \in Discoveries, [Next]_vars, pc'[e] \in {"create", "store"}
  PROVE  \/ pc[e] = pc'[e] /\ at'[e] = at[e] /\ id'[e] = id[e]
         \/ CreateSubscription(e)
         \/ LoadSubscription(e) /\ at'[e] \in todo[e] /\ nfStatusSubscriptions[at'[e]] = None
<1> USE NrfAssumption DEF TypeOK, Goto, udmVars
<1> Goroutines = Discoveries \cup Notifications /\ e \in Goroutines
  BY DEF Goroutines
<1> DEFINE Goal == \/ pc[e] = pc'[e] /\ at'[e] = at[e] /\ id'[e] = id[e]
                   \/ CreateSubscription(e)
                   \/ LoadSubscription(e) /\ at'[e] \in todo[e] /\ nfStatusSubscriptions[at'[e]] = None
<1>1. CASE UNCHANGED vars
  BY <1>1 DEF vars
<1>2. ASSUME NEW d \in Discoveries, SendSearchNFInstances(d) PROVE Goal
  BY <1>2 DEF SendSearchNFInstances
<1>3. ASSUME NEW d \in Discoveries, SearchAtNrf(d) PROVE Goal
  BY <1>3 DEF SearchAtNrf
<1>4. ASSUME NEW d \in Discoveries, LoadSubscription(d) PROVE Goal
  <2>1. CASE e = d
    <3>1. PICK i \in todo[d] :
            IF nfStatusSubscriptions[i] = None
            THEN at' = [at EXCEPT ![d] = i] /\ Goto(d, "create")
            ELSE UNCHANGED <<at, pc>>
      BY <1>4 DEF LoadSubscription
    <3>2. UNCHANGED id
      BY <1>4 DEF LoadSubscription
    <3>3. CASE nfStatusSubscriptions[i] = None
      <4>1. at'[e] = i
        BY <2>1, <3>1, <3>3
      <4> QED  BY <1>4, <2>1, <3>1, <3>3, <4>1
    <3>4. CASE nfStatusSubscriptions[i] # None
      BY <3>1, <3>2, <3>4
    <3> QED  BY <3>3, <3>4
  <2>2. CASE e # d
    <3>1. pc'[e] = pc[e] /\ at'[e] = at[e] /\ UNCHANGED id
      BY <1>4, <2>2 DEF LoadSubscription
    <3> QED  BY <3>1
  <2> QED  BY <2>1, <2>2
<1>5. ASSUME NEW d \in Discoveries, CreateSubscription(d) PROVE Goal
  <2>1. \E sub \in {<<d, at[d]>>, Empty} : id' = [id EXCEPT ![d] = sub]
    BY <1>5 DEF CreateSubscription
  <2>2. CASE e = d
    BY <1>5, <2>2
  <2>3. CASE e # d
    BY <1>5, <2>1, <2>3 DEF CreateSubscription
  <2> QED  BY <2>2, <2>3
<1>6. ASSUME NEW d \in Discoveries, StoreSubscription(d) PROVE Goal
  BY <1>6 DEF StoreSubscription
<1>7. ASSUME NEW d \in Discoveries, EndDiscovery(d) PROVE Goal
  BY <1>7 DEF EndDiscovery, EndSearch, End
<1>8. ASSUME NEW n \in Notifications, RemoveFromCache(n) PROVE Goal
  BY <1>8 DEF RemoveFromCache
<1>9. ASSUME NEW n \in Notifications, FindSubscription(n) PROVE Goal
  BY <1>9 DEF FindSubscription, End
<1>10. ASSUME NEW n \in Notifications, SendRemoveSubscription(n) PROVE Goal
  BY <1>10 DEF SendRemoveSubscription, End
<1>11. ASSUME NEW n \in Notifications, DeleteSubscription(n) PROVE Goal
  BY <1>11 DEF DeleteSubscription, End
<1>12. ASSUME NEW i \in Instances, Deregister(i) PROVE Goal
  BY <1>12 DEF Deregister
<1>13. ASSUME NEW i \in Instances, ComeBack(i) PROVE Goal
  BY <1>13 DEF ComeBack
<1>14. ASSUME NEW i \in Instances, Evict(i) PROVE Goal
  BY <1>14 DEF Evict
<1>15. ASSUME NEW sub \in due, LoseNotification(sub) PROVE Goal
  BY <1>15 DEF LoseNotification
<1>16. ASSUME Restart PROVE Goal
  BY <1>16 DEF Restart, Running
<1> QED
  BY <1>1, <1>2, <1>3, <1>4, <1>5, <1>6, <1>7, <1>8, <1>9, <1>10, <1>11, <1>12, <1>13, <1>14, <1>15, <1>16
     DEF Next, Discovery, StatusNotify, NrfStep

(* A discovery that has its subscription in hand keeps it until it stores  *)
(* it.                                                                     *)
LEMMA DiscoveryLeaves ==
  ASSUME TypeOK, NEW e \in Discoveries, [Next]_vars, pc[e] = "store"
  PROVE  \/ pc'[e] = "store" /\ at'[e] = at[e] /\ id'[e] = id[e]
         \/ StoreSubscription(e)
         \/ Restart
<1> USE NrfAssumption DEF TypeOK, Goto, udmVars
<1> Goroutines = Discoveries \cup Notifications /\ e \in Goroutines
  BY DEF Goroutines
<1> DEFINE Goal == \/ pc'[e] = "store" /\ at'[e] = at[e] /\ id'[e] = id[e]
                   \/ StoreSubscription(e)
                   \/ Restart
<1>1. CASE UNCHANGED vars
  BY <1>1 DEF vars
<1>2. ASSUME NEW d \in Discoveries, SendSearchNFInstances(d) PROVE Goal
  BY <1>2 DEF SendSearchNFInstances
<1>3. ASSUME NEW d \in Discoveries, SearchAtNrf(d) PROVE Goal
  BY <1>3 DEF SearchAtNrf
<1>4. ASSUME NEW d \in Discoveries, LoadSubscription(d) PROVE Goal
  BY <1>4 DEF LoadSubscription
<1>5. ASSUME NEW d \in Discoveries, CreateSubscription(d) PROVE Goal
  <2>1. \E sub \in {<<d, at[d]>>, Empty} : id' = [id EXCEPT ![d] = sub]
    BY <1>5 DEF CreateSubscription
  <2>2. e # d
    BY <1>5 DEF CreateSubscription
  <2> QED  BY <1>5, <2>1, <2>2 DEF CreateSubscription
<1>6. ASSUME NEW d \in Discoveries, StoreSubscription(d) PROVE Goal
  <2>1. CASE e = d
    BY <1>6, <2>1
  <2>2. CASE e # d
    BY <1>6, <2>2 DEF StoreSubscription
  <2> QED  BY <2>1, <2>2
<1>7. ASSUME NEW d \in Discoveries, EndDiscovery(d) PROVE Goal
  BY <1>7 DEF EndDiscovery, EndSearch, End
<1>8. ASSUME NEW n \in Notifications, RemoveFromCache(n) PROVE Goal
  BY <1>8 DEF RemoveFromCache
<1>9. ASSUME NEW n \in Notifications, FindSubscription(n) PROVE Goal
  BY <1>9 DEF FindSubscription, End
<1>10. ASSUME NEW n \in Notifications, SendRemoveSubscription(n) PROVE Goal
  BY <1>10 DEF SendRemoveSubscription, End
<1>11. ASSUME NEW n \in Notifications, DeleteSubscription(n) PROVE Goal
  BY <1>11 DEF DeleteSubscription, End
<1>12. ASSUME NEW i \in Instances, Deregister(i) PROVE Goal
  BY <1>12 DEF Deregister
<1>13. ASSUME NEW i \in Instances, ComeBack(i) PROVE Goal
  BY <1>13 DEF ComeBack
<1>14. ASSUME NEW i \in Instances, Evict(i) PROVE Goal
  BY <1>14 DEF Evict
<1>15. ASSUME NEW sub \in due, LoseNotification(sub) PROVE Goal
  BY <1>15 DEF LoseNotification
<1>16. ASSUME Restart PROVE Goal
  BY <1>16
<1> QED
  BY <1>1, <1>2, <1>3, <1>4, <1>5, <1>6, <1>7, <1>8, <1>9, <1>10, <1>11, <1>12, <1>13, <1>14, <1>15, <1>16
     DEF Next, Discovery, StatusNotify, NrfStep

(* What has crossed, failed or been left behind stays so.                  *)
LEMMA HistoryGrows ==
  ASSUME [Next]_vars
  PROVE  /\ crossed \subseteq crossed'
         /\ refused \subseteq refused'
         /\ strays \subseteq strays'
<1>1. refused \subseteq refused' /\ strays \subseteq strays'
  BY DEF Next, Discovery, StatusNotify, NrfStep, vars, history, SendSearchNFInstances, SearchAtNrf,
         LoadSubscription, CreateSubscription, StoreSubscription, EndDiscovery, RemoveFromCache,
         FindSubscription, SendRemoveSubscription, DeleteSubscription, Deregister, ComeBack, Evict,
         LoseNotification, Restart
<1>2. crossed \subseteq crossed'
  BY DEF Next, Cross, vars, history
<1> QED
  BY <1>1, <1>2

LEMMA AloneStep ==
  ASSUME TypeOK, Alone, [Next]_vars
  PROVE  Alone'
<1>1. CASE UNCHANGED vars
  BY <1>1 DEF Alone, Working, Running, vars, udmVars, history
<1>2. CASE Restart
  <2>1. Running' = {}
    BY <1>2 DEF Restart, Running
  <2> QED  BY <2>1 DEF Alone, Working
<1>3. CASE Cross
  BY <1>3 DEF Alone, Cross
<1> QED
  BY <1>1, <1>2, <1>3 DEF Next

(* Who is about to subscribe, or has looked up the subscription, is at     *)
(* work on the instance, and nobody else is.                               *)
LEMMA AtWork ==
  ASSUME TypeOK, InHand, NEW i \in Instances
  PROVE  /\ \A d \in Discoveries : pc[d] \in {"create", "store"} /\ at[d] = i => d \in Working(i)
         /\ \A d \in Discoveries : pc[d] = "loop" /\ i \in todo[d] => d \in Working(i)
         /\ \A n \in Notifications : pc[n] \in {"load", "remove", "delete"} /\ at[n] = i => n \in Working(i)
BY NrfAssumption DEF TypeOK, InHand, Holds, Working, Running, Goroutines

LEMMA UndisturbedStep ==
  ASSUME TypeOK, InHand, Alone, Undisturbed, Accounted, [Next]_vars
  PROVE  Undisturbed'
<1> SUFFICES ASSUME NEW i \in Instances, i \notin crossed, i \notin crossed'
             PROVE  /\ \A d \in Discoveries : pc'[d] \in {"create", "store"} /\ at'[d] = i =>
                         /\ nfStatusSubscriptions'[i] = None
                         /\ pc'[d] = "create" => Watching(i)' \subseteq strays'
                    /\ \A n \in Notifications : pc'[n] \in {"remove", "delete"} /\ at'[n] = i =>
                         nfStatusSubscriptions'[i] = id'[n]
  BY HistoryGrows DEF Undisturbed
<1> Goroutines = Discoveries \cup Notifications
  BY DEF Goroutines
(* Another goroutine than g does not write the entry.                      *)
<1>1. ASSUME NEW g \in Working(i), ~ Restart,
             \A d \in Discoveries : StoreSubscription(d) => d # g,
             \A n \in Notifications : DeleteSubscription(n) => n # g
      PROVE  nfStatusSubscriptions'[i] = nfStatusSubscriptions[i]
  <2>1. ASSUME NEW d \in Discoveries, StoreSubscription(d) PROVE at[d] # i
    <3>1. SUFFICES ASSUME at[d] = i PROVE FALSE
      OBVIOUS
    <3>2. pc[d] = "store" /\ d # g
      BY <1>1, <2>1 DEF StoreSubscription
    <3>3. d \in Working(i)
      BY <3>1, <3>2, AtWork
    <3> QED  BY <1>1, <3>2, <3>3 DEF Alone
  <2>2. ASSUME NEW n \in Notifications, DeleteSubscription(n) PROVE at[n] # i
    <3>1. SUFFICES ASSUME at[n] = i PROVE FALSE
      OBVIOUS
    <3>2. pc[n] = "delete" /\ n # g
      BY <1>1, <2>2 DEF DeleteSubscription
    <3>3. n \in Working(i)
      BY <3>1, <3>2, AtWork
    <3> QED  BY <1>1, <3>2, <3>3 DEF Alone
  <2> QED
    BY <1>1, <2>1, <2>2, MapWriters DEF StoreSubscription, DeleteSubscription, TypeOK
<1>2. ASSUME NEW d \in Discoveries, pc'[d] \in {"create", "store"}, at'[d] = i
      PROVE  /\ nfStatusSubscriptions'[i] = None
             /\ pc'[d] = "create" => Watching(i)' \subseteq strays'
  <2>1. CASE pc[d] = pc'[d] /\ id'[d] = id[d] /\ at'[d] = at[d]
    <3>1. d \in Working(i) /\ nfStatusSubscriptions[i] = None
      BY <1>2, <2>1, AtWork DEF Undisturbed
    <3>2. ~ Restart
      BY <1>2 DEF Restart, Running, TypeOK
    <3>3. \A e \in Discoveries : StoreSubscription(e) => e # d
      <4>1. StoreSubscription(d) => pc'[d] = "loop"
        BY DEF StoreSubscription, Goto, TypeOK
      <4> QED  BY <1>2, <4>1
    <3>4. \A n \in Notifications : n # d
      BY NrfAssumption
    <3>5. nfStatusSubscriptions'[i] = None
      BY <1>1, <3>1, <3>2, <3>3, <3>4
    <3>6. ASSUME pc'[d] = "create" PROVE Watching(i)' \subseteq strays'
      <4>1. Watching(i) \subseteq strays
        BY <1>2, <2>1, <3>6, HistoryGrows DEF Undisturbed
      <4>2. ASSUME NEW e \in Discoveries, CreateSubscription(e) PROVE at[e] # i
        <5>1. e # d
          BY <3>6, <4>2 DEF CreateSubscription, Goto, TypeOK
        <5> QED  BY <3>1, <4>2, <5>1, AtWork DEF Alone, CreateSubscription
      <4>3. Watching(i)' \subseteq Watching(i)
        BY <4>2, LiveWriters DEF Watching
      <4> QED  BY <4>1, <4>3, HistoryGrows
    <3> QED  BY <3>5, <3>6
  <2>2. CASE CreateSubscription(d)
    <3>1. at[d] = i /\ pc[d] = "create" /\ pc'[d] = "store" /\ UNCHANGED nfStatusSubscriptions
      BY <1>2, <2>2 DEF CreateSubscription, Goto, TypeOK
    <3> QED  BY <3>1 DEF Undisturbed
  <2>3. CASE LoadSubscription(d) /\ at'[d] \in todo[d] /\ nfStatusSubscriptions[at'[d]] = None
    <3>1. d \in Working(i)
      BY <1>2, <2>3, AtWork DEF LoadSubscription
    <3>2. UNCHANGED <<nfStatusSubscriptions, live, strays>>
      BY <2>3 DEF LoadSubscription, nrfVars
    <3>3. ASSUME NEW sub \in Watching(i) \ strays PROVE FALSE
      <4>1. pc[sub[1]] = "store" /\ at[sub[1]] = i /\ sub \in Subscriptions
        BY <1>2, <2>3, <3>3, NrfAssumption DEF Accounted, Watching, TypeOK
      <4>2. sub[1] \in Discoveries
        BY <4>1 DEF Subscriptions
      <4>3. sub[1] = d
        BY <3>1, <4>1, <4>2, AtWork DEF Alone
      <4> QED  BY <2>3, <4>1, <4>3 DEF LoadSubscription
    <3> QED  BY <1>2, <2>3, <3>2, <3>3 DEF Watching
  <2> QED
    BY <1>2, <2>1, <2>2, <2>3, DiscoveryMoves
<1>3. ASSUME NEW n \in Notifications, pc'[n] \in {"remove", "delete"}, at'[n] = i
      PROVE  nfStatusSubscriptions'[i] = id'[n]
  <2>1. CASE pc[n] \in {"remove", "delete"} /\ id'[n] = id[n] /\ at'[n] = at[n]
    <3>1. n \in Working(i) /\ nfStatusSubscriptions[i] = id[n]
      BY <1>3, <2>1, AtWork DEF Undisturbed
    <3>2. ~ Restart
      BY <1>3 DEF Restart, Running, TypeOK
    <3>3. \A m \in Notifications : DeleteSubscription(m) => m # n
      BY <1>3 DEF DeleteSubscription, End, Goto, TypeOK
    <3>4. \A d \in Discoveries : d # n
      BY NrfAssumption
    <3> QED  BY <1>1, <2>1, <3>1, <3>2, <3>3, <3>4
  <2>2. CASE at'[n] = at[n] /\ id'[n] = nfStatusSubscriptions[at[n]] /\ UNCHANGED nfStatusSubscriptions
    BY <1>3, <2>2
  <2> QED
    BY <1>3, <2>1, <2>2, HandlerMoves
<1> QED
  BY <1>2, <1>3

LEMMA AccountedStep ==
  ASSUME TypeOK, InHand, LookedUp, Alone, Undisturbed, Accounted, [Next]_vars
  PROVE  Accounted'
<1> SUFFICES ASSUME NEW i \in Instances, i \notin crossed,
                    NEW sub \in Subscriptions, sub \in live', sub[2] = i, sub \notin strays, sub \notin strays'
             PROVE  \/ nfStatusSubscriptions'[i] \in {sub, Empty}
                    \/ pc'[sub[1]] = "store" /\ at'[sub[1]] = i
  BY HistoryGrows, TypeStep DEF Accounted, Watching, TypeOK
<1> Goroutines = Discoveries \cup Notifications
  BY DEF Goroutines
<1>1. sub[1] \in Discoveries /\ sub = <<sub[1], i>>
  BY DEF Subscriptions
<1>2. ASSUME Restart PROVE FALSE
  BY <1>2 DEF Restart, nrfVars
<1>3. CASE sub \in live /\ nfStatusSubscriptions[i] \in {sub, Empty}
  <2>1. ASSUME NEW d \in Discoveries, StoreSubscription(d) PROVE at[d] # i
    BY <1>3, <2>1, NrfAssumption DEF Undisturbed, StoreSubscription
  <2>2. ASSUME NEW n \in Notifications, DeleteSubscription(n) PROVE at[n] # i
    BY <1>3, <2>2, NrfAssumption DEF Undisturbed, LookedUp, Knows, DeleteSubscription
  <2> QED
    BY <1>2, <1>3, <2>1, <2>2, MapWriters DEF StoreSubscription, DeleteSubscription, TypeOK
<1>4. CASE pc[sub[1]] = "store" /\ at[sub[1]] = i
  <2>1. ASSUME StoreSubscription(sub[1]) PROVE nfStatusSubscriptions'[i] \in {sub, Empty}
    <3>1. id[sub[1]] \in {sub, Empty}
      BY <1>1, <1>4 DEF InHand, Holds
    <3> QED  BY <1>4, <2>1, <3>1 DEF StoreSubscription, TypeOK
  <2> QED  BY <1>1, <1>2, <1>4, <2>1, DiscoveryLeaves
<1>5. CASE sub \notin live
  <2>1. PICK d \in Discoveries : CreateSubscription(d) /\ sub = <<d, at[d]>>
    BY <1>5, LiveWriters
  <2>2. d = sub[1] /\ at[d] = i
    BY <1>1, <2>1
  <2>3. pc' = [pc EXCEPT ![d] = "store"] /\ UNCHANGED at
    BY <1>5, <2>1, <2>2 DEF CreateSubscription, Goto
  <2> QED  BY <2>2, <2>3 DEF TypeOK
<1> QED
  BY <1>3, <1>4, <1>5 DEF Accounted, Watching

(* A discovery subscribes while there is no subscription of this process.  *)
LEMMA OneSubscriptionStep ==
  ASSUME TypeOK, Undisturbed, OneSubscriptionPerInstance, [Next]_vars
  PROVE  OneSubscriptionPerInstance'
<1> SUFFICES ASSUME NEW i \in Instances, i \notin crossed,
                    NEW sub \in live', NEW other \in live', sub[2] = i, other[2] = i,
                    sub \notin strays, other \notin strays
             PROVE  sub = other
  BY HistoryGrows DEF OneSubscriptionPerInstance, Watching
<1>1. CASE sub \in live /\ other \in live
  BY <1>1 DEF OneSubscriptionPerInstance, Watching
<1>2. CASE sub \notin live \/ other \notin live
  <2>1. PICK d \in Discoveries : CreateSubscription(d) /\ live' = live \cup {<<d, at[d]>>}
    BY <1>2, LiveWriters
  <2>2. at[d] = i /\ pc[d] = "create"
    BY <1>2, <2>1 DEF CreateSubscription
  <2>3. sub \notin live /\ other \notin live
    BY <2>2 DEF Undisturbed, Watching
  <2> QED  BY <2>1, <2>3
<1> QED
  BY <1>1, <1>2

LEMMA InvInit == Init => Inv
BY TypeInit, StoredInit DEF Init, Inv, Alone, Working, Running, Undisturbed, Accounted, Watching, Goroutines,
   OneSubscriptionPerInstance

LEMMA InvStep == Inv /\ [Next]_vars => Inv'
BY TypeStep, StoredStep, AloneStep, UndisturbedStep, AccountedStep, OneSubscriptionStep DEF Inv, Stored

(* The NRF has one subscription of this process for an instance on which   *)
(* no two goroutines have worked at once.                                  *)
THEOREM OneSubscription == Spec => []OneSubscriptionPerInstance
<1>1. Inv => OneSubscriptionPerInstance
  BY DEF Inv
<1> QED
  BY <1>1, InvInit, InvStep, PTL DEF Spec

-----------------------------------------------------------------------------
(* The cache grows by what a discovery has gone through.                   *)
LEMMA CacheWriters ==
  ASSUME [Next]_vars
  PROVE  \/ cache' \subseteq cache
         \/ \E d \in Discoveries : EndDiscovery(d) /\ EnableNrfCaching /\ cache' = cache \cup found[d]
BY DEF Next, Discovery, StatusNotify, NrfStep, vars, udmVars, SendSearchNFInstances, SearchAtNrf,
       LoadSubscription, CreateSubscription, StoreSubscription, EndDiscovery, RemoveFromCache,
       FindSubscription, SendRemoveSubscription, DeleteSubscription, Deregister, ComeBack, Evict,
       LoseNotification, Restart

(* A discovery covers an instance when it finds the instance's entry, when *)
(* it stores its own, or has covered it before.                            *)
LEMMA CoveredMoves ==
  ASSUME TypeOK, InHand, NEW e \in Discoveries, NEW j \in Instances, [Next]_vars, Covered(e, j)'
  PROVE  \/ Covered(e, j)
         \/ LoadSubscription(e) /\ j \in todo[e] /\ nfStatusSubscriptions[j] # None
         \/ StoreSubscription(e) /\ at[e] = j
<1> USE NrfAssumption DEF TypeOK, Goto, udmVars, Covered, Past
<1> Goroutines = Discoveries \cup Notifications /\ e \in Goroutines
  BY DEF Goroutines
<1> pc[e] = "ask" => found[e] = {}
  BY DEF InHand, Holds
<1> DEFINE Goal == \/ Covered(e, j)
                   \/ LoadSubscription(e) /\ j \in todo[e] /\ nfStatusSubscriptions[j] # None
                   \/ StoreSubscription(e) /\ at[e] = j
<1>1. CASE UNCHANGED vars
  BY <1>1 DEF vars
<1>2. ASSUME NEW d \in Discoveries, SendSearchNFInstances(d) PROVE Goal
  BY <1>2 DEF SendSearchNFInstances
<1>3. ASSUME NEW d \in Discoveries, SearchAtNrf(d) PROVE Goal
  BY <1>3 DEF SearchAtNrf
<1>4. ASSUME NEW d \in Discoveries, LoadSubscription(d) PROVE Goal
  <2>1. CASE e = d
    <3>1. /\ pc[d] = "loop" /\ UNCHANGED found
          /\ \E i \in todo[d] : todo' = [todo EXCEPT ![d] = @ \ {i}] /\
               \/ nfStatusSubscriptions[i] = None /\ at' = [at EXCEPT ![d] = i] /\ pc' = [pc EXCEPT ![d] = "create"]
               \/ nfStatusSubscriptions[i] # None /\ UNCHANGED <<at, pc>>
      BY <1>4 DEF LoadSubscription
    <3> QED  BY <1>4, <2>1, <3>1
  <2>2. CASE e # d
    BY <1>4, <2>2 DEF LoadSubscription
  <2> QED  BY <2>1, <2>2
<1>5. ASSUME NEW d \in Discoveries, CreateSubscription(d) PROVE Goal
  BY <1>5 DEF CreateSubscription
<1>6. ASSUME NEW d \in Discoveries, StoreSubscription(d) PROVE Goal
  <2>1. CASE e = d
    BY <1>6, <2>1 DEF StoreSubscription
  <2>2. CASE e # d
    BY <1>6, <2>2 DEF StoreSubscription
  <2> QED  BY <2>1, <2>2
<1>7. ASSUME NEW d \in Discoveries, EndDiscovery(d) PROVE Goal
  BY <1>7 DEF EndDiscovery, EndSearch, End
<1>8. ASSUME NEW n \in Notifications, RemoveFromCache(n) PROVE Goal
  BY <1>8 DEF RemoveFromCache
<1>9. ASSUME NEW n \in Notifications, FindSubscription(n) PROVE Goal
  BY <1>9 DEF FindSubscription, End
<1>10. ASSUME NEW n \in Notifications, SendRemoveSubscription(n) PROVE Goal
  BY <1>10 DEF SendRemoveSubscription, End
<1>11. ASSUME NEW n \in Notifications, DeleteSubscription(n) PROVE Goal
  BY <1>11 DEF DeleteSubscription, End
<1>12. ASSUME NEW i \in Instances, Deregister(i) PROVE Goal
  BY <1>12 DEF Deregister
<1>13. ASSUME NEW i \in Instances, ComeBack(i) PROVE Goal
  BY <1>13 DEF ComeBack
<1>14. ASSUME NEW i \in Instances, Evict(i) PROVE Goal
  BY <1>14 DEF Evict
<1>15. ASSUME NEW sub \in due, LoseNotification(sub) PROVE Goal
  BY <1>15 DEF LoseNotification
<1>16. ASSUME Restart PROVE Goal
  BY <1>16 DEF Restart, Running
<1> QED
  BY <1>1, <1>2, <1>3, <1>4, <1>5, <1>6, <1>7, <1>8, <1>9, <1>10, <1>11, <1>12, <1>13, <1>14, <1>15, <1>16
     DEF Next, Discovery, StatusNotify, NrfStep

LEMMA EmptyIsRefusedStep ==
  ASSUME TypeOK, InHand, EmptyIsRefused, [Next]_vars
  PROVE  EmptyIsRefused'
<1> SUFFICES ASSUME NEW i \in Instances, nfStatusSubscriptions'[i] = Empty, i \notin refused,
                    i \notin refused'
             PROVE  FALSE
  BY HistoryGrows DEF EmptyIsRefused
<1>1. nfStatusSubscriptions'[i] # nfStatusSubscriptions[i]
  BY DEF EmptyIsRefused
<1>2. ASSUME NEW d \in Discoveries, StoreSubscription(d) PROVE FALSE
  <2>1. i = at[d] /\ id[d] = Empty /\ pc[d] = "store"
    BY <1>1, <1>2 DEF StoreSubscription, TypeOK
  <2> QED  BY <2>1, NrfAssumption DEF InHand, Holds
<1>3. ASSUME NEW n \in Notifications, DeleteSubscription(n) PROVE FALSE
  BY <1>1, <1>3, NrfAssumption DEF DeleteSubscription, TypeOK
<1>4. CASE Restart
  BY <1>4, NrfAssumption DEF Restart
<1> QED
  BY <1>1, <1>2, <1>3, <1>4, MapWriters

(* A handler that is under way has taken its instance out of the cache.    *)
LEMMA HandlerBegins ==
  ASSUME TypeOK, NEW m \in Notifications, [Next]_vars, pc'[m] \in {"load", "remove", "delete"}
  PROVE  \/ pc[m] \in {"load", "remove", "delete"} /\ at'[m] = at[m]
         \/ RemoveFromCache(m)
<1> USE NrfAssumption DEF TypeOK, Goto, udmVars
<1> Goroutines = Discoveries \cup Notifications /\ m \in Goroutines
  BY DEF Goroutines
<1> DEFINE Goal == \/ pc[m] \in {"load", "remove", "delete"} /\ at'[m] = at[m]
                   \/ RemoveFromCache(m)
<1>1. CASE UNCHANGED vars
  BY <1>1 DEF vars
<1>2. ASSUME NEW d \in Discoveries, SendSearchNFInstances(d) PROVE Goal
  BY <1>2 DEF SendSearchNFInstances
<1>3. ASSUME NEW d \in Discoveries, SearchAtNrf(d) PROVE Goal
  BY <1>3 DEF SearchAtNrf
<1>4. ASSUME NEW d \in Discoveries, LoadSubscription(d) PROVE Goal
  BY <1>4 DEF LoadSubscription
<1>5. ASSUME NEW d \in Discoveries, CreateSubscription(d) PROVE Goal
  BY <1>5 DEF CreateSubscription
<1>6. ASSUME NEW d \in Discoveries, StoreSubscription(d) PROVE Goal
  BY <1>6 DEF StoreSubscription
<1>7. ASSUME NEW d \in Discoveries, EndDiscovery(d) PROVE Goal
  BY <1>7 DEF EndDiscovery, EndSearch, End
<1>8. ASSUME NEW n \in Notifications, RemoveFromCache(n) PROVE Goal
  <2>1. CASE m = n
    BY <1>8, <2>1
  <2>2. CASE m # n
    BY <1>8, <2>2 DEF RemoveFromCache
  <2> QED  BY <2>1, <2>2
<1>9. ASSUME NEW n \in Notifications, FindSubscription(n) PROVE Goal
  BY <1>9 DEF FindSubscription, End
<1>10. ASSUME NEW n \in Notifications, SendRemoveSubscription(n) PROVE Goal
  BY <1>10 DEF SendRemoveSubscription, End
<1>11. ASSUME NEW n \in Notifications, DeleteSubscription(n) PROVE Goal
  BY <1>11 DEF DeleteSubscription, End
<1>12. ASSUME NEW i \in Instances, Deregister(i) PROVE Goal
  BY <1>12 DEF Deregister
<1>13. ASSUME NEW i \in Instances, ComeBack(i) PROVE Goal
  BY <1>13 DEF ComeBack
<1>14. ASSUME NEW i \in Instances, Evict(i) PROVE Goal
  BY <1>14 DEF Evict
<1>15. ASSUME NEW sub \in due, LoseNotification(sub) PROVE Goal
  BY <1>15 DEF LoseNotification
<1>16. ASSUME Restart PROVE Goal
  BY <1>16 DEF Restart, Running
<1> QED
  BY <1>1, <1>2, <1>3, <1>4, <1>5, <1>6, <1>7, <1>8, <1>9, <1>10, <1>11, <1>12, <1>13, <1>14, <1>15, <1>16
     DEF Next, Discovery, StatusNotify, NrfStep

LEMMA OutOfCacheStep ==
  ASSUME TypeOK, InHand, Alone, OutOfCache, [Next]_vars
  PROVE  OutOfCache'
<1>1. (EnableNrfCaching \/ cache = {})'
  BY CacheWriters DEF OutOfCache
<1> SUFFICES ASSUME NEW m \in Notifications, pc'[m] \in {"load", "remove", "delete"},
                    at'[m] \notin crossed, at'[m] \in cache'
             PROVE  FALSE
  BY <1>1, HistoryGrows DEF OutOfCache
<1> Goroutines = Discoveries \cup Notifications
  BY DEF Goroutines
<1>2. CASE RemoveFromCache(m)
  <2>1. PICK sub \in due : /\ at' = [at EXCEPT ![m] = sub[2]]
                           /\ cache' = IF EnableNrfCaching THEN cache \ {sub[2]} ELSE cache
    BY <1>2 DEF RemoveFromCache
  <2> QED  BY <2>1 DEF OutOfCache, TypeOK
<1>3. CASE pc[m] \in {"load", "remove", "delete"} /\ at'[m] = at[m]
  <2>1. PICK d \in Discoveries : EndDiscovery(d) /\ at[m] \in found[d]
    BY <1>3, CacheWriters DEF OutOfCache
  <2>2. d \in Working(at[m])
    BY <2>1 DEF Working, Running, EndDiscovery
  <2>3. m \in Working(at[m]) /\ at[m] \in Instances
    BY <1>3, AtWork DEF TypeOK
  <2> QED  BY <1>3, <2>2, <2>3, NrfAssumption DEF Alone
<1> QED
  BY <1>2, <1>3, HandlerBegins

(* What was lost stays lost.                                               *)
LEMMA LossesGrow ==
  ASSUME [Next]_vars
  PROVE  unconfirmed \subseteq unconfirmed' /\ missed \subseteq missed'
BY DEF Next, Discovery, StatusNotify, NrfStep, vars, history, SendSearchNFInstances, SearchAtNrf,
         LoadSubscription, CreateSubscription, StoreSubscription, EndDiscovery, RemoveFromCache,
         FindSubscription, SendRemoveSubscription, DeleteSubscription, Deregister, ComeBack, Evict,
         LoseNotification, Restart

LEMMA WatchedStep ==
  ASSUME TypeOK, Stored, Alone, EmptyIsRefused, OutOfCache, Watched, [Next]_vars
  PROVE  Watched'
<1> USE DEF Stored
<1> SUFFICES ASSUME NEW i \in Instances, i \notin crossed, i \notin refused,
                    i \in cache' \/ (\E d \in Discoveries : Covered(d, i)')
             PROVE  Watching(i)' # {} \/ \E sub \in unconfirmed' : sub[2] = i
  BY HistoryGrows DEF Watched
<1> Goroutines = Discoveries \cup Notifications
  BY DEF Goroutines
<1>1. ASSUME i \in cache', i \notin cache PROVE \E d \in Discoveries : Covered(d, i)
  <2>1. PICK d \in Discoveries : EndDiscovery(d) /\ i \in found[d]
    BY <1>1, CacheWriters
  <2> QED  BY <2>1 DEF EndDiscovery, Covered, Past
<1>2. ASSUME NEW d \in Discoveries, Covered(d, i) PROVE d \in Working(i)
  BY <1>2 DEF Covered, Working, Running
<1>3. CASE i \in cache \/ \E d \in Discoveries : Covered(d, i)
  <2>1. ASSUME NEW sub \in Watching(i) PROVE sub \in Watching(i)'
    <3> SUFFICES ASSUME NEW n \in Notifications, SendRemoveSubscription(n), id[n] = sub PROVE FALSE
      BY <2>1, LiveWriters DEF Watching
    <3>1. pc[n] = "remove" /\ at[n] = i
      BY <2>1 DEF SendRemoveSubscription, Watching, TypeOK, LookedUp, Knows
    <3>2. n \in Working(i)
      BY <3>1, AtWork
    <3> QED
      BY <1>2, <1>3, <3>1, <3>2, NrfAssumption DEF Alone, OutOfCache
  <2> QED  BY <1>3, <2>1, LossesGrow DEF Watched
<1>4. ASSUME NEW d \in Discoveries, LoadSubscription(d), i \in todo[d], nfStatusSubscriptions[i] # None
      PROVE  Watching(i)' # {} \/ \E sub \in unconfirmed' : sub[2] = i
  <2> DEFINE sub == nfStatusSubscriptions[i]
  <2>1. sub \in Subscriptions
    BY <1>4 DEF TypeOK, EmptyIsRefused
  <2>2. d \in Working(i)
    BY <1>4, AtWork DEF LoadSubscription
  <2>3. ASSUME NEW n \in Notifications, pc[n] = "delete", id[n] = sub PROVE FALSE
    <3>1. at[n] = i
      BY <2>1, <2>3 DEF LookedUp, Knows, StoredByItsDiscovery
    <3> QED  BY <2>2, <2>3, <3>1, AtWork, NrfAssumption DEF Alone
  <2>4. sub[2] = i /\ (sub \in live \/ sub \in unconfirmed)
    BY <2>1, <2>3 DEF StoredIdIsLive
  <2>5. UNCHANGED live
    BY <1>4 DEF LoadSubscription, nrfVars
  <2> QED  BY <2>4, <2>5, LossesGrow DEF Watching
<1>5. ASSUME NEW d \in Discoveries, StoreSubscription(d), at[d] = i
      PROVE  Watching(i)' # {}
  <2>1. id[d] = <<d, i>> /\ id[d] \in live
    BY <1>5 DEF StoreSubscription, InHand, Holds
  <2>2. UNCHANGED live
    BY <1>5 DEF StoreSubscription, nrfVars
  <2> QED  BY <2>1, <2>2 DEF Watching
<1> QED
  BY <1>1, <1>3, <1>4, <1>5, CoveredMoves

(* Four kinds of step change what the NRF has to announce.                 *)
LEMMA NrfWriters ==
  ASSUME [Next]_vars
  PROVE  /\ \/ registered \subseteq registered'
            \/ \E i \in Instances : Deregister(i)
         /\ \/ due \subseteq due'
            \/ \E n \in Notifications : RemoveFromCache(n)
            \/ \E n \in Notifications : SendRemoveSubscription(n) /\ id[n] \in live /\ due' = due \ {id[n]}
            \/ \E sub \in due : LoseNotification(sub)
<1>1. \/ registered \subseteq registered'
      \/ \E i \in Instances : Deregister(i)
  BY DEF Next, Discovery, StatusNotify, NrfStep, vars, nrfVars, SendSearchNFInstances, SearchAtNrf,
         LoadSubscription, CreateSubscription, StoreSubscription, EndDiscovery, RemoveFromCache,
         FindSubscription, SendRemoveSubscription, DeleteSubscription, ComeBack, Evict,
         LoseNotification, Restart
<1>2. \/ due \subseteq due'
      \/ \E n \in Notifications : RemoveFromCache(n)
      \/ \E n \in Notifications : SendRemoveSubscription(n) /\ id[n] \in live /\ due' = due \ {id[n]}
      \/ \E sub \in due : LoseNotification(sub)
  BY DEF Next, Discovery, StatusNotify, NrfStep, vars, nrfVars, SendSearchNFInstances, SearchAtNrf,
         LoadSubscription, CreateSubscription, StoreSubscription, EndDiscovery,
         FindSubscription, SendRemoveSubscription, DeleteSubscription, Deregister, ComeBack, Evict,
         Restart
<1> QED
  BY <1>1, <1>2

(* A discovery works on an instance from the moment the NRF names it.      *)
LEMMA WorkBegins ==
  ASSUME TypeOK, InHand, NEW e \in Discoveries, NEW j \in Instances, [Next]_vars, e \in Working(j)'
  PROVE  e \in Working(j) \/ j \in registered
<1> USE NrfAssumption DEF TypeOK, Goto, udmVars, Working, Running
<1> Goroutines = Discoveries \cup Notifications /\ e \in Goroutines
  BY DEF Goroutines
<1> pc[e] \in {"idle", "ask"} => found[e] = {}
  BY DEF InHand, Holds
<1> DEFINE Goal == e \in Working(j) \/ j \in registered
<1>1. CASE UNCHANGED vars
  BY <1>1 DEF vars
<1>2. ASSUME NEW d \in Discoveries, SendSearchNFInstances(d) PROVE Goal
  BY <1>2 DEF SendSearchNFInstances
<1>3. ASSUME NEW d \in Discoveries, SearchAtNrf(d) PROVE Goal
  BY <1>3 DEF SearchAtNrf
<1>4. ASSUME NEW d \in Discoveries, LoadSubscription(d) PROVE Goal
  BY <1>4 DEF LoadSubscription
<1>5. ASSUME NEW d \in Discoveries, CreateSubscription(d) PROVE Goal
  BY <1>5 DEF CreateSubscription
<1>6. ASSUME NEW d \in Discoveries, StoreSubscription(d) PROVE Goal
  BY <1>6 DEF StoreSubscription
<1>7. ASSUME NEW d \in Discoveries, EndDiscovery(d) PROVE Goal
  BY <1>7 DEF EndDiscovery, EndSearch, End
<1>8. ASSUME NEW n \in Notifications, RemoveFromCache(n) PROVE Goal
  BY <1>8 DEF RemoveFromCache
<1>9. ASSUME NEW n \in Notifications, FindSubscription(n) PROVE Goal
  BY <1>9 DEF FindSubscription, End
<1>10. ASSUME NEW n \in Notifications, SendRemoveSubscription(n) PROVE Goal
  BY <1>10 DEF SendRemoveSubscription, End
<1>11. ASSUME NEW n \in Notifications, DeleteSubscription(n) PROVE Goal
  BY <1>11 DEF DeleteSubscription, End
<1>12. ASSUME NEW i \in Instances, Deregister(i) PROVE Goal
  BY <1>12 DEF Deregister
<1>13. ASSUME NEW i \in Instances, ComeBack(i) PROVE Goal
  BY <1>13 DEF ComeBack
<1>14. ASSUME NEW i \in Instances, Evict(i) PROVE Goal
  BY <1>14 DEF Evict
<1>15. ASSUME NEW sub \in due, LoseNotification(sub) PROVE Goal
  BY <1>15 DEF LoseNotification
<1>16. ASSUME Restart PROVE Goal
  BY <1>16 DEF Restart
<1> QED
  BY <1>1, <1>2, <1>3, <1>4, <1>5, <1>6, <1>7, <1>8, <1>9, <1>10, <1>11, <1>12, <1>13, <1>14, <1>15, <1>16
     DEF Next, Discovery, StatusNotify, NrfStep

LEMMA AnnouncedStep ==
  ASSUME TypeOK, Stored, Alone, Alone', OutOfCache, OutOfCache', Watched, Announced, [Next]_vars
  PROVE  Announced'
<1> USE DEF Stored
<1> SUFFICES ASSUME NEW i \in Instances, i \notin registered', i \notin crossed, i \notin crossed',
                    i \notin refused, i \notin missed, i \notin missed',
                    i \in cache' \/ \E d \in Discoveries : d \in Working(i)'
             PROVE  \E sub \in due' \cup unconfirmed' : sub[2] = i
  BY HistoryGrows, LossesGrow DEF Announced
<1> Goroutines = Discoveries \cup Notifications
  BY DEF Goroutines
<1>1. CASE i \in registered
  <2>1. PICK j \in Instances : Deregister(j)
    BY <1>1, NrfWriters
  <2>2. i = j
    BY <1>1, <2>1 DEF Deregister
  <2>3. CASE Watching(i) # {}
    BY <2>1, <2>2, <2>3 DEF Deregister, Watching
  <2>4. CASE Watching(i) = {}
    <3>1. Working(i) = {}
      BY <2>1, <2>2, <2>4 DEF Deregister
    <3>2. Working(i)' = Working(i) /\ UNCHANGED cache
      BY <2>1 DEF Deregister, udmVars, Working, Running
    <3> QED  BY <2>4, <3>1, <3>2, LossesGrow DEF Watched
  <2> QED  BY <2>3, <2>4
<1>2. CASE i \notin registered
  <2>1. i \in cache \/ \E d \in Discoveries : d \in Working(i)
    <3>1. ASSUME NEW d \in Discoveries, EndDiscovery(d), i \in found[d] PROVE d \in Working(i)
      BY <3>1 DEF EndDiscovery, Working, Running
    <3> QED  BY <1>2, <3>1, CacheWriters, WorkBegins
  <2>2. PICK sub \in due \cup unconfirmed : sub[2] = i
    BY <1>2, <2>1 DEF Announced
  <2>3. ASSUME NEW n \in Notifications, RemoveFromCache(n), sub \notin due' PROVE sub \notin due
    <3> SUFFICES ASSUME sub \in due PROVE FALSE
      OBVIOUS
    <3>1. /\ at' = [at EXCEPT ![n] = sub[2]]
          /\ cache' = IF EnableNrfCaching THEN cache \ {sub[2]} ELSE cache
          /\ pc' = [pc EXCEPT ![n] = "load"]
      BY <2>3 DEF RemoveFromCache, Goto
    <3>2. pc'[n] = "load" /\ at'[n] = i
      BY <2>2, <3>1 DEF TypeOK
    <3>3. n \in Working(i)'
      BY <3>2, NrfAssumption DEF Working, Running
    <3>4. i \notin cache'
      BY <2>2, <3>1 DEF OutOfCache
    <3> QED  BY <3>3, <3>4, NrfAssumption DEF Alone
  <2>4. ASSUME NEW n \in Notifications, SendRemoveSubscription(n), id[n] = sub, id[n] \in live PROVE FALSE
    <3>1. pc[n] = "remove" /\ at[n] = i
      BY <2>2, <2>4 DEF SendRemoveSubscription, TypeOK, LookedUp, Knows
    <3> QED  BY <2>1, <3>1, AtWork, NrfAssumption DEF Alone, OutOfCache
  <2>5. ASSUME LoseNotification(sub) PROVE FALSE
    BY <2>2, <2>5 DEF LoseNotification
  <2>6. ASSUME NEW other \in due, LoseNotification(other), sub \in due, sub \notin due' PROVE other = sub
    BY <2>6 DEF LoseNotification
  <2> QED
    BY <2>2, <2>3, <2>4, <2>5, <2>6, NrfWriters, LossesGrow
<1> QED
  BY <1>1, <1>2

LEMMA CacheInvInit == Init => CacheInv
BY InvInit, NrfAssumption DEF Init, CacheInv, EmptyIsRefused, OutOfCache, Watched, Covered, Announced, Goroutines

LEMMA CacheInvStep == CacheInv /\ [Next]_vars => CacheInv'
BY InvStep, EmptyIsRefusedStep, OutOfCacheStep, WatchedStep, AnnouncedStep DEF CacheInv, Inv, Stored

(* A cached instance is watched, for any number of instances, discoveries  *)
(* and notifications.                                                      *)
THEOREM CachedInstancesAreWatched == Spec => []CachedIsWatched
<1>1. CacheInv => CachedIsWatched
  BY DEF CacheInv, Inv, TypeOK, Watched, CachedIsWatched
<1> QED
  BY <1>1, CacheInvInit, CacheInvStep, PTL DEF Spec

(* An instance that is gone is not in the cache, or a notification of it   *)
(* is due.                                                                 *)
THEOREM GoneInstancesLeaveTheCache == Spec => []GoneIsNotCached
<1>1. CacheInv => GoneIsNotCached
  BY DEF CacheInv, Inv, TypeOK, Announced, GoneIsNotCached
<1> QED
  BY <1>1, CacheInvInit, CacheInvStep, PTL DEF Spec
=============================================================================
