------------------------ MODULE EventExposureProofs ------------------------
(***************************************************************************)
(* Proofs about EventExposure, for every value of its constants: type      *)
(* correctness, that a subscription for any UE is in every context it      *)
(* should be in, and that a deleted one is in none.                        *)
(***************************************************************************)
EXTENDS EventExposure, TLAPS

(* An idle handler has done nothing, and an answer is the last it does.    *)
Progress ==
  \A r \in EeRequests :
    /\ pc[r] = "idle" => op[r] = "none" /\ visited[r] = {} /\ present[r] = {}
    /\ answer[r] # "none" => pc[r] = "done"
    /\ answer[r] = "created" => op[r] = "create"
    /\ pc[r] = "free" => op[r] = "delete"
    /\ op[r] = "create" /\ pc[r] = "range" => subscriptionID[r] \in EeIds
    /\ op[r] = "delete" => subscriptionID[r] \in EeIds

(* A context that has not been allocated has no entries, and one that is   *)
(* in the pool, or was when a Range began, has been.                       *)
Allocated ==
  /\ \A o \in Objects, k \in EeIds : heap[o].supi = None => eeSubscriptions[o][k] = None
  /\ \A s \in Supis : pool[s] # None => heap[pool[s]].supi = s
  /\ \A r \in EeRequests : \A o \in present[r] : heap[o].supi # None

(* The creations a deletion came after are over.                           *)
EarlierIsOver ==
  \A d \in EeRequests : \A c \in earlier[d] : answer[c] = "created"

(* What a deletion has still to remove lies before its Range.              *)
Removing ==
  \A d \in EeRequests :
    op[d] = "delete" /\ identity[d] = "any" /\ spelling[d] = "plain" =>
      \A s \in Supis :
        pool[s] # None /\ eeSubscriptions[pool[s]][subscriptionID[d]] \in earlier[d] =>
          pc[d] = "range" /\ pool[s] \in present[d] /\ s \notin visited[d]

(* Which contexts a creation is for.  After a restart there are none.      *)
Reached(r) == Pooled \cap present[r]

(* As long as it is not contested and there are any, its id is allocated   *)
(* and no other creation is about to enter it.                             *)
Sole ==
  \A r \in EeRequests \ contested : op[r] = "create" /\ Reached(r) # {} =>
    /\ subscriptionID[r] \in allocated
    /\ \A c \in EeRequests \ {r} :
         ~ (op[c] = "create" /\ pc[c] = "range" /\ subscriptionID[c] = subscriptionID[r])

(* They have its entry, or lie before its Range, unless it is being        *)
(* deleted.                                                                *)
Entering ==
  \A r \in EeRequests \ contested : op[r] = "create" =>
    \A o \in Reached(r) :
      \/ eeSubscriptions[o][subscriptionID[r]] = r
      \/ BeingDeleted(subscriptionID[r])
      \/ pc[r] = "range" /\ heap[o].supi \notin visited[r]

Inv ==
  /\ TypeOK
  /\ Progress
  /\ Allocated
  /\ EarlierIsOver
  /\ Removing
  /\ Sole
  /\ Entering

-----------------------------------------------------------------------------
(***************************************************************************)
(* Types.                                                                  *)
(***************************************************************************)
LEMMA InitInv == Init => Inv
<1> SUFFICES ASSUME Init PROVE Inv
  OBVIOUS
<1> USE DEF Init, UeInit
<1>1. UeTypeOK
  BY DEF UeTypeOK, UdmUeContext, NewContext
<1>2. TypeOK
  BY <1>1, EeAssumption DEF TypeOK, Identities, Spellings
<1>3. Progress /\ EarlierIsOver
  BY DEF Progress, EarlierIsOver
<1>4. Allocated
  BY DEF Allocated
<1>5. Removing /\ Sole /\ Entering
  BY DEF Removing, Sole, Entering
<1> QED
  BY <1>2, <1>3, <1>4, <1>5 DEF Inv

(* An object of the pool, and the entry of a subscription in it.           *)
LEMMA PoolTyped ==
  ASSUME TypeOK, NEW s \in Supis, pool[s] # None
  PROVE  pool[s] \in Objects /\ pool[s] \in Pooled
  BY DEF TypeOK, UeTypeOK, Pooled

LEMMA PresentTyped ==
  ASSUME TypeOK, NEW r \in EeRequests, BeginRange(r)
  PROVE  /\ pc' \in [EeRequests -> {"idle", "range", "free", "done"}]
         /\ present' \in [EeRequests -> SUBSET Objects]
         /\ pc'[r] = "range" /\ present'[r] = Pooled
         /\ \A q \in EeRequests \ {r} : pc'[q] = pc[q] /\ present'[q] = present[q]
<1>1. Pooled \subseteq Objects
  BY DEF Pooled, TypeOK, UeTypeOK
<1> QED
  BY <1>1 DEF TypeOK, BeginRange, Goto

LEMMA ReplyTyped ==
  ASSUME TypeOK, NEW r \in EeRequests,
         NEW code \in {"created", "noContent", "problem"}, Reply(r, code)
  PROVE  /\ pc' \in [EeRequests -> {"idle", "range", "free", "done"}]
         /\ answer' \in [EeRequests -> {"none", "created", "noContent", "problem", "crash"}]
         /\ pc'[r] = "done" /\ answer'[r] = code
         /\ \A q \in EeRequests \ {r} : pc'[q] = pc[q] /\ answer'[q] = answer[q]
  BY DEF TypeOK, Reply, Goto

-----------------------------------------------------------------------------
(***************************************************************************)
(* The steps.                                                              *)
(***************************************************************************)

(* A refused creation, and a change of a subscription.                     *)
LEMMA IdleReply ==
  ASSUME Inv, NEW r \in EeRequests, pc[r] = "idle",
         NEW code \in {"noContent", "problem"}, Reply(r, code),
         UNCHANGED <<ueVars, op, identity, spelling, subscriptionID, visited, eeSubscriptions,
                     allocated, restarts, history>>
  PROVE  Inv'
<1> USE DEF Inv
<1>1. /\ pc'[r] = "done" /\ answer'[r] = code /\ op[r] = "none"
      /\ \A q \in EeRequests \ {r} : pc'[q] = pc[q] /\ answer'[q] = answer[q]
  BY ReplyTyped DEF Progress
<1>2. UNCHANGED <<pool, heap, op, identity, spelling, subscriptionID, visited, eeSubscriptions,
                  allocated, restarts, present, earlier, contested>>
  BY DEF ueVars, history
<1>3. TypeOK'
  BY <1>2, ReplyTyped DEF TypeOK, UeTypeOK
<1>4. Progress'
  BY <1>1, <1>2 DEF Progress
<1>5. Allocated'
  BY <1>2 DEF Allocated
<1>6. EarlierIsOver'
  BY <1>1, <1>2 DEF EarlierIsOver, TypeOK, Progress
<1>7. Removing'
  BY <1>1, <1>2 DEF Removing
<1>8. Sole'
  BY <1>1, <1>2 DEF Sole, Reached, Pooled
<1>9. Entering'
  BY <1>1, <1>2 DEF Entering, Reached, Pooled, BeingDeleted
<1> QED
  BY <1>3, <1>4, <1>5, <1>6, <1>7, <1>8, <1>9

LEMMA RefusalKeepsInv ==
  ASSUME Inv, NEW r \in EeRequests, RefuseCreation(r) \/ UpdateEeSubscription(r)
  PROVE  Inv'
<1>1. PICK code \in {"noContent", "problem"} : Reply(r, code)
  BY DEF RefuseCreation, UpdateEeSubscription
<1> QED
  BY <1>1, IdleReply DEF RefuseCreation, UpdateEeSubscription

(* An id that was free is no other creation's, unless that one is over     *)
(* everywhere; the one that gets it is contested if it is being entered.   *)
LEMMA AllocateKeepsInv ==
  ASSUME Inv, NEW r \in EeRequests, Allocate(r)
  PROVE  Inv'
<1> USE DEF Inv
<1>0. /\ pc[r] = "idle" /\ op[r] = "none" /\ visited[r] = {} /\ present[r] = {}
      /\ answer[r] = "none"
  BY DEF Allocate, Progress
<1>1. /\ UNCHANGED <<pool, heap, spelling, visited, eeSubscriptions, restarts, earlier>>
      /\ op' \in [EeRequests -> {"none", "create", "delete"}]
      /\ identity' \in [EeRequests -> Identities]
      /\ op'[r] = "create"
      /\ \A q \in EeRequests \ {r} : op'[q] = op[q] /\ identity'[q] = identity[q]
  BY DEF Allocate, ueVars, TypeOK, Identities
<1>2. /\ pc' \in [EeRequests -> {"idle", "range", "free", "done"}]
      /\ answer' \in [EeRequests -> {"none", "created", "noContent", "problem", "crash"}]
      /\ present' \in [EeRequests -> SUBSET Objects]
      /\ \A q \in EeRequests \ {r} :
           pc'[q] = pc[q] /\ present'[q] = present[q] /\ answer'[q] = answer[q]
      /\ \/ pc'[r] = "range" /\ present'[r] = Pooled /\ answer'[r] = "none"
         \/ pc'[r] = "done" /\ present'[r] = {} /\ answer'[r] \in {"created", "problem"}
  <2>1. CASE BeginRange(r) /\ UNCHANGED answer
    BY <1>0, <2>1, PresentTyped DEF TypeOK
  <2>2. CASE Reply(r, "created") /\ UNCHANGED present
    BY <1>0, <2>2, ReplyTyped DEF TypeOK
  <2>3. CASE Reply(r, "problem") /\ UNCHANGED present
    BY <1>0, <2>3, ReplyTyped DEF TypeOK
  <2> QED
    BY <2>1, <2>2, <2>3 DEF Allocate
<1>3. \/ \E k \in EeIds \ allocated :
           /\ allocated' = allocated \cup {k}
           /\ subscriptionID' = [subscriptionID EXCEPT ![r] = k]
           /\ contested \subseteq contested' /\ contested' \subseteq contested \cup {r}
           /\ r \notin contested' =>
                ~ \E c \in EeRequests :
                    op[c] = "create" /\ pc[c] = "range" /\ subscriptionID[c] = k
      \/ UNCHANGED <<allocated, subscriptionID, contested>> /\ pc'[r] = "done" /\ answer'[r] = "problem"
  <2>1. CASE Reply(r, "problem") /\ UNCHANGED <<subscriptionID, allocated, present, contested>>
    BY <2>1, ReplyTyped
  <2>2. CASE \E k \in EeIds \ allocated :
               /\ allocated' = allocated \cup {k}
               /\ subscriptionID' = [subscriptionID EXCEPT ![r] = k]
               /\ contested' = IF \E c \in Creations(k) : pc[c] = "range"
                               THEN contested \cup {r} ELSE contested
    <3>1. PICK k \in EeIds \ allocated :
            /\ allocated' = allocated \cup {k}
            /\ subscriptionID' = [subscriptionID EXCEPT ![r] = k]
            /\ contested' = IF \E c \in Creations(k) : pc[c] = "range"
                            THEN contested \cup {r} ELSE contested
      BY <2>2
    <3>2. (\E c \in Creations(k) : pc[c] = "range") <=>
            \E c \in EeRequests : op[c] = "create" /\ pc[c] = "range" /\ subscriptionID[c] = k
      BY DEF Creations
    <3> QED
      BY <3>1, <3>2
  <2> QED
    BY <2>1, <2>2 DEF Allocate
<1>4. /\ allocated' \in SUBSET EeIds
      /\ subscriptionID' \in [EeRequests -> EeIds \cup {None}]
      /\ contested' \in SUBSET EeRequests /\ contested \subseteq contested'
      /\ allocated \subseteq allocated'
      /\ \A q \in EeRequests \ {r} : subscriptionID'[q] = subscriptionID[q]
      /\ pc'[r] = "range" => /\ subscriptionID'[r] \in EeIds \cap allocated'
                             /\ subscriptionID'[r] \notin allocated
                             /\ r \notin contested' =>
                                  ~ \E c \in EeRequests :
                                      /\ op[c] = "create" /\ pc[c] = "range"
                                      /\ subscriptionID[c] = subscriptionID'[r]
  BY <1>3 DEF TypeOK
<1>5. TypeOK'
  BY <1>1, <1>2, <1>4 DEF TypeOK, UeTypeOK
<1>6. Progress'
  BY <1>0, <1>1, <1>2, <1>4 DEF Progress
<1>7. Allocated'
  <2>1. \A o \in Pooled : heap[o].supi # None
    BY NoneAssumption DEF Pooled, Allocated, TypeOK, UeTypeOK
  <2> QED
    BY <1>1, <1>2, <2>1 DEF Allocated
<1>8. EarlierIsOver'
  BY <1>0, <1>1, <1>2 DEF EarlierIsOver, TypeOK
<1>9. Removing'
  BY <1>0, <1>1, <1>2, <1>4 DEF Removing
<1>10. Pooled' = Pooled /\ \A q \in EeRequests \ {r} : Reached(q)' = Reached(q)
  BY <1>1, <1>2 DEF Pooled, Reached
<1>11. pc'[r] = "done" => Reached(r)' = {}
  BY <1>2 DEF Reached
<1>12. Sole'
  <2> SUFFICES ASSUME NEW q \in EeRequests, q \notin contested', op'[q] = "create", Reached(q)' # {}
               PROVE  /\ subscriptionID'[q] \in allocated'
                      /\ \A c \in EeRequests \ {q} :
                           ~ (op'[c] = "create" /\ pc'[c] = "range" /\ subscriptionID'[c] = subscriptionID'[q])
    BY DEF Sole
  <2>1. CASE q = r
    BY <1>1, <1>2, <1>4, <1>11, <2>1
  <2>2. CASE q # r
    <3>1. /\ subscriptionID[q] \in allocated
          /\ \A c \in EeRequests \ {q} :
               ~ (op[c] = "create" /\ pc[c] = "range" /\ subscriptionID[c] = subscriptionID[q])
      BY <1>1, <1>4, <1>10, <2>2 DEF Sole
    <3> QED
      BY <1>1, <1>2, <1>4, <2>2, <3>1
  <2> QED
    BY <2>1, <2>2
<1>13. Entering'
  <2> SUFFICES ASSUME NEW q \in EeRequests, q \notin contested', op'[q] = "create",
                      NEW o \in Reached(q)'
               PROVE  \/ eeSubscriptions'[o][subscriptionID'[q]] = q
                      \/ BeingDeleted(subscriptionID[q])'
                      \/ pc'[q] = "range" /\ heap'[o].supi \notin visited'[q]
    BY DEF Entering
  <2>1. CASE q = r
    BY <1>0, <1>1, <1>2, <1>11, <2>1
  <2>2. CASE q # r
    <3>1. \/ eeSubscriptions[o][subscriptionID[q]] = q
          \/ BeingDeleted(subscriptionID[q])
          \/ pc[q] = "range" /\ heap[o].supi \notin visited[q]
      BY <1>1, <1>4, <1>10, <2>2 DEF Entering
    <3>2. BeingDeleted(subscriptionID[q]) => BeingDeleted(subscriptionID[q])'
      BY <1>0, <1>1, <1>2, <1>4, <2>2 DEF BeingDeleted
    <3> QED
      BY <1>1, <1>2, <1>4, <2>2, <3>1, <3>2
  <2> QED
    BY <2>1, <2>2
<1> QED
  BY <1>5, <1>6, <1>7, <1>8, <1>9, <1>12, <1>13

(* An entry goes to a context that is in the pool, and by Sole not over    *)
(* that of a creation that nothing contests.                               *)
LEMMA EnterKeepsInv ==
  ASSUME Inv, NEW r \in EeRequests, NEW s \in Supis, EnterSubscription(r, s)
  PROVE  Inv'
<1> USE DEF Inv
<1> DEFINE k == subscriptionID[r]
           o == pool[s]
<1>0. /\ op[r] = "create" /\ pc[r] = "range" /\ o # None /\ k \in EeIds
      /\ o \in Objects /\ o \in Pooled /\ heap[o].supi = s /\ answer[r] # "created"
  BY PoolTyped DEF EnterSubscription, InRange, Progress, Allocated
<1>1. /\ eeSubscriptions' = [eeSubscriptions EXCEPT ![o][k] = r]
      /\ visited' = [visited EXCEPT ![r] = @ \cup {s}]
      /\ UNCHANGED <<pool, heap, pc, op, identity, spelling, subscriptionID, answer,
                     allocated, restarts, present, earlier, contested>>
  BY DEF EnterSubscription, Visit, ueVars, history
<1> HIDE DEF k, o
<1>2. /\ eeSubscriptions' \in [Objects -> [EeIds -> EeRequests \cup {None}]]
      /\ eeSubscriptions'[o][k] = r
      /\ \A p \in Objects, j \in EeIds :
           p # o \/ j # k => eeSubscriptions'[p][j] = eeSubscriptions[p][j]
  <2>1. k \in EeIds /\ o \in Objects /\ r \in EeRequests \cup {None} /\ TypeOK
    BY <1>0 DEF k, o
  <2>2. eeSubscriptions' = [eeSubscriptions EXCEPT ![o][k] = r]
    BY <1>1
  <2> QED
    BY ONLY <2>1, <2>2 DEF TypeOK
<1>3. /\ visited' \in [EeRequests -> SUBSET Supis]
      /\ visited'[r] = visited[r] \cup {s}
      /\ \A q \in EeRequests \ {r} : visited'[q] = visited[q]
  BY <1>1 DEF TypeOK
<1>4. TypeOK'
  BY <1>1, <1>2, <1>3 DEF TypeOK, UeTypeOK
<1>5. Progress'
  BY <1>0, <1>1, <1>3 DEF Progress
<1>6. Allocated'
  <2>1. s # None
    BY NoneAssumption
  <2> QED
    BY <1>0, <1>1, <1>2, <2>1 DEF Allocated
<1>7. EarlierIsOver'
  BY <1>1 DEF EarlierIsOver
<1>8. Removing'
  <2> SUFFICES ASSUME NEW d \in EeRequests, NEW t \in Supis,
                      op[d] = "delete", identity[d] = "any", spelling[d] = "plain", pool[t] # None,
                      eeSubscriptions'[pool[t]][subscriptionID[d]] \in earlier[d]
               PROVE  pc[d] = "range" /\ pool[t] \in present[d] /\ t \notin visited'[d]
    BY <1>1 DEF Removing
  <2>1. d # r /\ r \notin earlier[d] /\ pool[t] \in Objects /\ subscriptionID[d] \in EeIds
    BY <1>0, PoolTyped DEF EarlierIsOver, Progress
  <2>2. eeSubscriptions'[pool[t]][subscriptionID[d]] = eeSubscriptions[pool[t]][subscriptionID[d]]
    BY <1>2, <2>1
  <2> QED
    BY <1>3, <2>1, <2>2 DEF Removing
<1>9. Pooled' = Pooled /\ \A q \in EeRequests : Reached(q)' = Reached(q)
  BY <1>1 DEF Pooled, Reached
<1>10. Sole'
  BY <1>1, <1>9 DEF Sole
<1>11. Entering'
  <2> SUFFICES ASSUME NEW q \in EeRequests, q \notin contested, op[q] = "create",
                      NEW p \in Reached(q), ~ BeingDeleted(subscriptionID[q])
               PROVE  \/ eeSubscriptions'[p][subscriptionID[q]] = q
                      \/ pc[q] = "range" /\ heap[p].supi \notin visited'[q]
    BY <1>1, <1>9 DEF Entering, BeingDeleted
  <2>1. \/ eeSubscriptions[p][subscriptionID[q]] = q
        \/ pc[q] = "range" /\ heap[p].supi \notin visited[q]
    BY DEF Entering
  <2>2. p \in Objects /\ subscriptionID[q] \in EeIds
    <3>1. p \in Objects /\ allocated \subseteq EeIds
      BY DEF Reached, TypeOK
    <3>2. subscriptionID[q] \in allocated
      BY DEF Sole
    <3> QED
      BY <3>1, <3>2
  <2>3. CASE q = r
    <3>1. p = o \/ heap[p].supi # s
      <4>1. PICK t \in Supis : pool[t] = p /\ p # None
        BY DEF Reached, Pooled
      <4>2. heap[p].supi = t
        BY <4>1 DEF Allocated
      <4> QED
        BY <4>1, <4>2 DEF o
    <3> QED
      BY <1>2, <1>3, <2>1, <2>2, <2>3, <3>1 DEF k
  <2>4. CASE q # r
    <3>1. subscriptionID[q] # k
      BY <1>0, <2>4 DEF Sole, k
    <3> QED
      BY <1>2, <1>3, <2>1, <2>2, <2>4, <3>1
  <2> QED
    BY <2>3, <2>4
<1> QED
  BY <1>4, <1>5, <1>6, <1>7, <1>8, <1>10, <1>11

LEMMA AnswerKeepsInv ==
  ASSUME Inv, NEW r \in EeRequests, AnswerCreation(r)
  PROVE  Inv'
<1> USE DEF Inv
<1>0. /\ op[r] = "create" /\ pc[r] = "range" /\ answer[r] = "none"
      /\ \A o \in present[r] : heap[o].supi \in visited[r]
  BY DEF AnswerCreation, RangeIsOver, Progress
<1>1. UNCHANGED <<pool, heap, op, identity, spelling, subscriptionID, visited, eeSubscriptions,
                  allocated, restarts, present, earlier, contested>>
  BY DEF AnswerCreation, ueVars, history
<1>2. /\ pc' \in [EeRequests -> {"idle", "range", "free", "done"}]
      /\ answer' \in [EeRequests -> {"none", "created", "noContent", "problem", "crash"}]
      /\ pc'[r] = "done" /\ answer'[r] = "created"
      /\ \A q \in EeRequests \ {r} : pc'[q] = pc[q] /\ answer'[q] = answer[q]
  BY ReplyTyped DEF AnswerCreation
<1>3. TypeOK'
  BY <1>1, <1>2 DEF TypeOK, UeTypeOK
<1>4. Progress'
  BY <1>0, <1>1, <1>2 DEF Progress
<1>5. Allocated'
  BY <1>1 DEF Allocated
<1>6. EarlierIsOver'
  BY <1>1, <1>2 DEF EarlierIsOver, TypeOK
<1>7. Removing'
  BY <1>0, <1>1, <1>2 DEF Removing
<1>8. Pooled' = Pooled /\ \A q \in EeRequests : Reached(q)' = Reached(q)
  BY <1>1 DEF Pooled, Reached
<1>9. Sole'
  BY <1>0, <1>1, <1>2, <1>8 DEF Sole
<1>10. Entering'
  <2>1. \A j : BeingDeleted(j) => BeingDeleted(j)'
    BY <1>0, <1>1, <1>2 DEF BeingDeleted
  <2> QED
    BY <1>0, <1>1, <1>2, <1>8, <2>1 DEF Entering, Reached
<1> QED
  BY <1>3, <1>4, <1>5, <1>6, <1>7, <1>9, <1>10

(* What a deletion has to remove is in the pool when its Range begins.     *)
LEMMA BeginDeletionKeepsInv ==
  ASSUME Inv, NEW r \in EeRequests, BeginDeletion(r)
  PROVE  Inv'
<1> USE DEF Inv
<1>0. /\ pc[r] = "idle" /\ op[r] = "none" /\ visited[r] = {} /\ present[r] = {}
      /\ answer[r] = "none"
  BY DEF BeginDeletion, Progress
<1>1. /\ UNCHANGED <<pool, heap, visited, answer, eeSubscriptions, allocated, restarts, contested>>
      /\ op' \in [EeRequests -> {"none", "create", "delete"}]
      /\ identity' \in [EeRequests -> Identities]
      /\ spelling' \in [EeRequests -> Spellings]
      /\ subscriptionID' \in [EeRequests -> EeIds \cup {None}]
      /\ earlier' \in [EeRequests -> SUBSET EeRequests]
      /\ op'[r] = "delete" /\ subscriptionID'[r] \in EeIds
      /\ earlier'[r] = {c \in EeRequests : answer[c] = "created"}
      /\ \A q \in EeRequests \ {r} :
           /\ op'[q] = op[q] /\ identity'[q] = identity[q] /\ spelling'[q] = spelling[q]
           /\ subscriptionID'[q] = subscriptionID[q] /\ earlier'[q] = earlier[q]
  BY DEF BeginDeletion, ueVars, TypeOK, Identities
<1>2. /\ pc' \in [EeRequests -> {"idle", "range", "free", "done"}]
      /\ present' \in [EeRequests -> SUBSET Objects]
      /\ \A q \in EeRequests \ {r} : pc'[q] = pc[q] /\ present'[q] = present[q]
      /\ \/ pc'[r] = "range" /\ present'[r] = Pooled /\ identity'[r] = "any"
         \/ pc'[r] = "free" /\ present'[r] = {} /\ identity'[r] = "other"
  <2>1. CASE identity' = [identity EXCEPT ![r] = "any"] /\ BeginRange(r)
    BY <2>1, PresentTyped DEF TypeOK
  <2>2. CASE identity' = [identity EXCEPT ![r] = "other"] /\ Goto(r, "free") /\ UNCHANGED present
    BY <1>0, <2>2 DEF TypeOK, Goto
  <2> QED
    BY <2>1, <2>2 DEF BeginDeletion
<1>3. TypeOK'
  BY <1>1, <1>2 DEF TypeOK, UeTypeOK
<1>4. Progress'
  BY <1>0, <1>1, <1>2 DEF Progress
<1>5. Allocated'
  <2>1. \A o \in Pooled : heap[o].supi # None
    BY NoneAssumption DEF Pooled, Allocated
  <2> QED
    BY <1>1, <1>2, <2>1 DEF Allocated
<1>6. EarlierIsOver'
  BY <1>1 DEF EarlierIsOver
<1>7. Removing'
  <2> SUFFICES ASSUME NEW d \in EeRequests, NEW t \in Supis,
                      op'[d] = "delete", identity'[d] = "any", spelling'[d] = "plain", pool[t] # None,
                      eeSubscriptions[pool[t]][subscriptionID'[d]] \in earlier'[d]
               PROVE  pc'[d] = "range" /\ pool[t] \in present'[d] /\ t \notin visited[d]
    BY <1>1 DEF Removing
  <2>1. CASE d = r
    BY <1>0, <1>2, <2>1 DEF Pooled
  <2>2. CASE d # r
    BY <1>1, <1>2, <2>2 DEF Removing
  <2> QED
    BY <2>1, <2>2
<1>8. Pooled' = Pooled /\ \A q \in EeRequests \ {r} : Reached(q)' = Reached(q)
  BY <1>1, <1>2 DEF Pooled, Reached
<1>9. Sole'
  BY <1>0, <1>1, <1>2, <1>8 DEF Sole
<1>10. Entering'
  <2>1. \A j : BeingDeleted(j) => BeingDeleted(j)'
    BY <1>0, <1>1, <1>2 DEF BeingDeleted
  <2> QED
    BY <1>0, <1>1, <1>2, <1>8, <2>1 DEF Entering
<1> QED
  BY <1>3, <1>4, <1>5, <1>6, <1>7, <1>9, <1>10

(* An entry that goes away has the id that is being deleted.               *)
LEMMA RemoveKeepsInv ==
  ASSUME Inv, NEW r \in EeRequests, NEW s \in Supis, RemoveSubscription(r, s)
  PROVE  Inv'
<1> USE DEF Inv
<1> DEFINE k == subscriptionID[r]
           o == pool[s]
<1>0. /\ op[r] = "delete" /\ pc[r] = "range" /\ o # None /\ k \in EeIds
      /\ o \in Objects /\ o \in Pooled /\ heap[o].supi = s
  BY PoolTyped DEF RemoveSubscription, InRange, Progress, Allocated
<1>1. /\ \/ spelling[r] = "plain" /\ eeSubscriptions' = [eeSubscriptions EXCEPT ![o][k] = None]
         \/ spelling[r] # "plain" /\ UNCHANGED eeSubscriptions
      /\ visited' = [visited EXCEPT ![r] = @ \cup {s}]
      /\ UNCHANGED <<pool, heap, pc, op, identity, spelling, subscriptionID, answer,
                     allocated, restarts, present, earlier, contested>>
  BY DEF RemoveSubscription, Visit, ueVars, history
<1> HIDE DEF k, o
<1>2. /\ eeSubscriptions' \in [Objects -> [EeIds -> EeRequests \cup {None}]]
      /\ spelling[r] = "plain" => eeSubscriptions'[o][k] = None
      /\ \A p \in Objects, j \in EeIds :
           \/ eeSubscriptions'[p][j] = eeSubscriptions[p][j]
           \/ p = o /\ j = k /\ eeSubscriptions'[p][j] = None
  <2>1. CASE spelling[r] = "plain" /\ eeSubscriptions' = [eeSubscriptions EXCEPT ![o][k] = None]
    <3>1. k \in EeIds /\ o \in Objects /\ None \in EeRequests \cup {None} /\ TypeOK
      BY <1>0 DEF k, o
    <3>2. /\ eeSubscriptions' \in [Objects -> [EeIds -> EeRequests \cup {None}]]
          /\ eeSubscriptions'[o][k] = None
          /\ \A p \in Objects, j \in EeIds :
               p # o \/ j # k => eeSubscriptions'[p][j] = eeSubscriptions[p][j]
      <4>1. eeSubscriptions' = [eeSubscriptions EXCEPT ![o][k] = None]
        BY <2>1
      <4> QED
        BY ONLY <3>1, <4>1 DEF TypeOK
    <3> QED
      BY <3>2
  <2>2. CASE spelling[r] # "plain" /\ UNCHANGED eeSubscriptions
    BY <2>2 DEF TypeOK
  <2> QED
    BY <1>1, <2>1, <2>2
<1>3. /\ visited' \in [EeRequests -> SUBSET Supis]
      /\ visited'[r] = visited[r] \cup {s}
      /\ \A q \in EeRequests \ {r} : visited'[q] = visited[q]
  BY <1>1 DEF TypeOK
<1>4. TypeOK'
  BY <1>1, <1>2, <1>3 DEF TypeOK, UeTypeOK
<1>5. Progress'
  BY <1>0, <1>1, <1>3 DEF Progress
<1>6. Allocated'
  BY <1>1, <1>2 DEF Allocated
<1>7. EarlierIsOver'
  BY <1>1 DEF EarlierIsOver
<1>8. Removing'
  <2> SUFFICES ASSUME NEW d \in EeRequests, NEW t \in Supis,
                      op[d] = "delete", identity[d] = "any", spelling[d] = "plain", pool[t] # None,
                      eeSubscriptions'[pool[t]][subscriptionID[d]] \in earlier[d]
               PROVE  pc[d] = "range" /\ pool[t] \in present[d] /\ t \notin visited'[d]
    BY <1>1 DEF Removing
  <2>1. None \notin earlier[d] /\ pool[t] \in Objects /\ subscriptionID[d] \in EeIds
    BY PoolTyped, NoneAssumption, EeAssumption DEF Progress, TypeOK
  <2>2. eeSubscriptions'[pool[t]][subscriptionID[d]] = eeSubscriptions[pool[t]][subscriptionID[d]]
    BY <1>2, <2>1
  <2>3. pc[d] = "range" /\ pool[t] \in present[d] /\ t \notin visited[d]
    BY <2>2 DEF Removing
  <2>4. d = r => t # s
    BY <1>2, <2>1 DEF k, o
  <2> QED
    BY <1>3, <2>3, <2>4
<1>9. Pooled' = Pooled /\ \A q \in EeRequests : Reached(q)' = Reached(q)
  BY <1>1 DEF Pooled, Reached
<1>10. Sole'
  BY <1>1, <1>9 DEF Sole
<1>11. Entering'
  <2> SUFFICES ASSUME NEW q \in EeRequests, q \notin contested, op[q] = "create",
                      NEW p \in Reached(q), ~ BeingDeleted(subscriptionID[q])
               PROVE  \/ eeSubscriptions'[p][subscriptionID[q]] = q
                      \/ pc[q] = "range" /\ heap[p].supi \notin visited'[q]
    BY <1>1, <1>9 DEF Entering, BeingDeleted
  <2>1. \/ eeSubscriptions[p][subscriptionID[q]] = q
        \/ pc[q] = "range" /\ heap[p].supi \notin visited[q]
    BY DEF Entering
  <2>2. p \in Objects /\ subscriptionID[q] \in EeIds
    BY DEF Reached, Sole, TypeOK
  <2>3. q # r /\ subscriptionID[q] # k
    BY <1>0 DEF BeingDeleted, k
  <2> QED
    BY <1>2, <1>3, <2>1, <2>2, <2>3
<1> QED
  BY <1>4, <1>5, <1>6, <1>7, <1>8, <1>10, <1>11

LEMMA EndRemovalKeepsInv ==
  ASSUME Inv, NEW r \in EeRequests, EndRemoval(r)
  PROVE  Inv'
<1> USE DEF Inv
<1>0. /\ op[r] = "delete" /\ pc[r] = "range"
      /\ \A o \in present[r] : heap[o].supi \in visited[r]
  BY DEF EndRemoval, RangeIsOver
<1>1. UNCHANGED <<pool, heap, op, identity, spelling, subscriptionID, visited, answer,
                  eeSubscriptions, allocated, restarts, present, earlier, contested>>
  BY DEF EndRemoval, ueVars, history
<1>2. /\ pc' \in [EeRequests -> {"idle", "range", "free", "done"}]
      /\ pc'[r] = "free"
      /\ \A q \in EeRequests \ {r} : pc'[q] = pc[q]
  BY DEF EndRemoval, Goto, TypeOK
<1>3. TypeOK'
  BY <1>1, <1>2 DEF TypeOK, UeTypeOK
<1>4. Progress'
  BY <1>0, <1>1, <1>2 DEF Progress
<1>5. Allocated'
  BY <1>1 DEF Allocated
<1>6. EarlierIsOver'
  BY <1>1 DEF EarlierIsOver
<1>7. Removing'
  <2> SUFFICES ASSUME NEW d \in EeRequests, NEW t \in Supis,
                      op[d] = "delete", identity[d] = "any", spelling[d] = "plain", pool[t] # None,
                      eeSubscriptions[pool[t]][subscriptionID[d]] \in earlier[d]
               PROVE  pc'[d] = "range" /\ pool[t] \in present[d] /\ t \notin visited[d]
    BY <1>1 DEF Removing
  <2>1. pc[d] = "range" /\ pool[t] \in present[d] /\ t \notin visited[d]
    BY DEF Removing
  <2>2. d # r
    BY <1>0, <2>1 DEF Allocated
  <2> QED
    BY <1>2, <2>1, <2>2
<1>8. Pooled' = Pooled /\ \A q \in EeRequests : Reached(q)' = Reached(q)
  BY <1>1 DEF Pooled, Reached
<1>9. Sole'
  BY <1>0, <1>1, <1>2, <1>8 DEF Sole
<1>10. Entering'
  <2>1. \A j : BeingDeleted(j) => BeingDeleted(j)'
    BY <1>0, <1>1, <1>2 DEF BeingDeleted
  <2> QED
    BY <1>0, <1>1, <1>2, <1>8, <2>1 DEF Entering
<1> QED
  BY <1>3, <1>4, <1>5, <1>6, <1>7, <1>9, <1>10

(* Whoever has an id that is freed is contested from then on.              *)
LEMMA FreeIDKeepsInv ==
  ASSUME Inv, NEW r \in EeRequests, FreeID(r)
  PROVE  Inv'
<1> USE DEF Inv
<1> DEFINE k == subscriptionID[r]
<1>0. op[r] = "delete" /\ pc[r] = "free" /\ answer[r] # "created"
  BY DEF FreeID, Progress
<1>1. /\ UNCHANGED <<pool, heap, op, identity, spelling, subscriptionID, visited,
                     eeSubscriptions, restarts, present, earlier>>
      /\ allocated' = allocated \ {k}
      /\ contested' = contested \cup Creations(k)
  BY DEF FreeID, ueVars
<1>2. /\ pc' \in [EeRequests -> {"idle", "range", "free", "done"}]
      /\ answer' \in [EeRequests -> {"none", "created", "noContent", "problem", "crash"}]
      /\ pc'[r] = "done" /\ answer'[r] = "noContent"
      /\ \A q \in EeRequests \ {r} : pc'[q] = pc[q] /\ answer'[q] = answer[q]
  BY ReplyTyped DEF FreeID
<1>3. \A q \in EeRequests \ contested' : op[q] = "create" =>
        q \notin contested /\ pc[q] # "free" /\ (pc[q] # "idle" => subscriptionID[q] # k)
  BY <1>0, <1>1 DEF Creations, Progress, TypeOK
<1>4. \A q \in EeRequests \ contested' : op[q] = "create" =>
        q \notin contested /\ subscriptionID[q] # k
  BY <1>3 DEF Progress
<1>5. TypeOK'
  BY <1>1, <1>2 DEF TypeOK, UeTypeOK, Creations
<1>6. Progress'
  BY <1>0, <1>1, <1>2 DEF Progress
<1>7. Allocated'
  BY <1>1 DEF Allocated
<1>8. EarlierIsOver'
  BY <1>0, <1>1, <1>2 DEF EarlierIsOver, TypeOK
<1>9. Removing'
  BY <1>0, <1>1, <1>2 DEF Removing
<1>10. Pooled' = Pooled /\ \A q \in EeRequests : Reached(q)' = Reached(q)
  BY <1>1 DEF Pooled, Reached
<1>11. Sole'
  BY <1>0, <1>1, <1>2, <1>4, <1>10 DEF Sole
<1>12. Entering'
  <2>1. \A j : BeingDeleted(j) /\ j # k => BeingDeleted(j)'
    BY <1>0, <1>1, <1>2 DEF BeingDeleted
  <2> QED
    BY <1>0, <1>1, <1>2, <1>4, <1>10, <2>1 DEF Entering
<1> QED
  BY <1>5, <1>6, <1>7, <1>8, <1>9, <1>11, <1>12

(* A new context has no entries, and no Range began with it.               *)
LEMMA StoreNewUeKeepsInv ==
  ASSUME Inv, NEW r \in Requests \ EeRequests, StoreNewUe(r)
  PROVE  Inv'
<1> USE DEF Inv
<1> DEFINE o == <<r, "create">>
<1>0. o \in Objects /\ heap[o].supi = None
  BY SitesAssumption DEF StoreNewUe, Objects
<1>1. PICK s \in Supis : NewUdmUe(o, s)
  BY DEF StoreNewUe
<1>2. /\ UNCHANGED <<pc, op, identity, spelling, subscriptionID, visited, answer,
                     eeSubscriptions, allocated, restarts, present, earlier, contested>>
      /\ pool' = [pool EXCEPT ![s] = o]
      /\ heap' = [heap EXCEPT ![o] = NewContext(s)]
  BY <1>1 DEF StoreNewUe, NewUdmUe, StoreUe, eeVars, history, NewContext
<1> HIDE DEF o
<1>3. NewContext(s) \in UdmUeContext /\ NewContext(s).supi = s
  BY DEF NewContext, UdmUeContext
<1>4. /\ UeTypeOK' /\ pool'[s] = o /\ heap'[o].supi = s
      /\ \A t \in Supis \ {s} : pool'[t] = pool[t]
      /\ \A p \in Objects \ {o} : heap'[p] = heap[p]
  BY <1>0, <1>2, <1>3 DEF TypeOK, UeTypeOK
<1>5. TypeOK'
  BY <1>2, <1>4 DEF TypeOK
<1>6. Progress'
  BY <1>2 DEF Progress
<1>7. \A q \in EeRequests : o \notin present[q] /\ present[q] \subseteq Objects
  BY <1>0 DEF Allocated, TypeOK
<1>8. Allocated'
  <2>1. \A p \in Objects, k \in EeIds : heap'[p].supi = None => eeSubscriptions[p][k] = None
    BY <1>4, NoneAssumption DEF Allocated
  <2>2. \A t \in Supis : pool'[t] # None => heap'[pool'[t]].supi = t
    <3> SUFFICES ASSUME NEW t \in Supis, t # s, pool[t] # None
                 PROVE  heap'[pool[t]].supi = t
      BY <1>4
    <3>1. heap[pool[t]].supi = t /\ pool[t] \in Objects
      BY PoolTyped DEF Allocated
    <3> QED
      BY <1>0, <1>4, <3>1, NoneAssumption
  <2>3. \A q \in EeRequests : \A p \in present[q] : heap'[p].supi # None
    BY <1>4, <1>7 DEF Allocated
  <2> QED
    BY <1>2, <2>1, <2>2, <2>3 DEF Allocated
<1>9. EarlierIsOver'
  BY <1>2 DEF EarlierIsOver
<1>10. Removing'
  <2> SUFFICES ASSUME NEW d \in EeRequests, NEW t \in Supis,
                      op[d] = "delete", identity[d] = "any", spelling[d] = "plain", pool'[t] # None,
                      eeSubscriptions[pool'[t]][subscriptionID[d]] \in earlier[d]
               PROVE  pc[d] = "range" /\ pool'[t] \in present[d] /\ t \notin visited[d]
    BY <1>2 DEF Removing
  <2>1. None \notin earlier[d] /\ subscriptionID[d] \in EeIds
    BY NoneAssumption, EeAssumption DEF Progress, TypeOK
  <2>2. t # s
    BY <1>0, <1>4, <2>1 DEF Allocated
  <2> QED
    BY <1>4, <2>2 DEF Removing
<1>11. \A q \in EeRequests : Reached(q)' \subseteq Reached(q)
  <2>1. Pooled' \subseteq Pooled \cup {o}
    BY <1>4 DEF Pooled
  <2> QED
    BY <1>2, <1>7, <2>1 DEF Reached
<1>12. Sole'
  BY <1>2, <1>11 DEF Sole
<1>13. Entering'
  <2>1. \A q \in EeRequests : \A p \in Reached(q) : heap'[p] = heap[p]
    BY <1>4, <1>7 DEF Reached
  <2> QED
    BY <1>2, <1>11, <2>1 DEF Entering, BeingDeleted
<1> QED
  BY <1>5, <1>6, <1>8, <1>9, <1>10, <1>12, <1>13

(* After a restart there is no context to be right about.                  *)
LEMMA RestartKeepsInv ==
  ASSUME Inv, Restart
  PROVE  Inv'
<1> USE DEF Inv
<1>1. /\ UNCHANGED <<heap, op, identity, spelling, subscriptionID, visited, eeSubscriptions,
                     present, earlier, contested>>
      /\ \A s \in Supis : pool'[s] = None
      /\ \A r \in EeRequests : pc'[r] = IF pc[r] = "idle" THEN "idle" ELSE "done"
      /\ \A r \in EeRequests :
           answer'[r] = IF pc[r] \in {"idle", "done"} THEN answer[r] ELSE "crash"
  BY DEF Restart, history
<1>2. TypeOK'
  BY EeAssumption DEF Restart, TypeOK, UeTypeOK, history
<1>3. Progress'
  BY <1>1 DEF Progress
<1>4. Allocated'
  BY <1>1 DEF Allocated
<1>5. EarlierIsOver'
  <2>1. \A c \in EeRequests : answer[c] = "created" => answer'[c] = "created"
    BY <1>1 DEF Progress
  <2> QED
    BY <1>1, <2>1 DEF EarlierIsOver, TypeOK
<1>6. Removing'
  BY <1>1 DEF Removing
<1>7. \A r \in EeRequests : Reached(r)' = {}
  BY <1>1 DEF Reached, Pooled
<1>8. Sole' /\ Entering'
  BY <1>7 DEF Sole, Entering
<1> QED
  BY <1>2, <1>3, <1>4, <1>5, <1>6, <1>8

LEMMA NextKeepsInv == Inv /\ [Next]_vars => Inv'
<1> SUFFICES ASSUME Inv, [Next]_vars PROVE Inv'
  OBVIOUS
<1>1. CASE \E r \in EeRequests : EeStep(r)
  BY <1>1, RefusalKeepsInv, AllocateKeepsInv, AnswerKeepsInv, BeginDeletionKeepsInv,
     EndRemovalKeepsInv, FreeIDKeepsInv, EnterKeepsInv, RemoveKeepsInv DEF EeStep
<1>2. CASE \E r \in Requests \ EeRequests : StoreNewUe(r)
  BY <1>2, StoreNewUeKeepsInv
<1>3. CASE Restart
  BY <1>3, RestartKeepsInv
<1>4. CASE UNCHANGED vars
  <2> USE <1>4 DEF Inv, vars, ueVars, eeVars, history
  <2>1. TypeOK' /\ Progress' /\ Allocated' /\ EarlierIsOver' /\ Removing'
    BY DEF TypeOK, UeTypeOK, Progress, Allocated, EarlierIsOver, Removing
  <2>2. Sole' /\ Entering'
    BY DEF Sole, Entering, Reached, Pooled, BeingDeleted
  <2> QED
    BY <2>1, <2>2
<1> QED
  BY <1>1, <1>2, <1>3, <1>4 DEF Next

LEMMA Invariance == Spec => []Inv
<1> QED
  BY InitInv, NextKeepsInv, PTL DEF Spec

-----------------------------------------------------------------------------
(***************************************************************************)
(* The theorems.                                                           *)
(***************************************************************************)

(* The variables keep their types: the contexts, the entries in them and   *)
(* the ids of the generator (event_exposure.go).                           *)
THEOREM TypeCorrect == Spec => []TypeOK
<1>1. Inv => TypeOK
  BY DEF Inv
<1> QED
  BY <1>1, Invariance, PTL

(* A subscription for any UE that was answered with 201 is in every        *)
(* context that was in the pool when its Range began and still is, as long *)
(* as no deletion names its id (event_exposure.go:106).                    *)
THEOREM AnyUeHolds == Spec => []AnyUeMeansEveryUe
<1>1. Inv => AnyUeMeansEveryUe
  <2> SUFFICES ASSUME Inv, NEW r \in EeRequests \ contested, answer[r] = "created",
                      ~ BeingDeleted(subscriptionID[r]), NEW o \in Reached(r)
               PROVE  eeSubscriptions[o][subscriptionID[r]] = r
    BY DEF AnyUeMeansEveryUe, Reached
  <2>1. op[r] = "create" /\ pc[r] = "done"
    BY DEF Inv, Progress
  <2> QED
    BY <2>1 DEF Inv, Entering
<1> QED
  BY <1>1, Invariance, PTL

(* After a deletion for any UE no context has the subscription, unless its *)
(* creation had not been answered when the deletion began                  *)
(* (event_exposure.go:168).                                                *)
THEOREM DeletedHolds == Spec => []DeletedEverywhere
<1>1. Inv => DeletedEverywhere
  <2> SUFFICES ASSUME Inv, NEW d \in EeRequests, answer[d] = "noContent", op[d] = "delete",
                      identity[d] = "any", spelling[d] = "plain", NEW s \in Supis, pool[s] # None
               PROVE  eeSubscriptions[pool[s]][subscriptionID[d]] \notin earlier[d]
    BY DEF DeletedEverywhere, Pooled
  <2>1. pc[d] = "done"
    BY DEF Inv, Progress
  <2> QED
    BY <2>1 DEF Inv, Removing
<1> QED
  BY <1>1, Invariance, PTL
=============================================================================
