----------------------------- MODULE UeauProofs -----------------------------
(***************************************************************************)
(* Proofs about Ueau, for every value of its constants: the types, that a  *)
(* resynchronised number is ahead of the UE's, that a deleted event stays  *)
(* deleted, and that a sequence number is used twice only after requests   *)
(* overlapped or a UE resynchronised.                                      *)
(***************************************************************************)
EXTENDS Ueau, HandlerProofs, FiniteSetTheorems

-----------------------------------------------------------------------------
(***************************************************************************)
(* Sequence numbers.                                                       *)
(***************************************************************************)
LEMMA SqnsTyped ==
  /\ SqnCount \in Nat /\ SqnCount > 2 /\ Ind \in Nat /\ Ind + 2 < SqnCount
  /\ Sqns = 0..(SqnCount - 1)
  BY UeauAssumption DEF Sqns

LEMMA WithinTheRange ==
  ASSUME NEW c \in Nat, NEW n \in Nat, n < c
  PROVE  n % c = n
  OBVIOUS

LEMMA OnceAround ==
  ASSUME NEW c \in Nat, NEW n \in Nat, c <= n, n < 2 * c
  PROVE  n % c = n - c
  OBVIOUS

LEMMA StrictHexTyped ==
  ASSUME NEW n \in Nat
  PROVE  /\ StrictHex(n) \in Sqns
         /\ n < SqnCount => StrictHex(n) = n
  BY SqnsTyped DEF StrictHex

(* performResync, on a number the UE may report: the modulus is reached at *)
(* most once.                                                              *)
LEMMA ResynchronisedIs ==
  ASSUME NEW ms \in Sqns
  PROVE  LET m == ms + Ind + 1
         IN  Resynchronised(ms) = IF m < SqnCount - 1 THEN m ELSE m - (SqnCount - 1)
<1> DEFINE m == ms + Ind + 1
           c == SqnCount - 1
<1>1. m \in Nat /\ c \in Nat /\ c > 0 /\ m < 2 * c
  BY SqnsTyped
<1>2. m % c = IF m < c THEN m ELSE m - c
  <2>1. CASE m < c
    BY <1>1, <2>1, WithinTheRange
  <2>2. CASE c <= m
    BY <1>1, <2>2, OnceAround
  <2> QED
    BY <1>1, <2>1, <2>2
<1>3. m % c \in Nat /\ m % c < SqnCount
  BY <1>1, <1>2, SqnsTyped
<1>4. StrictHex(m % c) = m % c
  BY <1>3, StrictHexTyped
<1> QED
  BY <1>2, <1>4 DEF Resynchronised

LEMMA ResynchronisedTyped ==
  ASSUME NEW ms \in Sqns
  PROVE  Resynchronised(ms) \in Sqns
<1>1. /\ ms + Ind + 1 < SqnCount - 1 => ms + Ind + 1 \in Sqns
      /\ ms + Ind + 1 >= SqnCount - 1 => ms + Ind + 1 - (SqnCount - 1) \in Sqns
  BY SqnsTyped
<1> QED
  BY <1>1, ResynchronisedIs, SqnsTyped

LEMMA ResynchronisedIsAhead ==
  ASSUME NEW ms \in Sqns
  PROVE  (Resynchronised(ms) - ms + SqnCount) % SqnCount \in 1..(Ind + 2)
<1> DEFINE m == ms + Ind + 1
           c == SqnCount
           d == Resynchronised(ms) - ms + c
<1>1. ms \in Nat /\ ms < c /\ c \in Nat /\ Ind \in Nat /\ Ind + 2 < c
  BY SqnsTyped
<1>2. CASE m < c - 1
  <2>1. d = c + (Ind + 1)
    BY <1>1, <1>2, ResynchronisedIs
  <2>2. d \in Nat /\ c <= d /\ d < 2 * c
    BY <1>1, <2>1
  <2>3. d % c = Ind + 1
    BY <1>1, <2>1, <2>2, OnceAround
  <2> QED
    BY <1>1, <2>3
<1>3. CASE ~ (m < c - 1)
  <2>1. d = Ind + 2
    BY <1>1, <1>3, ResynchronisedIs
  <2>2. d % c = Ind + 2
    BY <1>1, <2>1, WithinTheRange
  <2> QED
    BY <1>1, <2>2
<1> QED
  BY <1>2, <1>3

-----------------------------------------------------------------------------
(***************************************************************************)
(* Types.                                                                  *)
(***************************************************************************)

Typed == TypeOK /\ HasRequest

LEMMA TypedHandlers ==
  Typed <=> /\ HandlerTyped
            /\ udrSqn \in [Supis -> Sqns]
            /\ sqn \in [Requests -> Sqns]
            /\ sqnMs \in [Requests -> Sqns \cup {None}]
            /\ named \in [Requests -> Requests \cup {None}]
            /\ overlapped \in SUBSET Supis
  BY DEF Typed, TypeOK, HandlerTyped

(* What a handler of this service holds: a deletion that compares has the  *)
(* context it has found, only the last step of a handler answers, only the *)
(* generation of a vector answers with content, a resynchronisation goes   *)
(* on with the number that follows from the UE's, and an event is named by *)
(* a deletion that has found it to match.                                  *)
Handling ==
  \A r \in Requests :
    /\ pc[r] = "match" => ue[r] # None
    /\ pc[r] # "done" => answer[r] = "none"
    /\ answer[r] = "content" => req[r].kind = "authGen"
    /\ sqnMs[r] # None =>
          /\ pc[r] \in {"udr", "done"} /\ req[r].kind = "authGen"
          /\ sqn[r] = Resynchronised(sqnMs[r])
    /\ named[r] # None => pc[r] \in {"write", "done"} /\ req[r].kind = "authDelete"

LEMMA InitTyped == Init => Typed /\ Handling
<1> SUFFICES ASSUME Init PROVE Typed /\ Handling
  OBVIOUS
<1>1. HandlerTyped /\ 0 \in Sqns
  BY HandlerInitTyped, SqnsTyped DEF Init
<1>2. Handling
  BY DEF Init, HandlerInit, Handling
<1> QED
  BY <1>1, <1>2, TypedHandlers DEF Init

(* The steps of this service that leave the contexts alone.                *)
Moves(r) ==
  \/ ReadSqn(r) \/ WriteNextSqn(r) \/ CreateAuthenticationStatus(r) \/ MatchAuthenticationEvent(r)

LEMMA MovesControl ==
  ASSUME NEW r \in Requests, Moves(r)
  PROVE  /\ UNCHANGED <<ueVars, req, ue, restarts>> /\ pc[r] \notin {"idle", "done"}
         /\ \/ UNCHANGED answer /\ \E l \in {"udr", "find", "write"} : Goto(r, l)
            \/ \E c \in {"content", "problem", "crash"} : Reply(r, c)
  BY DEF Moves, ReadSqn, WriteNextSqn, CreateAuthenticationStatus, MatchAuthenticationEvent, At

LEMMA MovesTyped ==
  ASSUME Typed, Handling, NEW r \in Requests, Moves(r)
  PROVE  Typed'
<1>1. HandlerTyped'
  <2>1. {"udr", "find", "write"} \subseteq Labels \ {"idle"} /\ {"content", "problem", "crash"} \subseteq Answers
    BY DEF Labels, Answers
  <2> QED
    BY <2>1, MovesControl, TypedHandlers, AdvanceTyped
<1>2. req[r].supi \in Supis /\ HandlerTyped
  BY MovesControl, TypedHandlers, RequestOf
<1>3. CASE ReadSqn(r)
  <2>1. /\ sqn' \in [Requests -> Sqns] /\ sqnMs' \in [Requests -> Sqns \cup {None}]
    BY <1>2, <1>3, TypedHandlers, ResynchronisedTyped DEF ReadSqn
  <2> QED
    BY <1>1, <1>2, <1>3, <2>1 DEF ReadSqn, Typed, TypeOK, HandlerTyped
<1>4. CASE WriteNextSqn(r)
  <2>1. StrictHex(sqn[r] + 1) \in Sqns
    <3>1. sqn[r] + 1 \in Nat
      BY TypedHandlers, SqnsTyped
    <3> QED
      BY <3>1, StrictHexTyped
  <2>2. udrSqn' \in [Supis -> Sqns]
    BY <1>2, <1>4, <2>1, TypedHandlers DEF WriteNextSqn
  <2> QED
    BY <1>1, <1>4, <2>2 DEF WriteNextSqn, Typed, TypeOK, HandlerTyped
<1>5. CASE CreateAuthenticationStatus(r)
  BY <1>1, <1>5 DEF CreateAuthenticationStatus, ueauVars, Typed, TypeOK, HandlerTyped
<1>6. CASE MatchAuthenticationEvent(r)
  <2>1. ue[r] \in Objects
    BY <1>6 DEF MatchAuthenticationEvent, At, Handling, Typed, TypeOK, HandlerTypeOK
  <2>2. heap[ue[r]].auth \in Requests \cup {None}
    BY <2>1 DEF Typed, TypeOK, HandlerTypeOK, UeTypeOK, UdmUeContext
  <2>3. named' \in [Requests -> Requests \cup {None}]
    BY <1>6, <2>2, TypedHandlers DEF MatchAuthenticationEvent
  <2> QED
    BY <1>1, <1>6, <2>3 DEF MatchAuthenticationEvent, Typed, TypeOK, HandlerTyped
<1> QED
  BY <1>3, <1>4, <1>5, <1>6 DEF Moves

(* The assignments to LastAuthenticationEvent.                             *)
LEMMA EventWritten ==
  ASSUME Typed, NEW r \in Requests, NEW e \in Requests \cup {None},
         heap' = [heap EXCEPT ![ue[r]].auth = e]
  PROVE  /\ heap' \in [Objects -> UdmUeContext]
         /\ \A o \in Objects : heap'[o].auth = IF o = ue[r] THEN e ELSE heap[o].auth
<1>1. heap \in [Objects -> UdmUeContext] /\ ue[r] \in Objects \cup {None}
  BY DEF Typed, TypeOK, HandlerTypeOK, UeTypeOK
<1>2. CASE ue[r] \in Objects
  <2> DEFINE new == [heap[ue[r]] EXCEPT !.auth = e]
  <2>1. heap' = [heap EXCEPT ![ue[r]] = new]
    BY <1>1, <1>2
  <2>2. new \in UdmUeContext /\ new.auth = e
    <3> DEFINE c == heap[ue[r]]
    <3>1. c \in UdmUeContext
      BY <1>1, <1>2
    <3> HIDE DEF c
    <3>2. [c EXCEPT !.auth = e] \in UdmUeContext /\ [c EXCEPT !.auth = e].auth = e
      BY ONLY <3>1, e \in Requests \cup {None} DEF UdmUeContext
    <3> QED
      BY <3>2 DEF c
  <2> HIDE DEF new
  <2> QED
    BY <1>1, <1>2, <2>1, <2>2
<1>3. CASE ue[r] = None
  BY <1>1, <1>3, NoneAssumption
<1> QED
  BY <1>1, <1>2, <1>3

LEMMA EventStepsTyped ==
  ASSUME Typed, NEW r \in Requests, StoreAuthenticationEvent(r) \/ ClearAuthenticationEvent(r)
  PROVE  Typed'
<1>1. /\ pc[r] = "write" /\ UNCHANGED <<pool, req, ue, restarts, ueauVars>>
      /\ \E c \in Answers : Reply(r, c)
      /\ \E e \in Requests \cup {None} : heap' = [heap EXCEPT ![ue[r]].auth = e]
  BY DEF StoreAuthenticationEvent, ClearAuthenticationEvent, At, Answers
<1>2. HasRequest' /\ pc' \in [Requests -> Labels] /\ answer' \in [Requests -> Answers]
  BY <1>1, TypedHandlers, ReplyOf
<1>3. heap' \in [Objects -> UdmUeContext]
  BY <1>1, EventWritten
<1> QED
  BY <1>1, <1>2, <1>3 DEF Typed, TypeOK, HandlerTypeOK, UeTypeOK, ueauVars

LEMMA FindEventTyped ==
  ASSUME Typed, NEW r \in Requests, FindAuthenticationEvent(r)
  PROVE  Typed'
<1>1. /\ pc[r] = "exists" /\ UNCHANGED <<ueVars, req, restarts, ueauVars>>
      /\ Reply(r, "problem") \/ (Goto(r, "match") /\ UNCHANGED answer)
  BY DEF FindAuthenticationEvent, At
<1>2. HasRequest' /\ pc' \in [Requests -> Labels] /\ answer' \in [Requests -> Answers]
  <2>1. CASE Reply(r, "problem")
    BY <1>1, <2>1, TypedHandlers, ReplyOf DEF Answers
  <2>2. CASE Goto(r, "match") /\ UNCHANGED answer
    BY <1>1, <2>2, TypedHandlers, MoveOf DEF Labels, HandlerTyped, HandlerTypeOK
  <2> QED
    BY <1>1, <2>1, <2>2
<1>3. UdmUeFindBySupi(req[r].supi) \in Objects \cup {None}
  BY <1>1, TypedHandlers, RequestOf DEF UdmUeFindBySupi, HandlerTyped, HandlerTypeOK, UeTypeOK
<1>4. ue' \in [Requests -> Objects \cup {None}]
  BY <1>3 DEF FindAuthenticationEvent, Typed, TypeOK, HandlerTypeOK
<1> QED
  BY <1>1, <1>2, <1>4 DEF Typed, TypeOK, HandlerTypeOK, ueVars, UeTypeOK, ueauVars

LEMMA SharedTyped ==
  ASSUME Typed, HandlerTyped', UNCHANGED ueauVars
  PROVE  Typed'
  BY DEF Typed, TypeOK, HandlerTyped, ueauVars

LEMMA NextTyped == Typed /\ Handling /\ [Next]_vars => Typed'
<1> SUFFICES ASSUME Typed, Handling, [Next]_vars PROVE Typed'
  OBVIOUS
<1>1. CASE (Restart \/ \E r \in Requests : Arrive(r)) /\ UNCHANGED ueauVars
  BY <1>1, TypedHandlers, RestartedTyped, ArrivalTyped, SharedTyped
<1>2. CASE \E r \in Requests : UeauStep(r)
  BY <1>2, MovesTyped, EventStepsTyped, FindEventTyped DEF UeauStep, Moves
<1>3. CASE \E r \in Requests : SharedStep(r) /\ UNCHANGED ueauVars
  BY <1>3, TypedHandlers, SharedStepTyped, SharedTyped
<1>4. CASE UNCHANGED vars
  BY <1>4 DEF vars, handlerVars, ueVars, ueauVars, Typed, TypeOK, HandlerTypeOK, UeTypeOK, HasRequest
<1> QED
  BY <1>1, <1>2, <1>3, <1>4 DEF Next, Handle

-----------------------------------------------------------------------------
(***************************************************************************)
(* What a step does to the handlers.                                       *)
(***************************************************************************)
Same(q) ==
  /\ pc'[q] = pc[q] /\ req'[q] = req[q] /\ answer'[q] = answer[q] /\ ue'[q] = ue[q]
  /\ sqn'[q] = sqn[q] /\ sqnMs'[q] = sqnMs[q] /\ named'[q] = named[q]

LEMMA Labelled ==
  /\ \A kind : FirstStep(kind) \in {"exists", "discover", "udr", "client"}
  /\ FirstStep("authGen") = "client"
  /\ \A kind : UdrStep(kind) \in {"query", "find", "udr"}
  /\ UdrStep("authGen") = "query"
  BY DEF FirstStep, UdrStep, AskKinds, SharedSubsKinds, PlaceholderKinds

(* A request arrives, or the process is restarted.                         *)
LEMMA Outside ==
  ASSUME Typed, Restart \/ \E r \in Requests : Arrive(r), UNCHANGED ueauVars
  PROVE  /\ UNCHANGED <<heap, ue, ueauVars>>
         /\ \A q \in Requests :
              \/ Same(q)
              \/ /\ pc[q] \notin {"idle", "done"} /\ pc'[q] = "done"
                 /\ req'[q] = req[q] /\ answer'[q] = "crash"
              \/ /\ pc[q] = "idle" /\ pc'[q] \in {"exists", "discover", "udr", "client"}
                 /\ pc'[q] = "udr" => req'[q].kind # "authGen"
                 /\ answer'[q] = answer[q]
<1>1. CASE Restart
  BY <1>1 DEF Restart, Serving, Same, ueauVars, Typed, TypeOK, HandlerTypeOK
<1>2. ASSUME NEW r \in Requests, Arrive(r)
      PROVE  /\ UNCHANGED <<heap, ue, answer>> /\ pc[r] = "idle"
             /\ pc'[r] \in {"exists", "discover", "udr", "client"}
             /\ pc'[r] = "udr" => req'[r].kind # "authGen"
             /\ \A q \in Requests \ {r} : pc'[q] = pc[q] /\ req'[q] = req[q]
  <2>1. PICK b \in Bodies : req' = [req EXCEPT ![r] = b] /\ Goto(r, FirstStep(b.kind))
    BY <1>2 DEF Arrive
  <2>2. pc'[r] = FirstStep(b.kind) /\ req'[r] = b
    BY <2>1 DEF Goto, Typed, TypeOK, HandlerTypeOK
  <2>3. \A q \in Requests \ {r} : pc'[q] = pc[q] /\ req'[q] = req[q]
    BY <2>1 DEF Goto, Typed, TypeOK, HandlerTypeOK
  <2>4. pc'[r] = "udr" => b.kind # "authGen"
    BY <2>2, Labelled
  <2>5. pc'[r] \in {"exists", "discover", "udr", "client"}
    BY <2>2, Labelled
  <2> QED
    BY <1>2, <2>2, <2>3, <2>4, <2>5 DEF Arrive, ueVars
<1> QED
  BY <1>1, <1>2 DEF Same, ueauVars

(* One of the shared steps: the labels, and that no event is stored.       *)
LEMMA Shared ==
  ASSUME Typed, NEW r \in Requests, SharedStep(r), UNCHANGED ueauVars
  PROVE  /\ UNCHANGED <<req, ueauVars>>
         /\ \A q \in Requests \ {r} : Same(q)
         /\ pc[r] \in {"find", "new", "client", "clientNew", "discover"}
         /\ \/ /\ pc'[r] \in {"new", "write", "clientNew", "discover", "query", "find", "udr"}
               /\ answer'[r] = answer[r]
            \/ pc'[r] = "done" /\ answer'[r] = "problem"
         /\ pc'[r] = "udr" => req[r].kind # "authGen"
         /\ \A o \in Objects : heap'[o].auth \in {heap[o].auth, None}
<1> USE DEF Typed, TypeOK, HandlerTypeOK
<1>0. UeTypeOK /\ HandlerTyped
  BY DEF HandlerTyped
<1>1. CASE FindUe(r)
  BY <1>1 DEF FindUe, At, Goto, Same, ueVars, ueauVars
<1>2. ASSUME NEW o \in Objects, NewUdmUe(o, req[r].supi), pc[r] # "idle"
      PROVE  \A p \in Objects : heap'[p].auth \in {heap[p].auth, None}
  <2>1. req[r].supi \in Supis
    BY <1>0, <1>2, RequestOf
  <2>2. NewContext(req[r].supi).auth = None
    BY DEF NewContext
  <2>3. /\ heap'[o] = NewContext(req[r].supi)
        /\ \A p \in Objects \ {o} : heap'[p] = heap[p]
    BY ONLY <1>0, <1>2, <2>1, NewContextTyped, StoredContext DEF NewUdmUe
  <2> QED
    BY <2>2, <2>3
<1>3. CASE CreateUe(r)
  <2>1. <<r, "create">> \in Objects /\ pc[r] # "idle" /\ NewUdmUe(<<r, "create">>, req[r].supi)
    BY <1>3, SitesAssumption DEF Objects, CreateUe, At
  <2>2. \A o \in Objects : heap'[o].auth \in {heap[o].auth, None}
    BY <1>2, <2>1
  <2> QED
    BY <1>3, <2>2 DEF CreateUe, At, Goto, Same, ueauVars
<1>4. CASE GetUdrUriFind(r)
  BY <1>4 DEF GetUdrUriFind, Goto, Same, ueVars, ueauVars
<1>5. CASE GetUdrUriCreate(r)
  <2>1. <<r, "getUdrURI">> \in Objects /\ pc[r] # "idle" /\ NewUdmUe(<<r, "getUdrURI">>, req[r].supi)
    BY <1>5, SitesAssumption DEF Objects, GetUdrUriCreate
  <2>2. \A o \in Objects : heap'[o].auth \in {heap[o].auth, None}
    BY <1>2, <2>1
  <2> QED
    BY <1>5, <2>2 DEF GetUdrUriCreate, Goto, Same, ueauVars
<1>6. CASE Discover(r)
  BY <1>6, Labelled DEF Discover, Reply, Goto, Same, ueVars, ueauVars
<1> QED
  BY <1>1, <1>3, <1>4, <1>5, <1>6 DEF SharedStep

(* The steps of the service: the other handlers stay where they are.       *)
LEMMA Own ==
  ASSUME Typed, NEW r \in Requests, UeauStep(r)
  PROVE  /\ UNCHANGED req /\ pc[r] \notin {"idle", "done"}
         /\ \A q \in Requests \ {r} : Same(q)
<1> USE DEF Typed, TypeOK, HandlerTypeOK, At, Same, Reply, Goto, ueauVars
<1>1. CASE ReadSqn(r)
  BY <1>1 DEF ReadSqn
<1>2. CASE WriteNextSqn(r)
  BY <1>2 DEF WriteNextSqn
<1>3. CASE CreateAuthenticationStatus(r)
  BY <1>3 DEF CreateAuthenticationStatus
<1>4. CASE StoreAuthenticationEvent(r)
  BY <1>4 DEF StoreAuthenticationEvent
<1>5. CASE FindAuthenticationEvent(r)
  BY <1>5 DEF FindAuthenticationEvent
<1>6. CASE MatchAuthenticationEvent(r)
  BY <1>6 DEF MatchAuthenticationEvent
<1>7. CASE ClearAuthenticationEvent(r)
  BY <1>7 DEF ClearAuthenticationEvent
<1> QED
  BY <1>1, <1>2, <1>3, <1>4, <1>5, <1>6, <1>7 DEF UeauStep


LEMMA NextHandling == Typed /\ Handling /\ [Next]_vars => Handling'
<1> SUFFICES ASSUME Typed, Handling, [Next]_vars, NEW q \in Requests
             PROVE  /\ pc'[q] = "match" => ue'[q] # None
                    /\ pc'[q] # "done" => answer'[q] = "none"
                    /\ answer'[q] = "content" => req'[q].kind = "authGen"
                    /\ sqnMs'[q] # None =>
                          /\ pc'[q] \in {"udr", "done"} /\ req'[q].kind = "authGen"
                          /\ sqn'[q] = Resynchronised(sqnMs'[q])
                    /\ named'[q] # None => pc'[q] \in {"write", "done"} /\ req'[q].kind = "authDelete"
  BY DEF Handling
<1> USE DEF Handling
<1>1. CASE Same(q)
  BY <1>1 DEF Same
<1>2. CASE (Restart \/ \E r \in Requests : Arrive(r)) /\ UNCHANGED ueauVars
  BY <1>1, <1>2, Outside DEF ueauVars
<1>3. CASE \E r \in Requests : SharedStep(r) /\ UNCHANGED ueauVars
  <2>1. PICK r \in Requests : SharedStep(r) /\ UNCHANGED ueauVars
    BY <1>3
  <2>2. CASE q = r
    BY <2>1, <2>2, Shared DEF ueauVars
  <2> QED
    BY <1>1, <2>1, <2>2, Shared
<1>4. CASE UeauStep(q)
  <2> USE DEF At, Reply, Goto, Typed, TypeOK, HandlerTypeOK, ueauVars
  <2>1. CASE ReadSqn(q)
    BY <1>4, <2>1 DEF ReadSqn
  <2>2. CASE WriteNextSqn(q)
    BY <1>4, <2>2 DEF WriteNextSqn
  <2>3. CASE CreateAuthenticationStatus(q)
    BY <1>4, <2>3 DEF CreateAuthenticationStatus
  <2>4. CASE StoreAuthenticationEvent(q)
    BY <1>4, <2>4 DEF StoreAuthenticationEvent
  <2>5. CASE FindAuthenticationEvent(q)
    BY <1>4, <2>5 DEF FindAuthenticationEvent
  <2>6. CASE MatchAuthenticationEvent(q)
    BY <1>4, <2>6 DEF MatchAuthenticationEvent
  <2>7. CASE ClearAuthenticationEvent(q)
    BY <1>4, <2>7 DEF ClearAuthenticationEvent
  <2> QED
    BY <1>4, <2>1, <2>2, <2>3, <2>4, <2>5, <2>6, <2>7 DEF UeauStep
<1>5. CASE UNCHANGED vars
  BY <1>1, <1>5 DEF vars, handlerVars, ueauVars, Same
<1> QED
  BY <1>1, <1>2, <1>3, <1>4, <1>5, Own DEF Next, Handle

LEMMA Invariance == Spec => [](Typed /\ Handling)
<1>1. Init => Typed /\ Handling
  BY InitTyped
<1>2. Typed /\ Handling /\ [Next]_vars => (Typed /\ Handling)'
  BY NextTyped, NextHandling
<1> QED
  BY <1>1, <1>2, PTL DEF Spec

(* The variables keep their types in every reachable state: no handler     *)
(* assigns a context a field it does not have, and every sequence number,  *)
(* stored or in hand, is one of SqnCount.                                  *)
THEOREM TypeCorrect == Spec => []TypeOK
<1>1. Typed => TypeOK
  BY DEF Typed
<1> QED
  BY <1>1, Invariance, PTL

-----------------------------------------------------------------------------
(***************************************************************************)
(* Resynchronisation.                                                      *)
(***************************************************************************)
(* A vector for a UE that asked to resynchronise carries a number ahead of *)
(* the one the UE reported, by at most Ind + 2, wherever in the range the  *)
(* reported number lies (performResync).                                   *)
THEOREM ResyncHolds == Spec => []ResyncIsAhead
<1>1. Typed /\ Handling => ResyncIsAhead
  <2> SUFFICES ASSUME Typed, Handling, NEW r \in Requests, sqnMs[r] # None
               PROVE  (sqn[r] - sqnMs[r] + SqnCount) % SqnCount \in 1..(Ind + 2)
    BY DEF ResyncIsAhead
  <2>1. sqnMs[r] \in Sqns /\ sqn[r] = Resynchronised(sqnMs[r])
    BY DEF Typed, TypeOK, Handling
  <2> QED
    BY <2>1, ResynchronisedIsAhead
<1> QED
  BY <1>1, Invariance, PTL

-----------------------------------------------------------------------------
(***************************************************************************)
(* Authentication events.                                                  *)
(***************************************************************************)
(* An event is stored when its confirmation ends.                          *)
StoredWhenDone ==
  \A o \in Objects : LET e == heap[o].auth IN e # None =>
    pc[e] = "done" /\ req[e].kind = "authConfirm"

(* It is in one context only, ...                                          *)
StoredOnce ==
  \A o, p \in Objects : heap[o].auth # None /\ heap[o].auth = heap[p].auth => o = p

(* ... the one whose field the deletion that names it is about to clear.   *)
NamedIsAt(r) ==
  LET e == named[r] IN e # None =>
    /\ pc[e] = "done"
    /\ \A o \in Objects : heap[o].auth = e => o = ue[r] /\ answer[r] # "noContent"

EventInv == StoredWhenDone /\ StoredOnce /\ \A r \in Requests : NamedIsAt(r)

LEMMA EventTyped ==
  ASSUME Typed
  PROVE  /\ \A o \in Objects : heap[o].auth \in Requests \cup {None}
         /\ \A r \in Requests : named[r] \in Requests \cup {None} /\ ue[r] \in Objects \cup {None}
  BY DEF Typed, TypeOK, HandlerTypeOK, UeTypeOK, UdmUeContext

LEMMA InitEvent == Init => EventInv
  BY DEF Init, HandlerInit, UeInit, NewContext, EventInv, StoredWhenDone, StoredOnce, NamedIsAt

(* Finished handlers stay finished.                                        *)
LEMMA DoneStays ==
  ASSUME Typed, Handling, [Next]_vars, NEW q \in Requests, pc[q] = "done"
  PROVE  Same(q)
<1>1. CASE (Restart \/ \E r \in Requests : Arrive(r)) /\ UNCHANGED ueauVars
  BY <1>1, Outside
<1>2. ASSUME NEW r \in Requests, Handle(r)
      PROVE  Same(q)
  BY <1>2, Shared, Own DEF Handle
<1>3. CASE UNCHANGED vars
  BY <1>3 DEF vars, handlerVars, ueauVars, Same
<1> QED
  BY <1>1, <1>2, <1>3 DEF Next

(* A step that stores no event.                                            *)
LEMMA NothingStored ==
  ASSUME Typed, Handling, EventInv, [Next]_vars,
         \A o \in Objects : heap'[o].auth \in {heap[o].auth, None},
         \A r \in Requests : named[r] # None =>
            /\ named'[r] = named[r] /\ ue'[r] = ue[r]
            /\ answer'[r] # "noContent" \/ answer'[r] = answer[r],
         \A r \in Requests : named[r] = None => named'[r] = None
  PROVE  EventInv'
<1>1. StoredWhenDone'
  BY EventTyped, DoneStays DEF EventInv, StoredWhenDone, Same
<1>2. StoredOnce'
  BY DEF EventInv, StoredOnce
<1>3. ASSUME NEW r \in Requests
      PROVE  NamedIsAt(r)'
  BY EventTyped, DoneStays DEF EventInv, NamedIsAt, Same
<1> QED
  BY <1>1, <1>2, <1>3 DEF EventInv

LEMMA StoreEvent ==
  ASSUME Typed, Handling, EventInv, [Next]_vars, NEW r \in Requests, StoreAuthenticationEvent(r)
  PROVE  EventInv'
<1>1. /\ pc[r] = "write" /\ pc'[r] = "done" /\ req[r].kind = "authConfirm"
      /\ UNCHANGED <<req, ue, named>> /\ named[r] = None
      /\ \A q \in Requests \ {r} : pc'[q] = pc[q] /\ answer'[q] = answer[q]
  BY DEF StoreAuthenticationEvent, At, Reply, Goto, Typed, TypeOK, HandlerTypeOK, ueauVars, Handling
<1>2. \A o \in Objects : heap'[o].auth = IF o = ue[r] THEN r ELSE heap[o].auth
  BY EventWritten DEF StoreAuthenticationEvent
<1>3. \A o \in Objects : heap[o].auth # r
  BY <1>1, NoneAssumption DEF EventInv, StoredWhenDone
<1>4. StoredWhenDone'
  BY <1>1, <1>2, EventTyped DEF EventInv, StoredWhenDone
<1>5. StoredOnce'
  BY <1>2, <1>3 DEF EventInv, StoredOnce
<1>6. ASSUME NEW q \in Requests
      PROVE  NamedIsAt(q)'
  BY <1>1, <1>2, <1>3, EventTyped DEF EventInv, NamedIsAt
<1> QED
  BY <1>4, <1>5, <1>6 DEF EventInv

LEMMA MatchEvent ==
  ASSUME Typed, Handling, EventInv, [Next]_vars, NEW r \in Requests, MatchAuthenticationEvent(r)
  PROVE  EventInv'
<1> DEFINE event == heap[ue[r]].auth
<1>1. /\ UNCHANGED <<heap, req, ue>> /\ ue[r] \in Objects /\ named[r] = None
      /\ pc[r] = "match" /\ answer[r] = "none"
      /\ \A q \in Requests \ {r} : pc'[q] = pc[q] /\ answer'[q] = answer[q] /\ named'[q] = named[q]
      /\ \/ named'[r] = None
         \/ event # None /\ named'[r] = event /\ answer'[r] = answer[r]
  BY DEF MatchAuthenticationEvent, At, Reply, Goto, Typed, TypeOK, HandlerTypeOK, ueVars, Handling
<1>2. /\ event # None => event \in Requests /\ pc[event] = "done" /\ pc'[event] = "done"
      /\ \A o \in Objects : event # None /\ heap[o].auth = event => o = ue[r]
  BY <1>1, EventTyped, DoneStays DEF EventInv, StoredWhenDone, StoredOnce, Same
<1>3. StoredWhenDone'
  BY <1>1, EventTyped, DoneStays DEF EventInv, StoredWhenDone, Same
<1>4. StoredOnce'
  BY <1>1 DEF EventInv, StoredOnce
<1>5. NamedIsAt(r)'
  BY <1>1, <1>2 DEF NamedIsAt
<1>6. ASSUME NEW q \in Requests \ {r}
      PROVE  NamedIsAt(q)'
  BY <1>1, EventTyped, DoneStays DEF EventInv, NamedIsAt, Same
<1> QED
  BY <1>3, <1>4, <1>5, <1>6 DEF EventInv

LEMMA ClearEvent ==
  ASSUME Typed, Handling, EventInv, [Next]_vars, NEW r \in Requests, ClearAuthenticationEvent(r)
  PROVE  EventInv'
<1>1. /\ UNCHANGED <<req, ue, named>>
      /\ \A q \in Requests \ {r} : pc'[q] = pc[q] /\ answer'[q] = answer[q]
  BY DEF ClearAuthenticationEvent, At, Reply, Goto, Typed, TypeOK, HandlerTypeOK, ueauVars
<1>2. \A o \in Objects : heap'[o].auth = IF o = ue[r] THEN None ELSE heap[o].auth
  BY EventWritten DEF ClearAuthenticationEvent
<1>3. StoredWhenDone'
  BY <1>1, <1>2, EventTyped, DoneStays DEF EventInv, StoredWhenDone, Same
<1>4. StoredOnce'
  BY <1>2 DEF EventInv, StoredOnce
<1>5. ASSUME NEW q \in Requests
      PROVE  NamedIsAt(q)'
  <2>1. CASE q = r
    BY <1>1, <1>2, <2>1, EventTyped, DoneStays DEF EventInv, NamedIsAt, Same
  <2>2. CASE q # r
    BY <1>1, <1>2, <2>2, EventTyped, DoneStays DEF EventInv, NamedIsAt, Same
  <2> QED
    BY <2>1, <2>2
<1> QED
  BY <1>3, <1>4, <1>5 DEF EventInv

LEMMA NextEvent == Typed /\ Handling /\ EventInv /\ [Next]_vars => EventInv'
<1> SUFFICES ASSUME Typed, Handling, EventInv, [Next]_vars PROVE EventInv'
  OBVIOUS
<1> DEFINE Kept == /\ \A o \in Objects : heap'[o].auth \in {heap[o].auth, None}
                   /\ \A r \in Requests : named[r] # None =>
                        /\ named'[r] = named[r] /\ ue'[r] = ue[r]
                        /\ answer'[r] # "noContent" \/ answer'[r] = answer[r]
                   /\ \A r \in Requests : named[r] = None => named'[r] = None
<1>1. Kept => EventInv'
  BY NothingStored
<1>2. CASE (Restart \/ \E r \in Requests : Arrive(r)) /\ UNCHANGED ueauVars
  <2>1. Kept
    BY <1>2, Outside DEF ueauVars, Same, Handling
  <2> QED
    BY <1>1, <2>1
<1>3. ASSUME NEW r \in Requests, SharedStep(r), UNCHANGED ueauVars
      PROVE  EventInv'
  <2>1. Kept
    BY <1>3, Shared DEF ueauVars, Same, Handling
  <2> QED
    BY <1>1, <2>1
<1>4. ASSUME NEW r \in Requests, UeauStep(r)
      PROVE  EventInv'
  <2>1. ASSUME UNCHANGED <<heap, named>>,
               named[r] # None => ue'[r] = ue[r] /\ answer'[r] # "noContent"
        PROVE  EventInv'
    <3>1. Kept
      BY <1>4, <2>1, Own DEF Same
    <3> QED
      BY <1>1, <3>1
  <2>2. CASE ReadSqn(r) \/ WriteNextSqn(r)
    BY <2>1, <2>2 DEF ReadSqn, WriteNextSqn, ueVars, Handling, At, Reply, Typed, TypeOK, HandlerTypeOK
  <2>3. CASE CreateAuthenticationStatus(r)
    BY <2>1, <2>3 DEF CreateAuthenticationStatus, ueVars, ueauVars, Handling, At
  <2>4. CASE FindAuthenticationEvent(r)
    BY <2>1, <2>4 DEF FindAuthenticationEvent, ueVars, ueauVars, Handling, At
  <2> QED
    BY <1>4, <2>2, <2>3, <2>4, StoreEvent, MatchEvent, ClearEvent DEF UeauStep
<1>5. CASE UNCHANGED vars
  <2>1. Kept
    BY <1>5 DEF vars, handlerVars, ueVars, ueauVars
  <2> QED
    BY <1>1, <2>1
<1> QED
  BY <1>2, <1>3, <1>4, <1>5 DEF Next, Handle

(* The event that a successful deletion names is in no context of the      *)
(* pool, and never again: a confirmation that is still under way has an    *)
(* event of its own, and a context that a concurrent handler replaced took *)
(* its event along (DeleteAuthProcedure).                                  *)
THEOREM DeletedHolds == Spec => []DeletedEventStaysDeleted
<1>1. Init => EventInv
  BY InitEvent
<1>2. Typed /\ Handling /\ EventInv /\ [Next]_vars => EventInv'
  BY NextEvent
<1>3. Typed /\ EventInv => DeletedEventStaysDeleted
  <2> SUFFICES ASSUME Typed, EventInv, NEW r \in Requests, answer[r] = "noContent", named[r] # None,
                      NEW s \in Supis, pool[s] # None
               PROVE  heap[pool[s]].auth # named[r]
    BY DEF DeletedEventStaysDeleted
  <2>1. pool[s] \in Objects
    BY DEF Typed, TypeOK, HandlerTypeOK, UeTypeOK
  <2> QED
    BY <2>1 DEF EventInv, NamedIsAt
<1> QED
  BY <1>1, <1>2, <1>3, Invariance, PTL DEF Spec

-----------------------------------------------------------------------------
(***************************************************************************)
(* Sequence numbers of overlapping and of other requests.                  *)
(*                                                                         *)
(* The numbers go round, so that "used before" needs an order: the numbers *)
(* used lie behind the UDR's, none farther than there were vectors.        *)
(***************************************************************************)
(* The range is wider than the requests of a behaviour are many.           *)
FewRequests == IsFiniteSet(Requests) /\ Cardinality(Requests) < SqnCount

(* How far u is ahead of n.                                                *)
Ahead(u, n) == (u - n + SqnCount) % SqnCount

LEMMA AheadOf ==
  ASSUME NEW u \in Sqns, NEW n \in Sqns
  PROVE  /\ Ahead(u, n) = IF n <= u THEN u - n ELSE u - n + SqnCount
         /\ Ahead(u, n) \in Nat
<1> DEFINE c == SqnCount
           d == u - n + c
<1>1. u \in Nat /\ n \in Nat /\ u < c /\ n < c /\ c \in Nat
  BY SqnsTyped
<1>2. CASE n <= u
  <2>1. d \in Nat /\ c <= d /\ d < 2 * c
    BY <1>1, <1>2
  <2>2. d % c = d - c
    BY <1>1, <2>1, OnceAround
  <2> QED
    BY <1>1, <1>2, <2>2 DEF Ahead
<1>3. CASE u < n
  <2>1. d \in Nat /\ d < c
    BY <1>1, <1>3
  <2>2. d % c = d
    BY <1>1, <2>1, WithinTheRange
  <2> QED
    BY <1>1, <1>3, <2>2 DEF Ahead
<1> QED
  BY <1>1, <1>2, <1>3

LEMMA StrictHexIs ==
  ASSUME NEW u \in Sqns
  PROVE  StrictHex(u + 1) = IF u + 1 = SqnCount THEN 0 ELSE u + 1
<1>1. u \in Nat /\ u + 1 \in Nat /\ SqnCount \in Nat /\ u + 1 <= SqnCount /\ SqnCount > 2
  BY SqnsTyped
<1>2. CASE u + 1 = SqnCount
  <2>1. SqnCount < 2 * SqnCount
    BY <1>1
  <2>2. SqnCount % SqnCount = 0
    BY <1>1, <2>1, OnceAround
  <2> QED
    BY <1>1, <1>2, <2>2 DEF StrictHex
<1>3. CASE u + 1 < SqnCount
  BY <1>1, <1>3, StrictHexTyped
<1> QED
  BY <1>1, <1>2, <1>3

(* The successor of u is one step farther ahead, up to the whole range.    *)
LEMMA OneFarther ==
  ASSUME NEW u \in Sqns, NEW n \in Sqns, Ahead(u, n) + 1 < SqnCount
  PROVE  Ahead(StrictHex(u + 1), n) = Ahead(u, n) + 1
<1>1. u \in Nat /\ n \in Nat /\ u < SqnCount /\ n < SqnCount /\ SqnCount \in Nat
  BY SqnsTyped
<1>2. StrictHex(u + 1) \in Sqns
  BY <1>1, StrictHexTyped
<1> QED
  BY <1>1, <1>2, StrictHexIs, AheadOf

LEMMA SuccessorIsOneAhead ==
  ASSUME NEW u \in Sqns
  PROVE  Ahead(StrictHex(u + 1), u) = 1 /\ Ahead(u, u) = 0
<1>1. u \in Nat /\ u < SqnCount /\ SqnCount \in Nat /\ SqnCount > 2
  BY SqnsTyped
<1>2. StrictHex(u + 1) \in Sqns
  BY <1>1, StrictHexTyped
<1>3. Ahead(u, u) = 0
  BY <1>1, AheadOf
<1> QED
  BY <1>1, <1>2, <1>3, OneFarther

(* The vectors that were generated, whatever the caller got of them.       *)
Generated(s) == {r \in Requests : pc[r] = "done" /\ req[r].kind = "authGen" /\ req[r].supi = s}

(* No two handlers have a number of s in hand, ...                         *)
OneInHand(s) == \A r, q \in InHand(s) : r = q

(* ... which is the number the UDR has, ...                                *)
HandIsCurrent(s) == InSync(s) => \A r \in InHand(s) : sqn[r] = udrSqn[s]

(* ... the vectors that left are behind it, by no more than there were ... *)
VectorsAreBehind(s) ==
  InSync(s) => \A r \in Vectors(s) : Ahead(udrSqn[s], sqn[r]) \in 1..Cardinality(Generated(s))

(* ... and they differ.                                                    *)
VectorsDiffer(s) ==
  InSync(s) => \A r, q \in Vectors(s) : r # q => sqn[r] # sqn[q]

InTurn(s) == OneInHand(s) /\ HandIsCurrent(s) /\ VectorsAreBehind(s) /\ VectorsDiffer(s)

SqnInv == \A s \in Supis \ overlapped : InTurn(s)

LEMMA SqnTypes ==
  ASSUME Typed
  PROVE  /\ \A s \in Supis : udrSqn[s] \in Sqns
         /\ \A r \in Requests : sqn[r] \in Sqns
  BY DEF Typed, TypeOK

(* The vectors generated of one subscriber only grow in number.            *)
LEMMA GeneratedGrows ==
  ASSUME FewRequests, Typed, Handling, [Next]_vars, NEW s \in Supis
  PROVE  /\ Generated(s) \subseteq Generated(s)'
         /\ Cardinality(Generated(s)) \in Nat /\ Cardinality(Generated(s)') \in Nat
         /\ Cardinality(Generated(s)) <= Cardinality(Generated(s)')
         /\ Cardinality(Generated(s)') < SqnCount
         /\ Generated(s)' # Generated(s) => Cardinality(Generated(s)) + 1 <= Cardinality(Generated(s)')
<1> DEFINE G == Generated(s)
           H == Generated(s)'
<1>1. G \subseteq H
  BY DoneStays DEF Generated, Same
<1>2. H \subseteq Requests
  BY DEF Generated
<1> HIDE DEF G, H
<1>3. IsFiniteSet(H) /\ IsFiniteSet(G) /\ IsFiniteSet(Requests)
  BY <1>1, <1>2, FS_Subset DEF FewRequests
<1>4. /\ Cardinality(G) \in Nat /\ Cardinality(H) \in Nat /\ Cardinality(Requests) \in Nat
      /\ Cardinality(G) <= Cardinality(H) /\ Cardinality(H) <= Cardinality(Requests)
      /\ Cardinality(G) = Cardinality(H) => G = H
  BY <1>1, <1>2, <1>3, FS_Subset, FS_CardinalityType
<1>5. Cardinality(H) < SqnCount
  BY <1>4, SqnsTyped DEF FewRequests
<1>6. G # H => Cardinality(G) + 1 <= Cardinality(H)
  BY <1>4
<1> QED
  BY <1>1, <1>4, <1>5, <1>6 DEF G, H

(* A step that leaves the UDR's number of s and the vectors alone.         *)
LEMMA VectorsUntouched ==
  ASSUME FewRequests, Typed, Handling, [Next]_vars, NEW s \in Supis, InTurn(s),
         udrSqn'[s] = udrSqn[s],
         \A r \in Vectors(s)' : r \in Vectors(s) /\ sqn'[r] = sqn[r],
         InSync(s)' => InSync(s)
  PROVE  VectorsAreBehind(s)' /\ VectorsDiffer(s)'
<1>1. VectorsAreBehind(s)'
  <2> SUFFICES ASSUME InSync(s)', NEW r \in Vectors(s)'
               PROVE  Ahead(udrSqn'[s], sqn'[r]) \in 1..Cardinality(Generated(s)')
    BY DEF VectorsAreBehind, Ahead
  <2>1. Ahead(udrSqn[s], sqn[r]) \in 1..Cardinality(Generated(s))
    BY DEF InTurn, VectorsAreBehind
  <2>2. Ahead(udrSqn'[s], sqn'[r]) = Ahead(udrSqn[s], sqn[r])
    OBVIOUS
  <2>3. \A k \in 1..Cardinality(Generated(s)) : k \in 1..Cardinality(Generated(s)')
    BY GeneratedGrows
  <2> QED
    BY <2>1, <2>2, <2>3
<1>2. VectorsDiffer(s)'
  BY DEF InTurn, VectorsDiffer
<1> QED
  BY <1>1, <1>2

(* A subscriber of whom handlers at most let a number go.                  *)
LEMMA Untouched ==
  ASSUME FewRequests, Typed, Handling, [Next]_vars, NEW s \in Supis, InTurn(s),
         udrSqn'[s] = udrSqn[s],
         \A r \in InHand(s)' : r \in InHand(s) /\ sqn'[r] = sqn[r],
         \A r \in Vectors(s)' : r \in Vectors(s) /\ sqn'[r] = sqn[r],
         InSync(s)' => InSync(s)
  PROVE  InTurn(s)'
<1>1. OneInHand(s)'
  BY DEF InTurn, OneInHand
<1>2. HandIsCurrent(s)'
  BY DEF InTurn, HandIsCurrent
<1> QED
  BY <1>1, <1>2, VectorsUntouched DEF InTurn

(* A step that handles no sequence number.                                 *)
LEMMA Aside ==
  ASSUME FewRequests, Typed, Handling, SqnInv, [Next]_vars,
         UNCHANGED <<udrSqn, sqn, sqnMs, overlapped>>,
         \A q \in Requests :
           /\ pc[q] # "idle" => req'[q] = req[q]
           /\ pc'[q] = "udr" /\ req'[q].kind = "authGen" => pc[q] = "udr"
           /\ answer'[q] = "content" => answer[q] = "content"
  PROVE  SqnInv'
<1> SUFFICES ASSUME NEW s \in Supis \ overlapped
             PROVE  InTurn(s)'
  BY DEF SqnInv
<1>1. \A r \in InHand(s)' : r \in InHand(s)
  BY DEF InHand, At
<1>2. \A r \in Vectors(s)' : r \in Vectors(s)
  BY DEF Vectors, Handling
<1>3. InSync(s)' => InSync(s)
  BY DEF InSync, Handling
<1>4. InTurn(s)
  BY DEF SqnInv
<1> QED
  BY <1>1, <1>2, <1>3, <1>4, Untouched

(* What the two steps that handle a number leave alone.                    *)
LEMMA SqnStep ==
  ASSUME Typed, Handling, NEW r \in Requests, ReadSqn(r) \/ WriteNextSqn(r)
  PROVE  /\ UNCHANGED req /\ req[r].kind = "authGen" /\ req[r].supi \in Supis
         /\ answer[r] = "none" /\ pc[r] # "done"
         /\ \A q \in Requests \ {r} : Same(q)
<1>1. UeauStep(r) /\ pc[r] # "idle" /\ req[r].kind = "authGen"
  BY DEF UeauStep, ReadSqn, WriteNextSqn, At
<1>2. req[r].supi \in Supis
  BY <1>1, TypedHandlers, RequestOf
<1> QED
  BY <1>1, <1>2, Own DEF Handling

(* The numbers of the other subscribers.                                   *)
LEMMA Others ==
  ASSUME FewRequests, Typed, Handling, SqnInv, [Next]_vars,
         NEW r \in Requests, ReadSqn(r) \/ WriteNextSqn(r),
         NEW s \in Supis \ overlapped, s # req[r].supi
  PROVE  InTurn(s)'
<1>1. udrSqn'[s] = udrSqn[s]
  BY SqnStep DEF ReadSqn, WriteNextSqn, Typed, TypeOK
<1>2. \A q \in InHand(s)' : q \in InHand(s) /\ sqn'[q] = sqn[q]
  BY SqnStep DEF InHand, At, Same
<1>3. \A q \in Vectors(s)' : q \in Vectors(s) /\ sqn'[q] = sqn[q]
  BY SqnStep DEF Vectors, Same
<1>4. InSync(s)' => InSync(s)
  BY SqnStep DEF InSync, Same
<1>5. InTurn(s)
  BY DEF SqnInv
<1> QED
  BY <1>1, <1>2, <1>3, <1>4, <1>5, Untouched

LEMMA ReadInTurn ==
  ASSUME FewRequests, Typed, Handling, SqnInv, [Next]_vars,
         NEW r \in Requests, ReadSqn(r), NEW s \in Supis \ overlapped', s = req[r].supi
  PROVE  InTurn(s)'
<1>1. s \notin overlapped /\ InHand(s) = {} /\ udrSqn' = udrSqn
  BY DEF ReadSqn
<1>2. InTurn(s)
  BY <1>1 DEF SqnInv
<1>3. \A q \in InHand(s)' : q = r /\ pc'[r] = "udr"
  BY <1>1, SqnStep DEF InHand, At, Same
<1>4. \A q \in Vectors(s)' : q \in Vectors(s) /\ sqn'[q] = sqn[q]
  <2>1. answer'[r] # "content"
    BY SqnStep DEF ReadSqn, Reply, Typed, TypeOK, HandlerTypeOK
  <2> QED
    BY <2>1, SqnStep DEF Vectors, Same
<1>5. InSync(s)' => /\ InSync(s)
                    /\ pc'[r] = "udr" => sqn'[r] = udrSqn[s]
  <2>1. CASE sqn' = [sqn EXCEPT ![r] = udrSqn[s]] /\ UNCHANGED sqnMs
    BY <2>1, SqnStep DEF InSync, Typed, TypeOK
  <2>2. CASE \E ms \in Sqns : sqnMs' = [sqnMs EXCEPT ![r] = ms]
    BY <2>2, SqnStep, UeauAssumption DEF InSync, Typed, TypeOK
  <2>3. CASE (Reply(r, "problem") \/ Reply(r, "crash")) /\ UNCHANGED sqnMs
    BY <2>3, SqnStep DEF Reply, Goto, InSync, Typed, TypeOK, HandlerTypeOK
  <2> QED
    BY <2>1, <2>2, <2>3 DEF ReadSqn
<1>6. OneInHand(s)'
  BY <1>3 DEF OneInHand
<1>7. HandIsCurrent(s)'
  BY <1>1, <1>3, <1>5 DEF HandIsCurrent
<1>8. VectorsAreBehind(s)' /\ VectorsDiffer(s)'
  BY <1>1, <1>2, <1>4, <1>5, VectorsUntouched
<1> QED
  BY <1>6, <1>7, <1>8 DEF InTurn

LEMMA WriteInTurn ==
  ASSUME FewRequests, Typed, Handling, SqnInv, [Next]_vars,
         NEW r \in Requests, WriteNextSqn(r), NEW s \in Supis \ overlapped, s = req[r].supi
  PROVE  InTurn(s)'
<1> DEFINE G == Cardinality(Generated(s))
           H == Cardinality(Generated(s)')
<1>1. InTurn(s)
  BY DEF SqnInv
<1>2. /\ r \in InHand(s) /\ pc'[r] = "done" /\ UNCHANGED <<sqn, sqnMs>>
      /\ answer'[r] = "content" => udrSqn'[s] = StrictHex(sqn[r] + 1)
      /\ udrSqn'[s] \in {udrSqn[s], StrictHex(sqn[r] + 1)}
  BY SqnStep DEF WriteNextSqn, InHand, At, Reply, Goto, Typed, TypeOK, HandlerTypeOK
<1>3. InHand(s)' = {}
  BY <1>1, <1>2, SqnStep DEF InTurn, OneInHand, InHand, At, Same
<1>4. OneInHand(s)' /\ HandIsCurrent(s)'
  BY <1>3 DEF OneInHand, HandIsCurrent
<1>5. InSync(s)' => InSync(s)
  BY <1>2, SqnStep DEF InSync
<1>6. \A q \in Vectors(s)' : q # r => q \in Vectors(s)
  BY SqnStep DEF Vectors, Same
<1>7. CASE answer'[r] # "content" /\ udrSqn'[s] = udrSqn[s]
  BY <1>1, <1>2, <1>4, <1>5, <1>6, <1>7, VectorsUntouched DEF InTurn, Vectors
<1>8. CASE udrSqn'[s] = StrictHex(sqn[r] + 1)
  <2>1. G \in Nat /\ H \in Nat /\ G + 1 <= H /\ H < SqnCount
    <3>1. Generated(s)' # Generated(s)
      BY <1>2, SqnStep DEF Generated
    <3> QED
      BY <3>1, GeneratedGrows
  <2> HIDE DEF G, H
  <2>2. ASSUME InSync(s)'
        PROVE  /\ sqn[r] = udrSqn[s] /\ udrSqn[s] \in Sqns
               /\ Ahead(udrSqn'[s], sqn[r]) = 1
               /\ \A q \in Vectors(s) : /\ Ahead(udrSqn'[s], sqn[q]) \in 1..H
                                        /\ sqn[q] # sqn[r]
    <3>1. sqn[r] = udrSqn[s] /\ udrSqn[s] \in Sqns
      BY <1>1, <1>2, <1>5, <2>2, SqnTypes DEF InTurn, HandIsCurrent
    <3>2. Ahead(udrSqn'[s], sqn[r]) = 1 /\ Ahead(udrSqn[s], sqn[r]) = 0
      BY <1>8, <3>1, SuccessorIsOneAhead
    <3>3. ASSUME NEW q \in Vectors(s)
          PROVE  Ahead(udrSqn'[s], sqn[q]) \in 1..H /\ sqn[q] # sqn[r]
      <4>1. Ahead(udrSqn[s], sqn[q]) \in 1..G /\ sqn[q] \in Sqns
        BY <1>1, <1>5, <2>2, SqnTypes DEF InTurn, VectorsAreBehind, Vectors, G
      <4>2. Ahead(udrSqn[s], sqn[q]) + 1 < SqnCount
        BY <2>1, <4>1, SqnsTyped
      <4>3. Ahead(udrSqn'[s], sqn[q]) = Ahead(udrSqn[s], sqn[q]) + 1
        BY <1>8, <3>1, <4>1, <4>2, OneFarther
      <4>4. Ahead(udrSqn'[s], sqn[q]) \in 1..H
        BY <2>1, <4>1, <4>3
      <4>5. sqn[q] # sqn[r]
        BY <3>2, <4>1
      <4> QED
        BY <4>4, <4>5
    <3> QED
      BY <3>1, <3>2, <3>3
  <2>3. VectorsAreBehind(s)'
    <3> SUFFICES ASSUME InSync(s)', NEW q \in Vectors(s)'
                 PROVE  Ahead(udrSqn'[s], sqn'[q]) \in 1..H
      BY DEF VectorsAreBehind, Ahead, H
    <3>1. 1 \in 1..H
      BY <2>1
    <3> QED
      BY <1>2, <1>6, <2>2, <3>1
  <2>4. VectorsDiffer(s)'
    <3> SUFFICES ASSUME InSync(s)', NEW p \in Vectors(s)', NEW q \in Vectors(s)', p # q
                 PROVE  sqn[p] # sqn[q]
      BY <1>2 DEF VectorsDiffer
    <3>1. CASE p # r /\ q # r
      BY <1>1, <1>5, <1>6, <3>1 DEF InTurn, VectorsDiffer
    <3>2. CASE p = r \/ q = r
      BY <1>6, <2>2, <3>2
    <3> QED
      BY <3>1, <3>2
  <2> QED
    BY <1>4, <2>3, <2>4 DEF InTurn
<1> QED
  BY <1>2, <1>7, <1>8

LEMMA NextSqn ==
  ASSUME FewRequests
  PROVE  Typed /\ Handling /\ SqnInv /\ [Next]_vars => SqnInv'
<1> SUFFICES ASSUME Typed, Handling, SqnInv, [Next]_vars PROVE SqnInv'
  OBVIOUS
<1>1. CASE (Restart \/ \E r \in Requests : Arrive(r)) /\ UNCHANGED ueauVars
  BY <1>1, Outside, Aside DEF ueauVars, Same
<1>2. ASSUME NEW r \in Requests, SharedStep(r), UNCHANGED ueauVars
      PROVE  SqnInv'
  <2>1. \A q \in Requests :
           /\ req'[q] = req[q]
           /\ pc'[q] = "udr" /\ req'[q].kind = "authGen" => pc[q] = "udr"
           /\ answer'[q] = "content" => answer[q] = "content"
    BY <1>2, Shared DEF Same
  <2> QED
    BY <1>2, <2>1, Aside DEF ueauVars
<1>3. ASSUME NEW r \in Requests, UeauStep(r)
      PROVE  SqnInv'
  <2>1. CASE ReadSqn(r) \/ WriteNextSqn(r)
    <3> SUFFICES ASSUME NEW s \in Supis \ overlapped'
                 PROVE  InTurn(s)'
      BY DEF SqnInv
    <3>1. s \notin overlapped /\ (WriteNextSqn(r) => overlapped' = overlapped)
      BY <2>1 DEF ReadSqn, WriteNextSqn
    <3> QED
      BY <2>1, <3>1, Others, ReadInTurn, WriteInTurn
  <2>2. CASE ~ (ReadSqn(r) \/ WriteNextSqn(r))
    <3>1. /\ UNCHANGED <<udrSqn, sqn, sqnMs, overlapped>>
          /\ pc'[r] = "udr" => pc[r] = "udr"
          /\ answer'[r] = "content" => answer[r] = "content"
      <4> USE DEF At, Reply, Goto, Typed, TypeOK, HandlerTypeOK, ueauVars
      <4>1. CASE CreateAuthenticationStatus(r)
        BY <4>1 DEF CreateAuthenticationStatus
      <4>2. CASE StoreAuthenticationEvent(r)
        BY <4>2 DEF StoreAuthenticationEvent
      <4>3. CASE FindAuthenticationEvent(r)
        BY <4>3 DEF FindAuthenticationEvent
      <4>4. CASE MatchAuthenticationEvent(r)
        BY <4>4 DEF MatchAuthenticationEvent
      <4>5. CASE ClearAuthenticationEvent(r)
        BY <4>5 DEF ClearAuthenticationEvent
      <4> QED
        BY <1>3, <2>2, <4>1, <4>2, <4>3, <4>4, <4>5 DEF UeauStep
    <3>2. \A q \in Requests :
            /\ req'[q] = req[q]
            /\ pc'[q] = "udr" => pc[q] = "udr"
            /\ answer'[q] = "content" => answer[q] = "content"
      BY <1>3, <3>1, Own DEF Same
    <3> QED
      BY <3>1, <3>2, Aside
  <2> QED
    BY <2>1, <2>2
<1>4. CASE UNCHANGED vars
  BY <1>4, Aside DEF vars, handlerVars, ueauVars
<1> QED
  BY <1>1, <1>2, <1>3, <1>4 DEF Next, Handle

LEMMA InitSqn == Init => SqnInv
<1> SUFFICES ASSUME Init, NEW s \in Supis PROVE InTurn(s)
  BY DEF SqnInv
<1>1. InHand(s) = {} /\ Vectors(s) = {}
  BY DEF Init, HandlerInit, InHand, At, Vectors
<1> QED
  BY <1>1 DEF InTurn, OneInHand, HandIsCurrent, VectorsAreBehind, VectorsDiffer

LEMMA SqnInvariance ==
  ASSUME FewRequests
  PROVE  Spec => [](Typed /\ SqnInv)
<1>1. Typed /\ Handling /\ SqnInv /\ [Next]_vars => SqnInv'
  BY NextSqn
<1> QED
  BY <1>1, InitSqn, Invariance, PTL DEF Spec

(* Without two vectors of the subscriber generated at the same time and    *)
(* without a resynchronisation of one of its UEs, no sequence number is    *)
(* used for two vectors, although a write may be refused, its answer lost  *)
(* and the process restarted: as long as there are fewer requests than     *)
(* numbers (updateSqnInUdr).  performResync sets the number back to what   *)
(* the UE has seen, so that numbers are used again without an overlap.     *)
THEOREM ReuseNeedsOverlapOrResync ==
  ASSUME FewRequests
  PROVE  Spec => []SqnReuseNeedsOverlapOrResync
<1>1. SqnInv => SqnReuseNeedsOverlapOrResync
  BY DEF SqnInv, InTurn, VectorsDiffer, SqnReuseNeedsOverlapOrResync
<1> QED
  BY <1>1, SqnInvariance, PTL

(* The number the UDR hands out next was not used for any vector of the    *)
(* subscriber, on the same conditions: no overlap and no resynchronisation *)
(* so far.                                                                 *)
THEOREM NextSqnIsUnusedUntilResync ==
  ASSUME FewRequests
  PROVE  Spec => []UdrSqnIsUnusedUntilResync
<1>1. Typed /\ SqnInv => UdrSqnIsUnusedUntilResync
  <2> SUFFICES ASSUME Typed, SqnInv, NEW s \in Supis \ overlapped, InSync(s), NEW r \in Vectors(s)
               PROVE  udrSqn[s] # sqn[r]
    BY DEF UdrSqnIsUnusedUntilResync
  <2>1. Ahead(udrSqn[s], sqn[r]) >= 1 /\ udrSqn[s] \in Sqns
    BY SqnTypes DEF SqnInv, InTurn, VectorsAreBehind
  <2>2. Ahead(udrSqn[s], udrSqn[s]) = 0
    BY <2>1, SuccessorIsOneAhead
  <2> QED
    BY <2>1, <2>2
<1> QED
  BY <1>1, SqnInvariance, PTL
=============================================================================
