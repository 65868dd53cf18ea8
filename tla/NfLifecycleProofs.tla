-------------------------- MODULE NfLifecycleProofs --------------------------
(***************************************************************************)
(* Theorems about NfLifecycle, for any number of streams, timers and       *)
(* messages: its type correctness, and that the heartbeat is not dropped.  *)
(***************************************************************************)
EXTENDS NfLifecycle, TLAPS

(* KeepAliveTimer points to a timer that exists.                           *)
KeepAliveExists == keepAlive # None => timer[keepAlive] # "free"

Inv == TypeOK /\ KeepAliveExists

(* The variables that Inv speaks of and a step leaves alone.               *)
LEMMA StutterKeepsInv ==
  ASSUME Inv, UNCHANGED vars
  PROVE  Inv'
BY DEF Inv, TypeOK, KeepAliveExists, vars, configVars, callVars, nrfVars

LEMMA InitEstablishesInv == ASSUME Init PROVE Inv
<1>1. TypeOK
  <2>1. stream \in [Streams -> {"off", "receive", "store", "send"}]
    BY DEF Init
  <2>2. messages \in 0..MaxMessages
    <3>1. messages = 0
      BY DEF Init
    <3>2. MaxMessages \in Nat
      BY NfAssumption
    <3>3. QED
      BY <3>1, <3>2
  <2>3. managed \in BOOLEAN
    BY DEF Init
  <2>4. QED
    BY <2>1, <2>2, <2>3 DEF Init, TypeOK
<1>2. KeepAliveExists
  BY DEF Init, KeepAliveExists
<1>3. QED
  BY <1>1, <1>2 DEF Inv

-----------------------------------------------------------------------------
(* The configuration and the shutdown touch neither timers nor calls.      *)
LEMMA ConfigKeepsInv ==
  ASSUME Inv,
         \/ InitUDMContext \/ CheckClientHealth
         \/ \E k \in Streams :
              EnsureConfigSubscription(k) \/ ReceiveConfig(k) \/ UpdateConfig(k)
  PROVE  Inv'
<1>1. TypeOK /\ KeepAliveExists
  BY DEF Inv
<1>2. UNCHANGED <<main, keepAlive, timer, callVars, nrfVars>>
  BY DEF InitUDMContext, EnsureConfigSubscription, CheckClientHealth, ReceiveConfig, UpdateConfig
<1>3. KeepAliveExists'
  BY <1>1, <1>2 DEF KeepAliveExists
<1>4. TypeOK'
  <2>1. CASE InitUDMContext
    BY <1>1, <1>2, <2>1, NfAssumption DEF InitUDMContext, TypeOK, callVars, nrfVars
  <2>2. ASSUME NEW k \in Streams, EnsureConfigSubscription(k) PROVE TypeOK'
    BY <1>1, <1>2, <2>2 DEF EnsureConfigSubscription, TypeOK, callVars, nrfVars
  <2>3. CASE CheckClientHealth
    BY <1>1, <1>2, <2>3 DEF CheckClientHealth, TypeOK, callVars, nrfVars
  <2>4. ASSUME NEW k \in Streams, ReceiveConfig(k) PROVE TypeOK'
    <3>1. messages' \in 0..MaxMessages
      <4>1. messages \in 0..MaxMessages /\ messages < MaxMessages /\ messages' = messages + 1
        BY <1>1, <2>4 DEF ReceiveConfig, TypeOK
      <4>2. MaxMessages \in Nat
        BY NfAssumption
      <4>3. QED
        BY <4>1, <4>2
    <3>2. grown' \in [Streams -> (SUBSET Plmns) \cup {None}]
      <4>1. PICK slices \in SUBSET Plmns :
              grown' = [grown EXCEPT ![k] = IF slices \subseteq plmns THEN None
                                            ELSE plmns \cup slices]
        BY <2>4 DEF ReceiveConfig
      <4>2. plmns \cup slices \in SUBSET Plmns
        BY <1>1 DEF TypeOK
      <4>3. QED
        BY <1>1, <4>1, <4>2 DEF TypeOK
    <3>3. stream' \in [Streams -> {"off", "receive", "store", "send"}]
      BY <1>1, <2>4 DEF ReceiveConfig, TypeOK
    <3>4. QED
      BY <1>1, <1>2, <2>4, <3>1, <3>2, <3>3 DEF ReceiveConfig, TypeOK, callVars, nrfVars
  <2>5. ASSUME NEW k \in Streams, UpdateConfig(k) PROVE TypeOK'
    <3>1. plmns' \in SUBSET Plmns
      <4>1. plmns' = IF grown[k] = None THEN plmns ELSE grown[k]
        BY <2>5 DEF UpdateConfig
      <4>2. plmns \in SUBSET Plmns /\ grown[k] \in (SUBSET Plmns) \cup {None}
        BY <1>1 DEF TypeOK
      <4>3. QED
        BY <4>1, <4>2
    <3>2. /\ minConfig' \in [Streams -> BOOLEAN]
          /\ stream' \in [Streams -> {"off", "receive", "store", "send"}]
          /\ grown' \in [Streams -> (SUBSET Plmns) \cup {None}]
      BY <1>1, <2>5 DEF UpdateConfig, TypeOK
    <3>3. UNCHANGED <<managed, current, messages, main, keepAlive, timer, callVars, nfId,
                      nrfVars, phase>>
      BY <2>5 DEF UpdateConfig
    <3>4. QED
      BY <1>1, <3>1, <3>2, <3>3 DEF TypeOK, callVars, nrfVars
  <2>6. QED
    BY <2>1, <2>2, <2>3, <2>4, <2>5
<1>5. QED
  BY <1>3, <1>4 DEF Inv

(* What the calls of SendRegisterNFInstance leave behind.                  *)
LEMMA BuildTypes ==
  ASSUME TypeOK, NEW c \in Callers, BuildNFInstance(c)
  PROVE  /\ profile' \in [Callers -> SUBSET Plmns]
         /\ putId' \in [Callers -> {"id", ""}]
BY DEF TypeOK, BuildNFInstance

LEMMA SendTypes ==
  ASSUME TypeOK, NEW c \in Callers, SendRegisterNFInstance(c)
  PROVE  /\ nfId' \in {"id", ""}
         /\ nrf' \in (SUBSET Plmns) \cup {None}
         /\ shown' \in SUBSET Plmns
BY DEF TypeOK, SendRegisterNFInstance, NrfTakes

(* RegisterNF: a new timer takes the place of the one it stops.            *)
LEMMA RegisterNFKeepsInv ==
  ASSUME Inv, (\E k \in Streams : ReceiveTrigger(k)) \/ Register \/ StartKeepAliveTimer
  PROVE  Inv'
<1>1. TypeOK /\ KeepAliveExists
  BY DEF Inv
<1>2. RegisterNF \in Callers
  BY DEF Callers
<1>3. ASSUME NEW k \in Streams, ReceiveTrigger(k) PROVE Inv'
  <2>1. TypeOK'
    <3>1. BuildNFInstance(RegisterNF) \/ UNCHANGED callVars
      BY <1>3 DEF ReceiveTrigger
    <3>2. profile' \in [Callers -> SUBSET Plmns] /\ putId' \in [Callers -> {"id", ""}]
      BY <1>1, <1>2, <3>1, BuildTypes DEF TypeOK, callVars
    <3>3. stream' \in [Streams -> {"off", "receive", "store", "send"}]
          /\ main' \in {"range", "register", "start"}
      BY <1>1, <1>3 DEF ReceiveTrigger, TypeOK
    <3>4. UNCHANGED <<plmns, managed, current, grown, minConfig, messages, keepAlive, timer,
                      nfId, nrfVars, phase>>
      BY <1>3 DEF ReceiveTrigger
    <3>5. QED
      BY <1>1, <3>2, <3>3, <3>4 DEF TypeOK, nrfVars
  <2>2. QED
    BY <1>1, <1>3, <2>1 DEF ReceiveTrigger, Inv, KeepAliveExists
<1>4. CASE Register
  <2>1. TypeOK'
    <3>1. /\ nfId' \in {"id", ""}
          /\ nrf' \in (SUBSET Plmns) \cup {None}
          /\ shown' \in SUBSET Plmns
      BY <1>1, <1>2, <1>4, SendTypes DEF Register
    <3>2. main' = "start" /\ UNCHANGED <<configVars, keepAlive, timer, callVars, phase>>
      BY <1>4 DEF Register
    <3>3. QED
      BY <1>1, <3>1, <3>2 DEF TypeOK, configVars, callVars
  <2>2. QED
    BY <1>1, <1>4, <2>1 DEF Register, Inv, KeepAliveExists
<1>5. CASE StartKeepAliveTimer
  <2>1. TypeOK'
    <3>1. /\ timer' \in [Timers -> {"free", "armed", "elapsed", "update", "register"}]
          /\ keepAlive' \in Timers \cup {None}
      <4>1. timer \in [Timers -> {"free", "armed", "elapsed", "update", "register"}]
        BY <1>1 DEF TypeOK
      <4>2. PICK t \in Timers :
              /\ keepAlive' = t
              /\ timer' = [u \in Timers |->
                             IF u = t THEN "armed"
                             ELSE IF u = keepAlive /\ timer[u] = "armed" THEN "free"
                             ELSE timer[u]]
        BY <1>5 DEF StartKeepAliveTimer
      <4>3. QED
        BY <4>1, <4>2
    <3>2. main' = "range" /\ UNCHANGED <<configVars, callVars, nfId, nrfVars, phase>>
      BY <1>5 DEF StartKeepAliveTimer
    <3>3. QED
      BY <1>1, <3>1, <3>2 DEF TypeOK, configVars, callVars, nrfVars
  <2>2. KeepAliveExists'
    BY <1>1, <1>5 DEF StartKeepAliveTimer, TypeOK, KeepAliveExists
  <2>3. QED
    BY <2>1, <2>2 DEF Inv
<1>6. QED
  BY <1>3, <1>4, <1>5

(* The callback of a timer: it ends by setting a timer, or leaves           *)
(* KeepAliveTimer to the one that replaced it.                             *)
LEMMA HeartbeatKeepsInv ==
  ASSUME Inv, NEW t \in Timers, Elapse(t) \/ Heartbeat(t)
  PROVE  Inv'
<1>1. TypeOK /\ KeepAliveExists
  BY DEF Inv
<1>2. t \in Callers
  BY DEF Callers
<1>3. CASE Elapse(t)
  BY <1>1, <1>3 DEF Elapse, Inv, TypeOK, KeepAliveExists, configVars, callVars, nrfVars
<1>4. CASE UpdateNF(t)
  <2>1. timer' \in [Timers -> {"free", "armed", "elapsed", "update", "register"}]
    BY <1>1, <1>4 DEF UpdateNF, TypeOK
  <2>2. TypeOK'
    BY <1>1, <1>4, <2>1 DEF UpdateNF, TypeOK, configVars, callVars, nrfVars
  <2>3. KeepAliveExists'
    BY <1>1, <1>4 DEF UpdateNF, TypeOK, KeepAliveExists
  <2>4. QED
    BY <2>2, <2>3 DEF Inv
<1>5. CASE SendUpdateNFInstance(t)
  <2>1. TypeOK'
    <3>1. CASE RestartTimer(t) /\ UNCHANGED <<callVars, phase>>
      BY <1>1, <1>5, <3>1 DEF SendUpdateNFInstance, RestartTimer, TypeOK, configVars, callVars, nrfVars
    <3>2. CASE /\ BuildNFInstance(t)
               /\ timer' = [timer EXCEPT ![t] = "register"]
               /\ UNCHANGED <<keepAlive, phase>>
      <4>1. /\ profile' \in [Callers -> SUBSET Plmns]
            /\ putId' \in [Callers -> {"id", ""}]
        BY <1>1, <1>2, <3>2, BuildTypes
      <4>2. QED
        BY <1>1, <1>5, <3>2, <4>1 DEF SendUpdateNFInstance, TypeOK, configVars, nrfVars
    <3>3. CASE phase' = "exited" /\ UNCHANGED <<keepAlive, timer, callVars>>
      BY <1>1, <1>5, <3>3 DEF SendUpdateNFInstance, TypeOK, configVars, callVars, nrfVars
    <3>4. QED
      BY <1>5, <3>1, <3>2, <3>3 DEF SendUpdateNFInstance
  <2>2. KeepAliveExists'
    <3>1. /\ timer \in [Timers -> {"free", "armed", "elapsed", "update", "register"}]
          /\ keepAlive \in Timers \cup {None}
      BY <1>1 DEF TypeOK
    <3>2. \/ RestartTimer(t)
          \/ timer' = [timer EXCEPT ![t] = "register"] /\ UNCHANGED keepAlive
          \/ UNCHANGED <<keepAlive, timer>>
      BY <1>5 DEF SendUpdateNFInstance
    <3>3. QED
      BY <1>1, <3>1, <3>2 DEF RestartTimer, KeepAliveExists
  <2>3. QED
    BY <2>1, <2>2 DEF Inv
<1>6. CASE RegisterAgain(t)
  <2>1. TypeOK'
    BY <1>1, <1>2, <1>6, SendTypes DEF RegisterAgain, RestartTimer, TypeOK, configVars, callVars
  <2>2. KeepAliveExists'
    BY <1>1, <1>6 DEF RegisterAgain, RestartTimer, TypeOK, KeepAliveExists
  <2>3. QED
    BY <2>1, <2>2 DEF Inv
<1>7. QED
  BY <1>3, <1>4, <1>5, <1>6 DEF Heartbeat

(* What the NRF does by itself, and the end of the process.                *)
LEMMA OutsideKeepsInv ==
  ASSUME Inv, (\E c \in Callers : LoseAnswer(c)) \/ NrfForgets \/ Terminate \/ Exit
  PROVE  Inv'
<1>1. TypeOK /\ KeepAliveExists
  BY DEF Inv
<1>2. ASSUME NEW c \in Callers, LoseAnswer(c) PROVE Inv'
  BY <1>1, <1>2 DEF LoseAnswer, NrfTakes, Inv, TypeOK, KeepAliveExists, configVars, callVars
<1>3. CASE NrfForgets
  BY <1>1, <1>3 DEF NrfForgets, Inv, TypeOK, KeepAliveExists, configVars, callVars
<1>4. CASE Terminate
  BY <1>1, <1>4 DEF Terminate, Inv, TypeOK, KeepAliveExists, configVars, callVars
<1>5. CASE Exit
  BY <1>1, <1>5 DEF Exit, Inv, TypeOK, KeepAliveExists, configVars, callVars, nrfVars
<1>6. QED
  BY <1>2, <1>3, <1>4, <1>5

LEMMA StepKeepsInv == Inv /\ [Next]_vars => Inv'
<1> SUFFICES ASSUME Inv, [Next]_vars PROVE Inv'
  OBVIOUS
<1>1. CASE UNCHANGED vars
  BY <1>1, StutterKeepsInv
<1>2. CASE \/ InitUDMContext \/ CheckClientHealth
           \/ \E k \in Streams :
                EnsureConfigSubscription(k) \/ ReceiveConfig(k) \/ UpdateConfig(k)
  BY <1>2, ConfigKeepsInv
<1>3. CASE (\E k \in Streams : ReceiveTrigger(k)) \/ Register \/ StartKeepAliveTimer
  BY <1>3, RegisterNFKeepsInv
<1>4. ASSUME NEW t \in Timers, Elapse(t) \/ Heartbeat(t) PROVE Inv'
  BY <1>4, HeartbeatKeepsInv
<1>5. CASE (\E c \in Callers : LoseAnswer(c)) \/ NrfForgets \/ Terminate \/ Exit
  BY <1>5, OutsideKeepsInv
<1>6. QED
  BY <1>1, <1>2, <1>3, <1>4, <1>5 DEF Next

LEMMA InvIsInvariant == Spec => []Inv
<1>1. Init => Inv
  BY InitEstablishesInv
<1>2. QED
  BY <1>1, StepKeepsInv, PTL DEF Spec

-----------------------------------------------------------------------------
(* Every variable of the life cycle keeps its type.                        *)
THEOREM TypeCorrect == Spec => []TypeOK
<1>1. Inv => TypeOK
  BY DEF Inv
<1>2. QED
  BY <1>1, InvIsInvariant, PTL

(* Once KeepAliveTimer is set, no step leaves it empty or pointing to a    *)
(* timer that was stopped or whose callback returned without setting       *)
(* another, whatever UpdateNF, StartKeepAliveTimer and the NRF do.         *)
THEOREM HeartbeatContinues == Spec => HeartbeatIsNotDropped
<1>1. Inv /\ Inv' /\ [Next]_vars =>
        [keepAlive # None => keepAlive' # None /\ timer'[keepAlive'] # "free"]_vars
  <2> SUFFICES ASSUME Inv, Inv', Next, keepAlive # None
               PROVE  keepAlive' # None
    BY DEF Inv, KeepAliveExists
  <2>1. CASE UNCHANGED keepAlive
    BY <2>1
  <2>2. CASE \E t \in Timers : keepAlive' = t
    BY <2>2, NfAssumption DEF Callers
  <2>3. UNCHANGED keepAlive \/ \E t \in Timers : keepAlive' = t
    BY DEF Next, InitUDMContext, EnsureConfigSubscription, ReceiveConfig, UpdateConfig,
           ReceiveTrigger, CheckClientHealth, Register, StartKeepAliveTimer, Elapse, Heartbeat, UpdateNF,
           SendUpdateNFInstance, RegisterAgain, RestartTimer, LoseAnswer, NrfForgets,
           Terminate, Exit
  <2>4. QED
    BY <2>1, <2>2, <2>3
<1>2. QED
  BY <1>1, InvIsInvariant, StepKeepsInv, PTL DEF Spec, HeartbeatIsNotDropped
=============================================================================
