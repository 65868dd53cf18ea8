---------------------------- MODULE NfLifecycle ----------------------------
(***************************************************************************)
(* The life of the UDM as a network function (service/init.go,             *)
(* consumer/nf_management.go): goroutines that receive configurations, the *)
(* goroutine RegisterNF that registers the NF at the NRF after each of     *)
(* them, keep-alive timers whose callback UpdateNF sends a heartbeat and   *)
(* registers again when it fails, and the shutdown.                        *)
(*                                                                         *)
(* UpdateNF holds KeepAliveTimerMutex across its calls to the NRF;         *)
(* StartKeepAliveTimer takes it for an instant.  RegisterNF sends without  *)
(* it.  A timer is a slot here: one that UpdateNF creates takes the slot   *)
(* of the timer whose callback it is.                                      *)
(***************************************************************************)
EXTENDS Naturals, FiniteSets

CONSTANTS
  Plmns,        \* the networks a configuration may name
  Configured,   \* those that the configuration file names
  Streams,      \* bound: the updateConfig goroutines, one per connection
  Timers,       \* bound: the timers that exist at the same time
  RegisterNF,   \* the goroutine of that name
  MaxMessages,  \* bound: the configurations received
  Faults,       \* may answers of the NRF be lost, or the NRF forget the NF?
  None

Callers == Timers \cup {RegisterNF}

ASSUME NfAssumption ==
  /\ None \notin Callers \cup Streams
  /\ RegisterNF \notin Timers
  /\ Configured \subseteq Plmns
  /\ IsFiniteSet(Timers)
  /\ MaxMessages \in Nat
  /\ MaxMessages <= Cardinality(Timers)
  /\ Faults \in BOOLEAN

VARIABLES
  plmns,        \* self.PlmnList
  managed,      \* MANAGED_BY_CONFIG_POD
  current,      \* the stream of manageGrpcClient's connection
  stream,       \* where an updateConfig goroutine is
  grown,        \* the PlmnList it is about to store, None if it has none
  minConfig,    \* its local variable
  messages,     \* how many configurations have been received
  main,         \* where RegisterNF is
  keepAlive,    \* KeepAliveTimer
  timer,        \* a timer, or how far its callback has got
  profile,      \* the PLMNs of the profile a caller is registering
  putId,        \* the NF id it does so under
  nfId,         \* self.NfId, "" when it is empty
  nrf,          \* what the NRF has: the PLMNs of the NF's profile
  shown,        \* history: the PLMNs the NRF has had
  phase         \* starting, running, leaving or exited

configVars == <<plmns, managed, current, stream, grown, minConfig, messages>>
callVars == <<profile, putId>>
nrfVars == <<nrf, shown>>
vars == <<configVars, main, keepAlive, timer, callVars, nfId, nrfVars, phase>>

TypeOK ==
  /\ plmns \in SUBSET Plmns
  /\ managed \in BOOLEAN
  /\ current \in Streams \cup {None}
  /\ stream \in [Streams -> {"off", "receive", "store", "send"}]
  /\ grown \in [Streams -> (SUBSET Plmns) \cup {None}]
  /\ minConfig \in [Streams -> BOOLEAN]
  /\ messages \in 0..MaxMessages
  /\ main \in {"range", "register", "start"}
  /\ keepAlive \in Timers \cup {None}
  /\ timer \in [Timers -> {"free", "armed", "elapsed", "update", "register"}]
  /\ profile \in [Callers -> SUBSET Plmns]
  /\ putId \in [Callers -> {"id", ""}]
  /\ nfId \in {"id", ""}
  /\ nrf \in (SUBSET Plmns) \cup {None}
  /\ shown \in SUBSET Plmns
  /\ phase \in {"starting", "running", "leaving", "exited"}

(* Initialize: without a configuration server one goroutine sends a single *)
(* trigger.                                                                *)
Init ==
  /\ plmns = {}
  /\ managed \in BOOLEAN
  /\ current = None
  /\ \/ managed /\ stream = [k \in Streams |-> "off"]
     \/ ~ managed /\ \E k \in Streams :
          stream = [j \in Streams |-> IF j = k THEN "send" ELSE "off"]
  /\ grown = [k \in Streams |-> None]
  /\ minConfig = [k \in Streams |-> FALSE]
  /\ messages = 0
  /\ main = "range"
  /\ keepAlive = None
  /\ timer = [t \in Timers |-> "free"]
  /\ profile = [c \in Callers |-> {}]
  /\ putId = [c \in Callers |-> ""]
  /\ nfId = ""
  /\ nrf = None
  /\ shown = {}
  /\ phase = "starting"

Up == phase # "exited"

Locked == \E t \in Timers : timer[t] \in {"update", "register"}

(* Start: InitUDMContext chooses an NF id and sets PlmnList, whatever an    *)
(* updateConfig that was quicker has put there.  Then RegisterNF runs.     *)
InitUDMContext ==
  /\ phase = "starting"
  /\ phase' = "running"
  /\ plmns' = Configured
  /\ nfId' = "id"
  /\ UNCHANGED <<managed, current, stream, grown, minConfig, messages, main, keepAlive,
                 timer, callVars, nrfVars>>

-----------------------------------------------------------------------------
(***************************************************************************)
(* The configuration: manageGrpcClient and updateConfig.                   *)
(***************************************************************************)

(* ensureConfigSubscription on a new connection: a new goroutine, with a   *)
(* minConfig of its own.                                                   *)
EnsureConfigSubscription(k) ==
  /\ Up
  /\ managed
  /\ current = None
  /\ stream[k] = "off"
  /\ current' = k
  /\ stream' = [stream EXCEPT ![k] = "receive"]
  /\ UNCHANGED <<plmns, managed, grown, minConfig, messages, main, keepAlive, timer,
                 callVars, nfId, nrfVars, phase>>

(* checkClientHealth after too many failures: the client is dropped, the   *)
(* goroutine of its stream stays where it is.                              *)
CheckClientHealth ==
  /\ Up
  /\ current # None
  /\ current' = None
  /\ UNCHANGED <<plmns, managed, stream, grown, minConfig, messages, main, keepAlive, timer,
                 callVars, nfId, nrfVars, phase>>

(* Mutant: only the first configuration is passed on.                      *)
TriggersOnce(k, hasPlmns) == ~ minConfig[k] /\ hasPlmns

(* updateConfigTriggerState: is RegisterNF told?                           *)
Triggers(k, hasPlmns) == minConfig[k] \/ hasPlmns

(* updateConfig, one response: addPlmnFromSlice reads PlmnList and makes a *)
(* longer one if a PLMN is new.  None is ever removed, but nothing holds   *)
(* off the goroutine of another stream or InitUDMContext until the list is *)
(* stored.  The reads and stores of one response are one of each here.     *)
ReceiveConfig(k) ==
  /\ Up
  /\ current = k
  /\ stream[k] = "receive"
  /\ messages < MaxMessages
  /\ messages' = messages + 1
  /\ \E slices \in SUBSET Plmns :
       grown' = [grown EXCEPT ![k] = IF slices \subseteq plmns THEN None ELSE plmns \cup slices]
  /\ stream' = [stream EXCEPT ![k] = "store"]
  /\ UNCHANGED <<plmns, managed, current, minConfig, main, keepAlive, timer, callVars, nfId,
                 nrfVars, phase>>

(* The store, and the trigger.  RegisterNF does not look at the value that *)
(* is sent.                                                                *)
UpdateConfig(k) ==
  /\ Up
  /\ stream[k] = "store"
  /\ plmns' = IF grown[k] = None THEN plmns ELSE grown[k]
  /\ grown' = [grown EXCEPT ![k] = None]
  /\ minConfig' = [minConfig EXCEPT ![k] = plmns' # {}]
  /\ stream' = [stream EXCEPT ![k] = IF Triggers(k, plmns' # {}) THEN "send" ELSE "receive"]
  /\ UNCHANGED <<managed, current, messages, main, keepAlive, timer, callVars, nfId, nrfVars,
                 phase>>

-----------------------------------------------------------------------------
(***************************************************************************)
(* Registration at the NRF.                                                *)
(***************************************************************************)

(* BuildNFInstance, and the arguments of SendRegisterNFInstance, which its *)
(* loop does not read again.                                               *)
BuildNFInstance(c) ==
  /\ profile' = [profile EXCEPT ![c] = plmns]
  /\ putId' = [putId EXCEPT ![c] = nfId]

NrfTakes(p) == nrf' = p /\ shown' = shown \cup p

(* Mutant: without a Location the id is a missing value.                   *)
SendRegisterWithoutLocation(c) ==
  /\ putId[c] # ""
  /\ NrfTakes(profile[c])
  /\ \/ nfId' = putId[c]
     \/ nrf # None /\ nfId' = None

(* One attempt of SendRegisterNFInstance that is answered.  A 201 carries  *)
(* the id in its Location; after a 200 the id that is returned, and        *)
(* assigned, is empty.  The NRF creates an NF it does not have, and has no *)
(* resource for an empty id: such a call, like a failing one, is repeated. *)
SendRegisterNFInstance(c) ==
  /\ putId[c] # ""
  /\ NrfTakes(profile[c])
  /\ \/ nfId' = putId[c]
     \/ nrf # None /\ nfId' = ""

(* for msg := range ConfigPodTrigger: the channel has no buffer, so the    *)
(* sender goes on when RegisterNF receives.                                *)
ReceiveTrigger(k) ==
  /\ phase \in {"running", "leaving"}
  /\ main = "range"
  /\ stream[k] = "send"
  /\ stream' = [stream EXCEPT ![k] = "receive"]
  /\ main' = "register"
  /\ BuildNFInstance(RegisterNF)
  /\ UNCHANGED <<plmns, managed, current, grown, minConfig, messages, keepAlive, timer,
                 nfId, nrfVars, phase>>

Register ==
  /\ Up
  /\ main = "register"
  /\ SendRegisterNFInstance(RegisterNF)
  /\ main' = "start"
  /\ UNCHANGED <<configVars, keepAlive, timer, callVars, phase>>

(* StartKeepAliveTimer: StopKeepAliveTimer stops the timer KeepAliveTimer  *)
(* points to unless it has elapsed, and a new one takes its place.         *)
StartKeepAliveTimer ==
  /\ Up
  /\ main = "start"
  /\ ~ Locked
  /\ \E t \in Timers :
       /\ timer[t] = "free" \/ (t = keepAlive /\ timer[t] = "armed")
       /\ keepAlive' = t
       /\ timer' = [u \in Timers |->
                      IF u = t THEN "armed"
                      ELSE IF u = keepAlive /\ timer[u] = "armed" THEN "free"
                      ELSE timer[u]]
  /\ main' = "range"
  /\ UNCHANGED <<configVars, callVars, nfId, nrfVars, phase>>

-----------------------------------------------------------------------------
(***************************************************************************)
(* The heartbeat: UpdateNF as the callback of timer t.                     *)
(***************************************************************************)
Elapse(t) ==
  /\ Up
  /\ timer[t] = "armed"
  /\ timer' = [timer EXCEPT ![t] = "elapsed"]
  /\ UNCHANGED <<configVars, main, keepAlive, callVars, nfId, nrfVars, phase>>

(* KeepAliveTimerMutex.Lock(), and the test for a timer that was stopped.  *)
UpdateNF(t) ==
  /\ Up
  /\ timer[t] = "elapsed"
  /\ ~ Locked
  /\ timer' = [timer EXCEPT ![t] = IF keepAlive = None THEN "free" ELSE "update"]
  /\ UNCHANGED <<configVars, main, keepAlive, callVars, nfId, nrfVars, phase>>

(* The end of UpdateNF: KeepAliveTimer is overwritten, whatever it is.     *)
RestartTimer(t) ==
  /\ timer' = [timer EXCEPT ![t] = "armed"]
  /\ keepAlive' = t

(* Mutant: a problem that needs no registration ends the heartbeat.        *)
SendUpdateOrGiveUp(t) ==
  /\ Up
  /\ timer[t] = "update"
  /\ \/ nfId # "" /\ nrf # None /\ RestartTimer(t) /\ UNCHANGED callVars
     \/ timer' = [timer EXCEPT ![t] = "free"] /\ UNCHANGED <<keepAlive, callVars>>
  /\ UNCHANGED <<configVars, main, nfId, nrfVars, phase>>

(* Mutant: a failed heartbeat is repeated, as a failed registration is.    *)
SendUpdateUntilTaken(t) ==
  /\ Up
  /\ timer[t] = "update"
  /\ nfId # "" /\ nrf # None
  /\ RestartTimer(t)
  /\ UNCHANGED <<configVars, main, callVars, nfId, nrfVars, phase>>

(* SendUpdateNFInstance: an NRF that knows the NF takes the heartbeat, or  *)
(* refuses it with a problem that UpdateNF ignores, and the timer is       *)
(* restarted.  If it does not (404), fails (5xx) or its answer is lost,    *)
(* UpdateNF registers again with a new profile.  A status for which the    *)
(* client decodes no problem (nf_management.go:148) is a panic in the      *)
(* timer's goroutine, and the end of the process.                          *)
SendUpdateNFInstance(t) ==
  /\ Up
  /\ timer[t] = "update"
  /\ \/ /\ nfId # "" /\ nrf # None
        /\ RestartTimer(t)
        /\ UNCHANGED <<callVars, phase>>
     \/ /\ nfId = "" \/ nrf = None \/ Faults
        /\ BuildNFInstance(t)
        /\ timer' = [timer EXCEPT ![t] = "register"]
        /\ UNCHANGED <<keepAlive, phase>>
     \/ /\ Faults
        /\ phase' = "exited"
        /\ UNCHANGED <<keepAlive, timer, callVars>>
  /\ UNCHANGED <<configVars, main, nfId, nrfVars>>

(* BuildAndSendRegisterNFInstance.                                         *)
RegisterAgain(t) ==
  /\ Up
  /\ timer[t] = "register"
  /\ SendRegisterNFInstance(t)
  /\ RestartTimer(t)
  /\ UNCHANGED <<configVars, main, callVars, phase>>

-----------------------------------------------------------------------------
Registering ==
  {t \in Timers : timer[t] = "register"} \cup {c \in {RegisterNF} : main = "register"}

(* An attempt that the NRF carries out and whose answer is lost.           *)
LoseAnswer(c) ==
  /\ Faults
  /\ Up
  /\ c \in Registering
  /\ putId[c] # ""
  /\ NrfTakes(profile[c])
  /\ UNCHANGED <<configVars, main, keepAlive, timer, callVars, nfId, phase>>

(* The NRF is restarted, or gives the NF up for want of heartbeats.        *)
NrfForgets ==
  /\ Faults
  /\ Up
  /\ nrf' = None
  /\ UNCHANGED <<configVars, main, keepAlive, timer, callVars, nfId, shown, phase>>

(* Terminate on a signal; the other goroutines go on until os.Exit.        *)
Terminate ==
  /\ phase = "running"
  /\ phase' = "leaving"
  /\ \/ nfId # "" /\ nrf' = None
     \/ (nfId = "" \/ Faults) /\ UNCHANGED nrf
  /\ UNCHANGED <<configVars, main, keepAlive, timer, callVars, nfId, shown>>

Exit ==
  /\ phase = "leaving"
  /\ phase' = "exited"
  /\ UNCHANGED <<configVars, main, keepAlive, timer, callVars, nfId, nrfVars>>

Heartbeat(t) == UpdateNF(t) \/ SendUpdateNFInstance(t) \/ RegisterAgain(t)

Next ==
  \/ InitUDMContext
  \/ \E k \in Streams :
       \/ EnsureConfigSubscription(k) \/ ReceiveConfig(k) \/ UpdateConfig(k)
       \/ ReceiveTrigger(k)
  \/ CheckClientHealth
  \/ Register \/ StartKeepAliveTimer
  \/ \E t \in Timers : Elapse(t) \/ Heartbeat(t)
  \/ \E c \in Callers : LoseAnswer(c)
  \/ NrfForgets \/ Terminate \/ Exit

Spec == Init /\ [][Next]_vars

(* A call to the NRF that is repeated for ever is answered at last, a timer *)
(* elapses, and a goroutine that can run does.  Go's channels and mutexes  *)
(* serve those who wait in turn, which makes their fairness strong.        *)
FairSpec ==
  /\ Spec
  /\ WF_vars(InitUDMContext) /\ WF_vars(Register) /\ WF_vars(Exit)
  /\ SF_vars(StartKeepAliveTimer)
  /\ \A k \in Streams : SF_vars(ReceiveTrigger(k))
  /\ \A t \in Timers :
       /\ WF_vars(Elapse(t))
       /\ SF_vars(UpdateNF(t))
       /\ WF_vars(SendUpdateNFInstance(t) \/ RegisterAgain(t))

-----------------------------------------------------------------------------
(***************************************************************************)
(* Properties.                                                             *)
(***************************************************************************)

(* Once there is a keep-alive timer, no step leaves KeepAliveTimer empty,  *)
(* or pointing to a timer that was stopped or whose callback returned      *)
(* without setting another, however UpdateNF, RegisterNF and failures of   *)
(* the NRF interleave.  A callback may stay in its call to the NRF.        *)
HeartbeatIsNotDropped ==
  [][keepAlive # None => keepAlive' # None /\ timer'[keepAlive'] # "free"]_vars

(* self.NfId is empty, or a registration is repeated under an empty id.    *)
NfIdIsLost == nfId = "" \/ \E c \in Registering : putId[c] = ""

(* Once there is a keep-alive timer, KeepAliveTimer is armed again and     *)
(* again, unless the UDM ends or has lost its NF id: the callback that     *)
(* repeats its call under an empty id sets no timer any more.              *)
HeartbeatGoesOn ==
  keepAlive # None
    ~> (keepAlive # None /\ timer[keepAlive] = "armed") \/ NfIdIsLost \/ phase = "exited"

(* Each PLMN in PlmnList reaches the NRF once there is a configuration to  *)
(* register, unless the UDM ends, has lost its NF id to a 200, or loses    *)
(* the PLMN to another goroutine's store: RegisterNF, the heartbeats and   *)
(* the NRF may delay each other but not for ever.                          *)
ConfigurationIsRegistered ==
  \A p \in Plmns :
    phase # "starting" /\ (~ managed \/ \E k \in Streams : minConfig[k]) /\ p \in plmns
      ~> p \in shown \/ p \notin plmns \/ NfIdIsLost \/ phase = "exited"

(* "Restart timer" (init.go:506): one timer is set at a time.              *)
OneTimerIsArmed == Cardinality({t \in Timers : timer[t] = "armed"}) <= 1
=============================================================================
