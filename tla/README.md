# A TLA+ model of the UDM

The repository is the Unified Data Management function of a 5G core, an HTTP
server in Go. It keeps a pool of UE contexts in memory and forwards almost
everything to the Unified Data Repository (UDR), an external service. This
directory models the handlers of that server, and its life as a network
function, as concurrent processes, checks them with TLC, and proves with TLAPS
what the checks found to hold of each of its services, for any number of
subscribers, requests, AMFs, instances and notifications: every safety property
of a passing run, and that the handlers implement an abstract registry of AMFs.

Line numbers refer to `src/`. Every definition that models code is listed with
its lines in `PROJECT.json` under `map`.

## 1. Inventory

### Components, their state and their operations

| component | code | state | operations |
|---|---|---|---|
| UE contexts | `context/context.go` | `UdmUePool` (a `sync.Map` from SUPI to `*UdmUeContext`), the fields of each context, shared data maps, GPSI and subscription id generators | `UdmUeFindBySupi`, `NewUdmUe`, a find-or-create helper per kind of data, setters and getters through pointers |
| UDR client | `producer/ue_context_management.go:35-79` | none | `createUDMClientToUDR`, `getUdrURI` (which creates a context for an unknown SUPI) |
| UE context management, Nudm_UECM | `producer/ue_context_management.go`, `producer/callback/callback.go` | AMF and SMF registrations in the UE context and at the UDR | register, update, read an AMF registration per access; register, deregister an SMF; deregistration notification |
| subscriber data management, Nudm_SDM | `producer/subscriber_data_management.go` | datasets and change subscriptions in the UE context | seven retrievals, subscribe, unsubscribe, modify; the same for shared data; identity translation |
| UE authentication, Nudm_UEAU | `producer/generate_auth_data.go` | the sequence number at the UDR, the last authentication event in the UE context | generate a vector (with resynchronisation), confirm, delete |
| event exposure, Nudm_EE | `producer/event_exposure.go` | subscriptions in every UE context, an id generator | create, update, delete |
| parameter provision, Nudm_PP | `producer/parameter_provision.go` | none | patch at the UDR (`ppUpdate` of `Sdm`) |
| NF lifecycle | `service/init.go`, `consumer/nf_management.go` | keep-alive timer and its mutex, the NF id, the PLMN list, the configuration channel | receive configuration, register at the NRF, heartbeat, deregister |
| NF discovery | `consumer/nf_discovery.go`, `producer/callback.go` | `NfStatusSubscriptions` (a `sync.Map`), the NRF cache | discover and subscribe, react to an NF that is gone |
| pure selections | `util/search_nf_service.go`, helpers of `context.go` | none | service URI, DNN selection, shared data, SUPI among identities |
| data change notification | `producer/callback/callback.go:19-55` | `UdmSubsToNotify`, which nothing fills | forward a notification |
| configuration, API layer, metrics, logging | `factory`, `*/api_*.go`, `*/routers.go`, `metrics`, `logger` | none after start-up | decode, dispatch, count, log |

### How they interact

Every HTTP request is served by a goroutine of its own. A handler looks a
`*UdmUeContext` up in the pool, keeps the pointer in a local variable, assigns
fields through it, calls the NRF to find a UDR, calls the UDR, and answers. No
lock covers any of this: the `sync.Map` makes one look-up or one store atomic,
nothing more. Handlers of all services share the pool; `NewUdmUe` always
allocates and overwrites, so one handler can take a context out of the pool
while others hold pointers to it. `getUdrURI`, called by nearly every handler,
creates contexts as a side effect.

### What is hard

- two handlers between each other's read and write of one field of a context;
- find-or-create in two accesses, the second of which overwrites;
- memory written before the UDR is asked, and not restored on a refusal;
- UDR calls whose effect happens although the answer is lost;
- a restart that empties the pool while the UDR keeps its records;
- a sequence number read and written back in two calls to the UDR;
- number ranges that wrap, at two different moduli;
- a keep-alive timer, a configuration channel and a shutdown that race;
- notifications of the NRF that overtake the subscription they belong to.

`PROJECT.json` lists each of them under `hazards` at its line.

### What makes each component correct

| component | properties |
|---|---|
| UE contexts | a context is filed under its SUPI and holds what was stored for that SUPI |
| UECM | success is only reported for a write the UDR took; deregistration notifications go to an older registration of the same access, in one direction only, and if no AMF registers twice for an access one of them is left untold; memory and UDR agree |
| SDM | a context's subscriptions are ones the UDR took; a retrieval leaves the rest of a context alone |
| UEAU | without overlapping requests and resynchronisations a sequence number is used once and the UDR's next one is unused; a resynchronised one is ahead of the UE's; a deleted event stays deleted |
| NF lifecycle | no step drops the keep-alive timer, and there is one of it; unless the NF id is lost or the process ends, the heartbeat goes on and the NRF learns of each configuration |
| NF discovery | an id in the subscription map is one the NRF has; an instance is subscribed to once; a cached instance is watched, and one that is gone leaves the cache |
| event exposure | a subscription for any UE is in every context, and a deleted one in none |
| pure selections | the URI, the dataset, the SUPI and the handler that are picked are ones that were asked for, outside the cases that section 3 lists |

## 2. Modules

```
UeContext            the pool and the contexts it points to
  Handler            goroutines, find-or-create, the client to the UDR, restart
    HandlerProofs    lemmas about their types, which the proofs below share
    Uecm             Nudm_UECM and the UDR's registrations
      UecmProofs     theorems about Uecm
    Sdm              Nudm_SDM, Nudm_PP, data change notifications, the UDR's
                     subscriptions, the shared data outside the contexts
    Ueau             Nudm_UEAU and the UDR's sequence numbers
      UeauProofs     theorems about Ueau
  Udm                Uecm and Sdm in one process
    UdmProofs        theorems about Udm, from those about Uecm
  EventExposure      Nudm_EE over the pool, while other handlers fill it
    EventExposureProofs  theorems about EventExposure
AmfRegistry          what the UDM promises about AMF registrations (abstract)
NfLifecycle          configuration, registration at the NRF, heartbeat, shutdown
  NfLifecycleProofs  theorems about NfLifecycle
NrfSubscriptions     discovery, its cache, subscriptions to NF instances and
                     the notifications that an instance is gone
  NrfSubscriptionsProofs  theorems about NrfSubscriptions
Selections           the pure functions, each called with bounded arguments
  SelectionsProofs   theorems about Selections, for arguments without bounds
MC...                an instance of the module of that name for TLC
```

### State

- `pool` is `UdmUePool`; `heap` holds the objects that `*UdmUeContext` pointers
  point to. An object is named by the request that allocates it and the place
  in the code where it does (`Sites`). A handler passes each place at most once,
  so names are fresh without a counter.
- A registration, an authentication event or a subscription is named by the
  request that carried it. The code stores `&body`, a pointer to the request's
  own copy, so this is the pointer; its fields are those of `req`.
- `pc`, `req`, `ue`, `answer` are a handler's position, request, local variable
  `ue` and HTTP answer (`crash` is a panic that gin's recovery turns into a 500,
  or a connection that a restart broke).
- `before`, `notified`, `location` (UECM), `fetched` (SDM), `sqn`, `sqnMs`,
  `named` (UEAU) are locals of the handlers that a property speaks of, or that
  survive from one step to the next.
- `udrAmf`, `udrSmf`, `udrSubs`, `udrSqn` are the UDR's records and `accepted`
  a history of the writes it carried out.
- `sharedSubs` and `sharedData` (SDM) are maps of the UDM's context outside the
  pool; `takenShared` is a history of what the other UDM took.
- `overlapped` (UEAU) is a history of the subscribers of whom two handlers had a
  sequence number in hand at once.

`EventExposure` has handlers of its own, because they range over the whole pool:
`visited` are the keys a `sync.Map.Range` has come to, `eeSubscriptions` the map
of each context, `allocated` the ids in use at the generator. All handlers of
the other services are one action, `StoreNewUe`: the only thing they do that
Nudm_EE can see is to put a new context into the pool, in an empty place or over
another one. `present`, `earlier` and `contested` are history.

`NrfSubscriptions` has as processes the calls of `SendSearchNFInstances`, one
per handler that needs the UDR, and the handlers of the NRF's notifications.
They share `nfStatusSubscriptions` and `cache`; `registered`, `live` and `due`
are the NRF's instances, subscriptions and outstanding notifications. A
subscription is named by the discovery that asked for it. The history variables
`refused`, `missed`, `crossed`, `unconfirmed` and `strays` record the faults and
races that the properties except; section 3 says why each exception is needed.

A behaviour of `Selections` is one call of one function with any arguments from
the bounded sets, and its `result`. A string is the sequence of its words, and
`strings.Contains`, by which the code compares, asks for words that follow each
other.

`NfLifecycle` shares nothing with the handlers. Its processes are the
goroutines `updateConfig` of each connection to the configuration server
(`stream`, and the local variable `minConfig`), `RegisterNF` (`main`) and the
callbacks of keep-alive timers. A timer is a slot of `timer`; `free`, `armed`
and `elapsed` are the states of the timer itself, `update` and `register` the
calls of its callback, and a timer that the callback creates takes over its
slot. A goroutine at `store` has computed the `PlmnList` it is going to assign
(`grown`) from the one it has read (`init.go:377-387`): nothing locks the list, so
that the goroutine of a dropped connection may overwrite what that of the new one
has stored. `plmns`, `nfId` and `keepAlive` are the globals `PlmnList`, `NfId` and
`KeepAliveTimer`; `profile` and `putId` are the arguments of a call to
`SendRegisterNFInstance` in progress. `nrf` is what the NRF has of the NF, and
`shown` a history of the PLMNs it has had.

### Steps

One action is one access to the pool, one access through a pointer, or one
network call. That is the granularity at which goroutines interleave: Go gives
no more atomicity than that, and everything between two such accesses touches
local variables only. The order of the steps is the code's order. A step of
`Uecm` such as `CreateAmfRegContext` is the whole of its function from that
access to the next, with the early returns as disjuncts that call `Reply`.

Three pairs of accesses are one step, because their separation cannot be seen:

- the existence test and the read of the old registration
  (`ue_context_management.go:208-211`): if the first finds nothing, the second
  result is not used; if both find something, the read at the second one is the
  one that counts;
- `NewUdmUe` and the setter that follows it in a retrieval (`StoreDataset`): the
  setter changes nothing but the dataset, and which datasets a context has
  decides no branch of any handler. The answer is read back from the context
  (`subscriber_data_management.go:507, 648, 721, 1176, 1270`), so that the
  placeholder of another retrieval, written between the setter and that read, can
  empty it (lines 721 and 1270); what an answer contains is not modelled, and no
  property speaks of it;
- the two reads of `LastAuthenticationEvent` for the existence test in
  `FindAuthenticationEvent`; the comparison that follows is a step of its own.

In `NfLifecycle` a step is likewise one access to shared state or one call to
the NRF. `UpdateNF` holds `KeepAliveTimerMutex` from its first step to its last
(`Locked`); `StartKeepAliveTimer` holds it within one step. The channel
`ConfigPodTrigger` has no buffer, so one step, `ReceiveTrigger`, moves sender and
receiver; its value is not looked at (`init.go:512`), so it is not modelled. A
failing attempt of the endless loop in `SendRegisterNFInstance` changes nothing
and is a stutter; `LoseAnswer` is an attempt that the NRF carried out. The PLMNs
of one configuration are read and compared in one step (`ReceiveConfig`) and
stored in the next (`UpdateConfig`).

In `NrfSubscriptions` each `Load`, `Store` and `Delete` of the `sync.Map`, each
access to the cache and each call to the NRF is a step. The handler of a
notification removes the instance from the cache before anything else; that and
the arrival are one step. In `EventExposure` a step of a `Range` is one key: the
range comes to each key that is in the pool when it begins and may come to
others, as `sync.Map` promises.

### External behaviour

The UDR either carries a call out and answers, carries it out without the
answer arriving (`Faults`), refuses it, or gives an answer without a response
(`Faults`); the last makes several handlers dereference a nil pointer, which is
the `crash` branch of `UdrFails`. The UDR's own semantics, a record per access
of a subscriber that the last write determines, is taken from how the code uses
it and marked external in the map. AMFs are told and nothing depends on their
answer (`callback.go:57-93` logs errors).

The NRF creates the NF it does not have (201, with its id in `Location`) or
replaces it (200, after which the code's id is empty); it has no resource for an
empty id. With `Faults` it may forget the NF, and answers may be lost.

In `NrfSubscriptions` the NRF notifies each subscription to an instance that
leaves, has no subscription `""`, and keeps a subscription until it is removed:
`SendCreateSubscription` gives no validity time. With `Faults` a subscription
may be made although the answer is lost, a removal may be carried out without a
confirmation, and a notification may be lost or sent twice. The NRF cache is a
library; what is used of it is that it answers with what it holds, takes over
the instances of an answer, and evicts.

### Mutants

Operators with a comment that starts with `Mutant:` are faulty versions of the
definition that follows. No specification uses them; each is a bug of the kind
this code could have, and a property of a run fails when it takes the
definition's place (`mutants` in `PROJECT.json`).

## 3. Runs

| run | instance | checks |
|---|---|---|
| `uecm_amf` | 3 AMF registrations at once, 1 UE, 3 AMFs, faults, 1 restart | the invariants of section 4 and `ImplementsRegistry` |
| `uecm_serial` | 4 operations of UECM one after the other, no faults | `MemoryMatchesUdr`, `SupersededIsNotified`, `RecordShowsItsAmf`, `LocationNamesTheSession` |
| `udm_pairs` | every pair of 22 operations (UECM, SDM, PP and the data change notification), faults, 1 restart | `UdmTypeOK`, `RecordShowsARegisteredAmf`, `SubscriptionsAreAtUdr`, `ContextHoldsItsOwn` |
| `ueau_all` | 3 operations, 2 of them at once, faults, 1 restart, 3-bit numbers | `TypeOK`, `SqnReuseNeedsOverlapOrResync`, `UdrSqnIsUnusedUntilResync`, `ResyncIsAhead`, `DeletedEventStaysDeleted` |
| `ee_events` | 3 operations of Nudm_EE at once, 2 other handlers, 2 UEs, 1 id, 1 restart | `TypeOK`, `AnyUeMeansEveryUe`, `DeletedEverywhere` |
| `nrf_all` | 3 discoveries and 2 notifications at once, 1 instance that leaves or returns up to 3 times, faults, 1 restart | `TypeOK`, `StoredIdIsLive`, `OneSubscriptionPerInstance`, `CachedIsWatched`, `GoneIsNotCached` |
| `selections_calls` | every call of each function with bounded arguments | `UdrUriIsUsable`, `SharedDataIsTheRequested`, `SmDataByOneParameter`, `TranslationIsASupi`, `OperationsAreReached` |
| `nf_heartbeat` | 2 connections, 2 timers, 2 configurations of 2 PLMNs, faults, fair | `TypeOK`, `HeartbeatIsNotDropped`, `HeartbeatGoesOn`, `ConfigurationIsRegistered` |
| `uecm_race` | 3 AMF registrations, 2 at once, no faults | `SupersededIsNotified` is violated |
| `udm_retrieval` | an AMF registration, then a retrieval | `RetrievalKeepsRegistrations` is violated |
| `ueau_sqnrace` | 2 vectors at once, of a subscriber that does not resynchronise | `NoSqnIsReused` is violated |
| `nf_timers` | 1 connection, 2 timers, 2 configurations, no faults | `OneTimerIsArmed` is violated |

The four violations are disagreements between the code and its own comments,
quoted under `findings`:

- **uecm_race**: two registrations that both read the old one before either has
  stored its own leave the AMF that is overwritten untold, with no failure
  anywhere.
- **udm_retrieval**: a retrieval of session management data replaces the UE's
  context by one that holds only that data; its registrations are gone.
- **ueau_sqnrace**: two overlapping requests for vectors of one subscriber use
  one sequence number.
- **nf_timers**: the callback of an elapsed timer and `StartKeepAliveTimer` each
  set a timer, and the second overwrites `KeepAliveTimer` without stopping the
  first: two heartbeats run from then on, and only one of them can be stopped.

This is also why `MemoryMatchesUdr`, `SupersededIsNotified` and
`RecordShowsItsAmf` are only claimed for requests one at a time, and
`SqnReuseNeedsOverlapOrResync` and `UdrSqnIsUnusedUntilResync` only of subscribers
whose vectors were not generated at the same time and who have not
resynchronised: they are what the code promises when nothing races. The properties
of `uecm_amf` survive every interleaving, and the
faults too: memory is written before the UDR is asked
(`ue_context_management.go:213`), so a refused registration may be the next one's
old registration, but success is still only reported for what the UDR took
(`SuccessOnlyIfAccepted`), one of the registrations it took is left untold
(`ImplementsRegistry`), and so is one of their AMFs if none has registered twice
for the access (`SomeAmfStays`).

The exceptions of the NRF properties are each a behaviour that TLC shows when
the exception is left out:

- `crossed`: two goroutines work on an instance at once. Two discoveries may both
  find no entry and both subscribe (`nf_discovery.go:68`); a notification may
  remove a subscription that a discovery has just relied on.
- `refused`: a creation that brought no id, because it was refused or its answer
  was lost or had none in it, is stored as `""` all the same, and its entry then
  keeps every later discovery from trying again. The
  next discovery finds that entry, ends without an error, and caches the
  instance unwatched. `OneSubscriptionPerInstance` needs no such exception.
- `missed`: the instance left between the answer to the discovery and the
  subscription to it, or a notification was lost.
- `unconfirmed`: the NRF has removed a subscription and the UDM does not know.
- `strays`: after a restart the NRF still has the subscriptions of the process
  before, of which this one knows nothing.

`contested`, in `AnyUeMeansEveryUe`, is a creation whose id a deletion has named:
`FreeID` is called whoever asks and however the id is written
(`event_exposure.go:172`), so that a second subscription may get the id of a
living one and overwrite it in the contexts.

### Exceptions and disagreements that no run shows

A property that excepts something says so in its comment. What the code does in
these cases, and what its comments and tests say of them:

- *An AMF that registers again.* `ue_context_management.go:247` compares no
  GUAMI: the old registration may be the same AMF's own, which is then told to
  deregister, and nobody else may be registered for the access. `SomeAmfStays`
  excepts an access for which an AMF registers twice; of registrations, instead
  of AMFs, it is proved without exception (`SomeRegistrationStays` in
  `UecmProofs`).
- *Resynchronisation.* `performResync` (`generate_auth_data.go:369-376`) goes on
  from the number the UE reports and does not compare it with the UDR's. The
  numbers of vectors that the UE has not seen are used again, one request after
  the other. Hence the second half of the name `SqnReuseNeedsOverlapOrResync`.
- *Both parameters.* A request for session management data that gives an S-NSSAI
  and a DNN gets every slice (`subscriber_data_management.go:514-519`), where the
  comment at line 513 says "return a flat list of matching subscription data":
  nothing is matched. `SmDataByOneParameter` is about the other requests.
- *Empty configurations.* The list of a DNN's configurations is made with its
  full length and then appended to (`context.go:111`), so that as many empty ones
  come first as there are slices, where line 110 says "all DNN configurations
  identified by "dnn" for all network slices where such DNN is available".
  `SmDataByOneParameter` speaks of the other entries.
- *PutUpuAck.* No path reaches the handler of "Nudm_Sdm Info for UPU service
  operation" (`api_providing_acknowledgement_of_ue_parameters_update.go:23`):
  `threeLayerPathHandlerFunc` takes every PUT on `am-data` for `HTTPInfo`
  (`routers.go:115`). `OperationsAreReached` excepts this one and says what its
  path gets.
- *Identities with the word `imsi`.* The last identity that contains the word is
  returned (`context.go:171-180`), also one that is no IMSI and comes after it.
- *Contained, empty and first ones.* A shared data id that is contained in another
  one may be answered with the data of that other one; an id without any entry is
  looked up as the empty id. A list of addresses of a profile that starts with an
  empty one makes a URI without an address (`search_nf_service.go:65`). Of the
  discovered profiles only the first is looked at.
- *A 200 from the NRF.* `SendRegisterNFInstance` returns an empty NF id
  (`nf_management.go:78`), and the callback of the timer then repeats a
  registration under it for ever: no heartbeat follows. `HeartbeatGoesOn` and
  `ConfigurationIsRegistered` except it (`NfIdIsLost`).
- *The value of a trigger.* `TestRegisterNF` (`udmtests/udm_nf_discovery_test.go:88-90`)
  sends a second trigger, `false`, and asserts that `KeepAliveTimer` is nil
  afterwards. `RegisterNF` does not look at the value (`init.go:512`): it
  registers, starts the timer, and `HeartbeatIsNotDropped` says that no step takes
  it away. The test's assertion holds because no registration happens in it at
  all: its UDM has no `RegisterIPv4`, for which `BuildNFInstance` fails
  (`nf_management.go:48-51`).

Each of them can be read off one definition of the modules; the runs with a
violation are kept for what takes a search, an interleaving or a sequence of
requests.

### Bounds

- *Subscribers*: one, and two in `ee_events`, whose handlers range over all.
  Otherwise handlers of different subscribers share no context and no UDR record;
  the proofs of section 4 are for any number.
- *Requests*: three at once where the property relates two handlers through a
  third (a cycle of notifications needs two, a chain three; a context that is
  replaced under a handler needs one handler to replace it and one to see it).
  `uecm_serial` takes four, enough for a registration, its replacement, an
  update and a re-registration.
- *AMFs*: three in `uecm_amf`, one for each registration, so that none has to
  register twice; two elsewhere, the old one and the new one. *PDU sessions*: two
  valid ones and,
  where parsing matters, one that `strconv.ParseInt` refuses.
- `InFlight` bounds the handlers that run together, `MaxRestarts` the restarts.
  A second restart loses nothing the first has not lost.
- `SqnWidth` is 3 bits with `Ind = 2`, so that every number, including both
  moduli (`2^w` of `strictHex` and `2^w - 1` of `SqnMAx`), is met; the code has
  48 bits and `ind = 32`. The initial number at the UDR is any number.
- `ueau_all` has two handlers at once and a third before, between or after them:
  an overlap needs two, and an overtaken number is seen by the third.
- *Pool and ids of event exposure*: two UEs, so that a range can be half-way; one
  id, so that the generator is at its limit after one creation and an id that is
  freed is the one allocated next.
- *NRF*: one instance. Instances have separate entries, subscriptions and
  notifications; a discovery that fails for one of two instances is met by the
  theorems of section 4, which are for any number. Three discoveries and two
  notifications are enough for an entry that is stored, removed, and stored
  again while a late handler runs; three changes for an instance that leaves,
  returns and leaves again.
- *Selections*: lists of up to three entries, names of up to three words of which
  one is contained in another, profiles with up to two services.
- Requests, AMFs, subscribers, discoveries and notifications are symmetric.
  `nf_heartbeat`, the one run with liveness properties, uses no symmetry.
- *NF lifecycle*: two connections, so that one can be dropped while its goroutine
  is still waiting; two configurations and two timers, the smallest number with
  which a timer is replaced while its callback runs (`MaxMessages` is at most the
  number of timers, so a slot is always free for a new one); a PLMN of the
  configuration file and another that only a message brings.
- `CHECK_DEADLOCK FALSE`: a run ends when its requests are served, or the process
  exits.

### Fairness

Only `nf_heartbeat` assumes fairness, by `NfLifecycle!FairSpec`:

- weak fairness of `InitUDMContext`, `Exit` and `Elapse`: a goroutine that can run
  does, and a timer elapses;
- weak fairness of `Register` and of the calls in a callback: a call to the NRF
  that is repeated for ever is answered at last. Nothing is assumed of which
  answer comes;
- strong fairness of `StartKeepAliveTimer` and `UpdateNF`, which compete for one
  mutex, and of `ReceiveTrigger` for each connection: a `sync.Mutex` hands itself
  to a waiter that has starved for a millisecond, and the senders of a channel
  are queued.

Nothing is assumed of messages (`ReceiveConfig`, `UpdateConfig`), of
`CheckClientHealth`, of faults or of `Terminate`. `HeartbeatGoesOn` and
`ConfigurationIsRegistered` except that the process exits (also by the panic of a
heartbeat's callback, `nf_management.go:148`) and that the NF id is lost
(`NfIdIsLost`): after a 200 `NfId` is empty and the code repeats a registration
without an id for ever. `ConfigurationIsRegistered` excepts a PLMN that another
goroutine's store has taken out of `PlmnList` as well.

## 4. Proofs

Every theorem is about the specification of a module for all values of its
constants that satisfy the assumptions named in it; a theorem that needs more
says so in an `ASSUME` of its own. The inductive invariants of the concurrent
modules were checked with TLC on the instance of a run, or on one with more
operations, before they were proved.

### UE context management

`UecmProofs` proves, for all values of the constants that satisfy the named
assumptions (`SitesAssumption`, `NoneAssumption`, `HandlerAssumption`,
`BodyAssumption`, `UecmAssumption`: `None` differs from everything it stands in
for, also from the slots by which the registry knows a registration; the two
allocation sites exist; the bounds are numbers):

| theorem | property |
|---|---|
| `TypeCorrect` | `TypeOK` |
| `SuccessIsAccepted` | `SuccessOnlyIfAccepted` |
| `NotificationIsForTheSlot` | `NotifiedHeldTheAccess` |
| `NotificationsAreOneWay` | `NoMutualDeregistration` |
| `AnAmfStays` | `SomeAmfStays` |
| `LocationIsSafe` | `LocationFindsContext` |
| `ContextsAreNotMixedUp` | `ContextHoldsItsOwn` |
| `RecordIsOfARegisteredAmf` | `RecordShowsARegisteredAmf` |
| `HandlersImplementTheRegistry` | `ImplementsRegistry` |
| `MemoryAgrees` (`OneAtATime`) | `MemoryMatchesUdr` |
| `SupersededAreTold` (`OneAtATime`) | `SupersededIsNotified` |
| `RecordIsOfItsAmf` (`OneAtATime`) | `RecordShowsItsAmf` |
| `LocationIsTheSession` (`OneAtATime`) | `LocationNamesTheSession` |

The first seven follow from one inductive invariant, `Inv`:

- `Typed`: the type invariant.
- `ObjectsOwned`, `FiledUnderItsSupi`, `PointersOwned`: an object belongs to the
  request in its name; what is in the pool carries the SUPI it is filed under;
  a handler's pointer `ue` points to an object of its own subscriber. A pointer
  may be stale, but a stale one still points to the right subscriber, which is
  what makes the unlocked writes harmless for other subscribers.
- `StoredFits`, `ReadFits`: a stored registration, and one a handler has read,
  is for the subscriber and the access it is stored under.
- `NothingReadYet`: before its first step a handler has read nothing.
- `ReadsAcyclic`: the relation "`r` read `o` as the old registration" has no
  cycle. This is the heart of the argument and the reason why `Inv` is needed:
  `NoMutualDeregistration` and `SomeAmfStays` are not inductive by themselves.
  A handler reads once, before it stores its own registration, so what it reads
  was stored by a handler that had read earlier.
  The invariant is stated without numbers: every non-empty set of registrations
  has a member that no member of the set has read.
- `ToldWasRead`: a registration whose AMF was told was read by the handler that
  told it, and the UDR took that handler's registration. With `ReadsAcyclic`,
  among the registrations the UDR took for an access there is one that none of
  them has read, so it has not been told (`SomeRegistrationStays`). Where no AMF
  registers twice its AMF has not been told either: `SomeAmfStays`.
- `AcceptedFirst`, `ContextInPool`: a handler about to answer with success has
  its write accepted and its subscriber's context in the pool.

Each action has a lemma that it preserves `Inv`; `Restart` and the steps of
`Handler` have one each.

`RecordInv` adds to it `MatchedFirst` (an update that has passed the match of
`ue_context_management.go:368` carries the GUAMI of a registration of its
access, and keeps it although the context may be replaced meanwhile) and
`TakenOnce` (the UDR takes a registration only while its handler is about to
answer or later). They keep `RecordShowsARegisteredAmf`, and they are what the
refinement needs: under the mapping of `Uecm`, the initial states are the
registry's (`InitRefines`), the arrival of a registration is `Open`, its taking by
the UDR `Take`, the notification `Tell`, the answer `Succeed` or `Fail`, a restart
`Fail` of every registration under way, and every other step a stutter
(`NextRefines`). `TakenOnce` shows that no slot is taken twice, `ToldWasRead` and
`ReadsAcyclic` that not every registration that took a slot is told.

Four theorems are about requests one at a time. Their hypothesis is
`OneAtATime`: `InFlight = 1`, no faults, no restart, and a finite set of
requests, without which `InFlight` bounds nothing. It is what `uecm_serial` sets,
and `uecm_race` shows that the first two fail without it. `SerialInv` has
`RecordInv` and

- `OneServed`: one handler is between its arrival and its end;
- `InHand`: what that handler knows is still true: the context it has looked up
  or not found (`LookUpsHold`), the old registration it has read, which is the
  UDR's (`OldIsTheHolder`), the match of an update (`MatchedTheHolder`), and that
  there was no PDU session (`FirstSession`);
- `MemoryFollows`: memory differs from the UDR only where that handler has
  stored its registration and the UDR has not taken it yet;
- `SupersededIsTold`: a superseded AMF has been told, or the handler that
  superseded it is about to tell it.

### The two services together

`UdmProofs` proves, from the same assumptions and those of `Sdm`:

| theorem | property |
|---|---|
| `UdmTypeCorrect` | `UdmTypeOK` |
| `EntriesAreAtUdr` | `SubscriptionsAreAtUdr` |
| `UdmContextsAreNotMixedUp` | `ContextHoldsItsOwn` |
| `UdmRecordIsOfARegisteredAmf` | `RecordShowsARegisteredAmf` |
| `UdmImplementsTheRegistry` | `ImplementsRegistry` |

The steps of `Uecm` keep `RecordInv` by the lemmas of `UecmProofs`. The steps of
`Sdm` write to the same contexts and replace some; each of them has a lemma that
it keeps `RecordInv` and maps to a stutter of the registry, so that everything
proved of UECM under interleaving holds next to the retrievals as well. `SdmInv`
is added: a retrieval that goes on has a dataset left (`Fetching`), the
subscriptions in a context are among the UDR's, a handler that is about to add
one has the UDR's answer (`SubscriptionsTaken`), and the same for shared data
(`SharedTaken`).

### Authentication

`UeauProofs` proves:

| theorem | property |
|---|---|
| `TypeCorrect` | `TypeOK` |
| `ResyncHolds` | `ResyncIsAhead` |
| `DeletedHolds` | `DeletedEventStaysDeleted` |
| `ReuseNeedsOverlapOrResync` (`FewRequests`) | `SqnReuseNeedsOverlapOrResync` |
| `NextSqnIsUnusedUntilResync` (`FewRequests`) | `UdrSqnIsUnusedUntilResync` |

`UeauAssumption` asks for a width of at least one bit, for a range of more than
`Ind + 2` numbers (the code: 2^48 against 34), that `None` is no number, and
that `SqnCount`, which is `2^SqnWidth`, is a natural number: powers are opaque to
the provers, and nothing else of them is used.

- `ResyncIsAhead` follows from `Handling` (a resynchronising handler goes on with
  the number that follows from the UE's) and from lemmas about the two moduli,
  `SqnCount` where the code masks and `SqnCount - 1` where it uses `SqnMAx`.
- `EventInv`: an event is stored when its confirmation ends (`StoredWhenDone`),
  in one object only (`StoredOnce`), and an event that a deletion has found to
  match is nowhere but in the object of which the deletion clears the field
  (`NamedIsAt`). So an event that was deleted is in no context, and no later
  handler can put it back.
- `SqnInv` is about the subscribers that are not `overlapped`: one handler has a
  number in hand (`OneInHand`), and, as long as no UE of the subscriber has
  resynchronised (`InSync`), it is the one the UDR has (`HandIsCurrent`), and the
  vectors that left are behind it by at most as many as there were
  (`VectorsAreBehind`), all different (`VectorsDiffer`). The numbers go round, so
  that "behind" is a distance modulo `SqnCount`, and with as many requests as
  there are numbers a number does come back: hence `FewRequests`, which says that
  `Requests` is finite and has fewer members than the range.

### Event exposure

`EventExposureProofs` proves, from `EeAssumption` (`None` is no id; the requests of
this service are requests; the bound is a number):

| theorem | property |
|---|---|
| `TypeCorrect` | `TypeOK` |
| `AnyUeHolds` | `AnyUeMeansEveryUe` |
| `DeletedHolds` | `DeletedEverywhere` |

The invariant is about ranges that are half-way. `Removing`: what a deletion has
still to remove, of creations that were over when it began (`EarlierIsOver`), lies
in a context that was in the pool when its range began and that the range has
not come to. `Entering`: a context a creation is for has its entry, or its range
has not come to it, or a deletion of the id is in progress. `Sole`: as long as no
deletion has named its id, the id stays allocated and no other creation enters it.
`Allocated`: a context that does not exist yet has no entries, so that `StoreNewUe`
brings none into the pool.

### NF lifecycle

`NfLifecycleProofs` proves, from `NfAssumption` (the goroutines, timers and `None`
differ, there are at least as many timers as messages):

| theorem | property |
|---|---|
| `TypeCorrect` | `TypeOK` |
| `HeartbeatContinues` | `HeartbeatIsNotDropped` |

The inductive invariant is `TypeOK /\ KeepAliveExists`: `KeepAliveTimer` points to
a timer that is set or whose callback is on its way. The callback frees its slot
only when `KeepAliveTimer` is empty, and `StartKeepAliveTimer` stops a timer only
to point to another; each action has its part in one of five lemmas.

### NF discovery

`NrfSubscriptionsProofs` proves, from `NrfAssumption` (discoveries and
notifications are different, `None` and `Empty` are neither an instance nor a
subscription):

| theorem | property |
|---|---|
| `TypeCorrect` | `TypeOK` |
| `StoredIdsAreLive` | `StoredIdIsLive` |
| `OneSubscription` | `OneSubscriptionPerInstance` |
| `CachedInstancesAreWatched` | `CachedIsWatched` |
| `GoneInstancesLeaveTheCache` | `GoneIsNotCached` |

The argument has two layers.

- `Inv` is about the map. `Stored`: a discovery that is about to store an id
  holds the subscription it made itself (`InHand`), a handler that is about to
  remove one holds an id it found in the map (`LookedUp`), and each id in the map
  was put there by the discovery it is named by (`StoredByItsDiscovery`); as that
  discovery stores once, an id that was removed does not come back, which is what
  keeps `StoredIdIsLive`. `Alone`: an instance that is not `crossed` has at most
  one goroutine at work. `Undisturbed`: while a goroutine is between its look-up
  and its store or delete, nobody else has changed that entry. `Accounted`: each
  subscription at the NRF that is no stray has its entry, or an entry `""` in its
  place, or the discovery that made it has still to store what it was given. So
  a look-up that finds nothing shows that there is no subscription, and
  `OneSubscriptionPerInstance`, the last part of `Inv`, is kept by the discovery
  that makes one.
- `CacheInv` adds the cache. `EmptyIsRefused`: an entry `""` is one of a refused
  creation. `OutOfCache`: an instance of which a notification is being handled
  has left the cache. `Watched`: an instance that is cached, or about to be, has
  a subscription. `Announced`: one of these that is gone has a notification due.

### Selections

`SelectionsProofs` proves, for any profiles, ids, data and identities, and lists of
any length:

| theorem | property |
|---|---|
| `UdrUriHolds` | `UdrUriIsUsable` |
| `TranslationHolds` | `TranslationIsASupi` |
| `SharedDataHolds` | `SharedDataIsTheRequested` |
| `SmDataHolds` | `SmDataByOneParameter` |
| `OperationsHold` | `OperationsAreReached` |

The assumptions are those the code's data meets:

- `NamesAssumption`, `BoundsAssumption`: names are sequences of words, and the
  bounds are numbers; `PlacesAssumption`: an empty string is no number.
- `ProfilesAssumption`: the services of a profile are a sequence, and a URI made of
  an address and a port is not empty.
- `SNssaisAssumption`: the name of a slice is not empty, and none contains another:
  `openapi.MarshToJsonString` makes it a JSON object without objects in it.
- `SubscribersAssumption`: an identity is not a part of "shared-data", the one
  pattern of a single segment and of method `GET` that would shadow it.

Each call is shown to return what fits (`UriFits`, `SupiFits`, `DataFits`,
`SmDataFits`, `Served`), and the invariant is that the result of a behaviour's one
call does. The lemmas say what the model's operators return: the first and the
last of some places, the address of a service, the containment of a name, the
places of a list one after the other (`InOrderIs`: by counting the ones before it,
each has its turn), and the first route of a table that fits (`InTableIs`). Of two
routes the later one's segment has a word that the earlier one lacks, except for
`sms-data` after `sms-mng-data`, where the words do not follow each other
(`NoRouteShadows`).

### What is only model-checked

- `HeartbeatGoesOn` and `ConfigurationIsRegistered`, which are liveness under
  fairness, and out of the provers' reach.
- The four disagreements of section 3, which are counterexamples.

No module declares a RECURSIVE operator.

## 5. What is abstracted or left out

- Bodies, answers and problem details, except the fields a handler branches on.
- `getUdrURI` for PEI, GPSI and external group identities: no modelled operation
  receives one in a way that touches a context.
- Key derivation (Milenage, the KDFs) in UEAU: a function of the number `sqn`
  and of data at the UDR; its failures are the failing disjunct of `ReadSqn`
  and `WriteNextSqn`.
- `PduSessionID` is a Go string whose unsynchronised assignment may be torn; the
  model assigns it atomically. Unsynchronised map writes end the process, which
  is `Restart`.
- `BuildNFInstance` fails only for an empty address, which the default
  configuration rules out. A 201 without a `Location`, or with one without
  `/nnrf-nfm/`, makes `SendRegisterNFInstance` panic (`nf_management.go:85`). Neither
  is modelled, nor are slice headers torn by the unsynchronised appends of
  `init.go:387` (a lost append is).
- Nothing sets the fields `Gpsi` and `ExternalGroupID` of a context, so
  `UdmUeFindByGpsi` and the like find nobody; a request that names such an
  identity takes the branch of an unknown UE.
- Updating an event exposure subscription looks it up and answers; the patch is
  not applied in the code either.
- Routers: `Selections` has the dispatch of Nudm_SDM, which the code writes itself
  by containment of strings. The other routers hand a list of literal patterns
  to gin. The handlers of the API layer (`*/api_*.go`) decode a body, call one
  procedure and encode its answer; what they hand over is `Bodies` of `Handler`.
  Words are the finest grain of the names in `Selections`: an id of which a part
  of a word is another id is not met.
- Configuration is read once before any handler runs; metrics and logging are
  output.

Seen in the model and not stated as properties, because nothing in the repository
says otherwise: `RegisterNF` and a heartbeat that registers again each send the
profile they built before, so the older may arrive last and stay; `PlmnList` is
overwritten when a configuration arrives before `InitUDMContext`; a registration
may follow the deregistration of `Terminate`.

## 6. Plan

Every component that keeps state is modelled, every safety property of a passing
run is proved, and liveness stays with TLC. What is left:

1. The safety of `Ueau` and of `Udm` side by side. Both write to the contexts of one
   pool, and their proofs are about each by itself; a composition of all three
   services needs `EventInv` next to the retrievals, which replace contexts.
2. The safety part of `ConfigurationIsRegistered`, which needs no fairness: that a
   registration carries the PLMNs read last by the goroutine that sends it.
3. The single-file properties for more than one subscriber at a time: one request
   for each subscriber in flight, instead of one in all (`OneAtATime`).
