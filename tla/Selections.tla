----------------------------- MODULE Selections -----------------------------
(***************************************************************************)
(* The choices the services make among what they are given: the address of *)
(* a UDR in a discovered profile (util/search_nf_service.go), the shared   *)
(* data, the session management data and the SUPI in an answer of the UDR  *)
(* (context/context.go), and the handler for a path of Nudm_SDM            *)
(* (subscriberdatamanagement/routers.go).                                  *)
(*                                                                         *)
(* They are pure functions: a behaviour is one call with any arguments and *)
(* its result.  Many of them compare strings by strings.Contains.  A name  *)
(* is the sequence of its words, and a name contains another one if the    *)
(* words of that one follow each other in it.                              *)
(***************************************************************************)
EXTENDS Integers, Sequences, FiniteSets

CONSTANTS
  None,         \* an empty string or the zero value of a struct
  Profiles,     \* the NF profiles a discovery may return
  MaxProfiles,  \* bound: how many of them it returns
  SharedIds,    \* ids of shared data, as requested or as the UDR has them
  MaxShared,    \* bound: how many are requested, and how many are returned
  SNssais,      \* the S-NSSAIs of a subscriber's slices
  SNssaiQueries,\* what a request may give for one
  Dnns,         \* data network names
  Identities,   \* the members of a SUPI list
  Segments,     \* the segments of a path
  Subscribers,  \* those of them that identify a subscriber
  Ids           \* those of them that identify a subscription

(* A name is a sequence of words.                                          *)
ASSUME NamesAssumption ==
  /\ SharedIds \subseteq Seq(STRING)
  /\ SNssais \subseteq Seq(STRING)
  /\ SNssaiQueries \subseteq Seq(STRING)
  /\ Identities \subseteq Seq(STRING)

ASSUME BoundsAssumption == MaxProfiles \in Nat /\ MaxShared \in Nat

(* Places in a list are numbers, which an empty string is not.             *)
ASSUME PlacesAssumption == None \notin Nat

VARIABLES
  call,         \* the function that was called, and its arguments
  result        \* what it returned

vars == <<call, result>>

Init ==
  /\ call = [of |-> "none"]
  /\ result = None

(* strings.Contains(n, m), word by word.                                   *)
Within(m, n) ==
  \E i \in 1..(Len(n) - Len(m) + 1) : SubSeq(n, i, i + Len(m) - 1) = m

(* A subscriber is not named by a part of "shared-data".                   *)
ASSUME SubscribersAssumption == \A s \in Subscribers : ~ Within(s, <<"shared", "data">>)

(* An S-NSSAI is a JSON object without objects in it, so that none is a    *)
(* part of another.                                                        *)
ASSUME SNssaisAssumption ==
  /\ <<>> \notin SNssais
  /\ \A m, n \in SNssais : Within(m, n) => m = n

Indices(s, Test(_)) == {i \in DOMAIN s : Test(s[i])}

FirstOf(S) == CHOOSE i \in S : \A j \in S : i <= j
LastOf(S) == CHOOSE i \in S : \A j \in S : i >= j

(* Some places of a list one after the other.                              *)
InOrder(I) ==
  [k \in 1..Cardinality(I) |-> CHOOSE i \in I : Cardinality({j \in I : j < i}) = k - 1]

SeqUpTo(n, S) == UNION {[1..k -> S] : k \in 0..n}

-----------------------------------------------------------------------------
(***************************************************************************)
(* The URI of a UDR.                                                       *)
(***************************************************************************)

(* The first of the given addresses that is not empty.                     *)
FirstFound(uris) ==
  LET found == Indices(uris, LAMBDA u : u # None)
  IN  IF found = {} THEN None ELSE uris[FirstOf(found)]

getSbiUri(scheme, ip, port) ==
  [scheme |-> scheme, ip |-> ip,
   port |-> IF port # 0 THEN port
            ELSE CASE scheme = "http" -> 80 [] scheme = "https" -> 443 [] OTHER -> 0]

(* The first of a profile's addresses, whether it is empty or not.         *)
FirstAddress(p) == IF p.ips = <<>> THEN None ELSE p.ips[1]

(* A profile has a list of services, and an address is not an empty string.*)
ASSUME ProfilesAssumption ==
  \A p \in Profiles :
    /\ p.services \in Seq({p.services[i] : i \in DOMAIN p.services})
    /\ \A i \in DOMAIN p.services :
         LET s == p.services[i]
         IN  s.endPoints # <<>> => \A ip \in {FirstAddress(p), s.endPoints[1].ip} :
               getSbiUri(s.scheme, ip, s.endPoints[1].port) # None

(* Only the first end point counts; the first of the profile's addresses   *)
(* stands in for one it has not got, even if that is an empty string.      *)
resolveUriFromEndpoints(p, s) ==
  IF s.endPoints = <<>> THEN None
  ELSE LET e == s.endPoints[1]
       IN  IF e.ip = None /\ p.ips = <<>> THEN None
           ELSE getSbiUri(s.scheme, IF e.ip # None THEN e.ip ELSE p.ips[1], e.port)

extractUri(p, s) ==
  FirstFound(<<p.fqdn, s.fqdn, s.apiPrefix, resolveUriFromEndpoints(p, s)>>)

(* Mutant: a service that is suspended will do.                            *)
SearchNFServiceUriAnyStatus(p, name, status) ==
  FirstFound([i \in DOMAIN p.services |->
                IF p.services[i].name = name THEN extractUri(p, p.services[i]) ELSE None])

SearchNFServiceUri(p, name, status) ==
  FirstFound([i \in DOMAIN p.services |->
                IF p.services[i].name = name /\ p.services[i].status = status
                THEN extractUri(p, p.services[i])
                ELSE None])

(* The loop over the profiles returns in its first round.                  *)
SendNFInstancesUDR ==
  /\ call.of = "none"
  /\ \E instances \in SeqUpTo(MaxProfiles, Profiles) :
       /\ call' = [of |-> "SendNFInstancesUDR", instances |-> instances]
       /\ result' = IF instances = <<>> THEN None
                    ELSE SearchNFServiceUri(instances[1], "nudr-dr", "REGISTERED")

-----------------------------------------------------------------------------
(***************************************************************************)
(* Shared data.                                                            *)
(***************************************************************************)

(* Mutant: the first entry of an id is kept.                               *)
MappingFirstSharedData(response) ==
  [k \in {response[i].id : i \in DOMAIN response} |->
     response[FirstOf(Indices(response, LAMBDA d : d.id = k))]]

MappingSharedData(response) ==
  [k \in {response[i].id : i \in DOMAIN response} |->
     response[LastOf(Indices(response, LAMBDA d : d.id = k))]]

(* One entry for each id: one whose own id contains the requested one,     *)
(* whichever the iteration of the map comes to last.  Where there is none  *)
(* the map is asked for an empty id, which gives a zero entry unless the   *)
(* UDR has sent one with such an id.                                       *)
ObtainRequiredSharedData(ids, response) ==
  LET sharedSubsDataMap == MappingSharedData(response)
      Matched(j) == {k \in DOMAIN sharedSubsDataMap : Within(ids[j], k)}
  IN  {s \in [DOMAIN ids -> {response[i] : i \in DOMAIN response} \cup {None}] :
         \A j \in DOMAIN ids :
           IF Matched(j) = {}
           THEN s[j] = IF <<>> \in DOMAIN sharedSubsDataMap THEN sharedSubsDataMap[<<>>] ELSE None
           ELSE \E k \in Matched(j) : s[j] = sharedSubsDataMap[k]}

GetSharedData ==
  /\ call.of = "none"
  /\ \E ids \in SeqUpTo(MaxShared, SharedIds),
        response \in SeqUpTo(MaxShared, [id : SharedIds, version : 1..2]) :
       /\ call' = [of |-> "GetSharedData", ids |-> ids, response |-> response]
       /\ result' \in ObtainRequiredSharedData(ids, response)

-----------------------------------------------------------------------------
(***************************************************************************)
(* Session management data.  The UDR answers with the DNN configurations   *)
(* of each slice; a configuration is named by the slice's place.           *)
(***************************************************************************)
Slices == [singleNssai : SNssais, dnns : SUBSET Dnns]

(* The configurations, in the order of the slices, after as many zero      *)
(* entries as there are slices: the list is made with that length, and     *)
(* then appended to.                                                       *)
AllDnnConfigsByDnn(data, dnn) ==
  [i \in DOMAIN data |-> None] \o InOrder(Indices(data, LAMBDA d : dnn \in d.dnns))

(* The last slice whose name contains the one in the request.              *)
SNssaiKey(data, snssai) ==
  LET found == Indices(data, LAMBDA d : Within(snssai, d.singleNssai))
  IN  IF found = {} THEN <<>> ELSE data[LastOf(found)].singleNssai

(* The slices of smDataMap: of two with one name the later one stays.      *)
SmDataMap(data) ==
  {i \in DOMAIN data : \A j \in DOMAIN data : j > i => data[j].singleNssai # data[i].singleNssai}

(* Mutant: the slice is taken from the map, whatever its name.             *)
SelectAnySmData(data, snssai, dnn) ==
  CASE snssai = <<>> /\ dnn = None -> {<<i, data[i].dnns>> : i \in DOMAIN data}
    [] snssai # <<>> /\ dnn = None -> {<<i, data[i].dnns>> : i \in SmDataMap(data)}
    [] snssai = <<>> /\ dnn # None -> AllDnnConfigsByDnn(data, dnn)
    [] OTHER -> {<<i, data[i].dnns>> : i \in SmDataMap(data)}

(* ManageSmData and selectSmDataResponse.  With both parameters the DNN is *)
(* not looked at: every slice is answered, in any order.                   *)
SelectSmDataResponse(data, snssai, dnn) ==
  LET At(I) == {<<i, data[i].dnns>> : i \in I}
  IN  CASE snssai = <<>> /\ dnn = None -> At(DOMAIN data)
        [] snssai # <<>> /\ dnn = None ->
             At({i \in SmDataMap(data) : data[i].singleNssai = SNssaiKey(data, snssai)})
        [] snssai = <<>> /\ dnn # None -> AllDnnConfigsByDnn(data, dnn)
        [] OTHER -> At(SmDataMap(data))

GetSmData ==
  /\ call.of = "none"
  /\ \E data \in SeqUpTo(MaxShared, Slices), snssai \in SNssaiQueries \cup {<<>>}, dnn \in Dnns \cup {None} :
       /\ call' = [of |-> "GetSmData", data |-> data, snssai |-> snssai, dnn |-> dnn]
       /\ result' = SelectSmDataResponse(data, snssai, dnn)

-----------------------------------------------------------------------------
(* Mutant: any member of the list will do.                                 *)
GetLastSupi(list) ==
  IF list = <<>> THEN None ELSE list[Len(list)]

(* The last member that contains "imsi".                                   *)
GetCorrespondingSupi(list) ==
  LET found == Indices(list, LAMBDA n : Within(<<"imsi">>, n))
  IN  IF found = {} THEN None ELSE list[LastOf(found)]

GetIdTranslationResult ==
  /\ call.of = "none"
  /\ \E list \in SeqUpTo(MaxShared, Identities) :
       /\ call' = [of |-> "GetIdTranslationResult", list |-> list]
       /\ result' = GetCorrespondingSupi(list)

-----------------------------------------------------------------------------
(***************************************************************************)
(* The router of Nudm_SDM.  Paths of one, two and three segments have one  *)
(* handler each, which looks for the operation in a table by containment.  *)
(***************************************************************************)
Methods == {"GET", "POST", "PUT", "PATCH", "DELETE"}

SharedSubscriptions == <<"shared", "data", "subscriptions">>

Route(pattern, method, handler) == [pattern |-> pattern, method |-> method, handler |-> handler]

OneLayerPathRouter == <<
  Route(<<":supi">>, "GET", "GetSupi"),
  Route(<<"shared", "data">>, "GET", "GetSharedData"),
  Route(SharedSubscriptions, "POST", "SubscribeToSharedData") >>

TwoLayerPathRouter == <<
  Route(<<":supi", "am", "data">>, "GET", "GetAmData"),
  Route(<<":supi", "smf", "select", "data">>, "GET", "GetSmfSelectData"),
  Route(<<":supi", "sms", "mng", "data">>, "GET", "GetSmsMngData"),
  Route(<<":supi", "sms", "data">>, "GET", "GetSmsData"),
  Route(<<":supi", "sm", "data">>, "GET", "GetSmData"),
  Route(<<":supi", "nssai">>, "GET", "GetNssai"),
  Route(<<":supi", "sdm", "subscriptions">>, "POST", "Subscribe"),
  Route(<<":supi", "trace", "data">>, "GET", "GetTraceData"),
  Route(<<":supi", "ue", "context", "in", "smf", "data">>, "GET", "GetUeContextInSmfData"),
  Route(<<":supi", "ue", "context", "in", "smsf", "data">>, "GET", "GetUeContextInSmsfData") >>

(* The first route of the table that fits, or what there is otherwise.     *)
InTable(table, segment, method, otherwise) ==
  LET fits == Indices(table, LAMBDA t : Within(segment, t.pattern) /\ t.method = method)
  IN  IF fits = {} THEN otherwise ELSE table[FirstOf(fits)].handler

(* Mutant: the special case for GET comes first.                           *)
SpecialCaseFirst(path, method) ==
  IF method = "GET" THEN "GetSupi" ELSE InTable(OneLayerPathRouter, path[1], method, "404")

oneLayerPathHandlerFunc(path, method) ==
  InTable(OneLayerPathRouter, path[1], method, IF method = "GET" THEN "GetSupi" ELSE "404")

twoLayerPathHandlerFunc(path, method) ==
  CASE path[1] = SharedSubscriptions /\ method = "DELETE" -> "UnsubscribeForSharedData"
    [] path[1] = SharedSubscriptions /\ method = "PATCH" -> "ModifyForSharedData"
    [] path[2] = <<"id", "translation", "result">> /\ method = "GET" -> "GetIdTranslationResult"
    [] OTHER -> InTable(TwoLayerPathRouter, path[2], method, "404")

threeLayerPathHandlerFunc(path, method) ==
  CASE path[2] = <<"sdm", "subscriptions">> /\ method = "DELETE" -> "Unsubscribe"
    [] path[2] = <<"sdm", "subscriptions">> /\ method = "PATCH" -> "Modify"
    [] path[2] = <<"am", "data">> /\ method = "PUT" -> "Info"
    [] OTHER -> "404"

ServeSdm ==
  /\ call.of = "none"
  /\ \E path \in UNION {[1..k -> Segments] : k \in 1..3}, method \in Methods :
       /\ call' = [of |-> "ServeSdm", path |-> path, method |-> method]
       /\ result' = CASE Len(path) = 1 -> oneLayerPathHandlerFunc(path, method)
                      [] Len(path) = 2 -> twoLayerPathHandlerFunc(path, method)
                      [] Len(path) = 3 -> threeLayerPathHandlerFunc(path, method)

Next == SendNFInstancesUDR \/ GetSharedData \/ GetSmData \/ GetIdTranslationResult \/ ServeSdm

Spec == Init /\ [][Next]_vars

-----------------------------------------------------------------------------
(***************************************************************************)
(* Properties.                                                             *)
(***************************************************************************)

(* The URI that is used for the UDR is an address of a registered UDR      *)
(* service of the first profile, or of that profile, and there is none     *)
(* only if none of these services has an address the code looks at.  This  *)
(* is for a profile whose list of addresses does not start with an empty   *)
(* one: that one would be used (search_nf_service.go:65).                  *)
UdrUriIsUsable ==
  call.of = "SendNFInstancesUDR" /\ call.instances # <<>>
    /\ (call.instances[1].ips # <<>> => FirstAddress(call.instances[1]) # None) =>
    LET p == call.instances[1]
        Udrs == {i \in DOMAIN p.services : /\ p.services[i].name = "nudr-dr"
                                            /\ p.services[i].status = "REGISTERED"}
        Reachable(s) ==
          \/ {p.fqdn, s.fqdn, s.apiPrefix} # {None}
          \/ s.endPoints # <<>> /\ {FirstAddress(p), s.endPoints[1].ip} # {None}
    IN  /\ result = None <=> \A i \in Udrs : ~ Reachable(p.services[i])
        /\ result # None => \E i \in Udrs :
             LET s == p.services[i]
             IN  \/ result \in {p.fqdn, s.fqdn, s.apiPrefix}
                 \/ /\ s.endPoints # <<>>
                    /\ \E ip \in {FirstAddress(p), s.endPoints[1].ip} \ {None},
                         port \in {s.endPoints[1].port, 80, 443} :
                         result = [scheme |-> s.scheme, ip |-> ip, port |-> port]

(* If no id that is returned is empty or contains a requested one other    *)
(* than itself, the answer has, in the order of the request, the UDR's     *)
(* latest data of each id.                                                 *)
SharedDataIsTheRequested ==
  call.of = "GetSharedData"
    /\ (\A i \in DOMAIN call.response : call.response[i].id # <<>>)
    /\ (\A j \in DOMAIN call.ids, i \in DOMAIN call.response :
          Within(call.ids[j], call.response[i].id) => call.ids[j] = call.response[i].id) =>
    \A j \in DOMAIN call.ids :
      \/ /\ result[j] = None
         /\ \A i \in DOMAIN call.response : call.response[i].id # call.ids[j]
      \/ \E i \in DOMAIN call.response :
           /\ result[j] = call.response[i]
           /\ result[j].id = call.ids[j]
           /\ \A k \in DOMAIN call.response : k > i => call.response[k].id # call.ids[j]

(* A request that gives only a slice, by its whole name, gets the          *)
(* configurations of that slice and no other.  One that gives only a DNN   *)
(* gets the configuration of every slice that has it, "for all network     *)
(* slices where such DNN is available" (context.go:110), and none of a     *)
(* slice that has not, besides the empty entries that context.go:111 puts  *)
(* in front.  A request that gives both is left out: it gets every slice   *)
(* (subscriber_data_management.go:514 to 519).                             *)
SmDataByOneParameter ==
  call.of = "GetSmData" =>
    /\ call.snssai \in SNssais /\ call.dnn = None =>
         /\ \A x \in result : call.data[x[1]].singleNssai = call.snssai
         /\ (result = {}) <=> (\A i \in DOMAIN call.data : call.data[i].singleNssai # call.snssai)
    /\ call.snssai = <<>> /\ call.dnn # None =>
         {result[i] : i \in DOMAIN result} \ {None} = {i \in DOMAIN call.data : call.dnn \in call.data[i].dnns}

(* A translated identity is a SUPI: if the list has an IMSI, and no other  *)
(* identity that contains the word comes after its last one, the result is *)
(* an IMSI of the list, and without any such identity there is no result;  *)
(* "SUPI list contains either a SUPI or a NAI" (context.go:171).  Another   *)
(* identity that contains the word and comes last is returned in place of  *)
(* the IMSI.                                                               *)
TranslationIsASupi ==
  call.of = "GetIdTranslationResult" =>
    LET Named == {i \in DOMAIN call.list : Within(<<"imsi">>, call.list[i])}
        Imsis == {i \in DOMAIN call.list : call.list[i] # <<>> /\ call.list[i][1] = "imsi"}
    IN  /\ (\E i \in Imsis : \A j \in Named \ Imsis : j < i) => \E i \in Imsis : result = call.list[i]
        /\ Named \cup Imsis = {} => result = None

(* The operations, with every variable of their paths filled in.           *)
SharedOperations ==
  {Route(<<OneLayerPathRouter[i].pattern>>, OneLayerPathRouter[i].method,
         OneLayerPathRouter[i].handler) : i \in 2..3}
  \cup {Route(<<SharedSubscriptions, d>>, "DELETE", "UnsubscribeForSharedData") : d \in Ids}
  \cup {Route(<<SharedSubscriptions, d>>, "PATCH", "ModifyForSharedData") : d \in Ids}

OperationsOf(s) ==
  {Route(<<s>>, "GET", "GetSupi"),
   Route(<<s, <<"id", "translation", "result">>>>, "GET", "GetIdTranslationResult"),
   Route(<<s, <<"am", "data">>, <<"sor", "ack">>>>, "PUT", "Info"),
   Route(<<s, <<"am", "data">>, <<"upu", "ack">>>>, "PUT", "PutUpuAck")}
  \cup {Route(<<s, Tail(TwoLayerPathRouter[i].pattern)>>, TwoLayerPathRouter[i].method,
              TwoLayerPathRouter[i].handler) : i \in DOMAIN TwoLayerPathRouter}
  \cup {Route(<<s, <<"sdm", "subscriptions">>, d>>, "DELETE", "Unsubscribe") : d \in Ids}
  \cup {Route(<<s, <<"sdm", "subscriptions">>, d>>, "PATCH", "Modify") : d \in Ids}

Operations == SharedOperations \cup UNION {OperationsOf(s) : s \in Subscribers}

(* Although the tables are searched by containment, every operation but    *)
(* one is reached by its own path and method: no earlier route shadows it. *)
(* The one is PutUpuAck, which no path reaches: every PUT on am-data is    *)
(* taken for Info (routers.go:115).                                        *)
OperationsAreReached ==
  call.of = "ServeSdm" =>
    \A o \in Operations : o.pattern = call.path /\ o.method = call.method =>
      result = o.handler \/ (o.handler = "PutUpuAck" /\ result = "Info")
=============================================================================
