--------------------------- MODULE SelectionsProofs ---------------------------
(***************************************************************************)
(* Proofs about Selections, for arguments of any number and size: what is  *)
(* picked from an answer is what was asked for.                            *)
(***************************************************************************)
EXTENDS Selections, FiniteSetTheorems, SequenceTheorems, WellFoundedInduction, TLAPS

-----------------------------------------------------------------------------
(***************************************************************************)
(* The first and the last of some places in a list.                        *)
(***************************************************************************)
LEMMA FirstOfIs ==
  ASSUME NEW S \in SUBSET Nat, S # {}
  PROVE  /\ FirstOf(S) \in S
         /\ \A j \in S : FirstOf(S) <= j
<1> DEFINE R == {p \in Nat \X Nat : p[1] < p[2]}
<1>1. IsWellFoundedOn(R, Nat)
  BY NatLessThanWellFounded DEF OpToRel
<1>2. \A x, y \in Nat : x < y => <<x, y>> \in R
  OBVIOUS
<1> HIDE DEF R
<1>3. PICK x \in S : \A y \in S : ~ (<<y, x>> \in R)
  BY <1>1, WFMin
<1>4. \A y \in S : x <= y
  <2> SUFFICES ASSUME NEW y \in S
               PROVE  x <= y
    OBVIOUS
  <2>1. x \in Nat /\ y \in Nat /\ ~ (y < x)
    BY <1>2, <1>3
  <2> QED
    BY <2>1
<1> QED
  BY <1>3, <1>4 DEF FirstOf

LEMMA LastOfIs ==
  ASSUME NEW n \in Nat, NEW S \in SUBSET (1..n), S # {}
  PROVE  /\ LastOf(S) \in S
         /\ \A j \in S : LastOf(S) >= j
<1> DEFINE T == {n - i : i \in S}
<1>1. T \in SUBSET Nat /\ T # {}
  <2>1. \A i \in S : n - i \in Nat
    OBVIOUS
  <2> QED
    BY <2>1
<1>2. PICK k \in T : \A j \in T : k <= j
  BY <1>1, FirstOfIs
<1>3. PICK i \in S : k = n - i
  BY <1>2
<1>4. \A j \in S : i >= j
  BY <1>2, <1>3
<1> QED
  BY <1>3, <1>4 DEF LastOf

(* A behaviour is one call.                                                *)
LEMMA CalledIs ==
  /\ SendNFInstancesUDR => call'.of = "SendNFInstancesUDR"
  /\ GetSharedData => call'.of = "GetSharedData"
  /\ GetSmData => call'.of = "GetSmData"
  /\ GetIdTranslationResult => call'.of = "GetIdTranslationResult"
  /\ ServeSdm => call'.of = "ServeSdm"
<1>1. SendNFInstancesUDR => call'.of = "SendNFInstancesUDR"
  BY DEF SendNFInstancesUDR
<1>2. GetSharedData => call'.of = "GetSharedData"
  BY DEF GetSharedData
<1>3. GetSmData => call'.of = "GetSmData"
  BY DEF GetSmData
<1>4. GetIdTranslationResult => call'.of = "GetIdTranslationResult"
  BY DEF GetIdTranslationResult
<1>5. ServeSdm => call'.of = "ServeSdm"
  <2> SUFFICES ASSUME ServeSdm PROVE call'.of = "ServeSdm"
    OBVIOUS
  <2>1. \E path, method : call' = [of |-> "ServeSdm", path |-> path, method |-> method]
    BY Zenon DEF ServeSdm
  <2> QED
    BY <2>1
<1> QED
  BY <1>1, <1>2, <1>3, <1>4, <1>5

LEMMA SeqUpToIs ==
  ASSUME NEW n \in Nat, NEW S, NEW s \in SeqUpTo(n, S)
  PROVE  s \in Seq(S)
<1>1. PICK k \in 0..n : s \in [1..k -> S]
  BY DEF SeqUpTo
<1> QED
  BY <1>1

(* The address that is taken is one of those given.                        *)
LEMMA FirstFoundIs ==
  ASSUME NEW n \in Nat, NEW uris, DOMAIN uris = 1..n
  PROVE  /\ FirstFound(uris) = None <=> \A i \in 1..n : uris[i] = None
         /\ FirstFound(uris) # None => \E i \in 1..n : FirstFound(uris) = uris[i]
<1> DEFINE found == {i \in 1..n : uris[i] # None}
<1>1. FirstFound(uris) = IF found = {} THEN None ELSE uris[FirstOf(found)]
  BY DEF FirstFound, Indices
<1>2. found \in SUBSET Nat
  OBVIOUS
<1>3. found # {} => FirstOf(found) \in found
  BY <1>2, FirstOfIs
<1> QED
  BY <1>1, <1>3

-----------------------------------------------------------------------------
(***************************************************************************)
(* The URI of a UDR.                                                       *)
(***************************************************************************)
(* The port of an end point, or the one of its scheme.                     *)
LEMMA SbiUriIs ==
  ASSUME NEW scheme, NEW ip, NEW port
  PROVE  \E p \in {port, 80, 443} : getSbiUri(scheme, ip, port) = [scheme |-> scheme, ip |-> ip, port |-> p]
<1>1. CASE port # 0
  BY <1>1, Zenon DEF getSbiUri
<1> DEFINE ByScheme == CASE scheme = "http" -> 80 [] scheme = "https" -> 443 [] OTHER -> 0
<1>2. CASE port = 0
  <2>1. ByScheme \in {0, 80, 443}
    <3>1. CASE scheme = "http"
      <4>1. scheme # "https"
        BY <3>1
      <4> QED
        BY <3>1, <4>1, Zenon
    <3>2. CASE scheme = "https"
      <4>1. scheme # "http"
        BY <3>2
      <4>2. ByScheme = 443
        BY <3>2, <4>1, Zenon
      <4> QED
        BY <4>2
    <3>3. CASE scheme # "http" /\ scheme # "https"
      BY <3>3, Zenon
    <3> QED
      BY <3>1, <3>2, <3>3
  <2>2. getSbiUri(scheme, ip, port) = [scheme |-> scheme, ip |-> ip, port |-> ByScheme]
    BY <1>2, Zenon DEF getSbiUri
  <2> HIDE DEF ByScheme
  <2> QED
    BY <1>2, <2>1, <2>2
<1> QED
  BY <1>1, <1>2

(* A service with an address the code looks at, ...                        *)
ReachableAt(p, s) ==
  \/ {p.fqdn, s.fqdn, s.apiPrefix} # {None}
  \/ s.endPoints # <<>> /\ {FirstAddress(p), s.endPoints[1].ip} # {None}

(* ... and what is an address of it.                                       *)
AddressOf(uri, p, s) ==
  \/ uri \in {p.fqdn, s.fqdn, s.apiPrefix}
  \/ /\ s.endPoints # <<>>
     /\ \E ip \in {FirstAddress(p), s.endPoints[1].ip} \ {None},
        port \in {s.endPoints[1].port, 80, 443} :
          uri = [scheme |-> s.scheme, ip |-> ip, port |-> port]

(* The list of a profile's addresses does not start with an empty one.     *)
HasAddresses(p) == p.ips # <<>> => FirstAddress(p) # None

LEMMA EndPointIs ==
  ASSUME NEW p \in Profiles, HasAddresses(p), NEW i \in DOMAIN p.services
  PROVE  LET s == p.services[i]
             uri == resolveUriFromEndpoints(p, s)
         IN  /\ uri # None <=> s.endPoints # <<>> /\ {FirstAddress(p), s.endPoints[1].ip} # {None}
             /\ uri # None => AddressOf(uri, p, s)
<1> DEFINE s == p.services[i]
           e == s.endPoints[1]
           found == IF e.ip # None THEN e.ip ELSE FirstAddress(p)
           uri == resolveUriFromEndpoints(p, s)
<1>1. /\ found = None <=> e.ip = None /\ FirstAddress(p) = None
      /\ found # None => found \in {e.ip, FirstAddress(p)}
  OBVIOUS
<1>2. uri = IF s.endPoints = <<>> \/ found = None THEN None ELSE getSbiUri(s.scheme, found, e.port)
  <2>1. FirstAddress(p) = None <=> p.ips = <<>>
    BY DEF HasAddresses, FirstAddress
  <2>2. p.ips # <<>> => FirstAddress(p) = p.ips[1]
    BY DEF FirstAddress
  <2> QED
    BY <2>1, <2>2 DEF resolveUriFromEndpoints
<1>3. s.endPoints # <<>> => \A ip \in {FirstAddress(p), e.ip} : getSbiUri(s.scheme, ip, e.port) # None
  BY ProfilesAssumption
<1>4. PICK port \in {e.port, 80, 443} :
        getSbiUri(s.scheme, found, e.port) = [scheme |-> s.scheme, ip |-> found, port |-> port]
  BY SbiUriIs
<1> HIDE DEF s, e, found, uri
<1>5. ASSUME uri # None
      PROVE  AddressOf(uri, p, s)
  <2>1. /\ s.endPoints # <<>> /\ found \in {FirstAddress(p), e.ip} \ {None}
        /\ uri = [scheme |-> s.scheme, ip |-> found, port |-> port]
    BY <1>1, <1>2, <1>4, <1>5
  <2>2. \E ip \in {FirstAddress(p), e.ip} \ {None}, q \in {e.port, 80, 443} :
          uri = [scheme |-> s.scheme, ip |-> ip, port |-> q]
    <3> DEFINE Ips == {FirstAddress(p), e.ip} \ {None}
               ports == {e.port, 80, 443}
    <3>1. found \in Ips /\ port \in ports
      BY <2>1
    <3> HIDE DEF Ips, ports
    <3>2. \E ip \in Ips, q \in ports : uri = [scheme |-> s.scheme, ip |-> ip, port |-> q]
      BY <2>1, <3>1
    <3> QED
      BY <3>2 DEF Ips, ports
  <2> QED
    BY <2>1, <2>2, Zenon DEF AddressOf, e
<1>6. uri # None <=> s.endPoints # <<>> /\ found # None
  <2>1. CASE s.endPoints = <<>> \/ found = None
    BY <1>2, <2>1, Zenon
  <2>2. CASE s.endPoints # <<>> /\ found # None
    <3>1. found \in {FirstAddress(p), e.ip}
      BY <1>1, <2>2
    <3>2. getSbiUri(s.scheme, found, e.port) # None
      BY <1>3, <2>2, <3>1, Zenon
    <3> QED
      BY <1>2, <2>2, <3>2, Zenon
  <2> QED
    BY <2>1, <2>2, Zenon
<1>7. found # None <=> {FirstAddress(p), e.ip} # {None}
  BY <1>1
<1> QED
  BY <1>5, <1>6, <1>7 DEF s, e, uri


LEMMA ExtractedIs ==
  ASSUME NEW p \in Profiles, HasAddresses(p), NEW i \in DOMAIN p.services
  PROVE  LET s == p.services[i]
             uri == extractUri(p, s)
         IN  /\ uri # None <=> ReachableAt(p, s)
             /\ uri # None => AddressOf(uri, p, s)
<1> DEFINE s == p.services[i]
           point == resolveUriFromEndpoints(p, s)
           uris == <<p.fqdn, s.fqdn, s.apiPrefix, point>>
           uri == extractUri(p, s)
<1>1. /\ DOMAIN uris = 1..4
      /\ uris[1] = p.fqdn /\ uris[2] = s.fqdn /\ uris[3] = s.apiPrefix /\ uris[4] = point
  OBVIOUS
<1>2. uri = FirstFound(uris)
  BY DEF extractUri
<1>3. /\ point # None <=> s.endPoints # <<>> /\ {FirstAddress(p), s.endPoints[1].ip} # {None}
      /\ point # None => AddressOf(point, p, s)
  BY EndPointIs
<1> HIDE DEF s, point, uris, uri
<1>4. /\ uri = None <=> \A k \in 1..4 : uris[k] = None
      /\ uri # None => \E k \in 1..4 : uri = uris[k]
  BY <1>1, <1>2, FirstFoundIs
<1>5. \A k \in 1..4 : k \in {1, 2, 3, 4}
  OBVIOUS
<1>6. uri # None => \/ uri \in {p.fqdn, s.fqdn, s.apiPrefix}
                    \/ uri = point
  BY <1>1, <1>4, <1>5
<1>7. uri # None => AddressOf(uri, p, s)
  BY <1>3, <1>6 DEF AddressOf
<1>8. uri = None <=> p.fqdn = None /\ s.fqdn = None /\ s.apiPrefix = None /\ point = None
  BY <1>1, <1>4, <1>5
<1>9. uri # None <=> ReachableAt(p, s)
  BY <1>3, <1>8, Zenon DEF ReachableAt
<1> QED
  BY <1>7, <1>9 DEF s, uri

LEMMA ServiceUriIs ==
  ASSUME NEW p \in Profiles, HasAddresses(p), NEW name, NEW status
  PROVE  LET uri == SearchNFServiceUri(p, name, status)
             Usable == {i \in DOMAIN p.services : /\ p.services[i].name = name
                                                   /\ p.services[i].status = status}
         IN  /\ uri = None <=> \A i \in Usable : ~ ReachableAt(p, p.services[i])
             /\ uri # None => \E i \in Usable : AddressOf(uri, p, p.services[i])
<1> DEFINE Fits(i) == p.services[i].name = name /\ p.services[i].status = status
           uris == [i \in DOMAIN p.services |-> IF Fits(i) THEN extractUri(p, p.services[i]) ELSE None]
           uri == SearchNFServiceUri(p, name, status)
           n == Len(p.services)
<1>1. n \in Nat /\ DOMAIN p.services = 1..n
  BY ProfilesAssumption
<1>2. uri = FirstFound(uris)
  BY DEF SearchNFServiceUri
<1>3. /\ DOMAIN uris = 1..n
      /\ \A i \in 1..n : uris[i] = IF Fits(i) THEN extractUri(p, p.services[i]) ELSE None
  BY <1>1
<1>4. \A i \in 1..n : LET u == extractUri(p, p.services[i])
                      IN  /\ u # None <=> ReachableAt(p, p.services[i])
                          /\ u # None => AddressOf(u, p, p.services[i])
  BY <1>1, ExtractedIs
<1> HIDE DEF Fits, uris, uri, n
<1>5. /\ uri = None <=> \A i \in 1..n : uris[i] = None
      /\ uri # None => \E i \in 1..n : uri = uris[i]
  BY <1>1, <1>2, <1>3, FirstFoundIs
<1>6. uri = None <=> \A i \in 1..n : Fits(i) => ~ ReachableAt(p, p.services[i])
  BY <1>3, <1>4, <1>5
<1>7. uri # None => \E i \in 1..n : Fits(i) /\ AddressOf(uri, p, p.services[i])
  BY <1>3, <1>4, <1>5
<1> QED
  BY <1>1, <1>6, <1>7 DEF Fits, uri

(* The property, for a call and a result.                                  *)
UriFits(instances, uri) ==
  instances # <<>> /\ HasAddresses(instances[1]) =>
    LET p == instances[1]
        Udrs == {i \in DOMAIN p.services : /\ p.services[i].name = "nudr-dr"
                                            /\ p.services[i].status = "REGISTERED"}
    IN  /\ uri = None <=> \A i \in Udrs : ~ ReachableAt(p, p.services[i])
        /\ uri # None => \E i \in Udrs : AddressOf(uri, p, p.services[i])

LEMMA UriFitsIs ==
  UdrUriIsUsable <=> (call.of = "SendNFInstancesUDR" => UriFits(call.instances, result))
  BY Zenon DEF UdrUriIsUsable, UriFits, HasAddresses, ReachableAt, AddressOf

LEMMA UdrUriFits ==
  ASSUME SendNFInstancesUDR
  PROVE  UriFits(call'.instances, result')
<1>1. PICK instances \in SeqUpTo(MaxProfiles, Profiles) :
        /\ call' = [of |-> "SendNFInstancesUDR", instances |-> instances]
        /\ result' = IF instances = <<>> THEN None
                     ELSE SearchNFServiceUri(instances[1], "nudr-dr", "REGISTERED")
  BY DEF SendNFInstancesUDR
<1>2. call'.instances = instances
  BY <1>1
<1>3. ASSUME instances # <<>>
      PROVE  /\ instances[1] \in Profiles
             /\ result' = SearchNFServiceUri(instances[1], "nudr-dr", "REGISTERED")
  BY <1>1, <1>3, SeqUpToIs, BoundsAssumption
<1>4. ASSUME instances # <<>>, HasAddresses(instances[1])
      PROVE  UriFits(instances, result')
  <2> DEFINE p == instances[1]
             Udrs == {i \in DOMAIN p.services : /\ p.services[i].name = "nudr-dr"
                                                 /\ p.services[i].status = "REGISTERED"}
  <2>1. /\ result' = None <=> \A i \in Udrs : ~ ReachableAt(p, p.services[i])
        /\ result' # None => \E i \in Udrs : AddressOf(result', p, p.services[i])
    BY <1>3, <1>4, ServiceUriIs
  <2> QED
    BY <2>1, Zenon DEF UriFits
<1>5. UriFits(instances, result')
  BY <1>4 DEF UriFits
<1> QED
  BY <1>2, <1>5

(* No UDR is taken that is not registered, or at an address that is none   *)
(* of its own or of its NF, and none is missed in the profile that is      *)
(* looked at: for any profiles but one whose list of addresses starts with *)
(* an empty string, which would be used (SearchNFServiceUri).              *)
THEOREM UdrUriHolds == Spec => []UdrUriIsUsable
<1> DEFINE Fits == call.of = "SendNFInstancesUDR" => UriFits(call.instances, result)
<1>1. Init => Fits
  BY DEF Init
<1>2. Fits /\ [Next]_vars => Fits'
  BY UdrUriFits, CalledIs DEF Next, vars
<1>3. Fits => UdrUriIsUsable
  BY UriFitsIs
<1> HIDE DEF Fits
<1> QED
  BY <1>1, <1>2, <1>3, PTL DEF Spec

-----------------------------------------------------------------------------
(***************************************************************************)
(* The SUPI among identities, and shared data.                             *)
(***************************************************************************)
LEMMA WithinItself ==
  ASSUME NEW W, NEW n \in Seq(W)
  PROVE  Within(n, n)
<1>1. SubSeq(n, 1, 1 + Len(n) - 1) = n
  <2>1. Len(n) \in Nat /\ 1 + Len(n) - 1 = Len(n)
    OBVIOUS
  <2> QED
    BY <2>1, SubSeqFull
<1>2. 1 \in 1..(Len(n) - Len(n) + 1)
  OBVIOUS
<1> QED
  BY <1>1, <1>2 DEF Within

IsImsi(n) == n # <<>> /\ n[1] = "imsi"

LEMMA ImsiContainsTheWord ==
  ASSUME NEW n \in Seq(STRING), IsImsi(n)
  PROVE  Within(<<"imsi">>, n)
<1>1. Len(n) \in Nat /\ Len(n) >= 1 /\ n[1] = "imsi"
  BY DEF IsImsi
<1>2. SubSeq(n, 1, 1 + 1 - 1) = <<"imsi">>
  <2> DEFINE m == SubSeq(n, 1, 1)
  <2>1. m \in Seq({"imsi"}) /\ Len(m) = 1 /\ m[1] = "imsi"
    BY <1>1, SubSeqProperties
  <2>2. <<"imsi">> \in Seq({"imsi"})
    OBVIOUS
  <2>3. Len(<<"imsi">>) = 1 /\ <<"imsi">>[1] = "imsi"
    OBVIOUS
  <2> HIDE DEF m
  <2>4. m = <<"imsi">>
    BY <2>1, <2>2, <2>3, SeqEqual
  <2> QED
    BY <2>4 DEF m
<1>3. Len(<<"imsi">>) = 1 /\ 1 \in 1..(Len(n) - 1 + 1)
  BY <1>1
<1> QED
  BY <1>2, <1>3 DEF Within

(* The property, for a list and a result.                                  *)
Named(list) == {i \in DOMAIN list : Within(<<"imsi">>, list[i])}
Imsis(list) == {i \in DOMAIN list : IsImsi(list[i])}

SupiFits(list, supi) ==
  /\ (\E i \in Imsis(list) : \A j \in Named(list) \ Imsis(list) : j < i) =>
       \E i \in Imsis(list) : supi = list[i]
  /\ Named(list) \cup Imsis(list) = {} => supi = None

LEMMA SupiFitsIs ==
  TranslationIsASupi <=> (call.of = "GetIdTranslationResult" => SupiFits(call.list, result))
  BY Zenon DEF TranslationIsASupi, SupiFits, Named, Imsis, IsImsi

LEMMA CorrespondingSupiFits ==
  ASSUME NEW list \in Seq(Identities)
  PROVE  SupiFits(list, GetCorrespondingSupi(list))
<1> DEFINE found == Named(list)
           imsis == Imsis(list)
           last == LastOf(found)
           supi == GetCorrespondingSupi(list)
<1>1. supi = IF found = {} THEN None ELSE list[last]
  BY DEF GetCorrespondingSupi, Indices, Named
<1>2. Len(list) \in Nat /\ found \in SUBSET (1..Len(list))
  BY DEF Named
<1>3. found # {} => last \in found /\ \A j \in found : last >= j
  BY <1>2, LastOfIs
<1>4. imsis \subseteq found
  <2>1. \A i \in DOMAIN list : list[i] \in Seq(STRING)
    BY NamesAssumption
  <2> QED
    BY <2>1, ImsiContainsTheWord DEF Named, Imsis
<1> HIDE DEF found, imsis, last, supi
<1>5. ASSUME NEW i \in imsis, \A j \in found \ imsis : j < i
      PROVE  supi = list[last] /\ last \in imsis
  <2>1. i \in found /\ found # {}
    BY <1>4
  <2>2. last \in found /\ last >= i
    BY <1>3, <2>1
  <2>3. i \in Nat /\ last \in Nat
    BY <1>2, <2>1, <2>2
  <2>4. ~ (last < i)
    BY <2>2, <2>3
  <2> QED
    BY <1>1, <1>5, <2>1, <2>2, <2>4
<1>6. (\E i \in imsis : \A j \in found \ imsis : j < i) => \E i \in imsis : supi = list[i]
  BY <1>5
<1>7. found \cup imsis = {} => supi = None
  BY <1>1
<1> QED
  BY <1>6, <1>7 DEF SupiFits, found, imsis, supi

(* An identity is translated to an IMSI of the list, whatever the list     *)
(* has, as long as no other identity that contains the word comes after    *)
(* its last IMSI, and to none if it has no such identity                   *)
(* (GetCorrespondingSupi).                                                 *)
THEOREM TranslationHolds == Spec => []TranslationIsASupi
<1> DEFINE Fits == call.of = "GetIdTranslationResult" => SupiFits(call.list, result)
<1>1. Init => Fits
  BY DEF Init
<1>2. ASSUME GetIdTranslationResult
      PROVE  Fits'
  <2>1. PICK list \in SeqUpTo(MaxShared, Identities) :
          /\ call' = [of |-> "GetIdTranslationResult", list |-> list]
          /\ result' = GetCorrespondingSupi(list)
    BY <1>2 DEF GetIdTranslationResult
  <2>2. SupiFits(list, result')
    BY <2>1, SeqUpToIs, BoundsAssumption, CorrespondingSupiFits
  <2>3. call'.list = list
    BY <2>1
  <2> QED
    BY <2>2, <2>3
<1>3. Fits /\ [Next]_vars => Fits'
  BY <1>2, CalledIs DEF Next, vars
<1>4. Fits => TranslationIsASupi
  BY SupiFitsIs
<1> HIDE DEF Fits
<1> QED
  BY <1>1, <1>3, <1>4, PTL DEF Spec

(* The property, for the ids and the data of the UDR, and a result.        *)
DataFits(ids, response, data) ==
  (\A i \in DOMAIN response : response[i].id # <<>>) /\
  (\A j \in DOMAIN ids, i \in DOMAIN response :
     Within(ids[j], response[i].id) => ids[j] = response[i].id) =>
    \A j \in DOMAIN ids :
      \/ /\ data[j] = None
         /\ \A i \in DOMAIN response : response[i].id # ids[j]
      \/ \E i \in DOMAIN response :
           /\ data[j] = response[i]
           /\ data[j].id = ids[j]
           /\ \A k \in DOMAIN response : k > i => response[k].id # ids[j]

LEMMA DataFitsIs ==
  SharedDataIsTheRequested
    <=> (call.of = "GetSharedData" => DataFits(call.ids, call.response, result))
  BY Zenon DEF SharedDataIsTheRequested, DataFits

(* The map keeps the last of the data of an id.                            *)
LEMMA MappedIs ==
  ASSUME NEW response, NEW n \in Nat, DOMAIN response = 1..n,
         NEW k \in {response[i].id : i \in DOMAIN response}
  PROVE  \E i \in DOMAIN response :
           /\ MappingSharedData(response)[k] = response[i] /\ response[i].id = k
           /\ \A j \in DOMAIN response : j > i => response[j].id # k
<1> DEFINE found == {i \in DOMAIN response : response[i].id = k}
           last == LastOf(found)
<1>1. MappingSharedData(response)[k] = response[last]
  BY DEF MappingSharedData, Indices
<1>2. found \in SUBSET (1..n) /\ found # {}
  OBVIOUS
<1>3. last \in found /\ \A j \in found : last >= j
  BY <1>2, LastOfIs
<1> HIDE DEF last
<1>4. \A j \in DOMAIN response : j > last => response[j].id # k
  BY <1>3
<1> QED
  BY <1>1, <1>3, <1>4

LEMMA RequiredDataFits ==
  ASSUME NEW ids \in Seq(SharedIds), NEW response, NEW n \in Nat, DOMAIN response = 1..n,
         NEW data \in ObtainRequiredSharedData(ids, response)
  PROVE  DataFits(ids, response, data)
<1> DEFINE map == MappingSharedData(response)
           Matched(j) == {k \in DOMAIN map : Within(ids[j], k)}
<1>1. \A j \in DOMAIN ids : IF Matched(j) = {}
                            THEN data[j] = IF <<>> \in DOMAIN map THEN map[<<>>] ELSE None
                            ELSE \E k \in Matched(j) : data[j] = map[k]
  BY DEF ObtainRequiredSharedData
<1>2. DOMAIN map = {response[i].id : i \in DOMAIN response}
  BY DEF MappingSharedData
<1>3. \A j \in DOMAIN ids : ids[j] \in Seq(STRING)
  BY NamesAssumption
<1> SUFFICES ASSUME \A i \in DOMAIN response : response[i].id # <<>>,
                    \A j \in DOMAIN ids, i \in DOMAIN response :
                      Within(ids[j], response[i].id) => ids[j] = response[i].id,
                    NEW j \in DOMAIN ids
             PROVE  \/ /\ data[j] = None
                       /\ \A i \in DOMAIN response : response[i].id # ids[j]
                    \/ \E i \in DOMAIN response :
                         /\ data[j] = response[i]
                         /\ data[j].id = ids[j]
                         /\ \A k \in DOMAIN response : k > i => response[k].id # ids[j]
  BY DEF DataFits
<1>4. \A k \in Matched(j) : k = ids[j]
  BY <1>2
<1>5. CASE Matched(j) = {}
  <2>1. \A i \in DOMAIN response : response[i].id # ids[j]
    <3> SUFFICES ASSUME NEW i \in DOMAIN response, response[i].id = ids[j]
                 PROVE  FALSE
      OBVIOUS
    <3>1. ids[j] \in DOMAIN map
      BY <1>2, Zenon
    <3>2. Within(ids[j], ids[j])
      BY <1>3, WithinItself, Zenon
    <3> QED
      BY <1>5, <3>1, <3>2, Zenon
  <2>2. <<>> \notin DOMAIN map
    BY <1>2
  <2> QED
    BY <1>1, <1>5, <2>1, <2>2
<1>6. CASE Matched(j) # {}
  <2>1. data[j] = map[ids[j]] /\ ids[j] \in DOMAIN map
    BY <1>1, <1>4, <1>6
  <2>2. PICK i \in DOMAIN response :
          /\ map[ids[j]] = response[i] /\ response[i].id = ids[j]
          /\ \A k \in DOMAIN response : k > i => response[k].id # ids[j]
    <3>1. ids[j] \in {response[i].id : i \in DOMAIN response}
      BY <1>2, <2>1, Zenon
    <3> QED
      BY <3>1, MappedIs, Zenon
  <2>3. data[j] = response[i] /\ data[j].id = ids[j]
    BY <2>1, <2>2
  <2> HIDE DEF map, Matched
  <2> QED
    BY <2>2, <2>3
<1> QED
  BY <1>5, <1>6

(* For every id that is asked for the answer has the UDR's last data of    *)
(* that id, or none where the UDR has none, however many of either, as     *)
(* long as no id of the answer is empty or contains a requested one other  *)
(* than itself (ObtainRequiredSharedData).                                 *)
THEOREM SharedDataHolds == Spec => []SharedDataIsTheRequested
<1> DEFINE Fits == call.of = "GetSharedData" => DataFits(call.ids, call.response, result)
<1>1. Init => Fits
  BY DEF Init
<1>2. ASSUME GetSharedData
      PROVE  Fits'
  <2>1. PICK ids \in SeqUpTo(MaxShared, SharedIds),
             response \in SeqUpTo(MaxShared, [id : SharedIds, version : 1..2]) :
          /\ call' = [of |-> "GetSharedData", ids |-> ids, response |-> response]
          /\ result' \in ObtainRequiredSharedData(ids, response)
    BY <1>2 DEF GetSharedData
  <2>2. /\ ids \in Seq(SharedIds)
        /\ Len(response) \in Nat /\ DOMAIN response = 1..Len(response)
    BY SeqUpToIs, BoundsAssumption
  <2>3. DataFits(ids, response, result')
    BY <2>1, <2>2, RequiredDataFits
  <2>4. call'.ids = ids /\ call'.response = response
    BY <2>1
  <2> QED
    BY <2>3, <2>4
<1>3. Fits /\ [Next]_vars => Fits'
  BY <1>2, CalledIs DEF Next, vars
<1>4. Fits => SharedDataIsTheRequested
  BY DataFitsIs
<1> HIDE DEF Fits
<1> QED
  BY <1>1, <1>3, <1>4, PTL DEF Spec

-----------------------------------------------------------------------------
(***************************************************************************)
(* Session management data.                                                *)
(***************************************************************************)

(* Each of the places has its turn, and nothing else has.                  *)
LEMMA InOrderIs ==
  ASSUME NEW n \in Nat, NEW I \in SUBSET (1..n)
  PROVE  /\ Len(InOrder(I)) \in Nat
         /\ DOMAIN InOrder(I) = 1..Len(InOrder(I))
         /\ {InOrder(I)[k] : k \in DOMAIN InOrder(I)} = I
<1> DEFINE Before(i) == {j \in I : j < i}
           N == Cardinality(I)
           rank == [i \in I |-> Cardinality(Before(i)) + 1]
<1>0. I \subseteq Nat
  OBVIOUS
<1>1. IsFiniteSet(I) /\ N \in Nat
  <2>1. IsFiniteSet(1..n)
    BY FS_Interval
  <2>2. IsFiniteSet(I)
    BY <2>1, FS_Subset
  <2> QED
    BY <2>2, FS_CardinalityType
<1>2. ASSUME NEW i \in I, NEW j \in I, i < j
      PROVE  Cardinality(Before(i)) < Cardinality(Before(j))
  <2>1. Before(i) \in SUBSET Before(j) /\ i \in Before(j) /\ i \notin Before(i)
    <3>1. ~ (i < i) /\ \A x \in I : x < i => x < j
      BY <1>0, <1>2
    <3> QED
      BY <1>2, <3>1, Zenon
  <2>2. IsFiniteSet(Before(j)) /\ IsFiniteSet(Before(i))
    BY <1>1, FS_Subset
  <2>3. /\ Cardinality(Before(i)) \in Nat /\ Cardinality(Before(j)) \in Nat
        /\ Cardinality(Before(i)) <= Cardinality(Before(j))
        /\ Cardinality(Before(i)) # Cardinality(Before(j))
    <3> HIDE DEF Before
    <3> QED
      BY <2>1, <2>2, FS_Subset, FS_CardinalityType
  <2> QED
    BY <2>3
<1>3. ASSUME NEW i \in I
      PROVE  Cardinality(Before(i)) \in Nat /\ Cardinality(Before(i)) + 1 \in 1..N
  <2>1. Before(i) \in SUBSET I /\ i \notin Before(i)
    OBVIOUS
  <2>2. IsFiniteSet(Before(i)) /\ Cardinality(Before(i)) \in Nat
    BY <1>1, <2>1, FS_Subset, FS_CardinalityType
  <2>3. Cardinality(Before(i)) <= N /\ Cardinality(Before(i)) # N
    <3> HIDE DEF Before
    <3> QED
      BY <1>1, <2>1, FS_Subset
  <2> QED
    BY <1>1, <2>2, <2>3
<1>4. rank \in Injection(I, 1..N)
  <2>1. rank \in [I -> 1..N]
    BY <1>3
  <2>2. ASSUME NEW i \in I, NEW j \in I, rank[i] = rank[j]
        PROVE  i = j
    <3>1. i \in Int /\ j \in Int /\ Cardinality(Before(i)) \in Int /\ Cardinality(Before(j)) \in Int
      BY <1>0, <1>3
    <3>2. ~ (i < j) /\ ~ (j < i)
      BY <1>2, <2>2, <3>1
    <3> QED
      BY <3>1, <3>2
  <2> QED
    BY <2>1, <2>2 DEF Injection, IsInjective
<1>5. rank \in Surjection(I, 1..N)
  <2>1. IsFiniteSet(1..N) /\ Cardinality(1..N) = N
    BY <1>1, FS_Interval
  <2> HIDE DEF rank
  <2> QED
    BY <1>4, <2>1, FS_Injection
<1>6. DOMAIN InOrder(I) = 1..N /\ Len(InOrder(I)) = N
  BY <1>1 DEF InOrder
<1>7. ASSUME NEW k \in 1..N
      PROVE  InOrder(I)[k] \in I /\ rank[InOrder(I)[k]] = k
  <2>1. \E i \in I : rank[i] = k
    BY <1>5 DEF Surjection
  <2>2. PICK i \in I : Cardinality(Before(i)) = k - 1
    <3>1. PICK j \in I : rank[j] = k
      BY <2>1
    <3>2. Cardinality(Before(j)) \in Nat /\ Cardinality(Before(j)) + 1 = k
      BY <1>3, <3>1
    <3>3. Cardinality(Before(j)) = k - 1
      BY <3>2
    <3> HIDE DEF Before
    <3> QED
      BY <3>3
  <2>3. InOrder(I)[k] = CHOOSE j \in I : Cardinality(Before(j)) = k - 1
    BY DEF InOrder
  <2>4. InOrder(I)[k] \in I /\ Cardinality(Before(InOrder(I)[k])) = k - 1
    <3> HIDE DEF Before
    <3> QED
      BY <2>2, <2>3
  <2> QED
    BY <2>4
<1>8. ASSUME NEW i \in I
      PROVE  \E k \in 1..N : InOrder(I)[k] = i
  <2>1. rank[i] \in 1..N
    BY <1>3
  <2>2. InOrder(I)[rank[i]] \in I /\ rank[InOrder(I)[rank[i]]] = rank[i]
    BY <1>7, <2>1
  <2>3. InOrder(I)[rank[i]] = i
    <3> HIDE DEF rank
    <3> QED
      BY <1>4, <2>2 DEF Injection, IsInjective
  <2> QED
    BY <2>1, <2>3
<1> HIDE DEF rank, N
<1>9. {InOrder(I)[k] : k \in 1..N} = I
  BY <1>7, <1>8
<1> QED
  BY <1>1, <1>6, <1>9

(* The property, for a list of slices, what is asked for, and a result.    *)
SmDataFits(data, snssai, dnn, res) ==
  /\ snssai \in SNssais /\ dnn = None =>
       /\ \A x \in res : data[x[1]].singleNssai = snssai
       /\ (res = {}) <=> (\A i \in DOMAIN data : data[i].singleNssai # snssai)
  /\ snssai = <<>> /\ dnn # None =>
       {res[i] : i \in DOMAIN res} \ {None} = {i \in DOMAIN data : dnn \in data[i].dnns}

LEMMA SmDataFitsIs ==
  SmDataByOneParameter <=>
    (call.of = "GetSmData" => SmDataFits(call.data, call.snssai, call.dnn, result))
  BY Zenon DEF SmDataByOneParameter, SmDataFits

LEMMA SliceFits ==
  ASSUME NEW n \in Nat, NEW data \in [1..n -> Slices], NEW snssai \in SNssais
  PROVE  SmDataFits(data, snssai, None, SelectSmDataResponse(data, snssai, None))
<1> DEFINE found == {i \in 1..n : data[i].singleNssai = snssai}
           chosen == {i \in SmDataMap(data) : data[i].singleNssai = snssai}
           res == {<<i, data[i].dnns>> : i \in chosen}
<1>1. snssai # <<>> /\ snssai \in Seq(STRING) /\ \A i \in 1..n : data[i].singleNssai \in SNssais
  BY SNssaisAssumption, NamesAssumption DEF Slices
<1>2. Indices(data, LAMBDA d : Within(snssai, d.singleNssai)) = found
  <2>1. \A i \in 1..n : Within(snssai, data[i].singleNssai) <=> data[i].singleNssai = snssai
    BY <1>1, SNssaisAssumption, WithinItself
  <2> QED
    BY <2>1 DEF Indices
<1>3. SNssaiKey(data, snssai) = IF found = {} THEN <<>> ELSE snssai
  <2>1. found # {} => LastOf(found) \in found
    BY LastOfIs
  <2> QED
    BY <1>2, <2>1 DEF SNssaiKey
<1>4. \A i \in SmDataMap(data) : i \in 1..n
  BY DEF SmDataMap
<1>5. SelectSmDataResponse(data, snssai, None) =
        {<<i, data[i].dnns>> : i \in {j \in SmDataMap(data) : data[j].singleNssai = SNssaiKey(data, snssai)}}
  BY <1>1 DEF SelectSmDataResponse
<1>6. {j \in SmDataMap(data) : data[j].singleNssai = SNssaiKey(data, snssai)} = chosen
  BY <1>1, <1>3, <1>4, SNssaisAssumption
<1>7. found # {} => chosen # {}
  <2> SUFFICES ASSUME found # {} PROVE chosen # {}
    OBVIOUS
  <2>1. LastOf(found) \in found /\ \A j \in found : LastOf(found) >= j
    BY LastOfIs
  <2>2. LastOf(found) \in SmDataMap(data)
    <3>1. \A j \in 1..n : j > LastOf(found) => data[j].singleNssai # snssai
      BY <2>1
    <3> QED
      BY <2>1, <3>1 DEF SmDataMap
  <2> QED
    BY <2>1, <2>2
<1>8. chosen # {} => found # {}
  BY <1>4
<1>9. \A x \in res : data[x[1]].singleNssai = snssai
  OBVIOUS
<1>10. (res = {}) <=> (\A i \in DOMAIN data : data[i].singleNssai # snssai)
  <2>1. (res = {}) <=> (chosen = {})
    OBVIOUS
  <2>2. (found = {}) <=> (\A i \in DOMAIN data : data[i].singleNssai # snssai)
    OBVIOUS
  <2> QED
    BY <1>7, <1>8, <2>1, <2>2
<1>11. SelectSmDataResponse(data, snssai, None) = res
  BY <1>5, <1>6
<1> HIDE DEF found, chosen, res
<1> QED
  BY <1>1, <1>9, <1>10, <1>11 DEF SmDataFits

LEMMA DnnFits ==
  ASSUME NEW n \in Nat, NEW data \in [1..n -> Slices], NEW dnn, dnn # None
  PROVE  SmDataFits(data, <<>>, dnn, SelectSmDataResponse(data, <<>>, dnn))
<1> DEFINE having == {i \in 1..n : dnn \in data[i].dnns}
           order == InOrder(having)
           res == [i \in 1..n |-> None] \o order
<1>1. SelectSmDataResponse(data, <<>>, dnn) = res
  <2>1. Indices(data, LAMBDA d : dnn \in d.dnns) = having
    BY DEF Indices
  <2> QED
    BY <2>1 DEF SelectSmDataResponse, AllDnnConfigsByDnn
<1>2. /\ Len(order) \in Nat /\ DOMAIN order = 1..Len(order)
      /\ {order[k] : k \in DOMAIN order} = having
  BY InOrderIs
<1> HIDE DEF order
<1>3. /\ DOMAIN res = 1..(n + Len(order))
      /\ \A i \in 1..n : res[i] = None
      /\ \A k \in 1..Len(order) : res[n + k] = order[k]
  BY <1>2
<1>4. \A i \in 1..(n + Len(order)) : i \in 1..n \/ \E k \in 1..Len(order) : i = n + k
  <2> SUFFICES ASSUME NEW i \in 1..(n + Len(order)), i \notin 1..n
               PROVE  i - n \in 1..Len(order) /\ i = n + (i - n)
    OBVIOUS
  <2> QED
    BY <1>2
<1>5. \A k \in 1..Len(order) : n + k \in 1..(n + Len(order))
  BY <1>2
<1>6. None \notin having
  BY PlacesAssumption
<1> HIDE DEF res, having
<1>7. {res[i] : i \in DOMAIN res} \ {None} = having
  BY <1>2, <1>3, <1>4, <1>5, <1>6
<1>8. <<>> \notin SNssais
  BY SNssaisAssumption
<1> QED
  BY <1>1, <1>7, <1>8 DEF SmDataFits, having

(* A request that gives only a slice, by its whole name, gets that slice,  *)
(* if there is one, and no other; one that gives only a DNN gets the       *)
(* configuration of each slice that has it and, besides empty entries,     *)
(* nothing else: for any number of slices (ManageSmData,                   *)
(* selectSmDataResponse).  It says nothing of a request that gives both.   *)
THEOREM SmDataHolds == Spec => []SmDataByOneParameter
<1> DEFINE Fits == call.of = "GetSmData" => SmDataFits(call.data, call.snssai, call.dnn, result)
<1>1. Init => Fits
  BY DEF Init
<1>2. ASSUME GetSmData
      PROVE  Fits'
  <2>1. PICK data \in SeqUpTo(MaxShared, Slices), snssai \in SNssaiQueries \cup {<<>>}, dnn \in Dnns \cup {None} :
          /\ call' = [of |-> "GetSmData", data |-> data, snssai |-> snssai, dnn |-> dnn]
          /\ result' = SelectSmDataResponse(data, snssai, dnn)
    BY <1>2 DEF GetSmData
  <2>2. PICK n \in Nat : data \in [1..n -> Slices]
    BY BoundsAssumption DEF SeqUpTo
  <2>3. SmDataFits(data, snssai, dnn, result')
    <3>1. CASE snssai \in SNssais /\ dnn = None
      BY <2>1, <2>2, <3>1, SliceFits
    <3>2. CASE snssai = <<>> /\ dnn # None
      BY <2>1, <2>2, <3>2, DnnFits
    <3>3. CASE ~ (snssai \in SNssais /\ dnn = None) /\ ~ (snssai = <<>> /\ dnn # None)
      BY <3>3 DEF SmDataFits
    <3> QED
      BY <3>1, <3>2, <3>3
  <2>4. call'.data = data /\ call'.snssai = snssai /\ call'.dnn = dnn
    BY <2>1
  <2> QED
    BY <2>3, <2>4
<1>3. Fits /\ [Next]_vars => Fits'
  BY <1>2, CalledIs DEF Next, vars
<1>4. Fits => SmDataByOneParameter
  BY SmDataFitsIs
<1> HIDE DEF Fits
<1> QED
  BY <1>1, <1>3, <1>4, PTL DEF Spec

-----------------------------------------------------------------------------
(***************************************************************************)
(* The router of Nudm_SDM.                                                 *)
(***************************************************************************)
LEMMA TailIsWithin ==
  ASSUME NEW W, NEW p \in Seq(W), p # <<>>
  PROVE  Within(Tail(p), p)
<1>1. Len(p) \in Nat \ {0} /\ Len(Tail(p)) = Len(p) - 1
  OBVIOUS
<1>2. 2 + Len(Tail(p)) - 1 = Len(p)
  BY <1>1
<1>3. SubSeq(p, 2, Len(p)) = Tail(p)
  BY <1>1
<1>4. 2 \in 1..(Len(p) - Len(Tail(p)) + 1)
  BY <1>1
<1> QED
  BY <1>2, <1>3, <1>4 DEF Within

(* A name without some word of another one does not contain that one.      *)
LEMMA MissesAWord ==
  ASSUME NEW W, NEW m \in Seq(W), NEW n \in Seq(W),
         NEW k \in 1..Len(m), \A i \in 1..Len(n) : n[i] # m[k]
  PROVE  ~ Within(m, n)
<1> SUFFICES ASSUME NEW i \in 1..(Len(n) - Len(m) + 1),
                    SubSeq(n, i, i + Len(m) - 1) = m
             PROVE  FALSE
  BY DEF Within
<1>1. Len(n) \in Nat /\ Len(m) \in Nat /\ k \in Nat /\ i \in Nat
  OBVIOUS
<1>2. SubSeq(n, i, i + Len(m) - 1)[k] = n[i + k - 1] /\ i + k - 1 \in 1..Len(n)
  BY <1>1
<1> QED
  BY <1>2

(* The route that is taken, if any.                                        *)
IsFirst(table, segment, method, j) ==
  /\ DOMAIN table \subseteq Nat
  /\ j \in DOMAIN table
  /\ Within(segment, table[j].pattern) /\ table[j].method = method
  /\ \A k \in DOMAIN table :
       k < j /\ table[k].method = method => ~ Within(segment, table[k].pattern)

LEMMA InTableIs ==
  ASSUME NEW table, NEW segment, NEW method, NEW otherwise, NEW j,
         IsFirst(table, segment, method, j)
  PROVE  InTable(table, segment, method, otherwise) = table[j].handler
<1> DEFINE fits == {i \in DOMAIN table : Within(segment, table[i].pattern) /\ table[i].method = method}
<1>1. InTable(table, segment, method, otherwise) =
        IF fits = {} THEN otherwise ELSE table[FirstOf(fits)].handler
  BY Zenon DEF InTable, Indices
<1>2. j \in fits /\ fits \in SUBSET Nat
  BY DEF IsFirst
<1>3. FirstOf(fits) \in fits /\ FirstOf(fits) <= j
  BY <1>2, FirstOfIs
<1>4. \A k \in fits : ~ (k < j)
  BY DEF IsFirst
<1>5. FirstOf(fits) = j
  BY <1>2, <1>3, <1>4
<1> QED
  BY <1>1, <1>2, <1>5

NoneFits(table, segment, method) ==
  \A k \in DOMAIN table : table[k].method = method => ~ Within(segment, table[k].pattern)

LEMMA NotInTable ==
  ASSUME NEW table, NEW segment, NEW method, NEW otherwise, NoneFits(table, segment, method)
  PROVE  InTable(table, segment, method, otherwise) = otherwise
  BY Zenon DEF InTable, Indices, NoneFits

(* The words of a name.                                                    *)
Words(n) == {n[i] : i \in 1..Len(n)}

LEMMA MissesTheWord ==
  ASSUME NEW W, NEW m \in Seq(W), NEW n \in Seq(W), NEW w \in Words(m) \ Words(n)
  PROVE  ~ Within(m, n)
  BY MissesAWord DEF Words

(* A segment has the words of its pattern that come after ":supi".         *)
LEMMA WordsOfTail ==
  ASSUME NEW W, NEW p \in Seq(W), p # <<>>
  PROVE  /\ Tail(p) \in Seq(W)
         /\ Words(p) \ {p[1]} \subseteq Words(Tail(p))
<1>1. Len(p) \in Nat \ {0} /\ Tail(p) \in Seq(W) /\ Len(Tail(p)) = Len(p) - 1
  OBVIOUS
<1>2. ASSUME NEW i \in 1..Len(p), p[i] # p[1]
      PROVE  i - 1 \in 1..Len(Tail(p)) /\ Tail(p)[i - 1] = p[i]
  <2>1. i # 1
    BY <1>2
  <2> QED
    BY <1>1, <2>1
<1> QED
  BY <1>1, <1>2 DEF Words

(* The table, and its words.                                               *)
TableWords ==
  {":supi", "am", "data", "smf", "select", "sms", "mng", "sm", "nssai", "sdm", "subscriptions",
   "trace", "ue", "context", "in", "smsf"}

LEMMA PatternsAre ==
  /\ DOMAIN TwoLayerPathRouter = 1..10
  /\ TwoLayerPathRouter[1].pattern = <<":supi", "am", "data">>
  /\ TwoLayerPathRouter[2].pattern = <<":supi", "smf", "select", "data">>
  /\ TwoLayerPathRouter[3].pattern = <<":supi", "sms", "mng", "data">>
  /\ TwoLayerPathRouter[4].pattern = <<":supi", "sms", "data">>
  /\ TwoLayerPathRouter[5].pattern = <<":supi", "sm", "data">>
  /\ TwoLayerPathRouter[6].pattern = <<":supi", "nssai">>
  /\ TwoLayerPathRouter[7].pattern = <<":supi", "sdm", "subscriptions">>
  /\ TwoLayerPathRouter[8].pattern = <<":supi", "trace", "data">>
  /\ TwoLayerPathRouter[9].pattern = <<":supi", "ue", "context", "in", "smf", "data">>
  /\ TwoLayerPathRouter[10].pattern = <<":supi", "ue", "context", "in", "smsf", "data">>
  BY DEF TwoLayerPathRouter, Route

LEMMA PatternsAreNames ==
  \A j \in 1..10 : /\ TwoLayerPathRouter[j].pattern \in Seq(TableWords)
                   /\ TwoLayerPathRouter[j].pattern # <<>>
                   /\ TwoLayerPathRouter[j].pattern[1] = ":supi"
<1>1. /\ TwoLayerPathRouter[1].pattern \in Seq(TableWords)
      /\ TwoLayerPathRouter[1].pattern # <<>>
      /\ TwoLayerPathRouter[1].pattern[1] = ":supi"
  <2>1. /\ <<":supi", "am", "data">> \in Seq(TableWords)
        /\ <<":supi", "am", "data">> # <<>>
        /\ <<":supi", "am", "data">>[1] = ":supi"
    BY DEF TableWords
  <2> QED
    BY <2>1, PatternsAre
<1>2. /\ TwoLayerPathRouter[2].pattern \in Seq(TableWords)
      /\ TwoLayerPathRouter[2].pattern # <<>>
      /\ TwoLayerPathRouter[2].pattern[1] = ":supi"
  <2>1. /\ <<":supi", "smf", "select", "data">> \in Seq(TableWords)
        /\ <<":supi", "smf", "select", "data">> # <<>>
        /\ <<":supi", "smf", "select", "data">>[1] = ":supi"
    BY DEF TableWords
  <2> QED
    BY <2>1, PatternsAre
<1>3. /\ TwoLayerPathRouter[3].pattern \in Seq(TableWords)
      /\ TwoLayerPathRouter[3].pattern # <<>>
      /\ TwoLayerPathRouter[3].pattern[1] = ":supi"
  <2>1. /\ <<":supi", "sms", "mng", "data">> \in Seq(TableWords)
        /\ <<":supi", "sms", "mng", "data">> # <<>>
        /\ <<":supi", "sms", "mng", "data">>[1] = ":supi"
    BY DEF TableWords
  <2> QED
    BY <2>1, PatternsAre
<1>4. /\ TwoLayerPathRouter[4].pattern \in Seq(TableWords)
      /\ TwoLayerPathRouter[4].pattern # <<>>
      /\ TwoLayerPathRouter[4].pattern[1] = ":supi"
  <2>1. /\ <<":supi", "sms", "data">> \in Seq(TableWords)
        /\ <<":supi", "sms", "data">> # <<>>
        /\ <<":supi", "sms", "data">>[1] = ":supi"
    BY DEF TableWords
  <2> QED
    BY <2>1, PatternsAre
<1>5. /\ TwoLayerPathRouter[5].pattern \in Seq(TableWords)
      /\ TwoLayerPathRouter[5].pattern # <<>>
      /\ TwoLayerPathRouter[5].pattern[1] = ":supi"
  <2>1. /\ <<":supi", "sm", "data">> \in Seq(TableWords)
        /\ <<":supi", "sm", "data">> # <<>>
        /\ <<":supi", "sm", "data">>[1] = ":supi"
    BY DEF TableWords
  <2> QED
    BY <2>1, PatternsAre
<1>6. /\ TwoLayerPathRouter[6].pattern \in Seq(TableWords)
      /\ TwoLayerPathRouter[6].pattern # <<>>
      /\ TwoLayerPathRouter[6].pattern[1] = ":supi"
  <2>1. /\ <<":supi", "nssai">> \in Seq(TableWords)
        /\ <<":supi", "nssai">> # <<>>
        /\ <<":supi", "nssai">>[1] = ":supi"
    BY DEF TableWords
  <2> QED
    BY <2>1, PatternsAre
<1>7. /\ TwoLayerPathRouter[7].pattern \in Seq(TableWords)
      /\ TwoLayerPathRouter[7].pattern # <<>>
      /\ TwoLayerPathRouter[7].pattern[1] = ":supi"
  <2>1. /\ <<":supi", "sdm", "subscriptions">> \in Seq(TableWords)
        /\ <<":supi", "sdm", "subscriptions">> # <<>>
        /\ <<":supi", "sdm", "subscriptions">>[1] = ":supi"
    BY DEF TableWords
  <2> QED
    BY <2>1, PatternsAre
<1>8. /\ TwoLayerPathRouter[8].pattern \in Seq(TableWords)
      /\ TwoLayerPathRouter[8].pattern # <<>>
      /\ TwoLayerPathRouter[8].pattern[1] = ":supi"
  <2>1. /\ <<":supi", "trace", "data">> \in Seq(TableWords)
        /\ <<":supi", "trace", "data">> # <<>>
        /\ <<":supi", "trace", "data">>[1] = ":supi"
    BY DEF TableWords
  <2> QED
    BY <2>1, PatternsAre
<1>9. /\ TwoLayerPathRouter[9].pattern \in Seq(TableWords)
      /\ TwoLayerPathRouter[9].pattern # <<>>
      /\ TwoLayerPathRouter[9].pattern[1] = ":supi"
  <2>1. /\ <<":supi", "ue", "context", "in", "smf", "data">> \in Seq(TableWords)
        /\ <<":supi", "ue", "context", "in", "smf", "data">> # <<>>
        /\ <<":supi", "ue", "context", "in", "smf", "data">>[1] = ":supi"
    BY DEF TableWords
  <2> QED
    BY <2>1, PatternsAre
<1>10. /\ TwoLayerPathRouter[10].pattern \in Seq(TableWords)
      /\ TwoLayerPathRouter[10].pattern # <<>>
      /\ TwoLayerPathRouter[10].pattern[1] = ":supi"
  <2>1. /\ <<":supi", "ue", "context", "in", "smsf", "data">> \in Seq(TableWords)
        /\ <<":supi", "ue", "context", "in", "smsf", "data">> # <<>>
        /\ <<":supi", "ue", "context", "in", "smsf", "data">>[1] = ":supi"
    BY DEF TableWords
  <2> QED
    BY <2>1, PatternsAre
<1>11. \A j \in 1..10 : j \in {1, 2, 3, 4, 5, 6, 7, 8, 9, 10}
  OBVIOUS
<1> QED
  BY <1>1, <1>2, <1>3, <1>4, <1>5, <1>6, <1>7, <1>8, <1>9, <1>10, <1>11, Zenon

LEMMA WordsOfPatterns ==
  /\ Words(TwoLayerPathRouter[1].pattern) = {":supi", "am", "data"}
  /\ Words(TwoLayerPathRouter[2].pattern) = {":supi", "smf", "select", "data"}
  /\ Words(TwoLayerPathRouter[3].pattern) = {":supi", "sms", "mng", "data"}
  /\ Words(TwoLayerPathRouter[4].pattern) = {":supi", "sms", "data"}
  /\ Words(TwoLayerPathRouter[5].pattern) = {":supi", "sm", "data"}
  /\ Words(TwoLayerPathRouter[6].pattern) = {":supi", "nssai"}
  /\ Words(TwoLayerPathRouter[7].pattern) = {":supi", "sdm", "subscriptions"}
  /\ Words(TwoLayerPathRouter[8].pattern) = {":supi", "trace", "data"}
  /\ Words(TwoLayerPathRouter[9].pattern) = {":supi", "ue", "context", "in", "smf", "data"}
  /\ Words(TwoLayerPathRouter[10].pattern) = {":supi", "ue", "context", "in", "smsf", "data"}
<1>1. Words(<<":supi", "am", "data">>) = {":supi", "am", "data"}
  BY DEF Words
<1>2. Words(<<":supi", "smf", "select", "data">>) = {":supi", "smf", "select", "data"}
  BY DEF Words
<1>3. Words(<<":supi", "sms", "mng", "data">>) = {":supi", "sms", "mng", "data"}
  BY DEF Words
<1>4. Words(<<":supi", "sms", "data">>) = {":supi", "sms", "data"}
  BY DEF Words
<1>5. Words(<<":supi", "sm", "data">>) = {":supi", "sm", "data"}
  BY DEF Words
<1>6. Words(<<":supi", "nssai">>) = {":supi", "nssai"}
  BY DEF Words
<1>7. Words(<<":supi", "sdm", "subscriptions">>) = {":supi", "sdm", "subscriptions"}
  BY DEF Words
<1>8. Words(<<":supi", "trace", "data">>) = {":supi", "trace", "data"}
  BY DEF Words
<1>9. Words(<<":supi", "ue", "context", "in", "smf", "data">>) = {":supi", "ue", "context", "in", "smf", "data"}
  BY DEF Words
<1>10. Words(<<":supi", "ue", "context", "in", "smsf", "data">>) = {":supi", "ue", "context", "in", "smsf", "data"}
  BY DEF Words
<1> QED
  BY PatternsAre, <1>1, <1>2, <1>3, <1>4, <1>5, <1>6, <1>7, <1>8, <1>9, <1>10

(* The names of two words that sets the third route apart from the fourth. *)
LEMMA SmsDataIsNotSmsMngData ==
  ~ Within(<<"sms", "data">>, <<":supi", "sms", "mng", "data">>)
<1> DEFINE n == <<":supi", "sms", "mng", "data">>
<1>1. n[1] # "sms" /\ n[3] # "sms" /\ n[3] # "data"
  OBVIOUS
<1>2. ASSUME NEW i \in 1..3
      PROVE  SubSeq(n, i, i + 1)[1] = n[i] /\ SubSeq(n, i, i + 1)[2] = n[i + 1]
  OBVIOUS
<1>3. <<"sms", "data">>[1] = "sms" /\ <<"sms", "data">>[2] = "data"
  OBVIOUS
<1>4. Len(n) - Len(<<"sms", "data">>) + 1 = 3 /\ \A i \in 1..3 : i + Len(<<"sms", "data">>) - 1 = i + 1
  OBVIOUS
<1> HIDE DEF n
<1>5. ASSUME NEW i \in 1..3
      PROVE  SubSeq(n, i, i + 1) # <<"sms", "data">>
  <2>1. ~ (n[i] = "sms" /\ n[i + 1] = "data")
    BY <1>1
  <2> QED
    BY <1>2, <1>3, <2>1
<1>6. ~ Within(<<"sms", "data">>, n)
  BY <1>4, <1>5 DEF Within
<1> QED
  BY <1>6 DEF n

(* No route contains the segment of a later one.                           *)
LEMMA NoRouteShadows ==
  ASSUME NEW j \in 1..10, NEW k \in 1..(j - 1)
  PROVE  ~ Within(Tail(TwoLayerPathRouter[j].pattern), TwoLayerPathRouter[k].pattern)
<1>1. j \in {2, 3, 4, 5, 6, 7, 8, 9, 10} /\ k \in 1..10
  OBVIOUS
<1>2. ASSUME NEW w \in Words(TwoLayerPathRouter[j].pattern), w # ":supi",
             w \notin Words(TwoLayerPathRouter[k].pattern)
      PROVE  ~ Within(Tail(TwoLayerPathRouter[j].pattern), TwoLayerPathRouter[k].pattern)
  <2>1. /\ TwoLayerPathRouter[k].pattern \in Seq(TableWords)
        /\ Tail(TwoLayerPathRouter[j].pattern) \in Seq(TableWords)
        /\ w \in Words(Tail(TwoLayerPathRouter[j].pattern))
    BY <1>1, <1>2, PatternsAreNames, WordsOfTail
  <2> QED
    BY <1>2, <2>1, MissesTheWord
<1>3. CASE j = 2
  <2>1. /\ "smf" \in Words(TwoLayerPathRouter[2].pattern)
        /\ \A i \in 1..1 : "smf" \notin Words(TwoLayerPathRouter[i].pattern)
    BY WordsOfPatterns
  <2> QED
    BY <1>2, <1>3, <2>1
<1>4. CASE j = 3
  <2>1. /\ "sms" \in Words(TwoLayerPathRouter[3].pattern)
        /\ \A i \in 1..2 : "sms" \notin Words(TwoLayerPathRouter[i].pattern)
    BY WordsOfPatterns
  <2> QED
    BY <1>2, <1>4, <2>1
<1>5. CASE j = 5
  <2>1. /\ "sm" \in Words(TwoLayerPathRouter[5].pattern)
        /\ \A i \in 1..4 : "sm" \notin Words(TwoLayerPathRouter[i].pattern)
    BY WordsOfPatterns
  <2> QED
    BY <1>2, <1>5, <2>1
<1>6. CASE j = 6
  <2>1. /\ "nssai" \in Words(TwoLayerPathRouter[6].pattern)
        /\ \A i \in 1..5 : "nssai" \notin Words(TwoLayerPathRouter[i].pattern)
    BY WordsOfPatterns
  <2> QED
    BY <1>2, <1>6, <2>1
<1>7. CASE j = 7
  <2>1. /\ "sdm" \in Words(TwoLayerPathRouter[7].pattern)
        /\ \A i \in 1..6 : "sdm" \notin Words(TwoLayerPathRouter[i].pattern)
    BY WordsOfPatterns
  <2> QED
    BY <1>2, <1>7, <2>1
<1>8. CASE j = 8
  <2>1. /\ "trace" \in Words(TwoLayerPathRouter[8].pattern)
        /\ \A i \in 1..7 : "trace" \notin Words(TwoLayerPathRouter[i].pattern)
    BY WordsOfPatterns
  <2> QED
    BY <1>2, <1>8, <2>1
<1>9. CASE j = 9
  <2>1. /\ "ue" \in Words(TwoLayerPathRouter[9].pattern)
        /\ \A i \in 1..8 : "ue" \notin Words(TwoLayerPathRouter[i].pattern)
    BY WordsOfPatterns
  <2> QED
    BY <1>2, <1>9, <2>1
<1>10. CASE j = 10
  <2>1. /\ "smsf" \in Words(TwoLayerPathRouter[10].pattern)
        /\ \A i \in 1..9 : "smsf" \notin Words(TwoLayerPathRouter[i].pattern)
    BY WordsOfPatterns
  <2> QED
    BY <1>2, <1>10, <2>1
<1>11. CASE j = 4 /\ k < 3
  <2>1. /\ "sms" \in Words(TwoLayerPathRouter[4].pattern)
        /\ \A i \in 1..2 : "sms" \notin Words(TwoLayerPathRouter[i].pattern)
    BY WordsOfPatterns
  <2> QED
    BY <1>2, <1>11, <2>1
<1>12. CASE j = 4 /\ k = 3
  <2>1. Tail(<<":supi", "sms", "data">>) = <<"sms", "data">>
    OBVIOUS
  <2> QED
    BY <1>12, <2>1, PatternsAre, SmsDataIsNotSmsMngData
<1> QED
  BY <1>1, <1>3, <1>4, <1>5, <1>6, <1>7, <1>8, <1>9, <1>10, <1>11, <1>12

LEMMA RouteIs ==
  ASSUME NEW pattern, NEW method, NEW handler
  PROVE  /\ Route(pattern, method, handler).pattern = pattern
         /\ Route(pattern, method, handler).method = method
         /\ Route(pattern, method, handler).handler = handler
  BY DEF Route

LEMMA OneLayerIs ==
  /\ DOMAIN OneLayerPathRouter = 1..3
  /\ OneLayerPathRouter[1] = Route(<<":supi">>, "GET", "GetSupi")
  /\ OneLayerPathRouter[2] = Route(<<"shared", "data">>, "GET", "GetSharedData")
  /\ OneLayerPathRouter[3] = Route(SharedSubscriptions, "POST", "SubscribeToSharedData")
  BY DEF OneLayerPathRouter

LEMMA SubscriberIsServed ==
  ASSUME NEW s \in Subscribers
  PROVE  oneLayerPathHandlerFunc(<<s>>, "GET") = "GetSupi"
<1>0. oneLayerPathHandlerFunc(<<s>>, "GET") = InTable(OneLayerPathRouter, s, "GET", "GetSupi")
  BY DEF oneLayerPathHandlerFunc
<1>1. /\ OneLayerPathRouter[1].method = "GET" /\ OneLayerPathRouter[1].handler = "GetSupi"
      /\ OneLayerPathRouter[2].pattern = <<"shared", "data">>
      /\ OneLayerPathRouter[3].method = "POST"
  BY OneLayerIs, RouteIs
<1>2. \A k \in 1..3 : k \in {1, 2, 3} /\ (k < 1 => FALSE)
  OBVIOUS
<1>3. CASE Within(s, OneLayerPathRouter[1].pattern)
  <2>1. IsFirst(OneLayerPathRouter, s, "GET", 1)
    BY <1>1, <1>3, OneLayerIs DEF IsFirst
  <2> QED
    BY <1>0, <1>1, <2>1, InTableIs
<1>4. CASE ~ Within(s, OneLayerPathRouter[1].pattern)
  <2>1. ~ Within(s, OneLayerPathRouter[2].pattern)
    BY <1>1, SubscribersAssumption
  <2>2. NoneFits(OneLayerPathRouter, s, "GET")
    BY <1>1, <1>2, <1>4, <2>1, OneLayerIs DEF NoneFits
  <2> QED
    BY <1>0, <2>2, NotInTable
<1> QED
  BY <1>3, <1>4

LEMMA SharedIsServed ==
  /\ oneLayerPathHandlerFunc(<<<<"shared", "data">>>>, "GET") = "GetSharedData"
  /\ oneLayerPathHandlerFunc(<<SharedSubscriptions>>, "POST") = "SubscribeToSharedData"
<1> DEFINE W == {":supi", "shared", "data", "subscriptions"}
<1>1. /\ OneLayerPathRouter[1].pattern = <<":supi">> /\ OneLayerPathRouter[1].method = "GET"
      /\ OneLayerPathRouter[2].pattern = <<"shared", "data">> /\ OneLayerPathRouter[2].method = "GET"
      /\ OneLayerPathRouter[2].handler = "GetSharedData"
      /\ OneLayerPathRouter[3].pattern = SharedSubscriptions /\ OneLayerPathRouter[3].method = "POST"
      /\ OneLayerPathRouter[3].handler = "SubscribeToSharedData"
  BY OneLayerIs, RouteIs
<1>2. <<":supi">> \in Seq(W) /\ <<"shared", "data">> \in Seq(W) /\ SharedSubscriptions \in Seq(W)
  BY DEF SharedSubscriptions
<1>3. ~ Within(<<"shared", "data">>, <<":supi">>)
  <2>1. Words(<<":supi">>) = {":supi"} /\ Words(<<"shared", "data">>) = {"shared", "data"}
    BY DEF Words
  <2>2. "shared" \in Words(<<"shared", "data">>) \ Words(<<":supi">>)
    BY <2>1
  <2> HIDE DEF W
  <2> QED
    BY <1>2, <2>2, MissesTheWord
<1>4. Within(<<"shared", "data">>, <<"shared", "data">>) /\ Within(SharedSubscriptions, SharedSubscriptions)
  BY <1>2, WithinItself
<1> HIDE DEF W
<1>5. oneLayerPathHandlerFunc(<<<<"shared", "data">>>>, "GET") = "GetSharedData"
  <2>1. oneLayerPathHandlerFunc(<<<<"shared", "data">>>>, "GET") =
          InTable(OneLayerPathRouter, <<"shared", "data">>, "GET", "GetSupi")
    BY DEF oneLayerPathHandlerFunc
  <2>2. IsFirst(OneLayerPathRouter, <<"shared", "data">>, "GET", 2)
    BY <1>1, <1>3, <1>4, OneLayerIs DEF IsFirst
  <2> QED
    BY <1>1, <2>1, <2>2, InTableIs
<1>6. oneLayerPathHandlerFunc(<<SharedSubscriptions>>, "POST") = "SubscribeToSharedData"
  <2>1. oneLayerPathHandlerFunc(<<SharedSubscriptions>>, "POST") =
          InTable(OneLayerPathRouter, SharedSubscriptions, "POST", "404")
    BY DEF oneLayerPathHandlerFunc
  <2>2. IsFirst(OneLayerPathRouter, SharedSubscriptions, "POST", 3)
    BY <1>1, <1>4, OneLayerIs DEF IsFirst
  <2> QED
    BY <1>1, <2>1, <2>2, InTableIs
<1> QED
  BY <1>5, <1>6

LEMMA DatasetIsServed ==
  ASSUME NEW s, NEW j \in 1..10
  PROVE  twoLayerPathHandlerFunc(<<s, Tail(TwoLayerPathRouter[j].pattern)>>, TwoLayerPathRouter[j].method)
           = TwoLayerPathRouter[j].handler
<1> DEFINE segment == Tail(TwoLayerPathRouter[j].pattern)
           method == TwoLayerPathRouter[j].method
<1>1. method \in {"GET", "POST"}
  <2>1. \A i \in 1..10 : i \in {1, 2, 3, 4, 5, 6, 7, 8, 9, 10}
    OBVIOUS
  <2>2. /\ TwoLayerPathRouter[1].method = "GET" /\ TwoLayerPathRouter[2].method = "GET"
        /\ TwoLayerPathRouter[3].method = "GET" /\ TwoLayerPathRouter[4].method = "GET"
        /\ TwoLayerPathRouter[5].method = "GET" /\ TwoLayerPathRouter[6].method = "GET"
        /\ TwoLayerPathRouter[7].method = "POST" /\ TwoLayerPathRouter[8].method = "GET"
        /\ TwoLayerPathRouter[9].method = "GET" /\ TwoLayerPathRouter[10].method = "GET"
    BY DEF TwoLayerPathRouter, Route
  <2> QED
    BY <2>1, <2>2, Zenon
<1>2. segment # <<"id", "translation", "result">>
  <2>1. segment \in Seq(TableWords)
    BY PatternsAreNames, WordsOfTail
  <2>2. Words(<<"id", "translation", "result">>) = {"id", "translation", "result"}
    BY DEF Words
  <2>3. \A m \in Seq(TableWords) : Words(m) \subseteq TableWords
    BY DEF Words
  <2>4. "id" \notin TableWords
    BY DEF TableWords
  <2> QED
    BY <2>1, <2>2, <2>3, <2>4
<1>3. Within(segment, TwoLayerPathRouter[j].pattern)
  BY PatternsAreNames, TailIsWithin
<1>4. IsFirst(TwoLayerPathRouter, segment, method, j)
  <2>1. \A k \in 1..10 : k < j => k \in 1..(j - 1)
    OBVIOUS
  <2>2. 1..10 \subseteq Nat
    OBVIOUS
  <2> QED
    BY <1>3, <2>1, <2>2, PatternsAre, NoRouteShadows DEF IsFirst
<1>5. InTable(TwoLayerPathRouter, segment, method, "404") = TwoLayerPathRouter[j].handler
  BY <1>4, InTableIs
<1> HIDE DEF segment, method
<1>6. method # "DELETE" /\ method # "PATCH"
  BY <1>1
<1>7. <<s, segment>>[2] = segment
  OBVIOUS
<1>8. twoLayerPathHandlerFunc(<<s, segment>>, method) = InTable(TwoLayerPathRouter, segment, method, "404")
  BY <1>2, <1>6, <1>7, Zenon DEF twoLayerPathHandlerFunc
<1> QED
  BY <1>5, <1>8 DEF segment, method

(* The handler of a request.                                               *)
Served(path, method) ==
  CASE Len(path) = 1 -> oneLayerPathHandlerFunc(path, method)
    [] Len(path) = 2 -> twoLayerPathHandlerFunc(path, method)
    [] Len(path) = 3 -> threeLayerPathHandlerFunc(path, method)

LEMMA ServedIs ==
  /\ \A x, m : Served(<<x>>, m) = oneLayerPathHandlerFunc(<<x>>, m)
  /\ \A x, y, m : Served(<<x, y>>, m) = twoLayerPathHandlerFunc(<<x, y>>, m)
  /\ \A x, y, z, m : Served(<<x, y, z>>, m) = threeLayerPathHandlerFunc(<<x, y, z>>, m)
  BY DEF Served

(* A route is served by the handler it names, except the acknowledgement   *)
(* of a UE parameters update.                                              *)
IsServed(o) ==
  \/ Served(o.pattern, o.method) = o.handler
  \/ o.handler = "PutUpuAck" /\ Served(o.pattern, o.method) = "Info"

LEMMA RouteIsServed ==
  ASSUME NEW pattern, NEW method, NEW handler, Served(pattern, method) = handler
  PROVE  IsServed(Route(pattern, method, handler))
  BY RouteIs DEF IsServed

LEMMA SharedOperationIsServed ==
  ASSUME NEW o \in SharedOperations
  PROVE  IsServed(o)
<1>1. ASSUME NEW i \in 2..3,
             o = Route(<<OneLayerPathRouter[i].pattern>>, OneLayerPathRouter[i].method, OneLayerPathRouter[i].handler)
      PROVE  IsServed(o)
  <2>1. /\ OneLayerPathRouter[2].pattern = <<"shared", "data">> /\ OneLayerPathRouter[2].method = "GET"
        /\ OneLayerPathRouter[2].handler = "GetSharedData"
        /\ OneLayerPathRouter[3].pattern = SharedSubscriptions /\ OneLayerPathRouter[3].method = "POST"
        /\ OneLayerPathRouter[3].handler = "SubscribeToSharedData"
    BY OneLayerIs, RouteIs
  <2>2. i = 2 \/ i = 3
    OBVIOUS
  <2>3. oneLayerPathHandlerFunc(<<OneLayerPathRouter[i].pattern>>, OneLayerPathRouter[i].method) =
          OneLayerPathRouter[i].handler
    BY <2>1, <2>2, SharedIsServed
  <2> QED
    BY <1>1, <2>3, ServedIs, RouteIsServed
<1>2. ASSUME NEW d, o = Route(<<SharedSubscriptions, d>>, "DELETE", "UnsubscribeForSharedData")
      PROVE  IsServed(o)
  <2>1. twoLayerPathHandlerFunc(<<SharedSubscriptions, d>>, "DELETE") = "UnsubscribeForSharedData"
    BY DEF twoLayerPathHandlerFunc
  <2> QED
    BY <1>2, <2>1, ServedIs, RouteIsServed
<1>3. ASSUME NEW d, o = Route(<<SharedSubscriptions, d>>, "PATCH", "ModifyForSharedData")
      PROVE  IsServed(o)
  <2>1. twoLayerPathHandlerFunc(<<SharedSubscriptions, d>>, "PATCH") = "ModifyForSharedData"
    BY DEF twoLayerPathHandlerFunc
  <2> QED
    BY <1>3, <2>1, ServedIs, RouteIsServed
<1> QED
  BY <1>1, <1>2, <1>3 DEF SharedOperations

LEMMA SubscribersOperationIsServed ==
  ASSUME NEW s \in Subscribers, NEW o \in OperationsOf(s)
  PROVE  IsServed(o)
<1>1. CASE o = Route(<<s>>, "GET", "GetSupi")
  BY <1>1, ServedIs, SubscriberIsServed, RouteIsServed
<1>2. CASE o = Route(<<s, <<"id", "translation", "result">>>>, "GET", "GetIdTranslationResult")
  <2>1. twoLayerPathHandlerFunc(<<s, <<"id", "translation", "result">>>>, "GET") = "GetIdTranslationResult"
    BY DEF twoLayerPathHandlerFunc
  <2> QED
    BY <1>2, <2>1, ServedIs, RouteIsServed
<1>3. CASE o = Route(<<s, <<"am", "data">>, <<"sor", "ack">>>>, "PUT", "Info")
  <2>1. threeLayerPathHandlerFunc(<<s, <<"am", "data">>, <<"sor", "ack">>>>, "PUT") = "Info"
    BY DEF threeLayerPathHandlerFunc
  <2> QED
    BY <1>3, <2>1, ServedIs, RouteIsServed
<1>4. ASSUME NEW i \in DOMAIN TwoLayerPathRouter,
             o = Route(<<s, Tail(TwoLayerPathRouter[i].pattern)>>, TwoLayerPathRouter[i].method,
                       TwoLayerPathRouter[i].handler)
      PROVE  IsServed(o)
  <2>1. twoLayerPathHandlerFunc(<<s, Tail(TwoLayerPathRouter[i].pattern)>>, TwoLayerPathRouter[i].method)
          = TwoLayerPathRouter[i].handler
    BY PatternsAre, DatasetIsServed
  <2> QED
    BY <1>4, <2>1, ServedIs, RouteIsServed
<1>5. ASSUME NEW d, o = Route(<<s, <<"sdm", "subscriptions">>, d>>, "DELETE", "Unsubscribe")
      PROVE  IsServed(o)
  <2>1. threeLayerPathHandlerFunc(<<s, <<"sdm", "subscriptions">>, d>>, "DELETE") = "Unsubscribe"
    BY DEF threeLayerPathHandlerFunc
  <2> QED
    BY <1>5, <2>1, ServedIs, RouteIsServed
<1>6. ASSUME NEW d, o = Route(<<s, <<"sdm", "subscriptions">>, d>>, "PATCH", "Modify")
      PROVE  IsServed(o)
  <2>1. threeLayerPathHandlerFunc(<<s, <<"sdm", "subscriptions">>, d>>, "PATCH") = "Modify"
    BY DEF threeLayerPathHandlerFunc
  <2> QED
    BY <1>6, <2>1, ServedIs, RouteIsServed
<1>7. CASE o = Route(<<s, <<"am", "data">>, <<"upu", "ack">>>>, "PUT", "PutUpuAck")
  <2>1. threeLayerPathHandlerFunc(<<s, <<"am", "data">>, <<"upu", "ack">>>>, "PUT") = "Info"
    BY DEF threeLayerPathHandlerFunc
  <2>2. Served(<<s, <<"am", "data">>, <<"upu", "ack">>>>, "PUT") = "Info"
    BY <2>1, ServedIs
  <2> QED
    BY <1>7, <2>2, RouteIs DEF IsServed
<1> QED
  BY <1>1, <1>2, <1>3, <1>4, <1>5, <1>6, <1>7, Zenon DEF OperationsOf

(* Although the tables are searched by containment, every operation but    *)
(* PutUpuAck is reached by its own path and method, whatever identities    *)
(* and ids there are (oneLayerPathHandlerFunc and the like in routers.go). *)
THEOREM OperationsHold == Spec => []OperationsAreReached
<1> DEFINE Fits == call.of = "ServeSdm" => result = Served(call.path, call.method)
<1>1. Init => Fits
  BY DEF Init
<1>2. ASSUME ServeSdm
      PROVE  Fits'
  <2>1. PICK path, method : /\ call' = [of |-> "ServeSdm", path |-> path, method |-> method]
                            /\ result' = Served(path, method)
    BY <1>2, Zenon DEF ServeSdm, Served
  <2>2. call'.path = path /\ call'.method = method
    BY <2>1
  <2> QED
    BY <2>1, <2>2
<1>3. Fits /\ [Next]_vars => Fits'
  BY <1>2, CalledIs DEF Next, vars
<1>4. Fits => OperationsAreReached
  BY SharedOperationIsServed, SubscribersOperationIsServed, Zenon
  DEF OperationsAreReached, Operations, IsServed
<1> HIDE DEF Fits
<1> QED
  BY <1>1, <1>3, <1>4, PTL DEF Spec
=============================================================================
