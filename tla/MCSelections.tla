---------------------------- MODULE MCSelections ----------------------------
(* An instance of Selections for TLC.                                      *)
EXTENDS Selections

(* Addresses of an NF, of a service, and of an API.                        *)
CONSTANTS NfFqdn, ServiceFqdn, ApiPrefix, OtherPrefix

(* A profile and its services have some of their addresses.                *)
MCServices ==
  [name : {"nudr-dr"}, status : {"REGISTERED", "SUSPENDED"}, fqdn : {None, ServiceFqdn},
   apiPrefix : {None, ApiPrefix}, scheme : {"http"},
   endPoints : {<<>>} \cup {<<[ip |-> ip, port |-> port]>> : ip \in {None, "endpoint"}, port \in {0, 8000}}]
  \cup [name : {"nudr-group-id-map"}, status : {"REGISTERED"}, fqdn : {None}, apiPrefix : {OtherPrefix},
        scheme : {"https"}, endPoints : {<<>>, <<[ip |-> "endpoint", port |-> 0]>>}]

MCProfiles ==
  [fqdn : {None, NfFqdn}, ips : {<<>>, <<"address">>, <<None, "address">>}, services : SeqUpTo(2, MCServices)]

(* One id is contained in another one, and one is empty.                   *)
MCSharedIds == {<<"am">>, <<"sm">>, <<"am", "eu">>, <<>>}

(* As JSON: with and without a slice differentiator.                       *)
MCSNssais == {<<"{", "sst1", "}">>, <<"{", "sst1", "sd1", "}">>, <<"{", "sst2", "}">>}
MCSNssaiQueries == MCSNssais \cup {<<"sst1">>}

MCIdentities == {<<"imsi", "1">>, <<"imsi", "2">>, <<"nai", "x">>, <<"nai", "imsi">>}

MCSubscribers == {<<"imsi", "1">>, <<"nai", "x">>}
MCIds == {<<"1">>, <<"2">>}

(* The segments of the routes, and some that are contained in them.        *)
MCSegments ==
  MCSubscribers \cup MCIds
  \cup {Tail(TwoLayerPathRouter[i].pattern) : i \in DOMAIN TwoLayerPathRouter}
  \cup {<<"shared", "data">>, <<"shared", "data", "subscriptions">>, <<"id", "translation", "result">>,
        <<"sor", "ack">>, <<"upu", "ack">>, <<"data">>, <<"subscriptions">>}
=============================================================================
