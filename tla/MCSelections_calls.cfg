CONSTANTS
  None = None
  NfFqdn = NfFqdn
  ServiceFqdn = ServiceFqdn
  ApiPrefix = ApiPrefix
  OtherPrefix = OtherPrefix
  Profiles <- MCProfiles
  MaxProfiles = 1
  SharedIds <- MCSharedIds
  MaxShared = 3
  SNssais <- MCSNssais
  SNssaiQueries <- MCSNssaiQueries
  Dnns = {internet, ims}
  Identities <- MCIdentities
  Segments <- MCSegments
  Subscribers <- MCSubscribers
  Ids <- MCIds
SPECIFICATION Spec
INVARIANTS
  UdrUriIsUsable
  SharedDataIsTheRequested
  SmDataByOneParameter
  TranslationIsASupi
  OperationsAreReached
CHECK_DEADLOCK FALSE
