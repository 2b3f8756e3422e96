SPECIFICATION FairSpec
CONSTANTS
  a = a
  a_slash = a_slash
  b = b
  Url = {a, a_slash, b}
  Discovered <- NamedIssuer
  MaxGeneration = 2
  NamesAlg = {2}
  NoClient = NoClient
INVARIANTS TypeOK VerifiedByIssuer
PROPERTIES ProviderAccepted RotationFollowed
CHECK_DEADLOCK FALSE
