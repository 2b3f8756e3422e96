SPECIFICATION FairSpec
CONSTANTS
  h1 = h1
  h2 = h2
  adler32 = adler32
  md5 = md5
  Attr <- Attributes
  Path <- Paths
  Round <- Rounds
  Policy <- TwoPolicies
  GroupBulk = 2
  ArchiveTimeoutOverride = "none"
  MaxVersion = 2
  Tagged = {"even"}
  NoHost = NoHost
  NoId = NoId
  Checksum = {adler32, md5}
  PREFERRED_CHECKSUM = adler32
  MaxHops = 3
  NoChecksum = NoChecksum
INVARIANTS TypeOK FilesFit  EachHopOnce IdsRight
PROPERTIES TagsFollow
CHECK_DEADLOCK FALSE
