SPECIFICATION Spec
CONSTANTS
  Checksum = {adler32, md5}
  PREFERRED_CHECKSUM = adler32
  MaxHops = 2
  NoChecksum = NoChecksum
INVARIANTS
  TypeOK
  StrategyIsCommon
  PickedIsSupported
  PreferredIsUsed
CHECK_DEADLOCK FALSE
