SPECIFICATION FairSpec
CONSTANTS
  MaxVersions = 4
INVARIANTS
  FetchInv
PROPERTIES
  DekNeverGoesBack
  KeyLostOnlyWithProcess
  FetchIsFresh
  ImplementsRegister
  CurrentKeyIsPickedUp
