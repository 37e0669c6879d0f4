SPECIFICATION FairSpec
CONSTANTS
  Ids <- MCIds
  Devices = {d1}
  Timers = {t1}
  NoTimer = NoTimer
  Timeout = 1
  MaxClients = 2
INVARIANTS TypeOK OwnerConsistent InputOnlyToOwner OnlyOwnerMarkedControlled RotationIsReversible
PROPERTIES DisconnectReleases DesyncHeals ImplementsControlOwner
