SPECIFICATION FairSpec
CONSTANTS
  Devices <- MCDevices
  Top = 6
  PerMaker = 4
  StackMax = 4
  LossMax = 2
INVARIANTS
  TypeOK
  StackFits
  Ascending
  AllFound
  MutexReturned
PROPERTIES
  DiscoveryEnds
