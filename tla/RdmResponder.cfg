SPECIFICATION FairSpec
CONSTANTS
  RootParams = 19
  QueueSize = 2
  LanguageLength = 3
  Firmwares <- MCFirmwares
  Requests <- MCRequests
  Settings <- MCSettings
  NoData = NoData
  WriteFails = {TRUE, FALSE}
  MaxChanges = 2
  MaxRestarts = 1
INVARIANTS
  StagedCounts
  NothingForgotten
  
  PersonalityInRange
PROPERTIES
  StoresParameters
  SavedInTheEnd
