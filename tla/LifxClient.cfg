SPECIFICATION Spec
CONSTANTS
  MaximumRetry = 5
  EventMax = 2
  ResendPeriod = 2
  WaitTime = 4
  PassMax = 2
  InboxMax = 2
INVARIANTS
  RequestsSpaced
PROPERTIES
  KeepsAsking
  UpKnown
  DownKnown
