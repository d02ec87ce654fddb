SPECIFICATION FairSpec
CONSTANTS
  TickCount = 16
  SendPeriod = 3
  ReadPeriod = 5
  WaitTicks = 1
  DelayMax = 2
PROPERTIES
  KeepsSending
  ChangeShown
