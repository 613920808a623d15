\* Two threads with names of their own, nested and recursive calls, one stop.
SPECIFICATION Spec
CONSTANTS
  t1 = t1
  t2 = t2
  enter = enter
  inner = inner
  NoThread = NoThread
  NoChain = NoChain
  Threads <- TwoThreads
  Names <- OwnNames
  NameOf <- OwnNameOf
  Methods <- EnterAndInner
  EnterMethods <- OnlyEnter
  MaxCalls = 2
  MaxStops = 1
  MaxTime = 1
INVARIANTS
  TypeOK
  Inv
  ReportedOnce
  CountMatchesCosts
  NoCallDropped
  BackupComplete
PROPERTIES
  RollLeavesNothing
  LedgerSpec
