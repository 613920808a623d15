\* Two threads that share one name, and a fair JVM.
SPECIFICATION FairSpec
CONSTANTS
  t1 = t1
  t2 = t2
  enter = enter
  inner = inner
  NoThread = NoThread
  NoChain = NoChain
  Threads <- TwoThreads
  Names <- SharedNames
  NameOf <- SharedNameOf
  Methods <- EnterAndInner
  EnterMethods <- OnlyEnter
  MaxCalls = 2
  MaxStops = 1
  MaxTime = 0
INVARIANT CountMatchesCosts
PROPERTY AdviceCompletes
