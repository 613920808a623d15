\* All small programs over four classes, an enter method with two calls.
SPECIFICATION FairSpec
CONSTANTS
  Enter = Enter
  Callee = Callee
  Base = Base
  Other = Other
  Array = Array
  run = run
  help = help
  work = work
  init = init
  i = i
  j = j
  Classes <- FourClasses
  Unreadable = {Array}
  Names <- FourNames
  Initializers = {init}
  Descriptors <- TwoDescriptors
  Declared <- ClassFiles
  Superclasses <- SuperclassesOf
  Programs <- SmallPrograms
  Root = Enter
  EnterName = run
  NoMethod = NoMethod
INVARIANTS
  TypeOK
  NestingIsBounded
  FoundIsReachable
  FoundWhole
  EnterCallsFound
  Inv
PROPERTIES
  WalkDescends
  WalkEnds
