\* The least cost against the column MIN(ms).
SPECIFICATION Spec
CONSTANTS
  ClassNames = {"x.A", "y.A", "A"}
  Simple <- ASimple
  Methods = {"x.A.run()", "x.A.run(int)", "y.A.run()", "A.run()"}
  ClassOf <- AClassOf
  NameOf <- RunName
  Costs <- SomeCosts
  MaxRecords = 3
  MaxCosts = 2
  Share = 2
INVARIANTS
  MinIsLeastCost
