---------------------------- MODULE MCStatistics ----------------------------
(***************************************************************************)
(* An instance of the report for TLC: a class A in each of two packages,   *)
(* one of them with an overloaded method, and one in the default package.  *)
(***************************************************************************)
EXTENDS Statistics, TLC

ASimple == ("x.A" :> "A") @@ ("y.A" :> "A") @@ ("A" :> "A")
AClassOf == [m \in Methods |-> CASE m \in {"x.A.run()", "x.A.run(int)"} -> "x.A"
                                 [] m = "y.A.run()" -> "y.A"
                                 [] m = "A.run()" -> "A"]
RunName == [m \in Methods |-> "run"]
SomeCosts == {-1, 0, 2}
=============================================================================
