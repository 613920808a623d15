------------------------ MODULE MCTimeCostManager ------------------------
(***************************************************************************)
(* Instances of the recorder for TLC.  Two threads either have names of    *)
(* their own or share one; enter is the method given with -m, inner any    *)
(* other instrumented method.                                              *)
(***************************************************************************)
EXTENDS TimeCostManager, TLC

CONSTANTS t1, t2, enter, inner

TwoThreads == {t1, t2}
OwnNames == {"main", "worker"}
OwnNameOf == (t1 :> "main") @@ (t2 :> "worker")
SharedNames == {"worker"}
SharedNameOf == [t \in TwoThreads |-> "worker"]
EnterAndInner == {enter, inner}
OnlyEnter == {enter}
=============================================================================
