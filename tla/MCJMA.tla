------------------------------- MODULE MCJMA -------------------------------
(***************************************************************************)
(* Instances of the whole for TLC: sessions for two methods of one class,  *)
(* each the enter method of one of them and a plain one for the other.     *)
(***************************************************************************)
EXTENDS JMA, TLC

CONSTANTS s1, s2, port8090, app, run, help, t1, t2

Run == [class |-> app, name |-> run]
Help == [class |-> app, name |-> help]
TwoMethods == {Run, Help}
EnterMethods == [s \in Sessions |-> IF s = s1 THEN Run ELSE Help]
ThreadSymmetry == Permutations(Threads)
OnDefaultPort == [s \in Sessions |-> port8090]
=============================================================================
