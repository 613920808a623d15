----------------------------- MODULE CostLedger -----------------------------
(***************************************************************************)
(* What the recorder of the agent promises about the calls it times, with  *)
(* no threads, no monitor and no map of chains: a call whose exit advice   *)
(* runs while recording is on is entered once; a report takes everything   *)
(* entered so far, at one instant; and nothing entered is ever dropped or  *)
(* reported again.  TimeCostManager implements this specification.         *)
(***************************************************************************)

CONSTANT Calls

VARIABLES
  recording,  \* are exits being entered?
  pending,    \* calls entered and not yet reported
  reported    \* calls reported

vars == <<recording, pending, reported>>

Init ==
  /\ recording = FALSE
  /\ pending = {}
  /\ reported = {}

Switch ==
  /\ recording' \in BOOLEAN
  /\ UNCHANGED <<pending, reported>>

Enter(c) ==
  /\ recording
  /\ c \notin pending \cup reported
  /\ pending' = pending \cup {c}
  /\ UNCHANGED <<recording, reported>>

ReportAll ==
  /\ reported' = reported \cup pending
  /\ pending' = {}
  /\ UNCHANGED recording

Next ==
  \/ Switch
  \/ \E c \in Calls : Enter(c)
  \/ ReportAll

Spec == Init /\ [][Next]_vars
=============================================================================
