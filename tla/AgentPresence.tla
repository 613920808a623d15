--------------------------- MODULE AgentPresence ---------------------------
(***************************************************************************)
(* What the agent promises a user who runs one session after the other and *)
(* lets each attach finish: the classes run one session's code at a time,  *)
(* they get it in one step and only from their original code, an attach    *)
(* that fails leaves nothing behind, and when the Boot process has ended   *)
(* all classes get their original code back in one step.                   *)
(***************************************************************************)
CONSTANTS Sessions, Classes, Orig

VARIABLES
  boot,  \* session -> the Boot process
  code   \* class -> the code it runs: Orig, or a session's

vars == <<boot, code>>

Original == [c \in Classes |-> Orig]

Init ==
  /\ boot = [s \in Sessions |-> "off"]
  /\ code = Original

BootStep(s, from, to) ==
  /\ boot[s] = from
  /\ boot' = [boot EXCEPT ![s] = to]
  /\ UNCHANGED code

Start(s) ==
  /\ code = Original
  /\ \A t \in Sessions : boot[t] \in {"off", "exited"}
  /\ BootStep(s, "off", "attaching")

Instrument(s) ==
  /\ boot[s] = "attaching"
  /\ code = Original
  /\ \E set \in SUBSET Classes : code' = [c \in Classes |-> IF c \in set THEN s ELSE Orig]
  /\ UNCHANGED boot

Attach(s) == BootStep(s, "attaching", "attached")

FailToAttach(s) ==
  /\ code = Original
  /\ BootStep(s, "attaching", "exited")

End(s) == BootStep(s, "attached", "exited")

CleanUp(s) ==
  /\ boot[s] = "exited"
  /\ \E c \in Classes : code[c] = s
  /\ code' = Original
  /\ UNCHANGED boot

Next ==
  \E s \in Sessions :
    Start(s) \/ Instrument(s) \/ Attach(s) \/ FailToAttach(s) \/ End(s) \/ CleanUp(s)

Spec ==
  /\ Init
  /\ [][Next]_vars
  /\ \A s \in Sessions : WF_vars(CleanUp(s))
=============================================================================
