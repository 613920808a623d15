------------------------- MODULE MCAgentLifecycle -------------------------
(***************************************************************************)
(* Instances of the lifecycle for TLC: one to three sessions, on the       *)
(* default port or each on a port of its own, in a JVM with a class of the *)
(* application, a core class that is only passed through, and an odd one   *)
(* that ByteBuddy fails on.                                                *)
(***************************************************************************)
EXTENDS AgentLifecycle, TLC

CONSTANTS s1, s2, s3, port8090, app, core, odd

OneSession == {s1}
TwoSessions == {s1, s2}
ThreeSessions == {s1, s2, s3}
DefaultPort == {port8090}
OnDefaultPort == [s \in Sessions |-> port8090]
OnPortOfItsOwn == [s \in Sessions |-> s]
SessionSymmetry == Permutations(Sessions)
AppCoreAndOdd == {app, core, odd}
OnlyCore == {core}
OnlyOdd == {odd}
OnlyApp == {app}

(***************************************************************************)
(* The bound of overlapping sessions: two in any way, or three whose       *)
(* attaches succeed and are let finish, with one cleanup at a time.        *)
(***************************************************************************)
InCleanup(s) == hb[s] \notin {"off", "beating", "ended"}

TwoOrThree ==
  \/ Cardinality({s \in Sessions : boot[s] # "off"}) <= 2
  \/ /\ AttachIsLetFinish
     /\ \A s \in Sessions : agent[s] \notin {"refused", "threw"}
     /\ \A s, t \in Sessions : InCleanup(s) /\ InCleanup(t) => s = t
=============================================================================
