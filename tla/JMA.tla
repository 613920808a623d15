-------------------------------- MODULE JMA --------------------------------
(***************************************************************************)
(* The whole: Boots that come and go, the agent in the target JVM, and the *)
(* application's threads whose calls run the advice.  AgentLifecycle says  *)
(* when a class runs rewritten code and what GlobalConfig holds; the       *)
(* recorder is the one of CostLedger, which TimeCostManager implements:    *)
(* calls entered while recording is on, and reports that take them all.    *)
(*                                                                         *)
(* The advice is part of the code a call began with, so a call that was on *)
(* the stack when the classes were reset still runs it at its exit, and it *)
(* asks GlobalConfig anew whether this is the enter method.  All methods   *)
(* of a class are rewritten together: the walk finds classes whole.        *)
(***************************************************************************)
EXTENDS AgentLifecycle, Naturals

CONSTANTS
  Names,     \* method names
  Methods,   \* the methods the application calls
  EnterOf,   \* session -> the method given with -c and -m
  Threads,   \* the application threads
  MaxCalls   \* bound: calls by one thread

Method == [class : Classes, name : Names]

ASSUME MethodsAssumption ==
  /\ Methods \subseteq Method
  /\ EnterOf \in [Sessions -> Methods]
  /\ MaxCalls \in Nat

VARIABLES
  recording,  \* canRecord
  pending,    \* the calls whose costs wait
  posting,    \* thread -> the calls in the report it posts
  shown,      \* session -> the calls its Boot has displayed
  taken,      \* history: the calls that reports have taken
  stack,      \* thread -> the calls it is in, the innermost last
  made,       \* thread -> how many calls it has begun
  pc          \* thread -> where it is in the advice

agentVars == vars
recorderVars == <<recording, pending, posting, shown, taken>>
threadVars == <<stack, made, pc>>
systemVars == <<agentVars, recorderVars, threadVars>>

\* A call, with the session whose Boot was up when it began.
Call == [thread : Threads, index : 1..MaxCalls, method : Methods, during : Sessions \cup {None}]

\* On the stack: timed if it began in rewritten code, promised if it is a call
\* of the enter method of a session that was attached when it began.
Frame == [call : Call, timed : BOOLEAN, promised : BOOLEAN]

SystemInit ==
  /\ Init
  /\ recording = FALSE
  /\ pending = {}
  /\ posting = [t \in Threads |-> {}]
  /\ shown = [s \in Sessions |-> {}]
  /\ taken = {}
  /\ stack = [t \in Threads |-> <<>>]
  /\ made = [t \in Threads |-> 0]
  /\ pc = [t \in Threads |-> "run"]

-----------------------------------------------------------------------------
(***************************************************************************)
(* The Boots and the agent.  Only the cleanup's last step is felt by the   *)
(* recorder.                                                               *)
(***************************************************************************)
AgentMoves(s) ==
  /\ \/ StartBoot(s)
     \/ LoadAgent(s)
     \/ EndBoot(s)
     \/ AgentMain(s)
     \/ UndoInstrumentation(s)
  /\ UNCHANGED <<recorderVars, threadVars>>

SwitchOff(s) ==
  /\ StopRecording(s)
  /\ recording' = FALSE
  /\ UNCHANGED <<pending, posting, shown, taken, threadVars>>

-----------------------------------------------------------------------------
(***************************************************************************)
(* The application and the advice in it.                                   *)
(***************************************************************************)
At(t, from, to) ==
  /\ pc[t] = from
  /\ pc' = [pc EXCEPT ![t] = to]

Top(t) == Last(stack[t])
Pop(t) == stack' = [stack EXCEPT ![t] = Front(@)]

\* The session whose Boot is up, and the one that answers on a port.
During == IF NoBootAlive THEN None ELSE CHOOSE s \in Sessions : Alive(s)
Answering(port) == {s \in Sessions : Alive(s) /\ PortOf[s] = port}

Attached(s) == boot[s] = "attached" /\ agent[s] = "returned"

\* The advice reads the method name before the class name, and agentmain
\* writes the class name first: the two reads are as good as one.
IsEnterMethod(m) ==
  /\ config.method # None /\ m.name = EnterOf[config.method].name
  /\ config.clazz # None /\ m.class = EnterOf[config.clazz].class

Timed(m) == code[m.class] # Orig

CallMethod(t, m) ==
  /\ made[t] < MaxCalls
  /\ At(t, "run", IF Timed(m) THEN "entering" ELSE "run")
  /\ made' = [made EXCEPT ![t] = @ + 1]
  /\ LET call == [thread |-> t, index |-> made[t] + 1, method |-> m, during |-> During]
     IN stack' = [stack EXCEPT ![t] =
          Append(@, [call |-> call, timed |-> Timed(m),
                     promised |-> \E s \in Sessions : Attached(s) /\ m = EnterOf[s]])]
  /\ UNCHANGED <<agentVars, recorderVars>>

CheckEntry(t) ==
  /\ At(t, "entering", IF IsEnterMethod(Top(t).call.method) THEN "flag" ELSE "run")
  /\ UNCHANGED <<agentVars, recorderVars, stack, made>>

StartRecording(t) ==
  /\ At(t, "flag", "run")
  /\ recording' = TRUE
  /\ UNCHANGED <<agentVars, pending, posting, shown, taken, stack, made>>

\* The body throws, or returns to code that is not rewritten.
Leave(t) ==
  /\ pc[t] = "run"
  /\ stack[t] # <<>>
  /\ Pop(t)
  /\ UNCHANGED <<agentVars, recorderVars, made, pc>>

Return(t) ==
  /\ stack[t] # <<>> /\ Top(t).timed
  /\ At(t, "run", "merge")
  /\ UNCHANGED <<agentVars, recorderVars, stack, made>>

\* A report is posted with the recorder's monitor held.
MonitorFree_Always == TRUE
MonitorFree == \A t \in Threads : pc[t] # "posting"

Merge(t) ==
  /\ MonitorFree
  /\ At(t, "merge", "leaving")
  /\ pending' = IF recording THEN pending \cup {Top(t).call} ELSE pending
  /\ UNCHANGED <<agentVars, recording, posting, shown, taken, stack, made>>

LeaveUnprinted(t) ==
  /\ At(t, "leaving", "run")
  /\ ~ IsEnterMethod(Top(t).call.method)
  /\ Pop(t)
  /\ UNCHANGED <<agentVars, recorderVars, made>>

CheckExit(t) ==
  /\ At(t, "leaving", "print")
  /\ IsEnterMethod(Top(t).call.method)
  /\ UNCHANGED <<agentVars, recorderVars, stack, made>>

\* The chains get new lists, and the old ones are posted.
NewList_Kept == pending
NewList == {}

TakeReport(t) ==
  /\ MonitorFree
  /\ At(t, "print", "posting")
  /\ posting' = [posting EXCEPT ![t] = pending]
  /\ taken' = taken \cup pending
  /\ pending' = NewList
  /\ UNCHANGED <<agentVars, recording, shown, stack, made>>

\* What is posted to nobody is lost; recording goes on.
AfterReport_SwitchesOff == recording' = FALSE
AfterReport == UNCHANGED recording

PostReport(t) ==
  /\ At(t, "posting", "run")
  /\ shown' = [s \in Sessions |->
       IF s \in Answering(config.port) THEN shown[s] \cup posting[t] ELSE shown[s]]
  /\ posting' = [posting EXCEPT ![t] = {}]
  /\ AfterReport
  /\ Pop(t)
  /\ UNCHANGED <<agentVars, pending, taken, made>>

-----------------------------------------------------------------------------
Advice(t) ==
  \/ CheckEntry(t)
  \/ StartRecording(t)
  \/ Merge(t)
  \/ LeaveUnprinted(t)
  \/ CheckExit(t)
  \/ TakeReport(t)
  \/ PostReport(t)

Application(t) ==
  \/ \E m \in Methods : CallMethod(t, m)
  \/ Leave(t)
  \/ Return(t)

SystemTerminated ==
  /\ Terminated
  /\ \A t \in Threads : stack[t] = <<>> /\ made[t] = MaxCalls
  /\ UNCHANGED systemVars

SystemNext ==
  \/ \E s \in Sessions : AgentMoves(s) \/ SwitchOff(s)
  \/ \E t \in Threads : Application(t) \/ Advice(t)
  \/ SystemTerminated

SystemSpec == SystemInit /\ [][SystemNext]_systemVars

(***************************************************************************)
(* Both JVMs run their threads, and a thread in the advice is one of them. *)
(* The application itself need never call or return.                       *)
(***************************************************************************)
FairSystemSpec ==
  /\ SystemSpec
  /\ \A s \in Sessions :
       /\ WF_systemVars(AgentMain(s) /\ UNCHANGED <<recorderVars, threadVars>>)
       /\ WF_systemVars(LoadAgent(s) /\ UNCHANGED <<recorderVars, threadVars>>)
       /\ WF_systemVars(UndoInstrumentation(s) /\ UNCHANGED <<recorderVars, threadVars>>)
       /\ WF_systemVars(SwitchOff(s))
  /\ \A t \in Threads : WF_systemVars(Advice(t))

-----------------------------------------------------------------------------
\* The type invariant of what this module adds; the monitor has one holder.
SystemTypeOK ==
  /\ recording \in BOOLEAN
  /\ pending \subseteq Call
  /\ posting \in [Threads -> SUBSET Call]
  /\ shown \in [Sessions -> SUBSET Call]
  /\ taken \subseteq Call
  /\ stack \in [Threads -> Seq(Frame)]
  /\ made \in [Threads -> 0..MaxCalls]
  /\ pc \in [Threads ->
       {"run", "entering", "flag", "merge", "leaving", "print", "posting"}]
  /\ Cardinality({t \in Threads : pc[t] = "posting"}) <= 1

(***************************************************************************)
(* The recorder, fed by the threads' stacks and switched by sessions that  *)
(* come and go, is used as the ledger allows: no call is merged twice, or  *)
(* once more after a report has taken it.                                  *)
(***************************************************************************)
Ledger == INSTANCE CostLedger WITH Calls <- Call, reported <- taken
LedgerSpec == Ledger!Spec

(***************************************************************************)
(* No cost is displayed to the users of two sessions, nor to one while it  *)
(* still waits to be displayed again.                                      *)
(***************************************************************************)
ShownOnce ==
  \A s \in Sessions :
    /\ shown[s] \cap pending = {}
    /\ \A t \in Threads : shown[s] \cap posting[t] = {}
    /\ \A r \in Sessions \ {s} : shown[s] \cap shown[r] = {}

(***************************************************************************)
(* What the user attaches for: a call of the enter method that begins      *)
(* while a session is attached and returns while its Boot still lives is   *)
(* displayed by that Boot when it has returned, whatever calls overlap it, *)
(* and whatever sessions came before and left calls on the stack.          *)
(***************************************************************************)
Returns(t) == pc[t] \notin {"run", "entering"} /\ pc'[t] = "run" /\ stack'[t] # stack[t]

AttachedCallsShown ==
  [][\A t \in Threads :
       Returns(t) /\ Top(t).promised /\ boot'[Top(t).call.during] = "attached"
       => Top(t).call \in shown'[Top(t).call.during]]_systemVars

(***************************************************************************)
(* When the Boot process ends, the agent's work in the target JVM stops    *)
(* and is cleaned up: recording is switched off.                           *)
(***************************************************************************)
RecordingStops ==
  NoBootAlive ~> (~ recording \/ ~ NoBootAlive)
=============================================================================
