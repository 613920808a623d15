----------------------------- MODULE JMAProofs -----------------------------
(***************************************************************************)
(* Theorems about the whole, for any threads, methods and numbers of       *)
(* calls, any sessions on any ports and any classes.                       *)
(***************************************************************************)
EXTENDS JMA, AgentPresenceProofs, FiniteSetTheorems

-----------------------------------------------------------------------------
(***************************************************************************)
(* Stacks.                                                                 *)
(***************************************************************************)
LEMMA PushProperties ==
  ASSUME NEW S, NEW s \in Seq(S), NEW x \in S
  PROVE  /\ Append(s, x) \in Seq(S) /\ Append(s, x) # <<>> /\ Last(Append(s, x)) = x
         /\ Len(Append(s, x)) = Len(s) + 1 /\ Append(s, x)[Len(s) + 1] = x
         /\ \A k \in 1..Len(s) : Append(s, x)[k] = s[k]
  BY AppendProperties, LenProperties, LastProperties

LEMMA PopProperties ==
  ASSUME NEW S, NEW s \in Seq(S), s # <<>>
  PROVE  /\ Len(s) \in Nat \ {0} /\ Last(s) = s[Len(s)] /\ Last(s) \in S
         /\ Front(s) \in Seq(S) /\ Len(Front(s)) = Len(s) - 1
         /\ \A k \in 1..(Len(s) - 1) : Front(s)[k] = s[k]
<1>1. Len(s) \in Nat \ {0} /\ \A k \in 1..Len(s) : s[k] \in S
  BY EmptySeq, LenProperties, ElementOfSeq
<1>2. Last(s) = s[Len(s)] /\ Last(s) \in S
  BY <1>1 DEF Last
<1>3. ASSUME NEW n, n = Len(s) - 1, NEW front, front = SubSeq(s, 1, n)
      PROVE  front \in Seq(S) /\ Len(front) = n /\ \A k \in 1..n : front[k] = s[k]
  <2>1. n \in Nat /\ 1..n \subseteq 1..Len(s) /\ n - 1 + 1 = n /\ (n = 0 \/ 1 <= n)
    BY <1>1, <1>3
  <2>2. /\ front \in Seq(S)
        /\ Len(front) = IF 1 <= n THEN n - 1 + 1 ELSE 0
        /\ \A k \in 1..(n - 1 + 1) : front[k] = s[1 + k - 1]
    BY <1>1, <1>3, <2>1, SubSeqProperties
  <2>3. \A k \in 1..n : 1 + k - 1 = k
    BY <2>1
  <2> QED
    BY <2>1, <2>2, <2>3
<1>4. Front(s) = SubSeq(s, 1, Len(s) - 1)
  BY DEF Front
<1>5. /\ Front(s) \in Seq(S) /\ Len(Front(s)) = Len(s) - 1
      /\ \A k \in 1..(Len(s) - 1) : Front(s)[k] = s[k]
  BY <1>3, <1>4, Zenon
<1> QED
  BY <1>1, <1>2, <1>5

-----------------------------------------------------------------------------
(***************************************************************************)
(* Every step of the whole is one of the lifecycle, or leaves it alone.    *)
(***************************************************************************)
ThreadStep(t) == Application(t) \/ Advice(t)

LEMMA ThreadKeepsAgent ==
  ASSUME NEW t \in Threads, ThreadStep(t)
  PROVE  UNCHANGED vars
  BY DEF ThreadStep, Application, CallMethod, Leave, Return, Advice, CheckEntry, StartRecording, Merge,
         LeaveUnprinted, CheckExit, TakeReport, PostReport, agentVars

LEMMA AgentKeepsThreads ==
  ASSUME NEW s \in Sessions, AgentMoves(s) \/ SwitchOff(s)
  PROVE  /\ Next
         /\ UNCHANGED <<pending, posting, shown, taken, threadVars>>
         /\ recording' # recording => HttpClientThread(s) /\ recording' = FALSE
<1>1. CASE AgentMoves(s)
  BY <1>1 DEF AgentMoves, Next, HttpClientThread, recorderVars
<1>2. CASE SwitchOff(s)
  BY <1>2 DEF SwitchOff, Next, HttpClientThread
<1> QED
  BY <1>1, <1>2

LEMMA LifecycleStep == [SystemNext]_systemVars => [Next]_vars
  BY AgentKeepsThreads, ThreadKeepsAgent DEF SystemNext, SystemTerminated, systemVars, agentVars, ThreadStep

LEMMA LifecycleSpec == SystemSpec => Spec
<1>1. SystemInit => Init
  BY DEF SystemInit
<1> QED
  BY <1>1, LifecycleStep, PTL DEF SystemSpec, Spec

-----------------------------------------------------------------------------
(***************************************************************************)
(* Types, and the one holder of the monitor.                               *)
(***************************************************************************)
RecorderTypeOK ==
  /\ recording \in BOOLEAN
  /\ pending \subseteq Call
  /\ posting \in [Threads -> SUBSET Call]
  /\ shown \in [Sessions -> SUBSET Call]
  /\ taken \subseteq Call

StackTypeOK ==
  /\ stack \in [Threads -> Seq(Frame)]
  /\ made \in [Threads -> 0..MaxCalls]
  /\ pc \in [Threads ->
       {"run", "entering", "flag", "merge", "leaving", "print", "posting"}]

\* Who is in the advice is there for the call on top.
AdviceOnTop ==
  \A t \in Threads : pc[t] # "run" => stack[t] # <<>> /\ Top(t).timed

MonitorHeld ==
  /\ \A t, u \in Threads : pc[t] = "posting" /\ pc[u] = "posting" => t = u
  /\ \A t \in Threads : pc[t] # "posting" => posting[t] = {}

SystemTypes == RecorderTypeOK /\ StackTypeOK /\ AdviceOnTop /\ MonitorHeld

LEMMA TopTypes ==
  ASSUME StackTypeOK, NEW t \in Threads, stack[t] # <<>>
  PROVE  /\ Top(t) \in Frame /\ Top(t).call \in Call
         /\ Top(t) = stack[t][Len(stack[t])] /\ Len(stack[t]) \in Nat \ {0}
         /\ Front(stack[t]) \in Seq(Frame) /\ Len(Front(stack[t])) = Len(stack[t]) - 1
         /\ \A k \in 1..(Len(stack[t]) - 1) : Front(stack[t])[k] = stack[t][k]
<1>1. stack[t] \in Seq(Frame)
  BY DEF StackTypeOK
<1>2. \A f \in Frame : f.call \in Call
  BY DEF Frame
<1> QED
  BY <1>1, <1>2, PopProperties DEF Top

LEMMA DuringType == During \in Sessions \cup {None}
  BY DEF During, NoBootAlive

\* The call that CallMethod pushes.
NewFrame(t, m) ==
  [call |-> [thread |-> t, index |-> made[t] + 1, method |-> m, during |-> During],
   timed |-> Timed(m),
   promised |-> \E s \in Sessions : Attached(s) /\ m = EnterOf[s]]

LEMMA NewFrameType ==
  ASSUME StackTypeOK, NEW t \in Threads, NEW m \in Methods, made[t] < MaxCalls
  PROVE  NewFrame(t, m) \in Frame
<1>1. made[t] + 1 \in 1..MaxCalls
  BY MethodsAssumption DEF StackTypeOK
<1>2. [thread |-> t, index |-> made[t] + 1, method |-> m, during |-> During] \in Call
  BY <1>1, DuringType DEF Call
<1>3. Timed(m) \in BOOLEAN
  BY DEF Timed
<1> QED
  BY <1>2, <1>3 DEF NewFrame, Frame

LEMMA CallMethodStep ==
  ASSUME NEW t \in Threads, NEW m \in Methods, CallMethod(t, m)
  PROVE  /\ made[t] < MaxCalls
         /\ made' = [made EXCEPT ![t] = @ + 1]
         /\ pc[t] = "run"
         /\ pc' = [pc EXCEPT ![t] = IF Timed(m) THEN "entering" ELSE "run"]
         /\ stack' = [stack EXCEPT ![t] = Append(@, NewFrame(t, m))]
         /\ UNCHANGED recorderVars
  BY DEF CallMethod, At, NewFrame

LEMMA SystemTypesInit == SystemInit => SystemTypes
<1> SUFFICES ASSUME SystemInit
             PROVE  SystemTypes
  OBVIOUS
<1>1. RecorderTypeOK
  BY DEF SystemInit, RecorderTypeOK
<1>2. StackTypeOK
  BY EmptySeq, MethodsAssumption DEF SystemInit, StackTypeOK
<1>3. AdviceOnTop /\ MonitorHeld
  BY DEF SystemInit, AdviceOnTop, MonitorHeld
<1> QED
  BY <1>1, <1>2, <1>3 DEF SystemTypes

\* The threads and the recorder, when a thread takes a step.
LEMMA StackStep ==
  ASSUME SystemTypes, NEW t \in Threads, ThreadStep(t)
  PROVE  StackTypeOK' /\ AdviceOnTop'
<1> USE DEF SystemTypes
<1>1. CASE \E m \in Methods : CallMethod(t, m)
  <2>1. PICK m \in Methods : CallMethod(t, m)
    BY <1>1
  <2> DEFINE f == NewFrame(t, m)
  <2>2. f \in Frame /\ f.timed = Timed(m) /\ stack[t] \in Seq(Frame)
    BY <2>1, CallMethodStep, NewFrameType DEF StackTypeOK, NewFrame
  <2> HIDE DEF f
  <2>3. Append(stack[t], f) \in Seq(Frame) /\ Append(stack[t], f) # <<>> /\ Last(Append(stack[t], f)) = f
    BY <2>2, PushProperties
  <2>4. /\ made' = [made EXCEPT ![t] = @ + 1] /\ made[t] < MaxCalls
        /\ pc' = [pc EXCEPT ![t] = IF Timed(m) THEN "entering" ELSE "run"]
        /\ stack' = [stack EXCEPT ![t] = Append(stack[t], f)]
    BY <2>1, CallMethodStep DEF f
  <2>5. StackTypeOK'
    BY <2>3, <2>4, MethodsAssumption DEF StackTypeOK
  <2>6. AdviceOnTop'
    BY <2>2, <2>3, <2>4 DEF AdviceOnTop, Top, StackTypeOK
  <2> QED
    BY <2>5, <2>6
<1>2. CASE Leave(t) \/ LeaveUnprinted(t) \/ PostReport(t)
  <2>1. /\ stack[t] # <<>> /\ stack' = [stack EXCEPT ![t] = Front(stack[t])]
        /\ UNCHANGED made /\ pc' = [pc EXCEPT ![t] = "run"]
    BY <1>2 DEF Leave, LeaveUnprinted, PostReport, Pop, At, AdviceOnTop, StackTypeOK
  <2>2. Front(stack[t]) \in Seq(Frame)
    BY <2>1, TopTypes
  <2>3. StackTypeOK'
    BY <2>1, <2>2 DEF StackTypeOK
  <2>4. AdviceOnTop'
    BY <2>1 DEF AdviceOnTop, Top, StackTypeOK
  <2> QED
    BY <2>3, <2>4
<1>3. CASE Return(t) \/ CheckEntry(t) \/ StartRecording(t) \/ Merge(t) \/ CheckExit(t) \/ TakeReport(t)
  <2>1. /\ UNCHANGED <<stack, made>> /\ stack[t] # <<>> /\ Top(t).timed
        /\ \E to \in {"run", "flag", "merge", "leaving", "print", "posting"} :
             pc' = [pc EXCEPT ![t] = to]
    BY <1>3 DEF Return, CheckEntry, StartRecording, Merge, CheckExit, TakeReport, At, AdviceOnTop
  <2>2. StackTypeOK'
    BY <2>1 DEF StackTypeOK
  <2>3. AdviceOnTop'
    BY <2>1 DEF AdviceOnTop, Top, StackTypeOK
  <2> QED
    BY <2>2, <2>3
<1> QED
  BY <1>1, <1>2, <1>3 DEF ThreadStep, Application, Advice

LEMMA RecorderStep ==
  ASSUME SystemTypes, NEW t \in Threads, ThreadStep(t)
  PROVE  RecorderTypeOK' /\ MonitorHeld'
<1> USE DEF SystemTypes
<1>1. CASE TakeReport(t)
  <2>1. /\ \A u \in Threads : pc[u] # "posting"
        /\ pc' = [pc EXCEPT ![t] = "posting"] /\ pending' = {}
        /\ posting' = [posting EXCEPT ![t] = pending] /\ UNCHANGED <<recording, shown>>
        /\ taken' = taken \cup pending
    BY <1>1 DEF TakeReport, At, MonitorFree, NewList
  <2> QED
    BY <2>1 DEF RecorderTypeOK, StackTypeOK, MonitorHeld
<1>2. CASE PostReport(t)
  <2>1. /\ pc' = [pc EXCEPT ![t] = "run"] /\ posting' = [posting EXCEPT ![t] = {}]
        /\ shown' = [s \in Sessions |->
             IF s \in Answering(config.port) THEN shown[s] \cup posting[t] ELSE shown[s]]
        /\ UNCHANGED <<recording, pending, taken>>
    BY <1>2 DEF PostReport, At, AfterReport
  <2>2. shown' \in [Sessions -> SUBSET Call]
    BY <2>1 DEF RecorderTypeOK
  <2>3. RecorderTypeOK'
    BY <2>1, <2>2 DEF RecorderTypeOK
  <2>4. MonitorHeld'
    BY <2>1 DEF RecorderTypeOK, StackTypeOK, MonitorHeld
  <2> QED
    BY <2>3, <2>4
<1>3. CASE Merge(t)
  <2>1. Top(t).call \in Call
    BY <1>3, TopTypes DEF Merge, At, AdviceOnTop
  <2>2. /\ pending' \subseteq pending \cup {Top(t).call} /\ UNCHANGED <<recording, posting, shown, taken>>
        /\ pc[t] = "merge" /\ pc' = [pc EXCEPT ![t] = "leaving"]
    BY <1>3 DEF Merge, At
  <2> QED
    BY <2>1, <2>2 DEF RecorderTypeOK, StackTypeOK, MonitorHeld
<1>4. CASE Application(t) \/ CheckEntry(t) \/ StartRecording(t) \/ LeaveUnprinted(t) \/ CheckExit(t)
  <2>1. /\ UNCHANGED <<pending, posting, shown, taken>> /\ (recording' = recording \/ recording' = TRUE)
        /\ pc[t] # "posting"
        /\ \E to \in {"run", "entering", "flag", "merge", "print"} : pc' = [pc EXCEPT ![t] = to]
    BY <1>4 DEF Application, CallMethod, Leave, Return, CheckEntry, StartRecording, LeaveUnprinted,
                CheckExit, At, recorderVars, StackTypeOK
  <2> QED
    BY <2>1 DEF RecorderTypeOK, StackTypeOK, MonitorHeld
<1> QED
  BY <1>1, <1>2, <1>3, <1>4 DEF ThreadStep, Advice

LEMMA SystemTypesStep == SystemTypes /\ [SystemNext]_systemVars => SystemTypes'
<1> SUFFICES ASSUME SystemTypes, [SystemNext]_systemVars
             PROVE  SystemTypes'
  OBVIOUS
<1>1. ASSUME UNCHANGED <<pending, posting, shown, taken, threadVars>>,
             recording' # recording => recording' = FALSE
      PROVE  SystemTypes'
  BY <1>1 DEF SystemTypes, RecorderTypeOK, StackTypeOK, AdviceOnTop, MonitorHeld, threadVars, Top
<1>2. CASE UNCHANGED systemVars
  BY <1>1, <1>2 DEF systemVars, recorderVars
<1>3. ASSUME NEW t \in Threads, ThreadStep(t)
      PROVE  SystemTypes'
  BY <1>3, StackStep, RecorderStep DEF SystemTypes
<1> QED
  BY <1>1, <1>2, <1>3, AgentKeepsThreads DEF SystemNext, SystemTerminated, ThreadStep

(***************************************************************************)
(* The variables of the whole keep their types, and the recorder's monitor *)
(* has one holder, whatever the users of the sessions do.                  *)
(***************************************************************************)
THEOREM SystemTypeCorrect == SystemSpec => []SystemTypeOK
<1>1. SystemTypes => SystemTypeOK
  <2> SUFFICES ASSUME SystemTypes
               PROVE  SystemTypeOK
    OBVIOUS
  <2> DEFINE holders == {t \in Threads : pc[t] = "posting"}
  <2>1. holders = {} \/ \E t : holders = {t}
    BY DEF SystemTypes, MonitorHeld
  <2>2. Cardinality(holders) <= 1
    <3> HIDE DEF holders
    <3> QED
      BY <2>1, FS_EmptySet, FS_Singleton
  <2> QED
    BY <2>2 DEF SystemTypes, RecorderTypeOK, StackTypeOK, SystemTypeOK
<1> QED
  BY <1>1, SystemTypesInit, SystemTypesStep, PTL DEF SystemSpec

-----------------------------------------------------------------------------
(***************************************************************************)
(* The recorder is used as the ledger allows.                              *)
(***************************************************************************)
\* A thread's stack holds calls of its own, which it has begun, and none twice.
StackOfCalls ==
  \A t \in Threads : \A k \in 1..Len(stack[t]) :
    /\ stack[t][k].call.thread = t
    /\ stack[t][k].call.index <= made[t]
    /\ \A j \in 1..Len(stack[t]) : stack[t][j].call = stack[t][k].call => j = k

\* Of a call that has been merged only the rest of its exit advice is left.
Merged == pending \cup taken

MergedOnce ==
  /\ \A c \in Merged : c.index <= made[c.thread]
  /\ \A t \in Threads : \A k \in 1..Len(stack[t]) :
       stack[t][k].call \in Merged =>
         k = Len(stack[t]) /\ pc[t] \in {"leaving", "print", "posting"}
  /\ pending \cap taken = {}

LedgerInv == SystemTypes /\ StackOfCalls /\ MergedOnce

\* What a step of a thread does to its stack.
PushesCall(t) == \E m \in Methods : CallMethod(t, m)

PopsCall(t) ==
  /\ stack[t] # <<>> /\ stack' = [stack EXCEPT ![t] = Front(stack[t])]
  /\ UNCHANGED made /\ pc[t] # "merge" /\ pc' = [pc EXCEPT ![t] = "run"]

KeepsStack(t) == UNCHANGED <<stack, made>> /\ \E to : pc' = [pc EXCEPT ![t] = to]

LEMMA StackEffect ==
  ASSUME SystemTypes, NEW t \in Threads, ThreadStep(t)
  PROVE  PushesCall(t) \/ PopsCall(t) \/ KeepsStack(t)
<1>1. CASE Leave(t) \/ LeaveUnprinted(t) \/ PostReport(t)
  BY <1>1 DEF Leave, LeaveUnprinted, PostReport, Pop, At, SystemTypes, AdviceOnTop, StackTypeOK, PopsCall
<1>2. CASE Return(t) \/ CheckEntry(t) \/ StartRecording(t) \/ Merge(t) \/ CheckExit(t) \/ TakeReport(t)
  BY <1>2 DEF Return, CheckEntry, StartRecording, Merge, CheckExit, TakeReport, At, KeepsStack
<1> QED
  BY <1>1, <1>2 DEF ThreadStep, Application, Advice, PushesCall

\* The stacks after a step: one call more on top, one less, or the same.
LEMMA PushedStack ==
  ASSUME SystemTypes, NEW t \in Threads, PushesCall(t)
  PROVE  /\ Len(stack[t]) \in Nat /\ Len(stack'[t]) = Len(stack[t]) + 1
         /\ \A k \in 1..Len(stack[t]) : stack'[t][k] = stack[t][k]
         /\ stack'[t][Len(stack[t]) + 1].call.thread = t
         /\ stack'[t][Len(stack[t]) + 1].call.index = made[t] + 1
         /\ made[t] \in Nat /\ made'[t] = made[t] + 1 /\ pc[t] = "run"
         /\ \A u \in Threads \ {t} : stack'[u] = stack[u] /\ made'[u] = made[u] /\ pc'[u] = pc[u]
         /\ UNCHANGED recorderVars
<1> USE DEF SystemTypes
<1>1. PICK m \in Methods : CallMethod(t, m)
  BY DEF PushesCall
<1>2. PICK f : f = NewFrame(t, m)
  OBVIOUS
<1>3. f \in Frame /\ f.call.thread = t /\ f.call.index = made[t] + 1
  BY <1>1, <1>2, CallMethodStep, NewFrameType DEF NewFrame
<1>4. /\ made' = [made EXCEPT ![t] = @ + 1] /\ made[t] < MaxCalls
      /\ stack' = [stack EXCEPT ![t] = Append(stack[t], f)]
      /\ pc[t] = "run" /\ \E to : pc' = [pc EXCEPT ![t] = to]
      /\ UNCHANGED recorderVars
  BY <1>1, <1>2, CallMethodStep
<1>5. /\ Len(Append(stack[t], f)) = Len(stack[t]) + 1 /\ Append(stack[t], f)[Len(stack[t]) + 1] = f
      /\ \A k \in 1..Len(stack[t]) : Append(stack[t], f)[k] = stack[t][k]
      /\ Len(stack[t]) \in Nat
  BY <1>3, PushProperties, LenProperties DEF StackTypeOK
<1>6. stack'[t] = Append(stack[t], f) /\ made[t] \in Nat /\ made'[t] = made[t] + 1
  BY <1>4, MethodsAssumption DEF StackTypeOK
<1>7. \A u \in Threads \ {t} : stack'[u] = stack[u] /\ made'[u] = made[u] /\ pc'[u] = pc[u]
  BY <1>4 DEF StackTypeOK
<1> QED
  BY <1>3, <1>4, <1>5, <1>6, <1>7

LEMMA PoppedStack ==
  ASSUME SystemTypes, NEW t \in Threads, PopsCall(t)
  PROVE  /\ Len(stack[t]) \in Nat \ {0} /\ Len(stack'[t]) = Len(stack[t]) - 1
         /\ \A k \in 1..(Len(stack[t]) - 1) : stack'[t][k] = stack[t][k]
         /\ \A u \in Threads \ {t} : stack'[u] = stack[u] /\ pc'[u] = pc[u]
         /\ UNCHANGED made
<1> USE DEF SystemTypes
<1>1. stack[t] # <<>> /\ stack'[t] = Front(stack[t]) /\ UNCHANGED made
  BY DEF PopsCall, StackTypeOK
<1>2. \A u \in Threads \ {t} : stack'[u] = stack[u] /\ pc'[u] = pc[u]
  BY DEF PopsCall, StackTypeOK
<1> QED
  BY <1>1, <1>2, TopTypes

LEMMA BelowNext ==
  ASSUME NEW i \in Int, NEW m \in Nat, i <= m
  PROVE  i <= m + 1 /\ i # m + 1
  OBVIOUS

LEMMA StackOfCallsStep ==
  ASSUME SystemTypes, StackOfCalls, NEW t \in Threads, ThreadStep(t)
  PROVE  StackOfCalls'
<1> SUFFICES ASSUME NEW u \in Threads, NEW k \in 1..Len(stack'[u])
             PROVE  /\ stack'[u][k].call.thread = u
                    /\ stack'[u][k].call.index <= made'[u]
                    /\ \A j \in 1..Len(stack'[u]) : stack'[u][j].call = stack'[u][k].call => j = k
  BY DEF StackOfCalls
<1>1. CASE PushesCall(t)
  <2>1. CASE u # t
    BY <1>1, <2>1, PushedStack DEF StackOfCalls
  <2>2. CASE u = t
    <3> DEFINE n == Len(stack[t])
    <3>1. /\ n \in Nat /\ Len(stack'[t]) = n + 1
          /\ \A j \in 1..n : stack'[t][j] = stack[t][j]
          /\ stack'[t][n + 1].call.thread = t /\ stack'[t][n + 1].call.index = made[t] + 1
          /\ made[t] \in Nat /\ made'[t] = made[t] + 1
      BY <1>1, PushedStack
    <3>2. \A j \in 1..n : /\ stack[t][j].call.thread = t
                          /\ stack[t][j].call.index <= made[t] + 1
                          /\ stack[t][j].call.index # made[t] + 1
      <4> SUFFICES ASSUME NEW j \in 1..n
                   PROVE  /\ stack[t][j].call.index <= made[t] + 1
                          /\ stack[t][j].call.index # made[t] + 1
        BY DEF StackOfCalls
      <4>1. stack[t] \in Seq(Frame)
        BY DEF SystemTypes, StackTypeOK
      <4>2. stack[t][j] \in Frame
        BY <4>1, ElementOfSeq
      <4>3. stack[t][j].call.index \in Int
        BY <4>2 DEF Frame, Call
      <4>4. stack[t][j].call.index <= made[t]
        BY DEF StackOfCalls
      <4> QED
        BY <3>1, <4>3, <4>4, BelowNext
    <3>3. CASE k \in 1..n
      <4>1. \A j \in 1..n : stack[t][j].call = stack[t][k].call => j = k
        BY <3>3 DEF StackOfCalls
      <4>2. stack'[t][n + 1].call # stack[t][k].call
        <5>1. stack[t][k].call.index # made[t] + 1
          BY <3>2, <3>3
        <5>2. stack'[t][n + 1].call.index = made[t] + 1
          BY <3>1
        <5> QED
          BY <5>1, <5>2
      <4>3. ASSUME NEW j \in 1..(n + 1), stack'[t][j].call = stack'[t][k].call
            PROVE  j = k
        <5>1. stack'[t][k] = stack[t][k]
          BY <3>1, <3>3
        <5>2. CASE j = n + 1
          BY <4>2, <4>3, <5>1, <5>2
        <5>3. CASE j \in 1..n
          BY <3>1, <4>1, <4>3, <5>1, <5>3
        <5> QED
          BY <3>1, <5>2, <5>3
      <4>4. stack'[t][k].call.thread = t /\ stack'[t][k].call.index <= made'[t]
        <5>1. stack'[t][k] = stack[t][k]
          BY <3>1, <3>3
        <5>2. stack[t][k].call.thread = t /\ stack[t][k].call.index <= made[t] + 1
          BY <3>2, <3>3
        <5> QED
          BY <3>1, <5>1, <5>2
      <4>5. \A j \in 1..Len(stack'[t]) : stack'[t][j].call = stack'[t][k].call => j = k
        BY <3>1, <4>3
      <4> QED
        BY <2>2, <4>4, <4>5
    <3>4. CASE k = n + 1
      <4>1. ASSUME NEW j \in 1..n
            PROVE  stack'[t][j].call # stack'[t][k].call
        <5>1. stack'[t][j] = stack[t][j] /\ stack[t][j].call.index # made[t] + 1
          BY <3>1, <3>2
        <5>2. stack'[t][k].call.index = made[t] + 1
          BY <3>1, <3>4
        <5> QED
          BY <5>1, <5>2
      <4> QED
        BY <2>2, <3>1, <3>4, <4>1
    <3> QED
      BY <2>2, <3>1, <3>3, <3>4
  <2> QED
    BY <2>1, <2>2
<1>2. CASE PopsCall(t)
  <2>1. CASE u # t
    BY <1>2, <2>1, PoppedStack DEF StackOfCalls
  <2>2. CASE u = t
    <3> DEFINE n == Len(stack[t])
    <3>1. /\ n \in Nat \ {0} /\ Len(stack'[t]) = n - 1
          /\ \A j \in 1..(n - 1) : stack'[t][j] = stack[t][j]
          /\ UNCHANGED made
      BY <1>2, PoppedStack
    <3>2. 1..(n - 1) \subseteq 1..n
      BY <3>1
    <3>3. k \in 1..(n - 1)
      BY <2>2, <3>1
    <3>4. /\ stack[t][k].call.thread = t /\ stack[t][k].call.index <= made[t]
          /\ \A j \in 1..n : stack[t][j].call = stack[t][k].call => j = k
      BY <3>2, <3>3 DEF StackOfCalls
    <3> HIDE DEF n
    <3>5. \A j \in 1..(n - 1) : stack'[t][j].call = stack'[t][k].call => j = k
      BY <3>1, <3>2, <3>3, <3>4
    <3> QED
      BY <2>2, <3>1, <3>3, <3>4, <3>5
  <2> QED
    BY <2>1, <2>2
<1>3. CASE KeepsStack(t)
  BY <1>3 DEF KeepsStack, StackOfCalls
<1> QED
  BY <1>1, <1>2, <1>3, StackEffect

\* The step of a thread about to merge, or about to take a report, and of others.
LEMMA MergedOnceStep ==
  ASSUME LedgerInv, NEW t \in Threads, ThreadStep(t)
  PROVE  MergedOnce'
<1> SystemTypes /\ StackOfCalls /\ MergedOnce
  BY DEF LedgerInv
<1> USE DEF SystemTypes
<1>1. CASE PushesCall(t)
  <2>1. UNCHANGED <<pending, taken>>
    BY <1>1, PushedStack DEF recorderVars
  <2>2. \A c \in Merged : c.index <= made'[c.thread]
    <3> SUFFICES ASSUME NEW c \in Merged
                 PROVE  c.index <= made'[c.thread]
      OBVIOUS
    <3>1. c \in Call /\ c.index <= made[c.thread]
      BY DEF Merged, MergedOnce, RecorderTypeOK
    <3>2. c.thread \in Threads /\ c.index \in Int
      BY <3>1 DEF Call
    <3> QED
      BY <1>1, <3>1, <3>2, PushedStack
  <2>3. \A u \in Threads : \A k \in 1..Len(stack'[u]) :
          stack'[u][k].call \in Merged =>
            k = Len(stack'[u]) /\ pc'[u] \in {"leaving", "print", "posting"}
    <3> SUFFICES ASSUME NEW u \in Threads, NEW k \in 1..Len(stack'[u]), stack'[u][k].call \in Merged
                 PROVE  k = Len(stack'[u]) /\ pc'[u] \in {"leaving", "print", "posting"}
      OBVIOUS
    <3>1. CASE u # t
      BY <1>1, <3>1, PushedStack DEF MergedOnce
    <3>2. CASE u = t /\ k \in 1..Len(stack[t])
      BY <1>1, <3>2, PushedStack DEF MergedOnce
    <3>3. CASE u = t /\ k = Len(stack[t]) + 1
      <4>1. /\ stack'[t][k].call.thread = t /\ stack'[t][k].call.index = made[t] + 1
            /\ made[t] \in Nat
        BY <1>1, <3>3, PushedStack
      <4>2. stack'[t][k].call.index <= made[t]
        BY <3>3, <4>1 DEF MergedOnce
      <4> QED
        BY <4>1, <4>2
    <3> QED
      BY <1>1, <3>1, <3>2, <3>3, PushedStack
  <2> QED
    BY <2>1, <2>2, <2>3 DEF MergedOnce, Merged
<1>2. CASE PopsCall(t)
  <2>1. UNCHANGED <<pending, taken>>
    BY <1>2 DEF ThreadStep, Application, CallMethod, Leave, Return, Advice, CheckEntry, StartRecording,
       Merge, LeaveUnprinted, CheckExit, TakeReport, PostReport, PopsCall, At, StackTypeOK, recorderVars
  <2>2. \A u \in Threads : \A k \in 1..Len(stack'[u]) :
          stack'[u][k].call \in Merged =>
            k = Len(stack'[u]) /\ pc'[u] \in {"leaving", "print", "posting"}
    <3> SUFFICES ASSUME NEW u \in Threads, NEW k \in 1..Len(stack'[u]), stack'[u][k].call \in Merged
                 PROVE  k = Len(stack'[u]) /\ pc'[u] \in {"leaving", "print", "posting"}
      OBVIOUS
    <3>1. CASE u # t
      BY <1>2, <3>1, PoppedStack DEF MergedOnce
    <3>2. CASE u = t
      <4>1. k \in 1..Len(stack[t]) /\ k # Len(stack[t]) /\ stack'[t][k] = stack[t][k]
        BY <1>2, <3>2, PoppedStack
      <4> QED
        BY <3>2, <4>1 DEF MergedOnce
    <3> QED
      BY <3>1, <3>2
  <2> QED
    BY <1>2, <2>1, <2>2, PoppedStack DEF MergedOnce, Merged
<1>3. CASE Merge(t)
  <2>1. PICK c : c = Top(t).call
    OBVIOUS
  <2>2. /\ pc[t] = "merge" /\ pc' = [pc EXCEPT ![t] = "leaving"]
        /\ pending' \subseteq pending \cup {c} /\ UNCHANGED <<taken, stack, made>>
    BY <1>3, <2>1 DEF Merge, At
  <2>3. stack[t] # <<>>
    BY <2>2 DEF AdviceOnTop
  <2>4. /\ c = stack[t][Len(stack[t])].call /\ Len(stack[t]) \in 1..Len(stack[t])
    BY <2>1, <2>3, TopTypes
  <2>5. c.thread = t /\ c.index <= made[t]
    BY <2>4 DEF StackOfCalls
  <2>6. c \notin Merged
    BY <2>2, <2>4 DEF MergedOnce
  <2>7. \A u \in Threads : \A k \in 1..Len(stack[u]) :
          stack[u][k].call \in Merged \cup {c} =>
            k = Len(stack[u]) /\ pc'[u] \in {"leaving", "print", "posting"}
    <3> SUFFICES ASSUME NEW u \in Threads, NEW k \in 1..Len(stack[u]), stack[u][k].call \in Merged \cup {c}
                 PROVE  k = Len(stack[u]) /\ pc'[u] \in {"leaving", "print", "posting"}
      OBVIOUS
    <3>1. CASE stack[u][k].call \in Merged
      BY <2>2, <3>1 DEF MergedOnce, StackTypeOK
    <3>2. CASE stack[u][k].call = c
      <4>1. u = t
        BY <2>5, <3>2 DEF StackOfCalls
      <4>2. k = Len(stack[t])
        BY <2>4, <3>2, <4>1 DEF StackOfCalls
      <4> QED
        BY <2>2, <4>1, <4>2 DEF StackTypeOK
    <3> QED
      BY <3>1, <3>2
  <2> QED
    BY <2>2, <2>5, <2>6, <2>7 DEF MergedOnce, Merged
<1>4. CASE TakeReport(t)
  <2>1. /\ pc' = [pc EXCEPT ![t] = "posting"] /\ UNCHANGED <<stack, made>>
        /\ taken' = taken \cup pending /\ pending' = {}
    BY <1>4 DEF TakeReport, At, NewList
  <2>2. Merged' = Merged
    BY <2>1 DEF Merged
  <2> QED
    BY <2>1, <2>2 DEF MergedOnce, StackTypeOK
<1>5. CASE Return(t) \/ CheckEntry(t) \/ StartRecording(t) \/ CheckExit(t)
  <2>1. /\ UNCHANGED <<stack, made, pending, taken>>
        /\ \E to : /\ pc' = [pc EXCEPT ![t] = to]
                   /\ pc[t] \in {"leaving", "print", "posting"} => to \in {"leaving", "print", "posting"}
    BY <1>5 DEF Return, CheckEntry, StartRecording, CheckExit, At, recorderVars
  <2> QED
    BY <2>1 DEF MergedOnce, Merged, StackTypeOK
<1>6. CASE Leave(t) \/ LeaveUnprinted(t) \/ PostReport(t)
  <2>1. PopsCall(t)
    BY <1>6 DEF Leave, LeaveUnprinted, PostReport, Pop, At, AdviceOnTop, StackTypeOK, PopsCall
  <2> QED
    BY <1>2, <2>1
<1> QED
  BY <1>1, <1>3, <1>4, <1>5, <1>6 DEF ThreadStep, Application, Advice, PushesCall

LEMMA LedgerInvInit == SystemInit => LedgerInv
<1> SUFFICES ASSUME SystemInit
             PROVE  LedgerInv
  OBVIOUS
<1>1. \A t \in Threads : Len(stack[t]) = 0
  BY EmptySeq DEF SystemInit
<1> QED
  BY <1>1, SystemTypesInit DEF SystemInit, LedgerInv, StackOfCalls, MergedOnce, Merged

LEMMA LedgerInvStep == LedgerInv /\ [SystemNext]_systemVars => LedgerInv'
<1> SUFFICES ASSUME LedgerInv, [SystemNext]_systemVars
             PROVE  LedgerInv'
  OBVIOUS
<1>1. SystemTypes'
  BY SystemTypesStep DEF LedgerInv
<1>2. CASE UNCHANGED <<pending, taken, threadVars>>
  BY <1>1, <1>2 DEF LedgerInv, StackOfCalls, MergedOnce, Merged, threadVars
<1>3. ASSUME NEW t \in Threads, ThreadStep(t)
      PROVE  LedgerInv'
  BY <1>1, <1>3, StackOfCallsStep, MergedOnceStep DEF LedgerInv
<1> QED
  BY <1>2, <1>3, AgentKeepsThreads DEF SystemNext, SystemTerminated, ThreadStep, systemVars, recorderVars

LEMMA LedgerStep == LedgerInv /\ [SystemNext]_systemVars => [Ledger!Next]_(Ledger!vars)
<1> SUFFICES ASSUME LedgerInv, [SystemNext]_systemVars
             PROVE  Ledger!Next \/ UNCHANGED <<recording, pending, taken>>
  BY DEF Ledger!vars
<1> USE DEF LedgerInv, SystemTypes
<1>1. ASSUME UNCHANGED <<pending, taken>>, recording' \in BOOLEAN
      PROVE  Ledger!Next
  BY <1>1 DEF Ledger!Next, Ledger!Switch
<1>2. CASE UNCHANGED systemVars
  BY <1>2 DEF systemVars, recorderVars
<1>3. ASSUME NEW s \in Sessions, AgentMoves(s) \/ SwitchOff(s)
      PROVE  Ledger!Next
  <2>1. UNCHANGED <<pending, taken>> /\ recording' \in BOOLEAN
    BY <1>3, AgentKeepsThreads DEF RecorderTypeOK
  <2> QED
    BY <1>1, <2>1
<1>4. ASSUME NEW t \in Threads, ThreadStep(t)
      PROVE  Ledger!Next \/ UNCHANGED <<recording, pending, taken>>
  <2>1. CASE Merge(t)
    <3>1. /\ pc[t] = "merge" /\ UNCHANGED <<recording, taken>>
          /\ pending' = IF recording THEN pending \cup {Top(t).call} ELSE pending
      BY <2>1 DEF Merge, At
    <3>2. stack[t] # <<>>
      BY <3>1 DEF AdviceOnTop
    <3>3. /\ Top(t).call = stack[t][Len(stack[t])].call /\ Len(stack[t]) \in 1..Len(stack[t])
          /\ Top(t).call \in Call
      BY <3>2, TopTypes
    <3>4. Top(t).call \notin pending \cup taken
      BY <3>1, <3>3 DEF MergedOnce, Merged
    <3> QED
      BY <3>1, <3>3, <3>4 DEF Ledger!Next, Ledger!Enter
  <2>2. CASE TakeReport(t)
    BY <2>2 DEF TakeReport, NewList, Ledger!Next, Ledger!ReportAll
  <2>3. CASE Application(t) \/ CheckEntry(t) \/ StartRecording(t) \/ LeaveUnprinted(t) \/ CheckExit(t) \/ PostReport(t)
    <3>1. UNCHANGED <<pending, taken>> /\ (UNCHANGED recording \/ recording' = TRUE)
      BY <2>3 DEF Application, CallMethod, Leave, Return, CheckEntry, StartRecording, LeaveUnprinted,
         CheckExit, PostReport, AfterReport, recorderVars
    <3> QED
      BY <1>1, <3>1
  <2> QED
    BY <1>4, <2>1, <2>2, <2>3 DEF ThreadStep, Advice
<1> QED
  BY <1>2, <1>3, <1>4 DEF SystemNext, SystemTerminated, systemVars, recorderVars, ThreadStep

(***************************************************************************)
(* The recorder, as the threads of the whole feed it and the sessions      *)
(* switch it, implements CostLedger, the specification TimeCostManager     *)
(* implements: what is proved of the two modules fits together.            *)
(***************************************************************************)
THEOREM RecorderKeepsLedger == SystemSpec => LedgerSpec
<1>1. SystemInit => Ledger!Init
  BY DEF SystemInit, Ledger!Init
<1> QED
  BY <1>1, LedgerInvInit, LedgerInvStep, LedgerStep, PTL DEF SystemSpec, LedgerSpec, Ledger!Spec

-----------------------------------------------------------------------------
(***************************************************************************)
(* What is displayed, and to whom.                                         *)
(***************************************************************************)
\* A port has one listener: a Boot whose port is taken does not start.
PortsApart ==
  \A s, r \in Sessions : Alive(s) /\ Alive(r) /\ PortOf[s] = PortOf[r] => s = r

LEMMA PortsApartStep ==
  ASSUME TypeOK, PortsApart, [Next]_vars
  PROVE  PortsApart'
<1>1. ASSUME NEW s \in Sessions, NEW r \in Sessions, s # r, StartBoot(s), Alive(r)', PortOf[s] = PortOf[r]
      PROVE  FALSE
  <2>1. ~ Alive(r)
    BY <1>1 DEF StartBoot, Answers
  <2> QED
    BY <1>1, <2>1 DEF StartBoot, BootStep, Alive, TypeOK
<1>2. SUFFICES ASSUME NEW s \in Sessions, NEW r \in Sessions, Alive(s)', Alive(r)',
                      PortOf[s] = PortOf[r], s # r
               PROVE  FALSE
  BY DEF PortsApart
<1>3. Alive(s) /\ Alive(r)
  BY <1>1, <1>2, AliveStep
<1> QED
  BY <1>2, <1>3 DEF PortsApart

\* What is posted or shown has been taken; no two show, and none waits to show,
\* the same call.
DisplayedOnce ==
  /\ \A t \in Threads : posting[t] \subseteq taken
  /\ \A s \in Sessions : shown[s] \subseteq taken
  /\ \A s \in Sessions : \A t \in Threads : shown[s] \cap posting[t] = {}
  /\ \A s, r \in Sessions : s # r => shown[s] \cap shown[r] = {}

DisplayInv == LedgerInv /\ TypeOK /\ PortsApart /\ DisplayedOnce

LEMMA DisplayedOnceStep ==
  ASSUME DisplayInv, NEW t \in Threads, ThreadStep(t)
  PROVE  DisplayedOnce'
<1> LedgerInv /\ SystemTypes /\ MergedOnce /\ DisplayedOnce
  BY DEF DisplayInv, LedgerInv
<1> USE DEF SystemTypes
<1>1. CASE TakeReport(t)
  <2>1. /\ posting' = [posting EXCEPT ![t] = pending] /\ UNCHANGED shown
        /\ taken' = taken \cup pending
    BY <1>1 DEF TakeReport
  <2>2. \A s \in Sessions : shown[s] \cap pending = {}
    BY DEF DisplayedOnce, MergedOnce
  <2>3. \A u \in Threads : posting'[u] \subseteq taken' /\ (u # t => posting'[u] = posting[u])
    BY <2>1 DEF DisplayedOnce, RecorderTypeOK
  <2>4. posting'[t] = pending
    BY <2>1 DEF RecorderTypeOK
  <2>5. \A s \in Sessions : \A u \in Threads : shown[s] \cap posting'[u] = {}
    BY <2>2, <2>3, <2>4 DEF DisplayedOnce
  <2> QED
    BY <2>1, <2>3, <2>5 DEF DisplayedOnce
<1>2. CASE PostReport(t)
  <2>1. /\ pc[t] = "posting" /\ posting' = [posting EXCEPT ![t] = {}] /\ UNCHANGED taken
        /\ shown' = [s \in Sessions |->
             IF s \in Answering(config.port) THEN shown[s] \cup posting[t] ELSE shown[s]]
    BY <1>2 DEF PostReport, At
  <2>2. \A u \in Threads : posting'[u] = {}
    BY <2>1 DEF MonitorHeld, RecorderTypeOK, StackTypeOK
  <2>3. \A s, r \in Answering(config.port) : s = r
    BY DEF Answering, DisplayInv, PortsApart
  <2>4. \A s \in Sessions : shown'[s] \subseteq taken
    BY <2>1 DEF DisplayedOnce
  <2>5. ASSUME NEW s \in Sessions, NEW r \in Sessions, s # r
        PROVE  shown'[s] \cap shown'[r] = {}
    <3>1. /\ shown[s] \cap shown[r] = {}
          /\ shown[s] \cap posting[t] = {} /\ shown[r] \cap posting[t] = {}
      BY <2>5 DEF DisplayedOnce
    <3>2. s \notin Answering(config.port) \/ r \notin Answering(config.port)
      BY <2>3, <2>5
    <3>3. /\ s \notin Answering(config.port) => shown'[s] = shown[s]
          /\ r \notin Answering(config.port) => shown'[r] = shown[r]
          /\ shown'[s] \subseteq shown[s] \cup posting[t]
          /\ shown'[r] \subseteq shown[r] \cup posting[t]
      BY <2>1
    <3> QED
      BY <3>1, <3>2, <3>3
  <2> QED
    BY <2>1, <2>2, <2>4, <2>5 DEF DisplayedOnce
<1>3. CASE Application(t) \/ CheckEntry(t) \/ StartRecording(t) \/ Merge(t) \/ LeaveUnprinted(t) \/ CheckExit(t)
  <2>1. UNCHANGED <<posting, shown, taken>>
    BY <1>3 DEF Application, CallMethod, Leave, Return, CheckEntry, StartRecording, Merge, LeaveUnprinted,
                CheckExit, recorderVars
  <2> QED
    BY <2>1 DEF DisplayedOnce
<1> QED
  BY <1>1, <1>2, <1>3 DEF ThreadStep, Advice

LEMMA DisplayInvStep == DisplayInv /\ TypeOK' /\ [SystemNext]_systemVars => DisplayInv'
<1> SUFFICES ASSUME DisplayInv, TypeOK', [SystemNext]_systemVars
             PROVE  DisplayInv'
  OBVIOUS
<1>1. LedgerInv' /\ PortsApart'
  BY LedgerInvStep, PortsApartStep, LifecycleStep DEF DisplayInv
<1>2. CASE UNCHANGED <<posting, shown, taken>>
  BY <1>1, <1>2 DEF DisplayInv, DisplayedOnce
<1>3. ASSUME NEW t \in Threads, ThreadStep(t)
      PROVE  DisplayInv'
  BY <1>1, <1>3, DisplayedOnceStep DEF DisplayInv
<1> QED
  BY <1>2, <1>3, AgentKeepsThreads DEF SystemNext, SystemTerminated, ThreadStep, systemVars, recorderVars

LEMMA DisplayInvariance == SystemSpec => []DisplayInv
<1>1. SystemInit /\ TypeOK => DisplayInv
  BY LedgerInvInit DEF SystemInit, DisplayInv, PortsApart, Init, Alive, DisplayedOnce
<1>2. SystemSpec => []TypeOK
  BY LifecycleSpec, TypeCorrect, PTL
<1> QED
  BY <1>1, <1>2, DisplayInvStep, PTL DEF SystemSpec

(***************************************************************************)
(* No cost is displayed to the users of two sessions, or twice to one,     *)
(* however sessions overlap and whatever ports they use.                   *)
(***************************************************************************)
THEOREM CostsAreShownOnce == SystemSpec => []ShownOnce
<1>1. DisplayInv => ShownOnce
  BY DEF DisplayInv, LedgerInv, MergedOnce, DisplayedOnce, ShownOnce
<1> QED
  BY <1>1, DisplayInvariance, PTL

-----------------------------------------------------------------------------
(***************************************************************************)
(* What a living Boot's session may rely on.                               *)
(***************************************************************************)
\* GlobalConfig names the enter method of the session whose Boot lives.
EnterIsOwn ==
  \A s \in Sessions : Alive(s) =>
    /\ agent[s] # "none" => config.clazz = s
    /\ agent[s] \notin {"none", "clazz"} => config.method = s

AgentInv == TypeOK /\ PatientInv /\ EnterIsOwn

LEMMA EnterStep ==
  ASSUME Patient, TypeOK, PatientInv, EnterIsOwn, [Next]_vars
  PROVE  EnterIsOwn'
<1> USE DEF PatientInv
<1> SUFFICES ASSUME NEW s \in Sessions, Alive(s)'
             PROVE  /\ agent'[s] # "none" => config'.clazz = s
                    /\ agent'[s] \notin {"none", "clazz"} => config'.method = s
  BY DEF EnterIsOwn
<1>1. CASE StartBoot(s)
  BY <1>1 DEF StartBoot, BootStep, OneAtATime
<1>2. CASE ~ StartBoot(s)
  <2>1. Alive(s)
    BY <1>2, AliveStep
  <2>2. CASE UNCHANGED <<agent, config>>
    BY <2>1, <2>2 DEF EnterIsOwn
  <2>3. CASE AgentMain(s)
    BY <2>1, <2>3 DEF EnterIsOwn, AgentMain, SetEnterClazzName, SetEnterMethod, SetHttpPort,
          CheckHttpConnection, StartHeartBeat, AgentThrows, ReadHierarchy, SetTimeCostTransformer,
          SetInstrument, SetTransClassSet, AddTransformer, Retransform, Transform, RetransformThrows,
          InstallAgent, AgentStep, TypeOK
  <2> QED
    BY <2>1, <2>2, <2>3, OnlyItsOwn, BootKeeps DEF Next, Terminated, vars
<1> QED
  BY <1>1, <1>2

LEMMA AgentInvariance == Patient => (SystemSpec => []AgentInv)
<1> SUFFICES ASSUME Patient
             PROVE  SystemSpec => []AgentInv
  OBVIOUS
<1>1. Init => EnterIsOwn
  BY DEF Init, EnterIsOwn, Alive
<1>2. TypeOK /\ PatientInv /\ EnterIsOwn /\ [Next]_vars => EnterIsOwn'
  BY EnterStep
<1> QED
  BY <1>1, <1>2, TypeCorrect, PatientInvariance, LifecycleSpec, PTL DEF Spec, AgentInv

\* Once attached, a Boot can only end.
LEMMA AttachedStep ==
  ASSUME TypeOK, [Next]_vars, NEW s \in Sessions,
         boot[s] \in {"attached", "exited"}, agent[s] = "returned"
  PROVE  /\ boot'[s] \in {"attached", "exited"} /\ agent'[s] = "returned"
         /\ boot'[s] = "attached" => boot[s] = "attached"
<1>1. ASSUME NEW u \in Sessions, StartBoot(u) \/ LoadAgent(u) \/ EndBoot(u)
      PROVE  /\ boot'[s] \in {"attached", "exited"} /\ agent' = agent
             /\ boot'[s] = "attached" => boot[s] = "attached"
  BY <1>1, BootKeeps
     DEF StartBoot, LoadAgent, AttachReturns, AttachFails, EndBoot, BootStep, TypeOK
<1>2. ASSUME NEW u \in Sessions, AgentMain(u)
      PROVE  boot' = boot /\ agent'[s] = "returned"
  BY <1>2, MainGoesOn DEF GoesOn, SetEnterClazzName, AgentStep, TypeOK
<1>3. CASE UNCHANGED <<boot, agent>>
  BY <1>3
<1> QED
  BY <1>1, <1>2, <1>3, HeartBeatKeeps DEF Next, Terminated, vars

-----------------------------------------------------------------------------
(***************************************************************************)
(* The promised calls.                                                     *)
(***************************************************************************)
\* The session a promise was made for is the one whose Boot is up.
Promise(f) ==
  f.promised =>
    LET s == f.call.during
    IN /\ s \in Sessions /\ f.call.method = EnterOf[s]
       /\ boot[s] \in {"attached", "exited"} /\ agent[s] = "returned"

\* The promise is to be kept: the call runs the advice, and its Boot lives.
Lasting(f) == f.promised /\ f.timed /\ boot[f.call.during] = "attached"

\* The advice of the thread's k-th call has been through onEnter.
Entered(t, k) == k = Len(stack[t]) => pc[t] \notin {"entering", "flag"}

PromisesKnown ==
  \A t \in Threads : \A k \in 1..Len(stack[t]) : Promise(stack[t][k])

PromisesRecorded ==
  \A t \in Threads : \A k \in 1..Len(stack[t]) :
    Lasting(stack[t][k]) /\ Entered(t, k) => recording

\* The cost of a call that has been merged, and whose exit still prints.
Waits(t, call) ==
  \/ call \in shown[call.during]
  \/ call \in posting[t]
  \/ pc[t] # "posting" /\ (call \in pending \/ \E u \in Threads : call \in posting[u])

PromisesWait ==
  \A t \in Threads :
    pc[t] \in {"leaving", "print", "posting"} /\ Lasting(Top(t)) => Waits(t, Top(t).call)

Promises == PromisesKnown /\ PromisesRecorded /\ PromisesWait

\* While the promise lasts, GlobalConfig is that session's, and its Boot answers.
LEMMA LastingProperties ==
  ASSUME AgentInv, NEW f, Promise(f), Lasting(f)
  PROVE  IsEnterMethod(f.call.method) /\ f.call.during \in Answering(config.port)
<1>1. f.call.during \in Sessions /\ Alive(f.call.during) /\ agent[f.call.during] = "returned"
  BY DEF Promise, Lasting, Alive
<1>2. /\ config.clazz = f.call.during /\ config.method = f.call.during
      /\ config.port = PortOf[f.call.during]
  BY <1>1 DEF AgentInv, PatientInv, EnterIsOwn, AsksItsBoot
<1> QED
  BY <1>1, <1>2, SessionsAssumption DEF IsEnterMethod, Answering, Promise, Lasting

LEMMA NewFramePromise ==
  ASSUME AgentInv, NEW t \in Threads, NEW m \in Methods
  PROVE  Promise(NewFrame(t, m))
<1> DEFINE f == NewFrame(t, m)
<1> SUFFICES ASSUME f.promised
             PROVE  Promise(f)
  BY DEF Promise
<1>1. PICK s \in Sessions : Attached(s) /\ m = EnterOf[s]
  BY DEF NewFrame
<1>2. Alive(s) /\ ~ NoBootAlive
  BY <1>1 DEF Attached, Alive, NoBootAlive
<1>3. During \in Sessions /\ Alive(During)
  BY <1>2 DEF During, NoBootAlive
<1>4. During = s
  BY <1>2, <1>3 DEF AgentInv, PatientInv, OneAtATime, Busy
<1>5. f.call.during = s /\ f.call.method = EnterOf[s]
  BY <1>1, <1>4 DEF NewFrame
<1> HIDE DEF f
<1> QED
  BY <1>1, <1>5 DEF Promise, Attached

LEMMA PromisesInit == SystemInit => Promises
<1> SUFFICES ASSUME SystemInit
             PROVE  Promises
  OBVIOUS
<1>1. \A t \in Threads : Len(stack[t]) = 0 /\ pc[t] = "run"
  BY EmptySeq DEF SystemInit
<1> QED
  BY <1>1 DEF Promises, PromisesKnown, PromisesRecorded, PromisesWait

LEMMA AgentKeepsPromises ==
  ASSUME SystemTypes, AgentInv, Promises, NEW s \in Sessions, AgentMoves(s) \/ SwitchOff(s)
  PROVE  Promises'
<1>1. /\ Next /\ UNCHANGED <<pending, posting, shown, stack, made, pc>>
      /\ recording' # recording => HttpClientThread(s)
  BY AgentKeepsThreads DEF threadVars
<1>2. ASSUME NEW f, Promise(f)
      PROVE  Promise(f)' /\ (Lasting(f)' => Lasting(f))
  BY <1>1, <1>2, AttachedStep DEF Promise, Lasting, AgentInv
<1>3. ASSUME NEW f, Promise(f), Lasting(f), recording
      PROVE  recording'
  <2>1. f.call.during \in Sessions /\ Alive(f.call.during)
    BY <1>3 DEF Promise, Lasting, Alive
  <2>2. ~ HttpClientThread(s)
    BY <2>1, OnlyItsOwn DEF AgentInv, PatientInv
  <2> QED
    BY <1>1, <1>3, <2>2
<1>4. PromisesKnown'
  BY <1>1, <1>2 DEF Promises, PromisesKnown
<1>5. PromisesRecorded'
  <2> SUFFICES ASSUME NEW t \in Threads, NEW k \in 1..Len(stack[t]), NEW f, f = stack[t][k],
                      Lasting(f)', Entered(t, k)
               PROVE  recording'
    BY <1>1 DEF PromisesRecorded, Entered
  <2>1. Promise(f)
    BY DEF Promises, PromisesKnown
  <2>2. Lasting(f)
    BY <1>2, <2>1
  <2>3. recording
    BY <2>2 DEF Promises, PromisesRecorded
  <2> QED
    BY <1>3, <2>1, <2>2, <2>3
<1>6. PromisesWait'
  <2> SUFFICES ASSUME NEW t \in Threads, pc[t] \in {"leaving", "print", "posting"},
                      NEW f, f = Top(t), Lasting(f)'
               PROVE  Waits(t, f.call)
    BY <1>1 DEF PromisesWait, Top, Waits
  <2>1. stack[t] # <<>>
    BY DEF SystemTypes, AdviceOnTop
  <2>2. f = stack[t][Len(stack[t])] /\ Len(stack[t]) \in Nat \ {0}
    BY <2>1, TopTypes DEF SystemTypes
  <2>3. Promise(f)
    BY <2>2 DEF Promises, PromisesKnown
  <2>4. Lasting(f)
    BY <1>2, <2>3
  <2> QED
    BY <2>4 DEF Promises, PromisesWait
<1> QED
  BY <1>4, <1>5, <1>6 DEF Promises

\* What a thread's step makes of the stacks: its own has one call more, one
\* less, or the same ones, and the recorder is not switched off.
Pushes(t, f) ==
  /\ pc[t] = "run" /\ stack' = [stack EXCEPT ![t] = Append(stack[t], f)]
  /\ f.timed => pc'[t] = "entering"
  /\ f \in Frame /\ Promise(f)

Pops(t) ==
  /\ stack[t] # <<>> /\ stack' = [stack EXCEPT ![t] = Front(stack[t])]
  /\ pc'[t] = "run"

Stays(t) ==
  /\ stack[t] # <<>> /\ UNCHANGED stack
  /\ pc[t] \in {"entering", "flag"} => pc'[t] = "flag" \/ recording' \/ ~ Lasting(Top(t))

LEMMA ThreadEffect ==
  ASSUME SystemTypes, AgentInv, Promises, NEW t \in Threads, ThreadStep(t)
  PROVE  /\ UNCHANGED vars
         /\ recording => recording'
         /\ \E to : pc' = [pc EXCEPT ![t] = to]
         /\ (\E f : Pushes(t, f)) \/ Pops(t) \/ Stays(t)
<1>1. UNCHANGED vars
  BY ThreadKeepsAgent
<1>2. recording => recording'
  BY DEF ThreadStep, Application, CallMethod, Leave, Return, Advice, CheckEntry, StartRecording, Merge,
         LeaveUnprinted, CheckExit, TakeReport, PostReport, AfterReport, recorderVars
<1>3. CASE \E m \in Methods : CallMethod(t, m)
  <2>1. PICK m \in Methods : CallMethod(t, m)
    BY <1>3
  <2>2. NewFrame(t, m) \in Frame /\ Promise(NewFrame(t, m)) /\ NewFrame(t, m).timed = Timed(m)
    BY <2>1, CallMethodStep, NewFrameType, NewFramePromise DEF SystemTypes, NewFrame
  <2>3. /\ pc[t] = "run" /\ pc' = [pc EXCEPT ![t] = IF Timed(m) THEN "entering" ELSE "run"]
        /\ stack' = [stack EXCEPT ![t] = Append(stack[t], NewFrame(t, m))]
    BY <2>1, CallMethodStep
  <2>4. Pushes(t, NewFrame(t, m))
    BY <2>2, <2>3 DEF Pushes, SystemTypes, StackTypeOK
  <2> QED
    BY <1>1, <1>2, <2>3, <2>4
<1>4. CASE Leave(t) \/ LeaveUnprinted(t) \/ PostReport(t)
  <2>1. /\ stack[t] # <<>> /\ stack' = [stack EXCEPT ![t] = Front(stack[t])]
        /\ pc' = [pc EXCEPT ![t] = "run"]
    BY <1>4 DEF Leave, LeaveUnprinted, PostReport, Pop, At, SystemTypes, AdviceOnTop, StackTypeOK
  <2> QED
    BY <1>1, <1>2, <2>1 DEF Pops, SystemTypes, StackTypeOK
<1>5. CASE Return(t) \/ StartRecording(t) \/ Merge(t) \/ CheckExit(t) \/ TakeReport(t)
  <2>1. /\ UNCHANGED stack /\ stack[t] # <<>> /\ \E to : pc' = [pc EXCEPT ![t] = to]
        /\ pc[t] \in {"entering", "flag"} => recording'
    BY <1>5 DEF Return, StartRecording, Merge, CheckExit, TakeReport, At, SystemTypes, AdviceOnTop
  <2> QED
    BY <1>1, <1>2, <2>1 DEF Stays
<1>6. CASE CheckEntry(t)
  <2>1. /\ UNCHANGED stack /\ pc[t] = "entering" /\ stack[t] # <<>>
        /\ pc' = [pc EXCEPT ![t] = IF IsEnterMethod(Top(t).call.method) THEN "flag" ELSE "run"]
    BY <1>6 DEF CheckEntry, At, SystemTypes, AdviceOnTop
  <2>2. Promise(Top(t))
    BY <2>1, TopTypes DEF SystemTypes, Promises, PromisesKnown
  <2>3. Lasting(Top(t)) => pc'[t] = "flag"
    BY <2>1, <2>2, LastingProperties DEF SystemTypes, StackTypeOK
  <2> QED
    BY <1>1, <1>2, <2>1, <2>3 DEF Stays
<1> QED
  BY <1>3, <1>4, <1>5, <1>6 DEF ThreadStep, Application, Advice

LEMMA StacksStep ==
  ASSUME SystemTypes, AgentInv, Promises, NEW t \in Threads, ThreadStep(t)
  PROVE  PromisesKnown' /\ PromisesRecorded'
<1> USE DEF SystemTypes
<1>1. /\ UNCHANGED vars
      /\ recording => recording'
      /\ \E to : pc' = [pc EXCEPT ![t] = to]
  BY ThreadEffect
<1>2. ASSUME NEW f
      PROVE  (Promise(f) => Promise(f)') /\ (Lasting(f)' <=> Lasting(f))
  BY <1>1 DEF Promise, Lasting, vars
\* A frame of the new stacks is the new one, or was there and had been entered.
<1>3. ASSUME NEW u \in Threads, NEW k \in 1..Len(stack'[u]), NEW f, f = stack'[u][k]
      PROVE  /\ Promise(f)
             /\ Lasting(f) /\ Entered(u, k)' => recording'
  <2>1. ASSUME k \in 1..Len(stack[u]), f = stack[u][k], Entered(u, k)' => Entered(u, k) \/ recording' \/ ~ Lasting(f)
        PROVE  /\ Promise(f)
               /\ Lasting(f) /\ Entered(u, k)' => recording'
    BY <1>1, <2>1 DEF Promises, PromisesKnown, PromisesRecorded
  <2>2. CASE u # t
    <3>1. stack'[u] = stack[u] /\ pc'[u] = pc[u]
      <4>1. CASE \E g : Pushes(t, g)
        BY <1>1, <2>2, <4>1 DEF Pushes, StackTypeOK
      <4>2. CASE Pops(t)
        BY <1>1, <2>2, <4>2 DEF Pops, StackTypeOK
      <4>3. CASE Stays(t)
        BY <1>1, <2>2, <4>3 DEF Stays, StackTypeOK
      <4> QED
        BY <4>1, <4>2, <4>3, ThreadEffect
    <3> QED
      BY <1>3, <2>1, <3>1 DEF Entered
  <2>3. CASE u = t /\ \E g : Pushes(t, g)
    <3>1. PICK g : Pushes(t, g)
      BY <2>3
    <3>2. /\ g \in Frame /\ Promise(g) /\ (g.timed => pc'[t] = "entering") /\ pc[t] = "run"
          /\ stack[t] \in Seq(Frame) /\ stack'[t] = Append(stack[t], g)
      BY <3>1 DEF Pushes, StackTypeOK
    <3>3. /\ Len(stack'[t]) = Len(stack[t]) + 1 /\ stack'[t][Len(stack[t]) + 1] = g
          /\ \A j \in 1..Len(stack[t]) : stack'[t][j] = stack[t][j]
          /\ Len(stack[t]) \in Nat
      BY <3>2, PushProperties, LenProperties
    <3>4. CASE k = Len(stack[t]) + 1
      <4>1. f = g /\ k = Len(stack'[t])
        BY <1>3, <2>3, <3>3, <3>4
      <4>2. Lasting(g) => pc'[t] = "entering"
        BY <3>2 DEF Lasting
      <4> QED
        BY <2>3, <3>2, <4>1, <4>2 DEF Entered
    <3>5. CASE k # Len(stack[t]) + 1
      <4>1. k \in 1..Len(stack[t]) /\ f = stack[t][k]
        BY <1>3, <2>3, <3>3, <3>5
      <4>2. Entered(u, k)
        BY <2>3, <3>2 DEF Entered
      <4> QED
        BY <2>1, <2>3, <4>1, <4>2
    <3> QED
      BY <3>4, <3>5
  <2>4. CASE u = t /\ Pops(t)
    <3>1. /\ stack[t] # <<>> /\ stack'[t] = Front(stack[t])
      BY <2>4 DEF Pops, StackTypeOK
    <3>2. /\ Len(stack[t]) \in Nat \ {0} /\ Len(stack'[t]) = Len(stack[t]) - 1
          /\ \A j \in 1..(Len(stack[t]) - 1) : stack'[t][j] = stack[t][j]
      BY <3>1, TopTypes
    <3>3. k \in 1..Len(stack[t]) /\ k # Len(stack[t]) /\ f = stack[t][k]
      BY <1>3, <2>4, <3>2
    <3> QED
      BY <2>1, <2>4, <3>3 DEF Entered
  <2>5. CASE u = t /\ Stays(t)
    <3>1. stack' = stack /\ stack[t] # <<>> /\ k \in 1..Len(stack[t]) /\ f = stack[t][k]
      BY <1>3, <2>5 DEF Stays
    <3>2. k = Len(stack[t]) => f = Top(t)
      BY <3>1, TopTypes
    <3>3. Entered(u, k)' => Entered(u, k) \/ recording' \/ ~ Lasting(f)
      BY <2>5, <3>1, <3>2 DEF Stays, Entered
    <3> QED
      BY <2>1, <2>5, <3>1, <3>3
  <2> QED
    BY <2>2, <2>3, <2>4, <2>5, ThreadEffect
<1>4. PromisesKnown'
  BY <1>2, <1>3 DEF PromisesKnown
<1>5. PromisesRecorded'
  BY <1>2, <1>3 DEF PromisesRecorded
<1> QED
  BY <1>4, <1>5

\* The top of the stack of a thread in the advice, and what is known of it.
LEMMA TopPromise ==
  ASSUME SystemTypes, AgentInv, Promises, NEW t \in Threads, pc[t] # "run"
  PROVE  /\ stack[t] # <<>> /\ Promise(Top(t))
         /\ Lasting(Top(t)) =>
              /\ IsEnterMethod(Top(t).call.method)
              /\ Top(t).call.during \in Answering(config.port)
              /\ Top(t).call.during \in Sessions
              /\ pc[t] \notin {"entering", "flag"} => recording
<1>1. stack[t] # <<>>
  BY DEF SystemTypes, AdviceOnTop
<1>2. Top(t) = stack[t][Len(stack[t])] /\ Len(stack[t]) \in 1..Len(stack[t])
  BY <1>1, TopTypes DEF SystemTypes
<1>3. Promise(Top(t))
  BY <1>2 DEF Promises, PromisesKnown
<1>4. Lasting(Top(t)) => Top(t).call.during \in Sessions
  BY <1>3 DEF Promise, Lasting
<1>5. Lasting(Top(t)) /\ pc[t] \notin {"entering", "flag"} => recording
  BY <1>2 DEF Promises, PromisesRecorded, Entered
<1> QED
  BY <1>1, <1>3, <1>4, <1>5, LastingProperties

LEMMA WaitStep ==
  ASSUME SystemTypes, AgentInv, Promises, NEW t \in Threads, ThreadStep(t)
  PROVE  PromisesWait'
<1> USE DEF SystemTypes
<1> SUFFICES ASSUME NEW u \in Threads, pc'[u] \in {"leaving", "print", "posting"},
                    Lasting(Top(u))'
             PROVE  Waits(u, Top(u).call)'
  BY DEF PromisesWait
<1>0. PICK call : call = Top(u).call
  OBVIOUS
<1>1. UNCHANGED vars /\ \E to : pc' = [pc EXCEPT ![t] = to]
  BY ThreadEffect
\* A thread that is in the advice after the step has kept its stack.
<1>2. /\ pc[u] \in {"merge", "leaving", "print", "posting"} /\ stack'[u] = stack[u]
      /\ u # t => pc'[u] = pc[u]
  <2>1. CASE u # t
    BY <1>1, <2>1, ThreadEffect DEF Pushes, Pops, Stays, StackTypeOK
  <2>2. CASE u = t
    BY <2>2 DEF ThreadStep, Application, CallMethod, Leave, Return, Advice, CheckEntry, StartRecording,
         Merge, LeaveUnprinted, CheckExit, TakeReport, PostReport, At, StackTypeOK
  <2> QED
    BY <2>1, <2>2
<1>3. Top(u)' = Top(u) /\ Lasting(Top(u))
  BY <1>1, <1>2 DEF Top, Lasting, vars
<1>4. /\ recording /\ call.during \in Answering(config.port) /\ call.during \in Sessions
  BY <1>0, <1>2, <1>3, TopPromise
<1>5. pc[u] # "merge" => Waits(u, call)
  BY <1>0, <1>2, <1>3 DEF Promises, PromisesWait
<1> SUFFICES Waits(u, call)'
  BY <1>0, <1>3
<1>6. CASE Merge(t)
  <2>1. /\ pending' = IF recording THEN pending \cup {Top(t).call} ELSE pending
        /\ UNCHANGED <<posting, shown>> /\ \A w \in Threads : pc[w] # "posting"
        /\ pc[t] = "merge" /\ pc' = [pc EXCEPT ![t] = "leaving"]
    BY <1>6 DEF Merge, At, MonitorFree
  <2>2. pc'[u] # "posting"
    BY <2>1 DEF StackTypeOK
  <2>3. CASE u = t
    BY <1>0, <1>4, <2>1, <2>2, <2>3 DEF Waits
  <2>4. CASE u # t
    <3>1. pc[u] # "merge"
      BY <1>2, <2>4
    <3> QED
      BY <1>5, <2>1, <2>2, <3>1 DEF Waits
  <2> QED
    BY <2>3, <2>4
<1>7. CASE TakeReport(t)
  <2>1. /\ posting' = [posting EXCEPT ![t] = pending] /\ UNCHANGED shown
        /\ \A w \in Threads : pc[w] # "posting"
        /\ pc[t] = "print" /\ pc' = [pc EXCEPT ![t] = "posting"]
    BY <1>7 DEF TakeReport, At, MonitorFree
  <2>2. \A w \in Threads : posting[w] = {}
    BY <2>1 DEF MonitorHeld
  <2>3. pc[u] # "merge"
    BY <1>2, <2>1
  <2>4. call \in shown[call.during] \/ call \in pending
    BY <1>5, <2>2, <2>3 DEF Waits
  <2>5. posting'[t] = pending /\ (u # t => pc'[u] # "posting")
    BY <1>2, <2>1 DEF RecorderTypeOK
  <2> QED
    BY <2>1, <2>4, <2>5 DEF Waits
<1>8. CASE PostReport(t)
  <2>1. /\ posting' = [posting EXCEPT ![t] = {}] /\ UNCHANGED pending
        /\ shown' = [s \in Sessions |->
             IF s \in Answering(config.port) THEN shown[s] \cup posting[t] ELSE shown[s]]
        /\ pc' = [pc EXCEPT ![t] = "run"]
    BY <1>8 DEF PostReport, At
  <2>2. u # t
    BY <2>1 DEF StackTypeOK
  <2>3. pc[u] # "merge"
    BY <1>2, <2>2
  <2>4. shown'[call.during] = shown[call.during] \cup posting[t]
    BY <1>4, <2>1
  <2>5. \A w \in Threads \ {t} : posting'[w] = posting[w]
    BY <2>1 DEF RecorderTypeOK
  <2>6. pc'[u] = pc[u]
    BY <1>2, <2>2
  <2> QED
    BY <1>5, <2>1, <2>2, <2>3, <2>4, <2>5, <2>6 DEF Waits
<1>9. CASE Application(t) \/ CheckEntry(t) \/ StartRecording(t) \/ LeaveUnprinted(t) \/ CheckExit(t)
  <2>1. UNCHANGED <<pending, posting, shown>>
    BY <1>9 DEF Application, CallMethod, Leave, Return, CheckEntry, StartRecording, LeaveUnprinted,
                CheckExit, recorderVars
  <2>2. pc[u] # "merge" /\ (pc'[u] = "posting" => pc[u] = "posting")
    <3>1. CASE u # t
      BY <1>2, <3>1
    <3>2. CASE u = t
      BY <1>9, <3>2 DEF Application, CallMethod, Leave, Return, CheckEntry, StartRecording,
           LeaveUnprinted, CheckExit, At, StackTypeOK
    <3> QED
      BY <3>1, <3>2
  <2> QED
    BY <1>5, <2>1, <2>2 DEF Waits
<1> QED
  BY <1>6, <1>7, <1>8, <1>9 DEF ThreadStep, Advice

LEMMA PromisesStep ==
  SystemTypes /\ AgentInv /\ Promises /\ [SystemNext]_systemVars => Promises'
<1> SUFFICES ASSUME SystemTypes, AgentInv, Promises, [SystemNext]_systemVars
             PROVE  Promises'
  OBVIOUS
<1>1. CASE UNCHANGED systemVars
  BY <1>1 DEF systemVars, agentVars, vars, recorderVars, threadVars, Promises, PromisesKnown,
     PromisesRecorded, PromisesWait, Promise, Lasting, Entered, Waits, Top
<1>2. ASSUME NEW t \in Threads, ThreadStep(t)
      PROVE  Promises'
  BY <1>2, StacksStep, WaitStep DEF Promises
<1> QED
  BY <1>1, <1>2, AgentKeepsPromises DEF SystemNext, SystemTerminated, ThreadStep

\* A step by which a promised call returns.
LEMMA ReturnShows ==
  SystemTypes /\ AgentInv /\ Promises /\ [SystemNext]_systemVars =>
    \A t \in Threads :
      Returns(t) /\ Top(t).promised /\ boot'[Top(t).call.during] = "attached"
      => Top(t).call \in shown'[Top(t).call.during]
<1> SUFFICES ASSUME SystemTypes, AgentInv, Promises, [SystemNext]_systemVars, NEW t \in Threads,
                    Returns(t), Top(t).promised, boot'[Top(t).call.during] = "attached"
             PROVE  Top(t).call \in shown'[Top(t).call.during]
  OBVIOUS
<1> USE DEF SystemTypes
<1>1. /\ pc[t] \notin {"run", "entering"} /\ pc'[t] = "run" /\ stack'[t] # stack[t]
  BY DEF Returns
<1>2. ThreadStep(t)
  <2>1. ASSUME NEW u \in Threads, ThreadStep(u), u # t
        PROVE  FALSE
    BY <1>1, <2>1, ThreadEffect DEF StackTypeOK
  <2>2. ASSUME NEW s \in Sessions, AgentMoves(s) \/ SwitchOff(s)
        PROVE  FALSE
    BY <1>1, <2>2, AgentKeepsThreads DEF threadVars
  <2> QED
    BY <1>1, <2>1, <2>2 DEF SystemNext, SystemTerminated, systemVars, threadVars, ThreadStep
<1>3. UNCHANGED vars
  BY <1>2, ThreadEffect
<1>4. Lasting(Top(t))
  BY <1>1, <1>3 DEF AdviceOnTop, Lasting, vars
<1>5. /\ IsEnterMethod(Top(t).call.method) /\ Top(t).call.during \in Sessions
      /\ Top(t).call.during \in Answering(config.port)
  BY <1>1, <1>4, TopPromise
<1>6. PostReport(t)
  BY <1>1, <1>2, <1>5 DEF ThreadStep, Application, CallMethod, Leave, Return, Advice, CheckEntry,
     StartRecording, Merge, LeaveUnprinted, CheckExit, TakeReport, At, StackTypeOK
<1>7. /\ pc[t] = "posting"
      /\ shown' = [s \in Sessions |->
           IF s \in Answering(config.port) THEN shown[s] \cup posting[t] ELSE shown[s]]
  BY <1>6 DEF PostReport, At
<1>8. Top(t).call \in shown[Top(t).call.during] \/ Top(t).call \in posting[t]
  BY <1>4, <1>7 DEF Promises, PromisesWait, Waits
<1> QED
  BY <1>5, <1>7, <1>8

(***************************************************************************)
(* What the user attaches for, for a user who starts a session when the    *)
(* last one is over: a call of the enter method that begins while the      *)
(* session is attached is displayed by its Boot when it has returned, if   *)
(* that Boot still lives, however calls of any threads nest and overlap,   *)
(* and whatever sessions before it left behind, killed attaches included.  *)
(***************************************************************************)
THEOREM PromisesAreKept == Patient => (SystemSpec => AttachedCallsShown)
<1> SUFFICES ASSUME Patient
             PROVE  SystemSpec => AttachedCallsShown
  OBVIOUS
<1> QED
  BY SystemTypesInit, SystemTypesStep, AgentInvariance, PromisesInit, PromisesStep, ReturnShows, PTL
     DEF SystemSpec, AttachedCallsShown
=============================================================================
