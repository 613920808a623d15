------------------------ MODULE AgentPresenceProofs ------------------------
(***************************************************************************)
(* Theorems about a user who starts a session when the last one is over:   *)
(* for any number of sessions, any ports and any classes.                  *)
(***************************************************************************)
EXTENDS AgentLifecycleProofs

-----------------------------------------------------------------------------
(***************************************************************************)
(* One session at a time.                                                  *)
(***************************************************************************)
\* Only the start of a Boot makes a session busy.
LEMMA BusyStep ==
  ASSUME TypeOK, [Next]_vars, NEW t \in Sessions, Busy(t)', ~ StartBoot(t)
  PROVE  Busy(t)
<1> USE DEF Busy, Alive
<1>1. CASE UNCHANGED <<boot, agent, hb>>
  BY <1>1
<1>2. ASSUME NEW s \in Sessions, StartBoot(s) \/ LoadAgent(s) \/ EndBoot(s)
      PROVE  Busy(t)
  BY <1>2 DEF StartBoot, LoadAgent, AttachReturns, AttachFails, EndBoot, BootStep, TypeOK
<1>3. ASSUME NEW s \in Sessions, AgentMain(s)
      PROVE  Busy(t)
  <2>1. CASE SetEnterClazzName(s)
    BY <2>1 DEF SetEnterClazzName, AgentStep, TypeOK
  <2>2. CASE GoesOn(s)
    <3>1. CASE s = t
      BY <2>2, <3>1 DEF GoesOn
    <3>2. CASE s # t
      <4>1. hb'[t] = hb[t]
        BY <1>3, <3>2 DEF AgentMain, SetEnterClazzName, SetEnterMethod, SetHttpPort, CheckHttpConnection,
          StartHeartBeat, AgentThrows, ReadHierarchy, SetTimeCostTransformer, SetInstrument, SetTransClassSet,
          AddTransformer, Retransform, Transform, RetransformThrows, InstallAgent, TypeOK
      <4> QED
        BY <2>2, <3>2, <4>1 DEF GoesOn, TypeOK
    <3> QED
      BY <3>1, <3>2
  <2> QED
    BY <1>3, <2>1, <2>2, MainGoesOn
<1>4. ASSUME NEW s \in Sessions, HttpClientThread(s)
      PROVE  Busy(t)
  <2>1. hb[s] \notin {"off", "ended"} /\ \A u \in Sessions \ {s} : hb'[u] = hb[u]
    BY <1>4 DEF HttpClientThread, UndoInstrumentation, CheckBootExit, GetInstrument, GetTimeCostTransformer,
      RemoveTransformer, AddReset, Reset, TransformBack, InstallReset, RemoveReset, StopRecording,
      HeartBeatStep, TypeOK
  <2>2. UNCHANGED <<boot, agent>>
    BY <1>4, HeartBeatKeeps
  <2> QED
    BY <2>1, <2>2
<1> QED
  BY <1>1, <1>2, <1>3, <1>4 DEF Next, Terminated, vars

LEMMA OneStep ==
  ASSUME Patient, TypeOK, OneAtATime, [Next]_vars
  PROVE  OneAtATime'
<1>1. ASSUME NEW s \in Sessions, NEW t \in Sessions, Busy(s)', Busy(t)'
      PROVE  s = t
  <2>1. CASE \E u \in Sessions : StartBoot(u)
    <3>1. PICK u \in Sessions : StartBoot(u)
      BY <2>1
    <3>2. \A v \in Sessions : ~ Busy(v)
      BY <3>1 DEF StartBoot, NothingRuns, NoBootAlive, AgentIdle, Busy
    <3>3. \A v \in Sessions \ {u} : boot'[v] = boot[v] /\ agent'[v] = agent[v] /\ hb'[v] = hb[v]
      BY <3>1 DEF StartBoot, BootStep, TypeOK
    <3>4. \A v \in Sessions \ {u} : ~ Busy(v)'
      BY <3>2, <3>3 DEF Busy, Alive
    <3> QED
      BY <1>1, <3>4
  <2>2. CASE ~ \E u \in Sessions : StartBoot(u)
    BY <1>1, <2>2, BusyStep DEF OneAtATime
  <2> QED
    BY <2>1, <2>2
<1>2. ASSUME NEW s \in Sessions
      PROVE  /\ boot'[s] = "off" => agent'[s] = "none"
             /\ boot'[s] = "attached" => agent'[s] \in {"returned", "refused"}
             /\ agent'[s] \in {"none", "clazz", "method", "configured", "connected", "refused"} => hb'[s] = "off"
  <2>1. CASE UNCHANGED <<boot, agent, hb>>
    BY <2>1 DEF OneAtATime
  <2>2. ASSUME NEW t \in Sessions, StartBoot(t) \/ LoadAgent(t) \/ EndBoot(t)
        PROVE  /\ boot'[s] = "off" => agent'[s] = "none"
               /\ boot'[s] = "attached" => agent'[s] \in {"returned", "refused"}
               /\ agent'[s] \in {"none", "clazz", "method", "configured", "connected", "refused"} => hb'[s] = "off"
    BY <2>2 DEF OneAtATime, StartBoot, LoadAgent, AttachReturns, AttachFails, EndBoot, BootStep, TypeOK
  <2>3. ASSUME NEW t \in Sessions, AgentMain(t)
        PROVE  /\ boot'[s] = "off" => agent'[s] = "none"
               /\ boot'[s] = "attached" => agent'[s] \in {"returned", "refused"}
               /\ agent'[s] \in {"none", "clazz", "method", "configured", "connected", "refused"} => hb'[s] = "off"
    BY <2>3 DEF OneAtATime, AgentMain, SetEnterClazzName, SetEnterMethod, SetHttpPort, CheckHttpConnection,
          StartHeartBeat, AgentThrows, ReadHierarchy, SetTimeCostTransformer, SetInstrument, SetTransClassSet,
          AddTransformer, Retransform, Transform, RetransformThrows, InstallAgent, AgentStep, TypeOK
  <2>4. ASSUME NEW t \in Sessions, HttpClientThread(t)
        PROVE  /\ boot'[s] = "off" => agent'[s] = "none"
               /\ boot'[s] = "attached" => agent'[s] \in {"returned", "refused"}
               /\ agent'[s] \in {"none", "clazz", "method", "configured", "connected", "refused"} => hb'[s] = "off"
    <3>1. hb[t] \notin {"off", "ended"} /\ \A u \in Sessions \ {t} : hb'[u] = hb[u]
      BY <2>4 DEF HttpClientThread, UndoInstrumentation, CheckBootExit, GetInstrument, GetTimeCostTransformer,
        RemoveTransformer, AddReset, Reset, TransformBack, InstallReset, RemoveReset, StopRecording,
        HeartBeatStep, TypeOK
    <3> QED
      BY <2>4, <3>1, HeartBeatKeeps DEF OneAtATime
  <2> QED
    BY <2>1, <2>2, <2>3, <2>4 DEF Next, Terminated, vars
<1> QED
  BY <1>1, <1>2 DEF OneAtATime

\* While a Boot lives, only its own session moves, and its heartbeat thread
\* goes round.
LEMMA OnlyItsOwn ==
  ASSUME OneAtATime, AsksItsBoot, NEW s \in Sessions, Alive(s), NEW t \in Sessions
  PROVE  ~ HttpClientThread(t) /\ (AgentMain(t) => t = s)
<1>1. Busy(s)
  BY DEF Busy
<1>2. ASSUME AgentMain(t)
      PROVE  t = s
  <2>1. CASE SetEnterClazzName(t)
    <3>1. Busy(t)
      BY <2>1 DEF SetEnterClazzName, Busy, Alive
    <3> QED
      BY <1>1, <3>1 DEF OneAtATime
  <2>2. CASE GoesOn(t)
    <3>1. Busy(t)
      BY <2>2 DEF GoesOn, Busy
    <3> QED
      BY <1>1, <3>1 DEF OneAtATime
  <2> QED
    BY <1>2, <2>1, <2>2, MainGoesOn
<1>3. ASSUME HttpClientThread(t)
      PROVE  FALSE
  <2>1. hb[t] \notin {"off", "ended"}
    BY <1>3 DEF HttpClientThread, UndoInstrumentation, CheckBootExit, GetInstrument, GetTimeCostTransformer,
      RemoveTransformer, AddReset, Reset, TransformBack, InstallReset, RemoveReset, StopRecording, HeartBeatStep
  <2>2. t = s
    <3>1. Busy(t)
      BY <2>1 DEF Busy
    <3> QED
      BY <1>1, <3>1 DEF OneAtATime
  <2>3. hb[s] = "beating"
    BY <2>1, <2>2 DEF AsksItsBoot
  <2>4. config.port = PortOf[s]
    BY <2>3 DEF AsksItsBoot, OneAtATime
  <2>5. ~ BootGone(config.port)
    BY <2>4 DEF BootGone, Answers
  <2>6. CheckBootExit(s)
    BY <1>3, <2>2, <2>3 DEF HttpClientThread, UndoInstrumentation, GetInstrument, GetTimeCostTransformer,
      RemoveTransformer, AddReset, Reset, TransformBack, InstallReset, RemoveReset, StopRecording, HeartBeatStep
  <2> QED
    BY <2>5, <2>6 DEF CheckBootExit
<1> QED
  BY <1>2, <1>3

LEMMA AskStep ==
  ASSUME Patient, TypeOK, OneAtATime, AsksItsBoot, [Next]_vars
  PROVE  AsksItsBoot'
<1>1. SUFFICES ASSUME NEW s \in Sessions, Alive(s)'
               PROVE  /\ hb'[s] \in {"off", "beating"}
                      /\ agent'[s] \notin {"none", "clazz", "method"} => config'.port = PortOf[s]
  BY DEF AsksItsBoot
<1>2. CASE StartBoot(s)
  <2>1. agent'[s] = "none" /\ hb'[s] = "off"
    BY <1>2 DEF StartBoot, BootStep, OneAtATime
  <2> QED
    BY <2>1
<1>3. CASE Alive(s)
  <2>1. CASE UNCHANGED <<agent, hb, config>>
    BY <1>3, <2>1 DEF AsksItsBoot
  <2>2. CASE AgentMain(s)
    BY <1>3, <2>2 DEF AsksItsBoot, AgentMain, SetEnterClazzName, SetEnterMethod, SetHttpPort, CheckHttpConnection,
          StartHeartBeat, AgentThrows, ReadHierarchy, SetTimeCostTransformer, SetInstrument, SetTransClassSet,
          AddTransformer, Retransform, Transform, RetransformThrows, InstallAgent, AgentStep, TypeOK
  <2> QED
    BY <1>3, <2>1, <2>2, OnlyItsOwn, BootKeeps DEF Next, Terminated, vars
<1>4. CASE ~ Alive(s) /\ ~ StartBoot(s)
  <2>1. boot'[s] = boot[s]
    <3>1. ASSUME NEW t \in Sessions, StartBoot(t) \/ LoadAgent(t) \/ EndBoot(t)
          PROVE  boot'[s] = boot[s]
      BY <1>4, <3>1 DEF StartBoot, LoadAgent, AttachReturns, AttachFails, EndBoot, BootStep, Alive, TypeOK
    <3>2. ASSUME NEW t \in Sessions, AgentMain(t)
          PROVE  boot' = boot
      BY <3>2, MainGoesOn DEF GoesOn, SetEnterClazzName, AgentStep
    <3> QED
      BY <3>1, <3>2, HeartBeatKeeps DEF Next, Terminated, vars
  <2> QED
    BY <1>1, <1>4, <2>1 DEF Alive
<1> QED
  BY <1>2, <1>3, <1>4

\* Nothing but a start makes a Boot alive.
LEMMA AliveStep ==
  ASSUME TypeOK, [Next]_vars, NEW s \in Sessions, Alive(s)', ~ StartBoot(s)
  PROVE  Alive(s)
<1>1. ASSUME NEW t \in Sessions, StartBoot(t) \/ LoadAgent(t) \/ EndBoot(t)
      PROVE  Alive(s)
  BY <1>1 DEF StartBoot, LoadAgent, AttachReturns, AttachFails, EndBoot, BootStep, Alive, TypeOK
<1>2. ASSUME NEW t \in Sessions, AgentMain(t)
      PROVE  boot' = boot
  BY <1>2, MainGoesOn DEF GoesOn, SetEnterClazzName, AgentStep
<1>3. CASE boot' = boot
  BY <1>3 DEF Alive
<1> QED
  BY <1>1, <1>2, <1>3, HeartBeatKeeps DEF Next, Terminated, vars

-----------------------------------------------------------------------------
(***************************************************************************)
(* The session's own transformer has the last word.                        *)
(***************************************************************************)
LEMMA LastProperties ==
  ASSUME NEW S, NEW seq \in Seq(S)
  PROVE  /\ \A x \in S : Append(seq, x) # <<>> /\ Last(Append(seq, x)) = x
         /\ seq # <<>> => Last(seq) \in ToSet(seq)
         /\ seq # <<>> /\ Tail(seq) = <<>> => Head(seq) = Last(seq)
         /\ seq # <<>> /\ Tail(seq) # <<>> => Last(Tail(seq)) = Last(seq)
<1>1. Len(seq) \in Nat /\ DOMAIN seq = 1..Len(seq)
  BY LenProperties
<1>2. ASSUME NEW x \in S
      PROVE  Append(seq, x) # <<>> /\ Last(Append(seq, x)) = x
  BY <1>1, AppendProperties DEF Last
<1>3. ASSUME seq # <<>>, NEW n, n = Len(seq), NEW rest, rest = Tail(seq)
      PROVE  /\ Last(seq) \in ToSet(seq)
             /\ rest = <<>> => Head(seq) = Last(seq)
             /\ rest # <<>> => Last(rest) = Last(seq)
  <2>1. n \in Nat \ {0} /\ rest \in Seq(S) /\ Len(rest) = n - 1
    BY <1>1, <1>3, EmptySeq, HeadTailProperties
  <2>2. Last(seq) = seq[n] /\ Last(rest) = rest[n - 1]
    BY <1>3, <2>1 DEF Last
  <2>3. Last(seq) \in ToSet(seq)
    BY <1>1, <1>3, <2>1, <2>2 DEF ToSet
  <2>4. ASSUME rest = <<>>
        PROVE  Head(seq) = Last(seq)
    <3>1. Len(rest) = 0
      BY <2>4, EmptySeq
    <3>2. n = 1
      BY <2>1, <3>1
    <3> QED
      BY <1>3, <2>2, <3>2, HeadTailProperties
  <2>5. ASSUME rest # <<>>
        PROVE  Last(rest) = Last(seq)
    <3>1. Len(rest) # 0
      BY <2>1, <2>5, EmptySeq
    <3>2. n - 1 \in 1..Len(rest)
      BY <2>1, <3>1
    <3>3. rest[n - 1] = seq[n - 1 + 1]
      BY <1>3, <3>2, HeadTailProperties
    <3>4. n - 1 + 1 = n
      BY <2>1
    <3> QED
      BY <2>2, <3>3, <3>4
  <2> QED
    BY <2>3, <2>4, <2>5
<1> QED
  BY <1>2, <1>3

\* The part of OwnIsLast about the transformers still to run.
Hooking(s) ==
  /\ transformers[s] # <<>> /\ Last(transformers[s]) = TimeTransformer(s)
  /\ \A c \in targets[s] : compiled[Listener][c] # None
  /\ \/ s \in ahead[Listener]
     \/ /\ \A t \in ahead[Listener] : ~Began(t)
        /\ \/ hooks[Listener] # <<>> /\ Last(hooks[Listener]) = TimeTransformer(s)
           \/ hooks[Listener] = <<>> /\ \A c \in Rewritten(s) : compiled[Listener][c] = s

\* When the classes come to the list of the session that attaches, no other is
\* left to come to.
LEMMA ReadKeepsLast ==
  ASSUME TypeOK, MainsInOrder, NEW s \in Sessions, agent[s] = "hooking", Hooking(s),
         ReadHooks(Listener), UNCHANGED <<agent, targets, transformers>>
  PROVE  Hooking(s)'
<1>1. PICK t \in ahead[Listener] :
        /\ Began(t) /\ earlier[t] \cap ahead[Listener] = {}
        /\ ahead' = [ahead EXCEPT ![Listener] = @ \ {t}]
        /\ hooks' = [hooks EXCEPT ![Listener] = transformers[t]]
  BY DEF ReadHooks
<1>2. /\ ahead[Listener] \subseteq Sessions /\ ahead'[Listener] = ahead[Listener] \ {t}
      /\ hooks'[Listener] = transformers[t] /\ compiled' = compiled
  BY <1>1 DEF TypeOK, JvmThreads, ReadHooks
<1>3. s \in ahead[Listener]
  BY <1>1 DEF Hooking
<1>4. CASE t # s
  BY <1>2, <1>3, <1>4 DEF Hooking
<1>5. CASE t = s
  <2>1. \A u \in ahead'[Listener] : ~Began(u)'
    BY <1>1, <1>2, <1>5 DEF MainsInOrder, Began
  <2> QED
    BY <1>2, <1>5, <2>1 DEF Hooking
<1> QED
  BY <1>4, <1>5

LEMMA HookKeepsLast ==
  ASSUME TypeOK, ConfigIsWritten, ComesInOrder, NEW s \in Sessions, agent[s] = "hooking", Hooking(s),
         RunHook(Listener), UNCHANGED <<agent, targets, transformers>>
  PROVE  Hooking(s)'
<1> DEFINE x == hooks[Listener][1]
<1> DEFINE rest == Tail(hooks[Listener])
<1>1. Listener \in JvmThreads
  BY DEF JvmThreads
<1>2. /\ hooks[Listener] \in Seq(Transformer) /\ hooks[Listener] # <<>>
      /\ UNCHANGED ahead /\ hooks' = [hooks EXCEPT ![Listener] = Tail(@)]
  BY <1>1, RunsOne
<1>3. PICK env \in Sessions : RunsOf(Listener, env, x)
  BY <1>1, RunsOne
<1>4. /\ x = Head(hooks[Listener])
      /\ rest = <<>> => x = Last(hooks[Listener])
      /\ rest # <<>> => Last(rest) = Last(hooks[Listener])
  BY <1>2, HeadTailProperties, LastProperties
<1>5. hooks'[Listener] = rest
  BY <1>1, <1>2 DEF TypeOK
<1> HIDE DEF x, rest
<1>6. targets[s] \subseteq Classes
  BY DEF TypeOK
<1>7. \A c \in targets[s] : compiled'[Listener][c] # None
  <2>1. CASE TransformTimed(Listener, env)
    BY <1>1, <1>6, <2>1, SessionsAssumption DEF TransformTimed, Hooking, TypeOK
  <2>2. CASE TransformReset(Listener, x.of)
    BY <1>1, <1>6, <2>2 DEF TransformReset, Hooking, TypeOK
  <2> QED
    BY <1>3, <2>1, <2>2 DEF RunsOf
<1>8. CASE s \in ahead[Listener]
  BY <1>2, <1>7, <1>8 DEF Hooking
<1>9. CASE s \notin ahead[Listener]
  <2>1. (\A t \in ahead[Listener] : ~Began(t)) /\ Last(hooks[Listener]) = TimeTransformer(s)
    BY <1>2, <1>9 DEF Hooking
  <2>2. \A t \in ahead'[Listener] : ~Began(t)'
    BY <1>2, <2>1 DEF Began
  <2>3. CASE rest # <<>>
    BY <1>4, <1>5, <1>7, <2>1, <2>2, <2>3 DEF Hooking
  <2>4. CASE rest = <<>>
    <3>1. TransformTimed(Listener, s)
      BY <1>3, <1>4, <2>1, <2>4 DEF RunsOf, TimeTransformer
    <3>2. \A c \in Rewritten(s) : compiled'[Listener][c] = s
      BY <1>1, <1>6, <3>1 DEF TransformTimed, Hooking, Rewritten, TypeOK
    <3> QED
      BY <1>5, <1>7, <2>2, <2>4, <3>2 DEF Hooking, Rewritten
  <2> QED
    BY <2>3, <2>4
<1> QED
  BY <1>8, <1>9

LEMMA OwnLastStep ==
  ASSUME TypeOK, MainsInOrder, ConfigIsWritten, ComesInOrder,
         OneAtATime, AsksItsBoot, OwnIsLast, [Next]_vars
  PROVE  OwnIsLast'
<1> DEFINE Own(s) ==
      /\ agent[s] = "added" =>
           transformers[s] # <<>> /\ Last(transformers[s]) = TimeTransformer(s)
      /\ agent[s] = "hooking" => Hooking(s)
      /\ agent[s] = "returned" =>
           TimeTransformer(s) \in ToSet(transformers[s]) /\ \A c \in Rewritten(s) : code[c] = s
<1>0. /\ \A s \in Sessions : Alive(s) => Own(s)
      /\ OwnIsLast' <=> \A s \in Sessions : Alive(s)' => Own(s)'
  BY DEF OwnIsLast, Hooking
<1>1. SUFFICES ASSUME NEW s \in Sessions, Alive(s)'
               PROVE  Own(s)'
  BY <1>0
<1>2. CASE StartBoot(s)
  <2>1. agent'[s] = "none"
    BY <1>2 DEF StartBoot, BootStep, OneAtATime
  <2> QED
    BY <2>1
<1>3. CASE ~ StartBoot(s)
  <2>1. Alive(s) /\ Own(s)
    BY <1>0, <1>1, <1>3, AliveStep
  <2>2. CASE UNCHANGED <<agent, targets, transformers, ahead, hooks, compiled, code>>
    BY <2>1, <2>2 DEF Hooking, Rewritten, Began
  <2>3. ASSUME AgentMain(s)
        PROVE  Own(s)'
    <3>1. CASE AddTransformer(s)
      <4>1. agent'[s] = "added" /\ transformers'[s] = Append(transformers[s], TimeTransformer(s))
        BY <3>1 DEF AddTransformer, AgentStep, TypeOK
      <4>2. transformers'[s] # <<>> /\ Last(transformers'[s]) = TimeTransformer(s)
        <5>1. transformers[s] \in Seq(Transformer) /\ TimeTransformer(s) \in Transformer
          BY TransformerTypes DEF TypeOK
        <5> QED
          BY <4>1, <5>1, LastProperties
      <4> QED
        BY <4>1, <4>2
    <3>2. CASE Retransform(s)
      <4>1. /\ agent[s] = "added" /\ agent'[s] = "hooking"
            /\ BeginRetransform(Listener, targets[s])
            /\ UNCHANGED <<targets, transformers>>
        BY <3>2 DEF Retransform, AgentStep, TypeOK
      <4>2. s \in ahead'[Listener] /\ \A c \in targets[s] : compiled'[Listener][c] # None
        BY <4>1, SessionsAssumption DEF BeginRetransform, TypeOK, JvmThreads
      <4>3. transformers[s] # <<>> /\ Last(transformers[s]) = TimeTransformer(s)
        BY <2>1, <4>1
      <4>4. Hooking(s)'
        BY <4>1, <4>2, <4>3 DEF Hooking
      <4> QED
        BY <4>1, <4>4
    <3>3. CASE Transform(s)
      <4>1. agent[s] = "hooking" /\ UNCHANGED <<agent, targets, transformers>>
        BY <3>3 DEF Transform, AgentStep, TypeOK
      <4>2. Hooking(s)'
        BY <2>1, <3>3, <4>1, ReadKeepsLast, HookKeepsLast DEF Transform
      <4> QED
        BY <4>1, <4>2
    <3>4. CASE InstallAgent(s)
      <4>1. /\ agent[s] = "hooking" /\ agent'[s] = "returned" /\ Hooking(s)
            /\ AllHaveRun(Listener) /\ UNCHANGED <<targets, transformers>>
        BY <2>1, <3>4 DEF InstallAgent, Install, AgentStep, TypeOK
      <4>2. \A c \in Rewritten(s) : c \in Classes /\ compiled[Listener][c] = s
        BY <4>1 DEF AllHaveRun, Hooking, Began, Rewritten, TypeOK
      <4>3. \A c \in Rewritten(s) : code'[c] = s
        BY <3>4, <4>2, SessionsAssumption DEF InstallAgent, Install
      <4>4. TimeTransformer(s) \in ToSet(transformers[s])
        BY <4>1, LastProperties DEF Hooking, TypeOK
      <4> QED
        BY <4>1, <4>3, <4>4 DEF Rewritten
    <3>5. CASE ~ (AddTransformer(s) \/ Retransform(s) \/ Transform(s) \/ InstallAgent(s))
      <4>1. agent'[s] \notin {"added", "hooking", "returned"}
        BY <2>3, <3>5 DEF AgentMain, SetEnterClazzName, SetEnterMethod, SetHttpPort, CheckHttpConnection,
          StartHeartBeat, AgentThrows, ReadHierarchy, SetTimeCostTransformer, SetInstrument, SetTransClassSet,
          RetransformThrows, AgentStep, TypeOK
      <4> QED
        BY <4>1
    <3> QED
      BY <2>3, <3>1, <3>2, <3>3, <3>4, <3>5
  <2> HIDE DEF Own
  <2> QED
    BY <2>1, <2>2, <2>3, OnlyItsOwn, BootKeeps DEF Next, Terminated, vars, jvmVars
<1> QED
  BY <1>2, <1>3

-----------------------------------------------------------------------------
\* The invariant of a patient user.
THEOREM PatientInvariance == Patient => (Spec => []PatientInv)
<1> SUFFICES ASSUME Patient
             PROVE  Spec => []PatientInv
  OBVIOUS
<1>1. Init => PatientInv
  BY DEF Init, PatientInv, OneAtATime, AsksItsBoot, OwnIsLast, Busy, Alive
<1>2. OverlapInv /\ PatientInv /\ [Next]_vars => PatientInv'
  BY OneStep, AskStep, OwnLastStep DEF PatientInv, OverlapInv
<1> QED
  BY <1>1, <1>2, OverlapInvariance, PTL DEF Spec

(***************************************************************************)
(* A user who starts a session when the last one is over has, while a Boot *)
(* whose attach succeeded lives, its classes running its own session's     *)
(* code: also when Boots are killed while they attach, and whatever the    *)
(* transformers that earlier sessions left behind.                         *)
(***************************************************************************)
THEOREM AttachedStaysInstrumented == Patient => (Spec => []AttachedIsInstrumented)
<1> SUFFICES ASSUME Patient
             PROVE  Spec => []AttachedIsInstrumented
  OBVIOUS
<1>1. PatientInv => AttachedIsInstrumented
  BY DEF PatientInv, OwnIsLast, AttachedIsInstrumented, Alive
<1> QED
  BY <1>1, PatientInvariance, PTL

-----------------------------------------------------------------------------
(***************************************************************************)
(* Each attach is let finish: one session accounts for all there is.       *)
(***************************************************************************)
LEMMA OthersRest ==
  ASSUME OneAtATime, NEW s \in Sessions, Busy(s)
  PROVE  \A t \in Sessions \ {s} :
           /\ ~ Busy(t) /\ ~ Alive(t)
           /\ agent[t] \in {"none", "returned", "refused", "threw"}
           /\ hb[t] \in {"off", "ended"}
BY DEF OneAtATime, Busy

\* Classes that run a session's code are those of the busy session.
LEMMA CodeIsOfTheBusy ==
  ASSUME TypeOK, OneAtATime, OneIsSeen
  PROVE  /\ \A s \in Sessions : Busy(s) => \A c \in Classes : code[c] \in {Orig, s}
         /\ \A s \in Sessions : Busy(s) /\ agent[s] # "returned" => \A c \in Classes : code[c] = Orig
         /\ NothingRuns => \A c \in Classes : code[c] = Orig
<1>1. ASSUME NEW c \in Classes, code[c] # Orig
      PROVE  code[c] \in Sessions /\ Busy(code[c]) /\ agent[code[c]] = "returned"
  <2>1. code[c] \in Sessions
    BY <1>1 DEF TypeOK, Code
  <2>2. agent[code[c]] = "returned" /\ hb[code[c]] \notin {"off", "ended"}
    BY <2>1 DEF OneIsSeen
  <2> QED
    BY <2>1, <2>2 DEF Busy
<1>2. NothingRuns => \A s \in Sessions : ~ Busy(s)
  BY DEF NothingRuns, NoBootAlive, AgentIdle, Busy
<1> QED
  BY <1>1, <1>2 DEF OneAtATime

LEMMA WithoutOnly ==
  ASSUME NEW x
  PROVE  Without(<<>>, x) = <<>> /\ Without(<<x>>, x) = <<>>
<1>1. Without(<<>>, x) = <<>>
  BY DEF Without, ToSet
<1>2. ASSUME NEW list, list = <<x>>
      PROVE  Without(list, x) = <<>>
  <2> DEFINE chosen == CHOOSE k \in DOMAIN list : list[k] = x
  <2>1. list \in Seq({x}) /\ Len(list) = 1 /\ DOMAIN list = {1} /\ list[1] = x
    BY <1>2
  <2>2. chosen = 1
    BY <2>1
  <2>3. Without(list, x) = RemoveAt(list, chosen)
    BY <2>1 DEF Without, ToSet
  <2> HIDE DEF chosen
  <2>4. RemoveAt(list, 1) \in Seq({x}) /\ Len(RemoveAt(list, 1)) = 0
    <3>1. 1 \in 1..Len(list) /\ Len(list) - 1 = 0
      BY <2>1
    <3>2. /\ RemoveAt(list, 1) \in Seq({x})
          /\ Len(RemoveAt(list, 1)) = Len(list) - 1
      BY <2>1, <3>1, RemoveAtProperties
    <3> QED
      BY <3>1, <3>2
  <2> QED
    BY <2>2, <2>3, <2>4, EmptySeq
<1> QED
  BY <1>1, <1>2

\* The lists of all sessions when at most one has anything in it.
LEMMA OnlyProperties ==
  ASSUME NEW s \in Sessions, NEW list
  PROVE  /\ Only(s, list)[s] = list /\ Nothing[s] = <<>>
         /\ \A t \in Sessions \ {s} : Only(s, list)[t] = <<>>
         /\ [Nothing EXCEPT ![s] = <<>>] = Nothing
         /\ [Only(s, list) EXCEPT ![s] = <<>>] = Nothing
BY DEF Only, Nothing

LEMMA OnlyOne ==
  ASSUME NEW s \in Sessions, NEW t \in Sessions, NEW i \in Sessions, NEW u
  PROVE  /\ TimeTransformer(t) \in ToSet(Only(s, <<TimeTransformer(s)>>)[t]) <=> t = s
         /\ TimeTransformer(t) \notin ToSet(Only(i, <<ResetTransformer(s, u)>>)[t])
         /\ TimeTransformer(t) \notin ToSet(Nothing[t])
<1>1. TimeTransformer(t) # ResetTransformer(s, u)
  BY DEF TimeTransformer, ResetTransformer
<1>2. (\A x : ToSet(<<x>>) = {x}) /\ ToSet(<<>>) = {}
  BY DEF ToSet
<1> QED
  BY <1>1, <1>2, OnlyProperties

LEMMA BootOrderly ==
  ASSUME Patient, ~ KillsDuringAttach, TypeOK, PatientInv, OrderlyInv, [Next]_vars,
         NEW s \in Sessions, StartBoot(s) \/ LoadAgent(s) \/ EndBoot(s)
  PROVE  OrderlyInv'
<1>1. UNCHANGED <<agent, earlier, hb, instrumentation, local, config, targets,
                 transformers, saved, ahead, hooks, compiled, code>>
  BY BootKeeps DEF jvmVars
<1>2. WatchedFirst' /\ OneIsCompiled' /\ OneIsSeen'
  BY <1>1 DEF OrderlyInv, WatchedFirst, OneIsCompiled, OneIsSeen, ConfigIsOwn
<1>3. \A t \in Sessions : AccountsFor(t)' <=> AccountsFor(t)
  BY <1>1 DEF AccountsFor, ConfigIsOwn
<1>4. CASE StartBoot(s)
  <2>1. /\ NothingRuns /\ transformers = Nothing /\ Alive(s)'
        /\ agent[s] = "none" /\ hb[s] = "off"
    BY <1>4 DEF StartBoot, BootStep, Alive, TypeOK, OrderlyInv, OneRegisters, PatientInv, OneAtATime
  <2>2. AttachIsLetFinish'
    BY <1>1, <2>1 DEF NothingRuns, AgentIdle, AttachIsLetFinish
  <2>3. \A t \in Sessions \ {s} : ~ Busy(t)'
    BY <1>1, <1>4, <2>1 DEF StartBoot, BootStep, NothingRuns, NoBootAlive, AgentIdle, Busy, Alive, TypeOK
  <2>4. AccountsFor(s)
    BY <2>1, OnlyOne DEF AccountsFor, CleaningUp
  <2>5. OneRegisters'
    BY <1>1, <1>3, <2>1, <2>3, <2>4 DEF OneRegisters
  <2> QED
    BY <1>2, <2>2, <2>5 DEF OrderlyInv
<1>5. CASE LoadAgent(s) \/ EndBoot(s)
  <2>1. /\ Alive(s) /\ agent[s] \in {"returned", "refused", "threw"}
        /\ boot' = [boot EXCEPT ![s] = boot'[s]]
    BY <1>5 DEF LoadAgent, AttachReturns, AttachFails, EndBoot, BootStep, Alive, TypeOK, PatientInv, OneAtATime
  <2>2. AttachIsLetFinish'
    BY <1>1, <2>1 DEF OrderlyInv, AttachIsLetFinish, TypeOK
  <2>3. Busy(s) /\ AccountsFor(s)
    BY <2>1 DEF Busy, OrderlyInv, OneRegisters
  <2>4. NothingRuns' => transformers = Nothing
    <3>1. NothingRuns' => hb[s] \in {"off", "ended"}
      BY <1>1 DEF NothingRuns
    <3>2. hb[s] \in {"off", "beating"}
      BY <2>1 DEF PatientInv, AsksItsBoot
    <3>3. hb[s] = "off" => transformers = Nothing
      BY <2>1, <2>3, OnlyOne DEF OrderlyInv, WatchedFirst, AccountsFor, CleaningUp
    <3> QED
      BY <3>1, <3>2, <3>3
  <2>5. \A t \in Sessions : Busy(t)' => Busy(t)
    <3>1. \A t \in Sessions : boot[t] # "attaching" /\ boot[t] # "attached" => boot'[t] = boot[t]
      BY <2>1 DEF Alive, TypeOK
    <3> QED
      BY <1>1, <3>1 DEF Busy, Alive
  <2>6. OneRegisters'
    BY <1>1, <1>3, <2>4, <2>5 DEF OrderlyInv, OneRegisters
  <2> QED
    BY <1>2, <2>2, <2>6 DEF OrderlyInv
<1> QED
  BY <1>4, <1>5

\* What holds of the session whose agentmain runs.
LEMMA MainRuns ==
  ASSUME TypeOK, PatientInv, OrderlyInv, NEW s \in Sessions, AgentMain(s)
  PROVE  /\ Busy(s) /\ Alive(s) /\ boot[s] = "attaching" /\ AccountsFor(s)
         /\ hb[s] \in {"off", "beating"} /\ hb'[s] \in {"off", "beating"}
         /\ hb[s] # "off" => hb'[s] # "off"
         /\ agent[s] \notin {"returned", "refused", "threw"} /\ agent'[s] # "none"
         /\ \A c \in Classes : code[c] = Orig
         /\ UNCHANGED <<boot, instrumentation, local>>
         /\ \A t \in Sessions \ {s} :
              /\ ~ Busy(t) /\ ~ Busy(t)'
              /\ agent[t] \in {"none", "returned", "refused", "threw"}
              /\ agent'[t] = agent[t] /\ hb'[t] = hb[t]
<1>1. /\ boot[s] = "attaching" /\ agent[s] \notin {"returned", "refused", "threw"}
      /\ agent'[s] # "none" /\ UNCHANGED <<boot, instrumentation, local>>
      /\ \A t \in Sessions \ {s} : agent'[t] = agent[t]
  <2>1. CASE SetEnterClazzName(s)
    BY <2>1 DEF SetEnterClazzName, AgentStep, TypeOK
  <2>2. CASE GoesOn(s)
    BY <2>2 DEF GoesOn, OrderlyInv, AttachIsLetFinish, TypeOK
  <2> QED
    BY <2>1, <2>2, MainGoesOn
<1>2. Alive(s) /\ Busy(s)
  BY <1>1 DEF Alive, Busy
<1>3. AccountsFor(s)
  BY <1>2 DEF OrderlyInv, OneRegisters
<1>4. hb[s] \in {"off", "beating"}
  BY <1>2 DEF PatientInv, AsksItsBoot
<1>5. /\ hb'[s] \in {"off", "beating"} /\ (hb[s] # "off" => hb'[s] # "off")
      /\ \A t \in Sessions \ {s} : hb'[t] = hb[t]
  BY <1>4 DEF AgentMain, SetEnterClazzName, SetEnterMethod, SetHttpPort, CheckHttpConnection,
    StartHeartBeat, AgentThrows, ReadHierarchy, SetTimeCostTransformer, SetInstrument, SetTransClassSet,
    AddTransformer, Retransform, Transform, RetransformThrows, InstallAgent, TypeOK
<1>6. \A c \in Classes : code[c] = Orig
  BY <1>1, <1>2, CodeIsOfTheBusy DEF PatientInv, OrderlyInv
<1>7. \A t \in Sessions \ {s} : ~ Busy(t) /\ agent[t] \in {"none", "returned", "refused", "threw"}
  BY <1>2, OthersRest DEF PatientInv
<1>8. \A t \in Sessions \ {s} : ~ Busy(t)'
  BY <1>1, <1>5, <1>7 DEF Busy, Alive
<1> QED
  BY <1>1, <1>2, <1>3, <1>4, <1>5, <1>6, <1>7, <1>8

LEMMA MainAccounts ==
  ASSUME TypeOK, PatientInv, OrderlyInv, NEW s \in Sessions, AgentMain(s)
  PROVE  AccountsFor(s)' /\ transformers' \in {Nothing, Only(s, <<TimeTransformer(s)>>)}
<1> USE DEF AgentStep
<1>1. /\ AccountsFor(s) /\ hb[s] \in {"off", "beating"} /\ hb'[s] \in {"off", "beating"}
      /\ agent[s] \notin {"returned", "refused", "threw"}
  BY MainRuns
<1>2. /\ agent[s] \in {"added", "hooking"} => transformers = Only(s, <<TimeTransformer(s)>>) /\ ConfigIsOwn(s)
      /\ agent[s] \notin {"added", "hooking"} => transformers = Nothing
  BY <1>1, OnlyOne DEF AccountsFor, CleaningUp
<1>3. CASE SetEnterClazzName(s) \/ SetEnterMethod(s) \/ SetHttpPort(s) \/ CheckHttpConnection(s)
             \/ StartHeartBeat(s) \/ AgentThrows(s) \/ ReadHierarchy(s)
  <2>1. /\ transformers = Nothing /\ transformers' = Nothing
        /\ agent'[s] \notin {"tct", "inst", "classSet", "added", "hooking", "returned"}
    BY <1>2, <1>3 DEF SetEnterClazzName, SetEnterMethod, SetHttpPort, CheckHttpConnection,
      StartHeartBeat, AgentThrows, ReadHierarchy, TypeOK, jvmVars
  <2> QED
    BY <1>1, <2>1, OnlyOne DEF AccountsFor, CleaningUp
<1>4. CASE SetTimeCostTransformer(s) \/ SetInstrument(s) \/ SetTransClassSet(s)
  <2>1. /\ transformers = Nothing /\ transformers' = Nothing
        /\ \/ agent'[s] = "tct" /\ config'.tct = s
           \/ agent[s] = "tct" /\ agent'[s] = "inst" /\ config'.tct = config.tct /\ config'.inst = s
           \/ /\ agent[s] = "inst" /\ agent'[s] = "classSet"
              /\ config'.tct = config.tct /\ config'.inst = config.inst /\ config'.classSet = s
    BY <1>2, <1>4 DEF SetTimeCostTransformer, SetInstrument, SetTransClassSet, TypeOK, jvmVars
  <2> QED
    BY <1>1, <2>1, OnlyOne DEF AccountsFor, CleaningUp
<1>5. CASE AddTransformer(s)
  <2>1. /\ agent[s] = "classSet" /\ agent'[s] = "added" /\ config' = config
        /\ transformers' = Only(s, <<TimeTransformer(s)>>)
    <3>1. agent[s] = "classSet" /\ agent'[s] = "added" /\ config' = config
      BY <1>5 DEF AddTransformer, TypeOK
    <3>2. transformers = Nothing /\ transformers' = [transformers EXCEPT ![s] = Append(@, TimeTransformer(s))]
      BY <1>2, <1>5, <3>1 DEF AddTransformer
    <3>3. Append(<<>>, TimeTransformer(s)) = <<TimeTransformer(s)>>
      OBVIOUS
    <3> QED
      BY <3>1, <3>2, <3>3, OnlyProperties DEF Only
  <2>2. ConfigIsOwn(s)'
    BY <1>1, <2>1 DEF AccountsFor, ConfigIsOwn
  <2> QED
    BY <1>1, <2>1, <2>2 DEF AccountsFor, CleaningUp
<1>6. CASE Retransform(s) \/ Transform(s) \/ RetransformThrows(s) \/ InstallAgent(s)
  <2>1. /\ transformers' = Only(s, <<TimeTransformer(s)>>) /\ config' = config /\ ConfigIsOwn(s)
        /\ agent'[s] \in {"hooking", "threw", "returned"}
    BY <1>2, <1>6 DEF Retransform, Transform, RetransformThrows, InstallAgent, TypeOK
  <2> QED
    BY <1>1, <2>1 DEF AccountsFor, CleaningUp, ConfigIsOwn
<1> QED
  BY <1>3, <1>4, <1>5, <1>6 DEF AgentMain

LEMMA MainCompiles ==
  ASSUME TypeOK, MainsInOrder, GivenIsEarlier, PatientInv, OrderlyInv,
         NEW s \in Sessions, AgentMain(s)
  PROVE  OneIsCompiled' /\ OneIsSeen'
<1> USE DEF AgentStep
<1>1. /\ \A c \in Classes : code[c] = Orig
      /\ \A t \in Sessions : hb'[t] # "hooking"
      /\ \A t \in Sessions \ {s} : agent'[t] \in {"none", "returned", "refused", "threw"}
  <2>1. \A t \in Sessions \ {s} : hb[t] \in {"off", "ended"}
    BY MainRuns DEF Busy
  <2> QED
    BY <2>1, MainRuns
<1>2. Listener \in JvmThreads /\ None \notin Code /\ Orig \notin Sessions
  BY SessionsAssumption DEF JvmThreads, Code
<1>3. agent[s] \in {"added", "hooking"} =>
        transformers = Only(s, <<TimeTransformer(s)>>) /\ ConfigIsOwn(s) /\ hb[s] # "off"
  BY MainRuns, OnlyOne DEF AccountsFor, CleaningUp, OrderlyInv, WatchedFirst
<1>4. \A t \in Sessions : \A c \in Classes : saved[t][c] \in {None, Orig}
  BY DEF OrderlyInv, OneIsSeen
<1>5. CASE Retransform(s)
  <2>1. agent[s] = "added" /\ UNCHANGED <<saved, code, targets>>
    BY <1>5 DEF Retransform, BeginRetransform
  <2>2. hooks'[Listener] = <<>>
    BY <1>2, <1>5 DEF Retransform, BeginRetransform, TypeOK
  <2>3. \A c \in Classes : /\ compiled'[Listener][c] \in {None, Orig}
                           /\ compiled'[Listener][c] # None => c \in targets[s]
    BY <1>2, <1>5 DEF Retransform, BeginRetransform, TypeOK
  <2> QED
    BY <1>1, <1>2, <1>4, <2>1, <2>2, <2>3 DEF OneIsCompiled, OneIsSeen
<1>6. CASE Transform(s) /\ ReadHooks(Listener)
  <2>1. agent[s] = "hooking" /\ UNCHANGED <<code, targets, compiled, saved>>
    BY <1>6 DEF Transform, ReadHooks
  <2>2. PICK t \in Sessions : hooks'[Listener] = transformers[t]
    BY <1>2, <1>6 DEF ReadHooks, TypeOK
  <2>3. hooks'[Listener] \in {<<>>, <<TimeTransformer(s)>>}
    BY <1>3, <2>1, <2>2, OnlyProperties
  <2>4. \A c \in Classes : /\ compiled[Listener][c] \in {None, Orig, s}
                           /\ compiled[Listener][c] # None => c \in targets[s]
    BY <2>1 DEF OrderlyInv, OneIsCompiled
  <2> QED
    BY <1>1, <1>2, <1>4, <2>1, <2>3, <2>4 DEF OneIsCompiled, OneIsSeen
<1>7. CASE Transform(s) /\ RunHook(Listener)
  <2>1. agent[s] = "hooking" /\ UNCHANGED <<code, targets>>
    BY <1>7 DEF Transform
  <2>2. hooks[Listener] = <<TimeTransformer(s)>>
    BY <1>7, <2>1 DEF RunHook, OrderlyInv, OneIsCompiled
  <2>3. TransformTimed(Listener, s) /\ hooks'[Listener] = <<>>
    BY <1>2, <1>7, <2>2 DEF RunHook, TimeTransformer, TypeOK
  <2>4. \A c \in Classes : compiled[Listener][c] \in {None, Orig}
    <3>1. \A c \in Classes : compiled[Listener][c] \in {None, Orig, s}
      BY <2>1 DEF OrderlyInv, OneIsCompiled
    <3>2. StillToRun(Listener, s)
      BY <2>2 DEF StillToRun, TimeTransformer
    <3>3. s \notin earlier[s]
      BY DEF MainsInOrder
    <3>4. ~ Straddled(s)
      BY <2>1 DEF Straddled, MainsInOrder
    <3>5. \A c \in Classes : compiled[Listener][c] \in {None, Orig} \cup earlier[s]
      BY <1>2, <3>2, <3>4 DEF GivenIsEarlier, UpTo
    <3> QED
      BY <3>1, <3>3, <3>5
  <2>5. \A c \in Classes : /\ compiled'[Listener][c] \in {None, Orig, s}
                           /\ compiled'[Listener][c] # None => c \in targets[s]
    <3>1. \A c \in Classes : compiled[Listener][c] # None => c \in targets[s]
      BY <2>1 DEF OrderlyInv, OneIsCompiled
    <3> QED
      BY <1>2, <2>3, <2>4, <3>1 DEF TransformTimed, TypeOK
  <2>6. \A t \in Sessions : \A c \in Classes : saved'[t][c] \in {None, Orig}
    BY <1>4, <2>3, <2>4 DEF TransformTimed, SavedBytes, TypeOK
  <2> QED
    BY <1>1, <1>2, <2>1, <2>3, <2>5, <2>6 DEF OneIsCompiled, OneIsSeen
<1>8. CASE InstallAgent(s)
  <2>1. /\ agent[s] = "hooking" /\ agent'[s] = "returned"
        /\ UNCHANGED <<saved, targets, config, hb>>
    BY <1>8 DEF InstallAgent, Install, TypeOK
  <2>2. hb[s] = "beating" /\ ConfigIsOwn(s)
    BY <1>3, <2>1, MainRuns
  <2>3. ASSUME NEW c \in Classes
        PROVE  code'[c] = Orig \/ (code'[c] = s /\ c \in targets[s])
    <3>1. code'[c] = IF compiled[Listener][c] = None THEN code[c] ELSE compiled[Listener][c]
      BY <1>8 DEF InstallAgent, Install
    <3>2. /\ compiled[Listener][c] \in {None, Orig, s}
          /\ compiled[Listener][c] # None => c \in targets[s]
      BY <2>1 DEF OrderlyInv, OneIsCompiled
    <3> QED
      BY <1>1, <3>1, <3>2
  <2>4. OneIsCompiled'
    BY <1>1, <2>1 DEF OneIsCompiled
  <2>5. OneIsSeen'
    BY <1>2, <1>4, <2>1, <2>2, <2>3 DEF OneIsSeen, ConfigIsOwn
  <2> QED
    BY <2>4, <2>5
<1>9. CASE ~ (Retransform(s) \/ Transform(s) \/ InstallAgent(s))
  <2>1. agent'[s] # "hooking" /\ UNCHANGED <<saved, code>>
    BY <1>9 DEF AgentMain, SetEnterClazzName, SetEnterMethod, SetHttpPort, CheckHttpConnection,
      StartHeartBeat, AgentThrows, ReadHierarchy, SetTimeCostTransformer, SetInstrument, SetTransClassSet,
      AddTransformer, RetransformThrows, TypeOK, jvmVars
  <2>2. OneIsCompiled'
    BY <1>1, <2>1 DEF OneIsCompiled
  <2>3. OneIsSeen'
    BY <1>1, <1>2, <1>4, <2>1 DEF OneIsSeen
  <2> QED
    BY <2>2, <2>3
<1> QED
  BY <1>5, <1>6, <1>7, <1>8, <1>9 DEF Transform

LEMMA MainOrderly ==
  ASSUME TypeOK, MainsInOrder, GivenIsEarlier, PatientInv, OrderlyInv,
         NEW s \in Sessions, AgentMain(s)
  PROVE  OrderlyInv'
<1>1. AttachIsLetFinish'
  BY MainRuns DEF AttachIsLetFinish
<1>2. WatchedFirst'
  <2>1. \A t \in Sessions : hb[t] # "off" => hb'[t] # "off"
    BY MainRuns
  <2>2. \A t \in Sessions \ {s} : TimeTransformer(t) \notin ToSet(transformers'[t]) /\ agent'[t] = agent[t]
    BY MainRuns, MainAccounts, OnlyOne
  <2>3. TimeTransformer(s) \in ToSet(transformers'[s]) =>
          TimeTransformer(s) \in ToSet(transformers[s]) \/ agent[s] = "classSet"
    BY DEF AgentMain, SetEnterClazzName, SetEnterMethod, SetHttpPort, CheckHttpConnection,
      StartHeartBeat, AgentThrows, ReadHierarchy, SetTimeCostTransformer, SetInstrument, SetTransClassSet,
      AddTransformer, Retransform, Transform, RetransformThrows, InstallAgent, AgentStep, jvmVars
  <2>4. agent'[s] \in {"watched", "read", "tct", "inst", "classSet", "added", "hooking", "returned"} =>
          \/ agent[s] \in {"watched", "read", "tct", "inst", "classSet", "added", "hooking"}
          \/ hb'[s] # "off"
    BY DEF AgentMain, SetEnterClazzName, SetEnterMethod, SetHttpPort, CheckHttpConnection,
      StartHeartBeat, AgentThrows, ReadHierarchy, SetTimeCostTransformer, SetInstrument, SetTransClassSet,
      AddTransformer, Retransform, Transform, RetransformThrows, InstallAgent, AgentStep, TypeOK
  <2> QED
    BY <2>1, <2>2, <2>3, <2>4 DEF OrderlyInv, WatchedFirst
<1>3. OneRegisters'
  <2>1. ~ NothingRuns'
    BY MainRuns DEF NothingRuns, NoBootAlive, Alive
  <2> QED
    BY <2>1, MainRuns, MainAccounts DEF OneRegisters
<1> QED
  BY <1>1, <1>2, <1>3, MainCompiles DEF OrderlyInv

\* What holds of the session whose heartbeat thread undoes its work.
LEMMA HeartBeatRuns ==
  ASSUME TypeOK, PatientInv, OrderlyInv, NEW s \in Sessions, HttpClientThread(s)
  PROVE  /\ Busy(s) /\ AccountsFor(s) /\ hb[s] \notin {"off", "ended"} /\ hb'[s] # "off"
         /\ agent[s] \in {"none", "returned", "refused", "threw"}
         /\ \A t \in Sessions : ~ Alive(t)
         /\ \A c \in Classes : code[c] \in {Orig, s}
         /\ UNCHANGED <<boot, agent, earlier, config, targets>>
         /\ \A t \in Sessions \ {s} :
              ~ Busy(t) /\ ~ Busy(t)' /\ hb[t] \in {"off", "ended"} /\ hb'[t] = hb[t]
<1>1. UNCHANGED <<boot, agent, earlier, config, targets>>
  BY HeartBeatKeeps
<1>2. /\ hb[s] \notin {"off", "ended"} /\ hb'[s] # "off"
      /\ \A t \in Sessions \ {s} : hb'[t] = hb[t]
  BY DEF HttpClientThread, UndoInstrumentation, CheckBootExit, GetInstrument, GetTimeCostTransformer,
    RemoveTransformer, AddReset, Reset, TransformBack, InstallReset, RemoveReset, StopRecording,
    HeartBeatStep, TypeOK
<1>3. Busy(s)
  BY <1>2 DEF Busy
<1>4. AccountsFor(s)
  BY <1>3 DEF OrderlyInv, OneRegisters
<1>5. \A t \in Sessions : ~ Alive(t)
  BY OnlyItsOwn DEF PatientInv
<1>6. agent[s] \in {"none", "returned", "refused", "threw"}
  BY <1>5 DEF OrderlyInv, AttachIsLetFinish, Alive
<1>7. \A c \in Classes : code[c] \in {Orig, s}
  BY <1>3, CodeIsOfTheBusy DEF PatientInv, OrderlyInv
<1>8. \A t \in Sessions \ {s} : ~ Busy(t) /\ hb[t] \in {"off", "ended"}
  BY <1>3, OthersRest DEF PatientInv
<1>9. \A t \in Sessions \ {s} : ~ Busy(t)'
  BY <1>1, <1>2, <1>8 DEF Busy, Alive
<1> QED
  BY <1>1, <1>2, <1>3, <1>4, <1>5, <1>6, <1>7, <1>8, <1>9

LEMMA HeartBeatAccounts ==
  ASSUME TypeOK, ConfigIsWritten, PatientInv, OrderlyInv, NEW s \in Sessions, HttpClientThread(s)
  PROVE  /\ hb'[s] # "ended" => AccountsFor(s)'
         /\ hb'[s] = "ended" => transformers' = Nothing
         /\ \A t \in Sessions : TimeTransformer(t) \in ToSet(transformers'[t]) => t = s
<1> USE DEF HeartBeatStep
<1>1. /\ AccountsFor(s) /\ agent'[s] = agent[s] /\ config' = config
      /\ agent[s] \in {"none", "returned", "refused", "threw"}
  BY HeartBeatRuns
<1>2. hb[s] \notin CleaningUp \ {"read"} =>
        transformers \in {Nothing, Only(s, <<TimeTransformer(s)>>)}
  BY <1>1 DEF AccountsFor
<1>3. CASE CheckBootExit(s) \/ GetInstrument(s) \/ GetTimeCostTransformer(s)
  <2>1. transformers' = transformers /\ hb[s] \notin CleaningUp
    BY <1>3 DEF CheckBootExit, GetInstrument, GetTimeCostTransformer, jvmVars, CleaningUp
  <2>2. \/ hb'[s] \notin CleaningUp \cup {"removing"}
        \/ hb'[s] = "removing" /\ instrumentation'[s] = config.inst
        \/ hb[s] = "removing" /\ hb'[s] = "read" /\ local'[s] = config.tct /\ instrumentation' = instrumentation
    BY <1>3 DEF CheckBootExit, GetInstrument, GetTimeCostTransformer, CleaningUp, TypeOK
  <2>3. hb'[s] \notin {"removed", "unregistered", "resetting", "hooking", "installed"}
    BY <2>2 DEF CleaningUp
  <2>4. AccountsFor(s)'
    BY <1>1, <2>1, <2>2, <2>3 DEF AccountsFor, ConfigIsOwn, CleaningUp
  <2>5. hb'[s] = "ended" => transformers = Nothing
    <3>1. hb'[s] = "ended" => config.inst = None
      BY <1>3 DEF CheckBootExit, GetInstrument, GetTimeCostTransformer, TypeOK
    <3>2. transformers = Only(s, <<TimeTransformer(s)>>) => config.inst = s
      BY <1>1, OnlyOne DEF AccountsFor, ConfigIsOwn
    <3> QED
      BY <1>2, <2>1, <3>1, <3>2, SessionsAssumption DEF CleaningUp
  <2> QED
    BY <1>2, <2>1, <2>4, <2>5, OnlyOne, OnlyProperties DEF CleaningUp
<1>4. CASE RemoveTransformer(s)
  <2> DEFINE i == instrumentation[s]
  <2>1. /\ hb[s] = "read" /\ hb'[s] = "removed" /\ UNCHANGED <<instrumentation, local>>
        /\ i = config.inst /\ local[s] = config.tct
        /\ transformers' = [transformers EXCEPT ![i] = Without(@, TimeTransformer(local[s]))]
    BY <1>1, <1>4 DEF RemoveTransformer, TypeOK, AccountsFor, CleaningUp
  <2>2. i \in Sessions
    BY <2>1 DEF ConfigIsWritten, TypeOK
  <2>3. transformers = Only(s, <<TimeTransformer(s)>>) => local[s] = s /\ i = s
    BY <1>1, <2>1, OnlyOne DEF AccountsFor, ConfigIsOwn
  <2> HIDE DEF i
  <2>4. transformers' = Nothing
    <3>1. CASE transformers = Nothing
      <4>1. Without(transformers[i], TimeTransformer(local[s])) = <<>>
        BY <2>2, <3>1, WithoutOnly, OnlyProperties
      <4>2. transformers' = [Nothing EXCEPT ![i] = <<>>]
        BY <2>1, <3>1, <4>1
      <4> QED
        BY <2>2, <4>2, OnlyProperties
    <3>2. CASE transformers = Only(s, <<TimeTransformer(s)>>)
      BY <2>1, <2>3, <3>2, WithoutOnly, OnlyProperties
    <3> QED
      BY <1>2, <2>1, <3>1, <3>2 DEF CleaningUp
  <2> QED
    BY <1>1, <2>1, <2>4, OnlyOne DEF AccountsFor, CleaningUp, i
<1>5. CASE AddReset(s)
  <2> DEFINE i == instrumentation[s]
  <2>1. /\ hb[s] = "removed" /\ hb'[s] \in {"resetting", "ended"} /\ UNCHANGED <<instrumentation, local>>
        /\ transformers = Nothing /\ i = config.inst /\ local[s] = config.tct
    BY <1>1, <1>5 DEF AddReset, TypeOK, AccountsFor, CleaningUp
  <2>2. i \in Sessions
    BY <2>1 DEF ConfigIsWritten, TypeOK
  <2>3. /\ hb'[s] = "ended" => transformers' = Nothing
        /\ hb'[s] = "resetting" => transformers' = Only(i, <<ResetTransformer(s, local[s])>>)
    BY <1>5, <2>1, <2>2 DEF AddReset, TypeOK, Only, Nothing
  <2> QED
    BY <1>1, <2>1, <2>2, <2>3, OnlyOne DEF AccountsFor, CleaningUp
<1>6. CASE Reset(s) \/ TransformBack(s) \/ InstallReset(s)
  <2>1. /\ hb[s] \in {"resetting", "hooking"} /\ hb'[s] \in {"hooking", "installed"}
        /\ UNCHANGED <<instrumentation, local, transformers>>
    BY <1>6 DEF Reset, TransformBack, InstallReset, TypeOK
  <2>2. instrumentation[s] \in Sessions
    BY <2>1 DEF ConfigIsWritten, TypeOK
  <2>3. transformers = Only(instrumentation[s], <<ResetTransformer(s, local[s])>>)
    BY <1>1, <2>1 DEF AccountsFor
  <2> QED
    BY <1>1, <2>1, <2>2, <2>3, OnlyOne DEF AccountsFor, CleaningUp
<1>7. CASE RemoveReset(s)
  <2>1. /\ hb[s] = "installed" /\ hb'[s] = "unregistered" /\ UNCHANGED <<instrumentation, local>>
        /\ transformers' = WithoutReset(s)
    BY <1>7 DEF RemoveReset, TypeOK
  <2>2. instrumentation[s] \in Sessions
    BY <2>1 DEF ConfigIsWritten, TypeOK
  <2>3. transformers = Only(instrumentation[s], <<ResetTransformer(s, local[s])>>)
    BY <1>1, <2>1 DEF AccountsFor
  <2>4. transformers' = Nothing
    BY <2>1, <2>2, <2>3, WithoutOnly, OnlyProperties DEF WithoutReset
  <2> QED
    BY <1>1, <2>1, <2>4, OnlyOne DEF AccountsFor, CleaningUp
<1>8. CASE StopRecording(s)
  <2>1. hb'[s] = "ended" /\ hb[s] = "unregistered" /\ transformers' = transformers
    BY <1>8 DEF StopRecording, jvmVars, TypeOK
  <2> QED
    BY <1>1, <2>1, OnlyOne DEF AccountsFor
<1> QED
  BY <1>3, <1>4, <1>5, <1>6, <1>7, <1>8 DEF HttpClientThread, UndoInstrumentation

LEMMA HeartBeatCompiles ==
  ASSUME TypeOK, ConfigIsWritten, PatientInv, OrderlyInv, NEW s \in Sessions, HttpClientThread(s)
  PROVE  /\ OneIsCompiled' /\ OneIsSeen'
         /\ code' = code \/ \A c \in Classes : code'[c] = Orig
<1> USE DEF HeartBeatStep
<1>1. /\ \A c \in Classes : code[c] \in {Orig, s}
      /\ \A t \in Sessions \ {s} : hb'[t] = hb[t] /\ hb[t] # "hooking"
      /\ \A t \in Sessions : agent[t] # "hooking"
      /\ UNCHANGED <<agent, config, targets>>
  BY HeartBeatRuns DEF Busy
<1>2. s \in JvmThreads /\ Listener \notin Sessions /\ Orig \notin Sessions /\ None # Orig /\ None \notin Sessions
  BY SessionsAssumption DEF JvmThreads
<1>3. \A t \in Sessions : \A c \in Classes : saved[t][c] \in {None, Orig}
  BY DEF OrderlyInv, OneIsSeen
<1>4. \A c \in Classes : code[c] # Orig =>
        /\ agent[s] = "returned" /\ c \in targets[s] /\ ConfigIsOwn(s)
        /\ hb[s] \in {"beating", "noticed", "removing", "read", "removed", "resetting", "hooking"}
  BY <1>1 DEF OrderlyInv, OneIsSeen
<1>5. ASSUME saved' = saved, code' = code,
             hb'[s] \in {"beating", "noticed", "removing", "read", "removed", "resetting", "hooking"}
               \/ \A c \in Classes : code[c] = Orig
      PROVE  OneIsSeen'
  BY <1>1, <1>2, <1>3, <1>4, <1>5 DEF OneIsSeen, ConfigIsOwn
<1>6. CASE Reset(s)
  <2>1. /\ hb[s] = "resetting" /\ hb'[s] = "hooking" /\ UNCHANGED <<saved, code, instrumentation, local>>
    BY <1>6 DEF Reset, BeginRetransform, TypeOK
  <2>2. hooks'[s] = <<>>
    BY <1>2, <1>6 DEF Reset, BeginRetransform, TypeOK
  <2>3. \A c \in Classes : compiled'[s][c] = IF c \in targets[config.classSet] THEN Orig ELSE None
    BY <1>2, <1>6 DEF Reset, BeginRetransform, TypeOK
  <2>4. \A c \in Classes : code[c] # Orig => c \in targets[config.classSet]
    BY <1>4 DEF ConfigIsOwn
  <2>5. OneIsCompiled'
    BY <1>1, <1>2, <2>1, <2>2, <2>3, <2>4 DEF OneIsCompiled
  <2> QED
    BY <1>5, <2>1, <2>5
<1>7. CASE TransformBack(s) /\ ReadHooks(s)
  <2>1. /\ hb[s] = "hooking" /\ hb'[s] = "hooking"
        /\ UNCHANGED <<code, instrumentation, local, saved, compiled>>
    BY <1>7 DEF TransformBack, ReadHooks, TypeOK
  <2>2. PICK t \in Sessions : hooks'[s] = transformers[t]
    BY <1>2, <1>7 DEF ReadHooks, TypeOK
  <2>3. instrumentation[s] \in Sessions
    BY <2>1 DEF ConfigIsWritten, TypeOK
  <2>4. transformers = Only(instrumentation[s], <<ResetTransformer(s, local[s])>>)
    BY <2>1, HeartBeatRuns DEF AccountsFor
  <2>5. hooks'[s] \in {<<>>, <<ResetTransformer(s, local[s])>>}
    BY <2>2, <2>3, <2>4, OnlyProperties
  <2>6. OneIsCompiled'
    <3>1. \A c \in Classes : /\ compiled[s][c] \in {None, Orig}
                             /\ code[c] # Orig => compiled[s][c] # None
      BY <2>1 DEF OrderlyInv, OneIsCompiled
    <3> QED
      BY <1>1, <1>2, <2>1, <2>5, <3>1 DEF OneIsCompiled
  <2> QED
    BY <1>5, <2>1, <2>6
<1>8. CASE TransformBack(s) /\ RunHook(s)
  <2>1. /\ hb[s] = "hooking" /\ hb'[s] = "hooking" /\ UNCHANGED <<code, instrumentation, local>>
    BY <1>8 DEF TransformBack, TypeOK
  <2>2. local[s] \in Sessions
    BY <2>1 DEF ConfigIsWritten, TypeOK
  <2>3. hooks[s] = <<ResetTransformer(s, local[s])>>
    BY <1>8, <2>1 DEF RunHook, OrderlyInv, OneIsCompiled
  <2>4. TransformReset(s, local[s]) /\ hooks'[s] = <<>>
    BY <1>2, <1>8, <2>3 DEF RunHook, ResetTransformer, TypeOK
  <2>5. ASSUME NEW c \in Classes
        PROVE  /\ compiled'[s][c] \in {None, Orig}
               /\ code[c] # Orig => compiled'[s][c] # None
    <3>1. /\ compiled[s][c] \in {None, Orig}
          /\ code[c] # Orig => compiled[s][c] # None
      BY <2>1 DEF OrderlyInv, OneIsCompiled
    <3>2. compiled'[s][c] = IF compiled[s][c] # None /\ saved[local[s]][c] # None
                            THEN saved[local[s]][c] ELSE compiled[s][c]
      BY <1>2, <2>4 DEF TransformReset, TypeOK
    <3>3. saved[local[s]][c] \in {None, Orig}
      BY <1>3, <2>2
    <3> QED
      BY <3>1, <3>2, <3>3
  <2>6. saved' = saved
    BY <2>4 DEF TransformReset
  <2>7. OneIsCompiled'
    BY <1>1, <1>2, <2>1, <2>4, <2>5 DEF OneIsCompiled
  <2> QED
    BY <1>5, <2>1, <2>6, <2>7
<1>9. CASE InstallReset(s)
  <2>1. /\ hb[s] = "hooking" /\ hb'[s] = "installed" /\ UNCHANGED <<saved, local>>
    BY <1>9 DEF InstallReset, Install, TypeOK
  <2>2. ASSUME NEW c \in Classes
        PROVE  code'[c] = Orig
    <3>1. /\ compiled[s][c] \in {None, Orig}
          /\ code[c] # Orig => compiled[s][c] # None
      BY <2>1 DEF OrderlyInv, OneIsCompiled
    <3>2. code'[c] = IF compiled[s][c] = None THEN code[c] ELSE compiled[s][c]
      BY <1>9 DEF InstallReset, Install
    <3> QED
      BY <3>1, <3>2
  <2>3. OneIsCompiled'
    BY <1>1, <2>1 DEF OneIsCompiled
  <2>4. OneIsSeen'
    BY <1>2, <1>3, <2>1, <2>2 DEF OneIsSeen
  <2> QED
    BY <2>2, <2>3, <2>4
<1>10. CASE ~ (Reset(s) \/ TransformBack(s) \/ InstallReset(s))
  <2>1. hb'[s] # "hooking" /\ UNCHANGED <<saved, code>>
    BY <1>10 DEF HttpClientThread, UndoInstrumentation, CheckBootExit, GetInstrument, GetTimeCostTransformer,
      RemoveTransformer, AddReset, RemoveReset, StopRecording, TypeOK, jvmVars
  <2>2. OneIsCompiled'
    BY <1>1, <2>1 DEF OneIsCompiled
  <2>3. \/ hb'[s] \in {"noticed", "removing", "read", "removed", "resetting"}
        \/ hb[s] \in {"installed", "unregistered"}
        \/ hb[s] = "noticed" /\ config.inst = None
        \/ hb[s] = "removed" /\ config.classSet = None
    BY <1>10 DEF HttpClientThread, UndoInstrumentation, CheckBootExit, GetInstrument, GetTimeCostTransformer,
      RemoveTransformer, AddReset, RemoveReset, StopRecording, TypeOK
  <2>4. \/ hb'[s] \in {"noticed", "removing", "read", "removed", "resetting"}
        \/ \A c \in Classes : code[c] = Orig
    BY <1>2, <1>4, <2>3 DEF ConfigIsOwn
  <2> QED
    BY <1>5, <2>1, <2>2, <2>4
<1> QED
  BY <1>6, <1>7, <1>8, <1>9, <1>10 DEF TransformBack

LEMMA HeartBeatOrderly ==
  ASSUME TypeOK, ConfigIsWritten, PatientInv, OrderlyInv, NEW s \in Sessions, HttpClientThread(s)
  PROVE  OrderlyInv'
<1>1. AttachIsLetFinish'
  BY HeartBeatRuns DEF OrderlyInv, AttachIsLetFinish
<1>2. WatchedFirst'
  BY HeartBeatRuns, HeartBeatAccounts DEF OrderlyInv, WatchedFirst
<1>3. OneRegisters'
  <2>1. NothingRuns' => hb'[s] = "ended"
    BY HeartBeatRuns DEF NothingRuns
  <2>2. Busy(s)' => hb'[s] # "ended"
    BY HeartBeatRuns DEF Busy, Alive
  <2> QED
    BY <2>1, <2>2, HeartBeatRuns, HeartBeatAccounts DEF OneRegisters
<1> QED
  BY <1>1, <1>2, <1>3, HeartBeatCompiles DEF OrderlyInv

LEMMA OrderlyStep ==
  ASSUME Patient, ~ KillsDuringAttach, OverlapInv, PatientInv, OrderlyInv, [Next]_vars
  PROVE  OrderlyInv'
<1>1. CASE UNCHANGED vars
  BY <1>1 DEF vars, jvmVars, OrderlyInv, AttachIsLetFinish, WatchedFirst, OneRegisters, OneIsCompiled,
    OneIsSeen, NothingRuns, AgentIdle, NoBootAlive, Busy, Alive, AccountsFor, ConfigIsOwn
<1> QED
  BY <1>1, BootOrderly, MainOrderly, HeartBeatOrderly DEF OverlapInv, Next, Terminated

\* The invariant of a patient user who lets each attach finish.
THEOREM OrderlyInvariance == Patient /\ ~ KillsDuringAttach => (Spec => []OrderlyInv)
<1> SUFFICES ASSUME Patient, ~ KillsDuringAttach
             PROVE  Spec => []OrderlyInv
  OBVIOUS
<1>1. Init => OrderlyInv
  <2> SUFFICES ASSUME Init
               PROVE  OrderlyInv
    OBVIOUS
  <2>1. \A s \in Sessions : ~ Busy(s)
    BY DEF Init, Busy, Alive
  <2>2. AttachIsLetFinish /\ WatchedFirst
    BY OnlyOne DEF Init, AttachIsLetFinish, WatchedFirst
  <2>3. OneRegisters
    BY <2>1 DEF Init, OneRegisters
  <2>4. OneIsCompiled /\ OneIsSeen
    BY SessionsAssumption DEF Init, OneIsCompiled, OneIsSeen
  <2> QED
    BY <2>2, <2>3, <2>4 DEF OrderlyInv
<1>2. OverlapInv /\ PatientInv /\ OrderlyInv /\ [Next]_vars => OrderlyInv'
  BY OrderlyStep
<1> QED
  BY <1>1, <1>2, OverlapInvariance, PatientInvariance, PTL DEF Spec

-----------------------------------------------------------------------------
(***************************************************************************)
(* The refinement, step by step.                                           *)
(***************************************************************************)
LEMMA PresenceStep ==
  ASSUME Patient, ~ KillsDuringAttach, OverlapInv, PatientInv, OrderlyInv, [Next]_vars
  PROVE  [Presence!Next]_<<boot, code>>
<1> USE DEF OverlapInv
<1> DEFINE original == [c \in Classes |-> Orig]
<1>0. code \in [Classes -> Code]
  BY DEF TypeOK
<1>1. (\A c \in Classes : code[c] = Orig) => code = original
  BY <1>0
<1>2. ASSUME NEW s \in Sessions, StartBoot(s)
      PROVE  Presence!Start(s)
  <2>1. NothingRuns /\ BootStep(s, "off", "attaching")
    BY <1>2 DEF StartBoot
  <2>2. code = original
    BY <1>1, <2>1, CodeIsOfTheBusy DEF PatientInv, OrderlyInv
  <2>3. \A t \in Sessions : boot[t] \in {"off", "exited"}
    BY <2>1 DEF NothingRuns, NoBootAlive, Alive, TypeOK
  <2> QED
    BY <2>1, <2>2, <2>3 DEF BootStep, Presence!Start, Presence!BootStep, Presence!Original, jvmVars
<1>3. ASSUME NEW s \in Sessions, AttachReturns(s)
      PROVE  Presence!Attach(s)
  BY <1>3 DEF AttachReturns, BootStep, Presence!Attach, Presence!BootStep, jvmVars
<1>4. ASSUME NEW s \in Sessions, AttachFails(s)
      PROVE  Presence!FailToAttach(s)
  <2>1. agent[s] = "threw" /\ BootStep(s, "attaching", "exited")
    BY <1>4 DEF AttachFails
  <2>2. Busy(s)
    BY <2>1 DEF BootStep, Busy, Alive
  <2>3. code = original
    BY <1>1, <2>1, <2>2, CodeIsOfTheBusy DEF PatientInv, OrderlyInv
  <2> QED
    BY <2>1, <2>3 DEF BootStep, Presence!FailToAttach, Presence!BootStep, Presence!Original, jvmVars
<1>5. ASSUME NEW s \in Sessions, EndBoot(s)
      PROVE  Presence!End(s)
  BY <1>5 DEF EndBoot, BootStep, Presence!End, Presence!BootStep, jvmVars
<1>6. ASSUME NEW s \in Sessions, AgentMain(s)
      PROVE  Presence!Instrument(s) \/ UNCHANGED <<boot, code>>
  <2>1. boot[s] = "attaching" /\ boot' = boot /\ code = original
    BY <1>1, <1>6, MainRuns
  <2>2. CASE InstallAgent(s)
    <3> DEFINE set == {c \in Classes : compiled[Listener][c] = s}
    <3>1. \A c \in Classes : compiled[Listener][c] \in {None, Orig, s}
      BY <2>2 DEF InstallAgent, AgentStep, OrderlyInv, OneIsCompiled
    <3>2. code' = [c \in Classes |->
                     IF compiled[Listener][c] = None THEN code[c] ELSE compiled[Listener][c]]
      BY <2>2 DEF InstallAgent, Install
    <3>3. code' = [c \in Classes |-> IF c \in set THEN s ELSE Orig]
      BY <2>1, <3>1, <3>2, SessionsAssumption
    <3>4. set \in SUBSET Classes
      OBVIOUS
    <3> HIDE DEF set
    <3> QED
      BY <2>1, <3>3, <3>4 DEF Presence!Instrument, Presence!Original
  <2>3. CASE ~ InstallAgent(s)
    BY <1>6, <2>1, <2>3 DEF AgentMain, SetEnterClazzName, SetEnterMethod, SetHttpPort, CheckHttpConnection,
      StartHeartBeat, AgentThrows, ReadHierarchy, SetTimeCostTransformer, SetInstrument, SetTransClassSet,
      AddTransformer, Retransform, Transform, RetransformThrows, jvmVars
  <2> QED
    BY <2>2, <2>3
<1>7. ASSUME NEW s \in Sessions, HttpClientThread(s)
      PROVE  Presence!CleanUp(s) \/ UNCHANGED <<boot, code>>
  <2>1. boot' = boot
    BY <1>7, HeartBeatRuns
  <2>2. code' = code \/ \A c \in Classes : code'[c] = Orig
    BY <1>7, HeartBeatCompiles
  <2>3. CASE code' # code
    <3>1. code' = original
      <4>1. HttpClientThread(s) /\ code' \in [Classes -> Code]
        BY <1>7, TypeStep DEF TypeOK
      <4> QED
        BY <2>2, <2>3, <4>1
    <3>2. \E c \in Classes : code[c] = s
      <4>1. \E c \in Classes : code[c] # Orig
        BY <1>1, <2>3, <3>1
      <4> QED
        BY <1>7, <4>1, HeartBeatRuns
    <3>3. boot[s] = "exited"
      <4>1. agent[s] = "returned"
        BY <3>2 DEF OrderlyInv, OneIsSeen
      <4>2. ~ Alive(s) /\ boot[s] # "off"
        BY <1>7, <4>1, HeartBeatRuns DEF PatientInv, OneAtATime
      <4> QED
        BY <4>2 DEF Alive, TypeOK
    <3> QED
      BY <2>1, <3>1, <3>2, <3>3 DEF Presence!CleanUp, Presence!Original
  <2> QED
    BY <2>1, <2>3
<1>8. CASE UNCHANGED vars
  BY <1>8 DEF vars, jvmVars
<1> QED
  BY <1>2, <1>3, <1>4, <1>5, <1>6, <1>7, <1>8 DEF Next, LoadAgent, Terminated, Presence!Next

(***************************************************************************)
(* For a patient user who lets each attach finish, every step of the Boots *)
(* and of the target is a step of the abstract presence, or one it does    *)
(* not see: the classes go from their original code to one session's and   *)
(* back, each way in one step.                                             *)
(***************************************************************************)
THEOREM StepsImplementPresence ==
  Patient /\ ~ KillsDuringAttach =>
    (Spec => Presence!Init /\ [][Presence!Next]_<<boot, code>>)
<1> SUFFICES ASSUME Patient, ~ KillsDuringAttach
             PROVE  Spec => Presence!Init /\ [][Presence!Next]_<<boot, code>>
  OBVIOUS
<1>1. Init => Presence!Init
  BY DEF Init, Presence!Init, Presence!Original
<1>2. OverlapInv /\ PatientInv /\ OrderlyInv /\ [Next]_vars => [Presence!Next]_<<boot, code>>
  BY PresenceStep
<1> QED
  BY <1>1, <1>2, OverlapInvariance, PatientInvariance, OrderlyInvariance, PTL DEF Spec
=============================================================================
