------------------------ MODULE AgentLifecycleProofs ------------------------
(***************************************************************************)
(* Theorems about the lifecycle, for any sessions on any ports and any     *)
(* classes.                                                                *)
(***************************************************************************)
EXTENDS AgentLifecycle, SequenceTheorems, TLAPS

-----------------------------------------------------------------------------
(***************************************************************************)
(* Lists of transformers.                                                  *)
(***************************************************************************)
LEMMA RemoveAtProperties ==
  ASSUME NEW S, NEW seq \in Seq(S), NEW k \in 1..Len(seq)
  PROVE  /\ RemoveAt(seq, k) \in Seq(S)
         /\ Len(RemoveAt(seq, k)) = Len(seq) - 1
         /\ \A i \in 1..(Len(seq) - 1) :
              RemoveAt(seq, k)[i] = IF i < k THEN seq[i] ELSE seq[i + 1]
<1> DEFINE front == SubSeq(seq, 1, k - 1)
<1> DEFINE back == SubSeq(seq, k + 1, Len(seq))
<1>1. Len(seq) \in Nat
  BY LenProperties
<1>2. /\ front \in Seq(S) /\ Len(front) = k - 1
      /\ \A i \in 1..(k - 1) : front[i] = seq[i]
  <2>1. \A i \in 1..(k - 1) : seq[i] \in S
    BY <1>1, ElementOfSeq
  <2>2. /\ front \in Seq(S)
        /\ Len(front) = IF 1 <= k - 1 THEN k - 1 - 1 + 1 ELSE 0
        /\ \A i \in 1..(k - 1 - 1 + 1) : front[i] = seq[1 + i - 1]
    BY <1>1, <2>1, SubSeqProperties
  <2> QED
    BY <1>1, <2>2
<1>3. /\ back \in Seq(S) /\ Len(back) = Len(seq) - k
      /\ \A i \in 1..(Len(seq) - k) : back[i] = seq[i + k]
  <2>1. \A i \in (k + 1)..Len(seq) : seq[i] \in S
    BY <1>1, ElementOfSeq
  <2>2. /\ back \in Seq(S)
        /\ Len(back) = IF k + 1 <= Len(seq) THEN Len(seq) - (k + 1) + 1 ELSE 0
        /\ \A i \in 1..(Len(seq) - (k + 1) + 1) : back[i] = seq[k + 1 + i - 1]
    BY <1>1, <2>1, SubSeqProperties
  <2> QED
    BY <1>1, <2>2
<1>4. RemoveAt(seq, k) = front \o back
  BY DEF RemoveAt
<1> HIDE DEF front, back
<1>5. /\ front \o back \in Seq(S)
      /\ Len(front \o back) = Len(front) + Len(back)
      /\ \A i \in 1..(Len(front) + Len(back)) :
           (front \o back)[i] = IF i <= Len(front) THEN front[i] ELSE back[i - Len(front)]
  BY <1>2, <1>3, ConcatProperties
<1>6. ASSUME NEW i \in 1..(Len(seq) - 1)
      PROVE  (front \o back)[i] = IF i < k THEN seq[i] ELSE seq[i + 1]
  <2>1. CASE i < k
    BY <1>1, <1>2, <1>3, <1>5, <2>1
  <2>2. CASE ~(i < k)
    <3>1. (front \o back)[i] = back[i - (k - 1)]
      BY <1>1, <1>2, <1>3, <1>5, <2>2
    <3>2. back[i - (k - 1)] = seq[i - (k - 1) + k]
      BY <1>1, <1>3, <2>2
    <3>3. i - (k - 1) + k = i + 1
      BY <1>1
    <3> QED
      BY <2>2, <3>1, <3>2, <3>3
  <2> QED
    BY <2>1, <2>2
<1> QED
  BY <1>1, <1>2, <1>3, <1>4, <1>5, <1>6

\* A list is what it was, or it lost one element.
LEMMA WithoutType ==
  ASSUME NEW list \in Seq(Transformer), NEW x
  PROVE  /\ Without(list, x) \in Seq(Transformer)
         /\ \/ Without(list, x) = list
            \/ \E k \in 1..Len(list) : Without(list, x) = RemoveAt(list, k)
<1>1. DOMAIN list = 1..Len(list)
  BY LenProperties
<1>2. CASE x \in ToSet(list)
  <2>1. \E k \in DOMAIN list : list[k] = x
    BY <1>2 DEF ToSet
  <2> DEFINE chosen == CHOOSE k \in DOMAIN list : list[k] = x
  <2>2. chosen \in 1..Len(list)
    BY <1>1, <2>1
  <2>3. Without(list, x) = RemoveAt(list, chosen)
    BY <1>2 DEF Without
  <2> HIDE DEF chosen
  <2> QED
    BY <2>2, <2>3, RemoveAtProperties
<1>3. CASE x \notin ToSet(list)
  BY <1>3 DEF Without
<1> QED
  BY <1>2, <1>3

LEMMA TransformerTypes ==
  ASSUME NEW s \in Sessions
  PROVE  /\ TimeTransformer(s) \in Transformer
         /\ \A t \in Sessions : ResetTransformer(s, t) \in Transformer
BY DEF TimeTransformer, ResetTransformer, Transformer, JvmThreads

-----------------------------------------------------------------------------
(***************************************************************************)
(* Type correctness.                                                       *)
(***************************************************************************)
JvmTypeOK ==
  /\ transformers \in [Sessions -> Seq(Transformer)]
  /\ saved \in [Sessions -> [Classes -> Code \cup {None}]]
  /\ ahead \in [JvmThreads -> SUBSET Sessions]
  /\ hooks \in [JvmThreads -> Seq(Transformer)]
  /\ compiled \in [JvmThreads -> [Classes -> Code \cup {None}]]
  /\ code \in [Classes -> Code]

LEMMA BeginTypes ==
  ASSUME JvmTypeOK, NEW u \in JvmThreads, NEW set, BeginRetransform(u, set),
         UNCHANGED <<transformers, code>>
  PROVE  JvmTypeOK'
<1>1. <<>> \in Seq(Transformer)
  BY EmptySeq
<1> QED
  BY <1>1 DEF JvmTypeOK, BeginRetransform, Code

LEMMA ReadHooksTypes ==
  ASSUME JvmTypeOK, NEW u \in JvmThreads, ReadHooks(u), UNCHANGED <<transformers, code>>
  PROVE  JvmTypeOK'
BY DEF JvmTypeOK, ReadHooks

LEMMA RunHookTypes ==
  ASSUME JvmTypeOK, NEW u \in JvmThreads, RunHook(u), UNCHANGED <<transformers, code>>
  PROVE  JvmTypeOK'
<1> DEFINE x == Head(hooks[u])
<1>1. hooks[u] \in Seq(Transformer) /\ hooks[u] # <<>>
  BY DEF JvmTypeOK, RunHook
<1>2. x \in Transformer /\ Tail(hooks[u]) \in Seq(Transformer)
  BY <1>1, HeadTailProperties
<1>3. x.of \in Sessions
  BY <1>2 DEF Transformer
<1>4. hooks' \in [JvmThreads -> Seq(Transformer)] /\ UNCHANGED ahead
  BY <1>2 DEF JvmTypeOK, RunHook
<1>5. TransformTimed(u, x.of) \/ TransformReset(u, x.of)
  BY DEF RunHook
<1> HIDE DEF x
<1>6. CASE TransformTimed(u, x.of)
  <2>1. compiled' \in [JvmThreads -> [Classes -> Code \cup {None}]]
    BY <1>3, <1>6 DEF TransformTimed, JvmTypeOK, Code
  <2>2. saved' \in [Sessions -> [Classes -> Code \cup {None}]]
    BY <1>3, <1>6 DEF TransformTimed, SavedBytes, JvmTypeOK, Code
  <2> QED
    BY <1>4, <2>1, <2>2 DEF JvmTypeOK
<1>7. CASE TransformReset(u, x.of)
  <2>1. compiled' \in [JvmThreads -> [Classes -> Code \cup {None}]]
    BY <1>3, <1>7 DEF TransformReset, JvmTypeOK, Code
  <2>2. saved' = saved
    BY <1>7 DEF TransformReset
  <2> QED
    BY <1>4, <2>1, <2>2 DEF JvmTypeOK
<1> QED
  BY <1>5, <1>6, <1>7

LEMMA InstallTypes ==
  ASSUME JvmTypeOK, NEW u \in JvmThreads, Install(u), UNCHANGED transformers
  PROVE  JvmTypeOK'
BY DEF JvmTypeOK, Install, Code

\* The parts of the types that agentmain, the heartbeat thread and the Boot keep.
ThreadTypeOK ==
  /\ boot \in [Sessions -> {"off", "attaching", "attached", "exited"}]
  /\ agent \in [Sessions ->
       {"none", "clazz", "method", "configured", "connected", "refused", "watched", "read",
        "tct", "inst", "classSet", "added", "hooking", "returned", "threw"}]
  /\ earlier \in [Sessions -> SUBSET Sessions]
  /\ hb \in [Sessions ->
       {"off", "beating", "noticed", "removing", "read", "removed", "resetting", "hooking",
        "installed", "unregistered", "ended"}]
  /\ instrumentation \in [Sessions -> Sessions \cup {None}]
  /\ local \in [Sessions -> Sessions \cup {None}]
  /\ targets \in [Sessions -> SUBSET Classes]

ConfigTypeOK ==
  config \in [clazz : Sessions \cup {None}, method : Sessions \cup {None},
             port : Ports \cup {None}, tct : Sessions \cup {None},
             inst : Sessions \cup {None}, classSet : Sessions \cup {None}]

LEMMA TypeParts == TypeOK <=> ThreadTypeOK /\ ConfigTypeOK /\ JvmTypeOK
  BY DEF TypeOK, ThreadTypeOK, ConfigTypeOK, JvmTypeOK

LEMMA TypePartsNext == ThreadTypeOK' /\ ConfigTypeOK' /\ JvmTypeOK' => TypeOK'
  BY DEF TypeOK, ThreadTypeOK, ConfigTypeOK, JvmTypeOK

LEMMA TypeInit == Init => TypeOK
<1> SUFFICES ASSUME Init
             PROVE  TypeOK
  OBVIOUS
<1>1. ThreadTypeOK
  BY DEF Init, ThreadTypeOK
<1>2. ConfigTypeOK
  BY DEF Init, ConfigTypeOK
<1>3. JvmTypeOK
  <2>1. <<>> \in Seq(Transformer)
    BY EmptySeq
  <2> QED
    BY <2>1 DEF Init, JvmTypeOK, Code, Nothing
<1> QED
  BY <1>1, <1>2, <1>3, TypeParts

LEMMA BootTypes ==
  ASSUME TypeOK, NEW s \in Sessions, StartBoot(s) \/ LoadAgent(s) \/ EndBoot(s)
  PROVE  TypeOK'
<1> ThreadTypeOK /\ ConfigTypeOK /\ JvmTypeOK
  BY TypeParts
<1>1. UNCHANGED <<agent, earlier, hb, instrumentation, local, config, targets, jvmVars>>
  BY DEF StartBoot, LoadAgent, AttachReturns, AttachFails, EndBoot, BootStep
<1>2. \E to \in {"attaching", "attached", "exited"} : boot' = [boot EXCEPT ![s] = to]
  BY DEF StartBoot, LoadAgent, AttachReturns, AttachFails, EndBoot, BootStep
<1>3. boot' \in [Sessions -> {"off", "attaching", "attached", "exited"}]
  BY <1>2 DEF ThreadTypeOK
<1>4. ThreadTypeOK'
  BY <1>1, <1>3 DEF ThreadTypeOK
<1>5. ConfigTypeOK'
  BY <1>1 DEF ConfigTypeOK
<1>6. JvmTypeOK'
  BY <1>1 DEF JvmTypeOK, jvmVars
<1> QED
  BY <1>4, <1>5, <1>6, TypePartsNext

LEMMA AgentMainTypes ==
  ASSUME TypeOK, NEW s \in Sessions, AgentMain(s)
  PROVE  TypeOK'
<1> USE DEF AgentStep
<1> ThreadTypeOK /\ ConfigTypeOK /\ JvmTypeOK
  BY TypeParts
<1>1. CASE SetEnterClazzName(s)
  <2>1. ThreadTypeOK'
    BY <1>1 DEF SetEnterClazzName, ThreadTypeOK
  <2>2. ConfigTypeOK'
    BY <1>1 DEF SetEnterClazzName, ConfigTypeOK
  <2>3. JvmTypeOK'
    BY <1>1 DEF SetEnterClazzName, JvmTypeOK, jvmVars
  <2> QED
    BY <2>1, <2>2, <2>3, TypePartsNext
<1>2. CASE SetEnterMethod(s) \/ SetTimeCostTransformer(s) \/ SetInstrument(s) \/ SetTransClassSet(s)
  <2> USE DEF SetEnterMethod, SetTimeCostTransformer, SetInstrument, SetTransClassSet
  <2>1. ThreadTypeOK'
    BY <1>2 DEF ThreadTypeOK
  <2>2. ConfigTypeOK'
    BY <1>2 DEF ConfigTypeOK
  <2>3. JvmTypeOK'
    BY <1>2 DEF JvmTypeOK, jvmVars
  <2> QED
    BY <2>1, <2>2, <2>3, TypePartsNext
<1>3. CASE SetHttpPort(s)
  <2>1. ThreadTypeOK'
    BY <1>3 DEF SetHttpPort, ThreadTypeOK
  <2>2. ConfigTypeOK'
    BY <1>3, SessionsAssumption DEF SetHttpPort, ConfigTypeOK
  <2>3. JvmTypeOK'
    BY <1>3 DEF SetHttpPort, JvmTypeOK, jvmVars
  <2> QED
    BY <2>1, <2>2, <2>3, TypePartsNext
<1>4. CASE CheckHttpConnection(s) \/ StartHeartBeat(s) \/ AgentThrows(s) \/ ReadHierarchy(s)
  <2> USE DEF CheckHttpConnection, StartHeartBeat, AgentThrows, ReadHierarchy
  <2>1. ThreadTypeOK'
    BY <1>4 DEF ThreadTypeOK
  <2>2. ConfigTypeOK'
    BY <1>4 DEF ConfigTypeOK
  <2>3. JvmTypeOK'
    BY <1>4 DEF JvmTypeOK, jvmVars
  <2> QED
    BY <2>1, <2>2, <2>3, TypePartsNext
<1>5. CASE AddTransformer(s)
  <2>1. ThreadTypeOK' /\ ConfigTypeOK'
    BY <1>5 DEF AddTransformer, ThreadTypeOK, ConfigTypeOK
  <2>2. transformers' \in [Sessions -> Seq(Transformer)]
    <3>1. Append(transformers[s], TimeTransformer(s)) \in Seq(Transformer)
      BY TransformerTypes, AppendProperties DEF JvmTypeOK
    <3> QED
      BY <1>5, <3>1 DEF AddTransformer, JvmTypeOK
  <2>3. JvmTypeOK'
    BY <1>5, <2>2 DEF AddTransformer, JvmTypeOK
  <2> QED
    BY <2>1, <2>3, TypePartsNext
<1>6. CASE Retransform(s) \/ Transform(s) \/ InstallAgent(s)
  <2>1. ThreadTypeOK' /\ ConfigTypeOK'
    BY <1>6 DEF Retransform, Transform, InstallAgent, ThreadTypeOK, ConfigTypeOK
  <2>2. Listener \in JvmThreads
    BY DEF JvmThreads
  <2>3. JvmTypeOK'
    BY <1>6, <2>2, BeginTypes, ReadHooksTypes, RunHookTypes, InstallTypes DEF Retransform, Transform, InstallAgent
  <2> QED
    BY <2>1, <2>3, TypePartsNext
<1>7. CASE RetransformThrows(s)
  <2>1. ThreadTypeOK' /\ ConfigTypeOK'
    BY <1>7 DEF RetransformThrows, ThreadTypeOK, ConfigTypeOK
  <2>2. JvmTypeOK'
    BY <1>7 DEF RetransformThrows, JvmTypeOK
  <2> QED
    BY <2>1, <2>2, TypePartsNext
<1> QED
  BY <1>1, <1>2, <1>3, <1>4, <1>5, <1>6, <1>7 DEF AgentMain

LEMMA HeartBeatTypes ==
  ASSUME TypeOK, ConfigIsWritten, NEW s \in Sessions, HttpClientThread(s)
  PROVE  TypeOK'
<1> USE DEF HeartBeatStep
<1> ThreadTypeOK /\ ConfigTypeOK /\ JvmTypeOK
  BY TypeParts
<1>0. s \in JvmThreads
  BY DEF JvmThreads
<1>1. ThreadTypeOK' /\ ConfigTypeOK'
  <2>1. CASE GetInstrument(s)
    BY <2>1 DEF GetInstrument, ThreadTypeOK, ConfigTypeOK
  <2>2. CASE GetTimeCostTransformer(s)
    BY <2>2 DEF GetTimeCostTransformer, ThreadTypeOK, ConfigTypeOK
  <2>3. CASE ~ GetInstrument(s) /\ ~ GetTimeCostTransformer(s)
    BY <2>3 DEF HttpClientThread, UndoInstrumentation, CheckBootExit, RemoveTransformer, AddReset, Reset,
       TransformBack, InstallReset, RemoveReset, StopRecording, ThreadTypeOK, ConfigTypeOK
  <2> QED
    BY <2>1, <2>2, <2>3
<1>2. CASE CheckBootExit(s) \/ GetInstrument(s) \/ GetTimeCostTransformer(s) \/ StopRecording(s)
  <2>1. JvmTypeOK'
    BY <1>2 DEF CheckBootExit, GetInstrument, GetTimeCostTransformer, StopRecording, JvmTypeOK, jvmVars
  <2> QED
    BY <1>1, <2>1, TypePartsNext
<1>3. CASE RemoveTransformer(s) \/ RemoveReset(s)
  <2>1. \A env \in Sessions : \A x :
          [transformers EXCEPT ![env] = Without(@, x)] \in [Sessions -> Seq(Transformer)]
    BY WithoutType DEF JvmTypeOK
  <2>2. instrumentation[s] \in Sessions
    BY <1>3 DEF RemoveTransformer, RemoveReset, ConfigIsWritten, ThreadTypeOK
  <2>3. transformers' \in [Sessions -> Seq(Transformer)]
    <3>1. CASE RemoveTransformer(s)
      BY <2>1, <2>2, <3>1 DEF RemoveTransformer
    <3>2. CASE RemoveReset(s)
      BY <2>1, <2>2, <3>2 DEF RemoveReset, WithoutReset
    <3> QED
      BY <1>3, <3>1, <3>2
  <2>4. JvmTypeOK'
    BY <1>3, <2>3 DEF RemoveTransformer, RemoveReset, JvmTypeOK
  <2> QED
    BY <1>1, <2>4, TypePartsNext
<1>4. CASE AddReset(s)
  <2>1. local[s] \in Sessions /\ instrumentation[s] \in Sessions
    BY <1>4 DEF AddReset, ConfigIsWritten, ThreadTypeOK
  <2>2. Append(transformers[instrumentation[s]], ResetTransformer(s, local[s])) \in Seq(Transformer)
    BY <2>1, TransformerTypes, AppendProperties DEF JvmTypeOK
  <2>3. transformers' \in [Sessions -> Seq(Transformer)]
    BY <1>4, <2>1, <2>2 DEF AddReset, JvmTypeOK
  <2>4. JvmTypeOK'
    BY <1>4, <2>3 DEF AddReset, JvmTypeOK
  <2> QED
    BY <1>1, <2>4, TypePartsNext
<1>5. CASE Reset(s) \/ TransformBack(s) \/ InstallReset(s)
  <2>1. JvmTypeOK'
    BY <1>0, <1>5, BeginTypes, ReadHooksTypes, RunHookTypes, InstallTypes DEF Reset, TransformBack, InstallReset
  <2> QED
    BY <1>1, <2>1, TypePartsNext
<1> QED
  BY <1>2, <1>3, <1>4, <1>5 DEF HttpClientThread, UndoInstrumentation

LEMMA TypeStep ==
  ASSUME TypeOK, ConfigIsWritten, [Next]_vars
  PROVE  TypeOK'
<1>1. CASE UNCHANGED vars
  BY <1>1 DEF TypeOK, vars, jvmVars
<1>2. CASE Terminated
  BY <1>2 DEF Terminated, TypeOK, vars, jvmVars
<1> QED
  BY <1>1, <1>2, BootTypes, AgentMainTypes, HeartBeatTypes DEF Next

-----------------------------------------------------------------------------
(***************************************************************************)
(* The order of the agentmains, and what they write.                       *)
(***************************************************************************)
\* A step of agentmain that is not its first one.
GoesOn(s) ==
  /\ agent[s] \notin {"none", "returned", "refused", "threw"}
  /\ \E to \in {"method", "configured", "connected", "refused", "watched", "read", "tct", "inst",
                 "classSet", "added", "hooking", "returned", "threw"} :
       agent' = [agent EXCEPT ![s] = to]
  /\ UNCHANGED <<boot, earlier, instrumentation, local>>

LEMMA MainGoesOn ==
  ASSUME NEW s \in Sessions, AgentMain(s)
  PROVE  SetEnterClazzName(s) \/ GoesOn(s)
BY DEF AgentMain, GoesOn, AgentStep, SetEnterMethod, SetHttpPort, CheckHttpConnection, StartHeartBeat,
       AgentThrows, ReadHierarchy, SetTimeCostTransformer, SetInstrument, SetTransClassSet,
       AddTransformer, Retransform, Transform, RetransformThrows, InstallAgent

LEMMA BootKeeps ==
  ASSUME NEW s \in Sessions, StartBoot(s) \/ LoadAgent(s) \/ EndBoot(s)
  PROVE  UNCHANGED <<agent, earlier, hb, instrumentation, local, config, targets, jvmVars>>
BY DEF StartBoot, LoadAgent, AttachReturns, AttachFails, EndBoot, BootStep

LEMMA HeartBeatKeeps ==
  ASSUME NEW s \in Sessions, HttpClientThread(s)
  PROVE  UNCHANGED <<boot, agent, earlier, config, targets>>
BY DEF HttpClientThread, UndoInstrumentation, CheckBootExit, GetInstrument, GetTimeCostTransformer,
       RemoveTransformer, AddReset, Reset, TransformBack, InstallReset, RemoveReset, StopRecording,
       HeartBeatStep

\* What is behind an agentmain stays behind it.
LEMMA Progress ==
  ASSUME TypeOK, MainsInOrder, [Next]_vars, NEW s \in Sessions, Began(s)
  PROVE  /\ Began(s)'
         /\ earlier'[s] = earlier[s]
         /\ HasAdded(s) => HasAdded(s)'
<1> USE DEF Began, HasAdded
<1>1. ASSUME NEW t \in Sessions, SetEnterClazzName(t)
      PROVE  /\ Began(s)' /\ earlier'[s] = earlier[s]
             /\ HasAdded(s) => HasAdded(s)'
  BY <1>1 DEF SetEnterClazzName, AgentStep, TypeOK
<1>2. ASSUME NEW t \in Sessions, AgentMain(t), GoesOn(t)
      PROVE  /\ Began(s)' /\ earlier'[s] = earlier[s]
             /\ HasAdded(s) => HasAdded(s)'
  <2>1. Began(s)' /\ earlier'[s] = earlier[s]
    BY <1>2 DEF GoesOn, TypeOK
  <2>2. ASSUME HasAdded(s)
        PROVE  HasAdded(s)'
    <3>1. CASE s # t
      BY <1>2, <2>2, <3>1 DEF GoesOn, TypeOK
    <3>2. CASE s = t
      BY <1>2, <2>2, <3>2 DEF TypeOK, AgentMain, AgentStep, SetEnterClazzName, SetEnterMethod, SetHttpPort,
         CheckHttpConnection, StartHeartBeat,
         AgentThrows, ReadHierarchy, SetTimeCostTransformer, SetInstrument, SetTransClassSet,
         AddTransformer, Retransform, Transform, RetransformThrows, InstallAgent
    <3> QED
      BY <3>1, <3>2
  <2> QED
    BY <2>1, <2>2
<1>3. ASSUME UNCHANGED <<agent, earlier>>
      PROVE  /\ Began(s)' /\ earlier'[s] = earlier[s]
             /\ HasAdded(s) => HasAdded(s)'
  BY <1>3
<1> QED
  BY <1>1, <1>2, <1>3, MainGoesOn, BootKeeps, HeartBeatKeeps DEF Next, Terminated, vars

LEMMA MainsStep ==
  ASSUME TypeOK, MainsInOrder, [Next]_vars
  PROVE  MainsInOrder'
<1> USE DEF Began
<1>1. ASSUME NEW s \in Sessions, SetEnterClazzName(s)
      PROVE  MainsInOrder'
  <2>1. /\ agent[s] = "none" /\ agent' = [agent EXCEPT ![s] = "clazz"]
        /\ earlier' = [earlier EXCEPT ![s] = {t \in Sessions : agent[t] # "none"}]
        /\ \A t \in Sessions : agent[t] \in {"none", "returned", "refused", "threw"}
    BY <1>1 DEF SetEnterClazzName, AgentStep, AgentIdle
  <2>2. \A t \in Sessions \ {s} : agent'[t] = agent[t] /\ earlier'[t] = earlier[t]
    BY <2>1 DEF TypeOK
  <2>3. agent'[s] = "clazz" /\ earlier'[s] = {t \in Sessions : agent[t] # "none"}
    BY <2>1 DEF TypeOK
  <2> HIDE DEF Began
  <2>4. \A t \in Sessions : Began(t)' <=> Began(t) \/ t = s
    BY <2>2, <2>3 DEF Began
  <2>5. \A t \in Sessions : Began(t) => earlier[t] \subseteq earlier'[s]
    BY <2>3 DEF MainsInOrder, Began, TypeOK
  <2>6. s \notin earlier'[s] /\ Began(s)'
    BY <2>1, <2>3, <2>4
  <2>7. \A t \in earlier'[s] : Began(t)' /\ earlier'[t] \subseteq earlier'[s]
    BY <2>1, <2>2, <2>3, <2>5 DEF Began
  <2>8. \A t \in Sessions \ {s} : Began(t)' => t \in earlier'[s]
    BY <2>3, <2>4 DEF Began
  <2>9. ASSUME NEW t \in Sessions \ {s}
        PROVE  /\ t \notin earlier'[t]
               /\ Began(t)' \/ earlier'[t] = {}
               /\ \A u \in earlier'[t] : Began(u)' /\ earlier'[u] \subseteq earlier'[t]
    <3>1. earlier'[t] = earlier[t]
      BY <2>2
    <3>2. s \notin earlier[t]
      BY <2>1 DEF MainsInOrder, Began
    <3>3. \A u \in earlier[t] : u \in Sessions /\ Began(u) /\ earlier'[u] = earlier[u]
      BY <2>2, <3>2 DEF MainsInOrder, TypeOK
    <3> QED
      BY <2>4, <3>1, <3>3 DEF MainsInOrder
  <2>10. \A t \in Sessions \ {s} : agent'[t] \in {"none", "returned", "refused", "threw"}
    BY <2>1, <2>2
  <2>11. ASSUME NEW t \in Sessions, NEW u \in Sessions \ {t}, Began(t)', Began(u)'
         PROVE  u \in earlier'[t] \/ t \in earlier'[u]
    <3>1. CASE t = s \/ u = s
      BY <2>8, <2>11, <3>1
    <3>2. CASE t # s /\ u # s
      <4>1. Began(t) /\ Began(u) /\ earlier'[t] = earlier[t] /\ earlier'[u] = earlier[u]
        BY <2>2, <2>4, <2>11, <3>2
      <4> QED
        BY <4>1 DEF MainsInOrder
    <3> QED
      BY <3>1, <3>2
  <2> QED
    BY <2>6, <2>7, <2>8, <2>9, <2>10, <2>11 DEF MainsInOrder
<1>2. ASSUME NEW s \in Sessions, GoesOn(s)
      PROVE  MainsInOrder'
  BY <1>2 DEF GoesOn, MainsInOrder, TypeOK
<1>3. ASSUME UNCHANGED <<agent, earlier>>
      PROVE  MainsInOrder'
  BY <1>3 DEF MainsInOrder
<1> QED
  BY <1>1, <1>2, <1>3, MainGoesOn, BootKeeps, HeartBeatKeeps DEF Next, Terminated, vars

LEMMA ConfigStep ==
  ASSUME TypeOK, MainsInOrder, ConfigIsWritten, [Next]_vars
  PROVE  ConfigIsWritten'
<1>0. \A s \in Sessions : Began(s) => Began(s)'
  BY Progress
<1>1. ASSUME UNCHANGED <<agent, hb, instrumentation, local, config>>
      PROVE  ConfigIsWritten'
  BY <1>1 DEF ConfigIsWritten, Began
<1>2. ASSUME NEW s \in Sessions, AgentMain(s)
      PROVE  ConfigIsWritten'
  <2> USE DEF AgentStep
  <2>1. CASE SetTimeCostTransformer(s)
    <3>1. config'.tct = s /\ config'.inst = config.inst /\ config'.classSet = config.classSet
      BY <2>1 DEF SetTimeCostTransformer, TypeOK
    <3>2. Began(s)' /\ s # None
      BY <2>1, SessionsAssumption DEF SetTimeCostTransformer, Began, TypeOK
    <3>3. UNCHANGED <<hb, instrumentation, local>>
      BY <2>1 DEF SetTimeCostTransformer
    <3> QED
      BY <1>0, <3>1, <3>2, <3>3 DEF ConfigIsWritten, TypeOK
  <2>2. CASE SetInstrument(s)
    <3>1. config'.tct = config.tct /\ config'.inst = s /\ config'.classSet = config.classSet
      BY <2>2 DEF SetInstrument, TypeOK
    <3>2. UNCHANGED <<hb, instrumentation, local>> /\ config.tct # None
      BY <2>2 DEF SetInstrument, ConfigIsWritten
    <3>3. Began(s)' /\ s # None
      BY <2>2, SessionsAssumption DEF SetInstrument, Began, TypeOK
    <3> QED
      BY <1>0, <3>1, <3>2, <3>3 DEF ConfigIsWritten, TypeOK
  <2>3. CASE SetTransClassSet(s)
    <3>1. config'.tct = config.tct /\ config'.inst = config.inst /\ config'.classSet = s
      BY <2>3 DEF SetTransClassSet, TypeOK
    <3>2. UNCHANGED <<hb, instrumentation, local>> /\ s # None
      BY <2>3, SessionsAssumption DEF SetTransClassSet
    <3>3. \A t \in Sessions : agent'[t] = "tct" => agent[t] = "tct"
      BY <2>3 DEF SetTransClassSet, TypeOK
    <3> QED
      BY <1>0, <3>1, <3>2, <3>3 DEF ConfigIsWritten, TypeOK
  <2>4. CASE ~ SetTimeCostTransformer(s) /\ ~ SetInstrument(s) /\ ~ SetTransClassSet(s)
    <3> USE DEF AgentMain, SetEnterClazzName, SetEnterMethod, SetHttpPort, CheckHttpConnection, StartHeartBeat,
          AgentThrows, ReadHierarchy, AddTransformer, Retransform, Transform, RetransformThrows, InstallAgent
    <3>1. config'.tct = config.tct /\ config'.inst = config.inst /\ config'.classSet = config.classSet
      BY <1>2, <2>4 DEF TypeOK
    <3>2. UNCHANGED <<instrumentation, local>> /\ (hb' = hb \/ hb' = [hb EXCEPT ![s] = "beating"])
      BY <1>2, <2>4, ZenonT(60)
    <3>3. \A t \in Sessions : agent'[t] = "tct" => agent[t] = "tct"
      BY <1>2, <2>4 DEF TypeOK
    <3> HIDE DEF AgentMain, SetEnterClazzName, SetEnterMethod, SetHttpPort, CheckHttpConnection, StartHeartBeat,
          AgentThrows, ReadHierarchy, AddTransformer, Retransform, Transform, RetransformThrows, InstallAgent
    <3> QED
      BY <1>0, <3>1, <3>2, <3>3 DEF ConfigIsWritten, TypeOK
  <2> QED
    BY <2>1, <2>2, <2>3, <2>4
<1>3. ASSUME NEW s \in Sessions, HttpClientThread(s)
      PROVE  ConfigIsWritten'
  <2>1. UNCHANGED <<agent, config>>
    BY <1>3, HeartBeatKeeps
  <2>2. CASE GetTimeCostTransformer(s)
    BY <2>1, <2>2 DEF GetTimeCostTransformer, HeartBeatStep, ConfigIsWritten, Began, TypeOK
  <2>3. CASE GetInstrument(s)
    BY <2>1, <2>3 DEF GetInstrument, HeartBeatStep, ConfigIsWritten, Began, TypeOK
  <2>4. CASE ~ GetTimeCostTransformer(s) /\ ~ GetInstrument(s)
    <3> USE DEF HttpClientThread, UndoInstrumentation, CheckBootExit, RemoveTransformer,
        AddReset, Reset, TransformBack, InstallReset, RemoveReset, StopRecording
    <3>1. UNCHANGED <<instrumentation, local>>
      BY <1>3, <2>4
    <3>2. /\ hb'[s] = "removing" => config.inst # None
          /\ hb'[s] \in {"removing", "read", "removed", "resetting", "hooking", "installed", "unregistered"} =>
               instrumentation[s] # None
          /\ hb'[s] \in {"read", "removed", "resetting", "hooking", "installed", "unregistered"} => local[s] # None
          /\ hb'[s] = "resetting" => config.classSet # None
      BY <1>3, <2>4 DEF HeartBeatStep, ConfigIsWritten, TypeOK
    <3>3. \A t \in Sessions \ {s} : hb'[t] = hb[t]
      BY <1>3, <2>4 DEF HeartBeatStep, TypeOK
    <3> HIDE DEF HttpClientThread, UndoInstrumentation, CheckBootExit, RemoveTransformer,
        AddReset, Reset, TransformBack, InstallReset, RemoveReset, StopRecording
    <3> QED
      BY <2>1, <3>1, <3>2, <3>3 DEF ConfigIsWritten, Began
  <2> QED
    BY <2>2, <2>3, <2>4
<1> QED
  BY <1>1, <1>2, <1>3, BootKeeps DEF Next, Terminated, vars

\* What a cleanup has read stays what it has read.
LEMMA ReadStep ==
  ASSUME TypeOK, ReadInTurn, [Next]_vars
  PROVE  /\ ReadInTurn'
         /\ \A s \in Sessions :
              /\ instrumentation[s] # None => instrumentation'[s] = instrumentation[s]
              /\ local[s] # None => local'[s] = local[s]
<1> DEFINE Goal ==
      /\ ReadInTurn'
      /\ \A s \in Sessions :
           /\ instrumentation[s] # None => instrumentation'[s] = instrumentation[s]
           /\ local[s] # None => local'[s] = local[s]
<1>1. ASSUME UNCHANGED <<agent, hb, instrumentation, local>>
      PROVE  Goal
  BY <1>1 DEF ReadInTurn
<1>2. ASSUME NEW s \in Sessions, AgentMain(s)
      PROVE  Goal
  <2>1. UNCHANGED <<instrumentation, local>>
    BY <1>2, MainGoesOn DEF GoesOn, SetEnterClazzName, AgentStep
  <2>2. CASE StartHeartBeat(s)
    BY <2>1, <2>2 DEF StartHeartBeat, AgentStep, ReadInTurn, TypeOK
  <2>3. CASE ~ StartHeartBeat(s)
    <3> USE DEF AgentMain, AgentStep, SetEnterClazzName, SetEnterMethod, SetHttpPort, CheckHttpConnection,
          AgentThrows, ReadHierarchy, SetTimeCostTransformer, SetInstrument, SetTransClassSet,
          AddTransformer, Retransform, Transform, RetransformThrows, InstallAgent
    <3>1. hb' = hb
      BY <1>2, <2>3
    <3>2. \A t \in Sessions :
            agent'[t] \in {"none", "clazz", "method", "configured", "connected", "refused"} =>
              agent[t] \in {"none", "clazz", "method", "configured", "connected", "refused"}
      BY <1>2, <2>3 DEF TypeOK
    <3> HIDE DEF AgentMain, AgentStep, SetEnterClazzName, SetEnterMethod, SetHttpPort, CheckHttpConnection,
          AgentThrows, ReadHierarchy, SetTimeCostTransformer, SetInstrument, SetTransClassSet,
          AddTransformer, Retransform, Transform, RetransformThrows, InstallAgent
    <3> QED
      BY <2>1, <3>1, <3>2 DEF ReadInTurn
  <2> QED
    BY <2>2, <2>3
<1>3. ASSUME NEW s \in Sessions, HttpClientThread(s)
      PROVE  Goal
  <2>1. UNCHANGED agent
    BY <1>3, HeartBeatKeeps
  <2>2. CASE GetTimeCostTransformer(s)
    BY <2>1, <2>2 DEF GetTimeCostTransformer, HeartBeatStep, ReadInTurn, TypeOK
  <2>3. CASE GetInstrument(s)
    BY <2>1, <2>3 DEF GetInstrument, HeartBeatStep, ReadInTurn, TypeOK
  <2>4. CASE ~ GetTimeCostTransformer(s) /\ ~ GetInstrument(s)
    <3> USE DEF HttpClientThread, UndoInstrumentation, CheckBootExit, RemoveTransformer,
        AddReset, Reset, TransformBack, InstallReset, RemoveReset, StopRecording
    <3>1. UNCHANGED <<instrumentation, local>>
      BY <1>3, <2>4
    <3>2. /\ hb[s] # "off"
          /\ hb'[s] \in {"off", "beating", "noticed"} => hb[s] \in {"beating", "noticed"}
          /\ hb'[s] = "removing" => hb[s] = "removing"
      BY <1>3, <2>4 DEF HeartBeatStep, TypeOK
    <3>3. \A t \in Sessions \ {s} : hb'[t] = hb[t]
      BY <1>3, <2>4 DEF HeartBeatStep, TypeOK
    <3> HIDE DEF HttpClientThread, UndoInstrumentation, CheckBootExit, RemoveTransformer,
        AddReset, Reset, TransformBack, InstallReset, RemoveReset, StopRecording
    <3> QED
      BY <2>1, <3>1, <3>2, <3>3 DEF ReadInTurn
  <2> QED
    BY <2>2, <2>3, <2>4
<1> QED
  BY <1>1, <1>2, <1>3, BootKeeps DEF Next, Terminated, vars

\* The lifecycle's variables keep their types.
THEOREM TypeCorrect == Spec => []TypeOK
<1> DEFINE I == TypeOK /\ MainsInOrder /\ ConfigIsWritten
<1>1. Init => I
  BY TypeInit, SessionsAssumption DEF Init, MainsInOrder, ConfigIsWritten, Began
<1>2. I /\ [Next]_vars => I'
  BY TypeStep, MainsStep, ConfigStep
<1>3. I => TypeOK
  OBVIOUS
<1> QED
  BY <1>1, <1>2, <1>3, PTL DEF Spec

-----------------------------------------------------------------------------
(***************************************************************************)
(* The places of the transformers.  Placed says of any list of session s,  *)
(* at any moment (whether s has added its own, the sessions earlier than   *)
(* s, what the heartbeat threads have read), what InPlace says of it now.  *)
(***************************************************************************)
Placed(list, s, added, before, inst, tct) ==
  \A k \in 1..Len(list) :
    /\ list[k].kind = "time" =>
         /\ list[k].of = s /\ added
         /\ \A j \in 1..(k - 1) : list[j].kind = "reset" /\ list[j].of \in before \cup {s}
    /\ list[k].kind = "reset" =>
         /\ list[k].by \in Sessions
         /\ inst[list[k].by] = s /\ tct[list[k].by] = list[k].of

LEMMA PlacedNow ==
  /\ \A s \in Sessions : \A list :
       InPlace(list, s) <=> Placed(list, s, HasAdded(s), earlier[s], instrumentation, local)
  /\ \A s \in Sessions :
       InPlace(transformers[s], s)' <=>
         Placed(transformers'[s], s, HasAdded(s)', earlier'[s], instrumentation', local')
  /\ \A s \in Sessions : \A u \in JvmThreads :
       InPlace(hooks[u], s)' <=>
         Placed(hooks'[u], s, HasAdded(s)', earlier'[s], instrumentation', local')
BY DEF InPlace, Placed, HasAdded, UpTo

LEMMA PlacedLater ==
  ASSUME NEW list \in Seq(Transformer), NEW s \in Sessions,
         NEW added, NEW before, NEW inst, NEW tct, NEW added2, NEW before2, NEW inst2, NEW tct2,
         Placed(list, s, added, before, inst, tct),
         added => added2 /\ before2 = before,
         \A h \in Sessions : inst[h] # None => inst2[h] = inst[h],
         \A h \in Sessions : tct[h] # None => tct2[h] = tct[h]
  PROVE  Placed(list, s, added2, before2, inst2, tct2)
<1>1. \A k \in 1..Len(list) : list[k].of \in Sessions
  <2>1. \A k \in 1..Len(list) : list[k] \in Transformer
    BY ElementOfSeq
  <2> QED
    BY <2>1 DEF Transformer
<1>2. None \notin Sessions
  BY SessionsAssumption
<1> QED
  BY <1>1, <1>2 DEF Placed

\* A list that keeps some of the elements, in their order.
LEMMA PlacedPart ==
  ASSUME NEW list, NEW part, NEW from,
         \A k \in 1..Len(part) : from[k] \in 1..Len(list) /\ part[k] = list[from[k]],
         \A k \in 1..Len(part) : \A j \in 1..(k - 1) :
           j \in 1..Len(part) /\ from[j] \in 1..(from[k] - 1),
         NEW s, NEW added, NEW before, NEW inst, NEW tct, Placed(list, s, added, before, inst, tct)
  PROVE  Placed(part, s, added, before, inst, tct)
<1> SUFFICES ASSUME NEW k \in 1..Len(part)
             PROVE  /\ part[k].kind = "time" =>
                         /\ part[k].of = s /\ added
                         /\ \A j \in 1..(k - 1) :
                              part[j].kind = "reset" /\ part[j].of \in before \cup {s}
                    /\ part[k].kind = "reset" =>
                         /\ part[k].by \in Sessions
                         /\ inst[part[k].by] = s /\ tct[part[k].by] = part[k].of
  BY DEF Placed
<1>1. from[k] \in 1..Len(list) /\ part[k] = list[from[k]]
  OBVIOUS
<1>2. \A j \in 1..(k - 1) : part[j] = list[from[j]] /\ from[j] \in 1..(from[k] - 1)
  OBVIOUS
<1>3. /\ list[from[k]].kind = "time" =>
           /\ list[from[k]].of = s /\ added
           /\ \A i \in 1..(from[k] - 1) : list[i].kind = "reset" /\ list[i].of \in before \cup {s}
      /\ list[from[k]].kind = "reset" =>
           /\ list[from[k]].by \in Sessions
           /\ inst[list[from[k]].by] = s /\ tct[list[from[k]].by] = list[from[k]].of
  BY <1>1 DEF Placed
<1> QED
  BY <1>1, <1>2, <1>3

LEMMA PlacedTail ==
  ASSUME NEW list \in Seq(Transformer), list # <<>>,
         NEW s, NEW added, NEW before, NEW inst, NEW tct, Placed(list, s, added, before, inst, tct)
  PROVE  Placed(Tail(list), s, added, before, inst, tct)
<1> DEFINE from == [k \in 1..Len(Tail(list)) |-> k + 1]
<1>1. /\ Len(list) \in Nat /\ Len(Tail(list)) = Len(list) - 1
      /\ \A k \in 1..Len(Tail(list)) : Tail(list)[k] = list[k + 1]
  BY HeadTailProperties, LenProperties
<1>2. \A k \in 1..Len(Tail(list)) : from[k] \in 1..Len(list) /\ Tail(list)[k] = list[from[k]]
  BY <1>1
<1>3. \A k \in 1..Len(Tail(list)) : \A j \in 1..(k - 1) :
        j \in 1..Len(Tail(list)) /\ from[j] \in 1..(from[k] - 1)
  BY <1>1
<1> HIDE DEF from
<1> QED
  BY <1>2, <1>3, PlacedPart

LEMMA PlacedWithout ==
  ASSUME NEW list \in Seq(Transformer), NEW n \in 1..Len(list),
         NEW s, NEW added, NEW before, NEW inst, NEW tct, Placed(list, s, added, before, inst, tct)
  PROVE  Placed(RemoveAt(list, n), s, added, before, inst, tct)
<1> DEFINE left == RemoveAt(list, n)
<1> DEFINE from == [k \in 1..(Len(list) - 1) |-> IF k < n THEN k ELSE k + 1]
<1>1. Len(list) \in Nat /\ Len(left) = Len(list) - 1
  BY RemoveAtProperties, LenProperties
<1>2. ASSUME NEW k \in 1..Len(left)
      PROVE  from[k] \in 1..Len(list) /\ left[k] = list[from[k]]
  <2>1. k \in 1..(Len(list) - 1) /\ from[k] = IF k < n THEN k ELSE k + 1
    BY <1>1
  <2>2. left[k] = IF k < n THEN list[k] ELSE list[k + 1]
    <3> HIDE DEF left
    <3>1. \A i \in 1..(Len(list) - 1) : left[i] = IF i < n THEN list[i] ELSE list[i + 1]
      BY RemoveAtProperties, Zenon DEF left
    <3> QED
      BY <2>1, <3>1
  <2>3. from[k] \in 1..Len(list)
    BY <1>1, <2>1
  <2> HIDE DEF from, left
  <2> QED
    BY <2>1, <2>2, <2>3
<1>3. \A k \in 1..Len(left) : \A j \in 1..(k - 1) :
        j \in 1..Len(left) /\ from[j] \in 1..(from[k] - 1)
  BY <1>1
<1> HIDE DEF left, from
<1>4. Placed(left, s, added, before, inst, tct)
  BY <1>2, <1>3, PlacedPart
<1> QED
  BY <1>4 DEF left

LEMMA PlacedAppend ==
  ASSUME NEW list \in Seq(Transformer), NEW x \in Transformer,
         NEW s, NEW added, NEW before, NEW inst, NEW tct, Placed(list, s, added, before, inst, tct),
         x.kind = "time" =>
           /\ x.of = s /\ added
           /\ \A j \in 1..Len(list) : list[j].kind = "reset" /\ list[j].of \in before \cup {s},
         x.kind = "reset" => x.by \in Sessions /\ inst[x.by] = s /\ tct[x.by] = x.of
  PROVE  Placed(Append(list, x), s, added, before, inst, tct)
<1> DEFINE longer == Append(list, x)
<1>1. /\ Len(list) \in Nat /\ Len(longer) = Len(list) + 1
      /\ \A k \in 1..Len(list) : longer[k] = list[k]
      /\ longer[Len(list) + 1] = x
  BY AppendProperties, LenProperties
<1> HIDE DEF longer
<1>2. ASSUME NEW k \in 1..Len(longer)
      PROVE  /\ longer[k].kind = "time" =>
                  /\ longer[k].of = s /\ added
                  /\ \A j \in 1..(k - 1) :
                       longer[j].kind = "reset" /\ longer[j].of \in before \cup {s}
             /\ longer[k].kind = "reset" =>
                  /\ longer[k].by \in Sessions
                  /\ inst[longer[k].by] = s /\ tct[longer[k].by] = longer[k].of
  <2>1. CASE k = Len(list) + 1
    <3>1. longer[k] = x /\ \A j \in 1..(k - 1) : longer[j] = list[j] /\ j \in 1..Len(list)
      BY <1>1, <2>1
    <3> QED
      BY <3>1
  <2>2. CASE k \in 1..Len(list)
    <3>1. longer[k] = list[k] /\ \A j \in 1..(k - 1) : longer[j] = list[j]
      BY <1>1, <2>2
    <3> QED
      BY <2>2, <3>1 DEF Placed
  <2> QED
    BY <1>1, <2>1, <2>2
<1>3. Placed(longer, s, added, before, inst, tct)
  BY <1>2 DEF Placed
<1> QED
  BY <1>3 DEF longer

ListsPlaced == \A s \in Sessions : InPlace(transformers[s], s)

LEMMA PlaceStep ==
  ASSUME TypeOK, MainsInOrder, ConfigIsWritten, ReadInTurn, ListsPlaced, ComesInOrder, [Next]_vars
  PROVE  ListsPlaced' /\ ComesInOrder'
<1> DEFINE Now(list, s) == Placed(list, s, HasAdded(s)', earlier'[s], instrumentation', local')
<1> DEFINE Comes(v) ==
      hooks'[v] # <<>> =>
        \E s \in Sessions : Began(s) /\ Now(hooks'[v], s) /\ ahead'[v] \cap UpTo(s) = {}
<1>1. /\ transformers \in [Sessions -> Seq(Transformer)]
      /\ hooks \in [JvmThreads -> Seq(Transformer)]
      /\ ahead \in [JvmThreads -> SUBSET Sessions]
  BY DEF TypeOK
<1>2. \A s \in Sessions : HasAdded(s) => HasAdded(s)' /\ earlier'[s] = earlier[s]
  BY Progress DEF Began, HasAdded
<1>3. \A h \in Sessions : /\ instrumentation[h] # None => instrumentation'[h] = instrumentation[h]
                          /\ local[h] # None => local'[h] = local[h]
  BY ReadStep
<1>4. ASSUME NEW s \in Sessions, NEW list \in Seq(Transformer), InPlace(list, s)
      PROVE  Now(list, s)
  <2>1. Placed(list, s, HasAdded(s), earlier[s], instrumentation, local)
    BY <1>4, PlacedNow
  <2> QED
    BY <1>2, <1>3, <2>1, PlacedLater
<1>5. \A s \in Sessions : Now(transformers[s], s)
  <2> SUFFICES ASSUME NEW s \in Sessions
               PROVE  Now(transformers[s], s)
    OBVIOUS
  <2>1. transformers[s] \in Seq(Transformer) /\ InPlace(transformers[s], s)
    BY <1>1 DEF ListsPlaced
  <2> QED
    BY <1>4, <2>1
<1>6. Listener \in JvmThreads /\ Sessions \subseteq JvmThreads
  BY DEF JvmThreads
<1>7. \A s \in Sessions : Began(s) => Began(s)' /\ UpTo(s)' = UpTo(s)
  BY Progress DEF UpTo
<1> HIDE DEF Now
\* It is enough that each list that changes is in place.
<1>8. SUFFICES /\ \A s \in Sessions : Now(transformers'[s], s)
               /\ \A v \in JvmThreads : Comes(v)
  <2>1. ASSUME \A s \in Sessions : Now(transformers'[s], s)
        PROVE  ListsPlaced'
    BY <2>1, PlacedNow DEF ListsPlaced, Now
  <2>2. ASSUME NEW v \in JvmThreads, Comes(v), hooks'[v] # <<>>
        PROVE  \E s \in Sessions : Began(s)' /\ InPlace(hooks[v], s)' /\ ahead'[v] \cap UpTo(s)' = {}
    BY <1>7, <2>2, PlacedNow DEF Now
  <2> QED
    BY <2>1, <2>2 DEF ComesInOrder
<1>9. ASSUME NEW v \in JvmThreads, hooks'[v] = hooks[v], ahead'[v] \subseteq ahead[v]
      PROVE  Comes(v)
  <2> SUFFICES ASSUME hooks[v] # <<>>
               PROVE  \E s \in Sessions : Began(s) /\ Now(hooks[v], s) /\ ahead'[v] \cap UpTo(s) = {}
    BY <1>9
  <2>1. PICK s \in Sessions : Began(s) /\ InPlace(hooks[v], s) /\ ahead[v] \cap UpTo(s) = {}
    BY DEF ComesInOrder
  <2>2. Now(hooks[v], s)
    BY <1>1, <1>4, <2>1
  <2> QED
    BY <1>9, <2>1, <2>2
<1> HIDE DEF Comes
<1>10. ASSUME NEW u \in JvmThreads, NEW set, BeginRetransform(u, set)
       PROVE  \A v \in JvmThreads : Comes(v)
  <2>1. hooks'[u] = <<>> /\ \A v \in JvmThreads \ {u} : hooks'[v] = hooks[v] /\ ahead'[v] = ahead[v]
    BY <1>1, <1>10 DEF BeginRetransform
  <2>2. Comes(u)
    BY <2>1 DEF Comes
  <2> QED
    BY <1>9, <2>1, <2>2
<1>11. ASSUME NEW u \in JvmThreads, ReadHooks(u)
       PROVE  \A v \in JvmThreads : Comes(v)
  <2>1. PICK s \in ahead[u] : /\ Began(s) /\ earlier[s] \cap ahead[u] = {}
                             /\ ahead' = [ahead EXCEPT ![u] = @ \ {s}]
                             /\ hooks' = [hooks EXCEPT ![u] = transformers[s]]
    BY <1>11 DEF ReadHooks
  <2>2. s \in Sessions /\ hooks'[u] = transformers[s] /\ ahead'[u] = ahead[u] \ {s}
    BY <1>1, <2>1
  <2>3. ahead'[u] \cap UpTo(s) = {}
    BY <2>1, <2>2 DEF UpTo
  <2>4. Comes(u)
    BY <1>5, <2>1, <2>2, <2>3 DEF Comes
  <2>5. \A v \in JvmThreads \ {u} : hooks'[v] = hooks[v] /\ ahead'[v] = ahead[v]
    BY <1>1, <2>1
  <2> QED
    BY <1>9, <2>4, <2>5
<1>12. ASSUME NEW u \in JvmThreads, RunHook(u)
       PROVE  \A v \in JvmThreads : Comes(v)
  <2>1. hooks[u] # <<>> /\ hooks'[u] = Tail(hooks[u]) /\ ahead' = ahead
        /\ \A v \in JvmThreads \ {u} : hooks'[v] = hooks[v]
    BY <1>1, <1>12 DEF RunHook
  <2>2. PICK s \in Sessions : Began(s) /\ InPlace(hooks[u], s) /\ ahead[u] \cap UpTo(s) = {}
    BY <2>1 DEF ComesInOrder
  <2>3. hooks[u] \in Seq(Transformer) /\ Now(hooks[u], s)
    BY <1>1, <1>4, <2>2
  <2>4. Now(Tail(hooks[u]), s)
    BY <2>1, <2>3, PlacedTail DEF Now
  <2>5. Comes(u)
    BY <2>1, <2>2, <2>4 DEF Comes
  <2> QED
    BY <1>9, <2>1, <2>5
<1>13. ASSUME NEW u \in JvmThreads, hooks' = hooks, ahead' = [ahead EXCEPT ![u] = {}]
       PROVE  \A v \in JvmThreads : Comes(v)
  <2>1. ASSUME NEW v \in JvmThreads
        PROVE  ahead'[v] \subseteq ahead[v]
    BY <1>1, <1>13
  <2> QED
    BY <1>9, <1>13, <2>1
<1>14. ASSUME UNCHANGED <<hooks, ahead>>
       PROVE  \A v \in JvmThreads : Comes(v)
  BY <1>9, <1>14
<1>15. ASSUME NEW env \in Sessions, NEW list, Now(list, env),
              transformers' = [transformers EXCEPT ![env] = list]
       PROVE  \A s \in Sessions : Now(transformers'[s], s)
  <2>1. transformers'[env] = list /\ \A s \in Sessions \ {env} : transformers'[s] = transformers[s]
    BY <1>1, <1>15
  <2> QED
    BY <1>5, <1>15, <2>1
<1>16. ASSUME NEW env \in Sessions, NEW x
       PROVE  Now(Without(transformers[env], x), env)
  <2>1. transformers[env] \in Seq(Transformer)
    BY <1>1
  <2>2. Now(transformers[env], env)
    BY <1>5
  <2>3. \A k \in 1..Len(transformers[env]) : Now(RemoveAt(transformers[env], k), env)
    BY <2>1, <2>2, PlacedWithout DEF Now
  <2> QED
    BY <2>1, <2>2, <2>3, WithoutType
<1>17. ASSUME NEW s \in Sessions, AddTransformer(s)
       PROVE  /\ \A t \in Sessions : Now(transformers'[t], t)
              /\ UNCHANGED <<hooks, ahead>>
  <2> DEFINE x == TimeTransformer(s)
  <2> DEFINE list == transformers[s]
  <2>1. /\ transformers' = [transformers EXCEPT ![s] = Append(list, x)] /\ UNCHANGED <<hooks, ahead>>
        /\ agent[s] = "classSet" /\ agent'[s] = "added" /\ earlier' = earlier
    BY <1>17 DEF AddTransformer, AgentStep, TypeOK
  <2>2. x \in Transformer /\ x.of = s /\ x.kind = "time"
    BY TransformerTypes DEF TimeTransformer
  <2>3. list \in Seq(Transformer) /\ InPlace(list, s) /\ Now(list, s)
    BY <1>1, <1>5 DEF ListsPlaced
  <2>4. HasAdded(s)' /\ ~HasAdded(s)
    BY <2>1 DEF HasAdded
  <2> HIDE DEF x, list
  <2>5. ASSUME NEW j \in 1..Len(list)
        PROVE  list[j].kind = "reset" /\ list[j].of \in earlier'[s] \cup {s}
    <3>1. list[j] \in Transformer
      BY <2>3, ElementOfSeq
    <3>2. list[j].of \in Sessions /\ list[j].kind \in {"time", "reset"}
      BY <3>1 DEF Transformer
    <3>3. list[j].kind = "reset"
      BY <2>3, <2>4, <3>2 DEF InPlace
    <3>4. list[j].by \in Sessions /\ local[list[j].by] = list[j].of
      BY <2>3, <3>3 DEF InPlace
    <3>5. Began(list[j].of)
      BY <3>2, <3>4, SessionsAssumption DEF ConfigIsWritten
    <3>6. list[j].of # s => list[j].of \in earlier[s]
      BY <2>1, <3>2, <3>5 DEF MainsInOrder
    <3> QED
      BY <2>1, <3>3, <3>6
  <2>6. Now(Append(list, x), s)
    BY <2>2, <2>3, <2>4, <2>5, PlacedAppend DEF Now
  <2> QED
    BY <1>15, <2>1, <2>6
<1>18. ASSUME NEW s \in Sessions, RemoveTransformer(s) \/ RemoveReset(s)
       PROVE  /\ \A t \in Sessions : Now(transformers'[t], t)
              /\ UNCHANGED <<hooks, ahead>>
  <2>1. instrumentation[s] \in Sessions
    BY <1>18 DEF RemoveTransformer, RemoveReset, HeartBeatStep, ConfigIsWritten, TypeOK
  <2>2. PICK x : transformers' = [transformers EXCEPT ![instrumentation[s]] =
                                    Without(transformers[instrumentation[s]], x)]
    <3>1. CASE RemoveTransformer(s)
      BY <3>1 DEF RemoveTransformer
    <3>2. CASE RemoveReset(s)
      BY <3>2 DEF RemoveReset, WithoutReset
    <3> QED
      BY <1>18, <3>1, <3>2
  <2>3. UNCHANGED <<hooks, ahead>>
    BY <1>18 DEF RemoveTransformer, RemoveReset
  <2> QED
    BY <1>15, <1>16, <2>1, <2>2, <2>3
<1>19. ASSUME NEW s \in Sessions, AddReset(s)
       PROVE  /\ \A t \in Sessions : Now(transformers'[t], t)
              /\ UNCHANGED <<hooks, ahead>>
  <2> DEFINE x == ResetTransformer(s, local[s])
  <2> DEFINE env == instrumentation[s]
  <2>1. local[s] \in Sessions /\ env \in Sessions
    BY <1>19 DEF AddReset, HeartBeatStep, ConfigIsWritten, TypeOK
  <2>2. x \in Transformer /\ x.of = local[s] /\ x.kind = "reset" /\ x.by = s
    BY <2>1, TransformerTypes DEF ResetTransformer
  <2>3. /\ UNCHANGED <<hooks, ahead, instrumentation, local>>
        /\ \/ transformers' = transformers
           \/ transformers' = [transformers EXCEPT ![env] = Append(transformers[env], x)]
    BY <1>19 DEF AddReset
  <2> HIDE DEF x
  <2>4. instrumentation'[x.by] = env /\ local'[x.by] = x.of /\ x.by \in Sessions
    BY <2>2, <2>3
  <2> HIDE DEF env
  <2>5. transformers[env] \in Seq(Transformer) /\ Now(transformers[env], env)
    BY <1>1, <1>5, <2>1
  <2>6. Now(Append(transformers[env], x), env)
    BY <2>2, <2>4, <2>5, PlacedAppend DEF Now
  <2> QED
    BY <1>5, <1>15, <2>1, <2>3, <2>6
<1>20. ASSUME NEW s \in Sessions, AgentMain(s)
       PROVE  /\ \A t \in Sessions : Now(transformers'[t], t)
              /\ \A v \in JvmThreads : Comes(v)
  <2>1. CASE AddTransformer(s)
    BY <1>14, <1>17, <2>1
  <2>2. CASE Retransform(s) \/ Transform(s)
    BY <1>5, <1>6, <1>10, <1>11, <1>12, <2>2 DEF Retransform, Transform
  <2>3. CASE RetransformThrows(s) \/ InstallAgent(s)
    BY <1>5, <1>6, <1>13, <2>3 DEF RetransformThrows, InstallAgent, Install
  <2>4. CASE ~ AddTransformer(s) /\ ~ Retransform(s) /\ ~ Transform(s) /\ ~ RetransformThrows(s) /\ ~ InstallAgent(s)
    <3>1. UNCHANGED <<transformers, hooks, ahead>>
      BY <1>20, <2>4 DEF AgentMain, SetEnterClazzName, SetEnterMethod, SetHttpPort, CheckHttpConnection,
        StartHeartBeat, AgentThrows, ReadHierarchy, SetTimeCostTransformer, SetInstrument, SetTransClassSet, jvmVars
    <3> QED
      BY <1>5, <1>14, <3>1
  <2> QED
    BY <2>1, <2>2, <2>3, <2>4
<1>21. ASSUME NEW s \in Sessions, HttpClientThread(s)
       PROVE  /\ \A t \in Sessions : Now(transformers'[t], t)
              /\ \A v \in JvmThreads : Comes(v)
  <2>1. CASE RemoveTransformer(s) \/ RemoveReset(s)
    BY <1>14, <1>18, <2>1
  <2>2. CASE AddReset(s)
    BY <1>14, <1>19, <2>2
  <2>3. CASE Reset(s) \/ TransformBack(s)
    BY <1>5, <1>6, <1>10, <1>11, <1>12, <2>3 DEF Reset, TransformBack
  <2>4. CASE InstallReset(s)
    BY <1>5, <1>6, <1>13, <2>4 DEF InstallReset, Install
  <2>5. CASE CheckBootExit(s) \/ GetInstrument(s) \/ GetTimeCostTransformer(s) \/ StopRecording(s)
    <3>1. UNCHANGED <<transformers, hooks, ahead>>
      BY <2>5 DEF CheckBootExit, GetInstrument, GetTimeCostTransformer, StopRecording, jvmVars
    <3> QED
      BY <1>5, <1>14, <3>1
  <2> QED
    BY <1>21, <2>1, <2>2, <2>3, <2>4, <2>5 DEF HttpClientThread, UndoInstrumentation
<1>22. CASE UNCHANGED <<transformers, hooks, ahead>>
  BY <1>5, <1>14, <1>22
<1> QED
  BY <1>20, <1>21, <1>22, BootKeeps DEF Next, Terminated, vars, jvmVars

-----------------------------------------------------------------------------
(***************************************************************************)
(* The bytes that are kept.                                                *)
(***************************************************************************)
\* A session begins after all that have begun, and stays after them.
LEMMA EarlierStep ==
  ASSUME TypeOK, MainsInOrder, [Next]_vars, NEW s \in Sessions
  PROVE  /\ Began(s) => earlier'[s] = earlier[s]
         /\ ~Began(s) => \/ earlier'[s] = earlier[s] /\ ~Began(s)'
                         \/ \A t \in Sessions : Began(t) => t \in earlier'[s]
<1>1. Began(s) => earlier'[s] = earlier[s]
  BY Progress
<1>2. ASSUME ~Began(s)
      PROVE  \/ earlier'[s] = earlier[s] /\ ~Began(s)'
             \/ \A t \in Sessions : Began(t) => t \in earlier'[s]
  <2>1. CASE SetEnterClazzName(s)
    BY <2>1 DEF SetEnterClazzName, Began, TypeOK
  <2>2. ASSUME NEW t \in Sessions, SetEnterClazzName(t), t # s
        PROVE  earlier'[s] = earlier[s] /\ ~Began(s)'
    BY <1>2, <2>2 DEF SetEnterClazzName, AgentStep, Began, TypeOK
  <2>3. ASSUME NEW t \in Sessions, GoesOn(t)
        PROVE  earlier'[s] = earlier[s] /\ ~Began(s)'
    BY <1>2, <2>3 DEF GoesOn, Began, TypeOK
  <2>4. ASSUME UNCHANGED <<agent, earlier>>
        PROVE  earlier'[s] = earlier[s] /\ ~Began(s)'
    BY <1>2, <2>4 DEF Began
  <2> QED
    BY <2>1, <2>2, <2>3, <2>4, MainGoesOn, BootKeeps, HeartBeatKeeps DEF Next, Terminated, vars
<1> QED
  BY <1>1, <1>2

LEMMA StraddledStays ==
  ASSUME TypeOK, MainsInOrder, ReadInTurn, [Next]_vars, NEW s \in Sessions, Straddled(s)
  PROVE  Began(s) /\ Straddled(s)'
<1>1. PICK h \in Sessions, t \in Sessions :
        instrumentation[h] \in earlier[s] /\ local[h] = t /\ s \in earlier[t]
  BY DEF Straddled
<1>2. Began(s) /\ Began(t) /\ earlier[s] \subseteq Sessions
  BY <1>1 DEF MainsInOrder, TypeOK
<1>3. earlier'[s] = earlier[s] /\ earlier'[t] = earlier[t]
  BY <1>2, EarlierStep
<1>4. instrumentation'[h] = instrumentation[h] /\ local'[h] = local[h]
  BY <1>1, <1>2, ReadStep, SessionsAssumption
<1> QED
  BY <1>1, <1>2, <1>3, <1>4 DEF Straddled

\* The transformer that runs, x, is of the list of session env: it is the
\* transformer of env itself, or the reset of a heartbeat thread that uses the
\* Instrumentation of env.
RunsOf(u, env, x) ==
  /\ Began(env) /\ InPlace(hooks[u], env) /\ ahead[u] \cap UpTo(env) = {}
  /\ x.of \in Sessions /\ Began(x.of)
  /\ \/ x.kind = "time" /\ x.of = env /\ TransformTimed(u, env)
     \/ /\ x.kind = "reset" /\ TransformReset(u, x.of)
        /\ \E h \in Sessions : instrumentation[h] = env /\ local[h] = x.of

LEMMA RunsOne ==
  ASSUME TypeOK, ConfigIsWritten, ComesInOrder, NEW u \in JvmThreads, RunHook(u)
  PROVE  /\ hooks[u] \in Seq(Transformer) /\ hooks[u] # <<>> /\ 1 \in 1..Len(hooks[u])
         /\ UNCHANGED ahead /\ hooks' = [hooks EXCEPT ![u] = Tail(@)]
         /\ \E env \in Sessions : RunsOf(u, env, hooks[u][1])
<1> DEFINE x == hooks[u][1]
<1>1. /\ hooks[u] \in Seq(Transformer) /\ hooks[u] # <<>>
      /\ UNCHANGED ahead /\ hooks' = [hooks EXCEPT ![u] = Tail(@)]
  BY DEF RunHook, TypeOK
<1>2. x = Head(hooks[u]) /\ x \in Transformer /\ 1 \in 1..Len(hooks[u])
  BY <1>1, HeadTailProperties, EmptySeq
<1>3. x.of \in Sessions /\ x.kind \in {"time", "reset"}
  BY <1>2 DEF Transformer
<1>4. IF x.kind = "time" THEN TransformTimed(u, x.of) ELSE TransformReset(u, x.of)
  BY <1>2 DEF RunHook
<1>5. PICK env \in Sessions :
        Began(env) /\ InPlace(hooks[u], env) /\ ahead[u] \cap UpTo(env) = {}
  BY <1>1 DEF ComesInOrder
<1>6. /\ x.kind = "time" => x.of = env
      /\ x.kind = "reset" => x.by \in Sessions /\ instrumentation[x.by] = env /\ local[x.by] = x.of
  BY <1>2, <1>5 DEF InPlace
<1> HIDE DEF x
<1>7. x.kind = "reset" => Began(x.of)
  BY <1>3, <1>6, SessionsAssumption DEF ConfigIsWritten
<1>8. RunsOf(u, env, x)
  <2>1. CASE x.kind = "time"
    BY <1>3, <1>4, <1>5, <1>6, <2>1 DEF RunsOf
  <2>2. CASE x.kind = "reset"
    BY <1>3, <1>4, <1>5, <1>6, <1>7, <2>2 DEF RunsOf
  <2> QED
    BY <1>3, <2>1, <2>2
<1> QED
  BY <1>1, <1>2, <1>8 DEF x

LEMMA CodeStep ==
  ASSUME TypeOK, MainsInOrder, ConfigIsWritten, ComesInOrder, CodeIsOfBegun, [Next]_vars
  PROVE  CodeIsOfBegun'
<1>1. \A s \in Sessions : Began(s) => Began(s)'
  BY Progress
<1>2. Listener \in JvmThreads /\ Sessions \subseteq JvmThreads
  BY DEF JvmThreads
<1>3. CASE UNCHANGED <<compiled, saved>>
  BY <1>1, <1>3 DEF CodeIsOfBegun
<1>4. ASSUME NEW u \in JvmThreads, UNCHANGED saved, NEW row,
             \A c \in Classes : row[c] \in {None, Orig},
             compiled' = [compiled EXCEPT ![u] = row]
      PROVE  CodeIsOfBegun'
  <2>1. compiled'[u] = row /\ \A v \in JvmThreads \ {u} : compiled'[v] = compiled[v]
    BY <1>4 DEF TypeOK
  <2>2. \A c \in Classes : \A s \in Sessions : row[c] # s
    BY <1>4, SessionsAssumption
  <2> QED
    BY <1>1, <1>4, <2>1, <2>2 DEF CodeIsOfBegun
<1>5. ASSUME NEW u \in JvmThreads, NEW set, BeginRetransform(u, set)
      PROVE  CodeIsOfBegun'
  <2> DEFINE row == [c \in Classes |-> IF c \in set THEN Orig ELSE None]
  <2>1. compiled' = [compiled EXCEPT ![u] = row] /\ UNCHANGED saved
    BY <1>5 DEF BeginRetransform
  <2>2. \A c \in Classes : row[c] \in {None, Orig}
    OBVIOUS
  <2> HIDE DEF row
  <2> QED
    BY <1>4, <2>1, <2>2
<1>6. ASSUME NEW u \in JvmThreads, UNCHANGED saved,
             compiled' = [compiled EXCEPT ![u] = [c \in Classes |-> None]]
      PROVE  CodeIsOfBegun'
  <2> DEFINE row == [c \in Classes |-> None]
  <2>1. compiled' = [compiled EXCEPT ![u] = row] /\ \A c \in Classes : row[c] \in {None, Orig}
    BY <1>6
  <2> HIDE DEF row
  <2> QED
    BY <1>4, <1>6, <2>1
<1>7. ASSUME NEW u \in JvmThreads, RunHook(u)
      PROVE  CodeIsOfBegun'
  <2> DEFINE x == hooks[u][1]
  <2>1. PICK env \in Sessions : RunsOf(u, env, x)
    BY <1>7, RunsOne
  <2> HIDE DEF x
  <2>2. x.of \in Sessions /\ Began(x.of)
    BY <2>1 DEF RunsOf
  <2> SUFFICES ASSUME NEW s \in Sessions, ~Began(s), NEW c \in Classes
               PROVE  /\ \A t \in Sessions : saved'[t][c] # s
                      /\ \A v \in JvmThreads : compiled'[v][c] # s
    BY <1>1 DEF CodeIsOfBegun
  <2>6. /\ \A t \in Sessions : saved[t][c] # s
        /\ \A v \in JvmThreads : compiled[v][c] # s
    BY DEF CodeIsOfBegun
  <2>7. CASE x.of = env /\ TransformTimed(u, env)
    <3>1. s # env
      BY <2>2, <2>7
    <3>2. \A t \in Sessions : saved'[t][c] = saved[t][c] \/ saved'[t][c] = compiled[u][c]
      BY <2>7 DEF TransformTimed, SavedBytes, TypeOK
    <3>3. \A v \in JvmThreads : compiled'[v][c] = compiled[v][c] \/ compiled'[v][c] = env
      BY <2>7 DEF TransformTimed, TypeOK
    <3> QED
      BY <2>6, <3>1, <3>2, <3>3
  <2>8. CASE TransformReset(u, x.of)
    <3>1. saved' = saved
      BY <2>8 DEF TransformReset
    <3>2. \A v \in JvmThreads : compiled'[v][c] = compiled[v][c] \/ compiled'[v][c] = saved[x.of][c]
      BY <2>2, <2>8 DEF TransformReset, TypeOK
    <3> QED
      BY <2>2, <2>6, <3>1, <3>2
  <2> QED
    BY <2>1, <2>7, <2>8 DEF RunsOf
<1>8. ASSUME NEW s \in Sessions, AgentMain(s)
      PROVE  CodeIsOfBegun'
  <2>1. CASE Retransform(s)
    BY <1>2, <1>5, <2>1 DEF Retransform
  <2>2. CASE Transform(s)
    BY <1>2, <1>3, <1>7, <2>2 DEF Transform, ReadHooks
  <2>3. CASE RetransformThrows(s) \/ InstallAgent(s)
    BY <1>2, <1>6, <2>3 DEF RetransformThrows, InstallAgent, Install
  <2>4. CASE ~ Retransform(s) /\ ~ Transform(s) /\ ~ RetransformThrows(s) /\ ~ InstallAgent(s)
    <3>1. UNCHANGED <<compiled, saved>>
      BY <1>8, <2>4 DEF AgentMain, SetEnterClazzName, SetEnterMethod, SetHttpPort, CheckHttpConnection,
        StartHeartBeat, AgentThrows, ReadHierarchy, SetTimeCostTransformer, SetInstrument, SetTransClassSet,
        AddTransformer, jvmVars
    <3> QED
      BY <1>3, <3>1
  <2> QED
    BY <2>1, <2>2, <2>3, <2>4
<1>9. ASSUME NEW s \in Sessions, HttpClientThread(s)
      PROVE  CodeIsOfBegun'
  <2>1. CASE Reset(s)
    BY <1>2, <1>5, <2>1 DEF Reset
  <2>2. CASE TransformBack(s)
    BY <1>2, <1>3, <1>7, <2>2 DEF TransformBack, ReadHooks
  <2>3. CASE InstallReset(s)
    BY <1>2, <1>6, <2>3 DEF InstallReset, Install
  <2>4. CASE ~ Reset(s) /\ ~ TransformBack(s) /\ ~ InstallReset(s)
    <3>1. UNCHANGED <<compiled, saved>>
      BY <1>9, <2>4 DEF HttpClientThread, UndoInstrumentation, CheckBootExit, GetInstrument,
        GetTimeCostTransformer, RemoveTransformer, AddReset, RemoveReset, StopRecording, jvmVars
    <3> QED
      BY <1>3, <3>1
  <2> QED
    BY <2>1, <2>2, <2>3, <2>4
<1> QED
  BY <1>3, <1>8, <1>9, BootKeeps DEF Next, Terminated, vars, jvmVars

\* The transformer that runs is of no later session than those still to run,
\* and so is the one whose bytes a reset puts back, unless it is straddled.
LEMMA RunsEarlierFirst ==
  ASSUME TypeOK, MainsInOrder, NEW u \in JvmThreads, NEW env \in Sessions, hooks[u] # <<>>,
         RunsOf(u, env, hooks[u][1]), UNCHANGED <<agent, ahead>>, hooks'[u] = Tail(hooks[u]),
         NEW s \in Sessions, ~Straddled(s), NEW t \in UpTo(s), StillToRun(u, t)'
  PROVE  LET x == hooks[u][1]
         IN /\ StillToRun(u, t)
            /\ x.kind = "time" => x.of \in earlier[s]
            /\ x.kind # "time" => x.of \in UpTo(s)
<1> DEFINE x == hooks[u][1]
<1>1. t \in Sessions /\ UpTo(t) \subseteq UpTo(s)
  BY DEF UpTo, MainsInOrder, TypeOK
<1>2. /\ Began(env) /\ InPlace(hooks[u], env) /\ ahead[u] \cap UpTo(env) = {}
      /\ x.of \in Sessions /\ Began(x.of) /\ x.kind \in {"time", "reset"}
      /\ x.kind = "time" => x.of = env
      /\ x.kind = "reset" => \E h \in Sessions : instrumentation[h] = env /\ local[h] = x.of
  BY DEF RunsOf
<1>3. CASE Began(t) /\ t \in ahead[u]
  <2>1. env \in earlier[t]
    BY <1>1, <1>2, <1>3 DEF MainsInOrder, UpTo
  <2>2. env \in earlier[s]
    BY <2>1 DEF UpTo, MainsInOrder
  <2>3. x.kind = "reset" => x.of \in UpTo(s)
    <3> SUFFICES ASSUME x.kind = "reset"
                 PROVE  x.of \in UpTo(s)
      OBVIOUS
    <3>1. Began(s)
      BY <2>2 DEF MainsInOrder
    <3>2. ~(s \in earlier[x.of])
      BY <1>2, <2>2 DEF Straddled
    <3> QED
      BY <1>2, <3>1, <3>2 DEF MainsInOrder, UpTo
  <2> QED
    BY <1>2, <1>3, <2>2, <2>3 DEF StillToRun
<1>4. CASE \E k \in 1..Len(Tail(hooks[u])) :
             Tail(hooks[u])[k].kind = "time" /\ Tail(hooks[u])[k].of = t
  <2>1. PICK k \in 1..Len(Tail(hooks[u])) :
          Tail(hooks[u])[k].kind = "time" /\ Tail(hooks[u])[k].of = t
    BY <1>4
  <2>2. /\ k + 1 \in 1..Len(hooks[u]) /\ 1 \in 1..(k + 1 - 1)
        /\ hooks[u][k + 1].kind = "time" /\ hooks[u][k + 1].of = t
    <3>1. hooks[u] \in Seq(Transformer)
      BY DEF TypeOK
    <3>2. Len(hooks[u]) \in Nat /\ Len(Tail(hooks[u])) = Len(hooks[u]) - 1
          /\ Tail(hooks[u])[k] = hooks[u][k + 1]
      BY <3>1, HeadTailProperties, LenProperties
    <3> QED
      BY <2>1, <3>2
  <2>3. t = env /\ x.kind = "reset" /\ x.of \in UpTo(env)
    BY <1>2, <2>2 DEF InPlace
  <2>4. StillToRun(u, t)
    BY <2>2 DEF StillToRun
  <2> QED
    BY <1>1, <2>3, <2>4
<1> QED
  BY <1>3, <1>4 DEF StillToRun, Began

\* What may be kept by session s and by those before it.
Old(s) == {None, Orig} \cup earlier[s]

LEMMA RunHookBytes ==
  ASSUME TypeOK, MainsInOrder, ConfigIsWritten, ComesInOrder, GivenIsEarlier, KeepsEarlierBytes,
         NEW u \in JvmThreads, RunHook(u), UNCHANGED <<agent, earlier, instrumentation, local>>
  PROVE  GivenIsEarlier' /\ KeepsEarlierBytes'
<1> DEFINE x == hooks[u][1]
<1>1. /\ hooks[u] \in Seq(Transformer) /\ hooks[u] # <<>> /\ 1 \in 1..Len(hooks[u])
      /\ UNCHANGED ahead /\ hooks' = [hooks EXCEPT ![u] = Tail(@)]
  BY RunsOne
<1>2. PICK env \in Sessions : RunsOf(u, env, x)
  BY RunsOne
<1>3. hooks'[u] = Tail(hooks[u]) /\ \A v \in JvmThreads \ {u} : hooks'[v] = hooks[v]
  BY <1>1 DEF TypeOK
<1>4. x.of \in Sessions /\ x.kind \in {"time", "reset"}
  BY <1>2 DEF RunsOf
<1>5. x.kind = "time" => StillToRun(u, x.of)
  BY <1>1 DEF StillToRun
<1>6. IF x.kind = "time" THEN TransformTimed(u, x.of) ELSE TransformReset(u, x.of)
  BY <1>2 DEF RunsOf
<1>7. \A s \in Sessions : earlier' = earlier /\ (Straddled(s)' <=> Straddled(s)) /\ UpTo(s)' = UpTo(s)
  BY DEF Straddled, UpTo
<1>8. \A v \in JvmThreads \ {u} : \A t : StillToRun(v, t)' <=> StillToRun(v, t)
  BY <1>1, <1>3 DEF StillToRun, Began
<1>9. ASSUME NEW s \in Sessions, ~Straddled(s), NEW t \in UpTo(s), StillToRun(u, t)'
      PROVE  /\ StillToRun(u, t)
             /\ x.kind = "time" => x.of \in earlier[s]
             /\ x.kind # "time" => x.of \in UpTo(s)
  BY <1>1, <1>2, <1>3, <1>9, RunsEarlierFirst
<1> HIDE DEF x
<1>10. ASSUME NEW s \in Sessions, ~Straddled(s), NEW t \in UpTo(s), NEW c \in Classes
       PROVE  saved'[t][c] \in Old(s)
  <2>1. saved[t][c] \in Old(s) /\ t \in Sessions
    BY <1>10 DEF KeepsEarlierBytes, Old, UpTo, TypeOK
  <2>2. CASE x.kind = "time" /\ x.of = t
    <3>1. TransformTimed(u, t) /\ StillToRun(u, t)
      BY <1>5, <1>6, <2>2
    <3>2. saved'[t][c] = compiled[u][c] \/ saved'[t][c] = saved[t][c]
      BY <2>1, <3>1 DEF TransformTimed, SavedBytes, TypeOK
    <3>3. compiled[u][c] \in Old(s)
      BY <1>10, <3>1 DEF GivenIsEarlier, Old
    <3> QED
      BY <2>1, <3>2, <3>3
  <2>3. CASE x.kind = "time" /\ x.of # t
    <3>1. saved'[t] = saved[t]
      BY <1>4, <1>6, <2>1, <2>3 DEF TransformTimed, TypeOK
    <3> QED
      BY <2>1, <3>1
  <2>4. CASE x.kind # "time"
    <3>1. saved' = saved
      BY <1>6, <2>4 DEF TransformReset
    <3> QED
      BY <2>1, <3>1
  <2> QED
    BY <2>2, <2>3, <2>4
<1>11. ASSUME NEW s \in Sessions, ~Straddled(s), NEW t \in UpTo(s), StillToRun(u, t)', NEW c \in Classes
       PROVE  compiled'[u][c] \in Old(s)
  <2>1. compiled[u][c] \in Old(s)
    BY <1>9, <1>11 DEF GivenIsEarlier, Old
  <2>2. CASE x.kind = "time"
    <3>1. compiled'[u][c] = x.of \/ compiled'[u][c] = compiled[u][c]
      BY <1>4, <1>6, <2>2 DEF TransformTimed, TypeOK
    <3>2. x.of \in Old(s)
      BY <1>9, <1>11, <2>2 DEF Old
    <3> QED
      BY <2>1, <3>1, <3>2
  <2>3. CASE x.kind # "time"
    <3>1. compiled'[u][c] = saved[x.of][c] \/ compiled'[u][c] = compiled[u][c]
      BY <1>4, <1>6, <2>3 DEF TransformReset, TypeOK
    <3>2. x.of \in UpTo(s)
      BY <1>9, <1>11, <2>3
    <3>3. saved[x.of][c] \in Old(s)
      BY <1>11, <3>2 DEF KeepsEarlierBytes, Old
    <3> QED
      BY <2>1, <3>1, <3>3
  <2> QED
    BY <2>2, <2>3
<1>12. KeepsEarlierBytes'
  <2>1. \A s \in Sessions : ~Straddled(s) =>
          \A t \in UpTo(s) : \A c \in Classes : saved'[t][c] \in {None, Orig} \cup earlier[s]
    BY <1>10 DEF Old
  <2> QED
    BY <1>7, <2>1 DEF KeepsEarlierBytes
<1>13. GivenIsEarlier'
  <2>1. \A v \in JvmThreads \ {u} : compiled'[v] = compiled[v]
    BY <1>6 DEF TransformTimed, TransformReset, TypeOK
  <2>2. ASSUME NEW s \in Sessions, ~Straddled(s), NEW v \in JvmThreads, NEW t \in UpTo(s),
               StillToRun(v, t)', NEW c \in Classes
        PROVE  compiled'[v][c] \in {None, Orig} \cup earlier[s]
    <3>1. CASE v = u
      BY <1>11, <2>2, <3>1 DEF Old
    <3>2. CASE v # u
      <4>1. StillToRun(v, t)
        BY <1>8, <2>2, <3>2
      <4>2. compiled[v][c] \in {None, Orig} \cup earlier[s]
        BY <2>2, <4>1 DEF GivenIsEarlier
      <4> QED
        BY <2>1, <3>2, <4>2
    <3> QED
      BY <3>1, <3>2
  <2> QED
    BY <1>7, <2>2 DEF GivenIsEarlier
<1> QED
  BY <1>12, <1>13

\* A thread that begins or ends its work gives nobody code.
LEMMA EmptyBytes ==
  ASSUME TypeOK, GivenIsEarlier, KeepsEarlierBytes, NEW u \in JvmThreads, NEW row,
         \A c \in Classes : row[c] \in {None, Orig},
         compiled' = [compiled EXCEPT ![u] = row],
         \A v \in JvmThreads \ {u} : hooks'[v] = hooks[v] /\ ahead'[v] = ahead[v],
         \A t \in Sessions : Began(t)' => Began(t),
         UNCHANGED <<saved, earlier, instrumentation, local>>
  PROVE  GivenIsEarlier' /\ KeepsEarlierBytes'
<1>1. \A s \in Sessions : (Straddled(s)' <=> Straddled(s)) /\ UpTo(s)' = UpTo(s) /\ earlier' = earlier
  BY DEF Straddled, UpTo
<1>2. KeepsEarlierBytes'
  BY <1>1 DEF KeepsEarlierBytes
<1>3. compiled'[u] = row /\ \A v \in JvmThreads \ {u} : compiled'[v] = compiled[v]
  BY DEF TypeOK
<1>4. ASSUME NEW s \in Sessions, ~Straddled(s), NEW v \in JvmThreads, NEW t \in UpTo(s),
             StillToRun(v, t)', NEW c \in Classes
      PROVE  compiled'[v][c] \in {None, Orig} \cup earlier[s]
  <2>1. CASE v = u
    BY <1>3, <2>1
  <2>2. CASE v # u
    <3>1. t \in Sessions
      BY DEF UpTo, TypeOK
    <3>2. StillToRun(v, t) /\ compiled'[v] = compiled[v]
      BY <1>3, <1>4, <2>2, <3>1 DEF StillToRun
    <3> QED
      BY <1>4, <3>2 DEF GivenIsEarlier
  <2> QED
    BY <2>1, <2>2
<1> QED
  BY <1>1, <1>2, <1>4 DEF GivenIsEarlier

\* A list holds the transformer of no session but its own.
LEMMA ReadBytes ==
  ASSUME TypeOK, ListsPlaced, GivenIsEarlier, KeepsEarlierBytes, NEW u \in JvmThreads, ReadHooks(u),
         UNCHANGED <<agent, earlier, instrumentation, local>>
  PROVE  GivenIsEarlier' /\ KeepsEarlierBytes'
<1>1. \A s \in Sessions : (Straddled(s)' <=> Straddled(s)) /\ UpTo(s)' = UpTo(s) /\ earlier' = earlier
  BY DEF Straddled, UpTo
<1>2. PICK s \in ahead[u] : /\ Began(s) /\ ahead' = [ahead EXCEPT ![u] = @ \ {s}]
                           /\ hooks' = [hooks EXCEPT ![u] = transformers[s]]
  BY DEF ReadHooks
<1>3. UNCHANGED <<saved, compiled>>
  BY DEF ReadHooks
<1>4. /\ s \in Sessions /\ ahead'[u] = ahead[u] \ {s} /\ hooks'[u] = transformers[s]
      /\ \A v \in JvmThreads \ {u} : ahead'[v] = ahead[v] /\ hooks'[v] = hooks[v]
  BY <1>2 DEF TypeOK
<1>5. ASSUME NEW v \in JvmThreads, NEW t, StillToRun(v, t)'
      PROVE  StillToRun(v, t)
  <2>1. CASE v # u
    BY <1>4, <1>5, <2>1 DEF StillToRun, Began
  <2>2. CASE v = u /\ Began(t) /\ t \in ahead'[u]
    BY <1>4, <2>2 DEF StillToRun
  <2>3. CASE v = u /\ \E k \in 1..Len(transformers[s]) :
                        transformers[s][k].kind = "time" /\ transformers[s][k].of = t
    <3>1. t = s
      BY <1>4, <2>3 DEF ListsPlaced, InPlace
    <3> QED
      BY <1>2, <2>3, <3>1 DEF StillToRun
  <2> QED
    BY <1>4, <1>5, <2>1, <2>2, <2>3 DEF StillToRun, Began
<1>6. KeepsEarlierBytes'
  BY <1>1, <1>3 DEF KeepsEarlierBytes
<1> QED
  BY <1>1, <1>3, <1>5, <1>6 DEF GivenIsEarlier

\* A session that begins finds nobody's code but that of the sessions before it.
LEMMA BeginningBytes ==
  ASSUME TypeOK, MainsInOrder, ReadInTurn, CodeIsOfBegun, GivenIsEarlier, KeepsEarlierBytes,
         [Next]_vars, TypeOK', UNCHANGED <<ahead, hooks, compiled, saved>>
  PROVE  GivenIsEarlier' /\ KeepsEarlierBytes'
<1>1. ASSUME NEW s \in Sessions, ~Straddled(s)'
      PROVE  /\ \A t \in UpTo(s)' : \A c \in Classes : saved[t][c] \in {None, Orig} \cup earlier'[s]
             /\ \A u \in JvmThreads : \A t \in UpTo(s)' : StillToRun(u, t)' =>
                  \A c \in Classes : compiled[u][c] \in {None, Orig} \cup earlier'[s]
  <2>1. ~Straddled(s)
    BY <1>1, StraddledStays
  <2>2. CASE earlier'[s] = earlier[s] /\ (Began(s) \/ ~Began(s)')
    <3>1. UpTo(s)' = UpTo(s)
      BY <2>2 DEF UpTo
    <3>2. \A t \in UpTo(s) : Began(t)' => Began(t)
      BY <2>2 DEF UpTo, MainsInOrder
    <3>3. \A u \in JvmThreads : \A t \in UpTo(s) : StillToRun(u, t)' => StillToRun(u, t)
      BY <3>2 DEF StillToRun
    <3>4. \A t \in UpTo(s) : \A c \in Classes : saved[t][c] \in {None, Orig} \cup earlier'[s]
      BY <2>1, <2>2 DEF KeepsEarlierBytes
    <3>5. \A u \in JvmThreads : \A t \in UpTo(s) : StillToRun(u, t)' =>
            \A c \in Classes : compiled[u][c] \in {None, Orig} \cup earlier'[s]
      BY <2>1, <2>2, <3>3 DEF GivenIsEarlier
    <3> QED
      BY <3>1, <3>4, <3>5
  <2>3. CASE \A t \in Sessions : Began(t) => t \in earlier'[s]
    <3>1. \A c \in Classes : /\ \A t \in Sessions : saved[t][c] \in Sessions => Began(saved[t][c])
                             /\ \A u \in JvmThreads : compiled[u][c] \in Sessions => Began(compiled[u][c])
      BY DEF CodeIsOfBegun
    <3>2. \A c \in Classes : /\ \A t \in Sessions : saved[t][c] \in Sessions \cup {None, Orig}
                             /\ \A u \in JvmThreads : compiled[u][c] \in Sessions \cup {None, Orig}
      <4>1. /\ saved \in [Sessions -> [Classes -> Code \cup {None}]]
            /\ compiled \in [JvmThreads -> [Classes -> Code \cup {None}]]
        BY DEF TypeOK
      <4> QED
        BY <4>1 DEF Code
    <3>3. UpTo(s)' \subseteq Sessions
      BY DEF UpTo, TypeOK
    <3> QED
      BY <2>3, <3>1, <3>2, <3>3
  <2> QED
    BY <2>2, <2>3, EarlierStep
<1>2. KeepsEarlierBytes'
  BY <1>1 DEF KeepsEarlierBytes
<1> QED
  BY <1>1, <1>2 DEF GivenIsEarlier

LEMMA BytesStep ==
  ASSUME OverlapInv, [Next]_vars
  PROVE  GivenIsEarlier' /\ KeepsEarlierBytes'
<1> USE DEF OverlapInv
<1>1. Listener \in JvmThreads /\ Sessions \subseteq JvmThreads
  BY DEF JvmThreads
<1>2. ListsPlaced
  BY DEF ListsPlaced
<1>3. CASE UNCHANGED <<ahead, hooks, compiled, saved>>
  BY <1>3, TypeStep, BeginningBytes
<1>4. ASSUME NEW u \in JvmThreads, NEW set, BeginRetransform(u, set),
             \A t \in Sessions : Began(t)' => Began(t), UNCHANGED <<earlier, instrumentation, local>>
      PROVE  GivenIsEarlier' /\ KeepsEarlierBytes'
  <2> DEFINE row == [c \in Classes |-> IF c \in set THEN Orig ELSE None]
  <2>1. compiled' = [compiled EXCEPT ![u] = row] /\ UNCHANGED saved
    BY <1>4 DEF BeginRetransform
  <2>2. \A v \in JvmThreads \ {u} : hooks'[v] = hooks[v] /\ ahead'[v] = ahead[v]
    BY <1>4 DEF BeginRetransform, TypeOK
  <2>3. \A c \in Classes : row[c] \in {None, Orig}
    OBVIOUS
  <2> HIDE DEF row
  <2> QED
    BY <1>4, <2>1, <2>2, <2>3, EmptyBytes
<1>5. ASSUME NEW u \in JvmThreads, UNCHANGED <<saved, hooks, earlier, instrumentation, local>>,
             compiled' = [compiled EXCEPT ![u] = [c \in Classes |-> None]],
             ahead' = [ahead EXCEPT ![u] = {}], \A t \in Sessions : Began(t)' => Began(t)
      PROVE  GivenIsEarlier' /\ KeepsEarlierBytes'
  <2> DEFINE row == [c \in Classes |-> None]
  <2>1. compiled' = [compiled EXCEPT ![u] = row] /\ \A c \in Classes : row[c] \in {None, Orig}
    BY <1>5
  <2>2. \A v \in JvmThreads \ {u} : hooks'[v] = hooks[v] /\ ahead'[v] = ahead[v]
    BY <1>5 DEF TypeOK
  <2> HIDE DEF row
  <2> QED
    BY <1>5, <2>1, <2>2, EmptyBytes
<1>6. ASSUME NEW u \in JvmThreads, ReadHooks(u) \/ RunHook(u),
             UNCHANGED <<agent, earlier, instrumentation, local>>
      PROVE  GivenIsEarlier' /\ KeepsEarlierBytes'
  BY <1>2, <1>6, ReadBytes, RunHookBytes
<1>7. ASSUME NEW s \in Sessions, AgentMain(s)
      PROVE  GivenIsEarlier' /\ KeepsEarlierBytes'
  <2> USE DEF AgentStep
  <2>0. GoesOn(s) => \A t \in Sessions : Began(t)' => Began(t)
    BY DEF GoesOn, Began, TypeOK
  <2>1. CASE Retransform(s)
    <3>1. GoesOn(s)
      BY <2>1 DEF Retransform, GoesOn
    <3> QED
      BY <1>1, <1>4, <2>0, <2>1, <3>1 DEF Retransform
  <2>2. CASE Transform(s)
    <3>1. UNCHANGED agent
      BY <2>2 DEF Transform, TypeOK
    <3> QED
      BY <1>1, <1>6, <2>2, <3>1 DEF Transform
  <2>3. CASE RetransformThrows(s) \/ InstallAgent(s)
    <3>1. GoesOn(s)
      BY <2>3 DEF RetransformThrows, InstallAgent, GoesOn
    <3> QED
      BY <1>1, <1>5, <2>0, <2>3, <3>1 DEF RetransformThrows, InstallAgent, Install
  <2>4. CASE ~ Retransform(s) /\ ~ Transform(s) /\ ~ RetransformThrows(s) /\ ~ InstallAgent(s)
    <3>1. UNCHANGED <<ahead, hooks, compiled, saved>>
      BY <1>7, <2>4 DEF AgentMain, SetEnterClazzName, SetEnterMethod, SetHttpPort, CheckHttpConnection,
        StartHeartBeat, AgentThrows, ReadHierarchy, SetTimeCostTransformer, SetInstrument, SetTransClassSet,
        AddTransformer, jvmVars
    <3> QED
      BY <1>3, <3>1
  <2> QED
    BY <2>1, <2>2, <2>3, <2>4
<1>8. ASSUME NEW s \in Sessions, HttpClientThread(s)
      PROVE  GivenIsEarlier' /\ KeepsEarlierBytes'
  <2>0. UNCHANGED <<agent, earlier>> /\ \A t \in Sessions : Began(t)' => Began(t)
    BY <1>8, HeartBeatKeeps DEF Began
  <2>1. CASE Reset(s)
    BY <1>1, <1>4, <2>0, <2>1 DEF Reset
  <2>2. CASE TransformBack(s)
    BY <1>1, <1>6, <2>0, <2>2 DEF TransformBack
  <2>3. CASE InstallReset(s)
    BY <1>1, <1>5, <2>0, <2>3 DEF InstallReset, Install
  <2>4. CASE ~ Reset(s) /\ ~ TransformBack(s) /\ ~ InstallReset(s)
    <3>1. UNCHANGED <<ahead, hooks, compiled, saved>>
      BY <1>8, <2>4 DEF HttpClientThread, UndoInstrumentation, CheckBootExit, GetInstrument,
        GetTimeCostTransformer, RemoveTransformer, AddReset, RemoveReset, StopRecording, jvmVars
    <3> QED
      BY <1>3, <3>1
  <2> QED
    BY <2>1, <2>2, <2>3, <2>4
<1> QED
  BY <1>3, <1>7, <1>8, BootKeeps DEF Next, Terminated, vars, jvmVars

(***************************************************************************)
(* The invariant of overlapping sessions: whose transformers stand in the  *)
(* list of which Instrumentation, in which order, and whose code they are  *)
(* given (AgentMain 44-48, HttpClientThread 51-61).                        *)
(***************************************************************************)
THEOREM OverlapInvariance == Spec => []OverlapInv
<1>1. Init => OverlapInv
  <2> SUFFICES ASSUME Init
               PROVE  OverlapInv
    OBVIOUS
  <2>1. /\ \A s \in Sessions : agent[s] = "none" /\ hb[s] = "off" /\ earlier[s] = {}
        /\ \A s \in Sessions : instrumentation[s] = None /\ local[s] = None
        /\ config.inst = None /\ config.tct = None
        /\ \A s \in Sessions : \A c \in Classes : saved[s][c] = None
        /\ \A u \in JvmThreads : \A c \in Classes : compiled[u][c] = None
    BY DEF Init
  <2>2. MainsInOrder /\ ConfigIsWritten /\ ReadInTurn
    BY <2>1 DEF MainsInOrder, ConfigIsWritten, ReadInTurn, Began
  <2>3. CodeIsOfBegun /\ KeepsEarlierBytes
    BY <2>1, SessionsAssumption DEF CodeIsOfBegun, KeepsEarlierBytes, UpTo
  <2>4. (\A s \in Sessions : Len(transformers[s]) = 0) /\ \A u \in JvmThreads : hooks[u] = <<>>
    BY EmptySeq DEF Init, Nothing
  <2>5. GivenIsEarlier
    BY <2>1 DEF GivenIsEarlier
  <2> QED
    BY <2>2, <2>3, <2>4, <2>5, TypeInit DEF OverlapInv, InPlace, ComesInOrder
<1>2. OverlapInv /\ [Next]_vars => OverlapInv'
  <2> SUFFICES ASSUME OverlapInv, [Next]_vars
               PROVE  OverlapInv'
    OBVIOUS
  <2>1. TypeOK /\ MainsInOrder /\ ConfigIsWritten /\ ReadInTurn /\ CodeIsOfBegun /\ ListsPlaced /\ ComesInOrder
    BY DEF OverlapInv, ListsPlaced
  <2>2. TypeOK' /\ MainsInOrder' /\ ConfigIsWritten' /\ ReadInTurn'
    BY <2>1, TypeStep, MainsStep, ConfigStep, ReadStep
  <2>3. ListsPlaced' /\ ComesInOrder' /\ CodeIsOfBegun'
    BY <2>1, PlaceStep, CodeStep
  <2>4. GivenIsEarlier' /\ KeepsEarlierBytes'
    BY BytesStep
  <2> QED
    BY <2>2, <2>3, <2>4 DEF OverlapInv, ListsPlaced
<1> QED
  BY <1>1, <1>2, PTL DEF Spec

(***************************************************************************)
(* However many sessions overlap, on whatever ports, the bytes that a      *)
(* session's transformer and those before it keep are original or those of *)
(* an earlier session, as long as no cleanup with an Instrumentation from  *)
(* before it has the transformer of a session after it.                    *)
(***************************************************************************)
THEOREM BytesKeptAreEarlier == Spec => []KeepsEarlierBytes
<1>1. OverlapInv => KeepsEarlierBytes
  BY DEF OverlapInv
<1> QED
  BY <1>1, OverlapInvariance, PTL
=============================================================================
