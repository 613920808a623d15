--------------------------- MODULE AgentLifecycle ---------------------------
(***************************************************************************)
(* How the agent gets into the target JVM and out of it again.             *)
(*                                                                         *)
(* A session is one run of the Boot program: it serves HTTP on its port,   *)
(* has the target JVM run agentmain, and lives until the user ends it.     *)
(* agentmain runs on the target's one attach-listener thread; before it    *)
(* looks for the methods to instrument it starts a daemon thread that      *)
(* polls the Boot's port and undoes the instrumentation once nobody        *)
(* answers.  The two share the GlobalConfig singleton, which has no lock;  *)
(* a later session overwrites the configuration of an earlier one.         *)
(*                                                                         *)
(* The JVM gives each agentmain an Instrumentation of its own, with its    *)
(* own list of class-file transformers.  A heartbeat thread uses the one   *)
(* it finds in GlobalConfig, which may be that of another session.         *)
(*                                                                         *)
(* A class runs either its original code or the code a session's           *)
(* TimeCostTransformer gave it.  Reads and writes of GlobalConfig are      *)
(* taken to be sequentially consistent.                                    *)
(***************************************************************************)
EXTENDS FiniteSets, SequencesExt

CONSTANTS
  Sessions,           \* the runs of the Boot program
  Ports, PortOf,      \* the HTTP port given to each with -p
  Classes,            \* the loaded classes of the target
  CoreClasses,        \* those named java* or com/sun*: never rewritten
  Unwritable,         \* those ByteBuddy fails on: transform catches, returns null
  Patient,            \* does the user wait for the last session to be over?
  KillsDuringAttach,  \* may the user end a Boot that is still attaching?
  Listener,           \* the attach-listener thread
  Orig,               \* the code a class was loaded with
  None                \* null

ASSUME SessionsAssumption ==
  /\ PortOf \in [Sessions -> Ports]
  /\ CoreClasses \subseteq Classes /\ Unwritable \subseteq Classes
  /\ Patient \in BOOLEAN /\ KillsDuringAttach \in BOOLEAN
  /\ None \notin Sessions \cup Ports \cup {Orig}
  /\ Orig \notin Sessions /\ Listener \notin Sessions

VARIABLES
  boot,          \* session -> the Boot process
  agent,         \* session -> where its agentmain is
  earlier,       \* session -> those whose agentmain began before its own
  hb,            \* session -> where the heartbeat thread it started is
  instrumentation,  \* session -> whose Instrumentation that thread has read
  local,         \* session -> whose transformer that thread has read
  config,        \* GlobalConfig: each field by the session that wrote it
  targets,       \* session -> the classes it instruments (its finalClassSet)
  transformers,  \* session -> those added to its Instrumentation, in order
  saved,         \* session -> class -> bytes in its originalClassBytesMap
  ahead,         \* thread in retransformClasses -> whose lists it has not come to
  hooks,         \* that thread -> those still to run of the list it has come to
  compiled,      \* that thread -> class -> its code so far
  code           \* class -> the code it runs

jvmVars == <<transformers, saved, ahead, hooks, compiled, code>>
vars == <<boot, agent, earlier, hb, instrumentation, local, config, targets, jvmVars>>

Code == Sessions \cup {Orig}
JvmThreads == Sessions \cup {Listener}
Transformer == [kind : {"time", "reset"}, of : Sessions, by : JvmThreads]

TimeTransformer(s) == [kind |-> "time", of |-> s, by |-> Listener]
ResetTransformer_OfNone(s, t) == [kind |-> "reset", of |-> None, by |-> s]
ResetTransformer(s, t) == [kind |-> "reset", of |-> t, by |-> s]

Nothing == [s \in Sessions |-> <<>>]
Only(s, list) == [Nothing EXCEPT ![s] = list]

Init ==
  /\ boot = [s \in Sessions |-> "off"]
  /\ agent = [s \in Sessions |-> "none"]
  /\ earlier = [s \in Sessions |-> {}]
  /\ hb = [s \in Sessions |-> "off"]
  /\ instrumentation = [s \in Sessions |-> None]
  /\ local = [s \in Sessions |-> None]
  /\ config = [clazz |-> None, method |-> None, port |-> None,
                tct |-> None, inst |-> None, classSet |-> None]
  /\ targets = [s \in Sessions |-> {}]
  /\ transformers = Nothing
  /\ saved = [s \in Sessions |-> [c \in Classes |-> None]]
  /\ ahead = [u \in JvmThreads |-> {}]
  /\ hooks = [u \in JvmThreads |-> <<>>]
  /\ compiled = [u \in JvmThreads |-> [c \in Classes |-> None]]
  /\ code = [c \in Classes |-> Orig]

-----------------------------------------------------------------------------
(***************************************************************************)
(* The transformers of the JVM and its retransformClasses: the classes go  *)
(* from their original bytes through every transformer; when all have run, *)
(* the results are installed together.  They go environment by             *)
(* environment: an Instrumentation has one for its transformers, made when *)
(* the first of them is added, so the environments are in the order in     *)
(* which the sessions were loaded.  The list of each is read when the      *)
(* classes come to it.                                                     *)
(***************************************************************************)
Began(s) == agent[s] # "none"

\* Removing a transformer that is not in the list does nothing.
Without(list, x) ==
  IF x \in ToSet(list)
  THEN RemoveAt(list, CHOOSE k \in DOMAIN list : list[k] = x)
  ELSE list

\* The bytes TimeCostTransformer keeps are the ones it was given.
SavedBytes_Rewritten(before, after) == after
SavedBytes(before, after) == before

Rewritten(s) == targets[s] \ (CoreClasses \cup Unwritable)

BeginRetransform(thread, set) ==
  /\ ahead' = [ahead EXCEPT ![thread] = Sessions]
  /\ compiled' = [compiled EXCEPT ![thread] =
       [c \in Classes |-> IF c \in set THEN Orig ELSE None]]
  /\ hooks' = [hooks EXCEPT ![thread] = <<>>]
  /\ UNCHANGED saved

TransformTimed(thread, s) ==
  LET given(c) == compiled[thread][c] # None /\ c \in Rewritten(s)
  IN /\ compiled' = [compiled EXCEPT ![thread] =
          [c \in Classes |-> IF given(c) THEN s ELSE @[c]]]
     /\ saved' = [saved EXCEPT ![s] =
          [c \in Classes |-> IF given(c) THEN SavedBytes(compiled[thread][c], s) ELSE @[c]]]

TransformReset(thread, t) ==
  LET given(c) == compiled[thread][c] # None /\ saved[t][c] # None
  IN /\ compiled' = [compiled EXCEPT ![thread] =
          [c \in Classes |-> IF given(c) THEN saved[t][c] ELSE @[c]]]
     /\ UNCHANGED saved

ReadHooks(thread) ==
  /\ hooks[thread] = <<>>
  /\ \E s \in ahead[thread] :
       /\ Began(s) /\ earlier[s] \cap ahead[thread] = {}
       /\ ahead' = [ahead EXCEPT ![thread] = @ \ {s}]
       /\ hooks' = [hooks EXCEPT ![thread] = transformers[s]]
  /\ UNCHANGED <<saved, compiled>>

RunHook(thread) ==
  /\ hooks[thread] # <<>>
  /\ hooks' = [hooks EXCEPT ![thread] = Tail(@)]
  /\ LET x == Head(hooks[thread])
     IN IF x.kind = "time" THEN TransformTimed(thread, x.of) ELSE TransformReset(thread, x.of)
  /\ UNCHANGED ahead

AllHaveRun(thread) ==
  hooks[thread] = <<>> /\ \A s \in ahead[thread] : ~Began(s)

Install(thread) ==
  /\ AllHaveRun(thread)
  /\ code' = [c \in Classes |->
       IF compiled[thread][c] = None THEN code[c] ELSE compiled[thread][c]]
  /\ compiled' = [compiled EXCEPT ![thread] = [c \in Classes |-> None]]
  /\ ahead' = [ahead EXCEPT ![thread] = {}]
  /\ UNCHANGED <<saved, hooks>>

-----------------------------------------------------------------------------
(***************************************************************************)
(* The Boot process.                                                       *)
(***************************************************************************)
Alive(s) == boot[s] \in {"attaching", "attached"}
Answers(port) == \E s \in Sessions : Alive(s) /\ PortOf[s] = port
NoBootAlive == \A s \in Sessions : ~Alive(s)

AgentIdle == \A s \in Sessions : agent[s] \in {"none", "returned", "refused", "threw"}
NothingRuns == AgentIdle /\ NoBootAlive /\ \A s \in Sessions : hb[s] \in {"off", "ended"}

BootStep(s, from, to) ==
  /\ boot[s] = from
  /\ boot' = [boot EXCEPT ![s] = to]
  /\ UNCHANGED <<agent, earlier, hb, instrumentation, local, config, targets, jvmVars>>

\* A port that is taken ends the program before it has attached.
StartBoot(s) ==
  /\ ~Answers(PortOf[s])
  /\ Patient => NothingRuns
  /\ BootStep(s, "off", "attaching")

AttachReturns(s) ==
  /\ agent[s] \in {"returned", "refused"}
  /\ BootStep(s, "attaching", "attached")

\* loadAgent throws what agentmain threw; the Boot prints it and exits.
AttachFails(s) ==
  /\ agent[s] = "threw"
  /\ BootStep(s, "attaching", "exited")

\* Ctrl-C, a crash, or the heartbeat handler's System.exit.
EndBoot(s) ==
  \/ BootStep(s, "attached", "exited")
  \/ KillsDuringAttach /\ BootStep(s, "attaching", "exited")

-----------------------------------------------------------------------------
(***************************************************************************)
(* agentmain, on the attach-listener thread.                               *)
(***************************************************************************)
AgentStep(s, from, to) ==
  /\ agent[s] = from
  /\ agent' = [agent EXCEPT ![s] = to]
  /\ UNCHANGED <<boot, instrumentation, local>>

SetEnterClazzName(s) ==
  /\ boot[s] = "attaching"
  /\ AgentIdle
  /\ AgentStep(s, "none", "clazz")
  /\ earlier' = [earlier EXCEPT ![s] = {t \in Sessions : agent[t] # "none"}]
  /\ config' = [config EXCEPT !.clazz = s]
  /\ UNCHANGED <<hb, targets, jvmVars>>

SetEnterMethod(s) ==
  /\ AgentStep(s, "clazz", "method")
  /\ config' = [config EXCEPT !.method = s]
  /\ UNCHANGED <<earlier, hb, targets, jvmVars>>

SetHttpPort(s) ==
  /\ AgentStep(s, "method", "configured")
  /\ config' = [config EXCEPT !.port = PortOf[s]]
  /\ UNCHANGED <<earlier, hb, targets, jvmVars>>

\* With nobody on the port agentmain returns as if all were well.
CheckHttpConnection(s) ==
  /\ AgentStep(s, "configured", IF Answers(config.port) THEN "connected" ELSE "refused")
  /\ UNCHANGED <<earlier, hb, config, targets, jvmVars>>

StartHeartBeat(s) ==
  /\ AgentStep(s, "connected", "watched")
  /\ hb' = [hb EXCEPT ![s] = "beating"]
  /\ UNCHANGED <<earlier, config, targets, jvmVars>>

\* The enter class is not loaded, or a class of the hierarchy is not found.
AgentThrows(s) ==
  /\ \/ AgentStep(s, "connected", "threw")
     \/ AgentStep(s, "watched", "threw")
  /\ UNCHANGED <<earlier, hb, config, targets, jvmVars>>

ReadHierarchy(s) ==
  /\ AgentStep(s, "watched", "read")
  /\ \E set \in SUBSET Classes \ {{}} : targets' = [targets EXCEPT ![s] = set]
  /\ UNCHANGED <<earlier, hb, config, jvmVars>>

SetTimeCostTransformer(s) ==
  /\ AgentStep(s, "read", "tct")
  /\ config' = [config EXCEPT !.tct = s]
  /\ UNCHANGED <<earlier, hb, targets, jvmVars>>

SetInstrument(s) ==
  /\ AgentStep(s, "tct", "inst")
  /\ config' = [config EXCEPT !.inst = s]
  /\ UNCHANGED <<earlier, hb, targets, jvmVars>>

SetTransClassSet(s) ==
  /\ AgentStep(s, "inst", "classSet")
  /\ config' = [config EXCEPT !.classSet = s]
  /\ UNCHANGED <<earlier, hb, targets, jvmVars>>

AddTransformer(s) ==
  /\ AgentStep(s, "classSet", "added")
  /\ transformers' = [transformers EXCEPT ![s] = Append(@, TimeTransformer(s))]
  /\ UNCHANGED <<earlier, hb, config, targets, saved, ahead, hooks, compiled, code>>

Retransform(s) ==
  /\ AgentStep(s, "added", "hooking")
  /\ BeginRetransform(Listener, targets[s])
  /\ UNCHANGED <<earlier, hb, config, targets, transformers, code>>

Transform(s) ==
  /\ AgentStep(s, "hooking", "hooking")
  /\ ReadHooks(Listener) \/ RunHook(Listener)
  /\ UNCHANGED <<earlier, hb, config, targets, transformers, code>>

\* The JVM rejects a rewritten class: nothing is installed.
RetransformThrows(s) ==
  /\ AgentStep(s, "hooking", "threw")
  /\ AllHaveRun(Listener)
  /\ compiled' = [compiled EXCEPT ![Listener] = [c \in Classes |-> None]]
  /\ ahead' = [ahead EXCEPT ![Listener] = {}]
  /\ UNCHANGED <<earlier, hb, config, targets, transformers, saved, hooks, code>>

InstallAgent(s) ==
  /\ AgentStep(s, "hooking", "returned")
  /\ Install(Listener)
  /\ UNCHANGED <<earlier, hb, config, targets, transformers>>

-----------------------------------------------------------------------------
(***************************************************************************)
(* The heartbeat thread.  A poll that is answered changes nothing here; it *)
(* asks whatever port GlobalConfig holds at that moment.                   *)
(***************************************************************************)
HeartBeatStep(s, from, to) ==
  /\ hb[s] = from
  /\ hb' = [hb EXCEPT ![s] = to]
  /\ UNCHANGED <<boot, agent, earlier, config, targets>>

BootGone_OnAnyReply(port) == port # None
BootGone(port) == ~Answers(port)

CheckBootExit(s) ==
  /\ BootGone(config.port)
  /\ HeartBeatStep(s, "beating", "noticed")
  /\ UNCHANGED <<instrumentation, local, jvmVars>>

GetInstrument(s) ==
  /\ HeartBeatStep(s, "noticed", IF config.inst = None THEN "ended" ELSE "removing")
  /\ instrumentation' = [instrumentation EXCEPT ![s] = config.inst]
  /\ UNCHANGED <<local, jvmVars>>

GetTimeCostTransformer(s) ==
  /\ HeartBeatStep(s, "removing", "read")
  /\ local' = [local EXCEPT ![s] = config.tct]
  /\ UNCHANGED <<instrumentation, jvmVars>>

RemoveTransformer(s) ==
  /\ HeartBeatStep(s, "read", "removed")
  /\ transformers' = [transformers EXCEPT ![instrumentation[s]] =
       Without(@, TimeTransformer(local[s]))]
  /\ UNCHANGED <<instrumentation, local, saved, ahead, hooks, compiled, code>>

AddReset(s) ==
  /\ HeartBeatStep(s, "removed", IF config.classSet = None THEN "ended" ELSE "resetting")
  /\ transformers' = IF config.classSet = None THEN transformers
                     ELSE [transformers EXCEPT ![instrumentation[s]] =
                            Append(@, ResetTransformer(s, local[s]))]
  /\ UNCHANGED <<instrumentation, local, saved, ahead, hooks, compiled, code>>

Reset(s) ==
  /\ HeartBeatStep(s, "resetting", "hooking")
  /\ BeginRetransform(s, targets[config.classSet])
  /\ UNCHANGED <<instrumentation, local, transformers, code>>

TransformBack(s) ==
  /\ HeartBeatStep(s, "hooking", "hooking")
  /\ ReadHooks(s) \/ RunHook(s)
  /\ UNCHANGED <<instrumentation, local, transformers, code>>

InstallReset(s) ==
  /\ HeartBeatStep(s, "hooking", "installed")
  /\ Install(s)
  /\ UNCHANGED <<instrumentation, local, transformers>>

WithoutReset_Forgotten(s) == transformers
WithoutReset(s) ==
  [transformers EXCEPT ![instrumentation[s]] = Without(@, ResetTransformer(s, local[s]))]

RemoveReset(s) ==
  /\ HeartBeatStep(s, "installed", "unregistered")
  /\ transformers' = WithoutReset(s)
  /\ UNCHANGED <<instrumentation, local, saved, ahead, hooks, compiled, code>>

\* canRecord(false): the recorder is not part of this module.
StopRecording(s) ==
  /\ HeartBeatStep(s, "unregistered", "ended")
  /\ UNCHANGED <<instrumentation, local, jvmVars>>

-----------------------------------------------------------------------------
AgentMain(s) ==
  \/ SetEnterClazzName(s)
  \/ SetEnterMethod(s)
  \/ SetHttpPort(s)
  \/ CheckHttpConnection(s)
  \/ StartHeartBeat(s)
  \/ AgentThrows(s)
  \/ ReadHierarchy(s)
  \/ SetTimeCostTransformer(s)
  \/ SetInstrument(s)
  \/ SetTransClassSet(s)
  \/ AddTransformer(s)
  \/ Retransform(s)
  \/ Transform(s)
  \/ RetransformThrows(s)
  \/ InstallAgent(s)

UndoInstrumentation(s) ==
  \/ CheckBootExit(s)
  \/ GetInstrument(s)
  \/ GetTimeCostTransformer(s)
  \/ RemoveTransformer(s)
  \/ AddReset(s)
  \/ Reset(s)
  \/ TransformBack(s)
  \/ InstallReset(s)
  \/ RemoveReset(s)

HttpClientThread(s) == UndoInstrumentation(s) \/ StopRecording(s)

LoadAgent(s) == AttachReturns(s) \/ AttachFails(s)

\* Every session is over.
Terminated ==
  /\ NothingRuns
  /\ \A s \in Sessions : boot[s] # "off"
  /\ UNCHANGED vars

Next ==
  \/ \E s \in Sessions :
       StartBoot(s) \/ LoadAgent(s) \/ EndBoot(s) \/ AgentMain(s) \/ HttpClientThread(s)
  \/ Terminated

Spec == Init /\ [][Next]_vars

(***************************************************************************)
(* Both JVMs run their threads: agentmain, the heartbeat thread, and the   *)
(* Boot's return from loadAgent.  The user need never start or end a Boot. *)
(***************************************************************************)
FairSpec ==
  /\ Spec
  /\ \A s \in Sessions :
       WF_vars(AgentMain(s)) /\ WF_vars(HttpClientThread(s)) /\ WF_vars(LoadAgent(s))

-----------------------------------------------------------------------------
\* The type invariant.
TypeOK ==
  /\ boot \in [Sessions -> {"off", "attaching", "attached", "exited"}]
  /\ agent \in [Sessions ->
       {"none", "clazz", "method", "configured", "connected", "refused", "watched", "read",
        "tct", "inst", "classSet", "added", "hooking", "returned", "threw"}]
  /\ earlier \in [Sessions -> SUBSET Sessions]
  /\ hb \in [Sessions ->
       {"off", "beating", "noticed", "removing", "read", "removed", "resetting", "hooking",
        "installed", "unregistered", "ended"}]
  /\ instrumentation \in [Sessions -> Sessions \cup {None}]
  /\ local \in [Sessions -> Sessions \cup {None}]
  /\ config \in [clazz : Sessions \cup {None}, method : Sessions \cup {None},
                 port : Ports \cup {None}, tct : Sessions \cup {None},
                 inst : Sessions \cup {None}, classSet : Sessions \cup {None}]
  /\ targets \in [Sessions -> SUBSET Classes]
  /\ transformers \in [Sessions -> Seq(Transformer)]
  /\ saved \in [Sessions -> [Classes -> Code \cup {None}]]
  /\ ahead \in [JvmThreads -> SUBSET Sessions]
  /\ hooks \in [JvmThreads -> Seq(Transformer)]
  /\ compiled \in [JvmThreads -> [Classes -> Code \cup {None}]]
  /\ code \in [Classes -> Code]

(***************************************************************************)
(* While a Boot whose attach succeeded lives, its classes run the code of  *)
(* its own session, but for those that transform declines: no heartbeat    *)
(* thread, of this session or an earlier one, takes it away under it.      *)
(***************************************************************************)
AttachedIsInstrumented ==
  \A s \in Sessions :
    boot[s] = "attached" /\ agent[s] = "returned" =>
      /\ \A c \in Rewritten(s) : code[c] = s
      /\ TimeTransformer(s) \in ToSet(transformers[s])

(***************************************************************************)
(* However sessions overlap, the bytes that the transformers of a session  *)
(* and of those before it keep for a class are the original ones or an     *)
(* earlier session's, never what it made of that class itself nor what a   *)
(* later one did: its cleanup puts back something that was there before    *)
(* it.  There is one exception: a cleanup that has read the                *)
(* Instrumentation of a session before it and then the transformer of one  *)
(* after it has its reset run ahead of its own transformer.                *)
(***************************************************************************)
Straddled(s) ==
  \E h, t \in Sessions :
    instrumentation[h] \in earlier[s] /\ local[h] = t /\ s \in earlier[t]

UpTo(s) == earlier[s] \cup {s}

KeepsEarlierBytes ==
  \A s \in Sessions : ~Straddled(s) =>
    \A t \in UpTo(s) : \A c \in Classes : saved[t][c] \in {None, Orig} \cup earlier[s]

(***************************************************************************)
(* The inductive invariant that KeepsEarlierBytes rests on, for sessions   *)
(* that overlap in any way, in named parts.                                *)
(***************************************************************************)
HasAdded(s) == agent[s] \in {"added", "hooking", "returned", "threw"}

\* One agentmain runs after the other, and the one that runs is the latest.
MainsInOrder ==
  \A s \in Sessions :
    /\ s \notin earlier[s]
    /\ Began(s) \/ earlier[s] = {}
    /\ \A t \in earlier[s] : Began(t) /\ earlier[t] \subseteq earlier[s]
    /\ \A t \in Sessions \ {s} : Began(s) /\ Began(t) => t \in earlier[s] \/ s \in earlier[t]
    /\ agent[s] \notin {"none", "returned", "refused", "threw"} =>
         \A t \in Sessions \ {s} : Began(t) => t \in earlier[s]

\* What a cleanup reads was written by an agentmain: nothing it uses is null.
ConfigIsWritten ==
  /\ config.inst # None => config.tct # None /\ Began(config.inst)
  /\ config.tct # None => Began(config.tct)
  /\ \A s \in Sessions :
       /\ agent[s] = "tct" => config.tct # None
       /\ hb[s] = "removing" => config.inst # None
       /\ hb[s] \in {"removing", "read", "removed", "resetting", "hooking", "installed", "unregistered"}
            => instrumentation[s] # None
       /\ hb[s] \in {"read", "removed", "resetting", "hooking", "installed", "unregistered"}
            => local[s] # None
       /\ hb[s] = "resetting" => config.classSet # None
       /\ instrumentation[s] # None => Began(instrumentation[s])
       /\ local[s] # None => Began(local[s])

\* A heartbeat thread runs once, and reads each of the two once.
ReadInTurn ==
  \A s \in Sessions :
    /\ agent[s] \in {"none", "clazz", "method", "configured", "connected", "refused"}
         => hb[s] = "off"
    /\ hb[s] \in {"off", "beating", "noticed"} => instrumentation[s] = None
    /\ hb[s] \in {"off", "beating", "noticed", "removing"} => local[s] = None

\* In the list of a session's Instrumentation stand the resets of those that
\* have read it and, at most once, its own transformer; ahead of that only
\* resets of its own and of earlier sessions.
InPlace(list, s) ==
  \A k \in 1..Len(list) :
    /\ list[k].kind = "time" =>
         /\ list[k].of = s /\ HasAdded(s)
         /\ \A j \in 1..(k - 1) : list[j].kind = "reset" /\ list[j].of \in UpTo(s)
    /\ list[k].kind = "reset" =>
         /\ list[k].by \in Sessions
         /\ instrumentation[list[k].by] = s /\ local[list[k].by] = list[k].of

\* Nobody holds code of a session that has not begun.
CodeIsOfBegun ==
  \A s \in Sessions : ~Began(s) =>
    \A c \in Classes :
      (\A t \in Sessions : saved[t][c] # s) /\ (\A u \in JvmThreads : compiled[u][c] # s)

\* A retransformation has come to a list when it is through with all before it.
ComesInOrder ==
  \A u \in JvmThreads : hooks[u] # <<>> =>
    \E s \in Sessions :
      Began(s) /\ InPlace(hooks[u], s) /\ ahead[u] \cap UpTo(s) = {}

\* What a session's TimeCostTransformer, or an earlier one's, will be given is
\* original or an earlier session's.
StillToRun(u, s) ==
  \/ Began(s) /\ s \in ahead[u]
  \/ \E k \in 1..Len(hooks[u]) : hooks[u][k].kind = "time" /\ hooks[u][k].of = s

GivenIsEarlier ==
  \A s \in Sessions : ~Straddled(s) =>
    \A u \in JvmThreads : \A t \in UpTo(s) : StillToRun(u, t) =>
      \A c \in Classes : compiled[u][c] \in {None, Orig} \cup earlier[s]

OverlapInv ==
  /\ TypeOK
  /\ MainsInOrder
  /\ ConfigIsWritten
  /\ ReadInTurn
  /\ \A s \in Sessions : InPlace(transformers[s], s)
  /\ ComesInOrder
  /\ CodeIsOfBegun
  /\ GivenIsEarlier
  /\ KeepsEarlierBytes

(***************************************************************************)
(* The inductive invariant that AttachedIsInstrumented rests on, for a     *)
(* user who starts a session when the last one is over.                    *)
(***************************************************************************)
Busy(s) ==
  \/ Alive(s)
  \/ agent[s] \notin {"none", "returned", "refused", "threw"}
  \/ hb[s] \notin {"off", "ended"}

OneAtATime ==
  /\ \A s, t \in Sessions : Busy(s) /\ Busy(t) => s = t
  /\ \A s \in Sessions :
       /\ boot[s] = "off" => agent[s] = "none"
       /\ boot[s] = "attached" => agent[s] \in {"returned", "refused"}
       /\ agent[s] \in {"none", "clazz", "method", "configured", "connected", "refused"}
            => hb[s] = "off"

\* The heartbeat thread of a living Boot asks that Boot, and goes no further.
AsksItsBoot ==
  \A s \in Sessions : Alive(s) =>
    /\ hb[s] \in {"off", "beating"}
    /\ agent[s] \notin {"none", "clazz", "method"} => config.port = PortOf[s]

\* Its own transformer is the last one its classes go through: the last of its
\* Instrumentation, whose session no other has followed.
OwnIsLast ==
  \A s \in Sessions : Alive(s) =>
    /\ agent[s] = "added" =>
         transformers[s] # <<>> /\ Last(transformers[s]) = TimeTransformer(s)
    /\ agent[s] = "hooking" =>
         /\ transformers[s] # <<>> /\ Last(transformers[s]) = TimeTransformer(s)
         /\ \A c \in targets[s] : compiled[Listener][c] # None
         /\ \/ s \in ahead[Listener]
            \/ /\ \A t \in ahead[Listener] : ~Began(t)
               /\ \/ hooks[Listener] # <<>> /\ Last(hooks[Listener]) = TimeTransformer(s)
                  \/ hooks[Listener] = <<>> /\ \A c \in Rewritten(s) : compiled[Listener][c] = s
    /\ agent[s] = "returned" =>
         /\ TimeTransformer(s) \in ToSet(transformers[s])
         /\ \A c \in Rewritten(s) : code[c] = s

PatientInv == OneAtATime /\ AsksItsBoot /\ OwnIsLast

\* No class is instrumented and none of the agent's transformers is registered.
Clean ==
  /\ \A c \in Classes : code[c] = Orig
  /\ transformers = Nothing

(***************************************************************************)
(* The README's promise: when the Boot process ends, the agent's work in   *)
(* the target JVM stops and is cleaned up.                                 *)
(***************************************************************************)
AgentWorkStops == NoBootAlive ~> (Clean \/ ~NoBootAlive)

(***************************************************************************)
(* Sessions of a patient user implement the abstract presence of an agent, *)
(* its liveness included: seen in the Boots and in the classes' code, all  *)
(* the steps of a cleanup or of agentmain but the install are stutters.    *)
(***************************************************************************)
Presence == INSTANCE AgentPresence WITH boot <- boot, code <- code
PresenceSpec == Presence!Spec

(***************************************************************************)
(* What every step implements of it rests on: a list of transformers and   *)
(* code that the one busy session accounts for.                            *)
(***************************************************************************)
CleaningUp == {"read", "removed", "resetting", "hooking", "installed", "unregistered"}

AttachIsLetFinish ==
  \A s \in Sessions :
    agent[s] \notin {"none", "returned", "refused", "threw"} => boot[s] = "attaching"

\* The thread that will undo it runs before there is anything to undo.
WatchedFirst ==
  \A s \in Sessions :
    \/ agent[s] \in {"watched", "read", "tct", "inst", "classSet", "added", "hooking", "returned"}
    \/ TimeTransformer(s) \in ToSet(transformers[s])
    => hb[s] # "off"

\* GlobalConfig is the session's own once its transformer is registered.
ConfigIsOwn(s) == config.tct = s /\ config.inst = s /\ config.classSet = s

AccountsFor(s) ==
  /\ hb[s] \in {"removed", "unregistered"} => transformers = Nothing
  /\ hb[s] \in {"resetting", "hooking", "installed"} =>
       transformers = Only(instrumentation[s], <<ResetTransformer(s, local[s])>>)
  /\ hb[s] \notin CleaningUp \ {"read"} =>
       /\ agent[s] \in {"added", "hooking", "returned"} =>
            transformers = Only(s, <<TimeTransformer(s)>>)
       /\ agent[s] = "threw" => transformers \in {Nothing, Only(s, <<TimeTransformer(s)>>)}
       /\ agent[s] \notin {"added", "hooking", "returned", "threw"} => transformers = Nothing
  /\ TimeTransformer(s) \in ToSet(transformers[s]) => ConfigIsOwn(s)
  /\ agent[s] \in {"tct", "inst", "classSet"} => config.tct = s
  /\ agent[s] \in {"inst", "classSet"} => config.inst = s
  /\ agent[s] = "classSet" => config.classSet = s
  /\ hb[s] \in CleaningUp \cup {"removing"} => instrumentation[s] = config.inst
  /\ hb[s] \in CleaningUp => local[s] = config.tct

OneRegisters ==
  /\ NothingRuns => transformers = Nothing
  /\ \A s \in Sessions : Busy(s) => AccountsFor(s)

OneIsCompiled ==
  /\ \A s \in Sessions : agent[s] = "hooking" =>
       /\ hooks[Listener] \in {<<>>, <<TimeTransformer(s)>>}
       /\ \A c \in Classes : compiled[Listener][c] \in {None, Orig, s}
       /\ \A c \in Classes : compiled[Listener][c] # None => c \in targets[s]
  /\ \A s \in Sessions : hb[s] = "hooking" =>
       /\ hooks[s] \in {<<>>, <<ResetTransformer(s, local[s])>>}
       /\ \A c \in Classes : compiled[s][c] \in {None, Orig}
       /\ \A c \in Classes : code[c] # Orig => compiled[s][c] # None

OneIsSeen ==
  /\ \A s \in Sessions : \A c \in Classes : saved[s][c] \in {None, Orig}
  /\ \A s \in Sessions : \A c \in Classes : code[c] = s =>
       /\ agent[s] = "returned" /\ c \in targets[s] /\ ConfigIsOwn(s)
       /\ hb[s] \in {"beating", "noticed", "removing", "read", "removed", "resetting", "hooking"}

OrderlyInv ==
  /\ AttachIsLetFinish
  /\ WatchedFirst
  /\ OneRegisters
  /\ OneIsCompiled
  /\ OneIsSeen
=============================================================================
