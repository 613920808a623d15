----------------------- MODULE TimeCostManagerProofs -----------------------
(***************************************************************************)
(* Theorems about the recorder, for every set of threads, names and        *)
(* methods and every bound.                                                *)
(***************************************************************************)
EXTENDS TimeCostManager, FiniteSetTheorems, TLAPS

-----------------------------------------------------------------------------
\* Recorder operators return what their types say.
LEMMA EmptyChainType == EmptyChain \in TimeCostChain
  BY DEF EmptyChain, TimeCostChain, TimeCostRecord

LEMMA MergeType ==
  ASSUME NEW chain \in TimeCostChain, NEW c \in Call
  PROVE  MergeIntoChain(chain, c) \in TimeCostChain
  BY DEF MergeIntoChain, Merge, TimeCostChain, TimeCostRecord, Call

\* A chain is never mistaken for the absence of one.
LEMMA ChainIsNotNone ==
  ASSUME NEW chain \in TimeCostChain
  PROVE  chain # NoChain
  BY ChainAssumption

\* An empty chain holds no costs; a merge adds one cost to a chain.
LEMMA EmptyChainCosts == CostsIn(EmptyChain) = {}
  BY DEF CostsIn, EmptyChain

LEMMA MergeCosts ==
  ASSUME NEW chain \in TimeCostChain, NEW c \in Call
  PROVE  CostsIn(MergeIntoChain(chain, c)) = CostsIn(chain) \cup {c}
<1>1. c.method \in Methods
  BY DEF Call
<1>2. \A m \in Methods : MergeIntoChain(chain, c)[m].costs =
        IF m = c.method THEN chain[m].costs \cup {c} ELSE chain[m].costs
  BY <1>1 DEF MergeIntoChain, Merge, TimeCostChain
<1>3. ASSUME NEW x
      PROVE  x \in CostsIn(MergeIntoChain(chain, c)) <=> x \in CostsIn(chain) \cup {c}
  <2>1. x \in CostsIn(MergeIntoChain(chain, c)) <=>
          \E m \in Methods : x \in MergeIntoChain(chain, c)[m].costs
    BY DEF CostsIn
  <2>2. x \in CostsIn(chain) <=> \E m \in Methods : x \in chain[m].costs
    BY DEF CostsIn
  <2> QED
    BY <1>1, <1>2, <2>1, <2>2
<1> QED
  BY <1>3

-----------------------------------------------------------------------------
(***************************************************************************)
(* Type correctness.                                                       *)
(***************************************************************************)
LEMMA TypeInit == Init => TypeOK
<1> SUFFICES ASSUME Init
             PROVE  TypeOK
  OBVIOUS
<1> USE BoundsAssumption
<1>1. /\ costMap \in [Names -> ChainOrNone]
      /\ backup \in [Names -> [Millis -> ChainOrNone]]
  BY DEF Init, ChainOrNone
<1>2. rolls \in [Names -> [Millis -> Nat]]
  BY DEF Init
<1>3. open \in [Threads -> SUBSET Call] /\ made \in [Threads -> 0..MaxCalls]
  BY DEF Init
<1>4. pc \in [Threads -> Where]
  BY DEF Init, Where
<1> QED
  <2>1. canRecord \in BOOLEAN
    BY DEF Init
  <2>2. seq \in Nat /\ now \in Millis /\ stops \in 0..MaxStops
    BY DEF Init, Millis
  <2>3. monitor \in Threads \cup {NoThread} /\ todo \subseteq Names /\ reports \subseteq Report /\ done \subseteq Call
    BY DEF Init
  <2> QED
    BY <1>1, <1>2, <1>3, <1>4, <2>1, <2>2, <2>3 DEF TypeOK

\* A report shows a chain, never the absence of one: the names still to be
\* rolled must have a chain for the types to be kept.
LEMMA TypeStep ==
  ASSUME TypeOK, [Next]_vars, \A n \in todo : costMap[n] # NoChain
  PROVE  TypeOK'
<1> USE BoundsAssumption, ThreadsAssumption
<1>1. ASSUME NEW t \in Threads, NEW m \in Methods, OnEnter(t, m)
      PROVE  TypeOK'
  <2>1. [thread |-> t, index |-> made[t] + 1, method |-> m] \in Call
    BY <1>1 DEF TypeOK, OnEnter, Call
  <2>2. open' \in [Threads -> SUBSET Call] /\ made' \in [Threads -> 0..MaxCalls]
    BY <1>1, <2>1 DEF TypeOK, OnEnter
  <2>3. pc' \in [Threads -> Where]
    BY <1>1 DEF TypeOK, OnEnter, At, Where
  <2> QED
    BY <1>1, <2>2, <2>3 DEF TypeOK, OnEnter, recorderVars
<1>2. ASSUME NEW t \in Threads, Throw(t)
      PROVE  TypeOK'
  BY <1>2 DEF TypeOK, Throw, Innermost, recorderVars
<1>3. ASSUME NEW t \in Threads, OnExit(t)
      PROVE  TypeOK'
  BY <1>3 DEF TypeOK, OnExit, At, Where, recorderVars
<1>4. ASSUME NEW t \in Threads, BumpSeq(t) \/ SetFlag(t)
      PROVE  TypeOK'
  <2>1. canRecord' \in BOOLEAN
    BY <1>4 DEF TypeOK, BumpSeq, SetFlag
  <2>2. seq' \in Nat
    BY <1>4 DEF TypeOK, BumpSeq, SetFlag
  <2>3. pc' \in [Threads -> Where]
    BY <1>4 DEF TypeOK, BumpSeq, SetFlag, At, Where
  <2> QED
    BY <1>4, <2>1, <2>2, <2>3 DEF TypeOK, BumpSeq, SetFlag
<1>5. ASSUME NEW t \in Threads, NEW c \in Innermost(t), LeaveMerge(t, c),
             costMap' \in [Names -> ChainOrNone]
      PROVE  TypeOK'
  BY <1>5 DEF TypeOK, LeaveMerge, Innermost, At, Where
<1>6. ASSUME NEW t \in Threads, MergeRecord(t)
      PROVE  TypeOK'
  <2>1. PICK c \in Innermost(t) :
          /\ LeaveMerge(t, c)
          /\ costMap' = [costMap EXCEPT ![NameOf[t]] =
                           MergeIntoChain(IF @ = NoChain THEN EmptyChain ELSE @, c)]
    BY <1>6 DEF MergeRecord
  <2>2. c \in Call
    BY DEF TypeOK, Innermost
  <2>3. MergeIntoChain(IF costMap[NameOf[t]] = NoChain THEN EmptyChain
                       ELSE costMap[NameOf[t]], c) \in TimeCostChain
    BY <2>2, MergeType, EmptyChainType DEF TypeOK, ChainOrNone
  <2>4. costMap' \in [Names -> ChainOrNone]
    BY <2>1, <2>3 DEF TypeOK, ChainOrNone
  <2> QED
    BY <1>5, <2>1, <2>4
<1>7. ASSUME NEW t \in Threads, DropRecord(t)
      PROVE  TypeOK'
  BY <1>5, <1>7 DEF DropRecord, TypeOK
<1>8. ASSUME NEW t \in Threads, BeginRolling(t)
      PROVE  TypeOK'
  BY <1>8 DEF TypeOK, BeginRolling, RollKeys, At, Where
<1>9. ASSUME NEW t \in Threads, NEW n \in Names, RollChain(t, n)
      PROVE  TypeOK'
  <2>1. todo' \subseteq Names /\ UNCHANGED <<canRecord, seq, monitor, open, made, pc, done, now, stops>>
    BY <1>9 DEF TypeOK, RollChain, threadVars
  <2>2. costMap' \in [Names -> ChainOrNone]
    BY <1>9, EmptyChainType DEF TypeOK, RollChain, NewList, ChainOrNone
  <2>3. backup' \in [Names -> [Millis -> ChainOrNone]]
    BY <1>9 DEF TypeOK, RollChain, BackedUp
  <2>4. rolls' \in [Names -> [Millis -> Nat]]
    BY <1>9 DEF TypeOK, RollChain
  <2>5. reports' \subseteq Report
    <3>1. costMap[n] \in TimeCostChain
      BY <1>9 DEF TypeOK, RollChain, ChainOrNone
    <3> QED
      BY <1>9, <3>1 DEF TypeOK, RollChain, Report
  <2> QED
    BY <2>1, <2>2, <2>3, <2>4, <2>5 DEF TypeOK
<1>10. ASSUME NEW t \in Threads, EndRolling(t)
       PROVE  TypeOK'
  BY <1>10 DEF TypeOK, EndRolling, Release, At, Where, Innermost
<1>11. CASE StopRecording
  <2>1. canRecord' \in BOOLEAN
    BY <1>11 DEF StopRecording
  <2>2. stops' \in 0..MaxStops
    BY <1>11 DEF TypeOK, StopRecording
  <2> QED
    BY <1>11, <2>1, <2>2 DEF TypeOK, StopRecording, threadVars
<1>12. CASE Tick
  BY <1>12 DEF TypeOK, Tick, Millis, recorderVars, threadVars
<1>13. CASE UNCHANGED vars
  BY <1>13 DEF TypeOK, vars, recorderVars, threadVars
<1> QED
  BY <1>1, <1>2, <1>3, <1>4, <1>6, <1>7, <1>8, <1>9, <1>10, <1>11, <1>12, <1>13
     DEF Next, Application, Advice, Quiescent

-----------------------------------------------------------------------------
(***************************************************************************)
(* The inductive invariant: the initial states, then one lemma per part.   *)
(***************************************************************************)
LEMMA NoPendingInit == Init => Pending = {} /\ Reported = {}
  BY DEF Init, Pending, PendingOf, Reported

LEMMA InvInit == Init => Inv
<1> SUFFICES ASSUME Init
             PROVE  Inv
  OBVIOUS
<1>1. TypeOK
  BY TypeInit
<1>2. StackWellFormed /\ DoneOnce
  BY DEF Init, StackWellFormed, DoneOnce
<1>3. MonitorOwned
  BY ThreadsAssumption DEF Init, MonitorOwned
<1>4. WellFiled
  BY NoPendingInit DEF Init, WellFiled
<1>5. ReportedOnce
  BY NoPendingInit DEF Init, ReportedOnce
<1>6. EnterKeepsFlag
  BY DEF Init, EnterKeepsFlag
<1> QED
  BY <1>1, <1>2, <1>3, <1>4, <1>5, <1>6 DEF Inv

\* Entering pushes a call with a fresh index; everything else only pops.
LEMMA StackStep ==
  ASSUME TypeOK, StackWellFormed, [Next]_vars
  PROVE  StackWellFormed'
<1>1. ASSUME NEW t \in Threads, NEW m \in Methods, OnEnter(t, m)
      PROVE  StackWellFormed'
  <2>1. /\ made' = [made EXCEPT ![t] = made[t] + 1]
        /\ open' = [open EXCEPT ![t] =
             open[t] \cup {[thread |-> t, index |-> made[t] + 1, method |-> m]}]
    BY <1>1 DEF OnEnter
  <2>2. \A u \in Threads : made[u] \in Nat /\ made'[u] \in Nat /\ made[u] <= made'[u]
    BY <2>1, BoundsAssumption DEF TypeOK
  <2>3. ASSUME NEW u \in Threads, NEW c \in open'[u]
        PROVE  c.thread = u /\ c.index <= made'[u]
    <3>1. CASE c \in open[u]
      <4>1. c \in Call
        BY <3>1 DEF TypeOK
      <4> QED
        BY <3>1, <4>1, <2>2 DEF StackWellFormed, Call
    <3>2. CASE c \notin open[u]
      <4>1. u = t /\ c = [thread |-> t, index |-> made[t] + 1, method |-> m]
        BY <3>2, <2>1, <2>3 DEF TypeOK
      <4> QED
        BY <4>1, <2>1, <2>2 DEF TypeOK
    <3> QED
      BY <3>1, <3>2
  <2> QED
    BY <2>3 DEF StackWellFormed
<1>2. ASSUME UNCHANGED made, \A t \in Threads : open'[t] \subseteq open[t]
      PROVE  StackWellFormed'
  BY <1>2 DEF StackWellFormed
<1>3. ASSUME NEW t \in Threads, Throw(t) \/ EndRolling(t) \/ MergeRecord(t) \/ DropRecord(t)
      PROVE  UNCHANGED made /\ \A u \in Threads : open'[u] \subseteq open[u]
  BY <1>3 DEF Throw, EndRolling, MergeRecord, DropRecord, LeaveMerge, TypeOK, recorderVars
<1>4. CASE UNCHANGED <<made, open>>
  BY <1>2, <1>4
<1> QED
  BY <1>1, <1>2, <1>3, <1>4
     DEF Next, Application, Advice, OnExit, BumpSeq, SetFlag, BeginRolling, RollChain,
         StopRecording, Tick, Quiescent, vars, threadVars

\* A call passes mergeRecord at most once: it is new when it is entered, and
\* what mergeRecord leaves open is the innermost call of a thread in the roll.
LEMMA DoneStep ==
  ASSUME TypeOK, StackWellFormed, DoneOnce, [Next]_vars
  PROVE  DoneOnce'
<1>1. ASSUME NEW t \in Threads, NEW m \in Methods, OnEnter(t, m)
      PROVE  DoneOnce'
  <2> DEFINE new == [thread |-> t, index |-> made[t] + 1, method |-> m]
  <2>1. /\ made' = [made EXCEPT ![t] = made[t] + 1]
        /\ open' = [open EXCEPT ![t] = open[t] \cup {new}]
        /\ done' = done
        /\ pc[t] = "run"
        /\ \A u \in Threads : u # t => pc'[u] = pc[u]
    BY <1>1 DEF OnEnter, At, TypeOK
  <2>2. \A u \in Threads : made[u] \in Nat /\ made'[u] \in Nat /\ made[u] <= made'[u]
    BY <2>1, BoundsAssumption DEF TypeOK
  <2>3. new \notin done
    <3>1. ASSUME new \in done
          PROVE  made[t] + 1 <= made[t]
      BY <3>1 DEF DoneOnce
    <3> QED
      BY <3>1, <2>2
  <2>4. \A c \in done' : c.index <= made'[c.thread]
    BY <2>1, <2>2 DEF DoneOnce, TypeOK, Call
  <2>5. ASSUME NEW u \in Threads, NEW c \in open'[u], c \in done'
        PROVE  pc'[u] \in {"roll", "rolling"} /\ c \in Innermost(u)'
    <3>1. CASE u = t
      <4>1. c \in open[t]
        BY <2>1, <2>3, <2>5, <3>1 DEF TypeOK
      <4> QED
        BY <4>1, <2>1, <2>5 DEF DoneOnce
    <3>2. CASE u # t
      <4>1. open'[u] = open[u]
        BY <2>1, <3>2 DEF TypeOK
      <4> QED
        BY <4>1, <2>1, <2>5, <3>2 DEF DoneOnce, Innermost
    <3> QED
      BY <3>1, <3>2
  <2> QED
    BY <2>4, <2>5 DEF DoneOnce
<1>2. ASSUME NEW t \in Threads, NEW c \in Innermost(t), LeaveMerge(t, c)
      PROVE  DoneOnce'
  <2>1. c \in open[t] /\ c \in Call
    BY DEF Innermost, TypeOK
  <2>2. done' = done \cup {c} /\ made' = made
    BY <1>2 DEF LeaveMerge
  <2>3. \A d \in done' : d.index <= made'[d.thread]
    BY <2>1, <2>2 DEF DoneOnce, StackWellFormed
  <2>4. ASSUME NEW u \in Threads, u # t
        PROVE  open'[u] = open[u] /\ pc'[u] = pc[u] /\ c \notin open[u]
    BY <1>2, <2>1, <2>4 DEF LeaveMerge, At, TypeOK, StackWellFormed
  <2>5. ASSUME NEW u \in Threads, NEW d \in open'[u], d \in done', u # t
        PROVE  pc'[u] \in {"roll", "rolling"} /\ d \in Innermost(u)'
    BY <2>2, <2>4, <2>5 DEF DoneOnce, Innermost
  <2>6. \A d \in open[t] : d \notin done
    BY <1>2 DEF LeaveMerge, At, DoneOnce
  <2>7. ASSUME NEW d \in open'[t], d \in done'
        PROVE  pc'[t] \in {"roll", "rolling"} /\ d \in Innermost(t)'
    <3>1. CASE c.method \in EnterMethods
      <4>1. open' = open /\ pc'[t] = "roll"
        BY <1>2, <3>1 DEF LeaveMerge, At, TypeOK
      <4>2. d = c
        BY <4>1, <2>2, <2>6, <2>7
      <4> QED
        BY <4>1, <4>2 DEF Innermost
    <3>2. CASE c.method \notin EnterMethods
      BY <1>2, <2>2, <2>6, <2>7, <3>2 DEF LeaveMerge, TypeOK
    <3> QED
      BY <3>1, <3>2
  <2> QED
    BY <2>3, <2>5, <2>7 DEF DoneOnce
<1>3. ASSUME NEW t \in Threads, MergeRecord(t) \/ DropRecord(t)
      PROVE  DoneOnce'
  BY <1>2, <1>3 DEF MergeRecord, DropRecord
<1>4. ASSUME NEW t \in Threads, Throw(t) \/ EndRolling(t)
      PROVE  DoneOnce'
  <2>1. /\ open' = [open EXCEPT ![t] = open[t] \ Innermost(t)]
        /\ done' = done /\ made' = made
        /\ \A u \in Threads : u # t => pc'[u] = pc[u]
    BY <1>4 DEF Throw, EndRolling, At, TypeOK, recorderVars
  <2>2. \A d \in open'[t] : d \notin done
    BY <2>1 DEF DoneOnce, TypeOK
  <2>3. \A u \in Threads : u # t => open'[u] = open[u]
    BY <2>1 DEF TypeOK
  <2> QED
    BY <2>1, <2>2, <2>3 DEF DoneOnce, Innermost
<1>5. ASSUME NEW t \in Threads, UNCHANGED <<open, made, done>>,
             \A u \in Threads : u # t => pc'[u] = pc[u],
             pc[t] \in {"roll", "rolling"} => pc'[t] \in {"roll", "rolling"}
      PROVE  DoneOnce'
  BY <1>5 DEF DoneOnce, Innermost
<1>6. ASSUME NEW t \in Threads,
             OnExit(t) \/ BumpSeq(t) \/ SetFlag(t) \/ BeginRolling(t)
      PROVE  DoneOnce'
  <2>1. UNCHANGED <<open, made, done>> /\ \A u \in Threads : u # t => pc'[u] = pc[u]
    BY <1>6 DEF OnExit, BumpSeq, SetFlag, BeginRolling, At, TypeOK
  <2>2. pc[t] \in {"roll", "rolling"} => pc'[t] \in {"roll", "rolling"}
    BY <1>6 DEF OnExit, BumpSeq, SetFlag, BeginRolling, At, TypeOK
  <2> QED
    BY <1>5, <2>1, <2>2
<1>7. CASE UNCHANGED <<open, made, done, pc>>
  BY <1>7 DEF DoneOnce, Innermost
<1> QED
  BY <1>1, <1>3, <1>4, <1>6, <1>7
     DEF Next, Application, Advice, RollChain, StopRecording, Tick, Quiescent, vars, threadVars

\* The monitor changes hands only with the thread that is in the roll.
LEMMA MonitorStep ==
  ASSUME TypeOK, MonitorOwned, [Next]_vars
  PROVE  MonitorOwned'
<1> USE ThreadsAssumption
<1>1. ASSUME UNCHANGED <<monitor, todo, costMap>>,
             NEW t \in Threads, \A u \in Threads : u # t => pc'[u] = pc[u],
             pc[t] # "rolling", pc'[t] # "rolling"
      PROVE  MonitorOwned'
  BY <1>1 DEF MonitorOwned, PendingOf
<1>2. ASSUME NEW t \in Threads, OnExit(t) \/ BumpSeq(t) \/ SetFlag(t) \/ Throw(t)
                                \/ (\E m \in Methods : OnEnter(t, m))
      PROVE  MonitorOwned'
  <2>1. UNCHANGED <<monitor, todo, costMap>> /\ \A u \in Threads : u # t => pc'[u] = pc[u]
    BY <1>2 DEF OnExit, BumpSeq, SetFlag, Throw, OnEnter, At, TypeOK, recorderVars
  <2>2. pc[t] # "rolling" /\ pc'[t] # "rolling"
    BY <1>2 DEF OnExit, BumpSeq, SetFlag, Throw, OnEnter, At, TypeOK
  <2> QED
    BY <1>1, <2>1, <2>2
<1>3. ASSUME NEW t \in Threads, MergeRecord(t) \/ DropRecord(t)
      PROVE  MonitorOwned'
  <2>1. monitor = NoThread /\ UNCHANGED <<monitor, todo>>
    BY <1>3 DEF MergeRecord, DropRecord, MonitorFree, LeaveMerge
  <2>2. \A u \in Threads : pc'[u] = "rolling" <=> pc[u] = "rolling"
    BY <1>3 DEF MergeRecord, DropRecord, LeaveMerge, At, TypeOK
  <2> QED
    BY <2>1, <2>2 DEF MonitorOwned
<1>4. ASSUME NEW t \in Threads, BeginRolling(t)
      PROVE  MonitorOwned'
  <2>1. monitor = NoThread /\ monitor' = t /\ UNCHANGED costMap
        /\ todo' = {n \in Names : costMap[n] # NoChain}
    BY <1>4 DEF BeginRolling, MonitorFree, RollKeys
  <2>2. \A u \in Threads : pc'[u] = "rolling" <=> u = t
    BY <1>4, <2>1 DEF BeginRolling, At, TypeOK, MonitorOwned
  <2> QED
    BY <2>1, <2>2 DEF MonitorOwned, PendingOf
<1>5. ASSUME NEW t \in Threads, NEW n \in Names, RollChain(t, n)
      PROVE  MonitorOwned'
  <2>1. /\ monitor = t /\ n \in todo /\ todo' = todo \ {n} /\ UNCHANGED <<monitor, pc>>
        /\ costMap' = [costMap EXCEPT ![n] = EmptyChain]
    BY <1>5 DEF RollChain, NewList, threadVars
  <2>2. PendingOf(n)' = {} /\ \A k \in Names : k # n => PendingOf(k)' = PendingOf(k)
    BY <2>1, EmptyChainCosts DEF TypeOK, PendingOf
  <2>3. \A k \in Names : costMap[k] # NoChain => costMap'[k] # NoChain
    BY <2>1, EmptyChainType, ChainIsNotNone DEF TypeOK
  <2> QED
    BY <2>1, <2>2, <2>3 DEF MonitorOwned, TypeOK
<1>6. ASSUME NEW t \in Threads, EndRolling(t)
      PROVE  MonitorOwned'
  <2>1. monitor = t /\ monitor' = NoThread /\ todo = {} /\ UNCHANGED <<todo, costMap>>
    BY <1>6 DEF EndRolling, Release
  <2>2. \A u \in Threads : pc'[u] # "rolling"
    BY <1>6, <2>1 DEF EndRolling, At, TypeOK, MonitorOwned
  <2> QED
    BY <2>1, <2>2 DEF MonitorOwned
<1>7. CASE UNCHANGED <<monitor, todo, costMap, pc>>
  BY <1>7 DEF MonitorOwned, PendingOf
<1> QED
  BY <1>2, <1>3, <1>4, <1>5, <1>6, <1>7
     DEF Next, Application, Advice, StopRecording, Tick, Quiescent, vars, recorderVars, threadVars

-----------------------------------------------------------------------------
(***************************************************************************)
(* What a step does to the calls that wait and to those that were posted.  *)
(***************************************************************************)
\* A merge adds the exiting call, which is waiting nowhere and in no report.
LEMMA MergeEffect ==
  ASSUME Inv, NEW t \in Threads, MergeRecord(t)
  PROVE  \E c \in Call :
           /\ monitor = NoThread /\ canRecord
           /\ c \notin done /\ done' = done \cup {c}
           /\ c.thread = t
           /\ costMap' = [costMap EXCEPT ![NameOf[t]] =
                MergeIntoChain(IF costMap[NameOf[t]] = NoChain THEN EmptyChain
                               ELSE costMap[NameOf[t]], c)]
           /\ Pending' = Pending \cup {c}
           /\ UNCHANGED <<reports, Reported, monitor, canRecord>>
<1> USE ThreadsAssumption
<1> DEFINE name == NameOf[t]
           chain == IF costMap[name] = NoChain THEN EmptyChain ELSE costMap[name]
<1>1. PICK c \in Innermost(t) :
        /\ monitor = NoThread /\ canRecord /\ LeaveMerge(t, c)
        /\ costMap' = [costMap EXCEPT ![name] = MergeIntoChain(chain, c)]
  BY DEF MergeRecord, MonitorFree
<1>2. c \in Call /\ c \in open[t] /\ c.thread = t
  BY DEF Inv, TypeOK, StackWellFormed, Innermost
<1>3. c \notin done
  BY <1>1, <1>2 DEF Inv, DoneOnce, LeaveMerge, At
<1>4. chain \in TimeCostChain /\ name \in Names
  BY EmptyChainType DEF Inv, TypeOK, ChainOrNone
<1>5. PendingOf(name)' = PendingOf(name) \cup {c}
  <2>1. costMap'[name] = MergeIntoChain(chain, c)
    BY <1>1, <1>4 DEF Inv, TypeOK
  <2>2. PendingOf(name)' = CostsIn(MergeIntoChain(chain, c))
    BY <2>1, <1>2, <1>4, MergeType, ChainIsNotNone DEF PendingOf
  <2>3. PendingOf(name) = CostsIn(chain)
    BY EmptyChainCosts DEF PendingOf
  <2> QED
    BY <2>2, <2>3, <1>2, <1>4, MergeCosts
<1>6. \A n \in Names : n # name => PendingOf(n)' = PendingOf(n)
  BY <1>1 DEF Inv, TypeOK, PendingOf
<1>7. Pending' = Pending \cup {c}
  <2> SUFFICES ASSUME NEW x
               PROVE  x \in Pending' <=> x \in Pending \cup {c}
    OBVIOUS
  <2>1. x \in Pending <=> \E n \in Names : x \in PendingOf(n)
    BY DEF Pending
  <2>2. x \in Pending' <=> \E n \in Names : x \in PendingOf(n)'
    BY DEF Pending
  <2> QED
    BY <1>4, <1>5, <1>6, <2>1, <2>2
<1>8. UNCHANGED <<reports, Reported, monitor, canRecord>> /\ done' = done \cup {c}
  BY <1>1 DEF LeaveMerge, Reported
<1> QED
  BY <1>1, <1>2, <1>3, <1>7, <1>8

\* A roll moves the costs of one name, and no other's, into a report.
LEMMA RollEffect ==
  ASSUME Inv, NEW t \in Threads, NEW n \in Names, RollChain(t, n)
  PROVE  /\ monitor = t /\ UNCHANGED <<monitor, canRecord, done>>
         /\ costMap' = [costMap EXCEPT ![n] = EmptyChain]
         /\ costMap[n] \in TimeCostChain
         /\ PendingOf(n) = CostsIn(costMap[n])
         /\ Pending' = Pending \ PendingOf(n)
         /\ Reported' = Reported \cup PendingOf(n)
         /\ \A r \in reports' : r \in reports \/ (r.chain = costMap[n] /\ r.name = n)
<1>1. /\ monitor = t /\ n \in todo
      /\ UNCHANGED <<monitor, canRecord, done>>
      /\ costMap' = [costMap EXCEPT ![n] = EmptyChain]
  BY DEF RollChain, NewList, threadVars
<1>2. costMap[n] \in TimeCostChain /\ costMap[n] # NoChain
  BY <1>1 DEF Inv, TypeOK, MonitorOwned, ChainOrNone
<1>3. PendingOf(n) = CostsIn(costMap[n])
  BY <1>2 DEF PendingOf
<1>4. PendingOf(n)' = {} /\ \A k \in Names : k # n => PendingOf(k)' = PendingOf(k)
  BY <1>1, EmptyChainCosts DEF Inv, TypeOK, PendingOf
<1>5. \A k \in Names : \A x \in PendingOf(k) : NameOf[x.thread] = k
  BY DEF Inv, WellFiled, PendingOf, CostsIn
<1>6. Pending' = Pending \ PendingOf(n)
  <2> SUFFICES ASSUME NEW x
               PROVE  x \in Pending' <=> x \in Pending \ PendingOf(n)
    OBVIOUS
  <2>1. x \in Pending <=> \E k \in Names : x \in PendingOf(k)
    BY DEF Pending
  <2>2. x \in Pending' <=> \E k \in Names : x \in PendingOf(k)'
    BY DEF Pending
  <2> QED
    BY <1>4, <1>5, <2>1, <2>2
<1>7. Reported' = Reported \cup PendingOf(n)
  <2>1. CASE costMap[n] = EmptyChain
    BY <2>1, <1>3, EmptyChainCosts DEF RollChain, Reported
  <2>2. CASE costMap[n] # EmptyChain
    <3> DEFINE new == [seq |-> seq, printer |-> t, name |-> n, chain |-> costMap[n]]
    <3>1. reports' = reports \cup {new} /\ new.chain = costMap[n]
      BY <2>2 DEF RollChain
    <3> SUFFICES ASSUME NEW x
                 PROVE  x \in Reported' <=> x \in Reported \cup CostsIn(costMap[n])
      BY <1>3
    <3>2. x \in Reported <=> \E r \in reports : x \in CostsIn(r.chain)
      BY DEF Reported
    <3>3. x \in Reported' <=> \E r \in reports' : x \in CostsIn(r.chain)
      BY DEF Reported
    <3> HIDE DEF new
    <3> QED
      BY <3>1, <3>2, <3>3
  <2> QED
    BY <2>1, <2>2
<1>8. \A r \in reports' : r \in reports \/ (r.chain = costMap[n] /\ r.name = n)
  BY DEF RollChain
<1> QED
  BY <1>1, <1>2, <1>3, <1>6, <1>7, <1>8

\* No other step touches a chain or a report.
LEMMA OtherEffect ==
  ASSUME Inv, [Next]_vars,
         \A t \in Threads : ~ MergeRecord(t) /\ \A n \in Names : ~ RollChain(t, n)
  PROVE  /\ UNCHANGED <<costMap, reports, Pending, Reported>>
         /\ done \subseteq done'
<1>1. UNCHANGED <<costMap, reports>> /\ done \subseteq done'
  BY DEF Next, Application, Advice, OnEnter, Throw, OnExit, BumpSeq, SetFlag, DropRecord,
         LeaveMerge, BeginRolling, EndRolling, StopRecording, Tick, Quiescent,
         vars, recorderVars, threadVars
<1> QED
  BY <1>1 DEF Pending, PendingOf, Reported

LEMMA FiledStep ==
  ASSUME Inv, [Next]_vars
  PROVE  WellFiled'
<1> USE ThreadsAssumption
<1>1. ASSUME NEW t \in Threads, MergeRecord(t)
      PROVE  WellFiled'
  <2> DEFINE name == NameOf[t]
             chain == IF costMap[name] = NoChain THEN EmptyChain ELSE costMap[name]
  <2>1. PICK c \in Call :
          /\ done' = done \cup {c}
          /\ c.thread = t
          /\ costMap' = [costMap EXCEPT ![name] = MergeIntoChain(chain, c)]
          /\ Pending' = Pending \cup {c}
          /\ UNCHANGED Reported
    BY <1>1, MergeEffect
  <2>2. Pending' \cup Reported' \subseteq done'
    BY <2>1 DEF Inv, WellFiled
  <2>3. name \in Names /\ chain \in TimeCostChain
    BY EmptyChainType DEF Inv, TypeOK, ChainOrNone
  <2>4. ASSUME NEW m \in Methods, NEW x \in chain[m].costs
        PROVE  x.method = m /\ NameOf[x.thread] = name
    BY <2>3, <2>4 DEF Inv, WellFiled, EmptyChain
  <2>5. ASSUME NEW m \in Methods, NEW x \in MergeIntoChain(chain, c)[m].costs
        PROVE  x.method = m /\ NameOf[x.thread] = name
    <3>1. x \in chain[m].costs \/ (m = c.method /\ x = c)
      BY <2>3, <2>5 DEF MergeIntoChain, Merge, TimeCostChain, TimeCostRecord
    <3> QED
      BY <2>1, <2>4, <3>1
  <2>6. ASSUME NEW n \in Names, costMap'[n] # NoChain,
               NEW m \in Methods, NEW x \in costMap'[n][m].costs
        PROVE  x.method = m /\ NameOf[x.thread] = n
    <3>1. CASE n = name
      <4>1. costMap'[n] = MergeIntoChain(chain, c)
        BY <2>1, <2>3, <3>1 DEF Inv, TypeOK
      <4> QED
        BY <2>5, <2>6, <3>1, <4>1
    <3>2. CASE n # name
      <4>1. costMap'[n] = costMap[n]
        BY <2>1, <3>2 DEF Inv, TypeOK
      <4> QED
        BY <2>6, <4>1 DEF Inv, WellFiled
    <3> QED
      BY <3>1, <3>2
  <2> QED
    BY <2>2, <2>6 DEF WellFiled
<1>2. ASSUME NEW t \in Threads, NEW n \in Names, RollChain(t, n)
      PROVE  WellFiled'
  <2>1. /\ UNCHANGED done
        /\ costMap' = [costMap EXCEPT ![n] = EmptyChain]
        /\ Pending' \cup Reported' \subseteq Pending \cup Reported \cup PendingOf(n)
    BY <1>2, RollEffect
  <2>2. PendingOf(n) \subseteq Pending
    BY DEF Pending
  <2>3. \A m \in Methods : EmptyChain[m].costs = {}
    BY DEF EmptyChain
  <2>4. \A k \in Names : costMap'[k] = IF k = n THEN EmptyChain ELSE costMap[k]
    BY <2>1 DEF Inv, TypeOK
  <2> QED
    BY <2>1, <2>2, <2>3, <2>4 DEF Inv, WellFiled
<1>3. CASE \A t \in Threads : ~ MergeRecord(t) /\ \A n \in Names : ~ RollChain(t, n)
  BY <1>3, OtherEffect DEF Inv, WellFiled
<1> QED
  BY <1>1, <1>2, <1>3

LEMMA ReportedStep ==
  ASSUME Inv, [Next]_vars
  PROVE  ReportedOnce'
<1>1. ASSUME NEW t \in Threads, MergeRecord(t)
      PROVE  ReportedOnce'
  <2>1. PICK c \in Call : /\ c \notin done
                          /\ Pending' = Pending \cup {c}
                          /\ UNCHANGED <<reports, Reported>>
    BY <1>1, MergeEffect
  <2>2. c \notin Reported
    BY <2>1 DEF Inv, WellFiled
  <2> QED
    BY <2>1, <2>2 DEF Inv, ReportedOnce
<1>2. ASSUME NEW t \in Threads, NEW n \in Names, RollChain(t, n)
      PROVE  ReportedOnce'
  <2>1. /\ Pending' = Pending \ PendingOf(n)
        /\ Reported' = Reported \cup PendingOf(n)
        /\ PendingOf(n) = CostsIn(costMap[n])
    BY <1>2, RollEffect
  <2>2. Pending' \cap Reported' = {}
    BY <2>1 DEF Inv, ReportedOnce
  <2>3. CostsIn(costMap[n]) \subseteq Pending
    BY <2>1 DEF Pending
  <2>4. \A r \in reports : CostsIn(r.chain) \subseteq Reported
    BY DEF Reported
  <2>5. \A r \in reports : CostsIn(r.chain) \cap CostsIn(costMap[n]) = {}
    BY <2>3, <2>4 DEF Inv, ReportedOnce
  <2>6. ASSUME NEW r1 \in reports', NEW r2 \in reports', r1 # r2
        PROVE  CostsIn(r1.chain) \cap CostsIn(r2.chain) = {}
    <3>1. CASE r1 \in reports /\ r2 \in reports
      BY <2>6, <3>1 DEF Inv, ReportedOnce
    <3>2. reports' \subseteq reports \cup
            {[seq |-> seq, printer |-> t, name |-> n, chain |-> costMap[n]]}
      BY <1>2 DEF RollChain
    <3>3. CASE r1 \notin reports
      <4>1. r1.chain = costMap[n] /\ r2 \in reports
        BY <2>6, <3>2, <3>3
      <4> QED
        BY <2>5, <4>1
    <3>4. CASE r2 \notin reports
      <4>1. r2.chain = costMap[n] /\ r1 \in reports
        BY <2>6, <3>2, <3>4
      <4> QED
        BY <2>5, <4>1
    <3> QED
      BY <3>1, <3>3, <3>4
  <2> QED
    BY <2>2, <2>6 DEF ReportedOnce
<1>3. CASE \A t \in Threads : ~ MergeRecord(t) /\ \A n \in Names : ~ RollChain(t, n)
  BY <1>3, OtherEffect DEF Inv, ReportedOnce
<1> QED
  BY <1>1, <1>2, <1>3

\* Only the cleanup writes FALSE, and a thread leaves the entry advice of a call
\* of the enter method by writing TRUE.
LEMMA FlagStep ==
  ASSUME TypeOK, StackWellFormed, EnterKeepsFlag, [Next]_vars
  PROVE  EnterKeepsFlag'
<1>1. ASSUME NEW t \in Threads, NEW m \in Methods, OnEnter(t, m)
      PROVE  EnterKeepsFlag'
  <2> DEFINE new == [thread |-> t, index |-> made[t] + 1, method |-> m]
  <2>1. /\ open' = [open EXCEPT ![t] = open[t] \cup {new}]
        /\ UNCHANGED <<stops, canRecord>>
        /\ pc[t] = "run"
        /\ m \in EnterMethods => pc'[t] = "bump"
        /\ \A u \in Threads : u # t => pc'[u] = pc[u]
    BY <1>1 DEF OnEnter, At, TypeOK, recorderVars
  <2>2. new \in Innermost(t)'
    <3>1. open'[t] = open[t] \cup {new} /\ made[t] \in Nat
      BY <2>1, BoundsAssumption DEF TypeOK
    <3>2. \A d \in open[t] : d.index \in Nat /\ d.index <= made[t]
      BY DEF TypeOK, StackWellFormed, Call
    <3> QED
      BY <3>1, <3>2 DEF Innermost
  <2>3. ASSUME NEW u \in Threads, NEW e \in open'[u], e.method \in EnterMethods,
               stops' = 0, ~ canRecord'
        PROVE  pc'[u] \in {"bump", "flag"} /\ e \in Innermost(u)'
    <3>1. CASE u = t
      <4>1. e = new
        BY <2>1, <2>3, <3>1 DEF EnterKeepsFlag, TypeOK
      <4> QED
        BY <2>1, <2>2, <2>3, <3>1, <4>1
    <3>2. CASE u # t
      <4>1. open'[u] = open[u] /\ pc'[u] = pc[u]
        BY <2>1, <3>2 DEF TypeOK
      <4> QED
        BY <2>1, <2>3, <4>1 DEF EnterKeepsFlag, Innermost
    <3> QED
      BY <3>1, <3>2
  <2> QED
    BY <2>3 DEF EnterKeepsFlag
<1>2. ASSUME UNCHANGED <<stops, canRecord>>, NEW t \in Threads,
             pc[t] \notin {"bump", "flag"}, open'[t] \subseteq open[t],
             \A u \in Threads : u # t => pc'[u] = pc[u] /\ open'[u] = open[u]
      PROVE  EnterKeepsFlag'
  BY <1>2 DEF EnterKeepsFlag, Innermost
<1>3. ASSUME NEW t \in Threads,
             \/ Throw(t) \/ OnExit(t) \/ MergeRecord(t) \/ DropRecord(t)
             \/ BeginRolling(t) \/ EndRolling(t)
      PROVE  EnterKeepsFlag'
  <2>1. UNCHANGED <<stops, canRecord>> /\ pc[t] \notin {"bump", "flag"}
    BY <1>3 DEF Throw, OnExit, MergeRecord, DropRecord, LeaveMerge, BeginRolling, EndRolling,
                Release, At, recorderVars
  <2>2. /\ open'[t] \subseteq open[t]
        /\ \A u \in Threads : u # t => pc'[u] = pc[u] /\ open'[u] = open[u]
    BY <1>3 DEF Throw, OnExit, MergeRecord, DropRecord, LeaveMerge, BeginRolling, EndRolling,
                At, TypeOK
  <2> QED
    BY <1>2, <2>1, <2>2
<1>4. ASSUME NEW t \in Threads, BumpSeq(t)
      PROVE  EnterKeepsFlag'
  <2>1. UNCHANGED <<stops, canRecord, open>>
    BY <1>4 DEF BumpSeq
  <2>2. \A u \in Threads : pc[u] \in {"bump", "flag"} => pc'[u] \in {"bump", "flag"}
    BY <1>4 DEF BumpSeq, At, TypeOK
  <2> QED
    BY <2>1, <2>2 DEF EnterKeepsFlag, Innermost
<1>5. ASSUME NEW t \in Threads, SetFlag(t)
      PROVE  EnterKeepsFlag'
  BY <1>5 DEF SetFlag, EnterKeepsFlag
<1>6. CASE StopRecording
  <2>1. stops' # 0
    BY <1>6 DEF StopRecording, TypeOK
  <2> QED
    BY <2>1 DEF EnterKeepsFlag
<1>7. CASE UNCHANGED <<stops, canRecord, open, pc>>
  BY <1>7 DEF EnterKeepsFlag, Innermost
<1> QED
  BY <1>1, <1>3, <1>4, <1>5, <1>6, <1>7
     DEF Next, Application, Advice, RollChain, Tick, Quiescent, vars, recorderVars, threadVars

-----------------------------------------------------------------------------
(***************************************************************************)
(* Every step of the recorder keeps the inductive invariant.               *)
(***************************************************************************)
LEMMA InvStep == Inv /\ [Next]_vars => Inv'
<1> SUFFICES ASSUME Inv, [Next]_vars
             PROVE  Inv'
  OBVIOUS
<1>1. TypeOK'
  BY TypeStep DEF Inv, MonitorOwned
<1>2. StackWellFormed'
  BY StackStep DEF Inv
<1>3. DoneOnce'
  BY DoneStep DEF Inv
<1>4. MonitorOwned'
  BY MonitorStep DEF Inv
<1>5. WellFiled'
  BY FiledStep
<1>6. ReportedOnce'
  BY ReportedStep
<1>7. EnterKeepsFlag'
  BY FlagStep DEF Inv
<1> QED
  BY <1>1, <1>2, <1>3, <1>4, <1>5, <1>6, <1>7 DEF Inv

(***************************************************************************)
(* The strengthening holds in every reachable state of the recorder: the   *)
(* monitor, the stacks of the threads and the chains always fit together.  *)
(***************************************************************************)
THEOREM Invariance == Spec => []Inv
<1>1. Init => Inv
  BY InvInit
<1>2. Inv /\ [Next]_vars => Inv'
  BY InvStep
<1> QED
  BY <1>1, <1>2, PTL DEF Spec

(***************************************************************************)
(* The recorder's variables keep their types; the proof needs MonitorOwned *)
(* since a report is built from a chain and never from a missing one.      *)
(***************************************************************************)
THEOREM TypeCorrect == Spec => []TypeOK
<1>1. Inv => TypeOK
  BY DEF Inv
<1> QED
  BY <1>1, Invariance, PTL

(***************************************************************************)
(* printAndRolling never posts a cost twice, nor one that it leaves in the *)
(* list that goes on collecting, however threads interleave and share      *)
(* names.                                                                  *)
(***************************************************************************)
THEOREM CostsAreReportedOnce == Spec => []ReportedOnce
<1>1. Inv => ReportedOnce
  BY DEF Inv
<1> QED
  BY <1>1, Invariance, PTL

(***************************************************************************)
(* A thread that leaves printAndRolling leaves no cost behind, of any      *)
(* thread: nothing merges while it holds the monitor and posts.            *)
(***************************************************************************)
THEOREM RollIsComplete == Spec => RollLeavesNothing
<1>1. ASSUME Inv, [Next]_vars
      PROVE  [monitor # NoThread /\ monitor' = NoThread => Pending' = {}]_vars
  <2> SUFFICES ASSUME monitor # NoThread, monitor' = NoThread
               PROVE  Pending' = {}
    BY <1>1
  <2>1. PICK t \in Threads : EndRolling(t)
    BY <1>1, ThreadsAssumption
       DEF Next, Application, Advice, OnEnter, Throw, OnExit, BumpSeq, SetFlag, MergeRecord,
           DropRecord, LeaveMerge, BeginRolling, RollChain, StopRecording, Tick, Quiescent,
           vars, recorderVars
  <2>2. todo = {} /\ UNCHANGED costMap
    BY <2>1 DEF EndRolling
  <2>3. \A n \in Names : PendingOf(n) = {}
    BY <2>2, <1>1 DEF Inv, MonitorOwned
  <2> QED
    BY <2>2, <2>3 DEF Pending, PendingOf
<1> QED
  BY <1>1, Invariance, PTL DEF Spec, RollLeavesNothing

-----------------------------------------------------------------------------
(***************************************************************************)
(* The recorder implements the ledger.  mergeRecord is Enter; taking the   *)
(* monitor for printAndRolling is ReportAll, and everything until it is    *)
(* released is a stutter; writes of the flag are Switch.                   *)
(***************************************************************************)
LEMMA LedgerStep == Inv /\ [Next]_vars => [Ledger!Next]_(Ledger!vars)
<1> SUFFICES ASSUME Inv, [Next]_vars
             PROVE  Ledger!Next \/ UNCHANGED Ledger!vars
  BY DEF Ledger!vars
<1> USE ThreadsAssumption
<1>1. ASSUME NEW t \in Threads, MergeRecord(t)
      PROVE  Ledger!Next
  <2>1. PICK c \in Call : /\ monitor = NoThread /\ canRecord /\ c \notin done
                          /\ Pending' = Pending \cup {c}
                          /\ UNCHANGED <<Reported, monitor, canRecord>>
    BY <1>1, MergeEffect
  <2>2. c \notin Pending \cup Reported
    BY <2>1 DEF Inv, WellFiled
  <2>3. Ledger!Enter(c)
    BY <2>1, <2>2 DEF Ledger!Enter
  <2> QED
    BY <2>3 DEF Ledger!Next
<1>2. ASSUME NEW t \in Threads, NEW n \in Names, RollChain(t, n)
      PROVE  UNCHANGED Ledger!vars
  <2>1. /\ monitor = t /\ UNCHANGED <<monitor, canRecord>>
        /\ Pending' = Pending \ PendingOf(n)
        /\ Reported' = Reported \cup PendingOf(n)
    BY <1>2, RollEffect
  <2>2. PendingOf(n) \subseteq Pending
    BY DEF Pending
  <2>3. Reported' \cup Pending' = Reported \cup Pending
    BY <2>1, <2>2
  <2> QED
    BY <2>1, <2>3 DEF Ledger!vars
<1>3. ASSUME NEW t \in Threads, BeginRolling(t)
      PROVE  Ledger!Next
  <2>1. /\ monitor = NoThread /\ monitor' = t
        /\ UNCHANGED <<canRecord, Pending, Reported>>
    BY <1>3 DEF BeginRolling, MonitorFree, Pending, PendingOf, Reported
  <2>2. Ledger!ReportAll
    BY <2>1 DEF Ledger!ReportAll
  <2> QED
    BY <2>2 DEF Ledger!Next
<1>4. ASSUME NEW t \in Threads, EndRolling(t)
      PROVE  UNCHANGED Ledger!vars
  <2>1. /\ monitor = t /\ monitor' = NoThread /\ todo = {}
        /\ UNCHANGED <<canRecord, costMap, reports>>
    BY <1>4 DEF EndRolling, Release
  <2>2. Pending = {} /\ Pending' = {} /\ Reported' = Reported
    BY <2>1 DEF Inv, MonitorOwned, Pending, PendingOf, Reported
  <2> QED
    BY <2>1, <2>2 DEF Ledger!vars
<1>5. ASSUME UNCHANGED <<monitor, costMap, reports>>, canRecord' \in BOOLEAN
      PROVE  Ledger!Next
  <2>1. UNCHANGED <<Pending, Reported>>
    BY <1>5 DEF Pending, PendingOf, Reported
  <2>2. Ledger!Switch
    BY <1>5, <2>1 DEF Ledger!Switch
  <2> QED
    BY <2>2 DEF Ledger!Next
<1>6. ASSUME NEW t \in Threads, SetFlag(t)
      PROVE  Ledger!Next
  BY <1>5, <1>6 DEF SetFlag
<1>7. CASE StopRecording
  BY <1>5, <1>7 DEF StopRecording
<1>8. CASE UNCHANGED <<monitor, costMap, reports, canRecord>>
  BY <1>8 DEF Ledger!vars, Pending, PendingOf, Reported
<1>9. ASSUME NEW t \in Threads,
             Application(t) \/ BumpSeq(t) \/ DropRecord(t)
      PROVE  UNCHANGED <<monitor, costMap, reports, canRecord>>
  BY <1>9 DEF Application, OnEnter, Throw, OnExit, BumpSeq, DropRecord, LeaveMerge, recorderVars
<1>10. CASE Tick \/ Quiescent \/ UNCHANGED vars
  <2>1. UNCHANGED <<monitor, costMap, reports, canRecord>>
    BY <1>10 DEF Tick, Quiescent, vars, recorderVars
  <2> QED
    BY <1>8, <2>1
<1> QED
  BY <1>1, <1>2, <1>3, <1>4, <1>6, <1>7, <1>8, <1>9, <1>10 DEF Next, Advice

(***************************************************************************)
(* Seen from outside, mergeRecord, canRecord and printAndRolling are       *)
(* atomic: a report takes, at one instant, every call recorded so far.     *)
(***************************************************************************)
THEOREM ImplementsLedger == Spec => LedgerSpec
<1>1. Init => Ledger!Init
  BY NoPendingInit DEF Init, Ledger!Init
<1>2. Inv /\ [Next]_vars => [Ledger!Next]_(Ledger!vars)
  BY LedgerStep
<1> QED
  BY <1>1, <1>2, Invariance, PTL DEF Spec, LedgerSpec, Ledger!Spec

-----------------------------------------------------------------------------
\* A call that waits or was posted stays so: nothing is taken out of a chain
\* except into a report.
LEMMA NothingIsForgotten ==
  ASSUME Inv, [Next]_vars
  PROVE  Pending \cup Reported \subseteq Pending' \cup Reported'
<1>1. ASSUME NEW t \in Threads, MergeRecord(t)
      PROVE  Pending \cup Reported \subseteq Pending' \cup Reported'
  BY <1>1, MergeEffect
<1>2. ASSUME NEW t \in Threads, NEW n \in Names, RollChain(t, n)
      PROVE  Pending \cup Reported \subseteq Pending' \cup Reported'
  BY <1>2, RollEffect
<1>3. CASE \A t \in Threads : ~ MergeRecord(t) /\ \A n \in Names : ~ RollChain(t, n)
  BY <1>3, OtherEffect
<1> QED
  BY <1>1, <1>2, <1>3

LEMMA DroppedStep ==
  ASSUME Inv, NoCallDropped, [Next]_vars
  PROVE  NoCallDropped'
<1> DEFINE Inside(c) == \/ c.method \in EnterMethods
                        \/ \E e \in open[c.thread] : e.method \in EnterMethods /\ e.index < c.index
<1>1. ASSUME stops = 0, UNCHANGED stops, UNCHANGED done,
             \A c \in done : Inside(c)' => Inside(c)
      PROVE  NoCallDropped'
  BY <1>1, NothingIsForgotten DEF NoCallDropped
<1>2. ASSUME UNCHANGED <<stops, done>>, \A t \in Threads : open'[t] \subseteq open[t]
      PROVE  NoCallDropped'
  <2>1. \A c \in done : c.thread \in Threads
    BY DEF Inv, TypeOK, Call
  <2> QED
    BY <1>2, <2>1, NothingIsForgotten DEF NoCallDropped
<1>3. ASSUME NEW t \in Threads, NEW m \in Methods, OnEnter(t, m), stops = 0
      PROVE  NoCallDropped'
  <2>1. /\ open' = [open EXCEPT ![t] =
              open[t] \cup {[thread |-> t, index |-> made[t] + 1, method |-> m]}]
        /\ UNCHANGED <<stops, done>>
    BY <1>3 DEF OnEnter
  <2>2. ASSUME NEW c \in done, Inside(c)'
        PROVE  Inside(c)
    <3>1. c.thread \in Threads /\ c.index \in Nat /\ c.index <= made[c.thread] /\ made[t] \in Nat
      BY BoundsAssumption DEF Inv, TypeOK, DoneOnce, Call
    <3>2. CASE c.method \in EnterMethods
      BY <3>2
    <3>3. CASE c.method \notin EnterMethods
      <4>1. PICK e \in open'[c.thread] : e.method \in EnterMethods /\ e.index < c.index
        BY <2>2, <3>3
      <4>2. e \in open[c.thread]
        BY <2>1, <3>1, <4>1 DEF Inv, TypeOK
      <4> QED
        BY <4>1, <4>2
    <3> QED
      BY <3>2, <3>3
  <2> HIDE DEF Inside
  <2> QED
    BY <1>1, <1>3, <2>1, <2>2
<1>4. ASSUME NEW t \in Threads, MergeRecord(t)
      PROVE  NoCallDropped'
  <2>1. PICK c \in Call : done' = done \cup {c} /\ Pending' = Pending \cup {c}
    BY <1>4, MergeEffect
  <2>2. UNCHANGED stops /\ \A u \in Threads : open'[u] \subseteq open[u]
    BY <1>4 DEF MergeRecord, LeaveMerge, Inv, TypeOK
  <2>3. \A d \in done : d.thread \in Threads
    BY DEF Inv, TypeOK, Call
  <2> QED
    BY <2>1, <2>2, <2>3, NothingIsForgotten DEF NoCallDropped
<1>5. ASSUME NEW t \in Threads, DropRecord(t), stops = 0
      PROVE  NoCallDropped'
  <2>1. PICK c \in Innermost(t) : LeaveMerge(t, c) /\ ~ canRecord
    BY <1>5 DEF DropRecord
  <2>2. c \in open[t] /\ c.thread = t
    BY DEF Inv, StackWellFormed, Innermost
  <2>3. \A e \in open[t] : e.method \notin EnterMethods
    BY <1>5, <2>1 DEF Inv, EnterKeepsFlag, LeaveMerge, At
  <2>4. done' = done \cup {c} /\ UNCHANGED stops /\ \A u \in Threads : open'[u] \subseteq open[u]
    BY <2>1 DEF LeaveMerge, Inv, TypeOK
  <2>5. \A d \in done : d.thread \in Threads
    BY DEF Inv, TypeOK, Call
  <2> QED
    BY <2>2, <2>3, <2>4, <2>5, NothingIsForgotten DEF NoCallDropped
<1>6. ASSUME stops' # 0
      PROVE  NoCallDropped'
  BY <1>6 DEF NoCallDropped
<1>7. stops' = 0 => stops = 0
  BY DEF Inv, TypeOK, Next, Application, Advice, OnEnter, Throw, OnExit, BumpSeq, SetFlag,
         MergeRecord, DropRecord, LeaveMerge, BeginRolling, RollChain, EndRolling,
         StopRecording, Tick, Quiescent, vars
<1>8. ASSUME NEW t \in Threads, \/ Throw(t) \/ OnExit(t) \/ BumpSeq(t) \/ SetFlag(t)
                                \/ BeginRolling(t) \/ EndRolling(t)
                                \/ \E n \in Names : RollChain(t, n)
      PROVE  UNCHANGED <<stops, done>> /\ \A u \in Threads : open'[u] \subseteq open[u]
  BY <1>8 DEF Throw, OnExit, BumpSeq, SetFlag, BeginRolling, EndRolling, RollChain, Inv, TypeOK,
              recorderVars, threadVars
<1>9. CASE UNCHANGED <<stops, done, open>>
  BY <1>2, <1>9
<1>10. CASE StopRecording
  BY <1>6, <1>10 DEF StopRecording, Inv, TypeOK
<1> QED
  BY <1>2, <1>3, <1>4, <1>5, <1>6, <1>7, <1>8, <1>9, <1>10
     DEF Next, Application, Advice, Tick, Quiescent, vars, threadVars

(***************************************************************************)
(* Until the cleanup stops the recorder, no call made under the enter      *)
(* method and returned is lost: another thread's exit, roll or entry never *)
(* costs it its record.                                                    *)
(***************************************************************************)
THEOREM NothingIsDropped == Spec => []NoCallDropped
<1>1. Init => NoCallDropped
  BY DEF Init, NoCallDropped
<1>2. Inv /\ NoCallDropped /\ [Next]_vars => NoCallDropped'
  BY DroppedStep
<1> QED
  BY <1>1, <1>2, Invariance, PTL DEF Spec

-----------------------------------------------------------------------------
\* A chain whose records are finite and counted: CountMatchesCosts with the
\* finiteness that makes a cardinality grow by one.
Counted(chain) ==
  \A m \in Methods : /\ IsFiniteSet(chain[m].costs)
                     /\ chain[m].count = Cardinality(chain[m].costs)

AllCounted ==
  /\ \A n \in Names : costMap[n] # NoChain => Counted(costMap[n])
  /\ \A r \in reports : Counted(r.chain)

LEMMA EmptyChainCounted == Counted(EmptyChain)
  BY FS_EmptySet DEF Counted, EmptyChain

LEMMA MergeCounted ==
  ASSUME NEW chain \in TimeCostChain, Counted(chain),
         NEW c \in Call, c \notin CostsIn(chain)
  PROVE  Counted(MergeIntoChain(chain, c))
<1>1. c.method \in Methods
  BY DEF Call
<1>2. c \notin chain[c.method].costs
  BY <1>1 DEF CostsIn
<1>3. /\ IsFiniteSet(chain[c.method].costs \cup {c})
      /\ Cardinality(chain[c.method].costs \cup {c}) = chain[c.method].count + 1
  <2> DEFINE costs == chain[c.method].costs
  <2>1. IsFiniteSet(costs) /\ chain[c.method].count = Cardinality(costs)
    BY <1>1 DEF Counted
  <2> HIDE DEF costs
  <2>2. /\ IsFiniteSet(costs \cup {c})
        /\ Cardinality(costs \cup {c}) = Cardinality(costs) + 1
    BY <1>2, <2>1, FS_AddElement DEF costs
  <2> QED
    BY <2>1, <2>2 DEF costs
<1>4. \A m \in Methods : MergeIntoChain(chain, c)[m] =
        IF m = c.method THEN [count |-> chain[m].count + 1, costs |-> chain[m].costs \cup {c}]
                        ELSE chain[m]
  BY <1>1 DEF MergeIntoChain, Merge, TimeCostChain
<1> SUFFICES ASSUME NEW m \in Methods
             PROVE  /\ IsFiniteSet(MergeIntoChain(chain, c)[m].costs)
                    /\ MergeIntoChain(chain, c)[m].count =
                         Cardinality(MergeIntoChain(chain, c)[m].costs)
  BY DEF Counted
<1>5. CASE m = c.method
  <2>1. MergeIntoChain(chain, c)[m] =
          [count |-> chain[m].count + 1, costs |-> chain[m].costs \cup {c}]
    BY <1>4, <1>5
  <2> QED
    BY <1>3, <1>5, <2>1
<1>6. CASE m # c.method
  BY <1>4, <1>6 DEF Counted
<1> QED
  BY <1>5, <1>6

LEMMA CountedStep ==
  ASSUME Inv, AllCounted, [Next]_vars
  PROVE  AllCounted'
<1> USE ThreadsAssumption
<1>1. ASSUME NEW t \in Threads, MergeRecord(t)
      PROVE  AllCounted'
  <2> DEFINE name == NameOf[t]
             chain == IF costMap[name] = NoChain THEN EmptyChain ELSE costMap[name]
  <2>1. PICK c \in Call :
          /\ c \notin done
          /\ costMap' = [costMap EXCEPT ![name] = MergeIntoChain(chain, c)]
          /\ UNCHANGED reports
    BY <1>1, MergeEffect
  <2>2. chain \in TimeCostChain /\ name \in Names /\ Counted(chain)
    BY EmptyChainType, EmptyChainCounted DEF Inv, TypeOK, ChainOrNone, AllCounted
  <2>3. c \notin CostsIn(chain)
    <3>1. CostsIn(chain) \subseteq Pending
      BY <2>2, EmptyChainCosts DEF Pending, PendingOf
    <3> QED
      BY <2>1, <3>1 DEF Inv, WellFiled
  <2>4. Counted(MergeIntoChain(chain, c))
    BY <2>2, <2>3, MergeCounted
  <2>5. \A n \in Names : costMap'[n] = IF n = name THEN MergeIntoChain(chain, c) ELSE costMap[n]
    BY <2>1, <2>2 DEF Inv, TypeOK
  <2> QED
    BY <2>1, <2>4, <2>5 DEF AllCounted
<1>2. ASSUME NEW t \in Threads, NEW n \in Names, RollChain(t, n)
      PROVE  AllCounted'
  <2>1. /\ costMap' = [costMap EXCEPT ![n] = EmptyChain]
        /\ \A r \in reports' : r \in reports \/ (r.chain = costMap[n] /\ r.name = n)
        /\ costMap[n] \in TimeCostChain
    BY <1>2, RollEffect
  <2>2. Counted(costMap[n])
    BY <2>1, ChainIsNotNone DEF AllCounted
  <2>3. \A k \in Names : costMap'[k] = IF k = n THEN EmptyChain ELSE costMap[k]
    BY <2>1 DEF Inv, TypeOK
  <2> QED
    BY <2>1, <2>2, <2>3, EmptyChainCounted DEF AllCounted
<1>3. CASE \A t \in Threads : ~ MergeRecord(t) /\ \A n \in Names : ~ RollChain(t, n)
  BY <1>3, OtherEffect DEF AllCounted
<1> QED
  BY <1>1, <1>2, <1>3

(***************************************************************************)
(* A record's count is the number of its cost pairs, waiting or posted, so *)
(* the division that yields the average is by the right number.            *)
(***************************************************************************)
THEOREM CountsAreRight == Spec => []CountMatchesCosts
<1>1. Init => AllCounted
  BY DEF Init, AllCounted
<1>2. Inv /\ AllCounted /\ [Next]_vars => AllCounted'
  BY CountedStep
<1>3. AllCounted => CountMatchesCosts
  BY DEF AllCounted, Counted, CountMatchesCosts
<1> QED
  BY <1>1, <1>2, <1>3, Invariance, PTL DEF Spec

-----------------------------------------------------------------------------
(***************************************************************************)
(* The backup holds a posted chain until its millisecond is rolled again.  *)
(***************************************************************************)
BackedUpOrOverwritten ==
  \A r \in reports : \E ms \in Millis :
    /\ rolls[r.name][ms] >= 1
    /\ rolls[r.name][ms] <= 1 => backup[r.name][ms] = r.chain

LEMMA BackupStep ==
  ASSUME Inv, BackedUpOrOverwritten, [Next]_vars
  PROVE  BackedUpOrOverwritten'
<1>1. ASSUME NEW t \in Threads, NEW n \in Names, RollChain(t, n)
      PROVE  BackedUpOrOverwritten'
  <2>1. /\ rolls' = [rolls EXCEPT ![n][now] = rolls[n][now] + 1]
        /\ backup' = [backup EXCEPT ![n][now] = costMap[n]]
        /\ now \in Millis
    BY <1>1 DEF RollChain, BackedUp, Inv, TypeOK
  <2>2. /\ \A k \in Names, ms \in Millis : rolls[k][ms] \in Nat
        /\ \A k \in Names, ms \in Millis :
             /\ rolls'[k][ms] = IF k = n /\ ms = now THEN rolls[k][ms] + 1 ELSE rolls[k][ms]
             /\ backup'[k][ms] = IF k = n /\ ms = now THEN costMap[n] ELSE backup[k][ms]
    BY <2>1 DEF Inv, TypeOK
  <2>3. ASSUME NEW r \in reports'
        PROVE  \E ms \in Millis : /\ rolls'[r.name][ms] >= 1
                                  /\ rolls'[r.name][ms] <= 1 => backup'[r.name][ms] = r.chain
    <3>1. r.name \in Names /\ (r \in reports \/ (r.chain = costMap[n] /\ r.name = n))
      BY <1>1, RollEffect DEF Inv, TypeOK, Report
    <3>2. CASE r \in reports
      <4>1. PICK ms \in Millis : /\ rolls[r.name][ms] >= 1
                                 /\ rolls[r.name][ms] <= 1 => backup[r.name][ms] = r.chain
        BY <3>2 DEF BackedUpOrOverwritten
      <4>2. CASE r.name = n /\ ms = now
        BY <4>1, <4>2, <3>1, <2>2
      <4>3. CASE ~ (r.name = n /\ ms = now)
        BY <4>1, <4>3, <3>1, <2>2
      <4> QED
        BY <4>2, <4>3
    <3>3. CASE r.chain = costMap[n] /\ r.name = n
      BY <3>3, <2>1, <2>2
    <3> QED
      BY <3>1, <3>2, <3>3
  <2> QED
    BY <2>3 DEF BackedUpOrOverwritten
<1>2. CASE \A t \in Threads, n \in Names : ~ RollChain(t, n)
  <2>1. UNCHANGED <<reports, backup, rolls>>
    BY <1>2 DEF Next, Application, Advice, OnEnter, Throw, OnExit, BumpSeq, SetFlag, MergeRecord,
           DropRecord, LeaveMerge, BeginRolling, EndRolling, StopRecording, Tick, Quiescent,
           vars, recorderVars, threadVars
  <2> QED
    BY <2>1 DEF BackedUpOrOverwritten
<1> QED
  BY <1>1, <1>2

(***************************************************************************)
(* The backup map loses a posted chain only to another roll of the same    *)
(* thread name in the same millisecond.                                    *)
(***************************************************************************)
THEOREM BackupLosesOnlyToTheSameMillisecond == Spec => []BackupComplete
<1>1. Init => BackedUpOrOverwritten
  BY DEF Init, BackedUpOrOverwritten
<1>2. Inv /\ BackedUpOrOverwritten /\ [Next]_vars => BackedUpOrOverwritten'
  BY BackupStep
<1>3. BackedUpOrOverwritten => BackupComplete
  BY DEF BackedUpOrOverwritten, BackupComplete
<1> QED
  BY <1>1, <1>2, <1>3, Invariance, PTL DEF Spec

============================================================================
