-------------------------- MODULE TimeCostManager --------------------------
(***************************************************************************)
(* The recorder inside the target JVM: the advice ByteBuddy inlines at the *)
(* entry and the exit of every instrumented method (MethodTimeCostAdvice), *)
(* AdviceUtil.record, and the TimeCostManager singleton they feed.         *)
(*                                                                         *)
(* Every application thread runs the advice on its own stack.  mergeRecord *)
(* and printAndRolling are synchronized on the singleton; canRecord(b) is  *)
(* not: it bumps an AtomicInteger and writes a volatile flag, so it may    *)
(* fall between any two steps of the other two.                            *)
(*                                                                         *)
(* A call is named by its thread, its position among the calls of that     *)
(* thread and its method.  A cost pair is the call that produced it, and a *)
(* recordList, which mergeRecord keeps to one record per method, is a      *)
(* function from methods to records; count = 0 says there is no record.    *)
(* The Java stack of a thread is the set of its open calls: the innermost  *)
(* is the youngest.                                                        *)
(***************************************************************************)
EXTENDS Naturals, FiniteSets

CONSTANTS
  Threads,      \* the application threads
  Names,        \* the thread names
  NameOf,       \* the name of each thread; two threads may share one
  Methods,      \* the instrumented methods
  EnterMethods, \* the overloads of the method given with -c and -m
  MaxCalls,     \* bound: calls of instrumented methods by one thread
  MaxStops,     \* bound: canRecord(false) calls
  MaxTime,      \* bound: the last millisecond of the clock
  NoThread,     \* the monitor's owner when it is free
  NoChain       \* what a map returns for a key it does not hold

ASSUME ThreadsAssumption ==
  /\ NameOf \in [Threads -> Names]
  /\ NoThread \notin Threads

ASSUME MethodsAssumption == EnterMethods \subseteq Methods

ASSUME BoundsAssumption ==
  /\ MaxCalls \in Nat
  /\ MaxStops \in Nat
  /\ MaxTime \in Nat

Call == [thread : Threads, index : 1..MaxCalls, method : Methods]
TimeCostRecord == [count : Nat, costs : SUBSET Call]
TimeCostChain == [Methods -> TimeCostRecord]

ASSUME ChainAssumption == NoChain \notin TimeCostChain

VARIABLES
  costMap,    \* thread name -> its chain, or NoChain
  backup,     \* thread name -> millisecond -> the chain rolled then, or NoChain
  canRecord,  \* the volatile flag
  seq,        \* the AtomicInteger printed in a report's header
  monitor,    \* the thread inside printAndRolling, or NoThread
  todo,       \* the names that thread has still to roll
  open,       \* thread -> its calls that have not returned
  made,       \* thread -> how many calls it has started
  pc,         \* thread -> where it is in the advice
  now,        \* System.currentTimeMillis()
  reports,    \* the statistics posted to the Boot JVM
  done,       \* history: the calls that returned normally
  rolls,      \* history: thread name -> millisecond -> how often rolled
  stops       \* how often recording was switched off, up to MaxStops

recorderVars == <<costMap, backup, canRecord, seq, monitor, todo, reports>>
threadVars == <<open, made, pc, done>>
vars == <<recorderVars, threadVars, now, rolls, stops>>

Millis == 0..MaxTime
Where == {"run", "bump", "flag", "merge", "roll", "rolling"}
Report == [seq : Nat, printer : Threads, name : Names, chain : TimeCostChain]

EmptyChain == [m \in Methods |-> [count |-> 0, costs |-> {}]]

\* The youngest open call of a thread, as a set of at most one.
Innermost(t) == {c \in open[t] : \A d \in open[t] : d.index <= c.index}

CostsIn(chain) == UNION {chain[m].costs : m \in Methods}

\* The calls waiting in costMap, and the calls some report has shown.
PendingOf(n) == IF costMap[n] = NoChain THEN {} ELSE CostsIn(costMap[n])
Pending == UNION {PendingOf(n) : n \in Names}
Reported == UNION {CostsIn(r.chain) : r \in reports}

-----------------------------------------------------------------------------
Init ==
  /\ costMap = [n \in Names |-> NoChain]
  /\ backup = [n \in Names |-> [ms \in Millis |-> NoChain]]
  /\ canRecord = FALSE
  /\ seq = 0
  /\ monitor = NoThread
  /\ todo = {}
  /\ open = [t \in Threads |-> {}]
  /\ made = [t \in Threads |-> 0]
  /\ pc = [t \in Threads |-> "run"]
  /\ now = 0
  /\ reports = {}
  /\ done = {}
  /\ rolls = [n \in Names |-> [ms \in Millis |-> 0]]
  /\ stops = 0

At(t, from, to) ==
  /\ pc[t] = from
  /\ pc' = [pc EXCEPT ![t] = to]

(***************************************************************************)
(* onEnter.  A call of the enter method switches recording on before its   *)
(* body runs: first the sequence number, then the flag.  The message it    *)
(* posts next changes nothing here.                                        *)
(***************************************************************************)
OnEnter(t, m) ==
  /\ made[t] < MaxCalls
  /\ At(t, "run", IF m \in EnterMethods THEN "bump" ELSE "run")
  /\ made' = [made EXCEPT ![t] = @ + 1]
  /\ open' = [open EXCEPT ![t] =
                @ \cup {[thread |-> t, index |-> made[t] + 1, method |-> m]}]
  /\ UNCHANGED <<recorderVars, done, now, rolls, stops>>

BumpSeq(t) ==
  /\ At(t, "bump", "flag")
  /\ seq' = seq + 1
  /\ UNCHANGED <<costMap, backup, canRecord, monitor, todo, reports, open, made, done, now, rolls, stops>>

SetFlag(t) ==
  /\ At(t, "flag", "run")
  /\ canRecord' = TRUE
  /\ UNCHANGED <<costMap, backup, seq, monitor, todo, reports, open, made, done, now, rolls, stops>>

\* The body ends in an exception: the exit advice is not declared for that.
Throw(t) ==
  /\ pc[t] = "run"
  /\ open[t] # {}
  /\ open' = [open EXCEPT ![t] = @ \ Innermost(t)]
  /\ UNCHANGED <<recorderVars, made, pc, done, now, rolls, stops>>

\* The body returns: onExit builds the record and goes to merge it.
OnExit(t) ==
  /\ open[t] # {}
  /\ At(t, "run", "merge")
  /\ UNCHANGED <<recorderVars, open, made, done, now, rolls, stops>>

-----------------------------------------------------------------------------
\* synchronized: nobody else is inside printAndRolling.
MonitorFree_Unlocked == TRUE
MonitorFree == monitor = NoThread

\* The record of a method takes one more cost pair.
Merge_AddsListSize(record, c) ==
  [count |-> record.count + Cardinality(record.costs \cup {c}),
   costs |-> record.costs \cup {c}]
Merge(record, c) == [count |-> record.count + 1, costs |-> record.costs \cup {c}]

MergeIntoChain(chain, c) == [chain EXCEPT ![c.method] = Merge(@, c)]

\* After the merge a call of the enter method stays open until it has printed.
LeaveMerge(t, c) ==
  /\ At(t, "merge", IF c.method \in EnterMethods THEN "roll" ELSE "run")
  /\ open' = IF c.method \in EnterMethods THEN open
             ELSE [open EXCEPT ![t] = @ \ {c}]
  /\ done' = done \cup {c}
  /\ UNCHANGED <<backup, canRecord, seq, monitor, todo, reports, made, now, rolls, stops>>

MergeRecord(t) ==
  /\ MonitorFree
  /\ canRecord
  /\ \E c \in Innermost(t) :
       /\ LeaveMerge(t, c)
       /\ costMap' = [costMap EXCEPT ![NameOf[t]] =
                        MergeIntoChain(IF @ = NoChain THEN EmptyChain ELSE @, c)]

DropRecord(t) ==
  /\ MonitorFree
  /\ ~canRecord
  /\ \E c \in Innermost(t) : LeaveMerge(t, c)
  /\ UNCHANGED costMap

-----------------------------------------------------------------------------
(***************************************************************************)
(* printAndRolling, called from the onExit of the enter method.  The owner *)
(* of the monitor visits every key of costMap in the map's order, which    *)
(* the code does not fix.  A chain goes to the backup and is replaced by   *)
(* an empty one before it is posted; an empty chain is not posted.         *)
(***************************************************************************)
RollKeys_ByThread(t) == {t}
RollKeys_OwnChain(t) == {n \in Names : costMap[n] # NoChain /\ n = NameOf[t]}
RollKeys(t) == {n \in Names : costMap[n] # NoChain}

BeginRolling(t) ==
  /\ MonitorFree
  /\ At(t, "roll", "rolling")
  /\ monitor' = t
  /\ todo' = RollKeys(t)
  /\ UNCHANGED <<costMap, backup, canRecord, seq, reports, open, made, done, now, rolls, stops>>

\* What the chain and its backup hold once their lists have been exchanged.
NewList_Kept(chain) == chain
NewList(chain) == EmptyChain
BackedUp_AfterExchange(chain) == EmptyChain
BackedUp(chain) == chain

RollChain(t, n) ==
  /\ monitor = t
  /\ n \in todo
  /\ todo' = todo \ {n}
  /\ costMap' = [costMap EXCEPT ![n] = NewList(@)]
  /\ backup' = [backup EXCEPT ![n][now] = BackedUp(costMap[n])]
  /\ rolls' = [rolls EXCEPT ![n][now] = @ + 1]
  /\ reports' = IF costMap[n] = EmptyChain THEN reports
                ELSE reports \cup
                     {[seq |-> seq, printer |-> t, name |-> n, chain |-> costMap[n]]}
  /\ UNCHANGED <<canRecord, seq, monitor, threadVars, now, stops>>

\* The monitor is released and the flag is left as it is.
Release_Forgotten == UNCHANGED <<monitor, canRecord>>
Release_SwitchesOff == monitor' = NoThread /\ canRecord' = FALSE
Release == monitor' = NoThread /\ UNCHANGED canRecord

EndRolling(t) ==
  /\ monitor = t
  /\ todo = {}
  /\ At(t, "rolling", "run")
  /\ Release
  /\ open' = [open EXCEPT ![t] = @ \ Innermost(t)]
  /\ UNCHANGED <<costMap, backup, seq, todo, reports, made, done, now, rolls, stops>>

-----------------------------------------------------------------------------
\* The heartbeat thread's cleanup calls canRecord(false), at any moment.
StopRecording ==
  /\ stops < MaxStops
  /\ stops' = stops + 1
  /\ canRecord' = FALSE
  /\ UNCHANGED <<costMap, backup, seq, monitor, todo, reports, threadVars, now, rolls>>

Tick ==
  /\ now < MaxTime
  /\ now' = now + 1
  /\ UNCHANGED <<recorderVars, threadVars, rolls, stops>>

\* The application has stopped calling instrumented methods.
Quiescent ==
  /\ \A t \in Threads : pc[t] = "run" /\ open[t] = {} /\ made[t] = MaxCalls
  /\ UNCHANGED vars

Advice(t) ==
  \/ BumpSeq(t)
  \/ SetFlag(t)
  \/ MergeRecord(t)
  \/ DropRecord(t)
  \/ BeginRolling(t)
  \/ \E n \in Names : RollChain(t, n)
  \/ EndRolling(t)

Application(t) ==
  \/ \E m \in Methods : OnEnter(t, m)
  \/ Throw(t)
  \/ OnExit(t)

Next ==
  \/ \E t \in Threads : Application(t) \/ Advice(t)
  \/ StopRecording
  \/ Tick
  \/ Quiescent

Spec == Init /\ [][Next]_vars

(***************************************************************************)
(* The JVM keeps running every thread that is not blocked, so a thread in  *)
(* the advice takes its next step.  Nothing is assumed of the application: *)
(* it may never call, never return, or always throw.                       *)
(***************************************************************************)
FairSpec == Spec /\ \A t \in Threads : WF_vars(Advice(t))

-----------------------------------------------------------------------------
ChainOrNone == TimeCostChain \cup {NoChain}

\* The type invariant.
TypeOK ==
  /\ costMap \in [Names -> ChainOrNone]
  /\ backup \in [Names -> [Millis -> ChainOrNone]]
  /\ canRecord \in BOOLEAN
  /\ seq \in Nat
  /\ monitor \in Threads \cup {NoThread}
  /\ todo \subseteq Names
  /\ open \in [Threads -> SUBSET Call]
  /\ made \in [Threads -> 0..MaxCalls]
  /\ pc \in [Threads -> Where]
  /\ now \in Millis
  /\ reports \subseteq Report
  /\ done \subseteq Call
  /\ rolls \in [Names -> [Millis -> Nat]]
  /\ stops \in 0..MaxStops

(***************************************************************************)
(* A call's cost is shown by at most one report, and never while it still  *)
(* waits in costMap: the list that is posted and the list that goes on     *)
(* collecting are never the same list.                                     *)
(***************************************************************************)
ReportedOnce ==
  /\ Pending \cap Reported = {}
  /\ \A r1, r2 \in reports :
       r1 # r2 => CostsIn(r1.chain) \cap CostsIn(r2.chain) = {}

(***************************************************************************)
(* In every record, waiting or posted, count is the number of cost pairs.  *)
(* The average of a posted record is its total divided by count, so a      *)
(* record that is shown has a positive divisor and the right one.          *)
(***************************************************************************)
CountMatchesCosts ==
  LET Consistent(chain) ==
        \A m \in Methods : chain[m].count = Cardinality(chain[m].costs)
  IN /\ \A n \in Names : costMap[n] # NoChain => Consistent(costMap[n])
     /\ \A r \in reports : Consistent(r.chain)

(***************************************************************************)
(* Unless the cleanup has switched recording off, a call of the enter      *)
(* method that returned, and every call that returned inside one that is   *)
(* still open, is waiting or reported.  The flag is shared by all threads: *)
(* what one thread does at its exit must not cost another its records.     *)
(***************************************************************************)
NoCallDropped ==
  stops = 0 =>
    \A c \in done :
      (\/ c.method \in EnterMethods
       \/ \E e \in open[c.thread] : e.method \in EnterMethods /\ e.index < c.index)
      => c \in Pending \cup Reported

(***************************************************************************)
(* When printAndRolling returns, no cost of any thread is waiting: the     *)
(* monitor it holds while it posts keeps every merge out, so what the user *)
(* sees after a call of the enter method is everything up to that moment.  *)
(***************************************************************************)
RollLeavesNothing ==
  [][monitor # NoThread /\ monitor' = NoThread => Pending' = {}]_vars

(***************************************************************************)
(* The backup is keyed by the millisecond.  As long as no two rolls of a   *)
(* thread name fall into the same one, it holds every chain posted for     *)
(* that name; two in one millisecond and the earlier chain is gone.        *)
(***************************************************************************)
BackupComplete ==
  \A n \in Names :
    (\A ms \in Millis : rolls[n][ms] <= 1)
    => \A r \in reports : r.name = n => \E ms \in Millis : backup[n][ms] = r.chain

(***************************************************************************)
(* The inductive invariant, in named parts.                                *)
(***************************************************************************)
\* The open calls of a thread are its own and among those it has started.
StackWellFormed ==
  \A t \in Threads : \A c \in open[t] : c.thread = t /\ c.index <= made[t]

\* A call has been through mergeRecord only if its thread started it, and is
\* still open after that only while it prints.
DoneOnce ==
  /\ \A c \in done : c.index <= made[c.thread]
  /\ \A t \in Threads : \A c \in open[t] :
       c \in done => pc[t] \in {"roll", "rolling"} /\ c \in Innermost(t)

\* The monitor belongs to the thread that rolls; what it has not to roll any
\* more, or never had to, holds no costs.
MonitorOwned ==
  /\ \A t \in Threads : monitor = t <=> pc[t] = "rolling"
  /\ \A n \in todo : costMap[n] # NoChain
  /\ monitor = NoThread => todo = {}
  /\ monitor # NoThread => \A n \in Names \ todo : PendingOf(n) = {}

\* A cost sits under the name of its thread and under its method.
WellFiled ==
  /\ \A n \in Names : costMap[n] # NoChain =>
       \A m \in Methods : \A c \in costMap[n][m].costs :
         c.method = m /\ NameOf[c.thread] = n
  /\ Pending \cup Reported \subseteq done

\* Until the cleanup, recording is on while a call of the enter method is open
\* and past the first part of its entry advice.
EnterKeepsFlag ==
  stops = 0 =>
    \A t \in Threads : \A e \in open[t] :
      e.method \in EnterMethods =>
        canRecord \/ (pc[t] \in {"bump", "flag"} /\ e \in Innermost(t))

\* Together with the two invariants above they say why a step keeps them.
Inv ==
  /\ TypeOK
  /\ StackWellFormed
  /\ DoneOnce
  /\ MonitorOwned
  /\ WellFiled
  /\ ReportedOnce
  /\ EnterKeepsFlag

\* A thread that has entered the advice gets back to the application's code.
AdviceCompletes == \A t \in Threads : (pc[t] # "run") ~> (pc[t] = "run")

(***************************************************************************)
(* The recorder implements the ledger.  A report is an instant there, and  *)
(* here it is the moment the monitor is taken: from then on the chains     *)
(* still to be rolled count as reported.                                   *)
(***************************************************************************)
Ledger == INSTANCE CostLedger
            WITH Calls <- Call,
                 recording <- canRecord,
                 pending <- IF monitor = NoThread THEN Pending ELSE {},
                 reported <- IF monitor = NoThread THEN Reported
                             ELSE Reported \cup Pending

LedgerSpec == Ledger!Spec
=============================================================================
