# JMA, specified

JMA times the calls of a method in a running JVM. Its user starts the *Boot* program with the
process id of the *target* JVM, a class (`-c`), a method (`-m`) and a port (`-p`, default 8090).
The Boot serves HTTP on that port and attaches to the target, where the *agent* finds the methods
the given one calls, rewrites their classes with ByteBuddy, and from then on posts a table of costs
to the Boot each time the method returns. When the Boot ends, the agent is to take its
instrumentation out again (`src/README.md:9`).

This directory holds TLA+ modules of that program, the TLC configurations that check them, and
proofs checked by TLAPS. `PROJECT.json` lists components, runs, mutants, hazards and theorems, and
maps every definition that models code to its lines.

## The system

Paths are under `src/`: **A** is `Agent/src/main/java/cn/dyq/agent`, **B** is
`Boot/src/main/java/org/dyq/boot`, **C** is `Common/src/main/java/org/dyq/common`.

| component | state it keeps | operations | what is hard |
|---|---|---|---|
| Recorder, `A/core/TimeCostManager` | `costMap` (thread name to chain), `backup`, volatile `canRecord`, atomic `seq`, the singleton's monitor | `canRecord(b)`, `mergeRecord`, `printAndRolling` | every application thread calls it; the flag is outside the monitor; a report posts over HTTP inside it |
| Advice, `A/advice/MethodTimeCostAdvice`, `AdviceUtil` | the start time, on the Java stack | `onEnter`, `onExit`, `record` | nesting, recursion, overlapping calls, bodies that throw |
| Statistics, in `printAndRolling` | none | totals, average, minimum, maximum, order, 10% warning | division by `count`, a minimum that starts at 0 |
| Agent start-up, `A/AgentMain`, `A/GlobalConfig` | the `GlobalConfig` singleton: port, transformer, instrumentation, class set, enter method | `agentmain`, the setters | runs beside the heartbeat thread; no lock; a later session overwrites an earlier one |
| Transformers, `A/advice/TimeCostTransformer`, `ResetTransformer` | `originalClassBytesMap`; the list of transformers of each session's `Instrumentation`; the code of the classes | `transform` | the order in which transformers run, several sessions, a class ByteBuddy fails on |
| Heartbeat thread, `A/http/HttpClientThread` | the sleep counter | the round of sleeps and polls; the cleanup | the Boot may end at any moment, also before there is anything to clean up |
| Heartbeat handler, `B/http/HeartBeatHandler` | static `lastHeartBeatTime` | test, `System.exit`, stamp | the test runs only when a heartbeat comes |
| Boot program, `B/Main` | its process | start the server, attach, load the agent, wait, end | ended by Ctrl-C at any moment |
| HTTP client side, `A/http/HttpTransUtil` | none | `checkHttpConnection`, `sendInfo`... | failures are swallowed |
| Method hierarchy, `A/hierarchy` | the set of methods found so far | `readClassMethodHierarchy`, `visitMethod` | recursive traversal over cyclic call graphs; the result depends on the order |
| Message display, `B/http/ClientMessageHandler`, `PrintUtil`, `HttpSvrUtil`; data in **C** | none | print a message | none |

They interact so. The Boot calls `loadAgent`, which returns when `agentmain` has. `agentmain`
checks that the Boot answers, starts the heartbeat thread, writes `GlobalConfig`, registers its
transformer and has the JVM rewrite the classes. The rewritten methods call the advice on the
application's threads; the advice feeds the recorder, and the exit of the enter method makes it
print. The heartbeat thread polls the Boot's `/heartbeat`; the handler looks at the time since the
last one. When nobody answers, the thread reads `GlobalConfig`, removes the transformer, resets
the classes with a `ResetTransformer` and switches recording off.

What makes each correct:

* recorder: a cost is shown once, in full, with a right count; a report misses nothing that had
  ended; a thread in the advice gets back to its application;
* start-up, transformers and cleanup: an attached session is instrumented by its own transformer;
  kept bytes are original or an earlier session's, but for one mixture of three sessions; when no Boot
  is alive the target becomes clean;
* all together: what the user attached for is shown by the Boot that was attached, and recording
  stops with the rest of the agent's work;
* heartbeat: no live target is taken for dead; the end of the Boot is noticed in time;
* statistics: average, minimum and maximum fit together and are those of the costs; a label tells
  whose line it is; warnings stand on top, and there is one;
* hierarchy: the walk ends at a bounded depth, finds nothing out of reach, and no class in part.

## The modules

| module | models | how state and actions correspond |
|---|---|---|
| `CostLedger` | what the recorder promises | calls pending and reported; `Enter`, `ReportAll`, `Switch` |
| `TimeCostManager` | advice and recorder | the recorder's fields by name; a thread's stack is the set of its `open` calls; `pc` says where it is in the advice. One action per step that others can observe: `OnEnter`, `BumpSeq` and `SetFlag` (the two writes of `canRecord(true)`), `OnExit`, `Throw`, `MergeRecord` or `DropRecord`, `BeginRolling`, one `RollChain` per key of `costMap`, `EndRolling`, and `StopRecording` of the cleanup |
| `AgentPresence` | what the agent promises a user who runs one session after the other | the Boots and the code of the classes; `Instrument` and `CleanUp` change all classes in one step |
| `AgentLifecycle` | Boot, `agentmain`, `GlobalConfig`, transformers, cleanup | a session is one run of the Boot; `config` is `GlobalConfig`, each field by the session that wrote it; `instrumentation` and `local` are what a heartbeat thread has read of it. `transformers` has the list of each session's `Instrumentation`, `saved` the bytes kept, `code` what the classes run. Each setter, JVM call and read of shared state is an action. `retransformClasses` is a start (`Retransform`, `Reset`), for each environment the reading of its list and one step per transformer in it (`Transform`, `TransformBack`), and the install, before which the JVM may reject the result |
| `JMA` | the whole: `AgentLifecycle`, the recorder of `CostLedger`, the application's threads | each thread has a `stack` of calls and a `pc` in the advice; a call is `timed` if its class ran rewritten code when it began. The advice asks `config` at entry (`CheckEntry`) and again at exit (`CheckExit`); a report is taken (`TakeReport`) and posted to whoever serves the port (`PostReport`). `taken` is a history of the costs that reports took; no guard reads it |
| `Statistics` | the stream of `printAndRolling` over one rolled chain | each turn of a loop is a step: `AddCost` of the one over a record's costs, with its sums in `info`; `Tally` makes the record's `StatisticInfo`, and `Rank` sorts them; `AddTotal` sums `allCost` up, with `summed` its counter; `PostLine` posts a line. `infoSet` is the code's |
| `HeartBeat` | the heartbeat thread's round and the handler, in time | `count` is the loop's counter, `timer` the time in the present sleep or request, `sinceBeat` the age of `lastHeartBeatTime`; the handler's test and stamp are two actions, since it reads the clock twice |
| `MethodHierarchy` | `MethodHierarchyUtil`, `HierarchyClassVisitor` | the Java recursion is the variable `stack`: a visitor has `todo`, the methods `ClassReader.accept` has still to show it, and `calls`, the call instructions left in the body it reads. `VisitKnown` and `VisitMethod` are `visitMethod`; `VisitOwnCall`, `VisitCall`, `VisitUnreadable` and `Return` are `visitMethodInsn` up to the nested `accept` and after it |
| `MCTimeCostManager`, `MCAgentLifecycle`, `MCJMA`, `MCStatistics`, `MCMethodHierarchy` | | instances for TLC |
| `TimeCostManagerProofs`, `HeartBeatProofs`, `MethodHierarchyProofs`, `MethodHierarchyResultProofs`, `StatisticsProofs`, `AgentLifecycleProofs`, `AgentPresenceProofs`, `JMAProofs` | | theorems |

`TimeCostManager` implements `CostLedger`, and `JMA` uses the recorder in that form; that it does, with threads that have stacks and
sessions that come and go, is its own `LedgerSpec`. `AgentLifecycle`
implements `AgentPresence` for a patient user (below), and `JMA` extends `AgentLifecycle` and
takes its steps as they are; only the last step of a cleanup, `canRecord(false)`, is felt by the recorder
(`SwitchOff`). Names that both have are prefixed there (`SystemNext`, `SystemSpec`). The walk's result enters the lifecycle as any non-empty set of
classes, or an exception; the rolled chain of `Statistics` is any list of records such as the recorder makes.

### Abstractions

*Recorder.* A cost pair is the call that produced it, so a lost or doubled cost is a lost or
doubled call. `mergeRecord` keeps one record per method in a chain, so a chain is a function from
methods. In `JMA` a report takes all pending calls at one moment, which `LedgerSpec` justifies.

*Bytecode* is abstracted to whose code it is: a `TimeCostTransformer` makes its code from
the class file, not from what an earlier transformer returned (`redefine` reads the class file), and a
`ResetTransformer` returns the bytes its transformer was given. The JVM takes the classes one after
the other through all transformers; the model takes them through each transformer together. No
transformer looks at another class than the one it is given, and nothing is installed before the
last one, so the order cannot be observed. Only where a list changes while a retransformation is under way
could one class find another list than the next. For a patient user (below) that happens only in an attach whose Boot has been killed; the
instance of `lifecycle_overlap` has one class; and what is claimed of kept bytes is claimed of each class by itself.

*Instrumentations.* The JVM gives every `loadAgent` an `Instrumentation` of its own, with its own list of
transformers and an environment of its own, made when the first transformer is added to that list.
`GlobalConfig` holds the latest, and a heartbeat thread adds to, and removes from, the one it has read, which may be
another session's: removing a transformer that is in another list does nothing. A retransformation goes through the environments
in the order in which they were made, and reads the list of each when it comes to it. The order is taken to be that in which the
`agentmain`s began (`earlier`): one runs after the other, and between `setInstrument` and
`addTransformer` nothing of `agentmain` can throw.

*HTTP.* A poll is one step: at the moment
it is decided, somebody serves the port or nobody does. `checkHttpConnection` has three tries and
fails only if all do; one step covers them, since the moment of the last try decides a failure and
that of the successful one a success. Its URL has two slashes, so whether it stamps
`lastHeartBeatTime` is up to the HTTP server: `HeartBeat` starts with and without a stamp. The posts
of one report are one step.

*Walk.* The class files of `MethodHierarchy` are constants, and the bodies of its methods are chosen in the
initial state: a body is the sequence of its calls. `equalsIgnoreCase`, by which a visitor tells its
own class, is equality; classes whose names differ only in case are not modelled. A class whose file
cannot be read and one that cannot be loaded are both in `Unreadable`. The given class is taken to be
readable: `agentmain` has found it among the loaded ones, and if it belongs to another class loader
the attach fails at once.

*Statistics.* The text of a line is its label and its level. The code's tenth is a `Share`-th. Floats
are taken to be exact, but for what division by zero gives: totals small enough for a float to
tell apart are all that a report has in practice.

*Memory.* `GlobalConfig` has plain fields read and written by several threads. The Java memory model would
let a thread see old values; the model takes these reads and writes to be sequentially consistent.
What it finds wrong happens under that assumption too, and what it finds right needs it.

## The runs

| run | what it asks | result |
|---|---|---|
| `recorder_safety` | type, inductive invariant, costs shown once, counts, nothing dropped, the backup, the report complete, the ledger | holds |
| `recorder_liveness` | two threads of one name: counts, and the advice completes | holds |
| `lifecycle_orderly` | sessions one after the other, each ended after its attach: the agent's work stops, an attached session is instrumented, the inductive invariants, and the abstract presence is implemented, liveness included | holds |
| `lifecycle_overlap` | sessions on ports of their own, two started and ended at any moment or three with one cleanup at a time: kept bytes are original or an earlier session's, unless a cleanup straddles the session | holds |
| `lifecycle_killed_attach` | the agent's work stops though the Boot is ended during its attach | **violated** |
| `lifecycle_restart` | the agent's work stops though the Boot is started again at once | **violated** |
| `jma_calls` | a call of the enter method of an attached session is shown by its Boot when it returns; no cost is shown to two users; types and the one holder of the monitor; the ledger | holds |
| `jma_recording` | recording stops when no Boot lives | **violated** |
| `statistics` | type, inductive invariant, the average is in range, labels tell classes apart, every record has just one line, warnings stand on top, and there is one | holds |
| `statistics_min` | the column `MIN(ms)` shows the least cost | **violated** |
| `heartbeat` | no live target taken for dead; the end noticed within one interval; the inductive invariant, types included | holds |
| `hierarchy` | type, inductive invariant, the walk ends and each step of it leaves less to do; its depth is bounded; it finds nothing out of reach, no class in part, and follows the first enter method's calls | holds |

Three violations contradict `src/README.md:9`, "结束agent vm进程，目标jvm的agent相关工作会停止并清理": when
the agent VM process ends, the agent's work in the target JVM stops and is cleaned up.

* `lifecycle_killed_attach`: `agentmain` starts the heartbeat thread before it sets the
  instrumentation in `GlobalConfig`. If the Boot ends then, `checkBootExit` finds nothing to undo
  and its thread ends; `agentmain` goes on to rewrite the classes, and nobody takes that back. The
  hierarchy walk lies in that window, and a poll comes one second after the start.
* `lifecycle_restart`: up to eight seconds pass before the end of a Boot is noticed. A Boot started
  meanwhile attaches, and overwrites the transformer in `GlobalConfig`. Both heartbeat threads then
  poll the new Boot, and when it ends both remove the new transformer. The old one stays in the
  list of the first session's `Instrumentation`, and what the reset puts back need not be the original code.
* `jma_recording`: a call of the enter method that has passed the test of `onEnter` before the cleanup
  may call `canRecord(true)` after the cleanup's `canRecord(false)`. The classes are reset by then,
  so little comes of it: recording stays on for calls already on the stack.

The fourth violation is a disagreement of the code with its own header: `minCost` starts at 0 and is replaced
only by a smaller cost (`A/core/TimeCostManager.java:88`), so `MIN(ms)` shows 0 unless the clock has gone back.

`lifecycle_overlap` holds with an exception, `Straddled`, that the code has and no document speaks of. The
heartbeat thread of a session reads the `Instrumentation` at line 51 of `HttpClientThread` and the transformer at
line 53. If two more sessions attach in between, it has the `Instrumentation` of the first and the transformer of the third: line 55
removes nothing, and the reset that line 59 adds runs ahead of the transformers of the second and the third. It
hands the second's transformer what the third's was given, which is the second's own code, and that is then
kept as if it were there before. Without the exception TLC finds this with three sessions, and not with two.

### Bounds

*Recorder.* Two threads with two calls each let a call of one thread fall before, inside and after every step
of a report by the other, and let one thread nest or recurse; a third thread would only repeat the
role of the second. `MaxTime = 1` gives two milliseconds, which rolls share or do not; with
`MaxTime = 0` every roll shares one. One `StopRecording` is what a cleanup does.

*Lifecycle.* Two sessions are
needed for the configuration of one to be overwritten by another, and three for a cleanup to straddle one.
In `lifecycle_orderly` one class is rewritten, one is a core class that is passed through, and one makes ByteBuddy
fail. In `lifecycle_overlap` each session has a port of its own, so that Boots can live at once and their
cleanups can run beside an `agentmain`; one class is enough, since the classes are independent. Two of the
sessions overlap in any way; once the third has started, only states are looked at in which attaches succeed and are let finish and one
cleanup runs at a time (`TwoOrThree`, a constraint): that is what straddling takes, and all
ways of three sessions are too many for a run of a few minutes. The theorems have no such bound.
With one port two Boots never live at once, and the theorem about `OverlapInv` holds for any ports.
A patient user who ends a Boot during its attach is in no passing run:
that an attached session is instrumented then too is the theorem `AttachedStaysInstrumented`.

*The whole.* Two sessions with different enter methods in one class, and two threads with one call
each: a call of the first session may stay on the stack through the cleanup and the second attach,
and end as the second session's method, while the other thread's call begins or reports. With two calls per
thread, or Boots ended while they attach, the composition has too many states
for a run of a few minutes; the theorem `PromisesAreKept` has no such bound. `jma_recording` needs one session and one call.

*Statistics.* Up to three of four methods, with one or two costs each from -1, 0 and 2: two overloads,
a class of the same short name in another package and one in the default package; totals that tie,
cancel out or are negative; averages that are rounded. `Share = 2` lets three lines lie on both sides of
the boundary, and a report have more methods than shares.

*Heartbeat.* A tick is 100 ms; interval (80) and sleep (10) are the code's, jitter and
latency of one tick leave the slack the theorem needs: seven sleeps of 1.1 s and two requests fit
into 8 s, and with jitter 2 they would not.

*Walk.* The given class has a
helper before two overloads of the enter method, the first with up to two calls; the class it may
call has a constructor, a superclass and a method that may call an array's; every body may call
back into the others. So a body is met before it is looked for, again while it is being read, and
by way of a superclass or a constructor.

No state is cut off other than by these bounds, and only `lifecycle_overlap` has a constraint.

### Fairness

`TimeCostManager!FairSpec`: a thread inside the advice takes its next step. The JVM runs runnable
threads, and the monitor's owner never waits for another thread of the model; its posts end (a Boot
that hangs with open connections would hold it, for the HTTP client sets no timeout). Nothing is
assumed of the application. Weak fairness is enough only because the calls are bounded: with calls
for ever a thread could in principle be overtaken at the monitor each time, and a Java monitor is
not fair.

`AgentLifecycle!FairSpec`: `agentmain`, the heartbeat thread and the Boot's return from `loadAgent`
keep taking steps. The user need never start or end a Boot. The polls that are answered are
stutters, and one that is not answered is enabled from the end of the Boot on until a new one
starts, so weak fairness is what the loop of sleeps gives.

`AgentPresence` asks the same of its one `CleanUp`, and `lifecycle_orderly` shows that the fairness of
the concrete steps gives it.

`JMA!FairSystemSpec`: the same threads of the agent, and a thread in the advice takes its next step. The application need
never call or return.

`HeartBeat` has no liveness property: its bounds on sleeps and requests turn "noticed at last"
into the safety property `NoticedInTime`.

`MethodHierarchy!FairSpec`: the thread of `agentmain` runs on.

## What is proved

*Recorder.* For any threads, names, methods and bounds (`ThreadsAssumption`, `MethodsAssumption`,
`BoundsAssumption`, `ChainAssumption`), `TimeCostManagerProofs` has `Inv` and from it every safety
property of the recorder, and the refinement of `CostLedger`.

The inductive invariant is the conjunction of named parts. "Reported once" is not inductive alone:
that a merge adds a *new* cost needs that a call is in `done` only while its thread prints
(`DoneOnce`), that all costs are of done calls, filed under their thread's name and method
(`WellFiled`), and that a thread's open calls are its own (`StackWellFormed`). That a report misses
nothing needs `MonitorOwned`: the names not to be rolled any more hold no costs while the monitor is
held, as no merge can come between. `EnterKeepsFlag` says why nothing is dropped: only the cleanup
clears the flag, so it is on while a call of the enter method is open. `CountsAreRight` needs
`Inv` and the fact that adding a new element to a finite set adds one to its cardinality.
`BackupComplete` follows from an invariant of its own: what was rolled under a key of the backup is
there, or was overwritten by another roll of that name in that millisecond.

The ledger step is the moment the monitor is taken: from then on the chains still to be rolled
count as reported. `RollChain` therefore maps to a stutter, and merges cannot interfere.

*Lifecycle, overlapping.* `AgentLifecycleProofs` shows, for any sessions on any ports that are started and
ended at any moment, and any classes (`SessionsAssumption`), that the variables keep their types and that kept bytes are
original or an earlier session's. Types are not a formality here: that no transformer is ever
registered for a null session needs that a cleanup reads what an `agentmain` has written
(`ConfigIsWritten`). For the bytes, one `agentmain` runs after the other, since
the target has one attach listener (`MainsInOrder`), and a heartbeat thread reads the `Instrumentation` once and the
transformer once (`ReadInTurn`). So in the list of a session's `Instrumentation` stand the resets of the heartbeat threads that have read it
and, at most once, its own transformer, with only resets of its own and of earlier sessions ahead of that (`InPlace`). A
retransformation that works on a list is through with those of all earlier sessions (`ComesInOrder`). While the transformer of a session
is still to run, in the list at hand or in one not come to yet, what has run was therefore of earlier sessions, or a reset of
one that is not later unless its cleanup straddles the session; and nobody holds code of a session that has not begun
(`CodeIsOfBegun`). So what that transformer is given is original or an earlier session's (`GivenIsEarlier`), and that is what it keeps.

*Lifecycle, one session after the other.* `AgentPresenceProofs` adds assumptions on the user. With
`Patient`, who starts a Boot when the last session is over, an attached session stays
instrumented, whatever a killed attach has left in the lists: one session is busy at a time (`OneAtATime`), its
heartbeat thread asks its own Boot and goes no further while that lives (`AsksItsBoot`), and its
transformer is the last one its classes go through (`OwnIsLast`), its environment being the latest. With `~KillsDuringAttach` as well, who
lets each attach finish, the one busy session accounts for every registered transformer and
every rewritten class (`OrderlyInv`), and from that every step of the lifecycle is a step of `AgentPresence` or
a stutter: the install of a cleanup is its `CleanUp`, because the classes it resets include all that run another code
than their own (`OneIsCompiled`). Both assumptions are needed: the two violated lifecycle runs drop one each.

*Heartbeat.* `HeartBeatProofs` shows, for every interval, sleep, jitter and latency with
`Flip * Round + 2 * Latency < Interval` (`SlackAssumption`) and an interval of at least two
sleeps (`FlipAssumption`), that no live target is taken for dead and that the end of the Boot is
noticed within an interval. The invariant bounds both ages by what the counter and the timer account for:
the way out of the last request, `count - 1` whole sleeps, and the present one.

*Walk.* `MethodHierarchyProofs` shows, for all classes with finitely many methods, every hierarchy and every
program (`ClassesAssumption`, `FiniteAssumption`, `ProgramsAssumption`), that the walk nests no deeper
than there are methods and finds no class out of reach. That two visitors of the stack never read the
same body (`ReadOnce`) needs that every body being read is of a method in `methods`
(`ReadsOwnMethods`), so that one about to be read is new; the readings are then an injection into
the methods, which bounds their number. That a visited class is reached needs that each visitor but
the last stands at a call of the next one's class (`AtCall`), found in the body it reads: a set that
is closed under calls and superclasses keeps all of them.

`MethodHierarchyResultProofs` shows what the result holds. Each visitor has still to visit what it
has not got in the set (`WholeOrVisited`), so a class found and no longer visited is there whole. The
first overload of the enter method cannot be met before its own visitor reads it, and the bottom visitor then has its calls
in front of it until they are followed (`EnterFollowed`).

That the walk ends is liveness, but what makes it end is an action property, and proved: `WalkDescends`. A step may
start a visitor with a whole class before it, and still something gets less: the methods not known yet; or, if they
stay, the calls not followed yet, where a visitor below the top counts as done with the call it is inside of; or, if
those stay too, the visitors and the methods they have still to visit. The counts are numbers (`AheadIsCounted`), and triples of numbers do not descend
for ever. Calls and visits are counted as finite sets of pairs of a position on the stack and a number, from which each step takes pairs
away: a sum over the stack could only be reasoned about by induction.

*The whole.* `JMAProofs` shows, for a patient user, any threads, methods and numbers of calls, and any sessions on any ports,
killed attaches included, that a promised call is shown by its Boot when it returns (`PromisesAreKept`). Every step of the whole is one of the
lifecycle or leaves it alone, so what is proved of the lifecycle holds here: while a Boot lives, `GlobalConfig` is
its session's (`EnterIsOwn`), its port is polled and posted to, and no cleanup runs (`OnlyItsOwn`). So a promised call that has been
entered, at any depth of a stack, has recording on until it returns (`PromisesRecorded`), and from its merge on its cost is
pending, in the report that holds the monitor, or shown (`PromisesWait`).

The rest needs no assumption about the user: the types of the whole, and that the monitor has one holder; that the recorder
implements the ledger (`RecorderKeepsLedger`); and that no cost is displayed twice or to two users (`CostsAreShownOnce`). A thread's stack
holds calls of its own that it has made, and none twice (`StackOfCalls`), and of a call that has been merged only the rest of its exit
advice is left (`MergedOnce`): so a merge adds a new call, and a report takes none again. Two reports are never posted at once, no two Boots answer on one port (`PortsApart`), and what a report has taken
waits for nobody else (`DisplayedOnce`).

*Statistics.* `StatisticsProofs` has all of the run's invariants, for any classes, methods, costs, chains and shares. Sums over data cannot be
reasoned about by folds here, but the code does not fold: it has loops, the model takes their turns as steps, and the sums become
variables with invariants. After `seen` costs the total lies between `seen` times the minimum and `seen` times the maximum
(`TotalWithinExtremes`), and Java's division, which rounds towards zero, keeps the average between them (`AverageWithinRange`), since
the extremes start at 0. Once ranked, no info has a larger total than one above it (`RankedByTotal`), so that what has been summed
up is at most the counter times the total on top (`TopBoundsSum`): a report of at most `Share` methods with a positive sum warns of its
first line, and no warning follows a line that is none. Every record has just one line in the end because the ranking is a permutation
(`OfRecords`), and the lines follow it (`LinesShowInfos`). Labels tell classes apart because once a short label is
taken, only the full one is given for that class and name, and a full name with a dot is no short one.

Only model-checked: liveness (`AdviceCompletes`, `AgentWorkStops`, `WalkEnds`, the fairness of
`PresenceSpec`), since that and `ENABLED` are out of the prover's reach. No module declares a `RECURSIVE` operator.

## What is not modelled

*Vendored code.* `Appli/toolsrc` holds classes and resources of the JDK's `tools.jar`, packaged for two
platforms, among them the only JavaScript of the repository (the query editor of `jhat`, the start-up script
of `jrunscript`, the script of Javadoc pages). The program uses `com.sun.tools.attach` from there
and nothing else; no JavaScript of it is ever run by JMA. All of JMA is Java.

*Bytecode.* What a class file holds besides methods and calls. Classes loaded after the attach: `transform` is called for them with
no class to redefine, fails, and leaves them alone.

*Display.* Console output, option parsing, JSON and
dates: no state. `getCallStack`: it fills a field nothing reads. `ConstructorTimeCostAdvice`:
nothing uses it. The demo, the test programs and the build files.

*Failures.* An exception of the cleanup's own `retransformClasses`: the bytes it puts back
are ones the JVM has accepted. A Boot that hangs with its connections open: see Fairness.

*Left without a property* (each with its reason under "hazards" in `PROJECT.json`): costs that still wait when a session is cleaned up
are shown by the next one's first report; while two Boots live on two ports the end of the first is not noticed,
because both heartbeat threads poll the port of the second; the Boot never notices that its
target has died; `backup` and `costMap` only grow. The model shows them, and nothing in the repository says
otherwise.

## Plan

Done, in this order: the recorder with its ledger; the lifecycle; the heartbeat; the method
hierarchy; the composition `JMA`; `Statistics`; `AgentPresence`; the proofs about each; the loops of `Statistics` as
steps, and the proofs that this made possible; the ledger and the single display in `JMA`; the descent of the walk.

What could come next:

1. Measures for the other liveness properties, as for the walk: a cleanup that has begun and a thread in the advice each
   have finitely many steps of their own before them.
2. `JMA` with the recorder of `TimeCostManager` in place of the ledger's, for the threads' steps inside a report
   beside those of the agent.
