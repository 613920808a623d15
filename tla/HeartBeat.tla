----------------------------- MODULE HeartBeat -----------------------------
(***************************************************************************)
(* The heartbeat between the target JVM and the Boot JVM, with time.       *)
(*                                                                         *)
(* HttpClientThread sleeps a second at a time, counts its sleeps, and      *)
(* every Flip of them asks the Boot's /heartbeat; HeartBeatHandler ends    *)
(* the Boot when a heartbeat comes HEART_BEAT_INTERVAL or more after the   *)
(* one before.  Nothing else in the Boot looks at the time of the last     *)
(* heartbeat, so a target that is dead is never missed, and one that is    *)
(* merely slow is taken for dead.                                          *)
(*                                                                         *)
(* Time is counted in ticks.  A sleep may last up to Jitter longer than    *)
(* asked for, and a request may take up to Latency, split in any way       *)
(* between its way in, the handler and its way out.                        *)
(***************************************************************************)
EXTENDS Integers

CONSTANTS
  Interval,  \* Settings.HEART_BEAT_INTERVAL
  Second,    \* the length of one sleep
  Jitter,    \* by how much a sleep may be late
  Latency,   \* the longest a request may take
  Setup      \* the longest time from checkHttpConnection to the first sleep

\* The number of sleeps from one heartbeat to the next.
Flip == Interval \div Second - 1

Round == Second + Jitter

ASSUME TimesAssumption ==
  /\ Interval \in Nat /\ Second \in Nat \ {0}
  /\ Jitter \in Nat /\ Latency \in Nat /\ Setup \in Nat

\* HEART_BEAT_INTERVAL is at least two seconds: with less, Flip would be 0 or
\* negative and the counter would pass it after the first heartbeat.
ASSUME FlipAssumption == Flip \in Nat \ {0}

\* The interval leaves room for the jitter of its sleeps and two requests.
ASSUME SlackAssumption == Flip * Round + 2 * Latency < Interval

ASSUME SetupAssumption == Setup <= (Flip - 1) * Round + Latency

VARIABLES
  watcher,    \* the heartbeat thread: what it is doing
  count,      \* its counter of sleeps
  timer,      \* how long it has been sleeping, or waiting for the answer
  boot,       \* "up", "gone", or "late" when the handler has ended it
  sinceBeat,  \* time since lastHeartBeatTime was written, -1 if it is -1
  sinceGone   \* time since the Boot ended, 0 while it is up

vars == <<watcher, count, timer, boot, sinceBeat, sinceGone>>

\* A heartbeat of checkHttpConnection may have been served before the thread
\* starts.  The counter starts at Flip, so the first sleep is followed by one.
Init ==
  /\ watcher = "sleeping"
  /\ count = Flip
  /\ timer = 0
  /\ boot = "up"
  /\ sinceBeat \in {-1} \cup 0..Setup
  /\ sinceGone = 0

Requesting == {"asking", "checked", "answered"}

\* Time passes until the thread is due.
Tick ==
  /\ \/ watcher = "sleeping" /\ timer < Round
     \/ watcher \in Requesting /\ timer < Latency
  /\ timer' = timer + 1
  /\ sinceBeat' = IF sinceBeat = -1 THEN -1 ELSE sinceBeat + 1
  /\ sinceGone' = IF boot = "up" THEN 0 ELSE sinceGone + 1
  /\ UNCHANGED <<watcher, count, boot>>

Sleep(next) ==
  /\ watcher' = "sleeping"
  /\ timer' = 0
  /\ count' = next

\* The sleep just over is the last one of its round.
IsDue_Missed == count > Flip
IsDue == count = Flip

SleepAgain ==
  /\ watcher = "sleeping" /\ timer >= Second
  /\ ~ IsDue
  /\ Sleep(count + 1)
  /\ UNCHANGED <<boot, sinceBeat, sinceGone>>

CheckBootExit ==
  /\ watcher = "sleeping" /\ timer >= Second
  /\ IsDue
  /\ watcher' = "asking"
  /\ timer' = 0
  /\ count' = 0
  /\ UNCHANGED <<boot, sinceBeat, sinceGone>>

\* HeartBeatHandler: the check, then the stamp with a second look at the clock.
IsLate == sinceBeat # -1 /\ sinceBeat >= Interval

HandlerCheck ==
  /\ watcher = "asking" /\ boot = "up"
  /\ IF IsLate THEN boot' = "late" /\ UNCHANGED watcher
     ELSE watcher' = "checked" /\ UNCHANGED boot
  /\ UNCHANGED <<count, timer, sinceBeat, sinceGone>>

HandlerStamp ==
  /\ watcher = "checked" /\ boot = "up"
  /\ watcher' = "answered"
  /\ sinceBeat' = 0
  /\ UNCHANGED <<count, timer, boot, sinceGone>>

\* The answer arrives, even if the Boot has ended after sending it; the
\* counter moves on to the first sleep of the next round.
NextRound_NotCounted == 0
NextRound == 1

Answered ==
  /\ watcher = "answered"
  /\ Sleep(NextRound)
  /\ UNCHANGED <<boot, sinceBeat, sinceGone>>

\* The request fails: the thread goes to undo the instrumentation.
NoAnswer ==
  /\ watcher \in Requesting
  /\ boot # "up"
  /\ watcher' = "noticed"
  /\ UNCHANGED <<count, timer, boot, sinceBeat, sinceGone>>

BootEnds ==
  /\ boot = "up"
  /\ boot' = "gone"
  /\ UNCHANGED <<watcher, count, timer, sinceBeat, sinceGone>>

\* The thread has left its loop.
Done ==
  /\ watcher = "noticed"
  /\ UNCHANGED vars

Next ==
  \/ Tick
  \/ SleepAgain
  \/ CheckBootExit
  \/ HandlerCheck
  \/ HandlerStamp
  \/ Answered
  \/ NoAnswer
  \/ BootEnds
  \/ Done

Spec == Init /\ [][Next]_vars

-----------------------------------------------------------------------------
\* The type invariant.
TypeOK ==
  /\ watcher \in {"sleeping", "noticed"} \cup Requesting
  /\ count \in 0..Flip
  /\ watcher = "sleeping" => count # 0
  /\ timer \in Nat
  /\ boot \in {"up", "gone", "late"}
  /\ sinceBeat \in Nat \cup {-1}
  /\ sinceGone \in Nat

(***************************************************************************)
(* The Boot never takes a target that is up for one in error: while the    *)
(* heartbeat thread runs within its jitter, no heartbeat is late.          *)
(***************************************************************************)
NoSpuriousExit == boot # "late"

(***************************************************************************)
(* When the Boot has ended, the target starts its cleanup before another   *)
(* HEART_BEAT_INTERVAL has passed, wherever in its round it was.           *)
(***************************************************************************)
NoticedInTime == watcher # "noticed" => sinceGone < Interval

(***************************************************************************)
(* The inductive invariant: neither clock is ahead of what the counter and *)
(* the timer account for, a request's way out included.                    *)
(***************************************************************************)
Accounted(age) ==
  /\ watcher = "sleeping" => age <= Latency + (count - 1) * Round + timer
  /\ watcher \in {"asking", "checked"} => age <= Latency + Flip * Round + timer
  /\ watcher = "answered" => age <= timer

OnTime ==
  /\ watcher = "sleeping" => timer <= Round
  /\ watcher \in Requesting => timer <= Latency

Inv ==
  /\ TypeOK
  /\ OnTime
  /\ watcher # "noticed" => boot # "late" /\ (boot = "up" => sinceGone = 0)
  /\ Accounted(sinceBeat)
  /\ Accounted(sinceGone)
=============================================================================
