-------------------------- MODULE HeartBeatProofs --------------------------
(***************************************************************************)
(* Theorems about the heartbeat, for every interval, length of a sleep,    *)
(* jitter and latency that leave the slack SlackAssumption asks for.       *)
(***************************************************************************)
EXTENDS HeartBeat, TLAPS

-----------------------------------------------------------------------------
LEMMA RoundIsNat == Round \in Nat /\ 0 < Round
  BY TimesAssumption DEF Round

LEMMA ProductIsNat ==
  ASSUME NEW n \in Nat
  PROVE  n * Round \in Nat
  BY RoundIsNat

\* One more sleep adds one Round.
LEMMA OneMoreRound ==
  ASSUME NEW n \in Nat
  PROVE  (n + 1) * Round = n * Round + Round
  BY RoundIsNat

\* n sleeps are over no later than Flip sleeps are.
LEMMA RoundsAreOrdered ==
  ASSUME NEW n \in 1..Flip
  PROVE  (n - 1) * Round + Round <= Flip * Round
<1> DEFINE d == Flip - n
<1>1. n \in Nat /\ n - 1 \in Nat /\ d \in Nat /\ Flip = n + d /\ (n - 1) + 1 = n
  BY FlipAssumption
<1>2. (n - 1) * Round + Round = n * Round
  BY <1>1, OneMoreRound
<1>3. ASSUME NEW r \in Nat, NEW i \in Nat, NEW j \in Nat
      PROVE  i * r <= (i + j) * r
  <2>1. (i + j) * r = i * r + j * r
    BY <1>3
  <2>2. i * r \in Nat /\ j * r \in Nat
    BY <1>3
  <2> QED
    BY <2>1, <2>2
<1>4. n * Round <= (n + d) * Round
  <2> HIDE DEF d
  <2> QED
    BY <1>1, <1>3, RoundIsNat
<1> QED
  BY <1>1, <1>2, <1>4

LEMMA LastRound == Flip * Round = (Flip - 1) * Round + Round
<1>1. Flip - 1 \in Nat
  BY FlipAssumption
<1>2. (Flip - 1) + 1 = Flip
  BY FlipAssumption
<1> QED
  BY <1>1, <1>2, OneMoreRound

-----------------------------------------------------------------------------
LEMMA InvInit == Init => Inv
<1> SUFFICES ASSUME Init
             PROVE  Inv
  OBVIOUS
<1>1. TypeOK
  BY TimesAssumption, FlipAssumption DEF Init, TypeOK
<1>2. OnTime
  BY RoundIsNat DEF Init, OnTime, Requesting
<1>3. Accounted(sinceBeat) /\ Accounted(sinceGone)
  <2>1. (Flip - 1) * Round \in Nat
    BY FlipAssumption, ProductIsNat
  <2> QED
    BY <2>1, SetupAssumption, TimesAssumption DEF Init, Accounted
<1> QED
  BY <1>1, <1>2, <1>3 DEF Init, Inv

LEMMA TypeStep ==
  ASSUME TypeOK, [Next]_vars
  PROVE  TypeOK'
<1> USE FlipAssumption DEF TypeOK, Requesting
<1>1. CASE Tick
  BY <1>1 DEF Tick
<1>2. CASE SleepAgain
  BY <1>2 DEF IsDue, SleepAgain, Sleep
<1>3. CASE CheckBootExit
  BY <1>3 DEF IsDue, CheckBootExit
<1>4. CASE HandlerCheck
  BY <1>4 DEF HandlerCheck
<1>5. CASE HandlerStamp
  BY <1>5 DEF HandlerStamp
<1>6. CASE Answered
  BY <1>6 DEF Answered, Sleep, NextRound
<1>7. CASE NoAnswer \/ BootEnds
  BY <1>7 DEF NoAnswer, BootEnds
<1>8. CASE UNCHANGED vars
  BY <1>8 DEF vars
<1> QED
  BY <1>1, <1>2, <1>3, <1>4, <1>5, <1>6, <1>7, <1>8 DEF Next, Done

LEMMA OnTimeStep ==
  ASSUME TypeOK, OnTime, [Next]_vars
  PROVE  OnTime'
<1> USE RoundIsNat, TimesAssumption DEF OnTime, Requesting
<1>1. CASE Tick
  BY <1>1 DEF Tick, TypeOK
<1>2. CASE SleepAgain \/ CheckBootExit \/ Answered
  BY <1>2 DEF SleepAgain, CheckBootExit, Answered, Sleep
<1>3. CASE HandlerCheck \/ HandlerStamp \/ NoAnswer \/ BootEnds
  BY <1>3 DEF HandlerCheck, HandlerStamp, NoAnswer, BootEnds
<1>4. CASE UNCHANGED vars
  BY <1>4 DEF vars
<1> QED
  BY <1>1, <1>2, <1>3, <1>4 DEF Next, Done

\* At the check, what is accounted for is less than the interval.
LEMMA CheckIsInTime ==
  ASSUME TypeOK, OnTime, Accounted(sinceBeat), watcher = "asking"
  PROVE  ~ IsLate
<1>1. Flip * Round \in Nat
  BY FlipAssumption, ProductIsNat
<1> QED
  BY <1>1, SlackAssumption, TimesAssumption DEF TypeOK, OnTime, Accounted, IsLate, Requesting

LEMMA BootStep ==
  ASSUME Inv, [Next]_vars, watcher' # "noticed"
  PROVE  boot' # "late" /\ (boot' = "up" => sinceGone' = 0)
<1> USE DEF Inv
<1>1. CASE Tick
  BY <1>1 DEF Tick
<1>2. CASE SleepAgain \/ CheckBootExit \/ Answered
  BY <1>2 DEF SleepAgain, CheckBootExit, Answered, Sleep
<1>3. CASE HandlerCheck
  BY <1>3, CheckIsInTime DEF HandlerCheck
<1>4. CASE HandlerStamp \/ NoAnswer \/ BootEnds \/ UNCHANGED vars
  BY <1>4 DEF HandlerStamp, NoAnswer, BootEnds, vars
<1> QED
  BY <1>1, <1>2, <1>3, <1>4 DEF Next, Done

\* An age that grows only with the clock and is reset only by a stamp or while
\* the Boot is up stays accounted for.
LEMMA AgeStep ==
  ASSUME TypeOK, OnTime, [Next]_vars,
         NEW age \in Int, NEW later \in Int, Accounted(age),
         later <= 0 \/ later = age \/ (Tick /\ later = age + 1),
         HandlerStamp => later <= timer
  PROVE  /\ watcher' = "sleeping" => later <= Latency + (count' - 1) * Round + timer'
         /\ watcher' \in {"asking", "checked"} => later <= Latency + Flip * Round + timer'
         /\ watcher' = "answered" => later <= timer'
<1> DEFINE Bound(w, c, t) ==
      /\ w = "sleeping" => later <= Latency + (c - 1) * Round + t
      /\ w \in {"asking", "checked"} => later <= Latency + Flip * Round + t
      /\ w = "answered" => later <= t
<1> SUFFICES Bound(watcher', count', timer')
  OBVIOUS
<1>1. /\ Round \in Nat /\ Latency \in Nat /\ Flip \in Nat
      /\ timer \in Nat /\ count \in 0..Flip
      /\ Flip * Round \in Nat /\ (Flip - 1) * Round \in Nat
  BY RoundIsNat, TimesAssumption, FlipAssumption, ProductIsNat DEF TypeOK
<1>2. watcher = "sleeping" => count \in Nat \ {0} /\ (count - 1) * Round \in Nat
  BY <1>1, ProductIsNat DEF TypeOK
<1>3. CASE Tick
  <2>2. timer' = timer + 1 /\ UNCHANGED <<watcher, count>>
    BY <1>3 DEF Tick
  <2>1. later <= age + 1 \/ later <= 0
    BY <1>3
  <2> DEFINE slept == (count - 1) * Round
             full == Flip * Round
  <2>3. watcher = "sleeping" => slept \in Nat /\ age <= Latency + slept + timer
    BY <1>2 DEF Accounted
  <2>4. watcher \in {"asking", "checked"} => age <= Latency + full + timer
    BY DEF Accounted
  <2>5. watcher = "answered" => age <= timer
    BY DEF Accounted
  <2>6. /\ watcher' = "sleeping" => later <= Latency + slept + timer'
        /\ watcher' \in {"asking", "checked"} => later <= Latency + full + timer'
        /\ watcher' = "answered" => later <= timer'
    <3> full \in Nat
      BY <1>1
    <3> HIDE DEF slept, full
    <3> QED
      BY <1>1, <2>1, <2>2, <2>3, <2>4, <2>5
  <2> QED
    BY <2>2, <2>6
<1>4. CASE SleepAgain
  <2>1. later <= age \/ later <= 0
    BY <1>4 DEF SleepAgain, Sleep, Tick
  <2>2. /\ watcher = "sleeping" /\ watcher' = "sleeping"
        /\ timer' = 0 /\ count' = count + 1
    BY <1>4 DEF SleepAgain, Sleep
  <2>3. age <= Latency + (count - 1) * Round + timer /\ timer <= Round
    BY <2>2 DEF Accounted, OnTime
  <2>4. (count' - 1) * Round = (count - 1) * Round + Round
    <3>1. count - 1 \in Nat /\ (count - 1) + 1 = count' - 1
      BY <1>2, <2>2
    <3> QED
      BY <3>1, OneMoreRound
  <2> DEFINE slept == (count - 1) * Round
             nextSlept == (count' - 1) * Round
  <2>5. later <= Latency + nextSlept + timer'
    <3>1. slept \in Nat /\ nextSlept = slept + Round /\ age <= Latency + slept + timer
      BY <1>2, <2>2, <2>3, <2>4
    <3> HIDE DEF slept, nextSlept
    <3> QED
      BY <1>1, <2>1, <2>2, <2>3, <3>1
  <2> QED
    BY <2>2, <2>5
<1>5. CASE CheckBootExit
  <2>1. later <= age \/ later <= 0
    BY <1>5 DEF CheckBootExit, Tick
  <2>2. /\ watcher = "sleeping" /\ watcher' = "asking"
        /\ timer' = 0 /\ count = Flip
    BY <1>5 DEF IsDue, CheckBootExit
  <2>3. age <= Latency + (Flip - 1) * Round + timer /\ timer <= Round
    BY <2>2 DEF Accounted, OnTime
  <2> DEFINE slept == (Flip - 1) * Round
             full == Flip * Round
  <2>4. later <= Latency + full + timer'
    <3>1. /\ slept \in Nat /\ full \in Nat /\ full = slept + Round
          /\ age <= Latency + slept + timer
      BY <1>1, <2>3, LastRound
    <3> HIDE DEF slept, full
    <3> QED
      BY <1>1, <2>1, <2>2, <2>3, <3>1
  <2> QED
    BY <2>2, <2>4
<1>6. CASE HandlerCheck
  <2>1. later <= age \/ later <= 0
    BY <1>6 DEF HandlerCheck, Tick
  <2>2. /\ watcher = "asking" /\ watcher' \in {"asking", "checked"}
        /\ timer' = timer
    BY <1>6 DEF HandlerCheck
  <2>3. age <= Latency + Flip * Round + timer
    BY <2>2 DEF Accounted
  <2> DEFINE full == Flip * Round
  <2>4. later <= Latency + full + timer'
    <3>1. full \in Nat /\ age <= Latency + full + timer
      BY <1>1, <2>3
    <3> HIDE DEF full
    <3> QED
      BY <1>1, <2>1, <2>2, <3>1
  <2> QED
    BY <2>2, <2>4
<1>7. CASE HandlerStamp
  BY <1>7 DEF HandlerStamp
<1>8. CASE Answered
  <2>1. later <= age \/ later <= 0
    BY <1>8 DEF Answered, Sleep, Tick
  <2>2. /\ watcher = "answered" /\ watcher' = "sleeping"
        /\ timer' = 0 /\ count' = 1
    BY <1>8 DEF Answered, Sleep, NextRound
  <2>3. age <= timer /\ timer <= Latency
    BY <2>2 DEF Accounted, OnTime, Requesting
  <2>4. (count' - 1) * Round = 0
    BY <1>1, <2>2
  <2> QED
    BY <1>1, <2>1, <2>2, <2>3, <2>4
<1>9. CASE NoAnswer \/ BootEnds \/ UNCHANGED vars
  <2>1. later <= age \/ later <= 0
    BY <1>1, <1>9 DEF NoAnswer, BootEnds, Tick, vars
  <2>2. watcher' \in {watcher, "noticed"} /\ UNCHANGED <<count, timer>>
    BY <1>9 DEF NoAnswer, BootEnds, vars
  <2> DEFINE slept == (count - 1) * Round
             full == Flip * Round
  <2>3. /\ watcher = "sleeping" => slept \in Nat /\ age <= Latency + slept + timer
        /\ watcher \in {"asking", "checked"} => age <= Latency + full + timer
        /\ watcher = "answered" => age <= timer
    BY <1>2 DEF Accounted
  <2>4. /\ watcher' = "sleeping" => later <= Latency + slept + timer
        /\ watcher' \in {"asking", "checked"} => later <= Latency + full + timer
        /\ watcher' = "answered" => later <= timer
    <3> full \in Nat
      BY <1>1
    <3> HIDE DEF slept, full
    <3> QED
      BY <1>1, <2>1, <2>2, <2>3
  <2> QED
    BY <2>2, <2>4
<1> QED
  BY <1>3, <1>4, <1>5, <1>6, <1>7, <1>8, <1>9 DEF Next, Done

LEMMA InvStep == Inv /\ [Next]_vars => Inv'
<1> SUFFICES ASSUME Inv, [Next]_vars
             PROVE  Inv'
  OBVIOUS
<1>1. TypeOK'
  BY TypeStep DEF Inv
<1>2. OnTime'
  BY OnTimeStep DEF Inv
<1>3. watcher' # "noticed" => boot' # "late" /\ (boot' = "up" => sinceGone' = 0)
  BY BootStep
<1>4. Accounted(sinceBeat)'
  <2>1. \/ sinceBeat' <= 0 \/ sinceBeat' = sinceBeat
        \/ (Tick /\ sinceBeat' = sinceBeat + 1)
    BY DEF Inv, TypeOK, Next, Tick, SleepAgain, CheckBootExit, HandlerCheck, HandlerStamp, Answered,
           Sleep, NoAnswer, BootEnds, Done, vars
  <2>2. HandlerStamp => sinceBeat' <= timer
    BY DEF Inv, TypeOK, HandlerStamp
  <2>3. sinceBeat \in Int /\ sinceBeat' \in Int
    BY <1>1 DEF Inv, TypeOK
  <2> QED
    BY <2>1, <2>2, <2>3, AgeStep DEF Inv, Accounted
<1>5. Accounted(sinceGone)'
  <2>1. \/ sinceGone' <= 0 \/ sinceGone' = sinceGone
        \/ (Tick /\ sinceGone' = sinceGone + 1)
    BY DEF Inv, TypeOK, Next, Tick, SleepAgain, CheckBootExit, HandlerCheck, HandlerStamp, Answered,
           Sleep, NoAnswer, BootEnds, Done, vars
  <2>2. HandlerStamp => sinceGone' <= timer
    BY DEF Inv, TypeOK, HandlerStamp
  <2>3. sinceGone \in Int /\ sinceGone' \in Int
    BY <1>1 DEF Inv, TypeOK
  <2> QED
    BY <2>1, <2>2, <2>3, AgeStep DEF Inv, Accounted
<1> QED
  BY <1>1, <1>2, <1>3, <1>4, <1>5 DEF Inv

(***************************************************************************)
(* The heartbeat thread's counter and timer account for the age of the     *)
(* last stamp in every reachable state.                                    *)
(***************************************************************************)
THEOREM Invariance == Spec => []Inv
<1>1. Init => Inv
  BY InvInit
<1>2. Inv /\ [Next]_vars => Inv'
  BY InvStep
<1> QED
  BY <1>1, <1>2, PTL DEF Spec

\* Every state of the heartbeat is of its type; the times never go below zero.
THEOREM TypeCorrect == Spec => []TypeOK
<1>1. Inv => TypeOK
  BY DEF Inv
<1> QED
  BY <1>1, Invariance, PTL

(***************************************************************************)
(* HeartBeatHandler never ends the Boot over a target that is up, as long  *)
(* as Flip late sleeps and two requests fit into HEART_BEAT_INTERVAL.      *)
(***************************************************************************)
THEOREM BootIsNotMisled == Spec => []NoSpuriousExit
<1>1. Inv /\ NoSpuriousExit /\ [Next]_vars => NoSpuriousExit'
  <2> SUFFICES ASSUME Inv, NoSpuriousExit, [Next]_vars
               PROVE  NoSpuriousExit'
    OBVIOUS
  <2>1. CASE HandlerCheck
    BY <2>1, CheckIsInTime DEF HandlerCheck, Inv, NoSpuriousExit
  <2>2. CASE ~ HandlerCheck
    BY <2>2 DEF NoSpuriousExit, Next, Tick, SleepAgain, CheckBootExit, HandlerStamp, Answered,
                Sleep, NoAnswer, BootEnds, Done, vars
  <2> QED
    BY <2>1, <2>2
<1>2. Init => NoSpuriousExit
  BY DEF Init, NoSpuriousExit
<1> QED
  BY <1>1, <1>2, Invariance, PTL DEF Spec

(***************************************************************************)
(* HttpClientThread notices the end of the Boot, and turns to its cleanup, *)
(* in less than HEART_BEAT_INTERVAL.                                       *)
(***************************************************************************)
THEOREM CleanupStartsInTime == Spec => []NoticedInTime
<1>1. Inv => NoticedInTime
  <2> SUFFICES ASSUME Inv, watcher # "noticed"
               PROVE  sinceGone < Interval
    BY DEF NoticedInTime
  <2> DEFINE slept == (count - 1) * Round
             full == Flip * Round
  <2>1. /\ full \in Nat /\ Latency \in Nat /\ Interval \in Nat
        /\ full + 2 * Latency < Interval
    BY FlipAssumption, ProductIsNat, TimesAssumption, SlackAssumption
  <2>2. sinceGone \in Nat /\ timer \in Nat
    BY DEF Inv, TypeOK
  <2>3. CASE watcher = "sleeping"
    <3>1. count \in 1..Flip
      BY <2>3, FlipAssumption DEF Inv, TypeOK
    <3>2. slept + Round <= full
      BY <3>1, RoundsAreOrdered
    <3>3. sinceGone <= Latency + slept + timer /\ timer <= Round
      BY <2>3 DEF Inv, Accounted, OnTime
    <3>4. slept \in Nat /\ Round \in Nat
      <4>1. count - 1 \in Nat
        BY <3>1, FlipAssumption
      <4> QED
        BY <4>1, ProductIsNat, RoundIsNat
    <3> HIDE DEF slept, full
    <3> QED
      BY <2>1, <2>2, <3>2, <3>3, <3>4
  <2>4. CASE watcher \in {"asking", "checked"}
    <3>1. timer <= Latency
      BY <2>4 DEF Inv, OnTime, Requesting
    <3>2. sinceGone <= Latency + full + timer
      BY <2>4 DEF Inv, Accounted
    <3> HIDE DEF full
    <3> QED
      BY <2>1, <2>2, <3>1, <3>2
  <2>5. CASE watcher = "answered"
    <3>1. timer <= Latency /\ sinceGone <= timer
      BY <2>5 DEF Inv, OnTime, Requesting, Accounted
    <3> HIDE DEF full
    <3> QED
      BY <2>1, <2>2, <3>1
  <2> QED
    BY <2>3, <2>4, <2>5 DEF Inv, TypeOK, Requesting
<1> QED
  BY <1>1, Invariance, PTL

============================================================================
