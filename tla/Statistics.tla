----------------------------- MODULE Statistics -----------------------------
(***************************************************************************)
(* The report of one rolled chain: printAndRolling sums the costs of every *)
(* record, ranks the records, and posts one line for each to the Boot, as  *)
(* a warning when it has a large share of all costs.                       *)
(*                                                                         *)
(* Costs are differences of System.currentTimeMillis(), which may go back: *)
(* a cost can be negative.  Each record has as many costs as its count     *)
(* (CountMatchesCosts of TimeCostManager), and no two have one method.     *)
(* The text of a line is abstracted to its label and its level; totals are *)
(* taken to be small enough for a float to tell them apart.                *)
(***************************************************************************)
EXTENDS Integers, FiniteSets, SequencesExt

CONSTANTS
  ClassNames,  \* the names of classes, with their packages
  Simple,      \* a class's name -> what follows its last dot
  Methods,     \* the instrumented methods, overloads apart
  ClassOf,     \* method -> its class's name
  NameOf,      \* method -> its name
  Costs,       \* the costs of single calls, in milliseconds
  MaxRecords,  \* bound: records in the chain
  MaxCosts,    \* bound: calls of one method
  Share        \* the code's 10: a line is a warning from one Share-th on

ASSUME NamesAssumption ==
  /\ Simple \in [ClassNames -> ClassNames]
  /\ \A c \in ClassNames : Simple[Simple[c]] = Simple[c]
  /\ ClassOf \in [Methods -> ClassNames]

ASSUME CostsAssumption ==
  /\ Costs \subseteq Int
  /\ MaxRecords \in Nat /\ MaxCosts \in Nat /\ Share \in Nat \ {0}

VARIABLES
  records,  \* the recordList that was rolled
  info,     \* the sums and extremes over the costs of one record seen so far
  infos,    \* the StatisticInfo of each record, ranked once all are there
  summed,   \* how many of them allCost has summed up
  allCost,  \* the sum of their totals so far
  lines,    \* the lines posted
  pc

vars == <<records, info, infos, summed, allCost, lines, pc>>

Record == [method : Methods, costs : BoundedSeq(Costs, MaxCosts) \ {<<>>}]

\* new StatisticInfo(): all start at 0.
NewInfo == [seen |-> 0, total |-> 0, max |-> 0, min |-> 0]

Init ==
  /\ records \in BoundedSeq(Record, MaxRecords) \ {<<>>}
  /\ \A j, k \in DOMAIN records : j # k => records[j].method # records[k].method
  /\ info = NewInfo
  /\ infos = <<>>
  /\ summed = 0
  /\ allCost = 0
  /\ lines = <<>>
  /\ pc = "tally"

-----------------------------------------------------------------------------
(***************************************************************************)
(* The stream maps one record after the other, with a loop over its costs, *)
(* and then sorts what it has collected.                                   *)
(***************************************************************************)
Mapped == records[Len(infos) + 1]

MaxCost_Last(c) == c
MaxCost(c) == IF c > info.max THEN c ELSE info.max
MinCost(c) == IF c < info.min THEN c ELSE info.min

AddCost ==
  /\ pc = "tally"
  /\ Len(infos) < Len(records)
  /\ info.seen < Len(Mapped.costs)
  /\ LET c == Mapped.costs[info.seen + 1]
     IN info' = [seen |-> info.seen + 1, total |-> info.total + c,
                 max |-> MaxCost(c), min |-> MinCost(c)]
  /\ UNCHANGED <<records, infos, summed, allCost, lines, pc>>

\* Java's division of integers rounds towards zero.
Quotient(a, b) == IF a >= 0 THEN a \div b ELSE -((-a) \div b)

Tally ==
  /\ pc = "tally"
  /\ Len(infos) < Len(records)
  /\ info.seen = Len(Mapped.costs)
  /\ infos' = Append(infos,
       [method |-> Mapped.method, total |-> info.total,
        avg |-> Quotient(info.total, Len(Mapped.costs)),
        max |-> info.max, min |-> info.min])
  /\ info' = NewInfo
  /\ UNCHANGED <<records, summed, allCost, lines, pc>>

\* The comparator: by total, then average, then maximum, then minimum.
Key(i) == <<i.total, i.avg, i.max, i.min>>

Above(i, j) ==
  \E k \in 1..4 : /\ Key(i)[k] > Key(j)[k]
                  /\ \A l \in 1..(k - 1) : Key(i)[l] = Key(j)[l]

\* A stable ascending sort and then a reversal: equals end up in reverse order.
RanksBefore_Ascending(j, k) ==
  \/ Above(infos[k], infos[j])
  \/ Key(infos[j]) = Key(infos[k]) /\ j < k
RanksBefore(j, k) ==
  \/ Above(infos[j], infos[k])
  \/ Key(infos[j]) = Key(infos[k]) /\ j > k

Rank ==
  /\ pc = "tally"
  /\ Len(infos) = Len(records)
  /\ pc' = "post"
  /\ \E order \in [DOMAIN infos -> DOMAIN infos] :
       /\ \A j, k \in DOMAIN infos : j < k => RanksBefore(order[j], order[k])
       /\ infos' = [k \in DOMAIN infos |-> infos[order[k]]]
  /\ UNCHANGED <<records, info, summed, allCost, lines>>

AddTotal ==
  /\ pc = "post"
  /\ summed < Len(infos)
  /\ summed' = summed + 1
  /\ allCost' = allCost + infos[summed'].total
  /\ UNCHANGED <<records, info, infos, lines, pc>>

-----------------------------------------------------------------------------
Short(m) == <<Simple[ClassOf[m]], NameOf[m]>>
Full(m) == <<ClassOf[m], NameOf[m]>>

infoSet == {lines[k].label : k \in DOMAIN lines}

Label_AlwaysShort(m) == Short(m)
Label(m) == IF Short(m) \in infoSet THEN Full(m) ELSE Short(m)

\* The quotient of two floats, which may be infinite or not a number.
IsWarned_Above(total) == allCost > 0 /\ Share * total > allCost
IsWarned(total) ==
  \/ allCost > 0 /\ Share * total >= allCost
  \/ allCost < 0 /\ Share * total <= allCost
  \/ allCost = 0 /\ total > 0

Current_First == infos[1]
Current == infos[Len(lines) + 1]

LineOf(i) ==
  [method |-> i.method, label |-> Label(i.method),
   level |-> IF IsWarned(i.total) THEN "warn" ELSE "info"]

PostLine ==
  /\ pc = "post"
  /\ summed = Len(infos)
  /\ Len(lines) < Len(infos)
  /\ lines' = Append(lines, LineOf(Current))
  /\ UNCHANGED <<records, info, infos, summed, allCost, pc>>

\* The report has ended.
Ended ==
  /\ pc = "post"
  /\ summed = Len(infos)
  /\ Len(lines) = Len(infos)
  /\ UNCHANGED vars

Next == AddCost \/ Tally \/ Rank \/ AddTotal \/ PostLine \/ Ended

Spec == Init /\ [][Next]_vars

-----------------------------------------------------------------------------
StatisticInfo == [method : Methods, total : Int, avg : Int, max : Int, min : Int]
Line == [method : Methods, label : ClassNames \X {NameOf[m] : m \in Methods},
         level : {"warn", "info"}]

\* The type invariant; every line belongs to the info it was made from.
TypeOK ==
  /\ records \in Seq(Record)
  /\ info \in [seen : Nat, total : Int, max : Int, min : Int]
  /\ infos \in Seq(StatisticInfo)
  /\ summed \in 0..Len(infos)
  /\ allCost \in Int
  /\ lines \in Seq(Line)
  /\ pc \in {"tally", "post"}
  /\ Len(infos) <= Len(records) /\ Len(lines) <= Len(infos)
  /\ \A k \in DOMAIN lines : lines[k].method = infos[k].method

(***************************************************************************)
(* Whatever the clock does, the average that is shown lies between the     *)
(* minimum and the maximum that are shown with it.                         *)
(***************************************************************************)
AverageWithinRange ==
  \A k \in DOMAIN infos : infos[k].min <= infos[k].avg /\ infos[k].avg <= infos[k].max

(***************************************************************************)
(* Two lines with one label are about one method of one class, overloads   *)
(* included, unless one is about a class in the default package, whose     *)
(* full name may be what the other's label was cut down to.                *)
(***************************************************************************)
InDefaultPackage(m) == Simple[ClassOf[m]] = ClassOf[m]

LabelsTellClasses ==
  \A j, k \in DOMAIN lines :
    lines[j].label = lines[k].label =>
      LET a == lines[j].method
          b == lines[k].method
      IN /\ NameOf[a] = NameOf[b]
         /\ ClassOf[a] = ClassOf[b] \/ InDefaultPackage(a) \/ InDefaultPackage(b)

(***************************************************************************)
(* The report leaves nothing out: sorting and reversing lose no record, so *)
(* when it ends every record of the chain has had its line, and just one.  *)
(***************************************************************************)
ReportIsComplete ==
  pc = "post" /\ summed = Len(infos) /\ Len(lines) = Len(infos) =>
    \A r \in Range(records) : \E k \in DOMAIN lines :
      \A j \in DOMAIN lines : lines[j].method = r.method <=> j = k

(***************************************************************************)
(* The reader who looks for warnings need only look at the top: no warning *)
(* comes after a line that is none, unless the clock went back so far that *)
(* all costs together are negative.                                        *)
(***************************************************************************)
WarningsComeFirst ==
  allCost >= 0 =>
    \A j, k \in DOMAIN lines : j < k /\ lines[k].level = "warn" => lines[j].level = "warn"

(***************************************************************************)
(* A report that shows any cost, of no more methods than Share, warns of   *)
(* the one on top, negative costs or not: the shares cannot all be below   *)
(* one Share-th.                                                           *)
(***************************************************************************)
SomethingIsWarned ==
  allCost > 0 /\ Len(infos) <= Share /\ lines # <<>> => lines[1].level = "warn"

(***************************************************************************)
(* The inductive invariant, in named parts.                                *)
(***************************************************************************)
\* One thing after the other: the stream, the sum, the lines.
InOrder ==
  /\ pc = "tally" => summed = 0 /\ lines = <<>>
  /\ pc = "post" => Len(infos) = Len(records)
  /\ lines # <<>> => summed = Len(infos)

\* The costs seen add up to no less than as many of the minimum, and no more
\* than as many of the maximum.
TotalWithinExtremes ==
  /\ info.min <= 0 /\ 0 <= info.max
  /\ info.seen * info.min <= info.total
  /\ info.total <= info.seen * info.max

\* The totals fall from the top on, so they add up to no more than as many of
\* the one on top.
RankedByTotal ==
  pc = "post" => \A j, k \in DOMAIN infos : j < k => infos[k].total <= infos[j].total
TopBoundsSum ==
  /\ summed = 0 => allCost = 0
  /\ summed > 0 => allCost <= summed * infos[1].total

\* The infos are of different records, in the order of the chain until ranked.
OfRecords ==
  /\ \A j, k \in DOMAIN records : j # k => records[j].method # records[k].method
  /\ pc = "tally" => \A k \in DOMAIN infos : infos[k].method = records[k].method
  /\ \E place \in [DOMAIN infos -> DOMAIN records] :
       /\ IsInjective(place)
       /\ \A k \in DOMAIN infos : infos[k].method = records[place[k]].method

\* A line shows the full name of its class, or a label that no line above has,
\* and the level its info has under the whole sum.
LinesShowInfos ==
  \A k \in DOMAIN lines :
    /\ lines[k].level = (IF IsWarned(infos[k].total) THEN "warn" ELSE "info")
    /\ \/ lines[k].label = Full(lines[k].method)
       \/ /\ lines[k].label = Short(lines[k].method)
          /\ \A j \in 1..(k - 1) : lines[j].label # lines[k].label

Inv ==
  /\ TypeOK
  /\ InOrder
  /\ TotalWithinExtremes
  /\ AverageWithinRange
  /\ RankedByTotal
  /\ TopBoundsSum
  /\ OfRecords
  /\ LinesShowInfos

ClockNeverWentBack == \A k \in DOMAIN records : \A c \in Range(records[k].costs) : c >= 0

(***************************************************************************)
(* The column MIN(ms) shows the least cost of the method's calls.          *)
(***************************************************************************)
MinIsLeastCost ==
  ClockNeverWentBack =>
    \A k \in DOMAIN infos : \A r \in Range(records) :
      r.method = infos[k].method => infos[k].min = Min(Range(r.costs))
=============================================================================
