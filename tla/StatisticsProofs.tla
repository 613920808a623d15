-------------------------- MODULE StatisticsProofs --------------------------
(***************************************************************************)
(* What a report tells, for any classes, methods, costs and chains: that   *)
(* Inv is inductive, and the properties it implies.  The loops over costs  *)
(* and infos are steps of the specification, so an invariant of each says  *)
(* of its sum what an induction over the sequence would.                   *)
(***************************************************************************)
EXTENDS Statistics, SequenceTheorems, FiniteSetTheorems, TLAPS

-----------------------------------------------------------------------------
(***************************************************************************)
(* Arithmetic: products with a count, and Java's division.                 *)
(***************************************************************************)
LEMMA TimesMonotone ==
  ASSUME NEW n \in Nat, NEW a \in Int, NEW b \in Int, a <= b
  PROVE  n * a <= n * b
<1>1. PICK d \in Nat : b = a + d
  <2>1. b - a \in Nat /\ b = a + (b - a)
    OBVIOUS
  <2> QED
    BY <2>1
<1>2. n * b = n * a + n * d
  BY <1>1
<1>3. n * d \in Nat /\ n * a \in Int
  OBVIOUS
<1> QED
  BY <1>2, <1>3

LEMMA DivWithin ==
  ASSUME NEW n \in Nat \ {0}, NEW a \in Nat, NEW max \in Int, a <= n * max
  PROVE  a \div n \in Nat /\ a \div n <= max
<1>1. a \div n \in Nat /\ n * (a \div n) <= a
  OBVIOUS
<1>2. ASSUME max + 1 <= a \div n
      PROVE  FALSE
  <2>1. n * (max + 1) <= n * (a \div n)
    BY <1>1, <1>2, TimesMonotone
  <2>2. n * (max + 1) = n * max + n
    OBVIOUS
  <2>3. n * max \in Int /\ n * (a \div n) \in Int
    BY <1>1
  <2> QED
    BY <1>1, <2>1, <2>2, <2>3
<1> QED
  BY <1>1, <1>2

LEMMA QuotientWithin ==
  ASSUME NEW n \in Nat \ {0}, NEW a \in Int, NEW min \in Int, NEW max \in Int,
         min <= 0, 0 <= max, n * min <= a, a <= n * max
  PROVE  Quotient(a, n) \in Int /\ min <= Quotient(a, n) /\ Quotient(a, n) <= max
<1>1. CASE a >= 0
  <2>1. a \div n \in Nat /\ a \div n <= max
    BY <1>1, DivWithin
  <2> QED
    BY <1>1, <2>1 DEF Quotient
<1>2. CASE ~(a >= 0)
  <2>1. -a \in Nat /\ -a <= n * (-min)
    BY <1>2
  <2>2. (-a) \div n \in Nat /\ (-a) \div n <= -min
    BY <2>1, DivWithin
  <2> QED
    BY <1>2, <2>2 DEF Quotient
<1> QED
  BY <1>1, <1>2
-----------------------------------------------------------------------------
(***************************************************************************)
(* Records, infos and labels.                                              *)
(***************************************************************************)
LEMMA BoundedSeqIsSeq ==
  ASSUME NEW S, NEW n \in Nat, NEW s \in BoundedSeq(S, n)
  PROVE  s \in Seq(S)
<1>1. PICK m \in 0..n : s \in [1..m -> S]
  BY DEF BoundedSeq, SeqOf
<1>2. m \in Nat
  BY <1>1
<1> QED
  BY <1>1, <1>2, SeqDef

LEMMA RecordType ==
  ASSUME NEW r \in Record
  PROVE  /\ r.method \in Methods
         /\ Len(r.costs) \in Nat \ {0}
         /\ DOMAIN r.costs = 1..Len(r.costs)
         /\ \A k \in 1..Len(r.costs) : r.costs[k] \in Int
<1>1. r.method \in Methods /\ r.costs \in BoundedSeq(Costs, MaxCosts) /\ r.costs # <<>>
  BY DEF Record
<1>2. r.costs \in Seq(Costs)
  BY <1>1, BoundedSeqIsSeq, CostsAssumption
<1>3. Len(r.costs) \in Nat /\ Len(r.costs) # 0
  BY <1>1, <1>2, LenProperties, EmptySeq
<1>4. \A k \in 1..Len(r.costs) : r.costs[k] \in Costs
  BY <1>2, ElementOfSeq
<1> QED
  BY <1>1, <1>2, <1>3, <1>4, LenProperties, CostsAssumption

LEMMA LabelType ==
  ASSUME NEW m \in Methods
  PROVE  Label(m) \in ClassNames \X {NameOf[n] : n \in Methods}
<1>1. ClassOf[m] \in ClassNames /\ Simple[ClassOf[m]] \in ClassNames
  BY NamesAssumption
<1> QED
  BY <1>1 DEF Label, Short, Full

\* The lengths and domains that TypeOK gives.
LEMMA Lengths ==
  ASSUME TypeOK
  PROVE  /\ Len(records) \in Nat /\ Len(infos) \in Nat /\ Len(lines) \in Nat
         /\ summed \in Nat /\ summed <= Len(infos)
         /\ Len(lines) <= Len(infos) /\ Len(infos) <= Len(records)
         /\ DOMAIN records = 1..Len(records)
         /\ DOMAIN infos = 1..Len(infos)
         /\ DOMAIN lines = 1..Len(lines)
         /\ \A k \in 1..Len(records) : records[k] \in Record
         /\ \A k \in 1..Len(infos) : infos[k] \in StatisticInfo
         /\ \A k \in 1..Len(lines) : lines[k] \in Line
<1>1. records \in Seq(Record) /\ infos \in Seq(StatisticInfo) /\ lines \in Seq(Line)
  BY DEF TypeOK
<1>2. Len(records) \in Nat /\ Len(infos) \in Nat /\ Len(lines) \in Nat
  BY <1>1, LenProperties
<1>3. DOMAIN records = 1..Len(records) /\ DOMAIN infos = 1..Len(infos) /\ DOMAIN lines = 1..Len(lines)
  BY <1>1, LenProperties
<1> QED
  BY <1>1, <1>2, <1>3, ElementOfSeq DEF TypeOK

LEMMA InfoType ==
  ASSUME TypeOK, NEW k \in DOMAIN infos
  PROVE  /\ infos[k].method \in Methods
         /\ infos[k].total \in Int /\ infos[k].avg \in Int
         /\ infos[k].max \in Int /\ infos[k].min \in Int
<1>1. infos[k] \in StatisticInfo
  BY Lengths
<1> QED
  BY <1>1 DEF StatisticInfo

-----------------------------------------------------------------------------
LEMMA InitInv == Init => Inv
<1> SUFFICES ASSUME Init
             PROVE  Inv
  OBVIOUS
<1>1. records \in Seq(Record)
  BY BoundedSeqIsSeq, CostsAssumption DEF Init
<1>2. /\ infos = <<>> /\ lines = <<>> /\ summed = 0 /\ allCost = 0 /\ pc = "tally"
      /\ info = [seen |-> 0, total |-> 0, max |-> 0, min |-> 0]
  BY DEF Init, NewInfo
<1>3. /\ infos \in Seq(StatisticInfo) /\ lines \in Seq(Line)
      /\ Len(infos) = 0 /\ Len(lines) = 0
      /\ DOMAIN infos = {} /\ DOMAIN lines = {}
  BY <1>2, EmptySeq
<1>4. Len(records) \in Nat
  BY <1>1, LenProperties
<1>5. TypeOK
  BY <1>1, <1>2, <1>3, <1>4 DEF TypeOK
<1>6. OfRecords
  <2>1. \A j, k \in DOMAIN records : j # k => records[j].method # records[k].method
    BY DEF Init
  <2>2. \E place \in [DOMAIN infos -> DOMAIN records] :
          IsInjective(place) /\ \A k \in DOMAIN infos : infos[k].method = records[place[k]].method
    <3> DEFINE place == [k \in {} |-> k]
    <3>1. place \in [DOMAIN infos -> DOMAIN records]
      BY <1>3
    <3>2. IsInjective(place)
      BY DEF IsInjective
    <3> QED
      BY <1>3, <3>1, <3>2
  <2> QED
    BY <1>3, <2>1, <2>2 DEF OfRecords
<1>7. InOrder /\ TotalWithinExtremes /\ AverageWithinRange /\ RankedByTotal /\ TopBoundsSum
  BY <1>2, <1>3 DEF InOrder, TotalWithinExtremes, AverageWithinRange, RankedByTotal, TopBoundsSum
<1>8. LinesShowInfos
  BY <1>3 DEF LinesShowInfos
<1> QED
  BY <1>5, <1>6, <1>7, <1>8 DEF Inv

-----------------------------------------------------------------------------
(***************************************************************************)
(* The loop over one record's costs.                                       *)
(***************************************************************************)
LEMMA AddCostInv == Inv /\ AddCost => Inv'
<1> SUFFICES ASSUME Inv, AddCost
             PROVE  Inv'
  OBVIOUS
<1> TypeOK
  BY DEF Inv
<1>1. /\ UNCHANGED <<records, infos, summed, allCost, lines, pc>>
      /\ Len(infos) < Len(records) /\ info.seen < Len(Mapped.costs)
  BY DEF AddCost
<1>2. PICK c : /\ c = Mapped.costs[info.seen + 1]
               /\ info' = [seen |-> info.seen + 1, total |-> info.total + c,
                           max |-> MaxCost(c), min |-> MinCost(c)]
  BY DEF AddCost
<1>3. info.seen \in Nat /\ info.total \in Int /\ info.max \in Int /\ info.min \in Int
  BY DEF TypeOK
<1>4. c \in Int
  <2>1. Mapped \in Record
    BY <1>1, Lengths DEF Mapped
  <2> QED
    BY <1>1, <1>2, <1>3, <2>1, RecordType
<1>5. /\ MaxCost(c) \in Int /\ MinCost(c) \in Int
      /\ c <= MaxCost(c) /\ info.max <= MaxCost(c)
      /\ MinCost(c) <= c /\ MinCost(c) <= info.min
  BY <1>3, <1>4 DEF MaxCost, MinCost
<1>6. /\ info'.seen = info.seen + 1 /\ info'.total = info.total + c
      /\ info'.max = MaxCost(c) /\ info'.min = MinCost(c)
  BY <1>2
<1>7. TypeOK'
  <2>1. info' \in [seen : Nat, total : Int, max : Int, min : Int]
    BY <1>2, <1>3, <1>4, <1>5
  <2> QED
    BY <1>1, <2>1 DEF TypeOK
<1>8. TotalWithinExtremes'
  <2>1. /\ info.min <= 0 /\ 0 <= info.max
        /\ info.seen * info.min <= info.total
        /\ info.total <= info.seen * info.max
    BY DEF Inv, TotalWithinExtremes
  <2>2. /\ info.seen * info.max <= info.seen * MaxCost(c)
        /\ info.seen * MinCost(c) <= info.seen * info.min
    BY <1>3, <1>5, TimesMonotone
  <2>3. /\ (info.seen + 1) * MaxCost(c) = info.seen * MaxCost(c) + MaxCost(c)
        /\ (info.seen + 1) * MinCost(c) = info.seen * MinCost(c) + MinCost(c)
    BY <1>3, <1>5
  <2>4. /\ info.seen * info.max \in Int /\ info.seen * MaxCost(c) \in Int
        /\ info.seen * info.min \in Int /\ info.seen * MinCost(c) \in Int
    BY <1>3, <1>5
  <2>5. info.total + c <= info.seen * MaxCost(c) + MaxCost(c)
    BY <1>3, <1>4, <1>5, <2>1, <2>2, <2>4
  <2>6. info.seen * MinCost(c) + MinCost(c) <= info.total + c
    BY <1>3, <1>4, <1>5, <2>1, <2>2, <2>4
  <2>7. MinCost(c) <= 0 /\ 0 <= MaxCost(c)
    BY <1>3, <1>5, <2>1
  <2> QED
    BY <1>6, <2>3, <2>5, <2>6, <2>7 DEF TotalWithinExtremes
<1>9. (InOrder /\ AverageWithinRange /\ RankedByTotal /\ TopBoundsSum /\ OfRecords)'
  BY <1>1 DEF Inv, InOrder, AverageWithinRange, RankedByTotal, TopBoundsSum, OfRecords
<1>10. LinesShowInfos'
  BY <1>1 DEF Inv, LinesShowInfos, IsWarned, Full, Short
<1> QED
  BY <1>7, <1>8, <1>9, <1>10 DEF Inv

(***************************************************************************)
(* One record is mapped: its average lies in range.                        *)
(***************************************************************************)
LEMMA TallyInv == Inv /\ Tally => Inv'
<1> SUFFICES ASSUME Inv, Tally
             PROVE  Inv'
  OBVIOUS
<1> TypeOK
  BY DEF Inv
<1> DEFINE n == Len(infos)
<1>1. /\ pc = "tally" /\ n < Len(records) /\ info.seen = Len(Mapped.costs)
      /\ UNCHANGED <<records, summed, allCost, lines, pc>>
      /\ info' = [seen |-> 0, total |-> 0, max |-> 0, min |-> 0]
  BY DEF Tally, NewInfo
<1>2. PICK i : /\ i = [method |-> Mapped.method, total |-> info.total,
                       avg |-> Quotient(info.total, Len(Mapped.costs)),
                       max |-> info.max, min |-> info.min]
               /\ infos' = Append(infos, i)
  BY DEF Tally
<1>3. n \in Nat /\ n + 1 \in 1..Len(records) /\ Mapped = records[n + 1]
  BY <1>1, Lengths DEF Mapped
<1>4. Mapped.method \in Methods /\ Len(Mapped.costs) \in Nat \ {0}
  BY <1>3, Lengths, RecordType
<1>5. info.total \in Int /\ info.max \in Int /\ info.min \in Int
  BY DEF TypeOK
<1>6. /\ i.avg \in Int /\ i.min <= i.avg /\ i.avg <= i.max
  <2>1. /\ info.min <= 0 /\ 0 <= info.max
        /\ Len(Mapped.costs) * info.min <= info.total
        /\ info.total <= Len(Mapped.costs) * info.max
    BY <1>1 DEF Inv, TotalWithinExtremes
  <2> QED
    BY <1>2, <1>4, <1>5, <2>1, QuotientWithin
<1>7. i \in StatisticInfo
  BY <1>2, <1>4, <1>5, <1>6 DEF StatisticInfo
<1>8. /\ infos' \in Seq(StatisticInfo)
      /\ Len(infos') = n + 1 /\ DOMAIN infos' = 1..(n + 1)
      /\ \A k \in 1..n : infos'[k] = infos[k]
      /\ infos'[n + 1] = i
  <2>1. infos \in Seq(StatisticInfo)
    BY DEF TypeOK
  <2> QED
    BY <1>2, <1>7, <2>1, AppendProperties, LenProperties
<1>9. summed = 0 /\ lines = <<>>
  BY <1>1 DEF Inv, InOrder
<1>10. Len(lines) = 0 /\ DOMAIN lines = {}
  BY <1>9, EmptySeq
<1>11. TypeOK'
  <2>1. info' \in [seen : Nat, total : Int, max : Int, min : Int]
    BY <1>1
  <2>2. summed' \in 0..Len(infos')
    BY <1>1, <1>3, <1>8, <1>9
  <2>3. Len(infos') <= Len(records') /\ Len(lines') <= Len(infos')
    BY <1>1, <1>3, <1>8, <1>10
  <2> QED
    BY <1>1, <1>8, <1>10, <2>1, <2>2, <2>3 DEF TypeOK
<1>12. InOrder' /\ TotalWithinExtremes' /\ RankedByTotal' /\ TopBoundsSum' /\ LinesShowInfos'
  BY <1>1, <1>9, <1>10 DEF Inv, InOrder, TotalWithinExtremes, RankedByTotal, TopBoundsSum, LinesShowInfos
<1>13. AverageWithinRange'
  <2>1. SUFFICES ASSUME NEW k \in 1..(n + 1)
                 PROVE  infos'[k].min <= infos'[k].avg /\ infos'[k].avg <= infos'[k].max
    BY <1>8 DEF AverageWithinRange
  <2>2. CASE k \in 1..n
    BY <1>8, <2>2, Lengths DEF Inv, AverageWithinRange
  <2>3. CASE k = n + 1
    BY <1>6, <1>8, <2>3
  <2> QED
    BY <1>3, <2>2, <2>3
<1>14. OfRecords'
  <2>1. \A k \in 1..(n + 1) : infos'[k].method = records[k].method
    <3>1. \A k \in 1..n : infos'[k].method = records[k].method
      BY <1>1, <1>8, Lengths DEF Inv, OfRecords
    <3>2. infos'[n + 1].method = records[n + 1].method
      BY <1>2, <1>3, <1>8
    <3> QED
      BY <1>3, <3>1, <3>2
  <2>2. PICK place : place = [k \in 1..(n + 1) |-> k]
    OBVIOUS
  <2>3. place \in [1..(n + 1) -> 1..Len(records)] /\ IsInjective(place)
    BY <1>3, <2>2, Lengths DEF IsInjective
  <2>4. \A k \in 1..(n + 1) : infos'[k].method = records[place[k]].method
    BY <2>1, <2>2
  <2>5. \A j, k \in DOMAIN records : j # k => records[j].method # records[k].method
    BY DEF Inv, OfRecords
  <2>6. place \in [DOMAIN infos' -> DOMAIN records]
    BY <1>8, <2>3, Lengths
  <2>7. \A k \in DOMAIN infos' : infos'[k].method = records[place[k]].method /\ infos'[k].method = records[k].method
    BY <1>8, <2>1, <2>4
  <2> QED
    BY <1>1, <2>3, <2>5, <2>6, <2>7 DEF OfRecords
<1> QED
  BY <1>11, <1>12, <1>13, <1>14 DEF Inv

-----------------------------------------------------------------------------
(***************************************************************************)
(* The infos are ranked: none is lost, and the totals fall.                *)
(***************************************************************************)
\* What ranks above, or as an equal, has no smaller total; nothing ranks
\* before itself.
LEMMA RankingByTotal ==
  ASSUME TypeOK, NEW j \in DOMAIN infos, NEW k \in DOMAIN infos, RanksBefore(j, k)
  PROVE  infos[k].total <= infos[j].total /\ j # k
<1>1. /\ infos[j].total \in Int /\ infos[j].avg \in Int /\ infos[j].max \in Int /\ infos[j].min \in Int
      /\ infos[k].total \in Int /\ infos[k].avg \in Int /\ infos[k].max \in Int /\ infos[k].min \in Int
  BY InfoType
<1>2. DOMAIN infos \subseteq Nat
  BY Lengths
<1>3. CASE Above(infos[j], infos[k])
  <2>1. PICK h \in 1..4 : /\ Key(infos[j])[h] > Key(infos[k])[h]
                          /\ \A l \in 1..(h - 1) : Key(infos[j])[l] = Key(infos[k])[l]
    BY <1>3 DEF Above
  <2>2. Key(infos[j])[h] \in Int
    BY <1>1 DEF Key
  <2>3. j # k
    BY <2>1, <2>2
  <2>4. Key(infos[j])[1] = infos[j].total /\ Key(infos[k])[1] = infos[k].total
    BY DEF Key
  <2>5. CASE h = 1
    BY <1>1, <2>1, <2>3, <2>4, <2>5
  <2>6. CASE h # 1
    <3>1. 1 \in 1..(h - 1)
      BY <2>6
    <3> QED
      BY <1>1, <2>1, <2>3, <2>4, <3>1
  <2> QED
    BY <2>5, <2>6
<1>4. CASE Key(infos[j]) = Key(infos[k]) /\ j > k
  <2>1. Key(infos[j])[1] = Key(infos[k])[1]
    BY <1>4
  <2>2. infos[j].total = infos[k].total
    BY <2>1 DEF Key
  <2> QED
    BY <1>1, <1>2, <1>4, <2>2
<1> QED
  BY <1>3, <1>4 DEF RanksBefore

LEMMA RankInv == Inv /\ Rank => Inv'
<1> SUFFICES ASSUME Inv, Rank
             PROVE  Inv'
  OBVIOUS
<1> TypeOK
  BY DEF Inv
<1> DEFINE n == Len(infos)
<1>1. /\ pc = "tally" /\ n = Len(records) /\ pc' = "post"
      /\ UNCHANGED <<records, info, summed, allCost, lines>>
  BY DEF Rank
<1>2. PICK order \in [DOMAIN infos -> DOMAIN infos] :
        /\ \A j, k \in DOMAIN infos : j < k => RanksBefore(order[j], order[k])
        /\ infos' = [k \in DOMAIN infos |-> infos[order[k]]]
  BY DEF Rank
<1>3. n \in Nat /\ DOMAIN infos = 1..n
  BY Lengths
<1>4. infos' \in Seq(StatisticInfo) /\ Len(infos') = n /\ DOMAIN infos' = 1..n
  <2>1. infos' \in [1..n -> StatisticInfo]
    BY <1>2, <1>3, Lengths
  <2>2. infos' \in Seq(StatisticInfo)
    BY <1>3, <2>1, SeqDef
  <2> QED
    BY <1>3, <2>1, <2>2, LenProperties
<1>5. \A k \in 1..n : order[k] \in 1..n /\ infos'[k] = infos[order[k]]
  BY <1>2, <1>3
<1>6. summed = 0 /\ lines = <<>>
  BY <1>1 DEF Inv, InOrder
<1>7. Len(lines) = 0 /\ DOMAIN lines = {}
  BY <1>6, EmptySeq
<1>8. TypeOK'
  <2>1. summed' \in 0..Len(infos')
    BY <1>1, <1>3, <1>4, <1>6
  <2> QED
    BY <1>1, <1>3, <1>4, <1>7, <2>1 DEF TypeOK
<1>9. InOrder' /\ TotalWithinExtremes' /\ TopBoundsSum' /\ LinesShowInfos'
  BY <1>1, <1>4, <1>6, <1>7 DEF Inv, InOrder, TotalWithinExtremes, TopBoundsSum, LinesShowInfos
<1>10. AverageWithinRange'
  BY <1>3, <1>4, <1>5 DEF Inv, AverageWithinRange
<1>11. \A j, k \in 1..n : j < k => infos'[k].total <= infos'[j].total /\ order[j] # order[k]
  BY <1>2, <1>3, <1>5, RankingByTotal
<1>12. RankedByTotal'
  BY <1>4, <1>11 DEF RankedByTotal
<1>13. OfRecords'
  <2>1. PICK place \in [1..n -> DOMAIN records] :
          /\ IsInjective(place)
          /\ \A k \in 1..n : infos[k].method = records[place[k]].method
    BY <1>3 DEF Inv, OfRecords
  <2>2. PICK then : then = [k \in 1..n |-> place[order[k]]]
    OBVIOUS
  <2>3. then \in [1..n -> DOMAIN records] /\ DOMAIN then = 1..n
    BY <1>5, <2>1, <2>2
  <2>4. IsInjective(then)
    <3>1. ASSUME NEW j \in 1..n, NEW k \in 1..n, j < k
          PROVE  then[j] # then[k]
      <4>1. order[j] # order[k] /\ order[j] \in 1..n /\ order[k] \in 1..n
        BY <1>5, <1>11, <3>1
      <4> QED
        BY <2>1, <2>2, <4>1 DEF IsInjective
    <3>2. \A j, k \in 1..n : j < k \/ k < j \/ j = k
      BY <1>3
    <3> QED
      BY <2>3, <3>1, <3>2 DEF IsInjective
  <2>5. \A k \in 1..n : infos'[k].method = records[then[k]].method
    BY <1>5, <2>1, <2>2
  <2>6. \A j, k \in DOMAIN records : j # k => records[j].method # records[k].method
    BY DEF Inv, OfRecords
  <2> QED
    BY <1>1, <1>4, <2>3, <2>4, <2>5, <2>6 DEF OfRecords
<1> QED
  BY <1>8, <1>9, <1>10, <1>12, <1>13 DEF Inv

-----------------------------------------------------------------------------
(***************************************************************************)
(* The loop that sums up the totals.                                       *)
(***************************************************************************)
LEMMA AddTotalInv == Inv /\ AddTotal => Inv'
<1> SUFFICES ASSUME Inv, AddTotal
             PROVE  Inv'
  OBVIOUS
<1> TypeOK
  BY DEF Inv
<1>1. /\ pc = "post" /\ summed < Len(infos) /\ summed' = summed + 1
      /\ allCost' = allCost + infos[summed + 1].total
      /\ UNCHANGED <<records, info, infos, lines, pc>>
  BY DEF AddTotal
<1>2. /\ summed \in Nat /\ allCost \in Int /\ Len(infos) \in Nat
      /\ 1 \in DOMAIN infos /\ summed + 1 \in DOMAIN infos
  BY <1>1, Lengths DEF TypeOK
<1>3. infos[1].total \in Int /\ infos[summed + 1].total \in Int
  BY <1>2, InfoType
<1>4. lines = <<>>
  BY <1>1, <1>2 DEF Inv, InOrder
<1>5. DOMAIN lines = {}
  BY <1>4, EmptySeq
<1>6. TypeOK'
  BY <1>1, <1>2, <1>3 DEF TypeOK
<1>7. TopBoundsSum'
  <2>1. CASE summed = 0
    BY <1>1, <1>2, <1>3, <2>1 DEF Inv, TopBoundsSum
  <2>2. CASE summed > 0
    <3>1. infos[summed + 1].total <= infos[1].total
      BY <1>1, <1>2, <2>2 DEF Inv, RankedByTotal
    <3>2. allCost <= summed * infos[1].total
      BY <2>2 DEF Inv, TopBoundsSum
    <3>3. (summed + 1) * infos[1].total = summed * infos[1].total + infos[1].total
      BY <1>2, <1>3
    <3>4. summed * infos[1].total \in Int
      BY <1>2, <1>3
    <3>5. allCost + infos[summed + 1].total <= (summed + 1) * infos[1].total
      BY <1>2, <1>3, <3>1, <3>2, <3>3, <3>4
    <3> QED
      BY <1>1, <1>2, <2>2, <3>5 DEF TopBoundsSum
  <2> QED
    BY <1>2, <2>1, <2>2
<1>8. (InOrder /\ TotalWithinExtremes /\ AverageWithinRange /\ RankedByTotal /\ OfRecords)'
  BY <1>1, <1>4 DEF Inv, InOrder, TotalWithinExtremes, AverageWithinRange, RankedByTotal, OfRecords
<1>9. LinesShowInfos'
  BY <1>1, <1>5 DEF LinesShowInfos
<1> QED
  BY <1>6, <1>7, <1>8, <1>9 DEF Inv

-----------------------------------------------------------------------------
(***************************************************************************)
(* The loop that posts the lines.                                          *)
(***************************************************************************)
LEMMA PostLineInv == Inv /\ PostLine => Inv'
<1> SUFFICES ASSUME Inv, PostLine
             PROVE  Inv'
  OBVIOUS
<1> TypeOK
  BY DEF Inv
<1> DEFINE n == Len(lines)
<1>1. /\ pc = "post" /\ summed = Len(infos) /\ n < Len(infos)
      /\ UNCHANGED <<records, info, infos, summed, allCost, pc>>
  BY DEF PostLine
<1>2. PICK line : line = LineOf(Current) /\ lines' = Append(lines, line)
  BY DEF PostLine
<1>3. n \in Nat /\ n + 1 \in DOMAIN infos /\ Current = infos[n + 1]
  BY <1>1, Lengths DEF Current
<1>4. Current.method \in Methods
  BY <1>3, InfoType
<1>5. /\ line \in Line
      /\ line.method = Current.method
      /\ line.label = Label(line.method)
      /\ line.level = (IF IsWarned(Current.total) THEN "warn" ELSE "info")
  BY <1>2, <1>4, LabelType DEF LineOf, Line
<1>6. /\ lines' \in Seq(Line)
      /\ Len(lines') = n + 1 /\ DOMAIN lines' = 1..(n + 1)
      /\ \A k \in 1..n : lines'[k] = lines[k]
      /\ lines'[n + 1] = line
  <2>1. lines \in Seq(Line)
    BY DEF TypeOK
  <2> QED
    BY <1>2, <1>5, <2>1, AppendProperties, LenProperties
<1>7. TypeOK'
  <2>1. Len(lines') <= Len(infos')
    BY <1>1, <1>3, <1>6, Lengths
  <2>2. \A k \in 1..(n + 1) : lines'[k].method = infos'[k].method
    <3>1. \A k \in 1..n : lines'[k].method = infos'[k].method
      BY <1>1, <1>6, Lengths DEF TypeOK
    <3>2. lines'[n + 1].method = infos'[n + 1].method
      BY <1>1, <1>3, <1>5, <1>6
    <3> QED
      BY <1>3, <3>1, <3>2
  <2> QED
    BY <1>1, <1>6, <2>1, <2>2 DEF TypeOK
<1>8. LinesShowInfos'
  <2>1. SUFFICES ASSUME NEW k \in 1..(n + 1)
                 PROVE  /\ lines'[k].level = (IF IsWarned(infos[k].total) THEN "warn" ELSE "info")
                        /\ \/ lines'[k].label = Full(lines'[k].method)
                           \/ /\ lines'[k].label = Short(lines'[k].method)
                              /\ \A j \in 1..(k - 1) : lines'[j].label # lines'[k].label
    BY <1>1, <1>6 DEF LinesShowInfos, IsWarned, Full, Short
  <2>2. CASE k \in 1..n
    <3>1. \A j \in 1..(k - 1) : lines'[j] = lines[j]
      BY <1>3, <1>6, <2>2
    <3> QED
      BY <1>6, <2>2, <3>1, Lengths DEF Inv, LinesShowInfos
  <2>3. CASE k = n + 1
    <3>1. lines'[k] = line /\ infos[k] = Current
      BY <1>3, <1>6, <2>3
    <3>2. CASE Short(line.method) \in infoSet
      BY <1>5, <3>1, <3>2 DEF Label
    <3>3. CASE Short(line.method) \notin infoSet
      <4>1. line.label = Short(line.method)
        BY <1>5, <3>3 DEF Label
      <4>2. \A j \in 1..n : lines[j].label \in infoSet
        BY Lengths DEF infoSet
      <4>3. \A j \in 1..(k - 1) : lines'[j].label \in infoSet
        BY <1>3, <1>6, <2>3, <4>2
      <4> QED
        BY <1>5, <3>1, <3>3, <4>1, <4>3
    <3> QED
      BY <3>2, <3>3
  <2> QED
    BY <1>3, <2>2, <2>3
<1>9. (InOrder /\ TotalWithinExtremes /\ AverageWithinRange /\ RankedByTotal /\ TopBoundsSum /\ OfRecords)'
  BY <1>1 DEF Inv, InOrder, TotalWithinExtremes, AverageWithinRange, RankedByTotal, TopBoundsSum, OfRecords
<1> QED
  BY <1>7, <1>8, <1>9 DEF Inv

LEMMA StutterInv == Inv /\ UNCHANGED vars => Inv'
<1> SUFFICES ASSUME Inv, UNCHANGED vars
             PROVE  Inv'
  OBVIOUS
<1>1. UNCHANGED <<records, info, infos, summed, allCost, lines, pc>>
  BY DEF vars
<1>2. TypeOK'
  BY <1>1 DEF Inv, TypeOK
<1>3. (InOrder /\ TotalWithinExtremes /\ AverageWithinRange /\ RankedByTotal /\ TopBoundsSum /\ OfRecords)'
  BY <1>1 DEF Inv, InOrder, TotalWithinExtremes, AverageWithinRange, RankedByTotal, TopBoundsSum, OfRecords
<1>4. LinesShowInfos'
  BY <1>1 DEF Inv, LinesShowInfos, IsWarned, Full, Short
<1> QED
  BY <1>2, <1>3, <1>4 DEF Inv

(***************************************************************************)
(* The inductive invariant of a report.                                    *)
(***************************************************************************)
THEOREM Invariance == Spec => []Inv
<1>1. Inv /\ [Next]_vars => Inv'
  BY AddCostInv, TallyInv, RankInv, AddTotalInv, PostLineInv, StutterInv DEF Next, Ended
<1> QED
  BY <1>1, InitInv, PTL DEF Spec

-----------------------------------------------------------------------------
(***************************************************************************)
(* The variables keep their types, and each line is of its own info.       *)
(***************************************************************************)
THEOREM TypeCorrect == Spec => []TypeOK
<1>1. Inv => TypeOK
  BY DEF Inv
<1> QED
  BY <1>1, Invariance, PTL

(***************************************************************************)
(* The average that is shown lies between the extremes shown with it,      *)
(* however the clock jumps.                                                *)
(***************************************************************************)
THEOREM AverageIsWithinRange == Spec => []AverageWithinRange
<1>1. Inv => AverageWithinRange
  BY DEF Inv
<1> QED
  BY <1>1, Invariance, PTL

-----------------------------------------------------------------------------
\* Two lines with one label: the lower one shows its class's full name, and the
\* upper one the same name, or what was cut down to it.
LEMMA LabelsTell ==
  ASSUME Inv
  PROVE  LabelsTellClasses
<1> TypeOK /\ LinesShowInfos
  BY DEF Inv
<1>1. Len(lines) \in Nat /\ DOMAIN lines = 1..Len(lines)
  BY Lengths
<1>2. ASSUME NEW j \in 1..Len(lines), NEW k \in 1..Len(lines), j < k,
             lines[j].label = lines[k].label
      PROVE  /\ NameOf[lines[j].method] = NameOf[lines[k].method]
             /\ \/ ClassOf[lines[j].method] = ClassOf[lines[k].method]
                \/ InDefaultPackage(lines[k].method)
  <2>1. lines[j].method \in Methods /\ lines[k].method \in Methods
    <3>1. lines[j] \in Line /\ lines[k] \in Line
      BY <1>1, Lengths
    <3> QED
      BY <3>1 DEF Line
  <2>2. j \in 1..(k - 1)
    BY <1>1, <1>2
  <2>3. lines[k].label = Full(lines[k].method)
    BY <1>1, <1>2, <2>2 DEF LinesShowInfos
  <2>4. CASE lines[j].label = Full(lines[j].method)
    BY <1>2, <2>3, <2>4 DEF Full
  <2>5. CASE lines[j].label = Short(lines[j].method)
    <3>1. /\ Simple[ClassOf[lines[j].method]] = ClassOf[lines[k].method]
          /\ NameOf[lines[j].method] = NameOf[lines[k].method]
      BY <1>2, <2>3, <2>5 DEF Full, Short
    <3>2. ClassOf[lines[j].method] \in ClassNames
      BY <2>1, NamesAssumption
    <3> QED
      BY <3>1, <3>2, NamesAssumption DEF InDefaultPackage
  <2>6. lines[j].label = Full(lines[j].method) \/ lines[j].label = Short(lines[j].method)
    BY <1>1 DEF LinesShowInfos
  <2> QED
    BY <2>4, <2>5, <2>6
<1>3. SUFFICES ASSUME NEW j \in 1..Len(lines), NEW k \in 1..Len(lines),
                      lines[j].label = lines[k].label
               PROVE  /\ NameOf[lines[j].method] = NameOf[lines[k].method]
                      /\ \/ ClassOf[lines[j].method] = ClassOf[lines[k].method]
                         \/ InDefaultPackage(lines[j].method)
                         \/ InDefaultPackage(lines[k].method)
  BY <1>1 DEF LabelsTellClasses
<1>4. j < k \/ k < j \/ j = k
  BY <1>1
<1> QED
  BY <1>2, <1>3, <1>4

(***************************************************************************)
(* Two lines of a report with one label are about one method of one class, *)
(* its overloads included, or about a class in the default package.        *)
(***************************************************************************)
THEOREM LabelsAreTellingClasses == Spec => []LabelsTellClasses
  BY LabelsTell, Invariance, PTL

-----------------------------------------------------------------------------
\* As many places as records, and no two infos in one: every record has its own.
LEMMA Complete ==
  ASSUME Inv
  PROVE  ReportIsComplete
<1> TypeOK
  BY DEF Inv
<1> SUFFICES ASSUME pc = "post", Len(lines) = Len(infos), NEW r \in Range(records)
             PROVE  \E k \in DOMAIN lines :
                      \A j \in DOMAIN lines : lines[j].method = r.method <=> j = k
  BY DEF ReportIsComplete
<1> DEFINE n == Len(records)
<1>1. n \in Nat /\ Len(infos) = n
  BY Lengths DEF Inv, InOrder
<1>2. DOMAIN records = 1..n /\ DOMAIN infos = 1..n /\ DOMAIN lines = 1..n
  BY <1>1, Lengths
<1>3. PICK place \in [1..n -> 1..n] :
        /\ IsInjective(place)
        /\ \A k \in 1..n : infos[k].method = records[place[k]].method
  BY <1>2 DEF Inv, OfRecords
<1>4. place \in Surjection(1..n, 1..n)
  <2>1. place \in Injection(1..n, 1..n)
    BY <1>3 DEF Injection
  <2>2. IsFiniteSet(1..n)
    BY <1>1, FS_Interval
  <2> QED
    BY <2>1, <2>2, FS_Injection
<1>5. PICK i \in 1..n : r = records[i]
  BY <1>2 DEF Range
<1>6. PICK k \in 1..n : place[k] = i
  BY <1>4, <1>5 DEF Surjection
<1>7. \A j \in 1..n : lines[j].method = records[place[j]].method
  BY <1>2, <1>3 DEF TypeOK
<1>8. ASSUME NEW j \in 1..n
      PROVE  lines[j].method = r.method <=> j = k
  <2>1. CASE j = k
    BY <1>5, <1>6, <1>7, <2>1
  <2>2. CASE j # k
    <3>1. place[j] # place[k] /\ place[j] \in 1..n
      BY <1>3, <2>2 DEF IsInjective
    <3>2. records[place[j]].method # records[i].method
      BY <1>2, <1>6, <3>1 DEF Inv, OfRecords
    <3> QED
      BY <1>5, <1>7, <2>2, <3>2
  <2> QED
    BY <2>1, <2>2
<1> QED
  BY <1>2, <1>8

(***************************************************************************)
(* When the report ends, every record of the chain has had its one line.   *)
(***************************************************************************)
THEOREM ReportsAreComplete == Spec => []ReportIsComplete
  BY Complete, Invariance, PTL

-----------------------------------------------------------------------------
\* Of two totals the larger one has the larger share, if the sum is not negative.
LEMMA WarningsFirst ==
  ASSUME Inv
  PROVE  WarningsComeFirst
<1> TypeOK
  BY DEF Inv
<1> SUFFICES ASSUME allCost >= 0,
                    NEW j \in DOMAIN lines, NEW k \in DOMAIN lines,
                    j < k, lines[k].level = "warn"
             PROVE  lines[j].level = "warn"
  BY DEF WarningsComeFirst
<1>1. pc = "post"
  <2>1. lines # <<>>
    BY EmptySeq
  <2> QED
    BY <2>1 DEF Inv, InOrder, TypeOK
<1>2. j \in DOMAIN infos /\ k \in DOMAIN infos
  BY Lengths
<1>3. infos[j].total \in Int /\ infos[k].total \in Int
  BY <1>2, InfoType
<1>4. infos[k].total <= infos[j].total
  BY <1>1, <1>2 DEF Inv, RankedByTotal
<1>5. allCost \in Int /\ Share \in Nat
  BY CostsAssumption DEF TypeOK
<1>6. IsWarned(infos[k].total)
  BY DEF Inv, LinesShowInfos
<1>7. Share * infos[k].total <= Share * infos[j].total
  BY <1>3, <1>4, <1>5, TimesMonotone
<1>8. IsWarned(infos[j].total)
  <2>1. Share * infos[k].total \in Int /\ Share * infos[j].total \in Int
    BY <1>3, <1>5
  <2> QED
    BY <1>3, <1>4, <1>5, <1>6, <1>7, <2>1 DEF IsWarned
<1> QED
  BY <1>8 DEF Inv, LinesShowInfos

(***************************************************************************)
(* No warning comes after a line that is none, unless all costs together   *)
(* are negative.                                                           *)
(***************************************************************************)
THEOREM WarningsAreFirst == Spec => []WarningsComeFirst
  BY WarningsFirst, Invariance, PTL

\* The sum is at most Len(infos) times the total on top, hence Share times it.
LEMMA TopIsWarned ==
  ASSUME Inv
  PROVE  SomethingIsWarned
<1> TypeOK
  BY DEF Inv
<1> SUFFICES ASSUME allCost > 0, Len(infos) <= Share, lines # <<>>
             PROVE  lines[1].level = "warn"
  BY DEF SomethingIsWarned
<1> DEFINE n == Len(infos)
<1> DEFINE top == infos[1].total
<1>1. 1 \in DOMAIN lines
  <2>1. Len(lines) # 0
    BY EmptySeq DEF TypeOK
  <2> QED
    BY <2>1, Lengths
<1>2. n \in Nat /\ n > 0 /\ 1 \in DOMAIN infos /\ summed = n
  BY <1>1, Lengths DEF Inv, InOrder
<1>3. top \in Int /\ allCost \in Int /\ Share \in Nat
  BY <1>2, InfoType, CostsAssumption DEF TypeOK
<1>4. allCost <= n * top
  BY <1>2 DEF Inv, TopBoundsSum
<1>5. top > 0
  <2>1. ASSUME top <= 0
        PROVE  FALSE
    <3>1. n * top <= n * 0
      BY <1>2, <1>3, <2>1, TimesMonotone
    <3>2. n * 0 = 0 /\ n * top \in Int
      BY <1>2, <1>3
    <3> QED
      BY <1>3, <1>4, <3>1, <3>2
  <2> QED
    BY <1>3, <2>1
<1>6. n * top <= Share * top
  <2>1. top * n <= top * Share
    BY <1>2, <1>3, <1>5, TimesMonotone
  <2>2. top * n = n * top /\ top * Share = Share * top
    BY <1>2, <1>3
  <2> QED
    BY <2>1, <2>2
<1>7. Share * top >= allCost
  <2>1. n * top \in Int /\ Share * top \in Int
    BY <1>2, <1>3
  <2> QED
    BY <1>3, <1>4, <1>6, <2>1
<1> QED
  BY <1>1, <1>7 DEF IsWarned, Inv, LinesShowInfos

(***************************************************************************)
(* A report of no more than Share methods that shows any cost warns of the *)
(* one on top.                                                             *)
(***************************************************************************)
THEOREM TheTopIsWarnedOf == Spec => []SomethingIsWarned
  BY TopIsWarned, Invariance, PTL
=============================================================================
