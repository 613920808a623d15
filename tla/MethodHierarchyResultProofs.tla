-------------------- MODULE MethodHierarchyResultProofs --------------------
(***************************************************************************)
(* Theorems about the result of the walk over class files: which methods   *)
(* are in the set when it is done.                                         *)
(***************************************************************************)
EXTENDS MethodHierarchyProofs

-----------------------------------------------------------------------------
(***************************************************************************)
(* A class that is found whole, and the visitors that are to make it so.   *)
(***************************************************************************)
\* What a visitor has not got in the set yet, it has still to visit.
Covers(v, set) ==
  MethodsOf(v.cName) \subseteq set \cup {Info(v.cName, member) : member \in ToSet(v.todo)}

Whole(c) == DeclaredMethods(c) \subseteq methods

WholeOrVisited ==
  /\ \A k \in DOMAIN stack : Covers(stack[k], methods)
  /\ \A c \in ClassesFound : Whole(c) \/ \E k \in DOMAIN stack : stack[k].cName = c
  /\ status = "done" => Len(stack) = 1 /\ Top.calls = <<>> /\ Top.todo = <<>>

LEMMA DeclaredAreMethods ==
  ASSUME NEW c
  PROVE  DeclaredMethods(c) \subseteq MethodsOf(c)
  BY DEF DeclaredMethods

LEMMA NewVisitorCovers ==
  ASSUME NEW c, NEW name, NEW set
  PROVE  Covers(NewVisitor(c, name), set)
  BY DEF Covers, NewVisitor, MethodsOf

LEMMA CoversMore ==
  ASSUME NEW v, NEW set, NEW more, set \subseteq more, Covers(v, set)
  PROVE  Covers(v, more)
  BY DEF Covers

\* A sequence holds its head and what its tail holds.
LEMMA HeadOrTail ==
  ASSUME NEW S, NEW s \in Seq(S), s # <<>>
  PROVE  \A x \in ToSet(s) : x = Head(s) \/ x \in ToSet(Tail(s))
<1>1. Len(s) \in Nat \ {0} /\ DOMAIN s = 1..Len(s)
  BY EmptySeq, LenProperties
<1>2. ASSUME NEW k \in 1..Len(s), k # 1
      PROVE  s[k] \in ToSet(Tail(s))
  <2>1. k - 1 \in 1..(Len(s) - 1) /\ (k - 1) + 1 = k
    BY <1>1, <1>2
  <2>2. Tail(s)[k - 1] = s[k] /\ k - 1 \in DOMAIN Tail(s)
    BY <1>1, <2>1, HeadTailProperties
  <2> QED
    BY <2>2 DEF ToSet
<1>3. s[1] = Head(s)
  BY HeadTailProperties
<1> QED
  BY <1>1, <1>2, <1>3 DEF ToSet

\* The head of what is left is visited; the rest is still covered.
LEMMA RestCovers ==
  ASSUME NEW v \in Visitor, v.todo # <<>>, NEW w, NEW set,
         w.cName = v.cName, w.todo = Tail(v.todo),
         Covers(v, set), Info(v.cName, Head(v.todo)) \in set
  PROVE  Covers(w, set)
<1>1. v.todo \in Seq(Member)
  BY DEF Visitor
<1>2. \A x \in ToSet(v.todo) : x = Head(v.todo) \/ x \in ToSet(Tail(v.todo))
  BY <1>1, HeadOrTail
<1> QED
  BY <1>2 DEF Covers

\* The methods a visitor brings in with its superclasses are whole classes.
LEMMA InheritedAreWhole ==
  ASSUME NEW c \in Classes, NEW m \in Inherited(c)
  PROVE  DeclaredMethods(m.cClassName) \subseteq Inherited(c)
<1>1. PICK d \in AllSuperclasses(c) : m \in DeclaredMethods(d)
  BY DEF Inherited
<1>2. m.cClassName = d
  BY <1>1 DEF DeclaredMethods, MethodsOf, Info
<1> QED
  BY <1>1, <1>2 DEF Inherited

LEMMA LastIndex ==
  ASSUME NEW n \in Nat, NEW k \in 1..n
  PROVE  k = n \/ k \in 1..(n - 1)
  OBVIOUS

LEMMA FirstOrLast ==
  ASSUME NEW n \in Nat \ {0}
  PROVE  1 \in 1..n /\ (n # 1 => 1 \in 1..(n - 1))
  OBVIOUS

LEMMA LastButOne ==
  ASSUME NEW n \in Nat, n > 1
  PROVE  /\ n - 1 \in 1..n /\ 1..(n - 2) \subseteq 1..n
         /\ \A k \in 1..(n - 1) : k = n - 1 \/ k \in 1..(n - 2)
  OBVIOUS

LEMMA WholeInit == Init => WholeOrVisited
<1> SUFFICES ASSUME Init
             PROVE  WholeOrVisited
  OBVIOUS
<1> DEFINE v == NewVisitor(Root, EnterName)
<1>1. v \in Visitor
  BY ClassesAssumption, VisitorType
<1>2. stack = <<v>> /\ DOMAIN stack = {1} /\ stack[1] = v
  BY <1>1 DEF Init
<1>3. Covers(v, methods)
  BY NewVisitorCovers
<1>4. \A c \in ClassesFound : Whole(c)
  BY InheritedAreWhole, ClassesAssumption DEF Init, ClassesFound, Whole
<1>5. status # "done"
  BY DEF Init
<1> HIDE DEF v
<1> QED
  BY <1>2, <1>3, <1>4, <1>5 DEF WholeOrVisited

LEMMA WholeStep ==
  ASSUME Inv, WholeOrVisited, [Next]_vars
  PROVE  WholeOrVisited'
<1> USE DEF Inv
<1>1. methods \subseteq methods'
  BY MethodsGrow
<1>2. \A k \in 1..Len(stack) : Covers(stack[k], methods')
  BY <1>1, TopType, CoversMore DEF WholeOrVisited
<1>3. Top \in Visitor /\ Covers(Top, methods')
  <2>1. Len(stack) \in 1..Len(stack) /\ Top = stack[Len(stack)] /\ Top \in Visitor
    BY TopType
  <2> QED
    BY <1>2, <2>1
<1>4. ASSUME NEW v \in Visitor, SetTop(v), v.cName = Top.cName, Covers(v, methods'),
             \A m \in methods' \ methods : m.cClassName = Top.cName,
             status = "reading", UNCHANGED status
      PROVE  WholeOrVisited'
  <2>1. Len(stack) \in Nat \ {0} /\ DOMAIN stack = 1..Len(stack) /\ Top = stack[Len(stack)]
    BY TopType
  <2>2. /\ DOMAIN stack' = 1..Len(stack) /\ stack'[Len(stack)] = v
        /\ \A k \in 1..(Len(stack) - 1) : stack'[k] = stack[k]
    BY <1>4, TopChanges
  <2>3. \A k \in 1..Len(stack) : stack'[k].cName = stack[k].cName /\ Covers(stack'[k], methods')
    <3>1. \A k \in 1..Len(stack) : k = Len(stack) \/ k \in 1..(Len(stack) - 1)
      BY <2>1, LastIndex
    <3> QED
      BY <1>2, <1>4, <2>1, <2>2, <3>1
  <2>4. ASSUME NEW m \in methods'
        PROVE  Whole(m.cClassName)' \/ \E k \in DOMAIN stack' : stack'[k].cName = m.cClassName
    <3>1. CASE m \in methods
      BY <1>1, <3>1, <2>1, <2>2, <2>3 DEF WholeOrVisited, ClassesFound, Whole
    <3>2. CASE m \notin methods
      BY <1>4, <3>2, <2>1, <2>2, <2>3
    <3> QED
      BY <3>1, <3>2
  <2> QED
    BY <1>4, <2>2, <2>3, <2>4 DEF WholeOrVisited, ClassesFound
<1>5. CASE VisitKnown
  <2>1. /\ Visiting /\ NextMember \in methods /\ status = "reading"
        /\ UNCHANGED <<methods, status>> /\ SetTop(Rest)
    BY <1>5 DEF VisitKnown, Known, Visiting
  <2>2. Top \in Visitor /\ Top.todo # <<>> /\ Covers(Top, methods')
    BY <1>3, <2>1 DEF Visiting
  <2>3. Covers(Rest, methods')
    BY <2>1, <2>2, RestFields, RestCovers DEF NextMember
  <2> QED
    BY <1>4, <2>1, <2>3, RestFields
<1>6. CASE VisitMethod
  <2>1. /\ Visiting /\ methods' = methods \cup {NextMember} /\ status = "reading"
        /\ UNCHANGED status /\ (SetTop(ReadBody(NextMember)) \/ SetTop(Rest))
        /\ NextMember.cClassName = Top.cName
    BY <1>6, VisitMethodStep DEF Visiting, NextMember, Info
  <2>2. Top \in Visitor /\ Top.todo # <<>> /\ Covers(Top, methods')
    BY <1>3, <2>1 DEF Visiting
  <2>3. Covers(Rest, methods') /\ Covers(ReadBody(NextMember), methods')
    BY <2>1, <2>2, RestFields, ReadBodyFields, RestCovers DEF NextMember
  <2>4. \A m \in methods' \ methods : m.cClassName = Top.cName
    BY <2>1
  <2> QED
    BY <1>4, <2>1, <2>3, <2>4, RestFields, ReadBodyFields
<1>7. CASE VisitOwnCall
  <2>1. /\ OneCallOn(Top) \in Visitor /\ SetTop(OneCallOn(Top))
        /\ OneCallOn(Top).cName = Top.cName /\ OneCallOn(Top).todo = Top.todo
        /\ UNCHANGED <<methods, status>> /\ status = "reading"
    BY <1>7, VisitOwnCallStep, TopType, OneCallOnFields DEF VisitOwnCall, Reading
  <2>2. Covers(OneCallOn(Top), methods')
    BY <1>3, <2>1 DEF Covers
  <2> QED
    BY <1>4, <2>1, <2>2
<1>8. CASE VisitCall
  <2> DEFINE c == Head(Top.calls).owner
  <2>1. /\ c \in Classes /\ Called \in Visitor /\ stack' = Append(stack, Called)
        /\ methods' = methods \cup Inherited(c) /\ UNCHANGED status /\ status = "reading"
    BY <1>8, VisitCallStep DEF VisitCall, Reading
  <2>2. /\ DOMAIN stack = 1..Len(stack) /\ DOMAIN stack' = 1..(Len(stack) + 1)
        /\ Len(stack) \in Nat /\ stack'[Len(stack) + 1] = Called
        /\ \A k \in 1..Len(stack) : stack'[k] = stack[k]
    BY <2>1, TopType, VisitorStarts
  <2>3. Covers(Called, methods')
    BY NewVisitorCovers DEF Called
  <2>4. \A k \in DOMAIN stack' : Covers(stack'[k], methods')
    BY <1>2, <2>2, <2>3
  <2>5. ASSUME NEW m \in methods'
        PROVE  Whole(m.cClassName)' \/ \E k \in DOMAIN stack' : stack'[k].cName = m.cClassName
    <3>1. CASE m \in methods
      BY <1>1, <3>1, <2>2 DEF WholeOrVisited, ClassesFound, Whole
    <3>2. CASE m \in Inherited(c)
      BY <3>2, <2>1, InheritedAreWhole DEF Whole
    <3> QED
      BY <2>1, <3>1, <3>2
  <2> QED
    BY <2>1, <2>4, <2>5 DEF WholeOrVisited, ClassesFound
<1>9. CASE Return
  <2> DEFINE w == OneCallOn(Caller)
             added == CalledInfo(Head(Caller.calls), Caller.reading)
  <2>1. /\ Len(stack) > 1 /\ w \in Visitor /\ methods' = methods \cup {added}
        /\ stack' = Append(SubSeq(stack, 1, Len(stack) - 2), w)
        /\ UNCHANGED status /\ status = "reading"
    BY <1>9, ReturnStep DEF Return, Accepted
  <2>2. /\ added.cClassName = Top.cName
        /\ w.cName = Caller.cName /\ w.todo = Caller.todo
    BY <2>1, CallerType, OneCallOnFields
  <2>3. Top.todo = <<>> /\ Top.cName \in Classes
    BY <1>9, TopType DEF Return, Accepted, Visitor
  <2>4. Whole(Top.cName)
    <3>1. Covers(Top, methods) /\ ToSet(Top.todo) = {}
      BY <2>3, TopType DEF WholeOrVisited, ToSet
    <3> QED
      BY <3>1, DeclaredAreMethods DEF Covers, Whole
  <2>5. /\ Len(stack) \in Nat /\ DOMAIN stack = 1..Len(stack) /\ Top = stack[Len(stack)]
        /\ DOMAIN stack' = 1..(Len(stack) - 1) /\ stack'[Len(stack) - 1] = w
        /\ \A k \in 1..(Len(stack) - 2) : stack'[k] = stack[k]
    BY <2>1, TopType, VisitorReturns
  <2> HIDE DEF w, added
  <2>6. /\ \A k \in 1..(Len(stack) - 1) : k = Len(stack) - 1 \/ k \in 1..(Len(stack) - 2)
        /\ Len(stack) - 1 \in 1..Len(stack) /\ 1..(Len(stack) - 2) \subseteq 1..Len(stack)
    BY <2>1, TopType, LastButOne
  <2>7. \A k \in 1..(Len(stack) - 1) :
          /\ stack'[k].cName = stack[k].cName
          /\ Covers(stack'[k], methods')
    <3> DEFINE n == Len(stack) - 1
    <3>1. Covers(stack[n], methods')
      <4>1. n \in 1..Len(stack)
        BY <2>6
      <4> QED
        BY <1>2, <4>1
    <3>2. Covers(w, methods') /\ w.cName = stack[n].cName
      BY <2>2, <3>1 DEF Covers, Caller
    <3>3. \A k \in 1..(Len(stack) - 2) : Covers(stack[k], methods')
      BY <1>2, <2>6
    <3>4. ASSUME NEW k \in 1..n
          PROVE  stack'[k].cName = stack[k].cName /\ Covers(stack'[k], methods')
      <4>1. CASE k = n
        BY <2>5, <3>2, <4>1
      <4>2. CASE k \in 1..(Len(stack) - 2)
        BY <2>5, <3>3, <4>2
      <4> QED
        BY <2>6, <4>1, <4>2
    <3> QED
      BY <3>4
  <2>8. ASSUME NEW m \in methods'
        PROVE  Whole(m.cClassName)' \/ \E k \in DOMAIN stack' : stack'[k].cName = m.cClassName
    <3>1. CASE Whole(m.cClassName)
      BY <1>1, <3>1 DEF Whole
    <3>2. CASE ~ Whole(m.cClassName)
      <4>1. m \in methods
        BY <2>1, <2>2, <2>4, <3>2
      <4>2. PICK k \in 1..Len(stack) : stack[k].cName = m.cClassName
        BY <3>2, <4>1, <2>5 DEF WholeOrVisited, ClassesFound
      <4>3. k # Len(stack)
        BY <2>4, <2>5, <3>2, <4>2
      <4>4. k \in 1..(Len(stack) - 1)
        BY <2>5, <4>3, LastIndex
      <4> QED
        BY <2>5, <2>7, <4>2, <4>4
    <3> QED
      BY <3>1, <3>2
  <2>9. \A k \in DOMAIN stack' : Covers(stack'[k], methods')
    BY <2>5, <2>7
  <2>10. \A d \in ClassesFound' : Whole(d)' \/ \E k \in DOMAIN stack' : stack'[k].cName = d
    BY <2>8 DEF ClassesFound
  <2>11. status' # "done"
    BY <2>1
  <2> QED
    BY <2>9, <2>10, <2>11 DEF WholeOrVisited
<1>10. CASE VisitUnreadable \/ Finish \/ Ended \/ UNCHANGED vars
  <2>1. UNCHANGED <<methods, stack>>
    BY <1>10, OtherSteps
  <2>2. status' = "done" => status = "done" \/ Finish
    BY <1>10 DEF VisitUnreadable, Ended, vars
  <2>3. Finish => Len(stack) = 1 /\ Top.calls = <<>> /\ Top.todo = <<>>
    BY DEF Finish, Accepted
  <2>4. Top' = Top /\ DeclaredMethods(Top.cName)' = DeclaredMethods(Top.cName)
    BY <2>1 DEF Top
  <2> QED
    BY <2>1, <2>2, <2>3, <2>4 DEF WholeOrVisited, ClassesFound, Whole
<1> QED
  BY <1>5, <1>6, <1>7, <1>8, <1>9, <1>10 DEF Next, Walk

(***************************************************************************)
(* HierarchyClassVisitor finds every class whole: each method that         *)
(* reflection shows for a class of the result is in the result.            *)
(***************************************************************************)
THEOREM ClassesAreFoundWhole == Spec => []FoundWhole
<1>1. WholeOrVisited /\ Inv => FoundWhole
  <2> SUFFICES ASSUME WholeOrVisited, Inv, status = "done", NEW c \in ClassesFound
               PROVE  Whole(c)
    BY DEF FoundWhole, Whole
  <2>1. Len(stack) = 1 /\ Top.todo = <<>> /\ DOMAIN stack = {1} /\ Top = stack[1]
    BY TopType DEF WholeOrVisited, Inv
  <2>2. Covers(Top, methods) /\ ToSet(Top.todo) = {}
    BY <2>1 DEF WholeOrVisited, ToSet
  <2>3. Whole(Top.cName)
    BY <2>2, DeclaredAreMethods DEF Covers, Whole
  <2> QED
    BY <2>1, <2>3 DEF WholeOrVisited
<1>2. Inv /\ WholeOrVisited /\ [Next]_vars => WholeOrVisited'
  BY WholeStep
<1> QED
  BY <1>1, <1>2, WholeInit, Invariance, PTL DEF Spec
-----------------------------------------------------------------------------
(***************************************************************************)
(* The calls of the enter method.  Until the first visitor meets the first *)
(* overload it is alone, and knows no method of that name in its class; it *)
(* then reads that body, and each call it passes has been followed.        *)
(***************************************************************************)
Unmet(p) ==
  /\ Len(stack) = 1 /\ Top.calls = <<>>
  /\ Len(Top.todo) = Len(Declared[Root]) - p
  /\ \A k \in 1..(Len(Declared[Root]) - p) : Top.todo[k] = Declared[Root][p + k]
  /\ \A k \in 1..p : Declared[Root][k].name # EnterName
  /\ \A m \in methods : m.cClassName = Root => m.methodName # EnterName

Found(call) == \E m \in methods : m.cClassName = call.owner /\ m.methodName = call.name

Followed ==
  \A m \in MethodsOf(Root) : IsEnterMethod(m) =>
    \A call \in ToSet(body[m]) :
      \/ call.owner = Root
      \/ Found(call)
      \/ stack[1].reading = m /\ call \in ToSet(stack[1].calls)

EnterFollowed ==
  /\ stack[1].cName = Root /\ stack[1].mName = EnterName
  /\ \/ \E p \in 0..Len(Declared[Root]) : Unmet(p)
     \/ Followed

LEMMA RootMethods ==
  /\ Declared[Root] \in Seq(Member) /\ Len(Declared[Root]) \in Nat
  /\ DOMAIN Declared[Root] = 1..Len(Declared[Root])
<1>1. Declared[Root] \in Seq(Member)
  BY ClassesAssumption
<1> QED
  BY <1>1, LenProperties

\* Superclasses bring in no method of the class itself.
LEMMA InheritedAreOthers ==
  ASSUME NEW c \in Classes, NEW m \in Inherited(c)
  PROVE  m.cClassName # c
<1>1. PICK d \in AllSuperclasses(c) : m \in DeclaredMethods(d)
  BY DEF Inherited
<1> QED
  BY <1>1, ClassesAssumption DEF AllSuperclasses, DeclaredMethods, MethodsOf, Info

LEMMA FollowedInit == Init => EnterFollowed
<1> SUFFICES ASSUME Init
             PROVE  EnterFollowed
  OBVIOUS
<1> DEFINE v == NewVisitor(Root, EnterName)
<1>1. stack = <<v>> /\ Len(stack) = 1 /\ stack[1] = v /\ Top = v
  BY DEF Init, Top, Last
<1>2. v.cName = Root /\ v.mName = EnterName /\ v.todo = Declared[Root] /\ v.calls = <<>>
  BY DEF NewVisitor
<1>3. \A m \in methods : m.cClassName # Root
  BY InheritedAreOthers, ClassesAssumption DEF Init
<1> HIDE DEF v
<1>4. \A k \in 1..Len(Declared[Root]) : 0 + k = k
  BY RootMethods
<1>5. Unmet(0)
  BY <1>1, <1>2, <1>3, <1>4, RootMethods DEF Unmet
<1> QED
  BY <1>1, <1>2, <1>5, RootMethods DEF EnterFollowed

\* Nothing that was followed is lost as long as the first visitor reads on
\* where it was.
LEMMA FollowedKept ==
  ASSUME Followed, [Next]_vars,
         stack'[1].reading = stack[1].reading, stack'[1].calls = stack[1].calls
  PROVE  Followed'
<1>1. methods \subseteq methods' /\ body' = body
  BY MethodsGrow
<1> QED
  BY <1>1 DEF Followed, Found

\* The first visitor passes a call that is its own or that is found now.
LEMMA FollowedPasses ==
  ASSUME TypeOK, Followed, [Next]_vars, NEW v \in Visitor, v = stack[1], v.calls # <<>>,
         stack'[1] = OneCallOn(v),
         Head(v.calls).owner = Root \/ Found(Head(v.calls))'
  PROVE  Followed'
<1>1. methods \subseteq methods' /\ body' = body
  BY MethodsGrow
<1>2. stack'[1].reading = v.reading /\ stack'[1].calls = Tail(v.calls)
  BY OneCallOnFields
<1>3. \A call \in ToSet(v.calls) : call = Head(v.calls) \/ call \in ToSet(Tail(v.calls))
  <2>1. v.calls \in Seq(Call)
    BY DEF Visitor
  <2> QED
    BY <2>1, HeadOrTail
<1>4. ASSUME NEW call, Found(call)
      PROVE  Found(call)'
  BY <1>1, <1>4 DEF Found
<1>5. ASSUME NEW m \in MethodsOf(Root), IsEnterMethod(m), NEW call \in ToSet(body[m])
      PROVE  \/ call.owner = Root
             \/ Found(call)'
             \/ stack'[1].reading = m /\ call \in ToSet(stack'[1].calls)
  BY <1>2, <1>3, <1>4, <1>5 DEF Followed
<1> QED
  BY <1>1, <1>5 DEF Followed, Found

LEMMA KeepsName ==
  ASSUME TypeOK, ReadsOwnMethods
  PROVE  /\ Visiting => Rest.mName = Top.mName /\ ReadBody(NextMember).mName = Top.mName
         /\ OneCallOn(Top).mName = Top.mName
         /\ Len(stack) > 1 => OneCallOn(Caller).mName = Caller.mName
<1>1. Top \in Visitor
  BY TopType
<1>2. Len(stack) > 1 => Caller \in Visitor
  <2>1. Len(stack) > 1 => Len(stack) - 1 \in 1..Len(stack)
    BY TopType, LastButOne
  <2> QED
    BY <2>1, TopType DEF Caller
<1> QED
  BY <1>1, <1>2 DEF Rest, ReadBody, OneCallOn, Visitor

\* What the first visitor is about to visit before it has met the method.
LEMMA UnmetNext ==
  ASSUME Inv, EnterFollowed, NEW p \in 0..Len(Declared[Root]), Unmet(p), Visiting
  PROVE  /\ p + 1 \in 1..Len(Declared[Root])
         /\ NextMember = Info(Root, Declared[Root][p + 1])
         /\ Len(Tail(Top.todo)) = Len(Declared[Root]) - (p + 1)
         /\ \A k \in 1..(Len(Declared[Root]) - (p + 1)) :
              Tail(Top.todo)[k] = Declared[Root][(p + 1) + k]
<1> DEFINE n == Len(Declared[Root])
<1>1. Top.todo \in Seq(Member) /\ Top.todo # <<>> /\ Top = stack[1]
  BY TopType DEF Inv, Unmet, Visiting, Visitor
<1>2. n \in Nat /\ p \in Nat /\ p <= n
  BY RootMethods
<1>3. Len(Top.todo) = n - p /\ \A k \in 1..(n - p) : Top.todo[k] = Declared[Root][p + k]
  BY DEF Unmet
<1>4. Len(Top.todo) \in Nat \ {0}
  BY <1>1, EmptySeq, LenProperties
<1> HIDE DEF n
<1>5. p + 1 \in 1..n /\ 1 \in 1..(n - p)
  BY <1>2, <1>3, <1>4
<1>6. /\ Head(Top.todo) = Top.todo[1] /\ Len(Tail(Top.todo)) = Len(Top.todo) - 1
      /\ \A k \in 1..(Len(Top.todo) - 1) : Tail(Top.todo)[k] = Top.todo[k + 1]
  BY <1>1, HeadTailProperties
<1>7. NextMember = Info(Root, Declared[Root][p + 1])
  BY <1>1, <1>3, <1>5, <1>6 DEF NextMember, EnterFollowed
<1>8. Len(Tail(Top.todo)) = n - (p + 1)
  BY <1>2, <1>3, <1>6
<1>9. ASSUME NEW k \in 1..(n - (p + 1))
      PROVE  Tail(Top.todo)[k] = Declared[Root][(p + 1) + k]
  <2>1. k + 1 \in 1..(n - p) /\ p + (k + 1) = (p + 1) + k
    BY <1>2
  <2>2. k \in 1..(Len(Top.todo) - 1)
    <3>1. Len(Top.todo) - 1 = n - (p + 1)
      BY <1>2, <1>3
    <3> QED
      BY <3>1
  <2> QED
    BY <1>3, <1>6, <2>1, <2>2
<1> QED
  BY <1>5, <1>7, <1>8, <1>9 DEF n

\* The first visitor goes past a method that is not the one it looks for.
LEMMA UnmetStep ==
  ASSUME Inv, EnterFollowed, NEW p \in 0..Len(Declared[Root]), Unmet(p), Visiting,
         SetTop(Rest), methods' \subseteq methods \cup {NextMember},
         NextMember.methodName # EnterName
  PROVE  EnterFollowed'
<1>1. /\ Len(stack) = 1 /\ Top = stack[1] /\ Rest \in Visitor
      /\ stack' \in Seq(Visitor) /\ Len(stack') = 1 /\ stack'[1] = Rest
  BY TopType, RestFields, TopChanges DEF Inv, Unmet
<1>2. Top' = Rest
  BY <1>1 DEF Top, Last
<1>3. Declared[Root][p + 1].name # EnterName
  BY UnmetNext DEF Info
<1>4. \A k \in 1..(p + 1) : Declared[Root][k].name # EnterName
  <2>1. p + 1 \in Nat /\ (p + 1) - 1 = p
    BY RootMethods
  <2>2. \A k \in 1..(p + 1) : k = p + 1 \/ k \in 1..p
    BY <2>1, LastIndex
  <2> QED
    BY <1>3, <2>2 DEF Unmet
<1>5. Unmet(p + 1)'
  BY <1>1, <1>2, <1>4, UnmetNext, RestFields DEF Inv, Unmet, Visiting
<1>6. p + 1 \in 0..Len(Declared[Root])
  BY UnmetNext, RootMethods
<1>7. Rest.cName = Root /\ Rest.mName = EnterName
  BY <1>1, RestFields, KeepsName DEF Inv, EnterFollowed
<1> QED
  BY <1>1, <1>5, <1>6, <1>7 DEF EnterFollowed

LEMMA FollowedStep ==
  ASSUME Inv, EnterFollowed, [Next]_vars
  PROVE  EnterFollowed'
<1> USE DEF Inv
<1>1. Len(stack) \in Nat \ {0} /\ Top = stack[Len(stack)] /\ Top \in Visitor
  BY TopType
<1>2. 1 \in 1..Len(stack) /\ (Len(stack) # 1 => 1 \in 1..(Len(stack) - 1))
  BY <1>1, FirstOrLast
<1>3. ASSUME Followed, stack'[1].reading = stack[1].reading, stack'[1].calls = stack[1].calls,
             stack'[1].cName = stack[1].cName, stack'[1].mName = stack[1].mName
      PROVE  EnterFollowed'
  BY <1>3, FollowedKept DEF EnterFollowed
<1>4. ASSUME NEW v \in Visitor, SetTop(v), v.cName = Top.cName, v.mName = Top.mName, Followed,
             Len(stack) = 1 => v.reading = Top.reading /\ v.calls = Top.calls
      PROVE  EnterFollowed'
  <2>1. /\ stack'[Len(stack)] = v
        /\ \A k \in 1..(Len(stack) - 1) : stack'[k] = stack[k]
    BY <1>4, TopChanges
  <2>2. CASE Len(stack) = 1
    BY <1>1, <1>3, <1>4, <2>1, <2>2
  <2>3. CASE Len(stack) # 1
    BY <1>2, <1>3, <1>4, <2>1, <2>3
  <2> QED
    BY <2>2, <2>3
<1>5. CASE VisitKnown
  <2>1. Visiting /\ NextMember \in methods /\ SetTop(Rest) /\ UNCHANGED methods
    BY <1>5 DEF VisitKnown, Known
  <2>2. CASE Followed
    BY <1>4, <2>1, <2>2, RestFields, KeepsName
  <2>3. ASSUME NEW p \in 0..Len(Declared[Root]), Unmet(p)
        PROVE  EnterFollowed'
    <3>1. NextMember.cClassName = Root
      BY <2>1, <2>3, UnmetNext DEF Info
    <3>2. NextMember.methodName # EnterName
      BY <2>1, <2>3, <3>1 DEF Unmet
    <3> QED
      BY <2>1, <2>3, <3>2, UnmetStep
  <2> QED
    BY <2>2, <2>3 DEF EnterFollowed
<1>6. CASE VisitMethod
  <2>1. /\ Visiting /\ methods' = methods \cup {NextMember}
        /\ SetTop(IF NextMember.methodName = Top.mName THEN ReadBody(NextMember) ELSE Rest)
        /\ body' = body
    BY <1>6 DEF VisitMethod
  <2>2. Rest \in Visitor /\ ReadBody(NextMember) \in Visitor
    BY <2>1, RestFields, ReadBodyFields
  <2>3. CASE Followed
    <3>1. CASE Len(stack) = 1
      <4> DEFINE v == IF NextMember.methodName = Top.mName THEN ReadBody(NextMember) ELSE Rest
      <4>1. v \in Visitor /\ stack'[1] = v
        BY <2>1, <2>2, <3>1, TopChanges
      <4>2. v.cName = Top.cName /\ v.mName = Top.mName
        BY <2>1, RestFields, ReadBodyFields, KeepsName
      <4>3. stack[1].calls = <<>>
        BY <1>1, <2>1, <3>1 DEF Visiting
      <4>4. Followed'
        BY <2>1, <2>3, <4>3 DEF Followed, Found, ToSet
      <4> QED
        BY <1>1, <3>1, <4>1, <4>2, <4>4 DEF EnterFollowed
    <3>2. CASE Len(stack) # 1
      BY <1>4, <2>1, <2>2, <2>3, <3>2, RestFields, ReadBodyFields, KeepsName
    <3> QED
      BY <3>1, <3>2
  <2>4. ASSUME NEW p \in 0..Len(Declared[Root]), Unmet(p)
        PROVE  EnterFollowed'
    <3>1. Len(stack) = 1 /\ Top.mName = EnterName /\ Top.cName = Root
      BY <1>1, <2>4 DEF Unmet, EnterFollowed
    <3>2. CASE NextMember.methodName # EnterName
      <4>1. SetTop(Rest) /\ methods' \subseteq methods \cup {NextMember}
        BY <2>1, <3>1, <3>2
      <4> QED
        BY <2>1, <2>4, <3>2, <4>1, UnmetStep
    <3>3. CASE NextMember.methodName = EnterName
      <4> DEFINE v == ReadBody(NextMember)
                 n == Len(Declared[Root])
      <4>1. SetTop(v)
        BY <2>1, <3>1, <3>3
      <4>2. stack'[1] = v
        BY <2>2, <3>1, <4>1, TopChanges
      <4>3. /\ v.cName = Root /\ v.mName = EnterName
            /\ v.reading = NextMember /\ v.calls = body[NextMember]
        BY <2>1, <3>1, ReadBodyFields, KeepsName
      <4>4. /\ p + 1 \in 1..n /\ NextMember = Info(Root, Declared[Root][p + 1])
            /\ Declared[Root][p + 1].name = EnterName /\ p \in Nat
        BY <2>1, <2>4, <3>3, UnmetNext, RootMethods DEF Info
      <4>5. p + 1 \in EnterOverloads
        BY <4>4, RootMethods DEF EnterOverloads
      <4>6. \A k \in EnterOverloads : k \in Nat /\ k \notin 1..p /\ k >= 1
        BY <2>4, RootMethods DEF EnterOverloads, Unmet
      <4>7. ASSUME NEW k \in EnterOverloads, \A l \in EnterOverloads : k <= l
            PROVE  k = p + 1
        <5>1. k <= p + 1
          BY <4>5, <4>7
        <5>2. k \in Nat /\ k \notin 1..p /\ k >= 1
          BY <4>6
        <5> HIDE DEF n
        <5> QED
          BY <4>4, <5>1, <5>2
      <4>8. \A m \in MethodsOf(Root) : IsEnterMethod(m) => m = NextMember
        BY <4>4, <4>7 DEF IsEnterMethod
      <4> HIDE DEF v, n
      <4>9. Followed'
        BY <2>1, <4>2, <4>3, <4>8 DEF Followed, Found
      <4> QED
        BY <4>2, <4>3, <4>9 DEF EnterFollowed
    <3> QED
      BY <3>2, <3>3
  <2> QED
    BY <2>3, <2>4 DEF EnterFollowed
<1>7. CASE VisitOwnCall
  <2>1. /\ OneCallOn(Top) \in Visitor /\ Top.calls # <<>> /\ SetTop(OneCallOn(Top))
        /\ OneCallOn(Top).cName = Top.cName /\ OneCallOn(Top).mName = Top.mName
        /\ Head(Top.calls).owner = Top.cName
    BY <1>1, <1>7, VisitOwnCallStep, OneCallOnFields, KeepsName DEF VisitOwnCall
  <2>2. Followed
    BY <2>1 DEF EnterFollowed, Unmet
  <2>3. CASE Len(stack) = 1
    <3>1. stack'[1] = OneCallOn(Top) /\ Top = stack[1]
      BY <1>1, <2>1, <2>3, TopChanges
    <3>2. Followed'
      BY <1>1, <2>1, <2>2, <3>1, FollowedPasses DEF EnterFollowed
    <3> QED
      BY <2>1, <3>1, <3>2 DEF EnterFollowed
  <2>4. CASE Len(stack) # 1
    BY <1>4, <2>1, <2>2, <2>4
  <2> QED
    BY <2>3, <2>4
<1>8. CASE VisitCall
  <2>1. Called \in Visitor /\ Top.calls # <<>> /\ stack' = Append(stack, Called)
    BY <1>8, VisitCallStep
  <2>2. Followed /\ stack'[1] = stack[1]
    BY <1>2, <2>1, VisitorStarts DEF EnterFollowed, Unmet
  <2> QED
    BY <1>3, <2>2
<1>9. CASE Return
  <2> DEFINE w == OneCallOn(Caller)
             added == CalledInfo(Head(Caller.calls), Caller.reading)
  <2>1. /\ Len(stack) > 1 /\ w \in Visitor /\ methods' = methods \cup {added}
        /\ stack' = Append(SubSeq(stack, 1, Len(stack) - 2), w)
    BY <1>9, ReturnStep
  <2>2. /\ stack'[Len(stack) - 1] = w
        /\ \A k \in 1..(Len(stack) - 2) : stack'[k] = stack[k]
    BY <2>1, VisitorReturns
  <2>3. Followed
    <3>1. Len(stack) # 1
      BY <2>1
    <3> QED
      BY <3>1 DEF EnterFollowed, Unmet
  <2>4. ASSUME NEW v, v = Caller, Len(stack) = 2
        PROVE  EnterFollowed'
    <3>1. v = stack[1] /\ stack'[1] = OneCallOn(v)
      BY <2>2, <2>4 DEF Caller
    <3>2. /\ v \in Visitor /\ v.calls # <<>>
          /\ OneCallOn(v).cName = v.cName /\ OneCallOn(v).mName = v.mName
      BY <2>1, <2>4, CallerType, OneCallOnFields, KeepsName
    <3>3. CalledInfo(Head(v.calls), v.reading) \in methods'
      BY <2>1, <2>4
    <3>4. Found(Head(v.calls))'
      BY <3>3 DEF Found, CalledInfo
    <3>5. Followed'
      BY <2>3, <3>1, <3>2, <3>4, FollowedPasses
    <3> QED
      BY <3>1, <3>2, <3>5 DEF EnterFollowed
  <2>5. CASE Len(stack) # 2
    <3>1. 1 \in 1..(Len(stack) - 2)
      BY <1>1, <2>1, <2>5
    <3> QED
      BY <1>3, <2>2, <2>3, <3>1
  <2> QED
    BY <2>4, <2>5
<1>10. CASE VisitUnreadable \/ Finish \/ Ended \/ UNCHANGED vars
  <2>1. UNCHANGED <<body, methods, stack>>
    BY <1>10, OtherSteps
  <2> QED
    BY <2>1 DEF EnterFollowed, Unmet, Followed, Found, Top
<1> QED
  BY <1>5, <1>6, <1>7, <1>8, <1>9, <1>10 DEF Next, Walk

(***************************************************************************)
(* HierarchyClassVisitor finds what the first overload of the enter method *)
(* calls, whatever comes before it in the class file and however the calls *)
(* come back to the given class.                                           *)
(***************************************************************************)
THEOREM EnterCallsAreFound == Spec => []EnterCallsFound
<1>1. Inv /\ WholeOrVisited /\ EnterFollowed => EnterCallsFound
  <2> SUFFICES ASSUME Inv, WholeOrVisited, EnterFollowed, status = "done",
                      NEW m \in MethodsOf(Root), IsEnterMethod(m),
                      NEW call \in ToSet(body[m]), call.owner # Root
               PROVE  Found(call)
    BY DEF EnterCallsFound, Found
  <2>1. Len(stack) = 1 /\ Top.calls = <<>> /\ Top.todo = <<>> /\ Top = stack[1]
    BY TopType DEF WholeOrVisited, Inv
  <2>2. ASSUME NEW p \in 0..Len(Declared[Root]), Unmet(p)
        PROVE  FALSE
    <3>1. Len(Declared[Root]) - p = 0
      BY <2>1, <2>2, EmptySeq DEF Unmet
    <3>2. p = Len(Declared[Root])
      BY <3>1, RootMethods
    <3> QED
      BY <2>2, <3>2, RootMethods DEF IsEnterMethod, EnterOverloads, Unmet
  <2>3. ToSet(stack[1].calls) = {}
    BY <2>1 DEF ToSet
  <2> QED
    BY <2>2, <2>3 DEF EnterFollowed, Followed
<1>2. Inv /\ EnterFollowed /\ [Next]_vars => EnterFollowed'
  BY FollowedStep
<1>3. Inv /\ WholeOrVisited /\ [Next]_vars => WholeOrVisited'
  BY WholeStep
<1> QED
  BY <1>1, <1>2, <1>3, WholeInit, FollowedInit, Invariance, PTL DEF Spec

-----------------------------------------------------------------------------
(***************************************************************************)
(* The walk descends.  What is ahead are sets of pairs of a position on    *)
(* the stack and a number; a step takes pairs away or leaves them alone,   *)
(* so that nothing need be summed up over the stack.                       *)
(***************************************************************************)
Pairs(n, f) == UNION {{k} \X f[k] : k \in 1..n}

LEMMA PairsMember ==
  ASSUME NEW n \in Nat, NEW f
  PROVE  \A p : p \in Pairs(n, f) <=> \E k \in 1..n : \E x \in f[k] : p = <<k, x>>
  BY DEF Pairs

LEMMA PairsSubset ==
  ASSUME NEW n \in Nat, NEW f, NEW m \in Nat, NEW g,
         \A k \in 1..m : \A x \in g[k] : k \in 1..n /\ x \in f[k]
  PROVE  Pairs(m, g) \subseteq Pairs(n, f)
  BY PairsMember

\* The pair <<k, x>> is one of f's and none of g's.
LEMMA PairsFewer ==
  ASSUME NEW n \in Nat, NEW f, NEW m \in Nat, NEW g,
         Pairs(m, g) \subseteq Pairs(n, f),
         NEW k \in 1..n, NEW x \in f[k], k \in 1..m => x \notin g[k]
  PROVE  Pairs(m, g) # Pairs(n, f)
<1>1. <<k, x>> \in Pairs(n, f)
  BY PairsMember
<1>2. ASSUME <<k, x>> \in Pairs(m, g)
      PROVE  FALSE
  <2>1. PICK l \in 1..m : \E y \in g[l] : <<k, x>> = <<l, y>>
    BY <1>2, PairsMember
  <2> QED
    BY <2>1
<1> QED
  BY <1>1, <1>2

LEMMA PairsFinite ==
  ASSUME NEW n \in Nat, NEW f, \A k \in 1..n : IsFiniteSet(f[k])
  PROVE  IsFiniteSet(Pairs(n, f))
<1> DEFINE slice == [k \in 1..n |-> {k} \X f[k]]
           slices == {{k} \X f[k] : k \in 1..n}
<1>1. \A k \in 1..n : IsFiniteSet({k} \X f[k])
  BY FS_Singleton, FS_Product
<1>2. slice \in Surjection(1..n, slices)
  <2>1. slice \in [1..n -> slices]
    OBVIOUS
  <2>2. \A T \in slices : \E k \in 1..n : slice[k] = T
    OBVIOUS
  <2> HIDE DEF slice, slices
  <2> QED
    BY <2>1, <2>2 DEF Surjection
<1>3. IsFiniteSet(1..n)
  <2>1. 1 \in Int /\ n \in Int
    OBVIOUS
  <2> QED
    BY <2>1, FS_Interval
<1> HIDE DEF slice
<1>4. IsFiniteSet(slices)
  BY <1>2, <1>3, FS_Surjection
<1>5. \A T \in slices : IsFiniteSet(T)
  BY <1>1
<1> QED
  BY <1>4, <1>5, FS_UNION DEF Pairs

\* A part of a finite set has fewer members.
LEMMA FewerMembers ==
  ASSUME NEW S, IsFiniteSet(S), NEW T \in SUBSET S
  PROVE  /\ IsFiniteSet(T) /\ Cardinality(S) \in Nat /\ Cardinality(T) \in Nat
         /\ Cardinality(T) <= Cardinality(S)
         /\ T # S => Cardinality(T) < Cardinality(S)
<1>1. IsFiniteSet(T) /\ Cardinality(T) <= Cardinality(S)
  BY FS_Subset
<1>2. Cardinality(S) = Cardinality(T) => S = T
  BY FS_Subset
<1>3. Cardinality(S) \in Nat /\ Cardinality(T) \in Nat
  BY <1>1, FS_CardinalityType
<1> QED
  BY <1>1, <1>2, <1>3

\* The calls and the visits that a stack of visitors has ahead, by position.
CallsIn(s) ==
  [k \in 1..Len(s) |-> 1..(Len(s[k].calls) - (IF k < Len(s) THEN 1 ELSE 0))]
VisitsIn(s) == [k \in 1..Len(s) |-> 0..Len(s[k].todo)]

\* A visitor below the top is inside its first call.
LEMMA CallsAt ==
  ASSUME NEW s, Len(s) \in Nat, NEW k \in 1..Len(s), NEW c \in Nat, Len(s[k].calls) = c
  PROVE  /\ k < Len(s) => CallsIn(s)[k] = 1..(c - 1)
         /\ k = Len(s) => CallsIn(s)[k] = 1..c
<1>1. CallsIn(s)[k] = 1..(c - (IF k < Len(s) THEN 1 ELSE 0))
  BY DEF CallsIn
<1>2. k = Len(s) => ~ (k < Len(s))
  BY Len(s) \in Nat
<1>3. c - 0 = c
  OBVIOUS
<1> QED
  BY <1>1, <1>2, <1>3

LEMMA AheadByPosition ==
  ASSUME TypeOK
  PROVE  /\ CallsAhead = Pairs(Len(stack), CallsIn(stack))
         /\ VisitsAhead = Pairs(Len(stack), VisitsIn(stack))
  BY TopType DEF CallsAhead, VisitsAhead, CallsOf, CallsIn, VisitsIn, Pairs

LEMMA AheadByPositionNext ==
  ASSUME TypeOK'
  PROVE  /\ CallsAhead' = Pairs(Len(stack'), CallsIn(stack'))
         /\ VisitsAhead' = Pairs(Len(stack'), VisitsIn(stack'))
<1>1. stack' \in Seq(Visitor) /\ DOMAIN stack' = 1..Len(stack')
  BY DEF TypeOK
<1> QED
  BY <1>1 DEF CallsAhead, VisitsAhead, CallsOf, CallsIn, VisitsIn, Pairs

LEMMA LengthsAreNumbers ==
  ASSUME NEW v \in Visitor
  PROVE  /\ Len(v.calls) \in Nat /\ (v.calls # <<>> => Len(v.calls) > 0)
         /\ Len(v.todo) \in Nat /\ (v.todo # <<>> => Len(v.todo) > 0)
         /\ v.calls # <<>> => Len(Tail(v.calls)) = Len(v.calls) - 1
         /\ v.todo # <<>> => Len(Tail(v.todo)) = Len(v.todo) - 1
<1>1. v.calls \in Seq(Call) /\ v.todo \in Seq(Member)
  BY DEF Visitor
<1> QED
  BY <1>1

\* All three are finite: what is ahead can be counted.
LEMMA AheadIsFinite ==
  ASSUME TypeOK
  PROVE  IsFiniteSet(Unknown) /\ IsFiniteSet(CallsAhead) /\ IsFiniteSet(VisitsAhead)
<1>1. IsFiniteSet(Unknown)
  BY FiniteAssumption, FS_Difference DEF Unknown
<1>2. Len(stack) \in Nat /\ \A k \in 1..Len(stack) : stack[k] \in Visitor
  BY TopType
<1>3. ASSUME NEW k \in 1..Len(stack)
      PROVE  IsFiniteSet(CallsIn(stack)[k]) /\ IsFiniteSet(VisitsIn(stack)[k])
  <2>1. Len(stack[k].calls) \in Nat /\ Len(stack[k].todo) \in Nat
    BY <1>2, LengthsAreNumbers
  <2> DEFINE n == Len(stack[k].calls) - (IF k < Len(stack) THEN 1 ELSE 0)
  <2>2. n \in Int /\ 0 \in Int /\ 1 \in Int /\ Len(stack[k].todo) \in Int
    BY <2>1
  <2>3. CallsIn(stack)[k] = 1..n /\ VisitsIn(stack)[k] = 0..Len(stack[k].todo)
    BY DEF CallsIn, VisitsIn
  <2> HIDE DEF n
  <2> QED
    BY <2>2, <2>3, FS_Interval
<1> QED
  BY <1>1, <1>2, <1>3, PairsFinite, AheadByPosition

\* How the three may shrink.
LEMMA ShrinksBelow ==
  ASSUME TypeOK, TypeOK', Unknown' \subseteq Unknown,
         \/ Unknown' # Unknown
         \/ CallsAhead' \subseteq CallsAhead /\ CallsAhead' # CallsAhead
         \/ /\ CallsAhead' = CallsAhead
            /\ VisitsAhead' \subseteq VisitsAhead /\ VisitsAhead' # VisitsAhead
  PROVE  Below(Ahead', Ahead)
<1>1. IsFiniteSet(Unknown) /\ IsFiniteSet(CallsAhead) /\ IsFiniteSet(VisitsAhead)
  BY AheadIsFinite
<1>2. /\ Cardinality(Unknown) \in Nat /\ Cardinality(Unknown') \in Nat
      /\ Cardinality(Unknown') <= Cardinality(Unknown)
      /\ Unknown' # Unknown => Cardinality(Unknown') < Cardinality(Unknown)
  BY <1>1, FewerMembers
<1>3. CASE CallsAhead' \subseteq CallsAhead /\ CallsAhead' # CallsAhead
  <2>1. Cardinality(CallsAhead') < Cardinality(CallsAhead)
    BY <1>1, <1>3, FewerMembers
  <2> QED
    BY <1>2, <2>1 DEF Below, Ahead
<1>4. CASE /\ CallsAhead' = CallsAhead
           /\ VisitsAhead' \subseteq VisitsAhead /\ VisitsAhead' # VisitsAhead
  <2>1. Cardinality(VisitsAhead') < Cardinality(VisitsAhead)
    BY <1>1, <1>4, FewerMembers
  <2> QED
    BY <1>2, <1>4, <2>1 DEF Below, Ahead
<1>5. CASE Unknown' # Unknown
  BY <1>2, <1>5 DEF Below, Ahead
<1> QED
  BY <1>3, <1>4, <1>5

LEMMA UnknownShrinks ==
  ASSUME [Next]_vars
  PROVE  Unknown' \subseteq Unknown
  BY MethodsGrow DEF Unknown

-----------------------------------------------------------------------------
(***************************************************************************)
(* Each step takes away a method, a call or a visit.                       *)
(***************************************************************************)
LEMMA VisitDescends ==
  ASSUME Inv, TypeOK', VisitKnown \/ VisitMethod
  PROVE  Below(Ahead', Ahead)
<1>0. TypeOK /\ ReadsOwnMethods /\ Unknown' \subseteq Unknown
  BY UnknownShrinks DEF Inv, Next, Walk
<1>1. CASE VisitMethod
  <2>1. NextMember \in AllMethods /\ NextMember \notin methods /\ NextMember \in methods'
    BY <1>0, <1>1, VisitMethodStep, NextIsOwn
  <2> QED
    BY <1>0, <2>1, ShrinksBelow DEF Unknown
<1>2. CASE VisitKnown
  <2> DEFINE n == Len(stack)
  <2>1. /\ n \in Nat \ {0} /\ Top = stack[n] /\ Top \in Visitor
        /\ \A k \in 1..n : stack[k] \in Visitor
    BY <1>0, TopType
  <2>2. /\ Top.todo # <<>> /\ Rest.calls = Top.calls /\ Rest.todo = Tail(Top.todo)
        /\ Rest \in Visitor /\ SetTop(Rest)
    <3>1. Visiting /\ Top.todo # <<>>
      BY <1>2 DEF VisitKnown, Visiting
    <3> QED
      BY <1>0, <1>2, <3>1, RestFields, VisitKnownStep
  <2>3. /\ Len(stack') = n /\ stack'[n] = Rest
        /\ \A k \in 1..(n - 1) : stack'[k] = stack[k]
    BY <1>0, <2>2, TopChanges
  <2>4. \A k \in 1..n : k = n \/ k \in 1..(n - 1)
    BY <2>1, LastIndex
  <2>5. \A k \in 1..n : stack'[k].calls = stack[k].calls
    BY <2>1, <2>2, <2>3, <2>4
  <2>6. CallsIn(stack') = CallsIn(stack)
    BY <2>3, <2>5 DEF CallsIn
  <2>7. /\ Len(Top.todo) \in Nat /\ Len(Top.todo) > 0
        /\ Len(Rest.todo) = Len(Top.todo) - 1
    BY <2>1, <2>2, LengthsAreNumbers
  <2>8. \A k \in 1..n : VisitsIn(stack')[k] \subseteq VisitsIn(stack)[k]
    <3> SUFFICES ASSUME NEW k \in 1..n
                 PROVE  0..Len(stack'[k].todo) \subseteq 0..Len(stack[k].todo)
      BY <2>3 DEF VisitsIn
    <3>1. CASE k = n
      BY <2>1, <2>3, <2>7, <3>1
    <3>2. CASE k \in 1..(n - 1)
      BY <2>3, <3>2
    <3> QED
      BY <2>4, <3>1, <3>2
  <2>9. Len(Top.todo) \in VisitsIn(stack)[n] /\ Len(Top.todo) \notin VisitsIn(stack')[n]
    <3>1. n \in 1..n
      BY <2>1
    <3>2. VisitsIn(stack)[n] = 0..Len(Top.todo) /\ VisitsIn(stack')[n] = 0..Len(Rest.todo)
      BY <2>1, <2>3, <3>1 DEF VisitsIn
    <3> QED
      BY <2>7, <3>2
  <2>10. n \in Nat /\ n \in 1..n
    BY <2>1
  <2> HIDE DEF n
  <2>11. Pairs(n, VisitsIn(stack')) \subseteq Pairs(n, VisitsIn(stack))
    BY <2>8, <2>10, PairsSubset
  <2>12. Pairs(n, VisitsIn(stack')) # Pairs(n, VisitsIn(stack))
    BY <2>9, <2>10, <2>11, PairsFewer
  <2>13. /\ CallsAhead' = CallsAhead
         /\ VisitsAhead' \subseteq VisitsAhead /\ VisitsAhead' # VisitsAhead
    BY <1>0, <2>3, <2>6, <2>11, <2>12, AheadByPosition, AheadByPositionNext DEF n
  <2> QED
    BY <1>0, <2>13, ShrinksBelow
<1> QED
  BY <1>1, <1>2

LEMMA CallDescends ==
  ASSUME Inv, TypeOK', VisitOwnCall \/ VisitCall
  PROVE  Below(Ahead', Ahead)
<1>0. TypeOK /\ Unknown' \subseteq Unknown
  BY UnknownShrinks DEF Inv, Next, Walk
<1> DEFINE n == Len(stack)
           l == Len(Top.calls)
<1>1. /\ n \in Nat \ {0} /\ Top = stack[n] /\ Top \in Visitor
      /\ \A k \in 1..n : k = n \/ k \in 1..(n - 1)
  BY <1>0, TopType, LastIndex
<1>2. Top.calls # <<>>
  BY DEF VisitOwnCall, VisitCall, Reading
<1>3. l \in Nat /\ l > 0 /\ Len(Tail(Top.calls)) = l - 1
  BY <1>1, <1>2, LengthsAreNumbers
\* The first call of the innermost body is no longer ahead, and nothing comes in.
<1>4. /\ \A k \in 1..(n - 1) : CallsIn(stack')[k] = CallsIn(stack)[k]
      /\ CallsIn(stack')[n] = 1..(l - 1)
      /\ Len(stack') = n \/ (Len(stack') = n + 1 /\ CallsIn(stack')[n + 1] = {})
  <2>1. CASE VisitOwnCall
    <3>1. OneCallOn(Top) \in Visitor /\ SetTop(OneCallOn(Top))
      BY <1>0, <2>1, VisitOwnCallStep
    <3>2. /\ Len(stack') = n /\ stack'[n] = OneCallOn(Top)
          /\ \A k \in 1..(n - 1) : stack'[k] = stack[k]
      BY <1>0, <3>1, TopChanges
    <3>3. OneCallOn(Top).calls = Tail(Top.calls)
      BY <1>1, <1>2, OneCallOnFields
    <3>4. \A k \in 1..(n - 1) : k \in 1..n
      BY <1>1
    <3>5. CallsIn(stack')[n] = 1..(l - 1)
      <4>1. n \in 1..n /\ l - 1 \in Nat /\ n \in Nat
        BY <1>1, <1>3
      <4>2. Len(stack'[n].calls) = l - 1
        BY <1>3, <3>2, <3>3
      <4> HIDE DEF n, l
      <4> QED
        BY <3>2, <4>1, <4>2, CallsAt
    <3>6. \A k \in 1..(n - 1) : CallsIn(stack')[k] = CallsIn(stack)[k]
      BY <3>2, <3>4 DEF CallsIn
    <3> QED
      BY <3>2, <3>5, <3>6
  <2>2. CASE VisitCall
    <3>1. Called \in Visitor /\ Called.calls = <<>> /\ stack' = Append(stack, Called)
      BY <1>0, <2>2, VisitCallStep
    <3>2. /\ Len(stack') = n + 1 /\ stack'[n + 1] = Called
          /\ \A k \in 1..n : stack'[k] = stack[k]
      BY <1>0, <3>1, VisitorStarts
    <3>3. \A k \in 1..(n - 1) : k \in 1..n /\ k \in 1..(n + 1) /\ k < n /\ k < n + 1
      BY <1>1
    <3>4. n \in 1..n /\ n \in 1..(n + 1) /\ n < n + 1 /\ n + 1 \in 1..(n + 1)
      BY <1>1
    <3>5. CallsIn(stack')[n] = 1..(l - 1)
      <4>1. n + 1 \in Nat /\ l \in Nat /\ Len(stack'[n].calls) = l
        BY <1>1, <1>3, <3>2, <3>4
      <4> HIDE DEF n, l
      <4> QED
        BY <3>2, <3>4, <4>1, CallsAt
    <3>6. \A k \in 1..(n - 1) : CallsIn(stack')[k] = CallsIn(stack)[k]
      BY <3>2, <3>3 DEF CallsIn
    <3>7. CallsIn(stack')[n + 1] = {}
      <4>1. n + 1 \in Nat /\ 0 \in Nat /\ Len(stack'[n + 1].calls) = 0 /\ 1..0 = {}
        BY <1>1, <3>1, <3>2
      <4> HIDE DEF n
      <4> QED
        BY <3>2, <3>4, <4>1, CallsAt
    <3> QED
      BY <3>2, <3>5, <3>6, <3>7
  <2> QED
    BY <2>1, <2>2
<1>5. CallsIn(stack)[n] = 1..l /\ n \in 1..n
  <2>1. n \in Nat /\ n \in 1..n /\ Len(stack[n].calls) = l
    BY <1>1
  <2> QED
    BY <1>3, <2>1, CallsAt
<1>6. /\ Len(stack') \in Nat /\ n \in Nat
      /\ \A k \in 1..Len(stack') :
           \/ k \in 1..(n - 1) /\ k \in 1..n
           \/ k = n
           \/ k = n + 1 /\ Len(stack') = n + 1
  BY <1>1, <1>4
<1>7. l \in 1..l /\ l \notin 1..(l - 1) /\ 1..(l - 1) \subseteq 1..l
  BY <1>3
<1> HIDE DEF n, l
<1>8. \A k \in 1..Len(stack') : \A x \in CallsIn(stack')[k] :
        k \in 1..n /\ x \in CallsIn(stack)[k]
  BY <1>4, <1>5, <1>6, <1>7
<1>9. Pairs(Len(stack'), CallsIn(stack')) \subseteq Pairs(n, CallsIn(stack))
  BY <1>6, <1>8, PairsSubset
<1>10. Pairs(Len(stack'), CallsIn(stack')) # Pairs(n, CallsIn(stack))
  <2>1. l \in CallsIn(stack)[n] /\ l \notin CallsIn(stack')[n]
    BY <1>4, <1>5, <1>7
  <2> QED
    BY <1>5, <1>6, <1>9, <2>1, PairsFewer
<1>11. CallsAhead' \subseteq CallsAhead /\ CallsAhead' # CallsAhead
  BY <1>0, <1>9, <1>10, AheadByPosition, AheadByPositionNext DEF n
<1> QED
  BY <1>0, <1>11, ShrinksBelow

LEMMA ReturnDescends ==
  ASSUME Inv, TypeOK', Return
  PROVE  Below(Ahead', Ahead)
<1>0. /\ TypeOK /\ ReadsOwnMethods /\ AtCall /\ Unknown' \subseteq Unknown
      /\ Len(stack) > 1 /\ Top.calls = <<>>
  BY UnknownShrinks DEF Inv, Next, Walk, Return, Accepted
<1> DEFINE n == Len(stack)
<1>1. /\ n \in Nat /\ n > 1 /\ Top = stack[n] /\ Top \in Visitor
  BY <1>0, TopType
<1>2. /\ OneCallOn(Caller) \in Visitor
      /\ stack' = Append(SubSeq(stack, 1, n - 2), OneCallOn(Caller))
  BY <1>0, ReturnStep
<1>3. /\ Len(stack') = n - 1 /\ stack'[n - 1] = OneCallOn(Caller)
      /\ \A k \in 1..(n - 2) : stack'[k] = stack[k]
  BY <1>0, <1>2, VisitorReturns
<1>4. /\ Caller \in Visitor /\ Caller.calls # <<>>
      /\ OneCallOn(Caller).calls = Tail(Caller.calls)
      /\ OneCallOn(Caller).todo = Caller.todo
  BY <1>0, CallerType, OneCallOnFields
<1>5. /\ Len(Caller.calls) \in Nat /\ Len(Tail(Caller.calls)) = Len(Caller.calls) - 1
      /\ Len(Top.todo) \in Nat
  BY <1>1, <1>4, LengthsAreNumbers
<1>6. /\ n - 1 \in Nat /\ n \in 1..n /\ n \notin 1..(n - 1)
      /\ n - 1 \in 1..n /\ n - 1 \in 1..(n - 1) /\ n - 1 < n
      /\ \A k \in 1..(n - 2) : k \in 1..n /\ k \in 1..(n - 1) /\ k < n /\ k < n - 1
      /\ \A k \in 1..(n - 1) : k \in 1..n /\ (k = n - 1 \/ k \in 1..(n - 2))
  BY <1>1
\* The caller was inside its first call, and has the others ahead as before.
<1>7. \A k \in 1..(n - 1) : CallsIn(stack')[k] = CallsIn(stack)[k]
  <2> DEFINE c == Len(Caller.calls)
  <2>0. /\ c \in Nat /\ c - 1 \in Nat /\ Len(stack[n - 1].calls) = c
        /\ Len(stack'[n - 1].calls) = c - 1
    <3>1. c > 0
      BY <1>4, LengthsAreNumbers
    <3> QED
      BY <1>3, <1>4, <1>5, <3>1 DEF Caller
  <2> HIDE DEF n, c
  <2>1. CallsIn(stack')[n - 1] = 1..(c - 1)
    BY <1>3, <1>6, <2>0, CallsAt
  <2>2. CallsIn(stack)[n - 1] = 1..(c - 1)
    <3>1. n = Len(stack) /\ n \in Nat
      BY <1>1 DEF n
    <3>2. n - 1 \in 1..n /\ n - 1 < n
      BY <1>6
    <3> QED
      BY <2>0, <3>1, <3>2, CallsAt
  <2>3. \A k \in 1..(n - 2) : CallsIn(stack')[k] = CallsIn(stack)[k]
    BY <1>3, <1>6 DEF CallsIn, n
  <2> QED
    BY <1>6, <2>1, <2>2, <2>3
<1>8. CallsIn(stack)[n] = {}
  <2>1. 0 \in Nat /\ Len(stack[n].calls) = 0 /\ 1..0 = {}
    BY <1>0, <1>1
  <2>2. n = Len(stack) /\ Len(stack) \in Nat /\ n \in 1..Len(stack)
    BY <1>1
  <2> HIDE DEF n
  <2>3. CallsIn(stack)[n] = 1..0
    BY <2>1, <2>2, CallsAt
  <2> QED
    BY <2>1, <2>3
<1>9. \A k \in 1..(n - 1) : VisitsIn(stack')[k] = VisitsIn(stack)[k]
  <2>1. stack'[n - 1].todo = stack[n - 1].todo
    BY <1>3, <1>4 DEF Caller
  <2>2. \A k \in 1..(n - 1) : stack'[k].todo = stack[k].todo
    BY <1>3, <1>6, <2>1
  <2> QED
    BY <1>3, <1>6, <2>2 DEF VisitsIn
<1>10. 0 \in VisitsIn(stack)[n]
  BY <1>1, <1>5, <1>6 DEF VisitsIn
<1>11. n \in Nat /\ \A k \in 1..n : k = n \/ k \in 1..(n - 1)
  BY <1>1
<1> HIDE DEF n
<1>12. Pairs(n - 1, CallsIn(stack')) \subseteq Pairs(n, CallsIn(stack))
  BY <1>6, <1>7, <1>11, PairsSubset
<1>13. Pairs(n, CallsIn(stack)) \subseteq Pairs(n - 1, CallsIn(stack'))
  <2>1. \A k \in 1..n : \A x \in CallsIn(stack)[k] :
          k \in 1..(n - 1) /\ x \in CallsIn(stack')[k]
    BY <1>7, <1>8, <1>11
  <2> QED
    BY <1>6, <1>11, <2>1, PairsSubset
<1>14. Pairs(n - 1, VisitsIn(stack')) \subseteq Pairs(n, VisitsIn(stack))
  BY <1>6, <1>9, <1>11, PairsSubset
<1>15. Pairs(n - 1, VisitsIn(stack')) # Pairs(n, VisitsIn(stack))
  BY <1>6, <1>10, <1>11, <1>14, PairsFewer
<1>16. /\ CallsAhead' = CallsAhead
       /\ VisitsAhead' \subseteq VisitsAhead /\ VisitsAhead' # VisitsAhead
  <2>1. /\ CallsAhead = Pairs(n, CallsIn(stack)) /\ VisitsAhead = Pairs(n, VisitsIn(stack))
        /\ CallsAhead' = Pairs(n - 1, CallsIn(stack'))
        /\ VisitsAhead' = Pairs(n - 1, VisitsIn(stack'))
    BY <1>0, <1>3, AheadByPosition, AheadByPositionNext DEF n
  <2> QED
    BY <1>12, <1>13, <1>14, <1>15, <2>1
<1> QED
  BY <1>0, <1>16, ShrinksBelow

(***************************************************************************)
(* What is ahead of HierarchyClassVisitor can be counted at any moment.    *)
(***************************************************************************)
THEOREM AheadIsCounted == Spec => [](Ahead \in Nat \X Nat \X Nat)
<1>1. Inv => Ahead \in Nat \X Nat \X Nat
  <2> SUFFICES ASSUME Inv
               PROVE  Ahead \in Nat \X Nat \X Nat
    OBVIOUS
  <2>1. IsFiniteSet(Unknown) /\ IsFiniteSet(CallsAhead) /\ IsFiniteSet(VisitsAhead)
    BY AheadIsFinite DEF Inv
  <2>2. /\ Cardinality(Unknown) \in Nat /\ Cardinality(CallsAhead) \in Nat
        /\ Cardinality(VisitsAhead) \in Nat
    BY <2>1, FS_CardinalityType
  <2> QED
    BY <2>2 DEF Ahead
<1> QED
  BY <1>1, Invariance, PTL

(***************************************************************************)
(* Each step of HierarchyClassVisitor that is not its last leaves less     *)
(* ahead, whatever cycles the calls make and however classes inherit.  So  *)
(* its recursion ends: no triples of numbers descend for ever.             *)
(***************************************************************************)
THEOREM WalkIsDescending == Spec => WalkDescends
<1>1. ASSUME Inv, Inv', Next, vars' # vars, status' = "reading"
      PROVE  Below(Ahead', Ahead)
  <2>1. TypeOK'
    BY <1>1 DEF Inv
  <2>2. CASE VisitKnown \/ VisitMethod
    BY <1>1, <2>1, <2>2, VisitDescends
  <2>3. CASE VisitOwnCall \/ VisitCall
    BY <1>1, <2>1, <2>3, CallDescends
  <2>4. CASE Return
    BY <1>1, <2>1, <2>4, ReturnDescends
  <2>5. ~ (VisitUnreadable \/ Finish \/ Ended)
    BY <1>1 DEF VisitUnreadable, Finish, Ended
  <2> QED
    BY <1>1, <2>2, <2>3, <2>4, <2>5 DEF Next, Walk
<1>2. Inv /\ Inv' /\ [Next]_vars => [status' = "reading" => Below(Ahead', Ahead)]_vars
  BY <1>1
<1> QED
  BY <1>2, Invariance, PTL DEF Spec, WalkDescends

=============================================================================
