------------------------ MODULE MethodHierarchyProofs ------------------------
(***************************************************************************)
(* Theorems about the walk over class files, for every set of classes with *)
(* finitely many methods, every hierarchy and every program.               *)
(***************************************************************************)
EXTENDS MethodHierarchy, FiniteSetTheorems, SequenceTheorems, TLAPS

-----------------------------------------------------------------------------
\* What is left of a sequence holds nothing new.
LEMMA TailOfSeq ==
  ASSUME NEW S, NEW s \in Seq(S), s # <<>>
  PROVE  /\ Head(s) \in S /\ Tail(s) \in Seq(S)
         /\ Head(s) \in ToSet(s) /\ ToSet(Tail(s)) \subseteq ToSet(s)
  BY SMT DEF ToSet

LEMMA NonEmptySeq ==
  ASSUME NEW S, NEW s \in Seq(S), Len(s) # 0
  PROVE  s # <<>> /\ DOMAIN s = 1..Len(s)
  OBVIOUS

LEMMA Prefix ==
  ASSUME NEW S, NEW s \in Seq(S), NEW n \in 0..Len(s)
  PROVE  /\ SubSeq(s, 1, n) \in Seq(S) /\ Len(SubSeq(s, 1, n)) = n
         /\ \A k \in 1..n : SubSeq(s, 1, n)[k] = s[k]
<1>1. Len(s) \in Nat /\ n \in Nat
  OBVIOUS
<1>2. \A k \in 1..n : s[k] \in S
  BY <1>1
<1>3. n - 1 + 1 = n /\ \A k \in 1..n : 1 + k - 1 = k
  BY <1>1
<1> QED
  BY <1>1, <1>2, <1>3, SMT

LEMMA ElementsOfSeq ==
  ASSUME NEW S, NEW s \in Seq(S)
  PROVE  ToSet(s) \subseteq S
  BY DEF ToSet

LEMMA MethodsOfType ==
  ASSUME NEW c \in Classes
  PROVE  MethodsOf(c) \subseteq CMethodInfo /\ MethodsOf(c) \subseteq AllMethods
<1>1. ToSet(Declared[c]) \subseteq Member
  BY ElementsOfSeq, ClassesAssumption
<1>2. ASSUME NEW member \in Member
      PROVE  Info(c, member) \in CMethodInfo
  BY <1>2 DEF Info, Member, CMethodInfo
<1> QED
  BY <1>1, <1>2 DEF MethodsOf, AllMethods

LEMMA InheritedType ==
  ASSUME NEW c \in Classes
  PROVE  Inherited(c) \subseteq CMethodInfo
<1>1. AllSuperclasses(c) \subseteq Classes
  BY ClassesAssumption DEF AllSuperclasses
<1> QED
  BY <1>1, MethodsOfType DEF Inherited, DeclaredMethods

LEMMA VisitorType ==
  ASSUME NEW c \in Classes, NEW name \in Names
  PROVE  NewVisitor(c, name) \in Visitor
<1>1. Declared[c] \in Seq(Member)
  BY ClassesAssumption
<1>2. <<>> \in Seq(Call)
  BY EmptySeq
<1> QED
  BY <1>1, <1>2 DEF NewVisitor, Visitor

\* The innermost visitor.
LEMMA TopType ==
  ASSUME TypeOK
  PROVE  /\ Len(stack) \in Nat \ {0} /\ DOMAIN stack = 1..Len(stack)
         /\ Top = stack[Len(stack)] /\ Top \in Visitor
         /\ \A k \in 1..Len(stack) : stack[k] \in Visitor
<1>1. stack \in Seq(Visitor) /\ stack # <<>>
  BY DEF TypeOK
<1>2. Len(stack) \in Nat \ {0} /\ DOMAIN stack = 1..Len(stack)
  BY <1>1, EmptySeq, LenProperties
<1>3. \A k \in 1..Len(stack) : stack[k] \in Visitor
  BY <1>1, ElementOfSeq
<1> QED
  BY <1>2, <1>3 DEF Top, Last

\* What a visitor makes of the next method.
LEMMA NextMemberType ==
  ASSUME TypeOK, Visiting
  PROVE  /\ Head(Top.todo) \in ToSet(Top.todo) /\ Tail(Top.todo) \in Seq(Member)
         /\ ToSet(Tail(Top.todo)) \subseteq ToSet(Top.todo)
         /\ NextMember \in CMethodInfo
<1>1. Top \in Visitor /\ Top.todo # <<>>
  BY TopType DEF Visiting
<1>2. Top.cName \in Classes /\ Top.todo \in Seq(Member)
  BY <1>1 DEF Visitor
<1>3. /\ Head(Top.todo) \in Member /\ Head(Top.todo) \in ToSet(Top.todo)
      /\ Tail(Top.todo) \in Seq(Member)
      /\ ToSet(Tail(Top.todo)) \subseteq ToSet(Top.todo)
  BY <1>1, <1>2, TailOfSeq
<1>4. NextMember \in CMethodInfo
  BY <1>2, <1>3 DEF NextMember, Info, Member, CMethodInfo
<1> QED
  BY <1>3, <1>4

\* A step that changes the innermost visitor only.
LEMMA TopChanges ==
  ASSUME TypeOK, NEW v \in Visitor, SetTop(v)
  PROVE  /\ stack' \in Seq(Visitor) /\ stack' # <<>>
         /\ Len(stack') = Len(stack) /\ stack'[Len(stack)] = v
         /\ DOMAIN stack' = 1..Len(stack)
         /\ \A k \in 1..(Len(stack) - 1) : stack'[k] = stack[k]
<1>1. stack \in Seq(Visitor) /\ Len(stack) \in Nat \ {0}
  BY TopType DEF TypeOK
<1>2. /\ stack' \in Seq(Visitor) /\ Len(stack') = Len(stack)
      /\ \A k \in 1..Len(stack) : stack'[k] = IF k = Len(stack) THEN v ELSE stack[k]
  BY <1>1, ExceptSeq DEF SetTop
<1>3. stack' # <<>> /\ DOMAIN stack' = 1..Len(stack)
  BY <1>1, <1>2, NonEmptySeq
<1>4. Len(stack) \in 1..Len(stack) /\ 1..(Len(stack) - 1) \subseteq 1..Len(stack)
  BY <1>1
<1>5. stack'[Len(stack)] = v
  BY <1>2, <1>4
<1>6. ASSUME NEW k \in 1..(Len(stack) - 1)
      PROVE  stack'[k] = stack[k]
  <2>1. k # Len(stack) /\ k \in 1..Len(stack)
    BY <1>1
  <2> QED
    BY <1>2, <2>1
<1> QED
  BY <1>2, <1>3, <1>5, <1>6

\* A step that starts another visitor.
LEMMA VisitorStarts ==
  ASSUME TypeOK, NEW v \in Visitor, stack' = Append(stack, v)
  PROVE  /\ stack' \in Seq(Visitor) /\ stack' # <<>>
         /\ Len(stack') = Len(stack) + 1 /\ stack'[Len(stack) + 1] = v
         /\ DOMAIN stack' = 1..(Len(stack) + 1)
         /\ \A k \in 1..Len(stack) : stack'[k] = stack[k]
<1>1. stack \in Seq(Visitor) /\ Len(stack) \in Nat \ {0}
  BY TopType DEF TypeOK
<1>2. /\ stack' \in Seq(Visitor) /\ Len(stack') = Len(stack) + 1
      /\ stack'[Len(stack) + 1] = v
      /\ \A k \in 1..Len(stack) : stack'[k] = stack[k]
  BY <1>1, AppendProperties
<1>3. stack' # <<>> /\ DOMAIN stack' = 1..(Len(stack) + 1)
  BY <1>1, <1>2, NonEmptySeq
<1> QED
  BY <1>2, <1>3

\* A step that leaves the innermost visitor for the one that started it.
LEMMA VisitorReturns ==
  ASSUME TypeOK, Len(stack) > 1, NEW v \in Visitor,
         stack' = Append(SubSeq(stack, 1, Len(stack) - 2), v)
  PROVE  /\ stack' \in Seq(Visitor) /\ stack' # <<>>
         /\ Len(stack') = Len(stack) - 1 /\ stack'[Len(stack) - 1] = v
         /\ DOMAIN stack' = 1..(Len(stack) - 1)
         /\ \A k \in 1..(Len(stack) - 2) : stack'[k] = stack[k]
<1>1. stack \in Seq(Visitor) /\ Len(stack) \in Nat \ {0, 1}
  BY TopType DEF TypeOK
<1> DEFINE below == SubSeq(stack, 1, Len(stack) - 2)
<1>2. /\ below \in Seq(Visitor) /\ Len(below) = Len(stack) - 2
      /\ \A k \in 1..(Len(stack) - 2) : below[k] = stack[k]
  <2>1. Len(stack) - 2 \in 0..Len(stack)
    BY <1>1
  <2> QED
    BY <1>1, <2>1, Prefix
<1> HIDE DEF below
<1>3. stack' = Append(below, v)
  BY DEF below
<1>4. Len(below) \in Nat /\ Len(below) + 1 = Len(stack) - 1
  BY <1>1, <1>2
<1>5. /\ stack' \in Seq(Visitor) /\ Len(stack') = Len(stack) - 1
      /\ stack'[Len(stack) - 1] = v
      /\ \A k \in 1..(Len(stack) - 2) : stack'[k] = below[k]
  <2>1. /\ stack' \in Seq(Visitor) /\ Len(stack') = Len(below) + 1
        /\ stack'[Len(below) + 1] = v
        /\ \A k \in 1..Len(below) : stack'[k] = below[k]
    <3>1. below \in Seq(Visitor) /\ v \in Visitor
      BY <1>2
    <3>2. /\ Append(below, v) \in Seq(Visitor)
          /\ Len(Append(below, v)) = Len(below) + 1
          /\ Append(below, v)[Len(below) + 1] = v
          /\ \A k \in 1..Len(below) : Append(below, v)[k] = below[k]
      BY <3>1, AppendProperties
    <3> QED
      BY <1>3, <3>2
  <2> QED
    BY <2>1, <1>2, <1>4
<1>6. stack' # <<>> /\ DOMAIN stack' = 1..(Len(stack) - 1)
  BY <1>1, <1>5, NonEmptySeq
<1> QED
  BY <1>2, <1>5, <1>6

LEMMA IndexAfterReturn ==
  ASSUME TypeOK, Len(stack) > 1, NEW v \in Visitor,
         stack' = Append(SubSeq(stack, 1, Len(stack) - 2), v),
         NEW k \in DOMAIN stack'
  PROVE  /\ k \in 1..Len(stack)
         /\ k \in 1..(Len(stack) - 2) \/ k = Len(stack) - 1
<1>1. k \in 1..(Len(stack) - 1)
  BY VisitorReturns
<1>2. Len(stack) \in Nat
  BY TopType
<1> QED
  BY <1>1, <1>2

-----------------------------------------------------------------------------
(***************************************************************************)
(* The visitors that the steps put on top.                                 *)
(***************************************************************************)
LEMMA TopReadsOwn ==
  ASSUME TypeOK, ReadsOwnMethods
  PROVE  ReadsOwn(Top)
  BY TopType DEF ReadsOwnMethods

LEMMA NextIsOwn ==
  ASSUME TypeOK, ReadsOwnMethods, Visiting
  PROVE  NextMember \in MethodsOf(Top.cName) /\ NextMember \in AllMethods
<1>1. Head(Top.todo) \in ToSet(Declared[Top.cName])
  BY NextMemberType, TopReadsOwn DEF ReadsOwn
<1>2. Top.cName \in Classes
  BY TopType DEF Visitor
<1> QED
  BY <1>1, <1>2, MethodsOfType DEF NextMember, MethodsOf

LEMMA RestFields ==
  ASSUME TypeOK, Visiting
  PROVE  /\ Rest \in Visitor
         /\ Rest.cName = Top.cName /\ Rest.todo = Tail(Top.todo)
         /\ Rest.reading = Top.reading /\ Rest.calls = Top.calls
<1>1. Top \in Visitor /\ Tail(Top.todo) \in Seq(Member)
  BY TopType, NextMemberType
<1> QED
  BY <1>1 DEF Rest, Visitor

LEMMA ReadBodyFields ==
  ASSUME TypeOK, ReadsOwnMethods, Visiting
  PROVE  /\ ReadBody(NextMember) \in Visitor
         /\ ReadBody(NextMember).cName = Top.cName
         /\ ReadBody(NextMember).todo = Tail(Top.todo)
         /\ ReadBody(NextMember).reading = NextMember
         /\ ReadBody(NextMember).calls = body[NextMember]
<1>1. /\ Rest \in Visitor /\ Rest.cName = Top.cName
      /\ Rest.todo = Tail(Top.todo)
  BY RestFields
<1>2. NextMember \in CMethodInfo /\ body[NextMember] \in Seq(Call)
  BY NextMemberType, NextIsOwn DEF TypeOK
<1> QED
  BY <1>1, <1>2 DEF ReadBody, Visitor

\* A visitor one call further.
OneCallOn(visitor) == [visitor EXCEPT !.calls = Tail(@)]

LEMMA OneCallOnFields ==
  ASSUME NEW v \in Visitor, v.calls # <<>>
  PROVE  /\ OneCallOn(v) \in Visitor
         /\ OneCallOn(v).cName = v.cName /\ OneCallOn(v).todo = v.todo
         /\ OneCallOn(v).reading = v.reading /\ OneCallOn(v).calls = Tail(v.calls)
         /\ Head(v.calls) \in Call /\ Head(v.calls) \in ToSet(v.calls)
         /\ ToSet(Tail(v.calls)) \subseteq ToSet(v.calls)
<1>1. v.calls \in Seq(Call)
  BY DEF Visitor
<1>2. /\ Head(v.calls) \in Call /\ Head(v.calls) \in ToSet(v.calls)
      /\ Tail(v.calls) \in Seq(Call)
      /\ ToSet(Tail(v.calls)) \subseteq ToSet(v.calls)
  BY <1>1, TailOfSeq
<1> QED
  BY <1>2 DEF OneCallOn, Visitor

\* The caller of the innermost visitor, which its return goes on with.
Caller == stack[Len(stack) - 1]

LEMMA CallerType ==
  ASSUME TypeOK, AtCall, ReadsOwnMethods, Len(stack) > 1
  PROVE  /\ Caller \in Visitor /\ Caller.calls # <<>> /\ ReadsOwn(Caller)
         /\ Caller.reading \in CMethodInfo
         /\ Head(Caller.calls).owner = Top.cName
         /\ CalledInfo(Head(Caller.calls), Caller.reading) \in CMethodInfo
         /\ CalledInfo(Head(Caller.calls), Caller.reading).cClassName = Top.cName
<1>1. Len(stack) - 1 \in 1..(Len(stack) - 1) /\ Len(stack) - 1 \in DOMAIN stack
  BY TopType
<1>2. Caller \in Visitor /\ Caller.calls # <<>> /\ ReadsOwn(Caller)
  BY <1>1, TopType DEF Caller, AtCall, ReadsOwnMethods
<1>3. Head(Caller.calls).owner = Top.cName
  <2>1. (Len(stack) - 1) + 1 = Len(stack)
    BY TopType
  <2> QED
    BY <1>1, <2>1, TopType DEF Caller, AtCall
<1>4. Caller.reading \in CMethodInfo
  BY <1>2 DEF ReadsOwn, Visitor
<1>5. Head(Caller.calls) \in Call /\ Top.cName \in Classes
  BY <1>2, OneCallOnFields, TopType DEF Visitor
<1> QED
  BY <1>2, <1>3, <1>4, <1>5 DEF CalledInfo, CMethodInfo, Call

-----------------------------------------------------------------------------
(***************************************************************************)
(* What each step does to the stack of visitors.                           *)
(***************************************************************************)
LEMMA VisitKnownStep ==
  ASSUME TypeOK, VisitKnown
  PROVE  Rest \in Visitor /\ SetTop(Rest) /\ UNCHANGED <<body, methods, status>>
  BY RestFields DEF VisitKnown

LEMMA VisitMethodStep ==
  ASSUME TypeOK, ReadsOwnMethods, VisitMethod
  PROVE  /\ Visiting /\ NextMember \notin methods
         /\ methods' = methods \cup {NextMember} /\ NextMember \in CMethodInfo
         /\ UNCHANGED <<body, status>>
         /\ \/ SetTop(ReadBody(NextMember))
            \/ SetTop(Rest)
  BY NextMemberType DEF VisitMethod, Known

LEMMA VisitOwnCallStep ==
  ASSUME TypeOK, VisitOwnCall
  PROVE  /\ OneCallOn(Top) \in Visitor /\ Top.calls # <<>>
         /\ SetTop(OneCallOn(Top)) /\ UNCHANGED <<body, methods, status>>
  BY TopType, OneCallOnFields DEF VisitOwnCall, Reading, OneCallOn

\* The visitor that VisitCall starts.
Called == NewVisitor(Head(Top.calls).owner, Head(Top.calls).name)

LEMMA VisitCallStep ==
  ASSUME TypeOK, VisitCall
  PROVE  /\ Called \in Visitor /\ Top.calls # <<>>
         /\ Head(Top.calls).owner \in Classes
         /\ Called.cName = Head(Top.calls).owner /\ Called.todo = Declared[Called.cName]
         /\ Called.reading = NoMethod /\ Called.calls = <<>>
         /\ stack' = Append(stack, Called)
         /\ methods' = methods \cup Inherited(Head(Top.calls).owner)
         /\ UNCHANGED <<body, status>>
<1>1. Top \in Visitor /\ Top.calls # <<>>
  BY TopType DEF VisitCall, Reading
<1>2. Head(Top.calls) \in Call /\ Head(Top.calls).owner \in Classes
  BY <1>1, OneCallOnFields DEF VisitCall
<1>3. Head(Top.calls).name \in Names
  BY <1>2 DEF Call
<1>4. Called \in Visitor
  BY <1>2, <1>3, VisitorType DEF Called
<1> QED
  BY <1>1, <1>2, <1>4 DEF VisitCall, Called, NewVisitor

LEMMA ReturnStep ==
  ASSUME TypeOK, ReadsOwnMethods, AtCall, Return
  PROVE  /\ Len(stack) > 1 /\ OneCallOn(Caller) \in Visitor
         /\ methods' = methods \cup {CalledInfo(Head(Caller.calls), Caller.reading)}
         /\ stack' = Append(SubSeq(stack, 1, Len(stack) - 2), OneCallOn(Caller))
         /\ UNCHANGED <<body, status>>
<1>1. Len(stack) > 1
  BY DEF Return
<1>2. Caller \in Visitor /\ Caller.calls # <<>>
  BY <1>1, CallerType
<1>3. OneCallOn(Caller) \in Visitor
  BY <1>2, OneCallOnFields
<1> QED
  BY <1>1, <1>3 DEF Return, Caller, CallsLeft, OneCallOn

LEMMA OtherSteps ==
  ASSUME VisitUnreadable \/ Finish \/ Ended \/ UNCHANGED vars
  PROVE  UNCHANGED <<body, methods, stack>>
  BY DEF VisitUnreadable, Finish, Ended, vars

-----------------------------------------------------------------------------
LEMMA TypeStep ==
  ASSUME TypeOK, ReadsOwnMethods, AtCall, [Next]_vars
  PROVE  TypeOK'
<1>1. CASE VisitKnown
  BY <1>1, VisitKnownStep, TopChanges DEF TypeOK
<1>2. CASE VisitMethod
  <2>1. Rest \in Visitor /\ ReadBody(NextMember) \in Visitor
    BY <1>2, VisitMethodStep, RestFields, ReadBodyFields
  <2>2. stack' \in Seq(Visitor) /\ stack' # <<>>
    BY <1>2, <2>1, VisitMethodStep, TopChanges
  <2> QED
    BY <1>2, <2>2, VisitMethodStep DEF TypeOK
<1>3. CASE VisitOwnCall
  BY <1>3, VisitOwnCallStep, TopChanges DEF TypeOK
<1>4. CASE VisitCall
  <2>1. stack' \in Seq(Visitor) /\ stack' # <<>>
    BY <1>4, VisitCallStep, VisitorStarts
  <2>2. Inherited(Head(Top.calls).owner) \subseteq CMethodInfo
    BY <1>4, VisitCallStep, InheritedType
  <2> QED
    BY <1>4, <2>1, <2>2, VisitCallStep DEF TypeOK
<1>5. CASE Return
  <2>1. stack' \in Seq(Visitor) /\ stack' # <<>>
    BY <1>5, ReturnStep, VisitorReturns
  <2>2. CalledInfo(Head(Caller.calls), Caller.reading) \in CMethodInfo
    BY <1>5, ReturnStep, CallerType
  <2> QED
    BY <1>5, <2>1, <2>2, ReturnStep DEF TypeOK
<1>6. CASE VisitUnreadable \/ Finish
  BY <1>6 DEF VisitUnreadable, Finish, TypeOK
<1>7. CASE UNCHANGED vars
  BY <1>7 DEF vars, TypeOK
<1> QED
  BY <1>1, <1>2, <1>3, <1>4, <1>5, <1>6, <1>7 DEF Next, Walk, Ended

\* methods only grows.
LEMMA MethodsGrow ==
  ASSUME [Next]_vars
  PROVE  methods \subseteq methods' /\ body' = body
  BY DEF Next, Walk, VisitKnown, VisitMethod, VisitOwnCall, VisitCall, VisitUnreadable, Return,
         Finish, Ended, vars

LEMMA ReadsOwnStep ==
  ASSUME TypeOK, ReadsOwnMethods, AtCall, [Next]_vars
  PROVE  ReadsOwnMethods'
<1> DEFINE Ok(v) == /\ ToSet(v.todo) \subseteq ToSet(Declared[v.cName])
                    /\ v.calls # <<>> => v.reading # NoMethod
                    /\ v.reading # NoMethod =>
                         /\ v.reading \in MethodsOf(v.cName) \cap methods'
                         /\ ToSet(v.calls) \subseteq ToSet(body[v.reading])
<1>1. \A v : ReadsOwn(v) => Ok(v)
  BY MethodsGrow DEF ReadsOwn
<1>2. \A k \in 1..Len(stack) : Ok(stack[k])
  BY <1>1, TopType DEF ReadsOwnMethods
<1>3. Ok(Top) /\ ReadsOwn(Top)
  BY <1>1, TopReadsOwn
<1> SUFFICES \A k \in DOMAIN stack' : Ok(stack'[k])
  BY MethodsGrow DEF ReadsOwnMethods, ReadsOwn
<1>4. ASSUME NEW v \in Visitor, SetTop(v), Ok(v)
      PROVE  \A k \in DOMAIN stack' : Ok(stack'[k])
  <2> HIDE DEF Ok
  <2>1. ASSUME NEW k \in DOMAIN stack' PROVE Ok(stack'[k])
    <3>1. k \in 1..Len(stack) /\ (k = Len(stack) \/ k \in 1..(Len(stack) - 1))
      BY <1>4, TopType, TopChanges
    <3> QED
      BY <1>2, <1>4, <3>1, TopChanges
  <2> QED
    BY <2>1
<1>5. Visiting => Ok(Rest)
  <2>1. ASSUME Visiting
        PROVE  /\ Rest.cName = Top.cName /\ Rest.reading = Top.reading
               /\ Rest.calls = Top.calls /\ ToSet(Rest.todo) \subseteq ToSet(Top.todo)
    BY <2>1, RestFields, NextMemberType
  <2> QED
    BY <1>3, <2>1
<1>6. CASE VisitKnown
  BY <1>4, <1>5, <1>6, VisitKnownStep DEF VisitKnown
<1>7. CASE VisitMethod
  <2>1. Visiting /\ NextMember \in methods'
    BY <1>7, VisitMethodStep
  <2>2. Ok(ReadBody(NextMember))
    <3>1. /\ ReadBody(NextMember).cName = Top.cName
          /\ ToSet(ReadBody(NextMember).todo) \subseteq ToSet(Top.todo)
          /\ ReadBody(NextMember).reading = NextMember
          /\ ReadBody(NextMember).calls = body[NextMember]
      BY <2>1, ReadBodyFields, NextMemberType
    <3>2. NextMember \in MethodsOf(Top.cName) /\ NextMember # NoMethod
      BY <2>1, NextIsOwn, NextMemberType, ClassesAssumption
    <3> QED
      BY <1>3, <2>1, <3>1, <3>2
  <2>3. Rest \in Visitor /\ ReadBody(NextMember) \in Visitor
    BY <2>1, RestFields, ReadBodyFields
  <2> HIDE DEF Ok
  <2> QED
    BY <1>4, <1>5, <1>7, <2>1, <2>2, <2>3, VisitMethodStep
<1>8. CASE VisitOwnCall
  <2>1. Ok(OneCallOn(Top))
    BY <1>3, <1>8, VisitOwnCallStep, TopType, OneCallOnFields
  <2> HIDE DEF Ok
  <2> QED
    BY <1>4, <1>8, <2>1, VisitOwnCallStep
<1>9. CASE VisitCall
  <2>1. Ok(Called)
    BY <1>9, VisitCallStep
  <2> HIDE DEF Ok
  <2>2. ASSUME NEW k \in DOMAIN stack' PROVE Ok(stack'[k])
    <3>1. k \in 1..Len(stack) \/ k = Len(stack) + 1
      BY <1>9, TopType, VisitCallStep, VisitorStarts
    <3> QED
      BY <1>2, <1>9, <2>1, <3>1, VisitCallStep, VisitorStarts
  <2> QED
    BY <2>2
<1>10. CASE Return
  <2>1. Ok(OneCallOn(Caller))
    <3>1. Caller \in Visitor /\ Caller.calls # <<>> /\ Ok(Caller) /\ ReadsOwn(Caller)
      BY <1>1, <1>10, ReturnStep, CallerType
    <3> QED
      BY <3>1, OneCallOnFields DEF ReadsOwn
  <2> HIDE DEF Ok
  <2>2. ASSUME NEW k \in DOMAIN stack' PROVE Ok(stack'[k])
    <3>1. k \in 1..Len(stack) /\ (k \in 1..(Len(stack) - 2) \/ k = Len(stack) - 1)
      BY <1>10, ReturnStep, IndexAfterReturn
    <3> QED
      BY <1>2, <1>10, <2>1, <3>1, ReturnStep, VisitorReturns
  <2> QED
    BY <2>2
<1>11. CASE VisitUnreadable \/ Finish \/ Ended \/ UNCHANGED vars
  BY <1>2, <1>11, TopType, OtherSteps
<1> QED
  BY <1>6, <1>7, <1>8, <1>9, <1>10, <1>11 DEF Next, Walk

LEMMA AtCallStep ==
  ASSUME TypeOK, ReadsOwnMethods, AtCall, [Next]_vars
  PROVE  AtCall'
<1> DEFINE Follows(v, w) == v.calls # <<>> /\ Head(v.calls).owner = w.cName
<1>1. \A k \in 1..(Len(stack) - 1) : Follows(stack[k], stack[k + 1])
  BY DEF AtCall
<1> SUFFICES \A k \in 1..(Len(stack') - 1) : Follows(stack'[k], stack'[k + 1])
  BY DEF AtCall
<1>2. Len(stack) \in Nat \ {0} /\ Top = stack[Len(stack)]
  BY TopType
<1>3. ASSUME NEW v \in Visitor, SetTop(v), v.cName = Top.cName,
             NEW k \in 1..(Len(stack') - 1)
      PROVE  Follows(stack'[k], stack'[k + 1])
  <2>1. k \in 1..(Len(stack) - 1) /\ stack'[k] = stack[k]
    BY <1>3, TopChanges
  <2>2. Follows(stack[k], stack[k + 1])
    BY <1>1, <2>1
  <2>3. k + 1 = Len(stack) \/ k + 1 \in 1..(Len(stack) - 1)
    BY <1>2, <2>1
  <2>4. stack'[k + 1].cName = stack[k + 1].cName
    BY <1>2, <1>3, <2>3, TopChanges
  <2> QED
    BY <2>1, <2>2, <2>4
<1>4. CASE VisitKnown
  BY <1>3, <1>4, VisitKnownStep, RestFields DEF VisitKnown
<1>5. CASE VisitMethod
  <2>1. /\ Rest \in Visitor /\ Rest.cName = Top.cName
        /\ ReadBody(NextMember) \in Visitor /\ ReadBody(NextMember).cName = Top.cName
    BY <1>5, VisitMethodStep, RestFields, ReadBodyFields
  <2> HIDE DEF Follows
  <2> QED
    BY <1>3, <1>5, <2>1, VisitMethodStep
<1>6. CASE VisitOwnCall
  <2>1. OneCallOn(Top).cName = Top.cName
    BY <1>6, VisitOwnCallStep, TopType, OneCallOnFields
  <2> HIDE DEF Follows
  <2> QED
    BY <1>3, <1>6, <2>1, VisitOwnCallStep
<1>7. CASE VisitCall
  <2>1. /\ Len(stack') = Len(stack) + 1 /\ stack'[Len(stack) + 1] = Called
        /\ \A k \in 1..Len(stack) : stack'[k] = stack[k]
    BY <1>7, VisitCallStep, VisitorStarts
  <2>2. Follows(Top, Called)
    BY <1>7, VisitCallStep
  <2> HIDE DEF Follows
  <2>3. ASSUME NEW k \in 1..(Len(stack') - 1)
        PROVE  Follows(stack'[k], stack'[k + 1])
    <3>1. CASE k = Len(stack)
      BY <1>2, <2>1, <2>2, <3>1
    <3>2. CASE k \in 1..(Len(stack) - 1)
      <4>1. k \in 1..Len(stack) /\ k + 1 \in 1..Len(stack)
        BY <1>2, <3>2
      <4> QED
        BY <1>1, <2>1, <3>2, <4>1
    <3> QED
      BY <1>2, <2>1, <3>1, <3>2
  <2> QED
    BY <2>3
<1>8. CASE Return
  <2> DEFINE n == Len(stack)
  <2>1. /\ n \in Nat \ {0, 1} /\ Len(stack') = n - 1
        /\ stack'[n - 1] = OneCallOn(Caller)
        /\ \A k \in 1..(n - 2) : stack'[k] = stack[k]
    BY <1>2, <1>8, ReturnStep, VisitorReturns
  <2>2. OneCallOn(Caller).cName = stack[n - 1].cName
    BY <1>8, ReturnStep, CallerType, OneCallOnFields DEF Caller
  <2>3. ASSUME NEW k \in 1..(Len(stack') - 1)
        PROVE  Follows(stack'[k], stack'[k + 1])
    <3>1. k \in 1..(n - 2) /\ k \in 1..(n - 1)
      BY <2>1
    <3>2. k + 1 = n - 1 \/ k + 1 \in 1..(n - 2)
      BY <2>1, <3>1
    <3>3. stack'[k + 1].cName = stack[k + 1].cName
      BY <2>1, <2>2, <3>2
    <3>4. Follows(stack[k], stack[k + 1]) /\ stack'[k] = stack[k]
      BY <1>1, <2>1, <3>1
    <3> QED
      BY <3>3, <3>4
  <2> QED
    BY <2>3
<1>9. CASE VisitUnreadable \/ Finish \/ Ended \/ UNCHANGED vars
  BY <1>1, <1>9, OtherSteps
<1> QED
  BY <1>4, <1>5, <1>6, <1>7, <1>8, <1>9 DEF Next, Walk

\* What is read is read for the first time.
LEMMA ReadOnceStep ==
  ASSUME TypeOK, ReadsOwnMethods, AtCall, ReadOnce, [Next]_vars
  PROVE  ReadOnce'
<1>1. /\ Len(stack) \in Nat \ {0} /\ Top = stack[Len(stack)]
      /\ DOMAIN stack = 1..Len(stack)
  BY TopType
<1>2. \A k \in 1..Len(stack) : stack[k].reading = NoMethod \/ stack[k].reading \in methods
  BY <1>1 DEF ReadsOwnMethods, ReadsOwn
<1>3. \A k, l \in 1..Len(stack) :
        k # l /\ stack[k].reading # NoMethod => stack[k].reading # stack[l].reading
  BY <1>1 DEF ReadOnce
<1> SUFFICES ASSUME NEW k \in DOMAIN stack', NEW l \in DOMAIN stack', k # l,
                    stack'[k].reading # NoMethod
             PROVE  stack'[k].reading # stack'[l].reading
  BY DEF ReadOnce
<1>4. ASSUME NEW v \in Visitor, SetTop(v),
             v.reading = Top.reading \/ v.reading \in CMethodInfo \ methods
      PROVE  stack'[k].reading # stack'[l].reading
  <2>1. k \in 1..Len(stack) /\ l \in 1..Len(stack)
    BY <1>4, TopChanges
  <2>2. \A i \in 1..Len(stack) :
          stack'[i].reading = IF i = Len(stack) THEN v.reading ELSE stack[i].reading
    <3>1. \A i \in 1..Len(stack) : i = Len(stack) \/ i \in 1..(Len(stack) - 1)
      <4>1. ASSUME NEW n \in Nat PROVE \A i \in 1..n : i = n \/ i \in 1..(n - 1)
        BY <4>1
      <4> QED
        BY <1>1, <4>1
    <3> QED
      BY <1>4, <3>1, TopChanges
  <2>3. CASE v.reading = Top.reading
    <3>1. \A i \in 1..Len(stack) : stack'[i].reading = stack[i].reading
      BY <1>1, <2>2, <2>3
    <3> QED
      BY <1>3, <2>1, <3>1
  <2>4. CASE v.reading \in CMethodInfo \ methods
    <3>1. v.reading # NoMethod
      BY <2>4, ClassesAssumption
    <3>2. CASE k = Len(stack) \/ l = Len(stack)
      BY <1>2, <2>1, <2>2, <2>4, <3>1, <3>2
    <3>3. CASE k # Len(stack) /\ l # Len(stack)
      BY <1>3, <2>1, <2>2, <3>3
    <3> QED
      BY <3>2, <3>3
  <2> QED
    BY <1>4, <2>3, <2>4
<1>5. CASE VisitKnown
  BY <1>4, <1>5, VisitKnownStep, RestFields DEF VisitKnown
<1>6. CASE VisitMethod
  <2>1. /\ Rest \in Visitor /\ Rest.reading = Top.reading
        /\ ReadBody(NextMember) \in Visitor
        /\ ReadBody(NextMember).reading = NextMember
        /\ NextMember \in CMethodInfo \ methods
    BY <1>6, VisitMethodStep, RestFields, ReadBodyFields
  <2> QED
    BY <1>4, <1>6, <2>1, VisitMethodStep
<1>7. CASE VisitOwnCall
  <2>1. OneCallOn(Top).reading = Top.reading
    BY <1>7, VisitOwnCallStep, TopType, OneCallOnFields
  <2> QED
    BY <1>4, <1>7, <2>1, VisitOwnCallStep
<1>8. CASE VisitCall
  <2>1. /\ stack'[Len(stack) + 1].reading = NoMethod
        /\ \A i \in 1..Len(stack) : stack'[i] = stack[i]
        /\ DOMAIN stack' = 1..(Len(stack) + 1)
    BY <1>8, VisitCallStep, VisitorStarts
  <2>2. k \in 1..Len(stack)
    BY <1>1, <2>1
  <2>3. l \in 1..Len(stack) \/ l = Len(stack) + 1
    BY <1>1, <2>1
  <2> QED
    BY <1>3, <2>1, <2>2, <2>3
<1>9. CASE Return
  <2>1. \A i \in DOMAIN stack' :
          i \in 1..Len(stack) /\ stack'[i].reading = stack[i].reading
    <3>1. OneCallOn(Caller).reading = stack[Len(stack) - 1].reading
      BY <1>9, ReturnStep, CallerType, OneCallOnFields DEF Caller
    <3>2. /\ stack'[Len(stack) - 1] = OneCallOn(Caller)
          /\ \A i \in 1..(Len(stack) - 2) : stack'[i] = stack[i]
      BY <1>9, ReturnStep, VisitorReturns
    <3>3. ASSUME NEW i \in DOMAIN stack'
          PROVE  /\ i \in 1..Len(stack)
                 /\ i \in 1..(Len(stack) - 2) \/ i = Len(stack) - 1
      BY <1>9, ReturnStep, IndexAfterReturn
    <3> QED
      BY <3>1, <3>2, <3>3
  <2> QED
    BY <1>3, <2>1
<1>10. CASE VisitUnreadable \/ Finish \/ Ended \/ UNCHANGED vars
  BY <1>1, <1>3, <1>10, OtherSteps
<1> QED
  BY <1>5, <1>6, <1>7, <1>8, <1>9, <1>10 DEF Next, Walk

\* The classes of the methods of a class, and of what it inherits.
LEMMA ClassesOfMethods ==
  ASSUME NEW c \in Classes
  PROVE  /\ \A m \in MethodsOf(c) : m.cClassName = c
         /\ \A m \in Inherited(c) : m.cClassName \in Superclasses[c]
  BY ClassesAssumption DEF MethodsOf, DeclaredMethods, Info, Inherited, AllSuperclasses

\* A call that is followed is one of the class of its visitor.
LEMMA CallIsOfClass ==
  ASSUME TypeOK, ReadsOwnMethods, Top.calls # <<>>
  PROVE  Head(Top.calls).owner \in CalledBy(Top.cName)
<1>1. /\ Top \in Visitor /\ ReadsOwn(Top)
  BY TopType, TopReadsOwn
<1>2. Head(Top.calls) \in ToSet(Top.calls)
  BY <1>1, OneCallOnFields
<1>3. /\ Top.reading \in MethodsOf(Top.cName)
      /\ Head(Top.calls) \in ToSet(body[Top.reading])
  BY <1>1, <1>2 DEF ReadsOwn
<1> QED
  BY <1>3 DEF CalledBy

LEMMA ReachableStep ==
  ASSUME TypeOK, ReadsOwnMethods, AtCall, VisitsReachable, [Next]_vars
  PROVE  VisitsReachable'
<1> SUFFICES ASSUME NEW set \in SUBSET Classes, Root \in set, Closed(set)
             PROVE  /\ \A m \in methods' : m.cClassName \in set
                    /\ \A k \in DOMAIN stack' : stack'[k].cName \in set
  BY MethodsGrow DEF VisitsReachable, ClassesFound, Closed, CalledBy
<1>1. \A m \in methods : m.cClassName \in set
  BY DEF VisitsReachable, ClassesFound
<1>2. /\ Len(stack) \in Nat \ {0} /\ Top = stack[Len(stack)]
      /\ \A k \in 1..Len(stack) : stack[k].cName \in set
  BY TopType DEF VisitsReachable
<1>3. Top.cName \in set
  BY <1>2
<1>4. ASSUME NEW v \in Visitor, SetTop(v), v.cName = Top.cName
      PROVE  \A k \in DOMAIN stack' : stack'[k].cName \in set
  <2>1. ASSUME NEW k \in DOMAIN stack' PROVE stack'[k].cName \in set
    <3>1. k \in 1..Len(stack) /\ (k = Len(stack) \/ k \in 1..(Len(stack) - 1))
      BY <1>4, TopType, TopChanges
    <3> QED
      BY <1>2, <1>3, <1>4, <3>1, TopChanges
  <2> QED
    BY <2>1
<1>5. CASE VisitKnown
  BY <1>1, <1>4, <1>5, VisitKnownStep, RestFields DEF VisitKnown
<1>6. CASE VisitMethod
  <2>1. /\ Rest \in Visitor /\ Rest.cName = Top.cName
        /\ ReadBody(NextMember) \in Visitor /\ ReadBody(NextMember).cName = Top.cName
    BY <1>6, VisitMethodStep, RestFields, ReadBodyFields
  <2>2. NextMember.cClassName = Top.cName
    BY DEF NextMember, Info
  <2> QED
    BY <1>1, <1>3, <1>4, <1>6, <2>1, <2>2, VisitMethodStep
<1>7. CASE VisitOwnCall
  <2>1. OneCallOn(Top).cName = Top.cName
    BY <1>7, VisitOwnCallStep, TopType, OneCallOnFields
  <2> QED
    BY <1>1, <1>4, <1>7, <2>1, VisitOwnCallStep
<1>8. CASE VisitCall
  <2>1. Called.cName \in set
    BY <1>3, <1>8, VisitCallStep, CallIsOfClass DEF Closed
  <2>2. \A m \in Inherited(Called.cName) : m.cClassName \in set
    BY <2>1, ClassesOfMethods DEF Closed
  <2>3. \A k \in DOMAIN stack' : stack'[k].cName \in set
    <3>1. ASSUME NEW k \in DOMAIN stack' PROVE stack'[k].cName \in set
      <4>1. k \in 1..Len(stack) \/ k = Len(stack) + 1
        BY <1>8, TopType, VisitCallStep, VisitorStarts
      <4> QED
        BY <1>2, <1>8, <2>1, <4>1, VisitCallStep, VisitorStarts
    <3> QED
      BY <3>1
  <2> QED
    BY <1>1, <1>8, <2>2, <2>3, VisitCallStep
<1>9. CASE Return
  <2>1. OneCallOn(Caller).cName = stack[Len(stack) - 1].cName
    BY <1>9, ReturnStep, CallerType, OneCallOnFields DEF Caller
  <2>2. CalledInfo(Head(Caller.calls), Caller.reading).cClassName \in set
    BY <1>3, <1>9, ReturnStep, CallerType
  <2>3. ASSUME NEW k \in DOMAIN stack' PROVE stack'[k].cName \in set
    <3>1. k \in 1..Len(stack) /\ (k \in 1..(Len(stack) - 2) \/ k = Len(stack) - 1)
      BY <1>9, ReturnStep, IndexAfterReturn
    <3> QED
      BY <1>2, <1>9, <2>1, <3>1, ReturnStep, VisitorReturns
  <2> QED
    BY <1>1, <1>9, <2>2, <2>3, ReturnStep
<1>10. CASE VisitUnreadable \/ Finish \/ Ended \/ UNCHANGED vars
  BY <1>1, <1>2, <1>10, TopType, OtherSteps
<1> QED
  BY <1>5, <1>6, <1>7, <1>8, <1>9, <1>10 DEF Next, Walk

-----------------------------------------------------------------------------
LEMMA InvInit == Init => Inv
<1> SUFFICES ASSUME Init
             PROVE  Inv
  OBVIOUS
<1> DEFINE v == NewVisitor(Root, EnterName)
<1>1. v \in Visitor
  BY ClassesAssumption, VisitorType
<1>2. /\ stack = <<v>> /\ stack \in Seq(Visitor) /\ stack # <<>>
      /\ Len(stack) = 1 /\ DOMAIN stack = {1} /\ stack[1] = v
  BY <1>1 DEF Init
<1>3. TypeOK
  BY <1>2, InheritedType, ClassesAssumption, ProgramsAssumption DEF Init, TypeOK
<1>4. ReadsOwnMethods
  BY <1>2 DEF ReadsOwnMethods, ReadsOwn, NewVisitor
<1>5. AtCall /\ ReadOnce
  BY <1>2 DEF AtCall, ReadOnce
<1>6. VisitsReachable
  BY <1>2, ClassesOfMethods, ClassesAssumption
     DEF Init, VisitsReachable, ClassesFound, Closed, NewVisitor
<1> QED
  BY <1>3, <1>4, <1>5, <1>6 DEF Inv

(***************************************************************************)
(* The walk reads no body twice and visits no class that the program does  *)
(* not reach: the inductive invariant holds in every reachable state.      *)
(***************************************************************************)
THEOREM Invariance == Spec => []Inv
<1>1. Init => Inv
  BY InvInit
<1>2. Inv /\ [Next]_vars => Inv'
  BY TypeStep, ReadsOwnStep, AtCallStep, ReadOnceStep, ReachableStep DEF Inv
<1> QED
  BY <1>1, <1>2, PTL DEF Spec

\* The variables of the walk keep their types.
THEOREM TypeCorrect == Spec => []TypeOK
<1>1. Inv => TypeOK
  BY DEF Inv
<1> QED
  BY <1>1, Invariance, PTL

(***************************************************************************)
(* HierarchyClassVisitor finds no class that the given one does not reach  *)
(* by calls and superclasses.                                              *)
(***************************************************************************)
THEOREM NothingElseIsFound == Spec => []FoundIsReachable
<1>1. Inv => FoundIsReachable
  BY DEF Inv, VisitsReachable, FoundIsReachable
<1> QED
  BY <1>1, Invariance, PTL

(***************************************************************************)
(* HierarchyClassVisitor's recursion is no deeper than there are methods,  *)
(* however the calls run in circles.                                       *)
(***************************************************************************)
THEOREM RecursionIsBounded == Spec => []NestingIsBounded
<1>1. Inv => NestingIsBounded
  <2> SUFFICES ASSUME Inv
               PROVE  NestingIsBounded
    OBVIOUS
  <2> DEFINE n == Len(stack)
             reading == [k \in 1..(n - 1) |-> stack[k].reading]
  <2>1. n \in Nat \ {0} /\ DOMAIN stack = 1..n
    BY TopType DEF Inv
  <2>2. ASSUME NEW k \in 1..(n - 1)
        PROVE  k \in DOMAIN stack /\ stack[k].reading \in AllMethods
    <3>1. k \in 1..n
      BY <2>1
    <3>2. stack[k].calls # <<>> /\ ReadsOwn(stack[k]) /\ stack[k].cName \in Classes
      BY <2>1, <3>1, TopType DEF Inv, AtCall, ReadsOwnMethods, Visitor
    <3> QED
      BY <2>1, <3>1, <3>2, MethodsOfType DEF ReadsOwn
  <2>3. \A k, l \in 1..(n - 1) : k # l => stack[k].reading # stack[l].reading
    <3>1. NoMethod \notin AllMethods
      BY ClassesAssumption, MethodsOfType DEF AllMethods
    <3> QED
      BY <2>2, <3>1 DEF Inv, ReadOnce
  <2>4. reading \in Injection(1..(n - 1), AllMethods)
    <3>1. reading \in [1..(n - 1) -> AllMethods]
      BY <2>2
    <3>2. \A k \in 1..(n - 1) : reading[k] = stack[k].reading
      OBVIOUS
    <3>3. IsInjective(reading)
      <4> HIDE DEF n
      <4> QED
        BY <2>3, <3>1, <3>2 DEF IsInjective
    <3> QED
      BY <3>1, <3>3 DEF Injection
  <2>5. Cardinality(1..(n - 1)) <= Cardinality(AllMethods)
    BY <2>4, FS_Injection, FiniteAssumption
  <2>6. Cardinality(1..(n - 1)) = n - 1
    BY <2>1, FS_Interval
  <2>7. Cardinality(AllMethods) \in Nat
    BY FS_CardinalityType, FiniteAssumption
  <2> QED
    BY <2>1, <2>3, <2>5, <2>6, <2>7 DEF NestingIsBounded
<1> QED
  BY <1>1, Invariance, PTL
=============================================================================
