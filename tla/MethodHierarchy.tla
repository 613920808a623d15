-------------------------- MODULE MethodHierarchy --------------------------
(***************************************************************************)
(* How the agent finds the methods to instrument: the walk over class      *)
(* files that MethodHierarchyUtil starts and HierarchyClassVisitor does.   *)
(*                                                                         *)
(* A visitor goes over the methods of its class in the order of the class  *)
(* file, adds each one it does not know yet to the one set all visitors    *)
(* share, and reads the body of those with the name it looks for.  A call  *)
(* of another class in a body is followed at once, by a visitor of the     *)
(* called class: visitors nest as deep as calls do, and call graphs have   *)
(* cycles.  The stack of visitors is a variable here.                      *)
(***************************************************************************)
EXTENDS Naturals, FiniteSets, SequencesExt

CONSTANTS
  Classes,       \* the classes whose class files can be read
  Unreadable,    \* other owners of called methods: arrays, say
  Names,         \* method names
  Initializers,  \* those among them that reflection shows no method for
  Descriptors,   \* method descriptors
  Declared,      \* class -> its methods, as in its class file
  Superclasses,  \* class -> its proper superclasses
  Programs,      \* the bodies considered: functions from methods to calls
  Root,          \* the class given with -c
  EnterName,     \* the method name given with -m
  NoMethod       \* what a visitor reads that reads no body

CMethodInfo == [cClassName : Classes, methodName : Names, descriptor : Descriptors]
Member == [name : Names, desc : Descriptors]
Call == [owner : Classes \cup Unreadable, name : Names]

\* The methods of a class, as CMethodInfo has them.
Info(c, member) ==
  [cClassName |-> c, methodName |-> member.name, descriptor |-> member.desc]
MethodsOf(c) == {Info(c, member) : member \in ToSet(Declared[c])}
AllMethods == UNION {MethodsOf(c) : c \in Classes}

ASSUME ClassesAssumption ==
  /\ Unreadable \cap Classes = {}
  /\ Declared \in [Classes -> Seq(Member)]
  /\ Superclasses \in [Classes -> SUBSET Classes]
  /\ \A c \in Classes : c \notin Superclasses[c]
  /\ Initializers \subseteq Names
  /\ Root \in Classes /\ EnterName \in Names
  /\ NoMethod \notin CMethodInfo

ASSUME ProgramsAssumption == Programs \subseteq [AllMethods -> Seq(Call)]

ASSUME FiniteAssumption == IsFiniteSet(AllMethods)

VARIABLES
  body,     \* the program: method -> the calls in it, in order
  methods,  \* the set the visitors share
  stack,    \* the visitors at work, the innermost one last
  status    \* "reading", "done", or "threw"

vars == <<body, methods, stack, status>>

\* A visitor: its class and name, the methods it has still to visit, and the
\* method whose body it reads with the calls that are left of it.
Visitor == [cName : Classes, mName : Names, todo : Seq(Member),
            reading : CMethodInfo \cup {NoMethod}, calls : Seq(Call)]

NewVisitor(c, name) ==
  [cName |-> c, mName |-> name, todo |-> Declared[c],
   reading |-> NoMethod, calls |-> <<>>]

\* getAllSuperClasses leaves the class itself out.
AllSuperclasses_AndItself(c) == Superclasses[c] \cup {c}
AllSuperclasses(c) == Superclasses[c]

\* getDeclaredMethods shows neither constructors nor static initializers.
DeclaredMethods(c) == {m \in MethodsOf(c) : m.methodName \notin Initializers}

\* The visitor's constructor adds the methods of all superclasses, unvisited.
Inherited_BySubclasses(c) ==
  UNION {DeclaredMethods(d) : d \in {e \in Classes : c \in Superclasses[e]}}
Inherited(c) == UNION {DeclaredMethods(d) : d \in AllSuperclasses(c)}

Init ==
  /\ body \in Programs
  /\ methods = Inherited(Root)
  /\ stack = <<NewVisitor(Root, EnterName)>>
  /\ status = "reading"

Top == Last(stack)
SetTop(v) == stack' = [stack EXCEPT ![Len(stack)] = v]

-----------------------------------------------------------------------------
Visiting == status = "reading" /\ Top.calls = <<>> /\ Top.todo # <<>>

Known_Never(m) == FALSE
Known(m) == m \in methods

NextMember == Info(Top.cName, Head(Top.todo))
Rest == [Top EXCEPT !.todo = Tail(@)]

\* What is left to visit once a method of the right name is met.
ReadBody_AndStop(m) == [Rest EXCEPT !.reading = m, !.calls = body[m], !.todo = <<>>]
ReadBody(m) == [Rest EXCEPT !.reading = m, !.calls = body[m]]

VisitKnown ==
  /\ Visiting
  /\ Known(NextMember)
  /\ SetTop(Rest)
  /\ UNCHANGED <<body, methods, status>>

VisitMethod ==
  /\ Visiting
  /\ ~ Known(NextMember)
  /\ methods' = methods \cup {NextMember}
  /\ SetTop(IF NextMember.methodName = Top.mName THEN ReadBody(NextMember) ELSE Rest)
  /\ UNCHANGED <<body, status>>

-----------------------------------------------------------------------------
Reading == status = "reading" /\ Top.calls # <<>>

\* A call of the visitor's own class is not followed.
VisitOwnCall ==
  /\ Reading
  /\ Head(Top.calls).owner = Top.cName
  /\ SetTop([Top EXCEPT !.calls = Tail(@)])
  /\ UNCHANGED <<body, methods, status>>

VisitCall ==
  /\ Reading
  /\ LET call == Head(Top.calls)
     IN /\ call.owner \in Classes \ {Top.cName}
        /\ stack' = Append(stack, NewVisitor(call.owner, call.name))
        /\ methods' = methods \cup Inherited(call.owner)
  /\ UNCHANGED <<body, status>>

\* No class file: the exception leaves all visitors, and agentmain.
VisitUnreadable ==
  /\ Reading
  /\ Head(Top.calls).owner \in Unreadable
  /\ status' = "threw"
  /\ UNCHANGED <<body, methods, stack>>

\* accept returns to the body that called.  The called name is added with the
\* descriptor of the method that calls it.
CalledInfo_Swapped(call, m) ==
  [cClassName |-> call.owner, methodName |-> m.descriptor, descriptor |-> call.name]
CalledInfo(call, m) ==
  [cClassName |-> call.owner, methodName |-> call.name, descriptor |-> m.descriptor]

CallsLeft_All(visitor) == visitor.calls
CallsLeft(visitor) == Tail(visitor.calls)

Accepted == status = "reading" /\ Top.calls = <<>> /\ Top.todo = <<>>

Return ==
  /\ Accepted
  /\ Len(stack) > 1
  /\ LET caller == stack[Len(stack) - 1]
     IN /\ methods' = methods \cup {CalledInfo(Head(caller.calls), caller.reading)}
        /\ stack' = Append(SubSeq(stack, 1, Len(stack) - 2),
                           [caller EXCEPT !.calls = CallsLeft(caller)])
  /\ UNCHANGED <<body, status>>

Finish ==
  /\ Accepted
  /\ Len(stack) = 1
  /\ status' = "done"
  /\ UNCHANGED <<body, methods, stack>>

Ended ==
  /\ status # "reading"
  /\ UNCHANGED vars

Walk ==
  \/ VisitKnown
  \/ VisitMethod
  \/ VisitOwnCall
  \/ VisitCall
  \/ VisitUnreadable
  \/ Return
  \/ Finish

Next == Walk \/ Ended

Spec == Init /\ [][Next]_vars

\* agentmain's thread keeps running.
FairSpec == Spec /\ WF_vars(Walk)

-----------------------------------------------------------------------------
\* The type invariant.
TypeOK ==
  /\ body \in [AllMethods -> Seq(Call)]
  /\ methods \subseteq CMethodInfo
  /\ stack \in Seq(Visitor) /\ stack # <<>>
  /\ status \in {"reading", "done", "threw"}

(***************************************************************************)
(* Visitors never nest deeper than there are methods, whatever cycles the  *)
(* calls make: each one but the last is inside a body, and no body is read *)
(* twice.  The Java stack bounds the walk by the size of the program, not  *)
(* by the number of its paths.                                             *)
(***************************************************************************)
NestingIsBounded ==
  /\ Len(stack) <= Cardinality(AllMethods) + 1
  /\ \A i, j \in 1..(Len(stack) - 1) : i # j => stack[i].reading # stack[j].reading

(***************************************************************************)
(* Nothing outside the reach of the given class is found: the classes of   *)
(* the result lie in every set that has the class and, with a class, its   *)
(* superclasses and all it calls.                                          *)
(***************************************************************************)
CalledBy(c) == {call.owner : call \in UNION {ToSet(body[m]) : m \in MethodsOf(c)}}
Closed(set) ==
  \A c \in set : Superclasses[c] \subseteq set /\ CalledBy(c) \cap Classes \subseteq set
ClassesFound == {m.cClassName : m \in methods}

FoundIsReachable ==
  \A set \in SUBSET Classes : Root \in set /\ Closed(set) => ClassesFound \subseteq set

(***************************************************************************)
(* A class is found whole or not at all, for the classes found by the call *)
(* of one of their methods as for those found as a superclass: no method   *)
(* of an instrumented class is left without a cost.                        *)
(***************************************************************************)
FoundWhole ==
  status = "done" => \A c \in ClassesFound : DeclaredMethods(c) \subseteq methods

(***************************************************************************)
(* Whatever the order of the methods in the class file, what the enter     *)
(* method calls is found: the classes called by the first overload of it   *)
(* that is declared.  The walk does not promise more: the body of a later  *)
(* overload, or of a method met before it was looked for, may not be read. *)
(***************************************************************************)
EnterOverloads == {i \in DOMAIN Declared[Root] : Declared[Root][i].name = EnterName}
IsEnterMethod(m) ==
  \E i \in EnterOverloads :
    /\ \A j \in EnterOverloads : i <= j
    /\ m = Info(Root, Declared[Root][i])

EnterCallsFound ==
  status = "done" =>
    \A m \in MethodsOf(Root) : IsEnterMethod(m) =>
      \A call \in ToSet(body[m]) :
        call.owner # Root =>
          \E found \in methods :
            found.cClassName = call.owner /\ found.methodName = call.name

(***************************************************************************)
(* The inductive invariant, in named parts.                                *)
(***************************************************************************)
\* A visitor reads a method of its class that is known by now, and what it has
\* left of it are calls of its body.
ReadsOwn(visitor) ==
  /\ ToSet(visitor.todo) \subseteq ToSet(Declared[visitor.cName])
  /\ visitor.calls # <<>> => visitor.reading # NoMethod
  /\ visitor.reading # NoMethod =>
       /\ visitor.reading \in MethodsOf(visitor.cName) \cap methods
       /\ ToSet(visitor.calls) \subseteq ToSet(body[visitor.reading])

ReadsOwnMethods == \A k \in DOMAIN stack : ReadsOwn(stack[k])

\* A visitor is at the call that the next one follows.
AtCall ==
  \A k \in 1..(Len(stack) - 1) :
    /\ stack[k].calls # <<>>
    /\ Head(stack[k].calls).owner = stack[k + 1].cName

ReadOnce ==
  \A k, l \in DOMAIN stack :
    k # l /\ stack[k].reading # NoMethod => stack[k].reading # stack[l].reading

VisitsReachable ==
  \A set \in SUBSET Classes : Root \in set /\ Closed(set) =>
    ClassesFound \subseteq set /\ \A k \in DOMAIN stack : stack[k].cName \in set

\* Every body read is a new one, and every class visited is called by one before.
Inv ==
  /\ TypeOK
  /\ ReadsOwnMethods
  /\ AtCall
  /\ ReadOnce
  /\ VisitsReachable

(***************************************************************************)
(* Each step of the walk leaves less to do, though a step may start a      *)
(* visitor with a whole class before it: first count the methods not known *)
(* yet, then the calls not followed yet, of which a visitor below the top  *)
(* is inside the first, and last the visitors and their visits.  Triples   *)
(* of numbers do not descend in this order for ever, so the recursion of   *)
(* HierarchyClassVisitor ends.                                             *)
(***************************************************************************)
Unknown == AllMethods \ methods
CallsOf(k) == Len(stack[k].calls) - (IF k < Len(stack) THEN 1 ELSE 0)
CallsAhead == UNION {{k} \X (1..CallsOf(k)) : k \in DOMAIN stack}
VisitsAhead == UNION {{k} \X (0..Len(stack[k].todo)) : k \in DOMAIN stack}

Ahead == <<Cardinality(Unknown), Cardinality(CallsAhead), Cardinality(VisitsAhead)>>
Below(a, b) ==
  \/ a[1] < b[1]
  \/ a[1] = b[1] /\ a[2] < b[2]
  \/ a[1] = b[1] /\ a[2] = b[2] /\ a[3] < b[3]

WalkDescends == [][status' = "reading" => Below(Ahead', Ahead)]_vars

\* The walk ends, whatever cycles the calls make.
WalkEnds == <>(status # "reading")
=============================================================================
