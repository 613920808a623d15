------------------------ MODULE MCMethodHierarchy ------------------------
(***************************************************************************)
(* An instance of the walk for TLC: the given class with a helper before   *)
(* two overloads of the enter method, a class it may call, the superclass  *)
(* of that one, a class nothing has to do with, and an array.  The callee  *)
(* and its superclass have constructors, which run into the enter method.  *)
(***************************************************************************)
EXTENDS MethodHierarchy

CONSTANTS Enter, Callee, Base, Other, Array, run, help, work, init, i, j

FourClasses == {Enter, Callee, Base, Other}
FourNames == {run, help, work, init}
TwoDescriptors == {i, j}

Is(name, desc) == [name |-> name, desc |-> desc]
To(owner, name) == [owner |-> owner, name |-> name]

ClassFiles ==
  [c \in FourClasses |->
    CASE c = Enter -> <<Is(help, i), Is(run, i), Is(run, j)>>
      [] c = Callee -> <<Is(init, i), Is(work, i), Is(help, j)>>
      [] c = Base -> <<Is(init, i), Is(work, i)>>
      [] c = Other -> <<Is(work, j)>>]

SuperclassesOf == [c \in FourClasses |-> IF c = Callee THEN {Base} ELSE {}]

\* All calls of a class's own methods are alike: none is followed.
FromEnter ==
  {To(Enter, help), To(Callee, init), To(Callee, work), To(Callee, help), To(Base, work)}
FromCallee ==
  {To(Callee, help), To(Enter, help), To(Base, init), To(Base, work)}
AtMostOne(set) == {<<>>} \cup {<<t>> : t \in set}
AtMostTwo == AtMostOne(FromEnter) \cup (FromEnter \X FromEnter)

\* The array's clone is called only from Callee's help.  Nothing calls Other.
SmallPrograms ==
  {[m \in AllMethods |->
     CASE m = Info(Enter, Is(run, i)) -> first
       [] m = Info(Enter, Is(run, j)) -> second
       [] m = Info(Enter, Is(help, i)) -> helper
       [] m = Info(Callee, Is(work, i)) -> callee
       [] m = Info(Callee, Is(help, j)) -> array
       [] m = Info(Base, Is(work, i)) -> base
       [] m = Info(Callee, Is(init, i)) -> <<To(Base, init)>>
       [] m = Info(Base, Is(init, i)) -> <<To(Enter, run)>>
       [] OTHER -> <<To(Callee, help)>>] :
    first \in AtMostTwo,
    second \in AtMostOne({To(Callee, help)}),
    helper \in AtMostOne(FromEnter),
    callee \in AtMostOne(FromCallee),
    array \in AtMostOne({To(Enter, run), To(Base, init), To(Array, work)}),
    base \in AtMostOne({To(Callee, help), To(Enter, run)})}
=============================================================================
