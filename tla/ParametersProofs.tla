-------------------------- MODULE ParametersProofs --------------------------
(***************************************************************************)
(* That arrow functions bind arguments in their places and keep all their  *)
(* parameters, for lists of any length and calls with any number of        *)
(* arguments.  The conversion runs from the last element to the first, so  *)
(* the i-th node of the vector is of element Len(elements) - i + 1; that   *)
(* is also the argument that kCall pops as the i-th one.                   *)
(***************************************************************************)
EXTENDS Parameters, TLAPS

Nodes == [init : BOOLEAN, n : Nat]

\* The i-th node is that of the i-th element from the end, or NULL.
FromTheEnd ==
  form = "arrow" =>
    \A i \in DOMAIN vec : vec[i] # NULL => vec[i] = ToDestructuringNode(Len(elements) - i + 1)

\* Only an element that is no parameter ends a conversion early.
Kept ==
  /\ form = "arrow" => Len(vec) <= Len(elements)
  /\ form = "arrow" /\ phase \in {"hoist", "call", "called"} /\ Len(vec) < Len(elements) =>
       elements[Len(elements) - Len(vec)] = "Other"

\* How far the conversion has come.
Progress ==
  /\ phase \in {"list", "converting"} => vec = <<>>
  /\ phase = "right" => form = "arrow" /\ cursor \in 2 .. Len(elements) /\ Len(vec) = Len(elements) - cursor
  /\ phase = "left" => form = "arrow" /\ Len(elements) > 1 /\ Len(vec) = Len(elements) - 1
  /\ phase \in {"call", "called"} => \A i \in DOMAIN vec : vec[i] # NULL

\* What a call of so many arguments leaves in the array.
ArgsOf(passed) ==
  [i \in 1 .. (IF passed < Len(vec) THEN Len(vec) ELSE passed) |->
     IF i <= passed THEN passed - i + 1 ELSE Unwritten]

IInv ==
  /\ elements \in Seq(Kinds)
  /\ vec \in Seq(Nodes)
  /\ FromTheEnd
  /\ Kept
  /\ Progress
  /\ phase = "list" => form = "cover"
  /\ phase = "called" => \E passed \in 1 .. MaxArgs : args = ArgsOf(passed)

-----------------------------------------------------------------------------
\* Every node of an element is of that element, or NULL.
LEMMA NodeOfElement ==
  ASSUME NEW i \in Nat
  PROVE  /\ ToDestructuringNode(i) \in Nodes
         /\ ToDestructuringNode(i) # NULL => ToDestructuringNode(i).n = i
         /\ i # 0 /\ elements[i] \in Kinds /\ ~Crashes(i) /\ ToDestructuringNode(i) = NULL =>
              elements[i] = "Other"
BY DEF Kinds, Crashes, ToDestructuringNode, SingleName, NULL, Nodes

\* Popped arguments and unwritten elements make the array that ArgsOf says.
LEMMA ArrayOfCall ==
  ASSUME vec \in Seq(Nodes), NEW passed \in Nat
  PROVE  Popped(passed) \o [i \in 1 .. Len(vec) - passed |-> Unwritten] = ArgsOf(passed)
<1> DEFINE pushed  == [i \in 1 .. passed |-> i]
           written == Popped(passed)
           empty   == [i \in 1 .. Len(vec) - passed |-> Unwritten]
           n       == IF passed < Len(vec) THEN Len(vec) ELSE passed
<1>1. pushed \in Seq(Nat) /\ Len(pushed) = passed /\ \A i \in 1 .. passed : pushed[i] = i
  OBVIOUS
<1>2. written = [i \in 1 .. passed |-> passed - i + 1]
  <2>1. written = [i \in 1 .. Len(pushed) |-> pushed[(Len(pushed) - i) + 1]]
    BY DEF Popped, Reverse
  <2>2. \A i \in 1 .. passed : pushed[(passed - i) + 1] = passed - i + 1
    BY <1>1
  <2> HIDE DEF pushed, written
  <2> QED
    BY <2>1, <2>2, <1>1
<1>3. written \in Seq(Nat) /\ Len(written) = passed
  BY <1>2
<1>4. empty \in Seq({0}) /\ Len(empty) = IF passed < Len(vec) THEN Len(vec) - passed ELSE 0
  <2>1. Len(vec) \in Nat
    OBVIOUS
  <2>2. CASE passed < Len(vec)
    <3>1. Len(vec) - passed \in Nat
      BY <2>1, <2>2
    <3> QED
      BY <2>2, <3>1 DEF Unwritten
  <2>3. CASE ~(passed < Len(vec))
    <3>1. 1 .. Len(vec) - passed = {}
      BY <2>1, <2>3
    <3>2. empty = <<>>
      BY <3>1
    <3> HIDE DEF empty
    <3> QED
      BY <2>3, <3>2
  <2> QED
    BY <2>2, <2>3
<1>5. n \in Nat /\ Len(written \o empty) = n /\ DOMAIN (written \o empty) = 1 .. n
  <2> HIDE DEF written, empty
  <2>1. Len(vec) \in Nat
    OBVIOUS
  <2>2. n \in Nat /\ n = passed + Len(empty)
    BY <1>4, <2>1
  <2> HIDE DEF n
  <2>3. written \in Seq(Int) /\ empty \in Seq(Int)
    BY <1>3, <1>4
  <2>4. written \o empty \in Seq(Int) /\ Len(written \o empty) = Len(written) + Len(empty)
    BY <2>3
  <2> DEFINE array == written \o empty
  <2> HIDE DEF array
  <2>5. array \in Seq(Int) /\ Len(array) = n
    BY <1>3, <2>2, <2>4 DEF array
  <2>6. DOMAIN array = 1 .. n
    BY <2>5
  <2> QED
    BY <2>2, <2>5, <2>6 DEF array
<1>6. \A i \in 1 .. n : (written \o empty)[i] = IF i <= passed THEN passed - i + 1 ELSE 0
  <2> TAKE i \in 1 .. n
  <2>1. CASE i <= passed
    BY <1>2, <1>3, <1>4, <2>1
  <2>2. CASE ~(i <= passed)
    <3>1. i - passed \in 1 .. Len(vec) - passed /\ i - passed \in 1 .. Len(empty)
      BY <1>4, <2>2
    <3>2. (written \o empty)[i] = empty[i - passed]
      BY <1>3, <1>4, <2>2, <3>1
    <3> QED
      BY <3>1, <3>2, <2>2 DEF Unwritten
  <2> QED
    BY <2>1, <2>2
<1>7. written \o empty = [i \in 1 .. n |-> IF i <= passed THEN passed - i + 1 ELSE 0]
  <2> DEFINE array == written \o empty
  <2>1. array \in Seq(Int)
    BY <1>3, <1>4
  <2>2. DOMAIN array = 1 .. n /\ \A i \in 1 .. n : array[i] = IF i <= passed THEN passed - i + 1 ELSE 0
    BY <1>5, <1>6
  <2> HIDE DEF array, n
  <2>3. array = [i \in DOMAIN array |-> array[i]]
    BY <2>1
  <2>4. array = [i \in 1 .. n |-> IF i <= passed THEN passed - i + 1 ELSE 0]
    BY <2>2, <2>3
  <2> QED
    BY <2>4 DEF array
<1> QED
  BY <1>7 DEF ArgsOf, Unwritten

-----------------------------------------------------------------------------
LEMMA InitEstablishesIInv == ListInit => IInv
BY DEF ListInit, IInv, FromTheEnd, Kept, Progress, Nodes, Kinds

\* As long as the elements are the same, so is what they become.
LEMMA SameNodes ==
  ASSUME elements' = elements, vec' = vec, form' = form
  PROVE  FromTheEnd => FromTheEnd'
<1>1. \A i : ToDestructuringNode(i)' = ToDestructuringNode(i)
  BY DEF ToDestructuringNode, SingleName, NULL
<1>2. NULL' = NULL
  BY DEF NULL, SingleName
<1> QED
  BY <1>1, <1>2 DEF FromTheEnd

\* Push appends the node of element i, or ends the conversion.
LEMMA PushedNode ==
  ASSUME IInv, form = "arrow", NEW i \in 1 .. Len(elements), i = Len(elements) - Len(vec),
         NEW next \in {"right", "left", "hoist"}, next = "hoist" => i = 1,
         elements' = elements, form' = form, Push(i, next)
  PROVE  /\ vec' \in Seq(Nodes) /\ FromTheEnd' /\ Kept'
         /\ phase' \in {"undefined", "error", "hoist"} \/ phase' = next
<1>0. vec \in Seq(Nodes) /\ elements \in Seq(Kinds) /\ Len(elements) \in Nat /\ i \in Nat
      /\ elements[i] \in Kinds
  BY DEF IInv
<1>1. CASE vec' = vec /\ phase' \in {"undefined", "error"}
  BY <1>0, <1>1, SameNodes DEF IInv, Kept
<1>2. CASE vec' = vec /\ ~Crashes(i) /\ ToDestructuringNode(i) = NULL /\ phase' \in {"error", "hoist"}
  <2>1. elements[i] = "Other"
    BY <1>0, <1>2, NodeOfElement
  <2> QED
    BY <1>0, <1>2, <2>1, SameNodes DEF IInv, Kept
<1>3. CASE vec' = Append(vec, ToDestructuringNode(i)) /\ phase' = next /\ ToDestructuringNode(i) # NULL
  <2> DEFINE node == ToDestructuringNode(i)
  <2>1. node \in Nodes
    BY <1>0, NodeOfElement
  <2> HIDE DEF node
  <2>2. vec' = Append(vec, node)
    BY <1>3 DEF node
  <2>3. vec' \in Seq(Nodes) /\ Len(vec') = Len(vec) + 1 /\ vec'[Len(vec) + 1] = node
        /\ \A j \in 1 .. Len(vec) : vec'[j] = vec[j]
    BY <1>0, <2>1, <2>2
  <2>4. ASSUME NEW j \in DOMAIN vec', vec'[j] # NULL
        PROVE  vec'[j] = ToDestructuringNode(Len(elements) - j + 1)
    <3>1. CASE j \in 1 .. Len(vec)
      BY <3>1, <1>0, <2>3, <2>4 DEF IInv, FromTheEnd
    <3>2. CASE j = Len(vec) + 1
      <4>1. Len(elements) - j + 1 = i
        BY <3>2, <1>0
      <4> QED
        BY <3>2, <4>1, <2>3 DEF node
    <3> QED
      BY <3>1, <3>2, <1>0, <2>3
  <2>5. FromTheEnd'
    <3>1. NULL' = NULL
      BY DEF NULL, SingleName
    <3>2. \A k : ToDestructuringNode(k)' = ToDestructuringNode(k)
      BY DEF ToDestructuringNode, SingleName, NULL
    <3> QED
      BY <2>4, <3>1, <3>2 DEF FromTheEnd
  <2>6. Kept'
    BY <1>0, <1>3, <2>3 DEF Kept
  <2> QED
    BY <1>3, <2>3, <2>5, <2>6
<1> QED
  BY <1>1, <1>2, <1>3 DEF Push

LEMMA NextKeepsIInv == IInv /\ [ListNext]_listVars => IInv'
<1> SUFFICES ASSUME IInv, [ListNext]_listVars PROVE IInv'
  OBVIOUS
<1> USE ParametersAssumption
<1>0. NULL' = NULL
  BY DEF NULL, SingleName
<1>1. CASE ParseElement
  BY <1>0, <1>1 DEF IInv, FromTheEnd, Kept, Progress, ParseElement
<1>2. CASE ParseCover
  BY <1>0, <1>2 DEF IInv, FromTheEnd, Kept, Progress, ParseCover
<1>3. CASE ToExpr
  BY <1>0, <1>3, SameNodes DEF IInv, Kept, Progress, ToExpr
<1>4. CASE ParseFormals
  <2>1. vec' \in Seq(Nodes)
    <3>1. \A i \in 1 .. Len(elements) : SingleName(i, elements[i] = "Assign") \in Nodes
      BY DEF SingleName, Nodes
    <3>2. DOMAIN elements = 1 .. Len(elements) /\ Len(elements) \in Nat
      BY DEF IInv
    <3> QED
      BY <1>4, <3>1, <3>2 DEF ParseFormals
  <2> QED
    BY <1>0, <1>4, <2>1 DEF IInv, FromTheEnd, Kept, Progress, SingleName, ParseFormals
<1>5. CASE ToVec
  <2>1. Len(elements) < 2 /\ form' = "arrow" /\ elements' = elements
    BY <1>5 DEF ToVec
  <2>2. CASE vec' = vec /\ phase' = "undefined"
    BY <1>0, <1>5, <2>2, SameNodes DEF IInv, Kept, Progress, ToVec
  <2>3. CASE elements # <<>> /\ vec' = <<ToDestructuringNode(1)>> /\ phase' = "hoist"
    <3>1. Len(elements) = 1
      BY <2>1, <2>3 DEF IInv
    <3>2. ToDestructuringNode(1) \in Nodes
      BY NodeOfElement
    <3>3. vec' \in Seq(Nodes) /\ DOMAIN vec' = {1} /\ Len(vec') = 1 /\ vec'[1] = ToDestructuringNode(1)
      BY <2>3, <3>2
    <3>4. FromTheEnd'
      <4>1. ToDestructuringNode(1)' = ToDestructuringNode(1)
        BY <2>1 DEF ToDestructuringNode, SingleName, NULL
      <4> QED
        BY <1>0, <2>1, <3>1, <3>3, <4>1 DEF FromTheEnd
    <3>5. Kept'
      BY <2>1, <3>1, <3>3 DEF Kept
    <3> QED
      BY <1>0, <1>5, <2>3, <3>3, <3>4, <3>5 DEF IInv, Progress, ToVec
  <2> QED
    BY <1>5, <2>2, <2>3 DEF ToVec
<1>6. CASE ToVecOfComma
  BY <1>0, <1>6, SameNodes DEF IInv, Kept, Progress, ToVecOfComma
<1>7. CASE CommaRight
  <2>1. phase = "right" /\ form = "arrow" /\ elements' = elements /\ form' = form
        /\ cursor \in 2 .. Len(elements) /\ Len(vec) = Len(elements) - cursor
        /\ Len(elements) \in Nat
    BY <1>7 DEF CommaRight, IInv, Progress
  <2>2. Push(cursor, IF cursor > 2 THEN "right" ELSE "left")
        /\ cursor' = IF phase' = "right" THEN cursor - 1 ELSE cursor
    BY <1>7 DEF CommaRight
  <2>3. cursor \in 1 .. Len(elements) /\ cursor = Len(elements) - Len(vec)
    <3>1. Len(vec) \in Nat
      BY DEF IInv
    <3> QED
      BY <2>1, <3>1
  <2>4. vec' \in Seq(Nodes) /\ FromTheEnd' /\ Kept'
    BY <2>1, <2>2, <2>3, PushedNode
  <2>5. phase' \in {"undefined", "error", "hoist"} \/ phase' = IF cursor > 2 THEN "right" ELSE "left"
    BY <2>2 DEF Push
  <2>6. phase' \in {"right", "left"} => Len(vec') = Len(vec) + 1
    <3>1. phase' \in {"right", "left"} => vec' = Append(vec, ToDestructuringNode(cursor))
      BY <2>2 DEF Push
    <3> QED
      BY <3>1 DEF IInv
  <2>7. CASE cursor > 2
    BY <1>0, <2>1, <2>2, <2>4, <2>5, <2>6, <2>7 DEF IInv, Progress
  <2>8. CASE cursor = 2
    BY <1>0, <2>1, <2>2, <2>4, <2>5, <2>6, <2>8 DEF IInv, Progress
  <2> QED
    BY <2>1, <2>7, <2>8
<1>8. CASE CommaLeft
  <2>1. phase = "left" /\ form = "arrow" /\ elements' = elements /\ form' = form
        /\ 1 = Len(elements) - Len(vec)
    BY <1>8 DEF CommaLeft, IInv, Progress
  <2>2. Push(1, "hoist")
    BY <1>8 DEF CommaLeft
  <2>3. vec' \in Seq(Nodes) /\ FromTheEnd' /\ Kept'
    <3>1. 1 \in 1 .. Len(elements)
      BY <1>8 DEF CommaLeft, IInv, Progress
    <3> QED
      BY <2>1, <2>2, <3>1, PushedNode
  <2>4. phase' \in {"undefined", "error", "hoist"}
    BY <2>2 DEF Push
  <2> QED
    BY <1>0, <2>1, <2>3, <2>4 DEF IInv, Progress
<1>9. CASE Hoist
  BY <1>0, <1>9, SameNodes DEF IInv, Kept, Progress, Hoist
<1>10. CASE Call
  <2>1. phase = "call" /\ phase' = "called" /\ vec' = vec /\ elements' = elements /\ form' = form
    BY <1>10 DEF Call
  <2>2. PICK passed \in 1 .. MaxArgs :
          args' = Popped(passed) \o [i \in 1 .. Len(vec) - passed |-> Unwritten]
    BY <1>10 DEF Call
  <2>3. args' = ArgsOf(passed)
    <3>1. vec \in Seq(Nodes) /\ passed \in Nat
      BY DEF IInv
    <3> QED
      BY <2>2, <3>1, ArrayOfCall
  <2>4. ArgsOf(passed)' = ArgsOf(passed)
    BY <2>1 DEF ArgsOf, Unwritten
  <2> QED
    BY <1>0, <2>1, <2>3, <2>4, SameNodes DEF IInv, Kept, Progress
<1>11. CASE UNCHANGED listVars
  BY <1>0, <1>11, SameNodes DEF IInv, Kept, Progress, ArgsOf, listVars
<1> QED
  BY <1>1, <1>2, <1>3, <1>4, <1>5, <1>6, <1>7, <1>8, <1>9, <1>10, <1>11 DEF ListNext

\* What the conversion has made of the elements, at every moment of it.
THEOREM Invariance == ListSpec => []IInv
BY InitEstablishesIInv, NextKeepsIInv, PTL DEF ListSpec

\* When every formal has an argument, so many were passed as the array has words.
LEMMA AllPassedArgs ==
  ASSUME IInv, phase = "called", AllPassed
  PROVE  /\ Len(elements) \in Nat /\ Len(vec) <= Len(elements)
         /\ \A i \in 1 .. Len(elements) : args[i] = Len(elements) - i + 1
<1>1. PICK passed \in 1 .. MaxArgs : args = ArgsOf(passed)
  BY DEF IInv
<1>2. Len(elements) \in Nat /\ Len(vec) \in Nat /\ DOMAIN vec = 1 .. Len(vec) /\ passed \in Nat
  BY ParametersAssumption DEF IInv
<1>3. ~(passed < Len(vec))
  <2> SUFFICES ASSUME passed < Len(vec) PROVE FALSE
    OBVIOUS
  <2>1. passed + 1 \in 1 .. Len(vec)
    BY <1>2
  <2>2. DOMAIN args = 1 .. Len(vec) /\ args[passed + 1] = Unwritten
    BY <1>1, <1>2, <2>1 DEF ArgsOf
  <2> QED
    BY <2>1, <2>2 DEF AllPassed
<1>4. args = [j \in 1 .. passed |-> IF j <= passed THEN passed - j + 1 ELSE Unwritten]
  BY <1>1, <1>3 DEF ArgsOf
<1>5. Len(args) = passed
  BY <1>2, <1>4
<1>6. passed = Len(elements)
  BY <1>5 DEF AllPassed
<1> QED
  BY <1>2, <1>3, <1>4, <1>6

LEMMA IInvBinds == IInv => ArgumentsBind /\ ParametersKept
<1> SUFFICES ASSUME IInv, phase = "called", form = "arrow"
             PROVE  ArgumentsBind /\ ParametersKept
  BY DEF ArgumentsBind, ParametersKept
<1>1. /\ vec \in Seq(Nodes) /\ elements \in Seq(Kinds) /\ Len(vec) \in Nat /\ Len(elements) \in Nat
      /\ DOMAIN vec = 1 .. Len(vec) /\ \A i \in DOMAIN vec : vec[i] # NULL
  BY DEF IInv, Progress
<1>2. \A i \in DOMAIN vec : vec[i] = ToDestructuringNode(Len(elements) - i + 1) /\ vec[i] # NULL
  BY <1>1 DEF IInv, FromTheEnd
<1>3. ArgumentsBind
  <2> SUFFICES ASSUME AllPassed, NEW i \in DOMAIN vec PROVE args[i] = vec[i].n
    BY DEF ArgumentsBind
  <2>1. i \in 1 .. Len(elements) /\ args[i] = Len(elements) - i + 1
    BY <1>1, AllPassedArgs
  <2>2. Len(elements) - i + 1 \in Nat
    BY <1>1, <2>1
  <2> QED
    BY <1>2, <2>1, <2>2, NodeOfElement
<1>4. ParametersKept
  <2> SUFFICES ASSUME Convertible
               PROVE  /\ Len(vec) = Len(elements)
                      /\ \A i \in DOMAIN vec :
                           vec[i] = SingleName(Len(vec) - i + 1, elements[Len(vec) - i + 1] = "Assign")
    BY DEF ParametersKept
  <2>1. Len(vec) = Len(elements)
    <3> SUFFICES ASSUME Len(vec) < Len(elements) PROVE FALSE
      BY <1>1 DEF IInv, Kept
    <3>1. elements[Len(elements) - Len(vec)] = "Other"
      BY DEF IInv, Kept
    <3>2. Len(elements) - Len(vec) \in DOMAIN elements
      BY <1>1
    <3> QED
      BY <3>1, <3>2 DEF Convertible
  <2>2. ASSUME NEW i \in DOMAIN vec
        PROVE  vec[i] = SingleName(Len(vec) - i + 1, elements[Len(vec) - i + 1] = "Assign")
    <3> DEFINE n == Len(vec) - i + 1
    <3>1. n \in DOMAIN elements
      BY <1>1, <2>1
    <3>2. vec[i] = ToDestructuringNode(n)
      BY <1>2, <2>1
    <3>3. elements[n] \in {"Identifier", "Assign"}
      BY <3>1 DEF Convertible
    <3> HIDE DEF n
    <3>4. vec[i] = SingleName(n, elements[n] = "Assign")
      BY <3>2, <3>3 DEF ToDestructuringNode, SingleName
    <3> QED
      BY <3>4 DEF n
  <2> QED
    BY <2>1, <2>2
<1> QED
  BY <1>3, <1>4

\* An arrow function's parameters are the arguments at their places, for lists of any
\* length.
THEOREM ArgumentsAlwaysBind == ListSpec => []ArgumentsBind
BY Invariance, IInvBinds, PTL

\* A list of any length that can become parameters becomes all of them, with their
\* initialisers.
THEOREM ParametersAlwaysKept == ListSpec => []ParametersKept
BY Invariance, IInvBinds, PTL
=============================================================================
