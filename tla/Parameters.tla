----------------------------- MODULE Parameters -----------------------------
(***************************************************************************)
(* From a list in parentheses to arguments in their places: the cover      *)
(* grammar of parenthesised expressions and arrow functions (Parser.yy),   *)
(* the conversion of its syntax tree to formals (AST.cc), the numbers that *)
(* the Hoister gives to formals (BytecodeGen.cc), and the words that kCall *)
(* puts at those numbers (Interpreter.cc).                                 *)
(*                                                                         *)
(* The grammar is left-recursive, so m_expr is one element, or CommaNodes  *)
(* one in the other: the n-th, for n > 1, has element n on the right and,  *)
(* on the left, the one before, or element 1 if there is none.  A list of  *)
(* elements and a number thus stand for a tree and a node.  The name of an *)
(* element is its place; all names are distinct.                           *)
(***************************************************************************)
EXTENDS Integers, SequencesExt

CONSTANTS
  MaxList,       \* bound: elements of the list
  MaxArgs        \* bound: arguments of the call

ASSUME ParametersAssumption == MaxList \in Nat \ {0} /\ MaxArgs \in Nat \ {0}

VARIABLES
  form,      \* "cover", until => is seen, then "arrow"; or "function"
  phase,     \* what runs, or how it ended
  elements,  \* what m_expr is made of; none: NULL
  rest,      \* m_restIdentifier is there
  cursor,    \* the CommaNode whose toDestructuringVec runs
  vec,       \* the DestructuringNodes, in their order
  args       \* m_args of the function's environment: places of arguments

listVars == <<form, phase, elements, rest, cursor, vec, args>>

\* An identifier, one = an expression, an expression that is no parameter, and one of
\* those = an expression.
Kinds == {"Identifier", "Assign", "Other", "AssignOther"}

SingleName(n, init) == [init |-> init, n |-> n]      \* a SingleNameDestructuringNode
NULL                == SingleName(0, FALSE)
Unwritten           == 0                             \* an element makeArray left

-----------------------------------------------------------------------------
(***************************************************************************)
(* Parsing.  The grammar does not yet know what the parentheses are.       *)
(***************************************************************************)
\* Expr: AssignmentExpr | Expr ',' AssignmentExpr.
ParseElement ==
  /\ phase = "list" /\ Len(elements) < MaxList
  /\ \E kind \in Kinds : elements' = Append(elements, kind)
  /\ UNCHANGED <<form, phase, rest, cursor, vec, args>>

\* The productions with and without a rest identifier; the next token is => or not.
ParseCover ==
  /\ phase = "list"
  /\ rest' \in BOOLEAN
  /\ form' \in {"cover", "arrow"}
  /\ phase' = "converting"
  /\ UNCHANGED <<elements, cursor, vec, args>>

\* A PrimaryExpr: toExpr, and a syntax error for NULL.
ToExpr ==
  /\ phase = "converting" /\ form = "cover"
  /\ phase' = IF elements = <<>> \/ rest THEN "error" ELSE "expression"
  /\ UNCHANGED <<form, elements, rest, cursor, vec, args>>

\* A FormalParameterList instead, in the order written.  Without a formal it is NULL,
\* which the Hoister follows.
ParseFormals ==
  /\ phase = "list" /\ \A i \in DOMAIN elements : elements[i] \in {"Identifier", "Assign"}
  /\ form' = "function"
  /\ vec' = [i \in DOMAIN elements |-> SingleName(i, elements[i] = "Assign")]
  /\ phase' = IF elements = <<>> THEN "undefined" ELSE "hoist"
  /\ UNCHANGED <<elements, rest, cursor, args>>

-----------------------------------------------------------------------------
(***************************************************************************)
(* toDestructuringNode of an element: NULL by default.  An AssignNode sets *)
(* the initialiser of what its left side became without looking.           *)
(***************************************************************************)
Crashes(i) == elements[i] = "AssignOther"

ToDestructuringNode(i) ==
  CASE elements[i] = "Identifier" -> SingleName(i, FALSE)
    [] elements[i] = "Assign"     -> SingleName(i, TRUE)
    [] OTHER                      -> NULL

\* The cover node's toDestructuringVec follows a NULL m_expr, and pushes whatever an
\* element alone became.
ToVec ==
  /\ phase = "converting" /\ form = "arrow" /\ Len(elements) < 2
  /\ IF elements = <<>> \/ Crashes(1) THEN phase' = "undefined" /\ UNCHANGED vec
     ELSE phase' = "hoist" /\ vec' = <<ToDestructuringNode(1)>>
  /\ UNCHANGED <<form, elements, rest, cursor, args>>

ToVecOfComma ==
  /\ phase = "converting" /\ form = "arrow" /\ Len(elements) > 1
  /\ phase' = "right" /\ cursor' = Len(elements)
  /\ UNCHANGED <<form, elements, rest, vec, args>>

(***************************************************************************)
(* CommaNode::toDestructuringVec: the right side, then the left side, by   *)
(* the same method if it is a CommaNode; what that returns is not looked   *)
(* at, so a NULL below the topmost CommaNode only ends the walk.           *)
(***************************************************************************)
Push(i, next) ==
  IF Crashes(i) THEN phase' = "undefined" /\ UNCHANGED vec
  ELSE IF ToDestructuringNode(i) = NULL
    THEN phase' = (IF cursor = Len(elements) THEN "error" ELSE "hoist") /\ UNCHANGED vec
  ELSE phase' = next /\ vec' = Append(vec, ToDestructuringNode(i))

\* Mutant: a CommaNode in a CommaNode is taken for an element alone.
CommaRightOnce ==
  /\ phase = "right"
  /\ Push(cursor, "left")
  /\ UNCHANGED <<form, elements, rest, cursor, args>>

CommaRight ==
  /\ phase = "right"
  /\ Push(cursor, IF cursor > 2 THEN "right" ELSE "left")
  /\ cursor' = IF phase' = "right" THEN cursor - 1 ELSE cursor
  /\ UNCHANGED <<form, elements, rest, args>>

CommaLeft ==
  /\ phase = "left"
  /\ Push(1, "hoist")
  /\ UNCHANGED <<form, elements, rest, cursor, args>>

-----------------------------------------------------------------------------
(***************************************************************************)
(* The Hoister visits the formals and numbers them in the order of vec.    *)
(***************************************************************************)
Hoist ==
  /\ phase = "hoist"
  /\ phase' = IF \E i \in DOMAIN vec : vec[i] = NULL THEN "undefined" ELSE "call"
  /\ UNCHANGED <<form, elements, rest, cursor, vec, args>>

\* Mutant: arguments are popped from the first.
PoppedFromFirst(passed) == [i \in 1 .. passed |-> i]

\* The arguments, pushed in the order written, in the order kCall pops them.
Popped(passed) == Reverse([i \in 1 .. passed |-> i])

\* The argument array has room for all formals.
Call ==
  /\ phase = "call"
  /\ \E passed \in 1 .. MaxArgs :
       args' = Popped(passed) \o [i \in 1 .. Len(vec) - passed |-> Unwritten]
  /\ phase' = "called"
  /\ UNCHANGED <<form, elements, rest, cursor, vec>>

ListInit ==
  /\ form = "cover" /\ phase = "list" /\ elements = <<>>
  /\ rest = FALSE /\ cursor = 0 /\ vec = <<>> /\ args = <<>>

ListNext == ParseElement \/ ParseCover \/ ToExpr \/ ParseFormals \/ ToVec \/ ToVecOfComma
        \/ CommaRight \/ CommaLeft \/ Hoist \/ Call

ListSpec == ListInit /\ [][ListNext]_listVars

-----------------------------------------------------------------------------
(***************************************************************************)
(* Properties.  args[i] is what lookup finds for the formal vec[i].        *)
(***************************************************************************)
\* As many arguments were passed as elements were written.
AllPassed == Len(args) = Len(elements) /\ \A i \in DOMAIN args : args[i] # Unwritten

\* An arrow function's parameters are the arguments at their places, if as many are
\* passed as elements were written: the orders of the conversion and of kCall cancel
\* out, also where the conversion has lost elements on its way.
ArgumentsBind ==
  phase = "called" /\ form = "arrow" /\ AllPassed => \A i \in DOMAIN vec : args[i] = vec[i].n

\* The list can become parameters.
Convertible == \A i \in DOMAIN elements : elements[i] \in {"Identifier", "Assign"}

\* An arrow function whose list can be converted is called with all the parameters
\* written, none lost where the walk goes from a CommaNode to the one in it or ends,
\* and each with the initialiser written for it.
ParametersKept ==
  phase = "called" /\ form = "arrow" /\ Convertible =>
    /\ Len(vec) = Len(elements)
    /\ \A i \in DOMAIN vec : vec[i] = SingleName(Len(vec) - i + 1, elements[Len(vec) - i + 1] = "Assign")

\* AST.hh:658 says that the conversion "Returns NULL if this cannot be done", and
\* Parser.yy:1563 makes a syntax error of NULL: no arrow function is called with a list
\* that cannot be converted.  Violated: a CommaNode does not look at what the conversion
\* of the CommaNode in it returned (AST.cc:284), and the parameters after the failure
\* are taken for the list.
ConvertedOrRejected == phase = "called" /\ form = "arrow" => Convertible

\* README.md:5 calls the program an implementation of ECMAScript, in which the
\* parameters of a function are the arguments at their places.  Violated: the formals of
\* a function expression are numbered in the order written and kCall pops the arguments
\* from the last, so that the first formal is the last argument.
FunctionArgumentsBind ==
  phase = "called" /\ form = "function" /\ AllPassed => \A i \in DOMAIN vec : args[i] = vec[i].n
=============================================================================
