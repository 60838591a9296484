------------------------------ MODULE Doubles ------------------------------
(***************************************************************************)
(* Numbers and where they are.  Every number is a PrimDesc in the heap; a  *)
(* literal's is made once, when its function is compiled, and pushed each  *)
(* time the instruction runs; variables and the stack share it.  kAdd, to  *)
(* which every binary operator is compiled, writes the sum into the right  *)
(* operand's PrimDesc.  Interpreter.tla says which words go where; here    *)
(* the values are compared with what the script means.                     *)
(*                                                                         *)
(* A behaviour is the code of some expressions and declarations, run one   *)
(* after the other; a literal is pushed again when its function is called  *)
(* again.  The values are small integers.                                  *)
(***************************************************************************)
EXTENDS Integers, SequencesExt

CONSTANTS
  Literals,     \* the number literals, a sequence
  Names,        \* the variables
  MaxDepth,     \* bound: operands on the stack
  MaxSteps      \* bound: instructions and declarations

VARIABLES
  doubles,    \* address -> m_dbl; the i-th literal is at i
  stack,      \* m_stack: words, with the number that is meant
  slots,      \* name -> word
  pushes,     \* history: how often each literal was pushed
  reads,      \* history: how often each variable was read
  ops,        \* history: the operators compiled
  steps

vars == <<doubles, stack, slots, pushes, reads, ops, steps>>

Word(at, meant) == [at |-> at, meant |-> meant]
NoWord          == Word(0, 0)
BinOps          == {"kAdd", "kSub"}

Meaning(op, lhs, rhs) == IF op = "kAdd" THEN lhs + rhs ELSE lhs - rhs

Step == steps < MaxSteps /\ steps' = steps + 1

Push(word) == Len(stack) < MaxDepth /\ stack' = Append(stack, word)

PushLiteral ==
  /\ Step
  /\ \E i \in DOMAIN Literals :
       /\ Push(Word(i, Literals[i]))
       /\ pushes' = [pushes EXCEPT ![i] = @ + 1]
  /\ UNCHANGED <<doubles, slots, reads, ops>>

Resolve ==
  /\ Step
  /\ \E n \in Names :
       /\ slots[n] # NoWord
       /\ Push(slots[n])
       /\ reads' = [reads EXCEPT ![n] = @ + 1]
  /\ UNCHANGED <<doubles, slots, pushes, ops>>

\* visitSingleDecl's kResolvedStore and kPop.
Declare ==
  /\ Step /\ stack # <<>>
  /\ \E n \in Names : slots' = [slots EXCEPT ![n] = Last(stack)]
  /\ stack' = Front(stack)
  /\ UNCHANGED <<doubles, pushes, reads, ops>>

\* Mutant: the sum is written into the left operand.
SumIntoLeft(a, b) == [doubles EXCEPT ![b.at] = doubles[a.at] + doubles[b.at]]

\* *a.dblAddr() = *a.dblAddr() + *b.dblAddr().
Sum(a, b) == [doubles EXCEPT ![a.at] = doubles[a.at] + doubles[b.at]]

\* visitBinOp compiles any operator to kAdd, which pops a, pops b and pushes a.
BinOp ==
  /\ Step /\ Len(stack) > 1
  /\ LET a == stack[Len(stack)]
         b == stack[Len(stack) - 1]
     IN  \E op \in BinOps :
           /\ doubles' = Sum(a, b)
           /\ stack' = Append(Front(Front(stack)), Word(a.at, Meaning(op, b.meant, a.meant)))
           /\ ops' = ops \union {op}
  /\ UNCHANGED <<slots, pushes, reads>>

Init ==
  /\ doubles = Literals
  /\ stack = <<>>
  /\ slots = [n \in Names |-> NoWord]
  /\ pushes = [i \in DOMAIN Literals |-> 0]
  /\ reads = [n \in Names |-> 0]
  /\ ops = {}
  /\ steps = 0

Next == PushLiteral \/ Resolve \/ Declare \/ BinOp

Spec == Init /\ [][Next]_vars
-----------------------------------------------------------------------------
(***************************************************************************)
(* Properties.                                                             *)
(***************************************************************************)
\* No literal's instruction has run twice and no variable has been read twice.
UsedOnce == (\A i \in DOMAIN Literals : pushes[i] <= 1) /\ (\A n \in Names : reads[n] <= 1)

ValuesMeant == \A i \in DOMAIN stack : doubles[stack[i].at] = stack[i].meant

\* As long as each literal and each variable is used once, no operand of a sum, however
\* it went through variables and other sums, has been overwritten by another sum.
SumsMeant == UsedOnce /\ ops \subseteq {"kAdd"} => ValuesMeant
=============================================================================
