------------------------------- MODULE MCData -------------------------------
(***************************************************************************)
(* What data is: objects and primitives in their areas, the words of       *)
(* values, the numbers that the words of some lead to, and the lists that  *)
(* become parameters and arguments.  These share no state, so a behaviour  *)
(* is about one of them.                                                   *)
(***************************************************************************)
EXTENDS MCFormats, Oops, Parameters

CONSTANTS Literals, Names, MaxDepth, MaxSteps

VARIABLES
  about,     \* "formats", "words", "numbers" or "lists"
  doubles, stack, slots, pushes, reads, ops, steps

dvars == <<doubles, stack, slots, pushes, reads, ops, steps>>

dataVars == <<about, pool, vars, pvars, wordVars, dvars, listVars>>

Numbers == INSTANCE Doubles

DataInit ==
  /\ about \in {"formats", "words", "numbers", "lists"}
  /\ MCInit /\ WordInit /\ Numbers!Init /\ ListInit
  /\ about # "formats" => pool = "objects"

DataNext ==
  /\ UNCHANGED about
  /\ \/ about = "formats" /\ MCNext /\ UNCHANGED <<wordVars, dvars, listVars>>
     \/ about = "words" /\ WordNext /\ UNCHANGED <<pool, vars, pvars, dvars, listVars>>
     \/ about = "numbers" /\ Numbers!Next /\ UNCHANGED <<pool, vars, pvars, wordVars, listVars>>
     \/ about = "lists" /\ ListNext /\ UNCHANGED <<pool, vars, pvars, wordVars, dvars>>

DataSpec == DataInit /\ [][DataNext]_dataVars /\ WF_vars(WalkStep \/ EndWalk)

\* That of Doubles: sums are of what is meant, as long as nothing is used twice.
SumsMeant == Numbers!SumsMeant

\* Doubles of each class, strings without and with chars, an object.
MCHeap ==
  [a \in {32, 48, 64, 112, 256, 272} |->
     CASE a = 32  -> [kind |-> "Double", v |-> NaN]
       [] a = 48  -> [kind |-> "Double", v |-> 0]
       [] a = 64  -> [kind |-> "Double", v |-> 1]
       [] a = 112 -> [kind |-> "String", v |-> 0]
       [] a = 256 -> [kind |-> "String", v |-> 3]
       [] a = 272 -> [kind |-> "Object", v |-> 0]]

MCLiterals == <<1, 2, 4>>
=============================================================================
