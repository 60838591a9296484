-------------------------------- MODULE Area --------------------------------
(***************************************************************************)
(* What a format promises to the collector: an area is tiled by blocks,    *)
(* and a walk of the area goes from block to block, meets every one of     *)
(* them in order, and ends where the last one does.                        *)
(***************************************************************************)
EXTENDS Integers

CONSTANT Limit

VARIABLES
  blocks,    \* address -> size
  top,       \* where the last block ends
  at,        \* where the walk is
  walking

vars == <<blocks, top, at, walking>>

Grow ==
  /\ ~walking
  /\ \E size \in 1 .. Limit - top :
       /\ blocks' = [a \in DOMAIN blocks \union {top} |-> IF a = top THEN size ELSE blocks[a]]
       /\ top' = top + size
  /\ UNCHANGED <<at, walking>>

\* Blocks next to each other are made one.
Merge ==
  /\ ~walking
  /\ \E a \in DOMAIN blocks : \E b \in DOMAIN blocks \union {top} :
       /\ a < b
       /\ blocks' = [x \in {y \in DOMAIN blocks : y <= a \/ y >= b} |->
                       IF x = a THEN b - a ELSE blocks[x]]
  /\ UNCHANGED <<top, at, walking>>

Start == ~walking /\ at' = 0 /\ walking' = TRUE /\ UNCHANGED <<blocks, top>>

Visit == walking /\ at \in DOMAIN blocks /\ at' = at + blocks[at] /\ UNCHANGED <<blocks, top, walking>>

Finish == walking /\ at = top /\ walking' = FALSE /\ UNCHANGED <<blocks, top, at>>

Init == blocks = [a \in {} |-> 0] /\ top = 0 /\ at = 0 /\ walking = FALSE

Next == Grow \/ Merge \/ Start \/ Visit \/ Finish

Spec == Init /\ [][Next]_vars /\ WF_vars(Visit \/ Finish)
=============================================================================
