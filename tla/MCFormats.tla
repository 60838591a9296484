----------------------------- MODULE MCFormats -----------------------------
(***************************************************************************)
(* The two formats of MPS.cc, one for each pool.  The pools share no       *)
(* memory, so a behaviour uses one of them.                                *)
(***************************************************************************)
EXTENDS ObjectFormat, Sequences

CONSTANTS PrimLimit, Texts, Doubles, OldBytes

\* Strings have no 0 in them.
ASSUME PrimFormatAssumption == PrimLimit \in Nat /\ Texts \subseteq Seq(Nat \ {0})

VARIABLES
  pool,      \* the pool used: "objects" or "primitives"
  pmem, pblocks, ptop, pbase, pwalking

pvars == <<pmem, pblocks, ptop, pbase, pwalking>>

Prim == INSTANCE PrimFormat WITH
          Limit <- PrimLimit, mem <- pmem, blocks <- pblocks, top <- ptop, base <- pbase,
          walking <- pwalking

MCInit == pool \in {"objects", "primitives"} /\ Init /\ Prim!Init

MCNext ==
  /\ UNCHANGED pool
  /\ \/ pool = "objects" /\ Next /\ UNCHANGED pvars
     \/ pool = "primitives" /\ Prim!Next /\ UNCHANGED vars

MCSpec == MCInit /\ [][MCNext]_<<pool, vars, pvars>> /\ WF_vars(WalkStep \/ EndWalk)

\* Those of PrimFormat: what names read, where isfwd leads, where a walk gets to.
ShortNamesRead == Prim!ShortNamesRead
ForwardsLead   == Prim!ForwardsLead
WalkStays      == Prim!WalkStays

\* A string of and one above the six chars that a PrimDesc has room for.
MCTexts == {<<1, 1, 1, 1, 1, 2>>, <<1, 1, 1, 1, 1, 1, 2, 2, 2>>}
=============================================================================
