---------------------------- MODULE ObjectFormat ----------------------------
(***************************************************************************)
(* The format of ObjectDescs (MPS.cc): sizes, mpsScan and mpsSkip as walks *)
(* of an area, mpsFwd and mpsPad, on the objects that ObjectMemory.cc      *)
(* reserves.  What a scan does to references is in Collector.              *)
(*                                                                         *)
(* The Memory Pool System (external) reserves blocks one after the other,  *)
(* pads the rest of a buffer, forwards objects while it scans others, and  *)
(* pads runs of dead blocks in areas with nailed ones.  Sizes are bytes.   *)
(***************************************************************************)
EXTENDS Integers

CONSTANTS
  Limit,         \* bound: the bytes of the area
  MaxElements    \* bound: elements of an array, names of a map

ASSUME ObjectFormatAssumption == Limit \in Nat /\ MaxElements \in Nat

VARIABLES
  mem,       \* address -> the header last written there
  blocks,    \* history: address -> the size reserved
  top,       \* the end of the last block
  base,      \* the walk's base
  walk       \* "none", or the method that walks: "scan" or "skip"

vars == <<mem, blocks, top, base, walk>>

ALIGN(size) == ((size + 15) \div 16) * 16

\* kind, m_fwdLen, and the one or two words after the header: m_nElements, m_padLen,
\* or m_nParams and m_nLocals.
Header(kind, word, word2) == [kind |-> kind, fwdLen |-> 0, word |-> word, word2 |-> word2]

sizeofOop == 8
sizeofFwd == 16
sizeofPad == 16
sizeofPlainArray == 16
sizeofCharArray == 16
sizeofEnvironmentMap == 24
sizeofClosure == 24
sizeofFunction == 32
sizeofEnvironment == 40

\* Mutant: a forwarded object keeps the length it had.
FwdKeepsLen(o, size) == [o EXCEPT !.kind = "kFwd"]

\* What mpsFwd writes into an object of the size.
Fwd(o, size) == [o EXCEPT !.kind = "kFwd", !.fwdLen = size]

\* mpsSkip: the bytes it skips.
Skip(o) ==
  CASE o.kind = "kFwd"            -> o.fwdLen
    [] o.kind = "kPad"            -> o.word
    [] o.kind = "kEnvironmentMap" -> ALIGN(sizeofEnvironmentMap + sizeofOop * (o.word + o.word2))
    [] o.kind = "kEnvironment"    -> ALIGN(sizeofEnvironment)
    [] o.kind = "kPlainArray"     -> ALIGN(sizeofPlainArray + sizeofOop * o.word)
    [] o.kind = "kCharArray"      -> ALIGN(sizeofCharArray + o.word)
    [] o.kind = "kFunction"       -> ALIGN(sizeofFunction)
    [] o.kind = "kClosure"        -> ALIGN(sizeofClosure)

\* Mutant: a closure is as long as it says.
ScannedUnaligned(o) == IF o.kind = "kClosure" THEN sizeofClosure ELSE Skip(o)

\* mpsScan: the bytes it leaves behind with an object.
Scanned(o) ==
  CASE o.kind = "kFwd"            -> o.fwdLen
    [] o.kind = "kPad"            -> o.word
    [] o.kind = "kEnvironmentMap" -> ALIGN(sizeofEnvironmentMap + sizeofOop * (o.word2 + o.word))
    [] o.kind = "kEnvironment"    -> ALIGN(sizeofEnvironment)
    [] o.kind = "kPlainArray"     -> ALIGN(sizeofPlainArray + sizeofOop * o.word)
    [] o.kind = "kCharArray"      -> ALIGN(sizeofCharArray + o.word)
    [] o.kind = "kFunction"       -> ALIGN(sizeofFunction)
    [] o.kind = "kClosure"        -> ALIGN(sizeofClosure)

-----------------------------------------------------------------------------
(***************************************************************************)
(* Allocation: mps_reserve and what is written before mps_commit.          *)
(***************************************************************************)
With(f, a, v) == [x \in DOMAIN f \union {a} |-> IF x = a THEN v ELSE f[x]]

Reserve(size, header) ==
  /\ walk = "none" /\ top + size <= Limit
  /\ mem' = With(mem, top, header)
  /\ blocks' = With(blocks, top, size)
  /\ top' = top + size
  /\ UNCHANGED <<base, walk>>

MakeArray ==
  \E n \in 0 .. MaxElements :
    Reserve(ALIGN(sizeofPlainArray + sizeofOop * n), Header("kPlainArray", n, 0))

MakeCharArray ==
  \E n \in 0 .. MaxElements : Reserve(ALIGN(sizeofCharArray + n), Header("kCharArray", n, 0))

MakeClosure == Reserve(ALIGN(sizeofClosure), Header("kClosure", 0, 0))

MakeEnvironment == Reserve(ALIGN(sizeofEnvironment), Header("kEnvironment", 0, 0))

MakeEnvironmentMap ==
  \E nParams, nLocals \in 0 .. MaxElements :
    Reserve(ALIGN(sizeofEnvironmentMap + sizeofOop * (nParams + nLocals)),
            Header("kEnvironmentMap", nParams, nLocals))

MakeFunction == Reserve(sizeofFunction, Header("kFunction", 0, 0))

(***************************************************************************)
(* The collector's calls.                                                  *)
(***************************************************************************)
\* mpsFwd of any object that a fix may reach, at any time, again if isfwd denies it.
Forward ==
  \E a \in DOMAIN blocks :
    /\ mem[a].kind # "kPad"
    /\ Skip(mem[a]) >= sizeofFwd
    /\ mem' = [mem EXCEPT ![a] = Fwd(mem[a], Skip(mem[a]))]
    /\ UNCHANGED <<blocks, top, base, walk>>

\* Mutant: a pad's length is what follows its header.
PadAfterHeader(size) == Header("kPad", size - sizeofPad, 0)

\* What mpsPad writes.
Pad(size) == Header("kPad", size, 0)

\* The rest of a buffer.
PadBuffer == \E n \in 1 .. MaxElements : Reserve(n * sizeofPad, Pad(n * sizeofPad))

\* Dead blocks up to b.
PadDead ==
  /\ walk = "none"
  /\ \E a \in DOMAIN blocks : \E b \in DOMAIN blocks \union {top} :
       /\ a < b
       /\ mem' = With(mem, a, Pad(b - a))
       /\ blocks' = [x \in {y \in DOMAIN blocks : y <= a \/ y >= b} |->
                       IF x = a THEN b - a ELSE blocks[x]]
  /\ UNCHANGED <<top, base, walk>>

StartWalk ==
  /\ walk = "none"
  /\ walk' \in {"scan", "skip"}
  /\ base' = 0
  /\ UNCHANGED <<mem, blocks, top>>

\* One turn of while (base < limit).  Where no header was written, base stays: zeroed
\* memory is a kFwd of no length.
WalkStep ==
  /\ walk # "none" /\ base < top /\ base \in DOMAIN mem
  /\ base' = base + IF walk = "scan" THEN Scanned(mem[base]) ELSE Skip(mem[base])
  /\ UNCHANGED <<mem, blocks, top, walk>>

EndWalk == walk # "none" /\ base >= top /\ walk' = "none" /\ UNCHANGED <<mem, blocks, top, base>>

Init ==
  /\ mem = [a \in {} |-> Header("kFwd", 0, 0)] /\ blocks = [a \in {} |-> 0]
  /\ top = 0 /\ base = 0 /\ walk = "none"

Next == MakeArray \/ MakeCharArray \/ MakeClosure \/ MakeEnvironment \/ MakeEnvironmentMap
        \/ MakeFunction \/ Forward \/ PadBuffer \/ PadDead \/ StartWalk \/ WalkStep \/ EndWalk

\* A walk is a loop of the collector, which no other thread holds up.
Spec == Init /\ [][Next]_vars /\ WF_vars(WalkStep \/ EndWalk)

-----------------------------------------------------------------------------
(***************************************************************************)
(* Properties.                                                             *)
(***************************************************************************)
Tiling ==
  /\ \A a \in DOMAIN blocks : a + blocks[a] \in DOMAIN blocks \union {top}
  /\ \A a, b \in DOMAIN blocks \union {top} : a < b => a \in DOMAIN blocks /\ a + blocks[a] <= b

\* Whatever was reserved, forwarded and padded, in whatever order, both methods find
\* in each block's header the size that was reserved for it, and each block is followed
\* by a block or the end.
HeadersTile ==
  /\ Tiling
  /\ \A a \in DOMAIN blocks : Skip(mem[a]) = blocks[a] /\ Scanned(mem[a]) = blocks[a]

AreaOf == INSTANCE Area WITH at <- base, walking <- walk # "none"

\* The walks of mpsScan and mpsSkip, with objects forwarded under them, implement the
\* abstract walk of an area: every block, in order, to the end.
WalksBlocks == AreaOf!Spec

\* while (base < limit) ends.
WalkEnds == walk # "none" ~> walk = "none"
=============================================================================
