---------------------------- MODULE FormatsProofs ----------------------------
(***************************************************************************)
(* The two formats, for areas of every size.                               *)
(*                                                                         *)
(* Objects: in each block's header both methods find the size that was     *)
(* reserved (HeadersTile), and walks implement the abstract ones of Area,  *)
(* liveness apart.  HeadersTile alone is not inductive: that a block       *)
(* exists at all where the walk is needs Walking, and that forwarding and  *)
(* padding change the header of a block and of no other needs Shape.       *)
(*                                                                         *)
(* Primitives: what is in a block, or where it went, is in its header      *)
(* (Headed), because blocks are 16 bytes apart (Following) and each write  *)
(* stays within 16 bytes of a block or is at the top.  The three           *)
(* properties follow; that of names also needs what is behind the top.     *)
(***************************************************************************)
EXTENDS MCFormats, TLAPS


Shape ==
  /\ top \in Nat
  /\ DOMAIN blocks \subseteq Nat
  /\ DOMAIN blocks \subseteq DOMAIN mem
  /\ 0 \in DOMAIN blocks \union {top}
  /\ \A a \in DOMAIN blocks : a < top /\ blocks[a] \in Nat \ {0}

Walking == walk # "none" => base \in DOMAIN blocks \union {top}

IInv == Shape /\ HeadersTile /\ Walking

USE ObjectFormatAssumption

LEMMA AlignIsNat == \A size \in Nat : size > 0 => ALIGN(size) \in Nat \ {0}
  BY DEF ALIGN

\* What each reservation writes is read back as its size.
LEMMA HeaderSizes ==
  /\ \A n \in Nat :
       LET o == Header("kPlainArray", n, 0)
       IN  Skip(o) = ALIGN(sizeofPlainArray + sizeofOop * n) /\ Scanned(o) = Skip(o)
  /\ \A n \in Nat :
       LET o == Header("kCharArray", n, 0)
       IN  Skip(o) = ALIGN(sizeofCharArray + n) /\ Scanned(o) = Skip(o)
  /\ \A p, l \in Nat :
       LET o == Header("kEnvironmentMap", p, l)
       IN  Skip(o) = ALIGN(sizeofEnvironmentMap + sizeofOop * (p + l)) /\ Scanned(o) = Skip(o)
  /\ LET o == Header("kClosure", 0, 0)
     IN  Skip(o) = ALIGN(sizeofClosure) /\ Scanned(o) = Skip(o)
  /\ LET o == Header("kEnvironment", 0, 0)
     IN  Skip(o) = ALIGN(sizeofEnvironment) /\ Scanned(o) = Skip(o)
  /\ LET o == Header("kFunction", 0, 0)
     IN  Skip(o) = sizeofFunction /\ Scanned(o) = Skip(o)
  /\ \A size \in Nat : Skip(Pad(size)) = size /\ Scanned(Pad(size)) = size
<1> USE DEF Header, Skip, Scanned
<1>1. ALIGN(sizeofFunction) = sizeofFunction
  BY DEF ALIGN, sizeofFunction
<1>2. \A p, l \in Nat : p + l = l + p
  OBVIOUS
<1>3. \A n \in Nat :
        LET o == Header("kPlainArray", n, 0)
        IN  Skip(o) = ALIGN(sizeofPlainArray + sizeofOop * n) /\ Scanned(o) = Skip(o)
  OBVIOUS
<1>4. \A n \in Nat :
        LET o == Header("kCharArray", n, 0)
        IN  Skip(o) = ALIGN(sizeofCharArray + n) /\ Scanned(o) = Skip(o)
  OBVIOUS
<1>5. \A p, l \in Nat :
        LET o == Header("kEnvironmentMap", p, l)
        IN  Skip(o) = ALIGN(sizeofEnvironmentMap + sizeofOop * (p + l)) /\ Scanned(o) = Skip(o)
  BY <1>2
<1>6. LET o == Header("kFunction", 0, 0)
      IN  Skip(o) = sizeofFunction /\ Scanned(o) = Skip(o)
  BY <1>1
<1>7. \A size \in Nat : Skip(Pad(size)) = size /\ Scanned(Pad(size)) = size
  BY DEF Pad
<1>8. LET o == Header("kClosure", 0, 0)
      IN  Skip(o) = ALIGN(sizeofClosure) /\ Scanned(o) = Skip(o)
  OBVIOUS
<1>9. LET o == Header("kEnvironment", 0, 0)
      IN  Skip(o) = ALIGN(sizeofEnvironment) /\ Scanned(o) = Skip(o)
  OBVIOUS
<1> HIDE DEF Header, Skip, Scanned
<1> QED
  BY <1>3, <1>4, <1>5, <1>6, <1>7, <1>8, <1>9

\* A forwarded object is read as long as it was.
LEMMA FwdSize ==
  ASSUME NEW o, NEW size
  PROVE  Skip(Fwd(o, size)) = size /\ Scanned(Fwd(o, size)) = size
  BY DEF Fwd, Skip, Scanned

LEMMA InitInv == Init => IInv
  BY DEF Init, IInv, Shape, HeadersTile, Tiling, Walking

\* Allocation appends a block.
LEMMA ReserveKeepsIInv ==
  ASSUME IInv, NEW size \in Nat \ {0}, NEW header, Reserve(size, header),
         Skip(header) = size, Scanned(header) = size
  PROVE  IInv'
<1>1. /\ top' = top + size /\ walk' = walk /\ walk = "none"
      /\ DOMAIN blocks' = DOMAIN blocks \union {top}
      /\ DOMAIN mem' = DOMAIN mem \union {top}
  BY DEF Reserve, With
<1>2. top \notin DOMAIN blocks
  BY DEF IInv, Shape
<1>3. /\ blocks'[top] = size /\ mem'[top] = header
      /\ \A a \in DOMAIN blocks : blocks'[a] = blocks[a] /\ mem'[a] = mem[a]
  BY <1>2 DEF Reserve, With, IInv, Shape
<1>4. top + size \in Nat
  BY DEF IInv, Shape
<1>5. Shape'
  BY <1>1, <1>3, <1>4 DEF IInv, Shape
<1>6. Tiling'
  BY <1>1, <1>3, <1>4 DEF IInv, Shape, HeadersTile, Tiling
<1>7. \A a \in DOMAIN blocks' : Skip(mem'[a]) = blocks'[a] /\ Scanned(mem'[a]) = blocks'[a]
  BY <1>1, <1>3 DEF IInv, HeadersTile
<1>8. HeadersTile'
  BY <1>6, <1>7 DEF HeadersTile
<1> QED
  BY <1>1, <1>5, <1>8 DEF IInv, Walking

LEMMA ForwardKeepsIInv == IInv /\ Forward => IInv'
<1> SUFFICES ASSUME IInv, Forward
             PROVE  IInv'
  OBVIOUS
<1>1. PICK a \in DOMAIN blocks : mem' = [mem EXCEPT ![a] = Fwd(mem[a], Skip(mem[a]))]
  BY DEF Forward
<1>2. blocks' = blocks /\ top' = top /\ base' = base /\ walk' = walk
  BY DEF Forward
<1>3. \A x \in DOMAIN blocks : Skip(mem'[x]) = blocks[x] /\ Scanned(mem'[x]) = blocks[x]
  BY <1>1, FwdSize DEF IInv, Shape, HeadersTile
<1>4. DOMAIN mem' = DOMAIN mem
  BY <1>1
<1> QED
  BY <1>2, <1>3, <1>4 DEF IInv, Shape, HeadersTile, Tiling, Walking

LEMMA PadDeadKeepsIInv == IInv /\ PadDead => IInv'
<1> SUFFICES ASSUME IInv, PadDead
             PROVE  IInv'
  OBVIOUS
<1>1. PICK a \in DOMAIN blocks, b \in DOMAIN blocks \union {top} :
        /\ a < b
        /\ mem' = With(mem, a, Pad(b - a))
        /\ blocks' = [x \in {y \in DOMAIN blocks : y <= a \/ y >= b} |->
                        IF x = a THEN b - a ELSE blocks[x]]
  BY DEF PadDead
<1> DEFINE kept == {y \in DOMAIN blocks : y <= a \/ y >= b}
<1>2. top' = top /\ walk' = walk /\ walk = "none"
  BY DEF PadDead
<1>3. a \in Nat /\ b \in Nat /\ b - a \in Nat \ {0}
  BY <1>1 DEF IInv, Shape
<1>4. /\ DOMAIN blocks' = kept
      /\ blocks'[a] = b - a
      /\ \A x \in kept : x # a => blocks'[x] = blocks[x]
  BY <1>1, <1>3
<1>5. /\ DOMAIN mem' = DOMAIN mem
      /\ mem'[a] = Pad(b - a)
      /\ \A x \in DOMAIN mem : x # a => mem'[x] = mem[x]
  BY <1>1 DEF With, IInv, Shape
<1>6. b \in kept \union {top}
  BY <1>1, <1>3
<1>7. Shape'
  <2>1. 0 \in kept \union {top}
    BY <1>3 DEF IInv, Shape
  <2>2. \A x \in kept : x \in Nat /\ x < top /\ blocks'[x] \in Nat \ {0}
    BY <1>3, <1>4 DEF IInv, Shape
  <2>3. kept \subseteq DOMAIN mem
    BY DEF IInv, Shape
  <2> QED
    BY <2>1, <2>2, <2>3, <1>2, <1>4, <1>5 DEF IInv, Shape
<1>8. Tiling'
  <2>1. \A x \in kept : x + blocks'[x] \in kept \union {top}
    <3> SUFFICES ASSUME NEW x \in kept
                 PROVE  x + blocks'[x] \in kept \union {top}
      OBVIOUS
    <3>1. CASE x = a
      BY <3>1, <1>3, <1>4, <1>6
    <3>2. CASE x < a
      <4>1. x + blocks[x] \in DOMAIN blocks \union {top} /\ x + blocks[x] <= a
        BY <3>2 DEF IInv, HeadersTile, Tiling
      <4>2. x # a /\ blocks'[x] = blocks[x]
        BY <3>2, <1>3, <1>4
      <4> QED
        BY <4>1, <4>2
    <3>3. CASE x >= b
      <4>1. x + blocks[x] \in DOMAIN blocks \union {top} /\ x + blocks[x] >= b /\ x # a
        BY <3>3, <1>3 DEF IInv, Shape, HeadersTile, Tiling
      <4> QED
        BY <4>1, <1>4
    <3>4. x \in Nat
      BY DEF IInv, Shape
    <3> QED
      BY <3>1, <3>2, <3>3, <3>4, <1>3
  <2>2. \A x, y \in kept \union {top} : x < y => x \in kept /\ x + blocks'[x] <= y
    <3> SUFFICES ASSUME NEW x \in kept \union {top}, NEW y \in kept \union {top}, x < y
                 PROVE  x \in kept /\ x + blocks'[x] <= y
      OBVIOUS
    <3>1. x \in kept /\ x + blocks[x] <= y
      <4>1. x \in DOMAIN blocks /\ x + blocks[x] <= y
        BY DEF IInv, HeadersTile, Tiling
      <4>2. x # top
        BY <4>1 DEF IInv, Shape
      <4> QED
        BY <4>1, <4>2
    <3>2. CASE x = a
      <4>1. y >= b
        BY <3>2, <1>1, <1>3 DEF IInv, Shape, HeadersTile, Tiling
      <4> QED
        BY <3>1, <3>2, <4>1, <1>3, <1>4
    <3>3. CASE x # a
      BY <3>1, <3>3, <1>4
    <3> QED
      BY <3>2, <3>3
  <2> QED
    BY <2>1, <2>2, <1>2, <1>4 DEF Tiling
<1>9. HeadersTile'
  <2>1. \A x \in kept : Skip(mem'[x]) = blocks'[x] /\ Scanned(mem'[x]) = blocks'[x]
    <3> SUFFICES ASSUME NEW x \in kept
                 PROVE  Skip(mem'[x]) = blocks'[x] /\ Scanned(mem'[x]) = blocks'[x]
      OBVIOUS
    <3>1. CASE x = a
      <4>1. Skip(Pad(b - a)) = b - a /\ Scanned(Pad(b - a)) = b - a
        BY <1>3, HeaderSizes
      <4> QED
        BY <3>1, <4>1, <1>4, <1>5
    <3>2. CASE x # a
      <4>1. mem'[x] = mem[x] /\ blocks'[x] = blocks[x]
        BY <3>2, <1>4, <1>5 DEF IInv, Shape
      <4> QED
        BY <4>1 DEF IInv, HeadersTile
    <3> QED
      BY <3>1, <3>2
  <2> QED
    BY <2>1, <1>4, <1>8 DEF HeadersTile
<1> QED
  BY <1>2, <1>7, <1>9 DEF IInv, Walking

\* Every allocation is one of ReserveKeepsIInv.
LEMMA Reservations ==
  ASSUME IInv, \/ MakeArray \/ MakeCharArray \/ MakeClosure \/ MakeEnvironment
               \/ MakeEnvironmentMap \/ MakeFunction \/ PadBuffer
  PROVE  \E size \in Nat \ {0} : \E header :
           Reserve(size, header) /\ Skip(header) = size /\ Scanned(header) = size
<1>1. CASE MakeArray
  <2>1. PICK n \in 0 .. MaxElements :
          Reserve(ALIGN(sizeofPlainArray + sizeofOop * n), Header("kPlainArray", n, 0))
    BY <1>1 DEF MakeArray
  <2>2. sizeofPlainArray + sizeofOop * n \in Nat \ {0}
    BY DEF sizeofPlainArray, sizeofOop
  <2>3. ALIGN(sizeofPlainArray + sizeofOop * n) \in Nat \ {0}
    BY <2>2, AlignIsNat
  <2>4. Skip(Header("kPlainArray", n, 0)) = ALIGN(sizeofPlainArray + sizeofOop * n) /\ Scanned(Header("kPlainArray", n, 0)) = ALIGN(sizeofPlainArray + sizeofOop * n)
    BY HeaderSizes
  <2> QED
    BY <2>1, <2>3, <2>4
<1>2. CASE MakeCharArray
  <2>1. PICK n \in 0 .. MaxElements :
          Reserve(ALIGN(sizeofCharArray + n), Header("kCharArray", n, 0))
    BY <1>2 DEF MakeCharArray
  <2>2. sizeofCharArray + n \in Nat \ {0}
    BY DEF sizeofCharArray
  <2>3. ALIGN(sizeofCharArray + n) \in Nat \ {0}
    BY <2>2, AlignIsNat
  <2>4. Skip(Header("kCharArray", n, 0)) = ALIGN(sizeofCharArray + n) /\ Scanned(Header("kCharArray", n, 0)) = ALIGN(sizeofCharArray + n)
    BY HeaderSizes
  <2> QED
    BY <2>1, <2>3, <2>4
<1>3. CASE MakeClosure
  <2>1. sizeofClosure \in Nat \ {0}
    BY DEF sizeofClosure
  <2>2. ALIGN(sizeofClosure) \in Nat \ {0}
    BY <2>1, AlignIsNat
  <2>3. Skip(Header("kClosure", 0, 0)) = ALIGN(sizeofClosure) /\ Scanned(Header("kClosure", 0, 0)) = ALIGN(sizeofClosure)
    BY HeaderSizes
  <2> QED
    BY <1>3, <2>2, <2>3 DEF MakeClosure
<1>4. CASE MakeEnvironment
  <2>1. sizeofEnvironment \in Nat \ {0}
    BY DEF sizeofEnvironment
  <2>2. ALIGN(sizeofEnvironment) \in Nat \ {0}
    BY <2>1, AlignIsNat
  <2>3. Skip(Header("kEnvironment", 0, 0)) = ALIGN(sizeofEnvironment) /\ Scanned(Header("kEnvironment", 0, 0)) = ALIGN(sizeofEnvironment)
    BY HeaderSizes
  <2> QED
    BY <1>4, <2>2, <2>3 DEF MakeEnvironment
<1>5. CASE MakeEnvironmentMap
  <2>1. PICK p \in 0 .. MaxElements, l \in 0 .. MaxElements :
          Reserve(ALIGN(sizeofEnvironmentMap + sizeofOop * (p + l)), Header("kEnvironmentMap", p, l))
    BY <1>5 DEF MakeEnvironmentMap
  <2>2. sizeofEnvironmentMap + sizeofOop * (p + l) \in Nat \ {0}
    BY DEF sizeofEnvironmentMap, sizeofOop
  <2>3. ALIGN(sizeofEnvironmentMap + sizeofOop * (p + l)) \in Nat \ {0}
    BY <2>2, AlignIsNat
  <2>4. Skip(Header("kEnvironmentMap", p, l)) = ALIGN(sizeofEnvironmentMap + sizeofOop * (p + l)) /\ Scanned(Header("kEnvironmentMap", p, l)) = ALIGN(sizeofEnvironmentMap + sizeofOop * (p + l))
    BY HeaderSizes
  <2> QED
    BY <2>1, <2>3, <2>4
<1>6. CASE MakeFunction
  <2>1. sizeofFunction \in Nat \ {0}
    BY DEF sizeofFunction
  <2> QED
    BY <1>6, <2>1, HeaderSizes DEF MakeFunction
<1>7. CASE PadBuffer
  <2>1. PICK n \in 1 .. MaxElements : Reserve(n * sizeofPad, Pad(n * sizeofPad))
    BY <1>7 DEF PadBuffer
  <2>2. n * sizeofPad \in Nat \ {0}
    BY DEF sizeofPad
  <2>3. Skip(Pad(n * sizeofPad)) = n * sizeofPad /\ Scanned(Pad(n * sizeofPad)) = n * sizeofPad
    BY <2>2, HeaderSizes
  <2> QED
    BY <2>1, <2>2, <2>3
<1> QED
  BY <1>1, <1>2, <1>3, <1>4, <1>5, <1>6, <1>7

\* The walk goes from a block to what follows it.
LEMMA WalkStepVisits ==
  ASSUME IInv, WalkStep
  PROVE  /\ base \in DOMAIN blocks
         /\ base' = base + blocks[base]
         /\ base' \in DOMAIN blocks \union {top}
<1>1. base \in DOMAIN blocks
  BY DEF WalkStep, IInv, Walking, Shape
<1>2. base' = base + blocks[base]
  BY <1>1 DEF WalkStep, IInv, HeadersTile
<1> QED
  BY <1>1, <1>2 DEF IInv, HeadersTile, Tiling

LEMMA StepInv == IInv /\ [Next]_vars => IInv'
<1> SUFFICES ASSUME IInv, [Next]_vars
             PROVE  IInv'
  OBVIOUS
<1>1. CASE \/ MakeArray \/ MakeCharArray \/ MakeClosure \/ MakeEnvironment
           \/ MakeEnvironmentMap \/ MakeFunction \/ PadBuffer
  BY <1>1, Reservations, ReserveKeepsIInv
<1>2. CASE Forward
  BY <1>2, ForwardKeepsIInv
<1>3. CASE PadDead
  BY <1>3, PadDeadKeepsIInv
<1>4. CASE StartWalk
  BY <1>4 DEF StartWalk, IInv, Shape, HeadersTile, Tiling, Walking
<1>5. CASE WalkStep
  <2>1. base' \in DOMAIN blocks \union {top}
    BY <1>5, WalkStepVisits
  <2> QED
    BY <1>5, <2>1 DEF WalkStep, IInv, Shape, HeadersTile, Tiling, Walking
<1>6. CASE EndWalk
  BY <1>6 DEF EndWalk, IInv, Shape, HeadersTile, Tiling, Walking
<1>7. CASE UNCHANGED vars
  BY <1>7 DEF vars, IInv, Shape, HeadersTile, Tiling, Walking
<1> QED
  BY <1>1, <1>2, <1>3, <1>4, <1>5, <1>6, <1>7 DEF Next

\* The inductive invariant holds in every reachable state.
THEOREM FormatInvariance == Spec => []IInv
  BY InitInv, StepInv, PTL DEF Spec

\* HeadersTile: the methods find the size of every block, whatever was reserved,
\* forwarded and padded.
THEOREM HeadersAlwaysTile == Spec => []HeadersTile
<1>1. IInv => HeadersTile
  BY DEF IInv
<1> QED
  BY <1>1, FormatInvariance, PTL

LEMMA StepRefines == IInv /\ [Next]_vars => [AreaOf!Next]_(AreaOf!vars)
<1> SUFFICES ASSUME IInv, [Next]_vars
             PROVE  AreaOf!Next \/ UNCHANGED AreaOf!vars
  OBVIOUS
<1> USE DEF AreaOf!Next, AreaOf!vars
<1>1. CASE \/ MakeArray \/ MakeCharArray \/ MakeClosure \/ MakeEnvironment
           \/ MakeEnvironmentMap \/ MakeFunction \/ PadBuffer
  <2>1. PICK size \in Nat \ {0} : \E header : Reserve(size, header)
    BY <1>1, Reservations
  <2>2. size \in 1 .. Limit - top
    BY <2>1 DEF Reserve, IInv, Shape
  <2>3. AreaOf!Grow
    BY <2>1, <2>2 DEF Reserve, With, AreaOf!Grow
  <2> QED
    BY <2>3
<1>2. CASE Forward
  BY <1>2 DEF Forward
<1>3. CASE PadDead
  <2>1. AreaOf!Merge
    BY <1>3 DEF PadDead, AreaOf!Merge
  <2> QED
    BY <2>1
<1>4. CASE StartWalk
  <2>1. AreaOf!Start
    BY <1>4 DEF StartWalk, AreaOf!Start
  <2> QED
    BY <2>1
<1>5. CASE WalkStep
  <2>1. AreaOf!Visit
    BY <1>5, WalkStepVisits DEF WalkStep, AreaOf!Visit
  <2> QED
    BY <2>1
<1>6. CASE EndWalk
  <2>1. base = top
    BY <1>6 DEF EndWalk, IInv, Walking, Shape
  <2>2. AreaOf!Finish
    BY <1>6, <2>1 DEF EndWalk, AreaOf!Finish
  <2> QED
    BY <2>2
<1>7. CASE UNCHANGED vars
  BY <1>7 DEF vars
<1> QED
  BY <1>1, <1>2, <1>3, <1>4, <1>5, <1>6, <1>7 DEF Next

\* The walks of both methods implement the abstract walk: every step of the format
\* and of the collector around it is a step of Area or changes nothing there.
THEOREM WalksImplementArea == Spec => AreaOf!Init /\ [][AreaOf!Next]_(AreaOf!vars)
<1>1. Init => AreaOf!Init
  BY DEF Init, AreaOf!Init
<1> QED
  BY <1>1, StepRefines, FormatInvariance, PTL DEF Spec

-----------------------------------------------------------------------------
(***************************************************************************)
(* Primitives.                                                             *)
(***************************************************************************)
\* The words and blocks of 16 bytes that everything is made of.
Aligned == {16 * k : k \in Nat}

Texted(what)  == what[1] = "text" /\ what[2] \in Seq(Nat \ {0})
Doubled(what) == what[1] = "double"

\* Blocks follow each other from the start of the area to its top.
Following ==
  /\ ptop \in Aligned /\ ptop <= PrimLimit
  /\ pmem = [x \in 0 .. PrimLimit - 1 |-> pmem[x]]
  /\ DOMAIN pblocks \subseteq Aligned
  /\ 0 \in DOMAIN pblocks \union {ptop}
  /\ \A a \in DOMAIN pblocks :
       /\ pblocks[a].size \in Aligned \ {0}
       /\ a + pblocks[a].size \in DOMAIN pblocks \union {ptop} /\ a + pblocks[a].size <= ptop
       /\ \A b \in DOMAIN pblocks : a < b => a + pblocks[a].size <= b

\* The header of a block, by what is in it.
PadHeader(a) ==
  pblocks[a].size = Prim!sizeofPrimDesc => Prim!m_kind(a) = Prim!kPad16

UnmovedHeader(a) ==
  \/ Doubled(pblocks[a].what) /\ Prim!m_kind(a) = Prim!kDouble
  \/ Texted(pblocks[a].what) /\ Prim!m_kind(a) = Prim!kString /\ Prim!word(a) = Len(pblocks[a].what[2])

MovedHeader(a) ==
  /\ Doubled(pblocks[a].what) \/ Texted(pblocks[a].what)
  /\ pblocks[a].moved \in Nat \ {0} /\ pblocks[a].moved < ptop
  /\ pblocks[a].moved \in DOMAIN pblocks => pblocks[pblocks[a].moved].what \in {pblocks[a].what, <<"pad">>}
  /\ ~Prim!IsLong(a) => Prim!m_kind(a) = Prim!kFwd16 /\ Prim!word(a) = pblocks[a].moved

\* The header of a block and the size of what is no pad.
PrimHead(a) ==
  /\ pblocks[a] = [size |-> pblocks[a].size, what |-> pblocks[a].what, moved |-> pblocks[a].moved]
  /\ IF Prim!IsPad(a) THEN PadHeader(a)
     ELSE IF pblocks[a].moved = 0 THEN UnmovedHeader(a) ELSE MovedHeader(a)
  /\ ~Prim!IsPad(a) /\ ~Prim!IsLong(a) => pblocks[a].size = Prim!sizeofPrimDesc

Headed == \A a \in DOMAIN pblocks : PrimHead(a)

PInv == Following /\ Headed /\ Prim!WalkStays

\* Memory was zero, and no string reaches as far as the m_str of the next primitive.
ShortTexts == OldBytes = {0} /\ \A txt \in Texts : Len(txt) <= 15

\* The chars of a short string, and 0 behind them.
NamedAt(a) ==
  Texted(pblocks[a].what) /\ pblocks[a].moved = 0 /\ ~Prim!IsLong(a) =>
    \A i \in 1 .. 7 :
      pmem[a + 8 + i] = IF i <= Len(pblocks[a].what[2]) THEN pblocks[a].what[2][i] ELSE 0

Named ==
  /\ \A x \in 0 .. PrimLimit - 1 : x >= ptop + Prim!m_str => pmem[x] = 0
  /\ \A a \in DOMAIN pblocks : NamedAt(a)

LEMMA AlignedIs ==
  /\ Aligned \subseteq Nat /\ 0 \in Aligned /\ 16 \in Aligned
  /\ \A x, y \in Aligned : x + y \in Aligned /\ (x < y => x + 16 <= y /\ y - x \in Aligned \ {0})
  /\ \A n \in Nat : Prim!ALIGN(n) \in Aligned /\ Prim!ALIGN(n) >= n
<1>1. Aligned \subseteq Nat /\ 0 \in Aligned /\ 16 \in Aligned
  <2>1. 0 = 16 * 0 /\ 16 = 16 * 1
    OBVIOUS
  <2> QED
    BY <2>1 DEF Aligned
<1>2. ASSUME NEW x \in Aligned, NEW y \in Aligned
      PROVE  x + y \in Aligned /\ (x < y => x + 16 <= y /\ y - x \in Aligned \ {0})
  <2>1. PICK j \in Nat, k \in Nat : x = 16 * j /\ y = 16 * k
    BY DEF Aligned
  <2>2. x + y = 16 * (j + k) /\ j + k \in Nat
    BY <2>1
  <2>3. ASSUME x < y PROVE x + 16 <= y /\ y - x = 16 * (k - j) /\ k - j \in Nat /\ y - x # 0
    BY <2>1, <2>3
  <2> QED
    BY <2>2, <2>3 DEF Aligned
<1>3. ASSUME NEW n \in Nat PROVE Prim!ALIGN(n) \in Aligned /\ Prim!ALIGN(n) >= n
  <2>1. Prim!ALIGN(n) = 16 * ((n + 15) \div 16) /\ (n + 15) \div 16 \in Nat /\ Prim!ALIGN(n) >= n
    BY DEF Prim!ALIGN
  <2> QED
    BY <2>1 DEF Aligned
<1> QED
  BY <1>1, <1>2, <1>3

(***************************************************************************)
(* What is stored.                                                         *)
(***************************************************************************)
Bytes(m) == m = [x \in 0 .. PrimLimit - 1 |-> m[x]]

\* m2 is m with the bytes at an address.
Stores(m, at, bytes, m2) == Bytes(m) /\ at \in Nat /\ m2 = Prim!Store(m, at, bytes)

\* The same of a byte and of a word.
StoresByte(m, at, byte, m2)  == Stores(m, at, <<byte>>, m2)
StoresWord(m, at, value, m2) == Stores(m, at, Prim!Word(value), m2)

LEMMA Stored ==
  ASSUME NEW m, NEW at, NEW bytes, NEW m2, Stores(m, at, bytes, m2)
  PROVE  /\ Bytes(m2)
         /\ \A x \in 0 .. PrimLimit - 1 :
              m2[x] = IF x \in at .. at + Len(bytes) - 1 THEN bytes[x - at + 1] ELSE m[x]
<1>1. DOMAIN m = 0 .. PrimLimit - 1
  BY DEF Bytes, Stores
<1> QED
  BY <1>1 DEF Prim!Store, Bytes, Stores

LEMMA ByteStored ==
  ASSUME NEW m, NEW at, NEW byte, NEW m2, StoresByte(m, at, byte, m2)
  PROVE  /\ Bytes(m2)
         /\ \A x \in 0 .. PrimLimit - 1 : m2[x] = IF x = at THEN byte ELSE m[x]
<1>1. Len(<<byte>>) = 1 /\ <<byte>>[1] = byte /\ at \in Nat
  BY DEF Stores, StoresByte
<1>2. \A x \in 0 .. PrimLimit - 1 : x \in at .. at + 1 - 1 <=> x = at
  BY <1>1, PrimFormatAssumption
<1>3. at - at + 1 = 1
  BY <1>1
<1>4. PICK bytes : bytes = <<byte>>
  OBVIOUS
<1>5. Stores(m, at, bytes, m2)
  BY <1>4 DEF StoresByte
<1>6. /\ Bytes(m2)
      /\ \A x \in 0 .. PrimLimit - 1 :
           m2[x] = IF x \in at .. at + Len(bytes) - 1 THEN bytes[x - at + 1] ELSE m[x]
  BY <1>5, Stored
<1> QED
  BY <1>1, <1>2, <1>3, <1>4, <1>6

\* A store that writes somewhere from an address on.
LEMMA StoredFrom ==
  ASSUME NEW m, NEW at, NEW bytes, NEW m2, Stores(m, at, bytes, m2), NEW n \in Nat, Len(bytes) = n
  PROVE  /\ Bytes(m2)
         /\ \A x \in 0 .. PrimLimit - 1 :
              /\ x < at \/ x >= at + n => m2[x] = m[x]
              /\ \A i \in 1 .. n : x = at + i - 1 => m2[x] = bytes[i]
<1>1. /\ Bytes(m2)
      /\ \A x \in 0 .. PrimLimit - 1 :
           m2[x] = IF x \in at .. at + Len(bytes) - 1 THEN bytes[x - at + 1] ELSE m[x]
  BY Stored
<1>2. \A x \in 0 .. PrimLimit - 1 :
        /\ x < at \/ x >= at + n => x \notin at .. at + n - 1
        /\ \A i \in 1 .. n : x = at + i - 1 => x \in at .. at + n - 1 /\ x - at + 1 = i
  BY PrimFormatAssumption DEF Stores
<1> QED
  BY <1>1, <1>2

LEMMA WordStored ==
  ASSUME NEW m, NEW at, NEW value, NEW m2, StoresWord(m, at, value, m2)
  PROVE  /\ Bytes(m2)
         /\ \A x \in 0 .. PrimLimit - 1 :
              /\ x = at => m2[x] = value
              /\ x < at \/ x >= at + 8 => m2[x] = m[x]
<1>1. PICK w : w = Prim!Word(value)
  OBVIOUS
<1>2. Len(w) = 8 /\ w[1] = value
  BY <1>1 DEF Prim!Word
<1>3. Stores(m, at, w, m2) /\ at \in Nat
  BY <1>1 DEF Stores, StoresWord
<1>4. /\ Bytes(m2)
      /\ \A x \in 0 .. PrimLimit - 1 :
           /\ x < at \/ x >= at + 8 => m2[x] = m[x]
           /\ x = at => m2[x] = w[1]
  <2>1. PICK n : n = 8
    OBVIOUS
  <2>2. n \in Nat /\ Len(w) = n
    BY <1>2, <2>1
  <2>3. /\ Bytes(m2)
        /\ \A x \in 0 .. PrimLimit - 1 :
             /\ x < at \/ x >= at + n => m2[x] = m[x]
             /\ \A i \in 1 .. n : x = at + i - 1 => m2[x] = w[i]
    BY <1>3, <2>2, StoredFrom
  <2>4. at = at + 1 - 1 /\ 1 \in 1 .. n
    BY <1>3, <2>1
  <2> QED
    BY <2>1, <2>3, <2>4
<1> QED
  BY <1>2, <1>4

(***************************************************************************)
(* What each action writes.                                                *)
(***************************************************************************)
LEMMA DoubleWritten ==
  ASSUME Bytes(pmem), NEW d, ptop \in Nat, ptop + 16 <= PrimLimit,
         pmem' = Prim!Store(Prim!Store(pmem, ptop + 8, <<Prim!kDouble>>), ptop, Prim!Word(d))
  PROVE  /\ Bytes(pmem') /\ pmem'[ptop + 8] = Prim!kDouble
         /\ \A x \in 0 .. PrimLimit - 1 : x \notin ptop .. ptop + 8 => pmem'[x] = pmem[x]
<1>1. PICK m, m1, m2, t :
        /\ m = pmem /\ t = ptop /\ m1 = Prim!Store(m, t + 8, <<Prim!kDouble>>)
        /\ m2 = Prim!Store(m1, t, Prim!Word(d))
  OBVIOUS
<1>2. t \in Nat /\ t + 8 \in Nat /\ Bytes(m)
  BY <1>1
<1>3. Bytes(m1) /\ \A x \in 0 .. PrimLimit - 1 : m1[x] = IF x = t + 8 THEN Prim!kDouble ELSE m[x]
  <2>1. StoresByte(m, t + 8, Prim!kDouble, m1)
    BY <1>1, <1>2 DEF Stores, StoresByte
  <2> QED
    BY <2>1, ByteStored
<1>4. Bytes(m2) /\ \A x \in 0 .. PrimLimit - 1 : x < t \/ x >= t + 8 => m2[x] = m1[x]
  <2>1. StoresWord(m1, t, d, m2)
    BY <1>1, <1>2, <1>3 DEF Stores, StoresWord
  <2> QED
    BY <2>1, WordStored
<1>5. t + 8 \in 0 .. PrimLimit - 1 /\ t + 8 >= t + 8
  BY <1>1, PrimFormatAssumption
<1>6. \A x \in 0 .. PrimLimit - 1 : x \notin t .. t + 8 => x # t + 8 /\ (x < t \/ x >= t + 8)
  BY <1>2
<1> QED
  BY <1>1, <1>3, <1>4, <1>5, <1>6

\* m_str of a string of len chars is written from the first; what does not fit goes
\* behind the PrimDesc.
LEMMA StringWritten ==
  ASSUME Bytes(pmem), NEW txt \in Seq(Nat \ {0}), ptop \in Nat, ptop + 16 <= PrimLimit,
         pmem' = Prim!Store(Prim!Store(Prim!Store(Prim!Store(pmem, ptop + 8, <<Prim!kString>>),
                                                  ptop, Prim!Word(Len(txt))),
                                       ptop + Prim!m_str, Prim!Chars(txt).inline),
                            ptop + Prim!m_str7, Prim!Chars(txt).extra)
  PROVE  /\ Bytes(pmem') /\ pmem'[ptop + 8] = Prim!kString /\ pmem'[ptop] = Len(txt)
         /\ \A x \in 0 .. PrimLimit - 1 :
              /\ x < ptop => pmem'[x] = pmem[x]
              /\ x >= ptop + 10 + Len(txt) /\ x >= ptop + 15 => pmem'[x] = pmem[x]
         /\ \A i \in 1 .. 7 : Len(txt) <= 6 =>
              pmem'[ptop + 8 + i] = IF i <= Len(txt) THEN txt[i] ELSE pmem[ptop + 8 + i]
<1> DEFINE len == Len(txt)
           n == IF len >= 6 THEN 6 ELSE len
           k == IF len > 6 THEN len - 6 ELSE 0
<1>1. PICK m, m1, m2, m3, m4, t, chars, extra :
        /\ m = pmem /\ t = ptop /\ chars = Prim!Chars(txt).inline /\ extra = Prim!Chars(txt).extra
        /\ m1 = Prim!Store(m, t + 8, <<Prim!kString>>) /\ m2 = Prim!Store(m1, t, Prim!Word(len))
        /\ m3 = Prim!Store(m2, t + 9, chars) /\ m4 = Prim!Store(m3, t + 16, extra)
  OBVIOUS
<1>2. pmem' = m4
  BY <1>1 DEF Prim!m_str, Prim!m_str7
<1>3. t \in Nat /\ t + 8 \in Nat /\ t + 9 \in Nat /\ t + 16 \in Nat /\ Bytes(m) /\ len \in Nat
  BY <1>1
<1>4. n \in Nat /\ n <= len /\ k \in Nat /\ Len(chars) = n /\ \A i \in 1 .. n : chars[i] = txt[i]
  <2>1. chars = SubSeq(txt, 1, n)
    BY <1>1 DEF Prim!Chars
  <2> QED
    BY <1>3, <2>1
<1>5. Len(extra) = k
  <2>1. CASE len > 6
    <3>1. extra = SubSeq(Append(txt, 0), 8, len + 1)
      BY <1>1, <2>1 DEF Prim!Chars
    <3>2. Append(txt, 0) \in Seq(Nat) /\ Len(Append(txt, 0)) = len + 1
      OBVIOUS
    <3>3. \A s \in Seq(Nat) : \A j \in Nat : Len(s) = j /\ j >= 8 => Len(SubSeq(s, 8, j)) = j - 7
      OBVIOUS
    <3> QED
      BY <1>3, <2>1, <3>1, <3>2, <3>3
  <2>2. CASE ~(len > 6)
    BY <1>1, <2>2 DEF Prim!Chars
  <2> QED
    BY <2>1, <2>2
<1> HIDE DEF len, n, k
<1>6. Bytes(m1) /\ \A x \in 0 .. PrimLimit - 1 : m1[x] = IF x = t + 8 THEN Prim!kString ELSE m[x]
  <2>1. StoresByte(m, t + 8, Prim!kString, m1)
    BY <1>1, <1>3 DEF Stores, StoresByte
  <2> QED
    BY <2>1, ByteStored
<1>7. /\ Bytes(m2)
      /\ \A x \in 0 .. PrimLimit - 1 : (x = t => m2[x] = len) /\ (x < t \/ x >= t + 8 => m2[x] = m1[x])
  <2>1. StoresWord(m1, t, len, m2)
    BY <1>1, <1>3, <1>6 DEF Stores, StoresWord
  <2> QED
    BY <2>1, WordStored
<1>8. /\ Bytes(m3)
      /\ \A x \in 0 .. PrimLimit - 1 :
           /\ x < t + 9 \/ x >= t + 9 + n => m3[x] = m2[x]
           /\ \A i \in 1 .. n : x = t + 9 + i - 1 => m3[x] = chars[i]
  <2>1. Stores(m2, t + 9, chars, m3)
    BY <1>1, <1>3, <1>7 DEF Stores
  <2> QED
    BY <1>4, <2>1, StoredFrom
<1>9. /\ Bytes(m4)
      /\ \A x \in 0 .. PrimLimit - 1 : x < t + 16 \/ x >= t + 16 + k => m4[x] = m3[x]
  <2>1. Stores(m3, t + 16, extra, m4)
    BY <1>1, <1>3, <1>8 DEF Stores
  <2> QED
    BY <1>4, <1>5, <2>1, StoredFrom
<1>10. t + 16 <= PrimLimit /\ PrimLimit \in Nat
  BY <1>1, PrimFormatAssumption
<1>11. m4[t + 8] = Prim!kString /\ m4[t] = len
  <2>1. t + 8 \in 0 .. PrimLimit - 1 /\ t \in 0 .. PrimLimit - 1 /\ t + 8 >= t + 8
    BY <1>3, <1>10
  <2>2. t + 8 < t + 9 /\ t < t + 9 /\ t + 8 < t + 16 /\ t < t + 16 /\ t # t + 8
    BY <1>3
  <2>3. m4[t + 8] = m3[t + 8] /\ m3[t + 8] = m2[t + 8] /\ m2[t + 8] = m1[t + 8] /\ m1[t + 8] = Prim!kString
    BY <1>6, <1>7, <1>8, <1>9, <2>1, <2>2
  <2>4. m4[t] = m3[t] /\ m3[t] = m2[t] /\ m2[t] = len
    BY <1>7, <1>8, <1>9, <2>1, <2>2
  <2> QED
    BY <2>3, <2>4
<1>12. ASSUME NEW x \in 0 .. PrimLimit - 1
       PROVE  /\ x < t => m4[x] = m[x]
              /\ x >= t + 10 + len /\ x >= t + 15 => m4[x] = m[x]
  <2>1. n <= 6 /\ (len >= 6 \/ k = 0) /\ k <= len
    BY <1>3 DEF n, k
  <2>2. k = 0 \/ t + 16 + k = t + 10 + len
    BY <1>3 DEF k
  <2> QED
    BY <1>3, <1>4, <1>6, <1>7, <1>8, <1>9, <1>10, <2>1, <2>2
<1>13. ASSUME NEW i \in 1 .. 7, len <= 6
       PROVE  m4[t + 8 + i] = IF i <= len THEN txt[i] ELSE m[t + 8 + i]
  <2>1. n = len /\ k = 0
    BY <1>3, <1>13 DEF n, k
  <2>0. i \in Nat /\ i >= 1 /\ i <= 7
    OBVIOUS
  <2>2. t + 8 + i \in 0 .. PrimLimit - 1 /\ t + 8 + i < t + 16 /\ t + 8 + i = t + 9 + i - 1
        /\ t + 8 + i >= t + 8 /\ t + 8 + i # t + 8
    BY <1>3, <1>10, <2>0
  <2>3. m4[t + 8 + i] = m3[t + 8 + i]
    BY <1>9, <2>2
  <2>4. CASE i <= len
    <3>1. i \in 1 .. n
      BY <1>3, <2>1, <2>4
    <3> QED
      BY <1>4, <1>8, <2>2, <2>3, <2>4, <3>1
  <2>5. CASE ~(i <= len)
    <3>1. t + 8 + i >= t + 9 + n
      <4>1. i >= 1 + n
        BY <1>3, <2>1, <2>5
      <4> QED
        BY <1>3, <1>4, <4>1
    <3> QED
      BY <1>6, <1>7, <1>8, <2>2, <2>3, <2>5, <3>1
  <2> QED
    BY <2>4, <2>5
<1> QED
  BY <1>1, <1>2, <1>9, <1>11, <1>12, <1>13 DEF len

\* A part of a memory as a sequence.
PartOf(m, a, size) == SubSeq([i \in 1 .. PrimLimit |-> m[i - 1]], a + 1, a + size)

LEMMA PartOfMemory ==
  ASSUME NEW m, NEW a \in Nat, NEW size \in Nat, size > 0, a + size <= PrimLimit,
         NEW copy, copy = PartOf(m, a, size)
  PROVE  Len(copy) = size /\ \A i \in 1 .. size : copy[i] = m[a + i - 1]
<1>1. PICK all, S, j, k : /\ all = [i \in 1 .. PrimLimit |-> m[i - 1]]
                          /\ S = {m[i - 1] : i \in 1 .. PrimLimit}
                          /\ j = a + 1 /\ k = a + size
  OBVIOUS
<1>2. all \in [1 .. PrimLimit -> S] /\ \A i \in 1 .. PrimLimit : all[i] = m[i - 1]
  BY <1>1
<1>3. all \in Seq(S) /\ Len(all) = PrimLimit
  <2>1. \A n \in Nat : \A f \in [1 .. n -> S] : f \in Seq(S) /\ Len(f) = n
    OBVIOUS
  <2> QED
    BY <1>2, <2>1, PrimFormatAssumption
<1>4. \A s \in Seq(S) : \A p, q \in Nat : 1 <= p /\ p <= q /\ q <= Len(s) =>
        /\ Len(SubSeq(s, p, q)) = q - p + 1
        /\ \A i \in 1 .. q - p + 1 : SubSeq(s, p, q)[i] = s[p + i - 1]
  OBVIOUS
<1>5. /\ j \in Nat /\ k \in Nat /\ 1 <= j /\ j <= k /\ k <= PrimLimit /\ k - j + 1 = size
      /\ \A i \in 1 .. size : j + i - 1 \in 1 .. PrimLimit /\ j + i - 1 - 1 = a + i - 1
  BY <1>1, PrimFormatAssumption
<1>6. Len(SubSeq(all, j, k)) = size /\ \A i \in 1 .. size : SubSeq(all, j, k)[i] = all[j + i - 1]
  BY <1>3, <1>4, <1>5
<1>7. copy = SubSeq(all, j, k)
  BY <1>1 DEF PartOf
<1>8. \A i \in 1 .. size : copy[i] = m[a + i - 1]
  <2>1. ASSUME NEW i \in 1 .. size PROVE copy[i] = m[a + i - 1]
    <3>1. j + i - 1 \in 1 .. PrimLimit /\ j + i - 1 - 1 = a + i - 1
      BY <1>5
    <3>2. copy[i] = all[j + i - 1]
      BY <1>6, <1>7
    <3>3. PICK x \in 1 .. PrimLimit : x = j + i - 1
      BY <3>1
    <3>4. x - 1 = a + i - 1 /\ all[x] = m[x - 1]
      <4>1. x - 1 = a + i - 1
        BY <1>1, <3>3
      <4>2. all[x] = m[x - 1]
        BY <1>2
      <4> QED
        BY <4>1, <4>2
    <3>5. copy[i] = all[x]
      BY <3>2, <3>3
    <3>6. PICK y : y = x - 1 /\ y = a + i - 1
      BY <3>4
    <3> QED
      BY <3>4, <3>5, <3>6
  <2> QED
    BY <2>1
<1> QED
  BY <1>6, <1>7, <1>8

LEMMA ForwardWritten ==
  ASSUME Bytes(pmem), NEW a \in Nat, NEW size \in Nat, size >= 16,
         ptop \in Nat, a + 16 <= ptop, ptop + size <= PrimLimit,
         pmem' = Prim!Fwd(Prim!Store(pmem, ptop, PartOf(pmem, a, size)), a, ptop, size)
  PROVE  /\ Bytes(pmem')
         /\ \A x \in 0 .. PrimLimit - 1 :
              x < a \/ (x >= a + 16 /\ x < ptop) \/ x >= ptop + size => pmem'[x] = pmem[x]
         /\ \A i \in 1 .. size : pmem'[ptop + i - 1] = pmem[a + i - 1]
         /\ size = 16 => pmem'[a] = ptop /\ pmem'[a + 8] = Prim!kFwd16
<1>1. PICK m, m1, m2, t, copy :
        /\ m = pmem /\ t = ptop
        /\ copy = PartOf(m, a, size)
        /\ m1 = Prim!Store(m, t, copy) /\ m2 = Prim!Fwd(m1, a, t, size)
  OBVIOUS
<1>2. pmem' = m2
  BY <1>1
<1>3. /\ PrimLimit \in Nat /\ t \in Nat /\ a + 8 \in Nat /\ a + 9 \in Nat /\ Bytes(m)
      /\ a + 16 <= t /\ t + size <= PrimLimit
  BY <1>1, PrimFormatAssumption
<1>4. Len(copy) = size /\ \A i \in 1 .. size : copy[i] = m[a + i - 1]
  <2>1. size > 0 /\ a + size <= PrimLimit
    BY <1>3
  <2> QED
    BY <1>1, <2>1, PartOfMemory
<1>5. /\ Bytes(m1)
      /\ \A x \in 0 .. PrimLimit - 1 :
           /\ x < t \/ x >= t + size => m1[x] = m[x]
           /\ \A i \in 1 .. size : x = t + i - 1 => m1[x] = copy[i]
  <2>1. Stores(m, t, copy, m1)
    BY <1>1, <1>3 DEF Stores
  <2>2. size \in Nat /\ Len(copy) = size
    BY <1>4
  <2> QED
    BY <2>1, <2>2, StoredFrom
<1>6. /\ Bytes(m2)
      /\ \A x \in 0 .. PrimLimit - 1 : x < a \/ x >= a + 16 => m2[x] = m1[x]
      /\ size = 16 => m2[a] = t /\ m2[a + 8] = Prim!kFwd16
  <2>1. CASE size = 16
    <3>1. PICK n : n = Prim!Store(m1, a + 8, <<Prim!kFwd16>>)
      OBVIOUS
    <3>2. m2 = Prim!Store(n, a, Prim!Word(t))
      BY <1>1, <2>1, <3>1 DEF Prim!Fwd, Prim!sizeofPrimDesc
    <3>3. Bytes(n) /\ \A x \in 0 .. PrimLimit - 1 : n[x] = IF x = a + 8 THEN Prim!kFwd16 ELSE m1[x]
      <4>1. StoresByte(m1, a + 8, Prim!kFwd16, n)
        BY <1>3, <1>5, <3>1 DEF Stores, StoresByte
      <4> QED
        BY <4>1, ByteStored
    <3>4. /\ Bytes(m2)
          /\ \A x \in 0 .. PrimLimit - 1 :
               (x = a => m2[x] = t) /\ (x < a \/ x >= a + 8 => m2[x] = n[x])
      <4>1. StoresWord(n, a, t, m2)
        BY <3>2, <3>3 DEF Stores, StoresWord
      <4> QED
        BY <4>1, WordStored
    <3>5. a \in 0 .. PrimLimit - 1 /\ a + 8 \in 0 .. PrimLimit - 1 /\ a + 8 >= a + 8
      BY <1>3
    <3>6. \A x \in 0 .. PrimLimit - 1 : x < a \/ x >= a + 16 => x # a + 8 /\ (x < a \/ x >= a + 8)
      BY <1>3
    <3> QED
      BY <3>3, <3>4, <3>5, <3>6
  <2>2. CASE size # 16
    <3>1. PICK n, len : n = Prim!Store(m1, a + 8, <<Prim!kFwd>>) /\ len = <<size, 0, 0, 0>>
      OBVIOUS
    <3>2. m2 = Prim!Store(n, a + 9, len)
      BY <1>1, <2>2, <3>1 DEF Prim!Fwd, Prim!sizeofPrimDesc
    <3>3. Bytes(n) /\ \A x \in 0 .. PrimLimit - 1 : n[x] = IF x = a + 8 THEN Prim!kFwd ELSE m1[x]
      <4>1. StoresByte(m1, a + 8, Prim!kFwd, n)
        BY <1>3, <1>5, <3>1 DEF Stores, StoresByte
      <4> QED
        BY <4>1, ByteStored
    <3>4. Bytes(m2) /\ \A x \in 0 .. PrimLimit - 1 : x < a + 9 \/ x >= a + 9 + 4 => m2[x] = n[x]
      <4>1. Stores(n, a + 9, len, m2)
        BY <1>3, <3>2, <3>3 DEF Stores
      <4>2. PICK k : k = 4
        OBVIOUS
      <4>3. k \in Nat /\ Len(len) = k
        BY <3>1, <4>2
      <4>4. Bytes(m2) /\ \A x \in 0 .. PrimLimit - 1 : x < a + 9 \/ x >= a + 9 + k => m2[x] = n[x]
        BY <4>1, <4>3, StoredFrom
      <4> QED
        BY <4>2, <4>4
    <3>5. \A x \in 0 .. PrimLimit - 1 : x < a \/ x >= a + 16 => x # a + 8 /\ (x < a + 9 \/ x >= a + 9 + 4)
      BY <1>3
    <3> QED
      BY <2>2, <3>3, <3>4, <3>5
  <2> QED
    BY <2>1, <2>2
<1>7. ASSUME NEW x \in 0 .. PrimLimit - 1, x < a \/ (x >= a + 16 /\ x < t) \/ x >= t + size
      PROVE  m2[x] = m[x]
  BY <1>3, <1>5, <1>6, <1>7
<1>8. ASSUME NEW i \in 1 .. size PROVE m2[t + i - 1] = m[a + i - 1]
  <2>1. t + i - 1 \in 0 .. PrimLimit - 1 /\ t + i - 1 >= a + 16
    BY <1>3
  <2> QED
    BY <1>4, <1>5, <1>6, <2>1
<1> QED
  BY <1>1, <1>2, <1>6, <1>7, <1>8

LEMMA PadWritten ==
  ASSUME Bytes(pmem), NEW a \in Nat, NEW size \in Nat, a + 16 <= PrimLimit, pmem' = Prim!Pad(a, size)
  PROVE  /\ Bytes(pmem')
         /\ \A x \in 0 .. PrimLimit - 1 : x \notin a .. a + 8 => pmem'[x] = pmem[x]
         /\ size = 16 => pmem'[a + 8] = Prim!kPad16
<1>1. PICK m, m2 : m = pmem /\ m2 = pmem'
  OBVIOUS
<1>2. PrimLimit \in Nat /\ a + 8 \in Nat /\ Bytes(m) /\ a + 8 \in 0 .. PrimLimit - 1
  BY <1>1, PrimFormatAssumption
<1>3. CASE size = 16
  <2>1. m2 = Prim!Store(m, a + 8, <<Prim!kPad16>>)
    BY <1>1, <1>3 DEF Prim!Pad, Prim!sizeofPrimDesc
  <2>2. Bytes(m2) /\ \A x \in 0 .. PrimLimit - 1 : m2[x] = IF x = a + 8 THEN Prim!kPad16 ELSE m[x]
    <3>1. StoresByte(m, a + 8, Prim!kPad16, m2)
      BY <1>2, <2>1 DEF Stores, StoresByte
    <3> QED
      BY <3>1, ByteStored
  <2>3. \A x \in 0 .. PrimLimit - 1 : x \notin a .. a + 8 => x # a + 8
    BY <1>2
  <2> QED
    BY <1>1, <1>2, <2>2, <2>3
<1>4. CASE size # 16
  <2>1. PICK n : n = Prim!Store(m, a + 8, <<Prim!kPad>>)
    OBVIOUS
  <2>2. m2 = Prim!Store(n, a, Prim!Word(size))
    BY <1>1, <1>4, <2>1 DEF Prim!Pad, Prim!sizeofPrimDesc
  <2>3. Bytes(n) /\ \A x \in 0 .. PrimLimit - 1 : n[x] = IF x = a + 8 THEN Prim!kPad ELSE m[x]
    <3>1. StoresByte(m, a + 8, Prim!kPad, n)
      BY <1>2, <2>1 DEF Stores, StoresByte
    <3> QED
      BY <3>1, ByteStored
  <2>4. Bytes(m2) /\ \A x \in 0 .. PrimLimit - 1 : x < a \/ x >= a + 8 => m2[x] = n[x]
    <3>1. StoresWord(n, a, size, m2)
      BY <2>2, <2>3 DEF Stores, StoresWord
    <3> QED
      BY <3>1, WordStored
  <2>5. \A x \in 0 .. PrimLimit - 1 : x \notin a .. a + 8 => x # a + 8 /\ (x < a \/ x >= a + 8)
    BY <1>2
  <2> QED
    BY <1>1, <1>4, <2>3, <2>4, <2>5
<1> QED
  BY <1>3, <1>4

(***************************************************************************)
(* The order of the blocks.                                                *)
(***************************************************************************)
LEMMA BlocksApart ==
  ASSUME Following
  PROVE  /\ ptop \in Nat /\ PrimLimit \in Nat /\ ptop <= PrimLimit /\ Bytes(pmem)
         /\ ptop \notin DOMAIN pblocks
         /\ \A a \in DOMAIN pblocks :
              /\ a \in Nat /\ a \in Aligned /\ a + 16 <= ptop
              /\ pblocks[a].size \in Nat /\ pblocks[a].size >= 16 /\ pblocks[a].size \in Aligned \ {0}
         /\ \A a, b \in DOMAIN pblocks : a # b => a + 16 <= b \/ b + 16 <= a
<1>1. PICK A, D, t : A = Aligned /\ D = DOMAIN pblocks /\ t = ptop
  OBVIOUS
<1>2. /\ t \in A /\ t <= PrimLimit /\ D \subseteq A /\ Bytes(pmem)
      /\ \A a \in D : pblocks[a].size \in A \ {0} /\ a + pblocks[a].size <= t
  BY <1>1 DEF Following, Bytes
<1>3. A \subseteq Nat /\ 0 \in A /\ \A x, y \in A : x < y => x + 16 <= y
  BY <1>1, AlignedIs
<1>4. ASSUME NEW a \in D
      PROVE  /\ a \in Nat /\ a \in A /\ a + 16 <= t
             /\ pblocks[a].size \in Nat /\ pblocks[a].size >= 16 /\ pblocks[a].size \in A \ {0}
  <2>1. PICK size : size = pblocks[a].size
    OBVIOUS
  <2>2. size \in A \ {0} /\ a + size <= t /\ a \in A /\ a \in Nat /\ size \in Nat /\ t \in Nat
    BY <1>2, <1>3, <2>1
  <2>3. 0 < size
    BY <2>2
  <2>4. 0 + 16 <= size
    BY <1>3, <2>2, <2>3
  <2> QED
    BY <2>1, <2>2, <2>4
<1>5. ASSUME NEW a \in D, NEW b \in D, a # b PROVE a + 16 <= b \/ b + 16 <= a
  <2>1. a \in A /\ b \in A /\ a \in Nat /\ b \in Nat
    BY <1>4
  <2>2. a < b \/ b < a
    BY <1>5, <2>1
  <2> QED
    BY <1>3, <2>1, <2>2
<1>6. t \notin D
  BY <1>4
<1> QED
  BY <1>1, <1>2, <1>3, <1>4, <1>5, <1>6, PrimFormatAssumption

\* A block added at the top.
AddsBlock(size, what) ==
  /\ size \in Aligned \ {0} /\ ptop + size <= PrimLimit /\ ptop' = ptop + size
  /\ Bytes(pmem')
  /\ DOMAIN pblocks' = DOMAIN pblocks \union {ptop}
  /\ pblocks'[ptop] = Prim!Block(size, what)
  /\ \A a \in DOMAIN pblocks : pblocks'[a].size = pblocks[a].size

LEMMA FollowingAdded ==
  ASSUME Following, NEW size, NEW what, AddsBlock(size, what)
  PROVE  Following'
<1>1. PICK A, D, D2, t, t2, size1, size2 :
        /\ A = Aligned /\ D = DOMAIN pblocks /\ D2 = DOMAIN pblocks' /\ t = ptop /\ t2 = ptop'
        /\ size1 = [a \in D |-> pblocks[a].size] /\ size2 = [a \in D2 |-> pblocks'[a].size]
  OBVIOUS
<1>2. /\ t \in A /\ D \subseteq A /\ 0 \in D \union {t}
      /\ \A a \in D : /\ size1[a] \in A \ {0} /\ a + size1[a] \in D \union {t} /\ a + size1[a] <= t
                      /\ \A b \in D : a < b => a + size1[a] <= b
  BY <1>1 DEF Following
<1>3. /\ size \in A \ {0} /\ t + size <= PrimLimit /\ t2 = t + size /\ D2 = D \union {t}
      /\ \A a \in D : size2[a] = size1[a]
      /\ size2[t] = size
  BY <1>1 DEF AddsBlock, Prim!Block
<1>4. t \notin D /\ \A a \in D : a < t
  <2>1. t \in Nat /\ \A a \in D : a \in Nat /\ a + 16 <= t
    BY <1>1, BlocksApart
  <2> QED
    BY <1>1, <2>1, BlocksApart
<1>5. A \subseteq Nat /\ \A x, y \in A : x + y \in A
  BY <1>1, AlignedIs
<1>6. t2 \in A /\ t2 <= PrimLimit /\ D2 \subseteq A /\ 0 \in D2 \union {t2} /\ t < t2
  <2>1. t \in Nat /\ size \in Nat /\ size > 0
    BY <1>2, <1>3, <1>5
  <2>2. t2 \in A
    BY <1>2, <1>3, <1>5
  <2>3. t < t2 /\ t2 <= PrimLimit
    BY <1>3, <2>1
  <2> QED
    BY <1>2, <1>3, <2>2, <2>3
<1>7. ASSUME NEW a \in D2
      PROVE  /\ size2[a] \in A \ {0} /\ a + size2[a] \in D2 \union {t2} /\ a + size2[a] <= t2
             /\ \A b \in D2 : a < b => a + size2[a] <= b
  <2>1. CASE a \in D
    <3>1. size2[a] \in A \ {0} /\ a + size2[a] \in D \union {t} /\ a + size2[a] <= t
          /\ \A b \in D : a < b => a + size2[a] <= b
      BY <1>2, <1>3, <2>1
    <3>2. a + size2[a] <= t2
      <4>1. a \in Nat /\ size2[a] \in Nat /\ t \in Nat /\ t2 \in Nat
        BY <1>2, <1>5, <1>6, <2>1, <3>1
      <4> QED
        BY <1>6, <3>1, <4>1
    <3> QED
      BY <1>3, <3>1, <3>2
  <2>2. CASE a = t
    <3>1. a + size2[a] = t2 /\ t2 \in Nat
      BY <1>3, <1>5, <1>6, <2>2
    <3>2. \A b \in D2 : ~(a < b)
      <4>1. t \in Nat /\ \A b \in D : b \in Nat
        BY <1>2, <1>5
      <4> QED
        BY <1>3, <1>4, <2>2, <4>1
    <3> QED
      BY <1>3, <2>2, <3>1, <3>2
  <2> QED
    BY <1>3, <2>1, <2>2
<1>8. Aligned' = A
  BY <1>1 DEF Aligned
<1>9. Bytes(pmem')
  BY DEF AddsBlock
<1>10. \A a \in D2 : size2[a] = pblocks'[a].size
  BY <1>1
<1> QED
  BY <1>1, <1>6, <1>7, <1>8, <1>9, <1>10 DEF Following, Bytes

(***************************************************************************)
(* What is in the headers.                                                 *)
(***************************************************************************)
\* Where a moved primitive leads to stays, and so does its header.
Keeps(a, block) ==
  /\ pblocks[a] = block /\ pblocks'[a] = block
  /\ pmem'[a] = pmem[a] /\ pmem'[a + 8] = pmem[a + 8]
  /\ block.moved \in Nat /\ block.moved < ptop =>
       /\ block.moved < ptop'
       /\ (block.moved \in DOMAIN pblocks => pblocks[block.moved].what \in {block.what, <<"pad">>}) =>
            (block.moved \in DOMAIN pblocks' => pblocks'[block.moved].what \in {block.what, <<"pad">>})

LEMMA HeadKept ==
  ASSUME NEW a, NEW block, PrimHead(a), Keeps(a, block)
  PROVE  PrimHead(a)'
<1> USE DEF Keeps
<1>1. Prim!IsPad(a)' = Prim!IsPad(a) /\ Prim!IsLong(a)' = Prim!IsLong(a)
  BY DEF Prim!IsPad, Prim!IsLong
<1>2. PadHeader(a)' = PadHeader(a) /\ UnmovedHeader(a)' = UnmovedHeader(a)
  BY DEF PadHeader, UnmovedHeader, Prim!m_kind, Prim!word, Doubled, Texted, Prim!kPad16, Prim!kDouble,
         Prim!kString, Prim!sizeofPrimDesc
<1>3. MovedHeader(a) => MovedHeader(a)'
  BY <1>1 DEF MovedHeader, Prim!m_kind, Prim!word, Doubled, Texted, Prim!kFwd16
<1> QED
  BY <1>1, <1>2, <1>3 DEF PrimHead, Prim!sizeofPrimDesc

LEMMA NoPad == \A what : Doubled(what) \/ Texted(what) => what # <<"pad">>
<1>1. <<"pad">>[1] = "pad"
  OBVIOUS
<1> QED
  BY <1>1 DEF Doubled, Texted

\* What a new block of 16 bytes holds is in its header.
Written(what) ==
  /\ Bytes(pmem')
  /\ \A x \in 0 .. PrimLimit - 1 : x < ptop => pmem'[x] = pmem[x]
  /\ \/ Doubled(what) /\ pmem'[ptop + 8] = Prim!kDouble
     \/ Texted(what) /\ pmem'[ptop + 8] = Prim!kString /\ pmem'[ptop] = Len(what[2])

LEMMA Reserved ==
  ASSUME Following, NEW what, Prim!Reserve(what), Bytes(pmem')
  PROVE  /\ AddsBlock(16, what)
         /\ \A a \in DOMAIN pblocks : pblocks'[a] = pblocks[a]
<1>1. /\ ptop + 16 <= PrimLimit /\ ptop' = ptop + 16
      /\ pblocks' = Prim!With(pblocks, ptop, Prim!Block(16, what))
  BY DEF Prim!Reserve, Prim!sizeofPrimDesc
<1>2. DOMAIN pblocks' = DOMAIN pblocks \union {ptop} /\ pblocks'[ptop] = Prim!Block(16, what)
  BY <1>1 DEF Prim!With
<1>3. \A a \in DOMAIN pblocks : a # ptop => pblocks'[a] = pblocks[a]
  BY <1>1 DEF Prim!With
<1>4. \A a \in DOMAIN pblocks : pblocks'[a] = pblocks[a]
  BY <1>3, BlocksApart
<1>5. 16 \in Aligned \ {0}
  BY AlignedIs
<1> QED
  BY <1>1, <1>2, <1>4, <1>5 DEF AddsBlock

LEMMA Made ==
  ASSUME PInv, NEW what, Prim!Reserve(what), Written(what)
  PROVE  PInv'
<1>1. Following /\ Headed /\ Bytes(pmem')
  BY DEF PInv, Written
<1>2. AddsBlock(16, what) /\ \A a \in DOMAIN pblocks : pblocks'[a] = pblocks[a]
  BY <1>1, Reserved
<1>3. Following'
  BY <1>1, <1>2, FollowingAdded
<1>4. ptop \in Nat /\ ptop' = ptop + 16 /\ ptop + 16 <= PrimLimit /\ PrimLimit \in Nat /\ ptop \notin DOMAIN pblocks
  BY <1>1, <1>2, BlocksApart DEF AddsBlock
<1>5. ASSUME NEW a \in DOMAIN pblocks PROVE PrimHead(a)'
  <2>1. a \in Nat /\ a + 16 <= ptop
    BY <1>1, BlocksApart
  <2>2. a \in 0 .. PrimLimit - 1 /\ a + 8 \in 0 .. PrimLimit - 1 /\ a < ptop /\ a + 8 < ptop
    BY <1>4, <2>1
  <2>3. pmem'[a] = pmem[a] /\ pmem'[a + 8] = pmem[a + 8]
    BY <2>2 DEF Written
  <2>4. PICK block : block = pblocks[a]
    OBVIOUS
  <2>5. block.moved \in Nat /\ block.moved < ptop => block.moved < ptop' /\ block.moved # ptop
    BY <1>4
  <2>6. Keeps(a, block)
    BY <1>2, <2>3, <2>4, <2>5 DEF Keeps, AddsBlock
  <2>7. PrimHead(a)
    BY <1>1 DEF Headed
  <2> QED
    BY <2>6, <2>7, HeadKept
<1>6. ASSUME NEW t, t = ptop PROVE PrimHead(t)'
  <2>1. PICK block : block = Prim!Block(16, what) /\ pblocks'[t] = block
    BY <1>2, <1>6 DEF AddsBlock
  <2>2. block.size = 16 /\ block.what = what /\ block.moved = 0
        /\ block = [size |-> block.size, what |-> block.what, moved |-> block.moved]
    BY <2>1 DEF Prim!Block
  <2>3. ~Prim!IsPad(t)'
    BY <2>1, <2>2, NoPad DEF Written, Prim!IsPad
  <2>4. UnmovedHeader(t)'
    BY <1>6, <2>1, <2>2 DEF Written, UnmovedHeader, Prim!m_kind, Prim!word, Doubled, Texted, Prim!kDouble, Prim!kString
  <2> QED
    BY <2>1, <2>2, <2>3, <2>4 DEF PrimHead, Prim!sizeofPrimDesc
<1>7. Headed'
  <2>1. ASSUME NEW a \in DOMAIN pblocks' PROVE PrimHead(a)'
    BY <1>2, <1>5, <1>6 DEF AddsBlock
  <2> QED
    BY <2>1 DEF Headed
<1>8. Prim!WalkStays'
  BY DEF Prim!WalkStays, Prim!OnBlock, Prim!Reserve
<1> QED
  BY <1>3, <1>7, <1>8 DEF PInv

LEMMA MakeDoubleStep == ASSUME PInv, Prim!MakeDouble PROVE PInv'
<1>1. PICK d \in Doubles :
        /\ Prim!Reserve(<<"double", d>>)
        /\ pmem' = Prim!Store(Prim!Store(pmem, ptop + 8, <<Prim!kDouble>>), ptop, Prim!Word(d))
  BY DEF Prim!MakeDouble
<1>2. PICK what : what = <<"double", d>>
  OBVIOUS
<1>3. Bytes(pmem) /\ ptop \in Nat /\ PrimLimit \in Nat /\ ptop + 16 <= PrimLimit
  BY <1>1, BlocksApart DEF PInv, Prim!Reserve, Prim!sizeofPrimDesc
<1>4. /\ Bytes(pmem') /\ pmem'[ptop + 8] = Prim!kDouble
      /\ \A x \in 0 .. PrimLimit - 1 : x \notin ptop .. ptop + 8 => pmem'[x] = pmem[x]
  BY <1>1, <1>3, DoubleWritten
<1>5. \A x \in 0 .. PrimLimit - 1 : x < ptop => x \notin ptop .. ptop + 8
  BY <1>3
<1>6. Doubled(what)
  BY <1>2 DEF Doubled
<1>7. Written(what) /\ Prim!Reserve(what)
  BY <1>1, <1>2, <1>4, <1>5, <1>6 DEF Written
<1> QED
  BY <1>7, Made

\* A text that is made, and what is written of it.
MakesText(txt) ==
  /\ txt \in Texts /\ txt \in Seq(Nat \ {0})
  /\ Prim!Reserve(<<"text", txt>>)
  /\ Bytes(pmem') /\ pmem'[ptop + 8] = Prim!kString /\ pmem'[ptop] = Len(txt)
  /\ \A x \in 0 .. PrimLimit - 1 :
       /\ x < ptop => pmem'[x] = pmem[x]
       /\ x >= ptop + 10 + Len(txt) /\ x >= ptop + 15 => pmem'[x] = pmem[x]
  /\ \A i \in 1 .. 7 : Len(txt) <= 6 =>
       pmem'[ptop + 8 + i] = IF i <= Len(txt) THEN txt[i] ELSE pmem[ptop + 8 + i]

LEMMA TextMade ==
  ASSUME Following, Prim!MakeString
  PROVE  \E txt : MakesText(txt)
<1>1. PICK txt \in Texts :
        /\ Prim!Reserve(<<"text", txt>>)
        /\ pmem' = Prim!Store(Prim!Store(Prim!Store(Prim!Store(pmem, ptop + 8, <<Prim!kString>>),
                                                    ptop, Prim!Word(Len(txt))),
                                         ptop + Prim!m_str, Prim!Chars(txt).inline),
                              ptop + Prim!m_str7, Prim!Chars(txt).extra)
  BY DEF Prim!MakeString
<1>2. Bytes(pmem) /\ ptop \in Nat /\ ptop + 16 <= PrimLimit
  BY <1>1, BlocksApart DEF Prim!Reserve, Prim!sizeofPrimDesc
<1>3. txt \in Seq(Nat \ {0})
  BY PrimFormatAssumption
<1>4. /\ Bytes(pmem') /\ pmem'[ptop + 8] = Prim!kString /\ pmem'[ptop] = Len(txt)
      /\ \A x \in 0 .. PrimLimit - 1 :
           /\ x < ptop => pmem'[x] = pmem[x]
           /\ x >= ptop + 10 + Len(txt) /\ x >= ptop + 15 => pmem'[x] = pmem[x]
      /\ \A i \in 1 .. 7 : Len(txt) <= 6 =>
           pmem'[ptop + 8 + i] = IF i <= Len(txt) THEN txt[i] ELSE pmem[ptop + 8 + i]
  BY <1>1, <1>2, <1>3, StringWritten
<1>5. MakesText(txt)
  BY <1>1, <1>3, <1>4 DEF MakesText
<1> QED
  BY <1>5

LEMMA MakeStringStep == ASSUME PInv, Prim!MakeString PROVE PInv'
<1>1. PICK txt : MakesText(txt)
  BY TextMade DEF PInv
<1>2. PICK what : what = <<"text", txt>>
  OBVIOUS
<1>3. Texted(what) /\ what[2] = txt
  BY <1>1, <1>2 DEF Texted, MakesText
<1>4. Written(what) /\ Prim!Reserve(what)
  BY <1>1, <1>2, <1>3 DEF Written, MakesText
<1> QED
  BY <1>4, Made

(***************************************************************************)
(* A fix.                                                                  *)
(***************************************************************************)
LEMMA UnmovedSize ==
  ASSUME NEW a, PrimHead(a), ~Prim!IsPad(a), pblocks[a].moved = 0
  PROVE  /\ Prim!Skip(a) \in Aligned
         /\ ~Prim!IsLong(a) => Prim!Skip(a) = 16
<1>1. UnmovedHeader(a)
  BY DEF PrimHead
<1>2. CASE Doubled(pblocks[a].what) /\ Prim!m_kind(a) = Prim!kDouble
  <2>1. Prim!Skip(a) = 16
    BY <1>2 DEF Prim!Skip, Prim!kDouble, Prim!kString, Prim!kPad16, Prim!kFwd16, Prim!kFwd, Prim!kPad, Prim!sizeofPrimDesc
  <2> QED
    BY <2>1, AlignedIs
<1>3. CASE /\ Texted(pblocks[a].what) /\ Prim!m_kind(a) = Prim!kString
           /\ Prim!word(a) = Len(pblocks[a].what[2])
  <2>1. PICK len : len = Prim!word(a)
    OBVIOUS
  <2>2. len \in Nat /\ (Prim!IsLong(a) <=> len > 6)
    BY <1>3, <2>1 DEF Texted, Prim!IsLong
  <2>3. Prim!Skip(a) = IF len > 6 THEN Prim!ALIGN(16 + len - 6) ELSE 16
    BY <1>3, <2>1, <2>2 DEF Prim!Skip, Prim!kString, Prim!kDouble, Prim!kPad16, Prim!kFwd16, Prim!kFwd, Prim!kPad,
       Prim!sizeofPrimDesc
  <2>4. CASE len > 6
    <3>1. PICK n : n = 16 + len - 6
      OBVIOUS
    <3>2. n \in Nat /\ Prim!Skip(a) = Prim!ALIGN(n)
      BY <2>2, <2>3, <2>4, <3>1
    <3> QED
      BY <2>2, <2>4, <3>2, AlignedIs
  <2>5. CASE ~(len > 6)
    BY <2>2, <2>3, <2>5, AlignedIs
  <2> QED
    BY <2>4, <2>5
<1> QED
  BY <1>1, <1>2, <1>3 DEF UnmovedHeader

\* A primitive that is copied, and what is written.
Forwards(a, size) ==
  /\ a \in DOMAIN pblocks /\ ~Prim!IsPad(a) /\ pblocks[a].moved = 0
  /\ size \in Nat /\ size >= 16 /\ size \in Aligned \ {0} /\ ptop + size <= PrimLimit
  /\ ~Prim!IsLong(a) => size = 16
  /\ pblocks' = Prim!With([pblocks EXCEPT ![a].moved = ptop], ptop, Prim!Block(size, pblocks[a].what))
  /\ ptop' = ptop + size /\ UNCHANGED <<pbase, pwalking>>
  /\ Bytes(pmem')
  /\ \A x \in 0 .. PrimLimit - 1 :
       x < a \/ (x >= a + 16 /\ x < ptop) \/ x >= ptop + size => pmem'[x] = pmem[x]
  /\ \A i \in 1 .. size : pmem'[ptop + i - 1] = pmem[a + i - 1]
  /\ size = 16 => pmem'[a] = ptop /\ pmem'[a + 8] = Prim!kFwd16

LEMMA Forwarded ==
  ASSUME Following, Headed, Prim!Forward
  PROVE  \E a, size : Forwards(a, size)
<1>1. PICK a \in DOMAIN pblocks :
        LET size == Prim!Skip(a)
            copy == SubSeq([i \in 1 .. PrimLimit |-> pmem[i - 1]], a + 1, a + size)
        IN  /\ ~Prim!IsPad(a) /\ Prim!IsFwd(a) = 0 /\ pblocks[a].moved = 0
            /\ size >= Prim!sizeofPrimDesc /\ ptop + size <= PrimLimit
            /\ pmem' = Prim!Fwd(Prim!Store(pmem, ptop, copy), a, ptop, size)
            /\ pblocks' = Prim!With([pblocks EXCEPT ![a].moved = ptop], ptop, Prim!Block(size, pblocks[a].what))
            /\ ptop' = ptop + size
            /\ UNCHANGED <<pbase, pwalking>>
  BY DEF Prim!Forward
<1>2. PICK size : size = Prim!Skip(a)
  OBVIOUS
<1>3. /\ ~Prim!IsPad(a) /\ pblocks[a].moved = 0 /\ size >= 16 /\ ptop + size <= PrimLimit
      /\ pmem' = Prim!Fwd(Prim!Store(pmem, ptop, PartOf(pmem, a, size)), a, ptop, size)
      /\ pblocks' = Prim!With([pblocks EXCEPT ![a].moved = ptop], ptop, Prim!Block(size, pblocks[a].what))
      /\ ptop' = ptop + size
      /\ UNCHANGED <<pbase, pwalking>>
  BY <1>1, <1>2 DEF PartOf, Prim!sizeofPrimDesc
<1>4. size \in Aligned /\ (~Prim!IsLong(a) => size = 16)
  BY <1>2, <1>3, UnmovedSize DEF Headed
<1>5. size \in Nat /\ size # 0
  BY <1>3, <1>4, AlignedIs
<1>6. a \in Nat /\ ptop \in Nat /\ a + 16 <= ptop /\ Bytes(pmem)
  BY BlocksApart
<1>7. /\ Bytes(pmem')
      /\ \A x \in 0 .. PrimLimit - 1 :
           x < a \/ (x >= a + 16 /\ x < ptop) \/ x >= ptop + size => pmem'[x] = pmem[x]
      /\ \A i \in 1 .. size : pmem'[ptop + i - 1] = pmem[a + i - 1]
      /\ size = 16 => pmem'[a] = ptop /\ pmem'[a + 8] = Prim!kFwd16
  BY <1>3, <1>5, <1>6, ForwardWritten
<1>8. Forwards(a, size)
  BY <1>3, <1>4, <1>5, <1>7 DEF Forwards
<1> QED
  BY <1>8

LEMMA ForwardStep == ASSUME PInv, Prim!Forward PROVE PInv'
<1>1. Following /\ Headed
  BY DEF PInv
<1>2. PICK a, size : Forwards(a, size)
  BY <1>1, Forwarded
<1>3. PICK t, t2, D, old, block : /\ t = ptop /\ t2 = ptop' /\ D = DOMAIN pblocks
                                  /\ old = pblocks[a] /\ block = Prim!Block(size, old.what)
  OBVIOUS
<1>4. /\ a \in D /\ size \in Nat /\ size >= 16 /\ t2 = t + size /\ t + size <= PrimLimit
      /\ ~Prim!IsPad(a) /\ old.moved = 0 /\ (~Prim!IsLong(a) => size = 16)
  BY <1>2, <1>3 DEF Forwards
<1>5. /\ t \in Nat /\ PrimLimit \in Nat /\ t \notin D
      /\ \A x \in D : x \in Nat /\ x + 16 <= t
      /\ \A x, y \in D : x # y => x + 16 <= y \/ y + 16 <= x
  BY <1>1, <1>3, BlocksApart
<1>6. PrimHead(a) /\ old = [size |-> old.size, what |-> old.what, moved |-> old.moved]
  BY <1>1, <1>3, <1>4 DEF Headed, PrimHead
<1>7. PICK new : new = [size |-> old.size, what |-> old.what, moved |-> t]
  OBVIOUS
<1>8. /\ DOMAIN pblocks' = D \union {t} /\ pblocks'[t] = block /\ pblocks'[a] = new
      /\ \A x \in D \ {a} : pblocks'[x] = pblocks[x]
  <2>1. PICK f : f = [pblocks EXCEPT ![a].moved = t]
    OBVIOUS
  <2>2. DOMAIN f = D /\ \A x \in D \ {a} : f[x] = pblocks[x]
    BY <1>3, <2>1
  <2>3. f[a] = new
    <3>1. f[a] = [old EXCEPT !.moved = t]
      BY <1>3, <1>4, <2>1
    <3> QED
      BY <1>6, <1>7, <3>1
  <2>4. pblocks' = Prim!With(f, t, block)
    BY <1>2, <1>3, <2>1 DEF Forwards
  <2>5. DOMAIN pblocks' = D \union {t} /\ pblocks'[t] = block /\ \A x \in D : x # t => pblocks'[x] = f[x]
    BY <2>2, <2>4 DEF Prim!With
  <2> QED
    BY <1>4, <1>5, <2>2, <2>3, <2>5
<1>9. /\ block.size = size /\ block.what = old.what /\ block.moved = 0
      /\ block = [size |-> block.size, what |-> block.what, moved |-> block.moved]
      /\ new.size = old.size /\ new.what = old.what /\ new.moved = t
      /\ new = [size |-> new.size, what |-> new.what, moved |-> new.moved]
  BY <1>3, <1>7 DEF Prim!Block
<1>10. Following'
  <2>1. AddsBlock(size, old.what)
    BY <1>2, <1>3, <1>8, <1>9 DEF AddsBlock, Forwards
  <2> QED
    BY <1>1, <2>1, FollowingAdded
<1>11. ASSUME NEW x \in D \ {a} PROVE PrimHead(x)'
  <2>1. x \in 0 .. PrimLimit - 1 /\ x + 8 \in 0 .. PrimLimit - 1 /\ x + 16 <= t
        /\ (x + 16 <= a \/ x >= a + 16) /\ a \in Nat
    <3>1. x \in Nat /\ x + 16 <= t /\ (x + 16 <= a \/ a + 16 <= x) /\ a \in Nat
      BY <1>4, <1>5
    <3> QED
      BY <1>4, <1>5, <3>1
  <2>2. (x < a \/ (x >= a + 16 /\ x < t)) /\ (x + 8 < a \/ (x + 8 >= a + 16 /\ x + 8 < t))
    BY <2>1, <1>5
  <2>3. pmem'[x] = pmem[x] /\ pmem'[x + 8] = pmem[x + 8]
    BY <1>2, <1>3, <2>1, <2>2 DEF Forwards
  <2>4. PICK other : other = pblocks[x]
    OBVIOUS
  <2>5. other.moved \in Nat /\ other.moved < t => other.moved < t2 /\ other.moved # t
    BY <1>4, <1>5
  <2>6. \A y \in D : pblocks'[y].what = pblocks[y].what
    BY <1>3, <1>8, <1>9
  <2>7. Keeps(x, other)
    BY <1>3, <1>8, <2>3, <2>4, <2>5, <2>6 DEF Keeps
  <2>8. PrimHead(x)
    BY <1>1, <1>3 DEF Headed
  <2> QED
    BY <2>7, <2>8, HeadKept
<1>12. UnmovedHeader(a)
  BY <1>3, <1>4, <1>6 DEF PrimHead
<1>13. Doubled(old.what) \/ Texted(old.what)
  BY <1>3, <1>12 DEF UnmovedHeader
<1>14. PrimHead(a)'
  <2>1. ~Prim!IsPad(a)' /\ (Prim!IsLong(a)' <=> Prim!IsLong(a))
    BY <1>3, <1>4, <1>8, <1>9 DEF Prim!IsPad, Prim!IsLong
  <2>2. ~Prim!IsLong(a) => pmem'[a] = t /\ pmem'[a + 8] = Prim!kFwd16
    BY <1>2, <1>3, <1>4 DEF Forwards
  <2>3. t \in Nat \ {0} /\ t < t2
    BY <1>4, <1>5
  <2>4. MovedHeader(a)'
    BY <1>3, <1>8, <1>9, <1>13, <2>1, <2>2, <2>3 DEF MovedHeader, Prim!m_kind, Prim!word, Prim!kFwd16,
       Doubled, Texted
  <2>5. pblocks'[a].moved # 0
    BY <1>8, <1>9, <2>3
  <2>6. ~Prim!IsLong(a) => old.size = 16
    BY <1>3, <1>4, <1>6 DEF PrimHead, Prim!sizeofPrimDesc
  <2> QED
    BY <1>8, <1>9, <2>1, <2>4, <2>5, <2>6 DEF PrimHead, Prim!sizeofPrimDesc
<1>15. PrimHead(t)'
  <2>1. pmem'[t] = pmem[a] /\ pmem'[t + 8] = pmem[a + 8]
    <3>1. /\ 1 \in 1 .. size /\ 9 \in 1 .. size /\ a \in Nat
          /\ t + 1 - 1 = t /\ a + 1 - 1 = a /\ t + 9 - 1 = t + 8 /\ a + 9 - 1 = a + 8
      BY <1>4, <1>5
    <3>2. PICK i, j : i = 1 /\ j = 9
      OBVIOUS
    <3>3. pmem'[t + i - 1] = pmem[a + i - 1] /\ pmem'[t + j - 1] = pmem[a + j - 1]
      BY <1>2, <1>3, <3>1, <3>2 DEF Forwards
    <3> QED
      BY <3>1, <3>2, <3>3
  <2>2. ~Prim!IsPad(t)' /\ (Prim!IsLong(t)' <=> Prim!IsLong(a))
    BY <1>3, <1>4, <1>8, <1>9 DEF Prim!IsPad, Prim!IsLong
  <2>3. UnmovedHeader(t)'
    BY <1>3, <1>8, <1>9, <1>12, <2>1 DEF UnmovedHeader, Prim!m_kind, Prim!word, Doubled, Texted, Prim!kDouble,
       Prim!kString
  <2> QED
    BY <1>4, <1>8, <1>9, <2>2, <2>3 DEF PrimHead, Prim!sizeofPrimDesc
<1>16. Headed'
  <2>1. ASSUME NEW x \in DOMAIN pblocks' PROVE PrimHead(x)'
    BY <1>8, <1>11, <1>14, <1>15
  <2> QED
    BY <2>1 DEF Headed
<1>17. Prim!WalkStays'
  <2>1. \A x \in D : pblocks'[x].what = pblocks[x].what /\ pblocks'[x].size = pblocks[x].size
    BY <1>3, <1>8, <1>9
  <2>2. Prim!NoLongString' => Prim!NoLongString
    BY <1>3, <1>8, <2>1 DEF Prim!NoLongString, Prim!IsLong
  <2>3. Prim!NoLongPad' => Prim!NoLongPad
    BY <1>3, <1>8, <2>1 DEF Prim!NoLongPad, Prim!IsPad, Prim!sizeofPrimDesc
  <2>4. Prim!OnBlock => Prim!OnBlock'
    BY <1>2, <1>3, <1>8 DEF Prim!OnBlock, Forwards
  <2> QED
    BY <2>2, <2>3, <2>4 DEF PInv, Prim!WalkStays
<1> QED
  BY <1>10, <1>16, <1>17 DEF PInv

(***************************************************************************)
(* Padding.                                                                *)
(***************************************************************************)
\* The blocks from a up to b are given up.
GivesUp(a, b) ==
  /\ a \in DOMAIN pblocks /\ b \in DOMAIN pblocks \union {ptop} /\ a < b
  /\ ~pwalking /\ UNCHANGED <<ptop, pbase, pwalking>>
  /\ Bytes(pmem')
  /\ \A x \in 0 .. PrimLimit - 1 : x \notin a .. a + 8 => pmem'[x] = pmem[x]
  /\ b - a = 16 => pmem'[a + 8] = Prim!kPad16
  /\ DOMAIN pblocks' = {x \in DOMAIN pblocks : x < a \/ x >= b} \union {a}
  /\ pblocks'[a] = Prim!Block(b - a, <<"pad">>)
  /\ \A x \in DOMAIN pblocks' \ {a} : pblocks'[x] = pblocks[x]

LEMMA GivenUp ==
  ASSUME Following, Prim!PadDead
  PROVE  \E a, b : GivesUp(a, b)
<1>1. PICK a \in DOMAIN pblocks, b \in DOMAIN pblocks \union {ptop} :
        /\ a < b
        /\ pmem' = Prim!Pad(a, b - a)
        /\ pblocks' = Prim!With([x \in {y \in DOMAIN pblocks : y < a \/ y >= b} |-> pblocks[x]],
                                a, Prim!Block(b - a, <<"pad">>))
  BY DEF Prim!PadDead
<1>2. ~pwalking /\ UNCHANGED <<ptop, pbase, pwalking>>
  BY DEF Prim!PadDead
<1>3. /\ a \in Nat /\ b \in Nat /\ a + 16 <= ptop /\ ptop \in Nat /\ PrimLimit \in Nat /\ ptop <= PrimLimit
      /\ Bytes(pmem)
  BY BlocksApart
<1>4. b - a \in Nat /\ a + 16 <= PrimLimit
  BY <1>1, <1>3
<1>5. /\ Bytes(pmem')
      /\ \A x \in 0 .. PrimLimit - 1 : x \notin a .. a + 8 => pmem'[x] = pmem[x]
      /\ b - a = 16 => pmem'[a + 8] = Prim!kPad16
  <2>1. PICK size : size = b - a
    OBVIOUS
  <2>2. size \in Nat /\ pmem' = Prim!Pad(a, size)
    BY <1>1, <1>4, <2>1
  <2> QED
    BY <1>3, <1>4, <2>1, <2>2, PadWritten
<1>6. /\ DOMAIN pblocks' = {x \in DOMAIN pblocks : x < a \/ x >= b} \union {a}
      /\ pblocks'[a] = Prim!Block(b - a, <<"pad">>)
      /\ \A x \in DOMAIN pblocks' \ {a} : pblocks'[x] = pblocks[x]
  <2>1. PICK f, K : K = {x \in DOMAIN pblocks : x < a \/ x >= b} /\ f = [x \in K |-> pblocks[x]]
    OBVIOUS
  <2>2. DOMAIN f = K /\ \A x \in K : f[x] = pblocks[x]
    BY <2>1
  <2>3. pblocks' = Prim!With(f, a, Prim!Block(b - a, <<"pad">>))
    BY <1>1, <2>1
  <2> QED
    BY <2>1, <2>2, <2>3 DEF Prim!With
<1>7. GivesUp(a, b)
  BY <1>1, <1>2, <1>5, <1>6 DEF GivesUp
<1> QED
  BY <1>7

LEMMA FollowingPadded ==
  ASSUME Following, NEW a, NEW b, GivesUp(a, b)
  PROVE  Following'
<1>1. PICK A, D, D2, t, size1, size2 :
        /\ A = Aligned /\ D = DOMAIN pblocks /\ D2 = DOMAIN pblocks' /\ t = ptop
        /\ size1 = [x \in D |-> pblocks[x].size] /\ size2 = [x \in D2 |-> pblocks'[x].size]
  OBVIOUS
<1>2. /\ t \in A /\ D \subseteq A /\ 0 \in D \union {t} /\ t <= PrimLimit
      /\ \A x \in D : /\ size1[x] \in A \ {0} /\ x + size1[x] \in D \union {t} /\ x + size1[x] <= t
                      /\ \A y \in D : x < y => x + size1[x] <= y
  BY <1>1 DEF Following
<1>3. /\ a \in D /\ b \in D \union {t} /\ a < b
      /\ D2 = {x \in D : x < a \/ x >= b} \union {a}
      /\ \A x \in D2 \ {a} : size2[x] = size1[x]
      /\ size2[a] = b - a
      /\ ptop' = t
  BY <1>1 DEF GivesUp, Prim!Block
<1>4. /\ A \subseteq Nat /\ (\A x, y \in A : x < y => y - x \in A \ {0})
      /\ t \in Nat /\ \A x \in D : x \in Nat /\ size1[x] \in Nat /\ x < t
  <2>1. A \subseteq Nat /\ \A x, y \in A : x < y => y - x \in A \ {0}
    BY <1>1, AlignedIs
  <2>2. \A x \in D : x \in Nat /\ x + 16 <= t /\ t \in Nat /\ size1[x] \in Nat
    BY <1>1, BlocksApart
  <2> QED
    BY <1>1, <2>1, <2>2, BlocksApart
<1>5. a \in Nat /\ b \in Nat /\ b <= t /\ a < t
  BY <1>3, <1>4
<1>6. D2 \subseteq A /\ 0 \in D2 \union {t}
  <2>1. 0 \in D => 0 = a \/ 0 < a
    BY <1>5
  <2>2. 0 # t
    BY <1>5
  <2> QED
    BY <1>2, <1>3, <2>1, <2>2
<1>7. ASSUME NEW x \in D2
      PROVE  /\ size2[x] \in A \ {0} /\ x + size2[x] \in D2 \union {t} /\ x + size2[x] <= t
             /\ \A y \in D2 : x < y => x + size2[x] <= y
  <2>1. CASE x = a
    <3>1. size2[x] = b - a /\ a + (b - a) = b /\ x + size2[x] = b
      BY <1>3, <1>5, <2>1
    <3>2. size2[x] \in A \ {0}
      BY <1>2, <1>3, <1>4, <3>1
    <3>3. b \in D2 \union {t}
      BY <1>3, <1>5
    <3>4. \A y \in D2 : a < y => y >= b
      BY <1>3, <1>4, <1>5
    <3> QED
      BY <1>4, <1>5, <2>1, <3>1, <3>2, <3>3, <3>4
  <2>2. CASE x # a
    <3>1. PICK e : e = x + size2[x]
      OBVIOUS
    <3>2. /\ x \in D /\ (x < a \/ x >= b) /\ size2[x] \in A \ {0} /\ e \in D \union {t} /\ e <= t
          /\ \A y \in D : x < y => e <= y
      BY <1>2, <1>3, <2>2, <3>1
    <3>3. e \in Nat /\ x \in Nat /\ x < e
      <4>1. size2[x] \in Nat /\ size2[x] # 0 /\ x \in Nat
        BY <1>4, <3>2
      <4> QED
        BY <3>1, <4>1
    <3>4. e = t \/ e = a \/ e < a \/ e >= b
      <4>1. CASE x < a
        <5>1. e <= a
          BY <1>3, <3>2, <4>1
        <5> QED
          BY <1>5, <3>3, <5>1
      <4>2. CASE x >= b
        BY <1>5, <3>3, <4>2
      <4> QED
        BY <3>2, <4>1, <4>2
    <3>5. e \in D2 \union {t}
      BY <1>3, <3>2, <3>4
    <3>6. D2 \subseteq D
      BY <1>3
    <3> QED
      BY <3>1, <3>2, <3>5, <3>6
  <2> QED
    BY <2>1, <2>2
<1>8. Aligned' = A
  BY <1>1 DEF Aligned
<1>9. Bytes(pmem')
  BY DEF GivesUp
<1>10. \A x \in D2 : size2[x] = pblocks'[x].size
  BY <1>1
<1> QED
  BY <1>1, <1>2, <1>3, <1>6, <1>7, <1>8, <1>9, <1>10 DEF Following, Bytes

LEMMA PadStep == ASSUME PInv, Prim!PadDead PROVE PInv'
<1>1. Following /\ Headed
  BY DEF PInv
<1>2. PICK a, b : GivesUp(a, b)
  BY <1>1, GivenUp
<1>3. Following'
  BY <1>1, <1>2, FollowingPadded
<1>4. PICK D2, block : D2 = DOMAIN pblocks' /\ block = Prim!Block(b - a, <<"pad">>)
  OBVIOUS
<1>5. /\ a \in DOMAIN pblocks /\ D2 \subseteq DOMAIN pblocks
      /\ pblocks'[a] = block /\ \A x \in D2 \ {a} : pblocks'[x] = pblocks[x]
  BY <1>2, <1>4 DEF GivesUp
<1>6. /\ block.size = b - a /\ block.what = <<"pad">> /\ block.moved = 0
      /\ block = [size |-> block.size, what |-> block.what, moved |-> block.moved]
  BY <1>4 DEF Prim!Block
<1>7. ASSUME NEW x \in D2 \ {a} PROVE PrimHead(x)'
  <2>1. /\ x \in Nat /\ x + 16 <= ptop /\ (x + 16 <= a \/ a + 16 <= x) /\ a \in Nat
        /\ ptop \in Nat /\ PrimLimit \in Nat /\ ptop <= PrimLimit
    BY <1>1, <1>5, BlocksApart
  <2>2. x \in 0 .. PrimLimit - 1 /\ x + 8 \in 0 .. PrimLimit - 1 /\ x \notin a .. a + 8 /\ x + 8 \notin a .. a + 8
    BY <2>1
  <2>3. pmem'[x] = pmem[x] /\ pmem'[x + 8] = pmem[x + 8]
    BY <1>2, <2>2 DEF GivesUp
  <2>4. PICK other : other = pblocks[x]
    OBVIOUS
  <2>5. \A y \in D2 : y # a => pblocks'[y].what = pblocks[y].what
    BY <1>5
  <2>6. Keeps(x, other)
    BY <1>2, <1>4, <1>5, <1>6, <2>3, <2>4, <2>5 DEF Keeps, GivesUp
  <2>7. PrimHead(x)
    BY <1>1, <1>5 DEF Headed
  <2> QED
    BY <2>6, <2>7, HeadKept
<1>8. PrimHead(a)'
  <2>1. Prim!IsPad(a)'
    BY <1>5, <1>6 DEF Prim!IsPad
  <2>2. PadHeader(a)'
    BY <1>2, <1>5, <1>6 DEF PadHeader, GivesUp, Prim!m_kind, Prim!kPad16, Prim!sizeofPrimDesc
  <2> QED
    BY <1>5, <1>6, <2>1, <2>2 DEF PrimHead
<1>9. Headed'
  <2>1. ASSUME NEW x \in DOMAIN pblocks' PROVE PrimHead(x)'
    BY <1>4, <1>7, <1>8
  <2> QED
    BY <2>1 DEF Headed
<1>10. Prim!WalkStays'
  BY <1>2 DEF GivesUp, Prim!WalkStays, Prim!OnBlock
<1> QED
  BY <1>3, <1>9, <1>10 DEF PInv

(***************************************************************************)
(* Walks.                                                                  *)
(***************************************************************************)
\* Where no string and no pad is long, the header of each block says 16 bytes.
LEMMA ShortSkip ==
  ASSUME Headed, NEW a \in DOMAIN pblocks, Prim!NoLongString, Prim!NoLongPad
  PROVE  pblocks[a].size = 16 /\ Prim!Skip(a) = 16
<1> USE DEF Prim!kDouble, Prim!kString, Prim!kPad16, Prim!kFwd16, Prim!kFwd, Prim!kPad, Prim!sizeofPrimDesc
<1>1. PrimHead(a) /\ ~Prim!IsLong(a)
  BY DEF Headed, Prim!NoLongString
<1>2. CASE Prim!IsPad(a)
  <2>1. pblocks[a].size = 16
    BY <1>2 DEF Prim!NoLongPad
  <2>2. Prim!m_kind(a) = 3
    BY <1>1, <1>2, <2>1 DEF PrimHead, PadHeader
  <2> QED
    BY <2>1, <2>2 DEF Prim!Skip
<1>3. CASE ~Prim!IsPad(a) /\ pblocks[a].moved = 0
  BY <1>1, <1>3, UnmovedSize DEF PrimHead
<1>4. CASE ~Prim!IsPad(a) /\ pblocks[a].moved # 0
  <2>1. pblocks[a].size = 16 /\ Prim!m_kind(a) = 5
    BY <1>1, <1>4 DEF PrimHead, MovedHeader
  <2> QED
    BY <2>1 DEF Prim!Skip
<1> QED
  BY <1>2, <1>3, <1>4

LEMMA WalkSteps ==
  ASSUME PInv, Prim!StartWalk \/ Prim!WalkStep \/ Prim!EndWalk
  PROVE  PInv'
<1>1. UNCHANGED <<pmem, pblocks, ptop>>
  BY DEF Prim!StartWalk, Prim!WalkStep, Prim!EndWalk
<1>2. Following /\ Headed /\ Prim!WalkStays
  BY DEF PInv
<1>3. Following'
  BY <1>1, <1>2 DEF Following, Aligned
<1>4. Headed'
  BY <1>1, <1>2 DEF Headed, PrimHead, PadHeader, UnmovedHeader, MovedHeader, Prim!IsPad, Prim!IsLong,
     Prim!m_kind, Prim!word, Doubled, Texted, Prim!kDouble, Prim!kString, Prim!kPad16, Prim!kFwd16,
     Prim!sizeofPrimDesc
<1>5. Prim!NoLongString' = Prim!NoLongString /\ Prim!NoLongPad' = Prim!NoLongPad
  BY <1>1 DEF Prim!NoLongString, Prim!NoLongPad, Prim!IsLong, Prim!IsPad, Prim!sizeofPrimDesc
<1>6. Prim!WalkStays'
  <2>1. CASE Prim!StartWalk
    BY <1>1, <1>2, <2>1 DEF Prim!StartWalk, Prim!WalkStays, Prim!OnBlock, Following
  <2>2. CASE Prim!WalkStep
    <3>1. SUFFICES ASSUME Prim!NoLongString, Prim!NoLongPad PROVE Prim!OnBlock'
      BY <1>5 DEF Prim!WalkStays
    <3>2. pbase \in DOMAIN pblocks /\ pbase' = pbase + Prim!Skip(pbase)
      <4>1. pwalking /\ pbase < ptop /\ pbase' = pbase + Prim!Skip(pbase)
        BY <2>2 DEF Prim!WalkStep
      <4>2. pbase \in DOMAIN pblocks \union {ptop} /\ ptop \in Nat
        BY <1>2, <3>1, <4>1, BlocksApart DEF Prim!WalkStays, Prim!OnBlock
      <4> QED
        BY <4>1, <4>2
    <3>3. Prim!Skip(pbase) = pblocks[pbase].size
      BY <1>2, <3>1, <3>2, ShortSkip
    <3>4. pbase' \in DOMAIN pblocks \union {ptop}
      BY <1>2, <3>2, <3>3 DEF Following
    <3> QED
      BY <1>1, <3>4 DEF Prim!OnBlock
  <2>3. CASE Prim!EndWalk
    BY <2>3 DEF Prim!EndWalk, Prim!WalkStays, Prim!OnBlock
  <2> QED
    BY <2>1, <2>2, <2>3
<1> QED
  BY <1>3, <1>4, <1>6 DEF PInv

LEMMA PrimInit == Prim!Init => PInv
<1> SUFFICES ASSUME Prim!Init PROVE PInv
  OBVIOUS
<1>1. PICK byte : pmem = [a \in 0 .. PrimLimit - 1 |-> byte]
  BY DEF Prim!Init
<1>2. DOMAIN pblocks = {} /\ ptop = 0 /\ pbase = 0 /\ pwalking = FALSE
  BY DEF Prim!Init
<1>3. Following
  <2>1. pmem = [x \in 0 .. PrimLimit - 1 |-> pmem[x]]
    BY <1>1
  <2> QED
    BY <1>2, <2>1, AlignedIs, PrimFormatAssumption DEF Following
<1>4. Headed /\ Prim!WalkStays
  BY <1>2 DEF Headed, Prim!WalkStays, Prim!OnBlock
<1> QED
  BY <1>3, <1>4 DEF PInv

LEMMA PrimUnchanged == PInv /\ UNCHANGED pvars => PInv'
<1> SUFFICES ASSUME PInv, UNCHANGED pvars PROVE PInv'
  OBVIOUS
<1>1. UNCHANGED <<pmem, pblocks, ptop, pbase, pwalking>>
  BY DEF pvars
<1>2. Following'
  BY <1>1 DEF PInv, Following, Aligned
<1>3. Headed'
  BY <1>1 DEF PInv, Headed, PrimHead, PadHeader, UnmovedHeader, MovedHeader, Prim!IsPad, Prim!IsLong,
     Prim!m_kind, Prim!word, Doubled, Texted, Prim!kDouble, Prim!kString, Prim!kPad16, Prim!kFwd16,
     Prim!sizeofPrimDesc
<1>4. Prim!WalkStays'
  BY <1>1 DEF PInv, Prim!WalkStays, Prim!OnBlock, Prim!NoLongString, Prim!NoLongPad, Prim!IsLong, Prim!IsPad,
     Prim!sizeofPrimDesc
<1> QED
  BY <1>2, <1>3, <1>4 DEF PInv

LEMMA PrimSteps == PInv /\ [MCNext]_<<pool, vars, pvars>> => PInv'
<1> SUFFICES ASSUME PInv, [MCNext]_<<pool, vars, pvars>> PROVE PInv'
  OBVIOUS
<1>1. CASE Prim!Next
  <2>1. CASE Prim!MakeDouble
    BY <2>1, MakeDoubleStep
  <2>2. CASE Prim!MakeString
    BY <2>2, MakeStringStep
  <2>3. CASE Prim!Forward
    BY <2>3, ForwardStep
  <2>4. CASE Prim!PadDead
    BY <2>4, PadStep
  <2>5. CASE Prim!StartWalk \/ Prim!WalkStep \/ Prim!EndWalk
    BY <2>5, WalkSteps
  <2> QED
    BY <1>1, <2>1, <2>2, <2>3, <2>4, <2>5 DEF Prim!Next
<1>2. CASE UNCHANGED pvars
  BY <1>2, PrimUnchanged
<1> QED
  BY <1>1, <1>2 DEF MCNext

\* In every behaviour blocks follow each other, each header says what its block holds or
\* where it went, and walks of short primitives stay on blocks.
THEOREM PrimInvariance == MCSpec => []PInv
<1>1. MCInit => PInv
  BY PrimInit DEF MCInit
<1> QED
  BY <1>1, PrimSteps, PTL DEF MCSpec

\* isfwd leads from a moved primitive of 16 bytes to its copy and denies all others.
THEOREM ForwardsAlwaysLead == MCSpec => []ForwardsLead
<1>1. PInv => ForwardsLead
  <2> USE DEF Prim!kDouble, Prim!kString, Prim!kPad16, Prim!kFwd16, Prim!kFwd
  <2>1. SUFFICES ASSUME PInv, NEW a \in DOMAIN pblocks, ~Prim!IsPad(a), ~Prim!IsLong(a)
                 PROVE  /\ Prim!IsFwd(a) = pblocks[a].moved
                        /\ Prim!IsFwd(a) \in DOMAIN pblocks \ {0} =>
                             pblocks[Prim!IsFwd(a)].what \in {pblocks[a].what, <<"pad">>}
    BY DEF ForwardsLead, Prim!ForwardsLead
  <2>2. PrimHead(a)
    BY <2>1 DEF PInv, Headed
  <2>3. CASE pblocks[a].moved = 0
    <3>1. UnmovedHeader(a)
      BY <2>1, <2>2, <2>3 DEF PrimHead
    <3>2. Prim!m_kind(a) = 2 \/ Prim!m_kind(a) = 0
      BY <3>1 DEF UnmovedHeader
    <3>3. Prim!IsFwd(a) = 0
      BY <3>2 DEF Prim!IsFwd
    <3> QED
      BY <2>3, <3>3
  <2>4. CASE pblocks[a].moved # 0
    <3>1. MovedHeader(a)
      BY <2>1, <2>2, <2>4 DEF PrimHead
    <3>2. Prim!m_kind(a) = 5 /\ Prim!word(a) = pblocks[a].moved
      BY <2>1, <3>1 DEF MovedHeader
    <3>3. Prim!IsFwd(a) = pblocks[a].moved
      BY <3>2 DEF Prim!IsFwd
    <3> QED
      BY <3>1, <3>3 DEF MovedHeader
  <2> QED
    BY <2>3, <2>4
<1> QED
  BY <1>1, PrimInvariance, PTL

\* A walk of short primitives and pads of 16 bytes stays on blocks.
THEOREM WalksAlwaysStay == MCSpec => []WalkStays
<1>1. PInv => WalkStays
  BY DEF PInv, WalkStays
<1> QED
  BY <1>1, PrimInvariance, PTL

(***************************************************************************)
(* Names.                                                                  *)
(***************************************************************************)
LEMMA NameKept ==
  ASSUME NEW a, NamedAt(a), pblocks'[a] = pblocks[a], \A i \in 1 .. 7 : pmem'[a + 8 + i] = pmem[a + 8 + i]
  PROVE  NamedAt(a)'
  BY DEF NamedAt, Texted, Prim!IsLong

\* The bytes of a block are below the top.
LEMMA NameBelow ==
  ASSUME Following, NEW a \in DOMAIN pblocks, NEW i \in 1 .. 7
  PROVE  a + 8 + i \in 0 .. PrimLimit - 1 /\ a + 8 + i < ptop /\ a + 8 + i >= a + 9 /\ a + 8 + i < a + 16
<1>1. a \in Nat /\ a + 16 <= ptop /\ ptop \in Nat /\ PrimLimit \in Nat /\ ptop <= PrimLimit
  BY BlocksApart
<1>2. i \in Nat /\ i >= 1 /\ i <= 7
  OBVIOUS
<1> QED
  BY <1>1, <1>2

LEMMA DoubleNamed == ASSUME PInv, Named, Prim!MakeDouble PROVE Named'
<1>1. PICK d \in Doubles :
        /\ Prim!Reserve(<<"double", d>>)
        /\ pmem' = Prim!Store(Prim!Store(pmem, ptop + 8, <<Prim!kDouble>>), ptop, Prim!Word(d))
  BY DEF Prim!MakeDouble
<1>2. PICK what, t : what = <<"double", d>> /\ t = ptop
  OBVIOUS
<1>3. Following /\ Bytes(pmem) /\ ptop \in Nat /\ PrimLimit \in Nat /\ ptop + 16 <= PrimLimit
  BY <1>1, BlocksApart DEF PInv, Prim!Reserve, Prim!sizeofPrimDesc
<1>4. Bytes(pmem') /\ \A x \in 0 .. PrimLimit - 1 : x \notin ptop .. ptop + 8 => pmem'[x] = pmem[x]
  BY <1>1, <1>3, DoubleWritten
<1>5. AddsBlock(16, what) /\ \A a \in DOMAIN pblocks : pblocks'[a] = pblocks[a]
  <2>1. Prim!Reserve(what)
    BY <1>1, <1>2
  <2> QED
    BY <1>3, <1>4, <2>1, Reserved
<1>6. ASSUME NEW x \in 0 .. PrimLimit - 1, x >= ptop' + Prim!m_str PROVE pmem'[x] = 0
  <2>1. x >= ptop + Prim!m_str /\ x \notin ptop .. ptop + 8
    BY <1>3, <1>5, <1>6 DEF AddsBlock, Prim!m_str
  <2> QED
    BY <1>4, <2>1 DEF Named
<1>7. ASSUME NEW a \in DOMAIN pblocks PROVE NamedAt(a)'
  <2>1. ASSUME NEW i \in 1 .. 7 PROVE pmem'[a + 8 + i] = pmem[a + 8 + i]
    <3>1. a + 8 + i \in 0 .. PrimLimit - 1 /\ a + 8 + i < ptop
      BY <1>3, NameBelow
    <3>2. a + 8 + i \notin ptop .. ptop + 8
      BY <1>3, <3>1
    <3> QED
      BY <1>4, <3>1, <3>2
  <2>2. NamedAt(a)
    BY DEF Named
  <2> QED
    BY <1>5, <2>1, <2>2, NameKept
<1>8. NamedAt(t)'
  <2>1. pblocks'[t].what = what
    BY <1>2, <1>5 DEF AddsBlock, Prim!Block
  <2> QED
    BY <1>2, <2>1 DEF NamedAt, Texted
<1>9. ASSUME NEW a \in DOMAIN pblocks' PROVE NamedAt(a)'
  BY <1>2, <1>5, <1>7, <1>8 DEF AddsBlock
<1> QED
  BY <1>6, <1>9 DEF Named, Prim!m_str

LEMMA TextNamed == ASSUME ShortTexts, PInv, Named, Prim!MakeString PROVE Named'
<1>1. PICK txt : MakesText(txt)
  BY TextMade DEF PInv
<1>2. PICK what, t : what = <<"text", txt>> /\ t = ptop
  OBVIOUS
<1>3. Following /\ Bytes(pmem) /\ ptop \in Nat /\ PrimLimit \in Nat /\ ptop + 16 <= PrimLimit
  BY <1>1, BlocksApart DEF PInv, MakesText, Prim!Reserve, Prim!sizeofPrimDesc
<1>4. Len(txt) \in Nat /\ Len(txt) <= 15
  BY <1>1 DEF MakesText, ShortTexts
<1>5. AddsBlock(16, what) /\ \A a \in DOMAIN pblocks : pblocks'[a] = pblocks[a]
  <2>1. Prim!Reserve(what) /\ Bytes(pmem')
    BY <1>1, <1>2 DEF MakesText
  <2> QED
    BY <1>3, <2>1, Reserved
<1>6. ASSUME NEW x \in 0 .. PrimLimit - 1, x >= ptop' + Prim!m_str PROVE pmem'[x] = 0
  <2>1. x >= ptop + Prim!m_str /\ x >= ptop + 10 + Len(txt) /\ x >= ptop + 15
    BY <1>3, <1>4, <1>5, <1>6 DEF AddsBlock, Prim!m_str
  <2> QED
    BY <1>1, <2>1 DEF Named, MakesText
<1>7. ASSUME NEW a \in DOMAIN pblocks PROVE NamedAt(a)'
  <2>1. ASSUME NEW i \in 1 .. 7 PROVE pmem'[a + 8 + i] = pmem[a + 8 + i]
    <3>1. a + 8 + i \in 0 .. PrimLimit - 1 /\ a + 8 + i < ptop
      BY <1>3, NameBelow
    <3> QED
      BY <1>1, <3>1 DEF MakesText
  <2>2. NamedAt(a)
    BY DEF Named
  <2> QED
    BY <1>5, <2>1, <2>2, NameKept
<1>8. NamedAt(t)'
  <2>1. pblocks'[t].what = what /\ what[2] = txt /\ what[1] = "text"
    BY <1>2, <1>5 DEF AddsBlock, Prim!Block
  <2>2. SUFFICES ASSUME Len(txt) <= 6, NEW i \in 1 .. 7
                 PROVE  pmem'[t + 8 + i] = IF i <= Len(txt) THEN txt[i] ELSE 0
    BY <1>4, <2>1 DEF NamedAt, Prim!IsLong
  <2>3. pmem'[t + 8 + i] = IF i <= Len(txt) THEN txt[i] ELSE pmem[t + 8 + i]
    BY <1>1, <1>2, <2>2 DEF MakesText
  <2>4. t + 8 + i \in 0 .. PrimLimit - 1 /\ t + 8 + i >= t + 9
    <3>1. i \in Nat /\ i >= 1 /\ i <= 7 /\ t \in Nat /\ t + 16 <= PrimLimit /\ PrimLimit \in Nat
      BY <1>2, <1>3
    <3> QED
      BY <3>1
  <2>5. pmem[t + 8 + i] = 0
    BY <1>2, <2>4 DEF Named, Prim!m_str
  <2> QED
    BY <2>3, <2>5
<1>9. ASSUME NEW a \in DOMAIN pblocks' PROVE NamedAt(a)'
  BY <1>2, <1>5, <1>7, <1>8 DEF AddsBlock
<1> QED
  BY <1>6, <1>9 DEF Named, Prim!m_str

LEMMA ForwardNamed == ASSUME PInv, Named, Prim!Forward PROVE Named'
<1>1. Following /\ Headed
  BY DEF PInv
<1>2. PICK a, size : Forwards(a, size)
  BY <1>1, Forwarded
<1>3. PICK t, D, what : t = ptop /\ D = DOMAIN pblocks /\ what = pblocks[a].what
  OBVIOUS
<1>4. /\ a \in D /\ size \in Nat /\ size >= 16 /\ ptop' = t + size /\ t + size <= PrimLimit
      /\ t \in Nat /\ PrimLimit \in Nat /\ t \notin D /\ a \in Nat /\ a + 16 <= t
      /\ pblocks[a].moved = 0 /\ (~Prim!IsLong(a) => size = 16)
  BY <1>1, <1>2, <1>3, BlocksApart DEF Forwards
<1>5. /\ DOMAIN pblocks' = D \union {t} /\ pblocks'[t].what = what
      /\ \A x \in D \ {a} : pblocks'[x] = pblocks[x]
      /\ pblocks'[a].moved = t
  <2>1. PICK f : f = [pblocks EXCEPT ![a].moved = t]
    OBVIOUS
  <2>2. DOMAIN f = D /\ \A x \in D \ {a} : f[x] = pblocks[x]
    BY <1>3, <2>1
  <2>3. f[a].moved = t
    <3>1. PICK old : old = pblocks[a]
      OBVIOUS
    <3>2. old = [size |-> old.size, what |-> old.what, moved |-> old.moved]
      BY <1>1, <1>3, <1>4, <3>1 DEF Headed, PrimHead
    <3>3. f[a] = [old EXCEPT !.moved = t]
      BY <1>3, <1>4, <2>1, <3>1
    <3> QED
      BY <3>2, <3>3
  <2>4. pblocks' = Prim!With(f, t, Prim!Block(size, what))
    BY <1>2, <1>3, <2>1 DEF Forwards
  <2>5. DOMAIN pblocks' = D \union {t} /\ pblocks'[t] = Prim!Block(size, what)
        /\ \A x \in D : x # t => pblocks'[x] = f[x]
    BY <2>2, <2>4 DEF Prim!With
  <2>6. pblocks'[t].what = what
    BY <2>5 DEF Prim!Block
  <2> QED
    BY <1>4, <2>2, <2>3, <2>5, <2>6
<1>6. ASSUME NEW x \in 0 .. PrimLimit - 1, x >= ptop' + Prim!m_str PROVE pmem'[x] = 0
  <2>1. x >= ptop + Prim!m_str /\ x >= ptop + size
    BY <1>3, <1>4, <1>6 DEF Prim!m_str
  <2> QED
    BY <1>2, <2>1 DEF Named, Forwards
<1>7. ASSUME NEW x \in D \ {a} PROVE NamedAt(x)'
  <2>1. ASSUME NEW i \in 1 .. 7 PROVE pmem'[x + 8 + i] = pmem[x + 8 + i]
    <3>1. x + 8 + i \in 0 .. PrimLimit - 1 /\ x + 8 + i < ptop /\ x + 8 + i >= x + 9 /\ x + 8 + i < x + 16
      BY <1>1, <1>3, NameBelow
    <3>2. x + 16 <= a \/ a + 16 <= x
      BY <1>1, <1>3, <1>4, BlocksApart
    <3>3. PICK y : y = x + 8 + i
      OBVIOUS
    <3>4. y < a \/ (y >= a + 16 /\ y < ptop)
      <4>1. x \in Nat
        BY <1>1, <1>3, BlocksApart
      <4> QED
        BY <1>4, <3>1, <3>2, <3>3, <4>1
    <3>5. pmem'[y] = pmem[y]
      BY <1>2, <3>1, <3>3, <3>4 DEF Forwards
    <3> QED
      BY <3>3, <3>5
  <2>2. NamedAt(x)
    BY <1>3 DEF Named
  <2> QED
    BY <1>5, <2>1, <2>2, NameKept
<1>8. NamedAt(a)'
  <2>1. pblocks'[a].moved # 0
    BY <1>4, <1>5
  <2> QED
    BY <2>1 DEF NamedAt
<1>9. NamedAt(t)'
  <2>1. SUFFICES ASSUME Texted(what), ~(what[1] = "text" /\ Len(what[2]) > 6), NEW i \in 1 .. 7
                 PROVE  pmem'[t + 8 + i] = IF i <= Len(what[2]) THEN what[2][i] ELSE 0
    BY <1>5 DEF NamedAt, Prim!IsLong, Texted
  <2>2. ~Prim!IsLong(a)
    BY <1>3, <2>1 DEF Prim!IsLong
  <2>3. pmem[a + 8 + i] = IF i <= Len(what[2]) THEN what[2][i] ELSE 0
    <3>1. NamedAt(a)
      BY <1>3, <1>4 DEF Named
    <3> QED
      BY <1>3, <1>4, <2>1, <2>2, <3>1 DEF NamedAt
  <2>4. pmem'[t + 8 + i] = pmem[a + 8 + i]
    <3>1. PICK j : j = i + 9
      OBVIOUS
    <3>2. i \in Nat /\ i <= 7 /\ i >= 1 /\ size = 16
      BY <1>4, <2>2
    <3>3. j \in 1 .. size /\ t + j - 1 = t + 8 + i /\ a + j - 1 = a + 8 + i
      BY <1>4, <3>1, <3>2
    <3>4. pmem'[t + j - 1] = pmem[a + j - 1]
      BY <1>2, <1>3, <3>3 DEF Forwards
    <3> QED
      BY <3>3, <3>4
  <2> QED
    BY <2>3, <2>4
<1>10. ASSUME NEW x \in DOMAIN pblocks' PROVE NamedAt(x)'
  BY <1>5, <1>7, <1>8, <1>9
<1> QED
  BY <1>6, <1>10 DEF Named, Prim!m_str

LEMMA PadNamed == ASSUME PInv, Named, Prim!PadDead PROVE Named'
<1>1. Following
  BY DEF PInv
<1>2. PICK a, b : GivesUp(a, b)
  BY <1>1, GivenUp
<1>3. /\ a \in DOMAIN pblocks /\ a \in Nat /\ a + 16 <= ptop /\ ptop \in Nat /\ ptop' = ptop
      /\ PrimLimit \in Nat
  BY <1>1, <1>2, BlocksApart DEF GivesUp
<1>4. ASSUME NEW x \in 0 .. PrimLimit - 1, x >= ptop' + Prim!m_str PROVE pmem'[x] = 0
  <2>1. x >= ptop + Prim!m_str /\ x \notin a .. a + 8
    BY <1>3, <1>4 DEF Prim!m_str
  <2> QED
    BY <1>2, <2>1 DEF Named, GivesUp
<1>5. ASSUME NEW x \in DOMAIN pblocks', x # a PROVE NamedAt(x)'
  <2>1. x \in DOMAIN pblocks /\ pblocks'[x] = pblocks[x]
    BY <1>2, <1>5 DEF GivesUp
  <2>2. ASSUME NEW i \in 1 .. 7 PROVE pmem'[x + 8 + i] = pmem[x + 8 + i]
    <3>1. x + 8 + i \in 0 .. PrimLimit - 1 /\ x + 8 + i >= x + 9 /\ x + 8 + i < x + 16
      BY <1>1, <2>1, NameBelow
    <3>2. (x + 16 <= a \/ a + 16 <= x) /\ x \in Nat
      BY <1>1, <1>3, <1>5, <2>1, BlocksApart
    <3>3. PICK y : y = x + 8 + i
      OBVIOUS
    <3>4. y \notin a .. a + 8
      BY <1>3, <3>1, <3>2, <3>3
    <3>5. pmem'[y] = pmem[y]
      BY <1>2, <3>1, <3>3, <3>4 DEF GivesUp
    <3> QED
      BY <3>3, <3>5
  <2>3. NamedAt(x)
    BY <2>1 DEF Named
  <2> QED
    BY <2>1, <2>2, <2>3, NameKept
<1>6. NamedAt(a)'
  <2>1. pblocks'[a].what = <<"pad">>
    BY <1>2 DEF GivesUp, Prim!Block
  <2>2. ~Texted(<<"pad">>)
    BY NoPad
  <2> QED
    BY <2>1, <2>2 DEF NamedAt, Texted
<1>7. ASSUME NEW x \in DOMAIN pblocks' PROVE NamedAt(x)'
  BY <1>5, <1>6
<1> QED
  BY <1>4, <1>7 DEF Named, Prim!m_str

LEMMA SameNamed == ASSUME Named, UNCHANGED <<pmem, pblocks, ptop>> PROVE Named'
  BY DEF Named, NamedAt, Texted, Prim!IsLong, Prim!m_str

LEMMA NamedSteps == ShortTexts /\ PInv /\ Named /\ [MCNext]_<<pool, vars, pvars>> => Named'
<1> SUFFICES ASSUME ShortTexts, PInv, Named, [MCNext]_<<pool, vars, pvars>> PROVE Named'
  OBVIOUS
<1>1. CASE Prim!Next
  <2>1. CASE Prim!MakeDouble
    BY <2>1, DoubleNamed
  <2>2. CASE Prim!MakeString
    BY <2>2, TextNamed
  <2>3. CASE Prim!Forward
    BY <2>3, ForwardNamed
  <2>4. CASE Prim!PadDead
    BY <2>4, PadNamed
  <2>5. CASE Prim!StartWalk \/ Prim!WalkStep \/ Prim!EndWalk
    BY <2>5, SameNamed DEF Prim!StartWalk, Prim!WalkStep, Prim!EndWalk
  <2> QED
    BY <1>1, <2>1, <2>2, <2>3, <2>4, <2>5 DEF Prim!Next
<1>2. CASE UNCHANGED pvars
  BY <1>2, SameNamed DEF pvars
<1> QED
  BY <1>1, <1>2 DEF MCNext

\* The first char that is 0 of a short string is the one behind its last.
LEMMA ShortRead ==
  ASSUME PInv, Named, NEW a \in Prim!Strings, Len(pblocks[a].what[2]) <= 6
  PROVE  Prim!CString(a) = pblocks[a].what[2]
<1>1. PICK m, txt, len : m = pmem /\ txt = pblocks[a].what[2] /\ len = Len(txt)
  OBVIOUS
<1>2. a \in DOMAIN pblocks /\ pblocks[a].what[1] = "text" /\ pblocks[a].moved = 0
  BY DEF Prim!Strings
<1>3. txt \in Seq(Nat \ {0})
  <2>1. PrimHead(a)
    BY <1>2 DEF PInv, Headed
  <2>2. ~Prim!IsPad(a)
    <3>1. <<"pad">>[1] = "pad"
      OBVIOUS
    <3> QED
      BY <1>2, <3>1 DEF Prim!IsPad
  <2>3. UnmovedHeader(a)
    BY <1>2, <2>1, <2>2 DEF PrimHead
  <2> QED
    BY <1>1, <1>2, <2>3 DEF UnmovedHeader, Texted, Doubled
<1>4. len \in Nat /\ len <= 6 /\ \A i \in 1 .. len : txt[i] \in Nat \ {0}
  BY <1>1, <1>3
<1>5. a \in Nat /\ a + 16 <= PrimLimit /\ PrimLimit \in Nat
  <2>1. a \in Nat /\ a + 16 <= ptop /\ ptop \in Nat /\ ptop <= PrimLimit /\ PrimLimit \in Nat
    BY <1>2, BlocksApart DEF PInv
  <2> QED
    BY <2>1
<1>6. \A i \in 1 .. 7 : m[a + 8 + i] = IF i <= len THEN txt[i] ELSE 0
  <2>1. NamedAt(a) /\ Texted(pblocks[a].what) /\ ~Prim!IsLong(a)
    BY <1>1, <1>2, <1>3, <1>4 DEF Named, Texted, Prim!IsLong
  <2> QED
    BY <1>1, <1>2, <2>1 DEF NamedAt
<1>7. PICK end, Ends : /\ end = a + 9 + len
                       /\ Ends = {b \in a + Prim!m_str .. PrimLimit : b = PrimLimit \/ m[b] = 0}
  OBVIOUS
<1>8. end \in Ends
  <2>1. PICK i : i = len + 1
    OBVIOUS
  <2>2. i \in 1 .. 7 /\ ~(i <= len) /\ a + 8 + i = end /\ end \in a + 9 .. PrimLimit
    BY <1>4, <1>5, <1>7, <2>1
  <2>3. m[end] = 0
    BY <1>6, <2>2
  <2> QED
    BY <1>7, <2>2, <2>3 DEF Prim!m_str
<1>9. \A b \in Ends : b \in Nat /\ end <= b
  <2>1. SUFFICES ASSUME NEW b \in a + 9 .. PrimLimit, b < end PROVE m[b] # 0 /\ b # PrimLimit
    BY <1>4, <1>5, <1>7 DEF Prim!m_str
  <2>2. PICK i : i = b - a - 8
    OBVIOUS
  <2>3. i \in 1 .. 7 /\ i \in 1 .. len /\ i <= len /\ a + 8 + i = b /\ b # PrimLimit
    BY <1>4, <1>5, <1>7, <2>1, <2>2
  <2>4. m[b] = txt[i]
    BY <1>6, <2>3
  <2> QED
    BY <1>4, <2>3, <2>4
<1>10. Prim!Min(Ends) = end
  <2>1. \A e \in Ends : (\A b \in Ends : e <= b) => e = end
    BY <1>8, <1>9
  <2> QED
    BY <1>8, <1>9, <2>1 DEF Prim!Min
<1>11. Prim!CString(a) = [i \in 1 .. len |-> m[a + 9 + i - 1]]
  <2>1. end - a - 9 = len
    BY <1>4, <1>5, <1>7
  <2> QED
    BY <1>1, <1>7, <1>10, <2>1 DEF Prim!CString, Prim!m_str
<1>12. ASSUME NEW i \in 1 .. len PROVE m[a + 9 + i - 1] = txt[i]
  <2>1. i \in 1 .. 7 /\ i <= len /\ a + 9 + i - 1 = a + 8 + i
    BY <1>4, <1>5
  <2> QED
    BY <1>6, <2>1
<1>13. txt = [i \in 1 .. len |-> txt[i]]
  BY <1>1, <1>3
<1> QED
  BY <1>1, <1>11, <1>12, <1>13

\* Where memory was zero and no string has more than fifteen chars, each unmoved string
\* of up to six is read back as itself.
THEOREM ShortNamesAlwaysRead == ShortTexts => (MCSpec => []ShortNamesRead)
<1> SUFFICES ASSUME ShortTexts PROVE MCSpec => []ShortNamesRead
  OBVIOUS
<1>1. MCInit => Named
  <2> SUFFICES ASSUME MCInit PROVE Named
    OBVIOUS
  <2>1. pmem = [a \in 0 .. PrimLimit - 1 |-> 0] /\ DOMAIN pblocks = {}
    BY DEF MCInit, Prim!Init, ShortTexts
  <2> QED
    BY <2>1 DEF Named
<1>2. PInv /\ Named /\ [MCNext]_<<pool, vars, pvars>> => Named'
  BY NamedSteps
<1>3. PInv /\ Named => ShortNamesRead
  BY ShortRead DEF ShortNamesRead, Prim!ShortNamesRead
<1> QED
  BY <1>1, <1>2, <1>3, PrimInvariance, PTL DEF MCSpec
=============================================================================
