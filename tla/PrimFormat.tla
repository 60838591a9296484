----------------------------- MODULE PrimFormat -----------------------------
(***************************************************************************)
(* Heap-allocated primitives byte by byte: PrimDesc (Object.h), what       *)
(* makeDouble and makeString write (ObjectMemory.cc), and the format       *)
(* methods of PrimDesc (MPS.cc).                                           *)
(*                                                                         *)
(* A PrimDesc has a word that is a double, a length or an address (8 bytes,*)
(* of which the lowest is used here), the kind, and seven bytes that are   *)
(* m_str or m_fwdLength.  Longer strings go on behind them.                *)
(*                                                                         *)
(* The Memory Pool System (external) reserves blocks one after the other   *)
(* and does not clear them, copies blocks, and pads those it gives up.     *)
(***************************************************************************)
EXTENDS Integers, Sequences, FiniteSetsExt

CONSTANTS
  Limit,       \* bound: the bytes of the area, below 256
  Texts,       \* bound: the strings made, sequences of chars that are not 0
  Doubles,     \* bound: the doubles made
  OldBytes     \* what memory may hold before it is reserved

VARIABLES
  mem,       \* address -> byte
  blocks,    \* history: address -> [size reserved, what : text, double or pad, moved : its copy or 0]
  top,       \* the end of the last block
  base,      \* the walk's base
  walking

vars == <<mem, blocks, top, base, walking>>

\* enum PrimDesc::Kind.
kString == 0
kDouble == 2
kPad16  == 3
kPad    == 4
kFwd16  == 5
kFwd    == 6

sizeofPrimDesc == 16
ALIGN(size)    == ((size + 15) \div 16) * 16

\* The members of the PrimDesc at an address.
word(a)        == mem[a]                    \* m_dbl, m_strLen, m_padLen, m_fwd
m_kind(a)      == mem[a + 8]
m_fwdLength(a) == mem[a + 9]
m_str          == 9
m_str7         == m_str + 7

Store(m, at, bytes) ==
  [a \in DOMAIN m |-> IF a \in at .. at + Len(bytes) - 1 THEN bytes[a - at + 1] ELSE m[a]]

Word(value) == <<value, 0, 0, 0, 0, 0, 0, 0>>

-----------------------------------------------------------------------------
(***************************************************************************)
(* The format methods.                                                     *)
(***************************************************************************)
\* Mutant: a forwarded primitive is skipped by the length of a longer one.
SkipOfFwdLength(a) ==
  IF m_kind(a) \in {kFwd16, kFwd} THEN m_fwdLength(a) ELSE sizeofPrimDesc

\* mpsSkip: the bytes it skips; none for what is no kind.
Skip(a) ==
  CASE m_kind(a) = kString /\ word(a) > 6        -> ALIGN(sizeofPrimDesc + word(a) - 6)
    [] m_kind(a) = kString /\ word(a) <= 6       -> sizeofPrimDesc
    [] m_kind(a) \in {kDouble, kPad16, kFwd16}   -> sizeofPrimDesc
    [] m_kind(a) = kPad                          -> ALIGN(sizeofPrimDesc + word(a))
    [] m_kind(a) = kFwd                          -> m_fwdLength(a)
    [] OTHER                                     -> 0

\* Mutant: the new address is where the string was.
FwdIntoStr(m, old, new, size) == Store(Store(m, old + 8, <<kFwd16>>), old + m_str, <<new>>)

\* mpsFwd, in a memory.
Fwd(m, old, new, size) ==
  IF size = sizeofPrimDesc THEN Store(Store(m, old + 8, <<kFwd16>>), old, Word(new))
  ELSE Store(Store(m, old + 8, <<kFwd>>), old + 9, <<size, 0, 0, 0>>)

IsFwd(a) == IF m_kind(a) \in {kFwd, kFwd16} THEN word(a) ELSE 0

\* mpsPad.
Pad(a, size) ==
  IF size = sizeofPrimDesc THEN Store(mem, a + 8, <<kPad16>>)
  ELSE Store(Store(mem, a + 8, <<kPad>>), a, Word(size))

-----------------------------------------------------------------------------
(***************************************************************************)
(* Allocation: both makers reserve the size of a PrimDesc.                 *)
(***************************************************************************)
With(f, a, v) == [x \in DOMAIN f \union {a} |-> IF x = a THEN v ELSE f[x]]

Block(size, what) == [size |-> size, what |-> what, moved |-> 0]

Reserve(what) ==
  /\ ~walking /\ top + sizeofPrimDesc <= Limit
  /\ blocks' = With(blocks, top, Block(sizeofPrimDesc, what))
  /\ top' = top + sizeofPrimDesc
  /\ UNCHANGED <<base, walking>>

MakeDouble ==
  \E d \in Doubles :
    /\ Reserve(<<"double", d>>)
    /\ mem' = Store(Store(mem, top + 8, <<kDouble>>), top, Word(d))

\* Mutant: one char fewer is copied.
CharsWithoutLast(txt) ==
  [inline |-> SubSeq(txt, 1, IF Len(txt) >= 6 THEN 5 ELSE Len(txt)), extra |-> <<>>]

\* The chars of a string that makeString copies, to m_str and to m_str + 7.
Chars(txt) ==
  LET len == Len(txt)
  IN  [inline |-> SubSeq(txt, 1, IF len >= 6 THEN 6 ELSE len),
       extra  |-> IF len > 6 THEN SubSeq(Append(txt, 0), 8, len + 1) ELSE <<>>]

MakeString ==
  \E txt \in Texts :
    /\ Reserve(<<"text", txt>>)
    /\ mem' = Store(Store(Store(Store(mem, top + 8, <<kString>>), top, Word(Len(txt))),
                          top + m_str, Chars(txt).inline),
                    top + m_str7, Chars(txt).extra)

-----------------------------------------------------------------------------
(***************************************************************************)
(* The collector's calls.                                                  *)
(***************************************************************************)
IsPad(a) == blocks[a].what = <<"pad">>

\* A fix of a reference to a block: a copy as long as it is skipped, and mpsFwd.  It
\* asserts a size; while a walk is under way as well.
Forward ==
  \E a \in DOMAIN blocks :
    LET size == Skip(a)
        copy == SubSeq([i \in 1 .. Limit |-> mem[i - 1]], a + 1, a + size)
    IN  /\ ~IsPad(a) /\ IsFwd(a) = 0 /\ blocks[a].moved = 0
        /\ size >= sizeofPrimDesc /\ top + size <= Limit
        /\ mem' = Fwd(Store(mem, top, copy), a, top, size)
        /\ blocks' = With([blocks EXCEPT ![a].moved = top], top, Block(size, blocks[a].what))
        /\ top' = top + size
        /\ UNCHANGED <<base, walking>>

\* Blocks up to b are given up.
PadDead ==
  /\ ~walking
  /\ \E a \in DOMAIN blocks : \E b \in DOMAIN blocks \union {top} :
       /\ a < b
       /\ mem' = Pad(a, b - a)
       /\ blocks' = With([x \in {y \in DOMAIN blocks : y < a \/ y >= b} |-> blocks[x]],
                         a, Block(b - a, <<"pad">>))
  /\ UNCHANGED <<top, base, walking>>

StartWalk == ~walking /\ walking' = TRUE /\ base' = 0 /\ UNCHANGED <<mem, blocks, top>>

\* mpsScan: while (base < limit) base = mpsSkip(base).
WalkStep ==
  /\ walking /\ base < top
  /\ base' = base + Skip(base)
  /\ UNCHANGED <<mem, blocks, top, walking>>

EndWalk == walking /\ base >= top /\ walking' = FALSE /\ UNCHANGED <<mem, blocks, top, base>>

Init ==
  /\ \E byte \in OldBytes : mem = [a \in 0 .. Limit - 1 |-> byte]
  /\ blocks = [a \in {} |-> 0]
  /\ top = 0 /\ base = 0 /\ walking = FALSE

Next == MakeDouble \/ MakeString \/ Forward \/ PadDead \/ StartWalk \/ WalkStep \/ EndWalk

Spec == Init /\ [][Next]_vars

-----------------------------------------------------------------------------
(***************************************************************************)
(* Properties.                                                             *)
(***************************************************************************)
Strings      == {a \in DOMAIN blocks : blocks[a].what[1] = "text" /\ blocks[a].moved = 0}
IsLong(a)    == blocks[a].what[1] = "text" /\ Len(blocks[a].what[2]) > 6
NoLongString == \A a \in DOMAIN blocks : ~IsLong(a)
NoLongPad    == \A a \in DOMAIN blocks : IsPad(a) => blocks[a].size = sizeofPrimDesc

\* m_str as strcmp reads it.
CString(a) ==
  LET end == Min({b \in a + m_str .. Limit : b = Limit \/ mem[b] = 0})
  IN  [i \in 1 .. end - a - m_str |-> mem[a + m_str + i - 1]]

OnBlock == walking => base \in DOMAIN blocks \union {top}

\* Where memory was zero, a string of up to six chars is read back as itself, whatever
\* is made and moved around it, the chars of longer strings behind their blocks included.
\* From sixteen chars on those reach the m_str of the next block: Texts has none so long.
ShortNamesRead ==
  \A a \in Strings : Len(blocks[a].what[2]) <= 6 => CString(a) = blocks[a].what[2]

\* isfwd leads from each primitive of 16 bytes that was moved to its copy, which holds
\* what the primitive held, and denies all others: no length, double or char is taken
\* for an address.
ForwardsLead ==
  \A a \in DOMAIN blocks :
    ~IsPad(a) /\ ~IsLong(a) =>
      /\ IsFwd(a) = blocks[a].moved
      /\ IsFwd(a) \in DOMAIN blocks \ {0} =>
           blocks[IsFwd(a)].what \in {blocks[a].what, <<"pad">>}

\* A walk of doubles, strings of up to six chars, their forwarded remains and pads of
\* 16 bytes stays on blocks.
WalkStays == NoLongString /\ NoLongPad => OnBlock
=============================================================================
