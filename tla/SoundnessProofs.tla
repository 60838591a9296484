-------------------------- MODULE SoundnessProofs --------------------------
(***************************************************************************)
(* That the compiler keeps its contract with the interpreter, for every    *)
(* tree.  An encoder's code is followed as it is emitted: depth, of which  *)
(* there is one for each position, is a witness that it is sound as far as *)
(* it goes, but for the jumps that are still open (Coded).  The items of   *)
(* todo need as many operands as are there when they are come to and leave *)
(* as many as the next one needs (Flow).  When a function ends nothing of  *)
(* it is left to be visited, so no jump is open; and the depths that       *)
(* DepthOf finds are those of the witness (SoundIfDepth).                  *)
(*                                                                         *)
(* First come facts about code alone, then the types of the variables, and *)
(* then the steps of the generator.                                        *)
(***************************************************************************)
EXTENDS BytecodeGenProofs

\* What holds of 0 and of n + 1 if of n holds of all numbers: there is no least exception.
LEMMA NoException ==
  ASSUME NEW T, T \subseteq Nat, 0 \notin T, \A n \in Nat : n + 1 \in T => n \in T
  PROVE  T = {}
<1>1. SUFFICES ASSUME T # {} PROVE FALSE
  OBVIOUS
<1>2. PICK x \in T : \A y \in T : x <= y
  BY <1>1, Least
<1>3. x \in Nat /\ x # 0
  BY <1>2
<1>4. x - 1 \in Nat /\ (x - 1) + 1 = x /\ ~(x <= x - 1)
  BY <1>3
<1> QED
  BY <1>2, <1>4

LEMMA AppendLen == ASSUME NEW s, IsSeq(s), NEW e PROVE Len(Append(s, e)) = Len(s) + 1
<1> DEFINE S == {s[i] : i \in DOMAIN s} \union {e}
<1>1. s \in Seq(S) /\ e \in S
  BY SeqFacts
<1> HIDE DEF S
<1> QED
  BY <1>1

LEMMA ConcatAfter ==
  ASSUME NEW s, IsSeq(s), NEW t, IsSeq(t)
  PROVE  \A i \in 1 .. Len(t) : (s \o t)[Len(s) + i] = t[i]
<1> DEFINE S == {s[i] : i \in DOMAIN s} \union {t[i] : i \in DOMAIN t}
<1>1. s \in Seq(S) /\ t \in Seq(S)
  <2>1. (\A i \in DOMAIN s : s[i] \in S) /\ (\A i \in DOMAIN t : t[i] \in S)
    OBVIOUS
  <2> HIDE DEF S
  <2> QED
    BY <2>1, SeqFacts
<1> HIDE DEF S
<1> QED
  BY <1>1

-----------------------------------------------------------------------------
(***************************************************************************)
(* The depths a walk of the code finds are those of every assignment of    *)
(* depths that is sound, where control comes.                              *)
(***************************************************************************)
Before(code, i, depth) ==
  {j \in 1 .. i - 1 :
     /\ depth[j] >= 0
     /\ code[j] \in Ops
     /\ j + Size(code[j]) - 1 <= Len(code)
     /\ i \in Successors(code, j)}

DepthAt(code, i, depth) ==
  IF i = 1 THEN 0
  ELSE IF Before(code, i, depth) = {} THEN -1
  ELSE LET j == CHOOSE k \in Before(code, i, depth) : TRUE IN DepthAfter(code, j, depth[j])

LEMMA DepthAtLocal ==
  ASSUME NEW code, NEW i \in Nat, NEW c, NEW d, \A j \in 1 .. i - 1 : c[j] = d[j]
  PROVE  DepthAt(code, i, c) = DepthAt(code, i, d)
<1>1. Before(code, i, c) = Before(code, i, d)
  BY DEF Before
<1>2. ASSUME Before(code, i, c) # {}
      PROVE  (CHOOSE k \in Before(code, i, c) : TRUE) \in 1 .. i - 1
  BY <1>2 DEF Before
<1> QED
  BY <1>1, <1>2 DEF DepthAt

\* The recursive function is what its equation says.
LEMMA DepthOfUpTo ==
  ASSUME NEW code, Len(code) \in Nat
  PROVE  \E upTo : /\ DepthOf(code) = upTo[Len(code)]
                   /\ upTo[0] = <<>>
                   /\ \A n \in Nat : n + 1 <= Len(code) =>
                        upTo[n + 1] = Append(upTo[n], DepthAt(code, n + 1, upTo[n]))
<1> DEFINE After(depth, n) == Append(depth, DepthAt(code, n, depth))
           Is(f, m) == f = [n \in 0 .. m |-> IF n = 0 THEN <<>> ELSE After(f[n - 1], n)]
           T == {m \in Nat : ~\E f : Is(f, m)}
           upTo == CHOOSE f : Is(f, Len(code))
<1>0. DepthOf(code) = upTo[Len(code)]
  BY DEF DepthOf, DepthAt, Before
<1> HIDE DEF After
<1>1. 0 \notin T
  <2>1. Is([n \in 0 .. 0 |-> <<>>], 0)
    OBVIOUS
  <2> QED
    BY <2>1
<1>2. ASSUME NEW m \in Nat, m + 1 \in T PROVE m \in T
  <2>1. SUFFICES ASSUME NEW f, Is(f, m) PROVE \E h : Is(h, m + 1)
    BY <1>2
  <2> DEFINE h == [n \in 0 .. m + 1 |-> IF n = m + 1 THEN After(f[m], m + 1) ELSE f[n]]
  <2>2. \A n \in 0 .. m : f[n] = IF n = 0 THEN <<>> ELSE After(f[n - 1], n)
    BY <2>1
  <2>3. ASSUME NEW n \in 0 .. m + 1 PROVE h[n] = IF n = 0 THEN <<>> ELSE After(h[n - 1], n)
    <3>1. CASE n = m + 1
      <4>1. n # 0 /\ n - 1 = m /\ m \in 0 .. m + 1 /\ m # m + 1
        BY <3>1
      <4> QED
        BY <3>1, <4>1
    <3>2. CASE n = 0
      <4>1. n \in 0 .. m /\ n # m + 1
        BY <3>2
      <4> QED
        BY <3>2, <4>1, <2>2
    <3>3. CASE n # 0 /\ n # m + 1
      <4>1. n \in 0 .. m /\ n - 1 \in 0 .. m + 1 /\ n - 1 # m + 1
        BY <3>3
      <4>2. h[n] = f[n] /\ h[n - 1] = f[n - 1]
        BY <3>3, <4>1
      <4> HIDE DEF h
      <4> QED
        BY <3>3, <4>1, <4>2, <2>2
    <3> QED
      BY <3>1, <3>2, <3>3
  <2>4. Is(h, m + 1)
    <3>1. h = [n \in 0 .. m + 1 |-> h[n]]
      OBVIOUS
    <3> HIDE DEF h
    <3> QED
      BY <2>3, <3>1
  <2> QED
    BY <2>4
<1>3. T = {}
  <2>1. T \subseteq Nat
    OBVIOUS
  <2> HIDE DEF T
  <2> QED
    BY <1>1, <1>2, <2>1, NoException
<1>4. Is(upTo, Len(code))
  BY <1>3
<1> HIDE DEF upTo
<1>5. upTo[0] = <<>>
  <2>1. 0 \in 0 .. Len(code)
    OBVIOUS
  <2> QED
    BY <1>4, <2>1
<1>6. ASSUME NEW n \in Nat, n + 1 <= Len(code) PROVE upTo[n + 1] = After(upTo[n], n + 1)
  <2>1. n + 1 \in 0 .. Len(code) /\ n + 1 # 0 /\ (n + 1) - 1 = n
    BY <1>6
  <2> QED
    BY <1>4, <2>1
<1> QED
  BY <1>0, <1>5, <1>6 DEF After

LEMMA DepthOfIs ==
  ASSUME NEW code, Len(code) \in Nat
  PROVE  LET depth == DepthOf(code)
         IN  /\ IsSeq(depth) /\ Len(depth) = Len(code)
             /\ \A i \in 1 .. Len(code) : depth[i] = DepthAt(code, i, depth)
<1>1. PICK upTo : /\ DepthOf(code) = upTo[Len(code)]
                  /\ upTo[0] = <<>>
                  /\ \A n \in Nat : n + 1 <= Len(code) =>
                       upTo[n + 1] = Append(upTo[n], DepthAt(code, n + 1, upTo[n]))
  BY DepthOfUpTo
<1> DEFINE Good(n) == /\ IsSeq(upTo[n]) /\ Len(upTo[n]) = n
                      /\ \A i \in 1 .. n : upTo[n][i] = DepthAt(code, i, upTo[n])
           T == {n \in Nat : n <= Len(code) /\ ~Good(n)}
<1>2. 0 \notin T
  <2>1. IsSeq(<<>>) /\ Len(<<>>) = 0
    BY DEF IsSeq
  <2> QED
    BY <1>1, <2>1
<1>3. ASSUME NEW n \in Nat, n + 1 \in T PROVE n \in T
  <2>1. SUFFICES ASSUME Good(n) PROVE Good(n + 1)
    BY <1>3
  <2> DEFINE old == upTo[n]
             new == upTo[n + 1]
             d   == DepthAt(code, n + 1, old)
  <2>2. new = Append(old, d)
    BY <1>1, <1>3
  <2>3. IsSeq(old) /\ Len(old) = n /\ \A i \in 1 .. n : old[i] = DepthAt(code, i, old)
    BY <2>1
  <2> HIDE DEF old, new
  <2>4. DOMAIN old = 1 .. n
    BY <2>3, SeqFacts
  <2>5. IsSeq(new) /\ DOMAIN new = 1 .. n + 1 /\ (\A i \in 1 .. n : new[i] = old[i]) /\ new[n + 1] = d
    BY <2>2, <2>3, <2>4, AppendFacts
  <2>6. Len(new) = n + 1
    BY <2>2, <2>3, AppendLen
  <2>7. ASSUME NEW i \in 1 .. n + 1 PROVE new[i] = DepthAt(code, i, new)
    <3>1. \A j \in 1 .. i - 1 : old[j] = new[j]
      BY <2>5
    <3>2. DepthAt(code, i, old) = DepthAt(code, i, new)
      BY <3>1, DepthAtLocal
    <3> QED
      BY <2>3, <2>5, <3>2
  <2> QED
    BY <2>5, <2>6, <2>7 DEF new
<1>4. T = {}
  <2>1. T \subseteq Nat
    OBVIOUS
  <2> HIDE DEF T
  <2> QED
    BY <1>2, <1>3, <2>1, NoException
<1>5. Good(Len(code))
  BY <1>4
<1> QED
  BY <1>1, <1>5

LEMMA DepthsMeet ==
  ASSUME NEW code, code \in Seq(Nat), NEW d, SoundDepth(code, d), NEW m \in 1 .. Len(code)
  PROVE  DepthOf(code)[m] = -1 \/ (DepthOf(code)[m] = d[m] /\ d[m] >= 0)
<1> DEFINE depth == DepthOf(code)
           Good(n) == n = 0 \/ \A i \in 1 .. n : depth[i] = -1 \/ (depth[i] = d[i] /\ d[i] >= 0)
           T == {n \in Nat : n <= Len(code) /\ ~Good(n)}
<1>1. /\ Len(code) \in Nat
      /\ \A i \in 1 .. Len(code) : depth[i] = DepthAt(code, i, depth)
  BY DepthOfIs
<1> HIDE DEF depth
<1>2. 0 \notin T
  OBVIOUS
<1>3. ASSUME NEW n \in Nat, n + 1 \in T PROVE n \in T
  <2>1. SUFFICES ASSUME Good(n) PROVE Good(n + 1)
    BY <1>3
  <2> DEFINE i == n + 1
             from == Before(code, i, depth)
             j == CHOOSE k \in from : TRUE
  <2>2. i \in 1 .. Len(code) /\ depth[i] = DepthAt(code, i, depth)
    BY <1>1, <1>3
  <2>3. \A l \in 1 .. n : depth[l] = -1 \/ (depth[l] = d[l] /\ d[l] >= 0)
    BY <2>1
  <2>4. depth[i] = -1 \/ (depth[i] = d[i] /\ d[i] >= 0)
    <3>1. CASE i = 1
      BY <2>2, <3>1 DEF DepthAt, SoundDepth
    <3>2. CASE i # 1 /\ from = {}
      BY <2>2, <3>2 DEF DepthAt
    <3>3. CASE i # 1 /\ from # {}
      <4>1. j \in from /\ depth[i] = DepthAfter(code, j, depth[j])
        BY <2>2, <3>3 DEF DepthAt
      <4> HIDE DEF j
      <4>2. j \in 1 .. n /\ depth[j] >= 0 /\ i \in Successors(code, j) /\ j \in 1 .. Len(code)
        BY <2>2, <4>1 DEF Before
      <4>3. depth[j] = d[j] /\ d[j] >= 0
        BY <2>3, <4>2
      <4>4. SoundAt(code, d, j)
        BY <4>2, <4>3 DEF SoundDepth
      <4>5. d[i] = DepthAfter(code, j, d[j]) /\ d[j] >= Pops(code, j)
        BY <4>2, <4>4 DEF SoundAt
      <4>6. Pushes(code[j]) \in {0, 1}
        BY DEF Pushes
      <4>7. d[j] \in Int /\ Pops(code, j) \in Int
        <5>1. d[j] \in Int
          BY <4>2 DEF SoundDepth
        <5>2. code[j] = kCall => code[j + 1] \in Byte
          <6>1. code[j] = kCall => Size(code[j]) = 2
            BY DEF Size, JumpOps, OperandOps, kJump, kJumpIfFalse, kCall
          <6> QED
            BY <6>1, <4>4 DEF SoundAt
        <5>3. \A b \in Byte : b + 1 \in Int
          BY ByteSizeAssumption DEF Byte
        <5> QED
          BY <5>1, <5>2, <5>3 DEF Pops
      <4>8. \A x, y \in Int, z \in {0, 1} : x >= y => (x - y) + z >= 0
        OBVIOUS
      <4>9. DepthAfter(code, j, d[j]) >= 0
        BY <4>5, <4>6, <4>7, <4>8 DEF DepthAfter
      <4> QED
        BY <4>1, <4>3, <4>5, <4>9
    <3> QED
      BY <3>1, <3>2, <3>3
  <2> HIDE DEF i
  <2>5. \A l \in 1 .. n + 1 : l \in 1 .. n \/ l = i
    BY DEF i
  <2> QED
    BY <2>3, <2>4, <2>5 DEF i
<1>4. T = {}
  <2>1. T \subseteq Nat
    OBVIOUS
  <2> HIDE DEF T
  <2> QED
    BY <1>2, <1>3, <2>1, NoException
<1>5. Good(Len(code))
  BY <1>1, <1>4
<1>6. m \in 1 .. Len(code) /\ Len(code) # 0
  BY <1>1
<1> QED
  BY <1>5, <1>6 DEF depth

\* To find one such assignment is enough.
LEMMA SoundIfDepth ==
  ASSUME NEW code \in Seq(Nat), NEW d, SoundDepth(code, d)
  PROVE  /\ Sound(code)
         /\ \A i \in 1 .. Len(code) : DepthOf(code)[i] >= 0 => d[i] >= 0
<1> DEFINE depth == DepthOf(code)
<1>1. /\ Len(code) \in Nat /\ IsSeq(depth) /\ Len(depth) = Len(code)
      /\ \A i \in 1 .. Len(code) : depth[i] = DepthAt(code, i, depth)
  BY DepthOfIs
<1>2. \A i \in 1 .. Len(code) : depth[i] = -1 \/ (depth[i] = d[i] /\ d[i] >= 0)
  BY DepthsMeet
<1> HIDE DEF depth
<1>3. Len(code) > 0 /\ 1 \in 1 .. Len(code) /\ \A i \in 1 .. Len(code) : d[i] \in Int
  BY <1>1 DEF SoundDepth
<1>4. depth \in [1 .. Len(code) -> Int]
  <2>1. depth = [i \in 1 .. Len(code) |-> depth[i]]
    BY <1>1 DEF IsSeq
  <2>2. \A i \in 1 .. Len(code) : depth[i] \in Int
    BY <1>2, <1>3
  <2> QED
    BY <2>1, <2>2
<1>5. depth[1] = 0
  BY <1>1, <1>3 DEF DepthAt
<1>6. ASSUME NEW i \in 1 .. Len(code), depth[i] >= 0 PROVE SoundAt(code, depth, i)
  <2>1. depth[i] = d[i] /\ d[i] >= 0
    BY <1>2, <1>6
  <2>2. SoundAt(code, d, i)
    BY <2>1 DEF SoundDepth
  <2>3. ASSUME NEW j \in Successors(code, i) PROVE depth[j] = DepthAfter(code, i, depth[i])
    <3> DEFINE from == Before(code, j, depth)
               k == CHOOSE l \in from : TRUE
    <3>1. j \in i + 1 .. Len(code) /\ d[j] = DepthAfter(code, i, d[i])
      BY <2>2, <2>3 DEF SoundAt
    <3>2. j \in 1 .. Len(code) /\ j # 1 /\ i \in 1 .. j - 1
      BY <1>1, <3>1
    <3>3. i \in from
      BY <1>6, <2>2, <2>3, <3>2 DEF Before, SoundAt
    <3>4. k \in from /\ depth[j] = DepthAfter(code, k, depth[k])
      BY <1>1, <3>2, <3>3 DEF DepthAt
    <3> HIDE DEF k
    <3>5. k \in 1 .. Len(code) /\ depth[k] >= 0 /\ j \in Successors(code, k)
      BY <1>1, <3>2, <3>4 DEF Before
    <3>6. depth[k] = d[k] /\ d[k] >= 0
      BY <1>2, <3>5
    <3>7. d[j] = DepthAfter(code, k, d[k])
      BY <3>5, <3>6 DEF SoundDepth, SoundAt
    <3> QED
      BY <2>1, <3>1, <3>4, <3>6, <3>7
  <2> QED
    BY <2>1, <2>2, <2>3 DEF SoundAt
<1>7. SoundDepth(code, depth)
  BY <1>3, <1>4, <1>5, <1>6 DEF SoundDepth
<1>8. \A i \in 1 .. Len(code) : depth[i] >= 0 => d[i] >= 0
  BY <1>2
<1> QED
  BY <1>7, <1>8 DEF Sound, depth

-----------------------------------------------------------------------------
(***************************************************************************)
(* Code as it was emitted.  depth is the operand depth at each instruction *)
(* and behind the last, and -1 inside of instructions.  It is that of the  *)
(* straight line: every jump is at depth zero once its condition is gone.  *)
(***************************************************************************)
Whole(code, depth, i) ==
  /\ code[i] \in Ops
  /\ i + Size(code[i]) <= Len(code) + 1
  /\ \A k \in 1 .. Size(code[i]) - 1 : code[i + k] \in Byte /\ depth[i + k] = -1
  /\ depth[i] >= Pops(code, i)
  /\ code[i] = kReturn => depth[i] = 1
  /\ code[i] \in JumpOps => DepthAfter(code, i, depth[i]) = 0
  /\ depth[i + Size(code[i])] = DepthAfter(code, i, depth[i])

Straight(code, depth) ==
  /\ depth \in [1 .. Len(code) + 1 -> Int] /\ depth[1] = 0
  /\ \A i \in 1 .. Len(code) : depth[i] >= 0 => Whole(code, depth, i)

LEMMA PopsIsNat ==
  ASSUME NEW code, NEW depth, NEW i, Whole(code, depth, i)
  PROVE  Pops(code, i) \in Nat /\ Pushes(code[i]) \in {0, 1}
<1>1. code[i] = kCall => code[i + 1] \in Byte
  <2>1. code[i] = kCall => Size(code[i]) = 2
    BY DEF Size, JumpOps, OperandOps, kJump, kJumpIfFalse, kCall
  <2> QED
    BY <2>1 DEF Whole
<1>2. \A b \in Byte : b + 1 \in Nat
  BY ByteSizeAssumption DEF Byte
<1> QED
  BY <1>1, <1>2 DEF Pops, Pushes

LEMMA AfterIsNat ==
  ASSUME NEW code, Len(code) \in Nat, NEW depth, NEW i \in 1 .. Len(code), Straight(code, depth), depth[i] >= 0
  PROVE  depth[i + Size(code[i])] \in Nat
<1>1. depth[i] \in Int /\ Whole(code, depth, i)
  <2>1. i \in 1 .. Len(code) + 1
    OBVIOUS
  <2> QED
    BY <2>1 DEF Straight
<1>2. Pops(code, i) \in Nat /\ Pushes(code[i]) \in {0, 1}
  BY <1>1, PopsIsNat
<1>3. depth[i] >= Pops(code, i) /\ depth[i + Size(code[i])] = depth[i] - Pops(code, i) + Pushes(code[i])
  BY <1>1 DEF Whole, DepthAfter
<1>4. \A x \in Int, y \in Nat, z \in {0, 1} : x >= y => (x - y) + z \in Nat
  OBVIOUS
<1> QED
  BY <1>1, <1>2, <1>3, <1>4

-----------------------------------------------------------------------------
(***************************************************************************)
(* Filtered keeps the order, and the walk of the disassembler finds every  *)
(* instruction.                                                            *)
(***************************************************************************)
Increasing(f) == \A i, j \in DOMAIN f : i < j => f[i] < f[j]

\* The elements of s at the places at are those in S, in their order.
Picks(s, n, S, v, at) ==
  /\ IsSeq(v) /\ at \in [1 .. Len(v) -> 1 .. n] /\ Increasing(at)
  /\ \A k \in 1 .. Len(v) : v[k] = s[at[k]] /\ v[k] \in S
  /\ \A i \in 1 .. n : s[i] \in S => \E k \in 1 .. Len(v) : at[k] = i

LEMMA FilteredUpTo ==
  ASSUME NEW s, Len(s) \in Nat, NEW S
  PROVE  \E upTo : /\ Filtered(s, S) = upTo[Len(s)]
                   /\ upTo[0] = <<>>
                   /\ \A n \in Nat : n + 1 <= Len(s) =>
                        upTo[n + 1] = IF s[n + 1] \in S THEN Append(upTo[n], s[n + 1]) ELSE upTo[n]
<1> DEFINE After(v, n) == IF s[n] \in S THEN Append(v, s[n]) ELSE v
           Is(f, m) == f = [n \in 0 .. m |-> IF n = 0 THEN <<>> ELSE After(f[n - 1], n)]
           T == {m \in Nat : ~\E f : Is(f, m)}
           upTo == CHOOSE f : Is(f, Len(s))
<1>0. Filtered(s, S) = upTo[Len(s)]
  BY DEF Filtered
<1> HIDE DEF After
<1>1. 0 \notin T
  <2>1. Is([n \in 0 .. 0 |-> <<>>], 0)
    OBVIOUS
  <2> QED
    BY <2>1
<1>2. ASSUME NEW m \in Nat, m + 1 \in T PROVE m \in T
  <2>1. SUFFICES ASSUME NEW f, Is(f, m) PROVE \E h : Is(h, m + 1)
    BY <1>2
  <2> DEFINE h == [n \in 0 .. m + 1 |-> IF n = m + 1 THEN After(f[m], m + 1) ELSE f[n]]
  <2>2. \A n \in 0 .. m : f[n] = IF n = 0 THEN <<>> ELSE After(f[n - 1], n)
    BY <2>1
  <2>3. ASSUME NEW n \in 0 .. m + 1 PROVE h[n] = IF n = 0 THEN <<>> ELSE After(h[n - 1], n)
    <3>1. CASE n = m + 1
      <4>1. n # 0 /\ n - 1 = m /\ m \in 0 .. m + 1 /\ m # m + 1
        BY <3>1
      <4> QED
        BY <3>1, <4>1
    <3>2. CASE n = 0
      <4>1. n \in 0 .. m /\ n # m + 1
        BY <3>2
      <4> QED
        BY <3>2, <4>1, <2>2
    <3>3. CASE n # 0 /\ n # m + 1
      <4>1. n \in 0 .. m /\ n - 1 \in 0 .. m + 1 /\ n - 1 # m + 1
        BY <3>3
      <4>2. h[n] = f[n] /\ h[n - 1] = f[n - 1]
        BY <3>3, <4>1
      <4> HIDE DEF h
      <4> QED
        BY <3>3, <4>1, <4>2, <2>2
    <3> QED
      BY <3>1, <3>2, <3>3
  <2>4. Is(h, m + 1)
    <3>1. h = [n \in 0 .. m + 1 |-> h[n]]
      OBVIOUS
    <3> HIDE DEF h
    <3> QED
      BY <2>3, <3>1
  <2> QED
    BY <2>4
<1>3. T = {}
  <2>1. T \subseteq Nat
    OBVIOUS
  <2> HIDE DEF T
  <2> QED
    BY <1>1, <1>2, <2>1, NoException
<1>4. Is(upTo, Len(s))
  BY <1>3
<1> HIDE DEF upTo
<1>5. upTo[0] = <<>>
  <2>1. 0 \in 0 .. Len(s)
    OBVIOUS
  <2> QED
    BY <1>4, <2>1
<1>6. ASSUME NEW n \in Nat, n + 1 <= Len(s) PROVE upTo[n + 1] = After(upTo[n], n + 1)
  <2>1. n + 1 \in 0 .. Len(s) /\ n + 1 # 0 /\ (n + 1) - 1 = n
    BY <1>6
  <2> QED
    BY <1>4, <2>1
<1> QED
  BY <1>0, <1>5, <1>6 DEF After

LEMMA FilteredPicks ==
  ASSUME NEW s, Len(s) \in Nat, NEW S
  PROVE  \E at : Picks(s, Len(s), S, Filtered(s, S), at)
<1>1. PICK upTo : /\ Filtered(s, S) = upTo[Len(s)]
                  /\ upTo[0] = <<>>
                  /\ \A n \in Nat : n + 1 <= Len(s) =>
                       upTo[n + 1] = IF s[n + 1] \in S THEN Append(upTo[n], s[n + 1]) ELSE upTo[n]
  BY FilteredUpTo
<1> DEFINE Good(n) == \E at : Picks(s, n, S, upTo[n], at)
           T == {n \in Nat : n <= Len(s) /\ ~Good(n)}
<1>2. 0 \notin T
  <2>1. IsSeq(<<>>) /\ Len(<<>>) = 0
    BY DEF IsSeq
  <2>2. Picks(s, 0, S, <<>>, [k \in 1 .. 0 |-> 0])
    BY <2>1 DEF Picks, Increasing
  <2> QED
    BY <1>1, <2>2
<1>3. ASSUME NEW n \in Nat, n + 1 \in T PROVE n \in T
  <2> DEFINE old == upTo[n]
             new == upTo[n + 1]
  <2>1. SUFFICES ASSUME NEW at, Picks(s, n, S, old, at) PROVE \E h : Picks(s, n + 1, S, new, h)
    BY <1>3
  <2>2. new = IF s[n + 1] \in S THEN Append(old, s[n + 1]) ELSE old
    BY <1>1, <1>3
  <2> HIDE DEF old, new
  <2>3. IsSeq(old) /\ Len(old) \in Nat /\ \A k \in 1 .. Len(old) : at[k] \in 1 .. n
    BY <2>1 DEF Picks, IsSeq
  <2>4. CASE s[n + 1] \notin S
    <3>1. at \in [1 .. Len(old) -> 1 .. n + 1]
      BY <2>1 DEF Picks
    <3>2. \A i \in 1 .. n + 1 : s[i] \in S => i \in 1 .. n
      BY <2>4
    <3>3. Picks(s, n + 1, S, old, at)
      BY <2>1, <3>1, <3>2 DEF Picks
    <3> QED
      BY <2>2, <2>4, <3>3
  <2>5. CASE s[n + 1] \in S
    <3> DEFINE m == Len(old) + 1
               h == [k \in 1 .. m |-> IF k = m THEN n + 1 ELSE at[k]]
    <3>1. new = Append(old, s[n + 1])
      BY <2>2, <2>5
    <3>2. DOMAIN old = 1 .. Len(old)
      BY <2>3, SeqFacts
    <3>3. IsSeq(new) /\ (\A i \in 1 .. Len(old) : new[i] = old[i]) /\ new[m] = s[n + 1]
      BY <2>3, <3>1, <3>2, AppendFacts
    <3>4. Len(new) = m
      BY <2>3, <3>1, AppendLen
    <3>5. m \in Nat /\ \A k \in 1 .. m : k = m \/ (k \in 1 .. Len(old) /\ k # m)
      BY <2>3
    <3>6. /\ h[m] = n + 1 /\ \A k \in 1 .. Len(old) : h[k] = at[k]
          /\ \A k \in 1 .. m : h[k] \in 1 .. n + 1
      BY <2>3, <3>5
    <3>7. h \in [1 .. m -> 1 .. n + 1]
      BY <3>6
    <3> HIDE DEF h, m
    <3>8. Increasing(h)
      <4> SUFFICES ASSUME NEW i \in 1 .. m, NEW j \in 1 .. m, i < j PROVE h[i] < h[j]
        BY <3>7 DEF Increasing
      <4>1. i \in 1 .. Len(old) /\ h[i] = at[i]
        <5>1. i # m
          BY <3>5
        <5> QED
          BY <3>5, <3>6, <5>1
      <4>2. CASE j = m
        BY <2>3, <3>6, <4>1, <4>2
      <4>3. CASE j # m
        <5>1. j \in 1 .. Len(old) /\ h[j] = at[j]
          BY <3>5, <3>6, <4>3
        <5>2. DOMAIN at = 1 .. Len(old) /\ Increasing(at)
          BY <2>1 DEF Picks
        <5> QED
          BY <4>1, <5>1, <5>2 DEF Increasing
      <4> QED
        BY <4>2, <4>3
    <3>9. \A k \in 1 .. m : new[k] = s[h[k]] /\ new[k] \in S
      BY <2>1, <2>5, <3>3, <3>5, <3>6 DEF Picks
    <3>10. ASSUME NEW i \in 1 .. n + 1, s[i] \in S PROVE \E k \in 1 .. m : h[k] = i
      <4>1. CASE i = n + 1
        <5>1. m \in 1 .. m
          BY <2>3 DEF m
        <5> QED
          BY <3>6, <4>1, <5>1
      <4>2. CASE i # n + 1
        <5>1. i \in 1 .. n
          BY <4>2
        <5>2. PICK k \in 1 .. Len(old) : at[k] = i
          BY <2>1, <3>10, <5>1 DEF Picks
        <5>3. k \in 1 .. m
          BY <2>3 DEF m
        <5> QED
          BY <3>6, <5>2, <5>3
      <4> QED
        BY <4>1, <4>2
    <3>11. Picks(s, n + 1, S, new, h)
      BY <3>3, <3>4, <3>7, <3>8, <3>9, <3>10 DEF Picks
    <3> QED
      BY <3>11
  <2> QED
    BY <2>4, <2>5
<1>4. T = {}
  <2>1. T \subseteq Nat
    OBVIOUS
  <2> HIDE DEF T
  <2> QED
    BY <1>2, <1>3, <2>1, NoException
<1>5. Good(Len(s))
  BY <1>4
<1> QED
  BY <1>1, <1>5

LEMMA DisassemblyFrom ==
  ASSUME NEW code, Len(code) \in Nat
  PROVE  \E from : /\ Disassembly(code) = from[1]
                   /\ \A i \in 1 .. Len(code) + 3 :
                        from[i] = IF i > Len(code) THEN <<>> ELSE <<i>> \o from[i + Size(code[i])]
<1> DEFINE N == Len(code) + 3
           At(f, i) == IF i > Len(code) THEN <<>> ELSE <<i>> \o f[i + Size(code[i])]
           Is(f, low) == f = [i \in low .. N |-> At(f, i)]
           T == {m \in Nat : m < N /\ ~\E f : Is(f, N - m)}
           from == CHOOSE f : Is(f, 1)
<1>0. Disassembly(code) = from[1]
  BY DEF Disassembly
<1>a. N \in Nat /\ N >= 3 /\ N = Len(code) + 3
  OBVIOUS
<1>b. \A i \in Nat : Size(code[i]) \in 1 .. 3
  BY DEF Size
<1> HIDE DEF N
<1>1. 0 \notin T
  <2>1. N > Len(code) /\ \A i \in N .. N : i > Len(code)
    BY <1>a
  <2>2. Is([i \in N .. N |-> <<>>], N)
    BY <2>1
  <2>3. N - 0 = N
    BY <1>a
  <2> QED
    BY <2>2, <2>3
<1>2. ASSUME NEW m \in Nat, m + 1 \in T PROVE m \in T
  <2> DEFINE low == N - (m + 1)
  <2>1. m < N /\ N - m = low + 1 /\ low \in Nat \ {0} /\ low < N
    BY <1>2, <1>a
  <2>2. SUFFICES ASSUME NEW f, Is(f, low + 1) PROVE \E h : Is(h, low)
    BY <1>2, <2>1
  <2> HIDE DEF low
  <2> DEFINE h == [i \in low .. N |-> IF i = low THEN At(f, low) ELSE f[i]]
  <2>3. \A i \in low + 1 .. N : f[i] = At(f, i)
    BY <2>2
  <2>4. \A i \in low + 1 .. N : h[i] = f[i] /\ i # low
    BY <2>1, <1>a
  <2>5. h[low] = At(f, low)
    BY <2>1, <1>a
  <2>6. ASSUME NEW i \in low .. N PROVE h[i] = At(h, i)
    <3>1. At(h, i) = At(f, i)
      <4>1. CASE i > Len(code)
        BY <4>1
      <4>2. CASE ~(i > Len(code))
        <5>1. i + Size(code[i]) \in low + 1 .. N
          BY <1>a, <1>b, <2>1, <4>2
        <5>2. h[i + Size(code[i])] = f[i + Size(code[i])]
          BY <2>4, <5>1
        <5> HIDE DEF h
        <5> QED
          BY <5>2
      <4> QED
        BY <4>1, <4>2
    <3>2. CASE i = low
      BY <2>5, <3>1, <3>2
    <3>3. CASE i # low
      <4>1. i \in low + 1 .. N
        BY <2>1, <3>3, <1>a
      <4> HIDE DEF h
      <4> QED
        BY <2>3, <2>4, <3>1, <4>1
    <3> QED
      BY <3>2, <3>3
  <2>7. h = [i \in low .. N |-> h[i]]
    OBVIOUS
  <2>8. Is(h, low)
    <3> HIDE DEF h, At
    <3> QED
      BY <2>6, <2>7
  <2> QED
    BY <2>8
<1>3. T = {}
  <2>1. T \subseteq Nat
    OBVIOUS
  <2> HIDE DEF T
  <2> QED
    BY <1>1, <1>2, <2>1, NoException
<1>4. Is(from, 1)
  <2>1. N - 1 \in Nat /\ N - 1 < N /\ N - (N - 1) = 1
    BY <1>a
  <2>2. \E f : Is(f, N - (N - 1))
    BY <1>3, <2>1
  <2>3. \E f : Is(f, 1)
    BY <2>1, <2>2
  <2> QED
    BY <2>3
<1> HIDE DEF from
<1>5. \A i \in 1 .. N : from[i] = At(from, i)
  <2> HIDE DEF At
  <2> QED
    BY <1>4
<1> QED
  BY <1>0, <1>5 DEF N

\* The instructions from i on, in order.
Walk(code, depth, i, v) ==
  /\ IsSeq(v) /\ Increasing(v)
  /\ \A k \in DOMAIN v : v[k] \in i .. Len(code) /\ depth[v[k]] >= 0
  /\ \A j \in i .. Len(code) : depth[j] >= 0 => \E k \in DOMAIN v : v[k] = j

LEMMA WalkOfOne ==
  ASSUME NEW code, Len(code) \in Nat, NEW depth, NEW i \in 1 .. Len(code), depth[i] >= 0,
         Whole(code, depth, i), NEW v, Walk(code, depth, i + Size(code[i]), v)
  PROVE  Walk(code, depth, i, <<i>> \o v)
<1> DEFINE w == <<i>> \o v
           n == Len(v)
<1>1. Size(code[i]) \in 1 .. 3
  BY DEF Size
<1>2. IsSeq(v) /\ n \in Nat /\ DOMAIN v = 1 .. n
  BY SeqFacts DEF Walk
<1>3. IsSeq(<<i>>) /\ Len(<<i>>) = 1 /\ <<i>>[1] = i
  BY DEF IsSeq
<1>4. IsSeq(w) /\ Len(w) = 1 + n /\ w[1] = i /\ \A k \in 1 .. n : w[1 + k] = v[k]
  BY <1>2, <1>3, ConcatFacts
<1>5. DOMAIN w = 1 .. 1 + n
  BY <1>4, SeqFacts
<1> HIDE DEF w, n
<1>6. \A k \in 1 .. 1 + n : k = 1 \/ (k - 1 \in 1 .. n /\ w[k] = v[k - 1])
  <2>1. \A k \in 1 .. 1 + n : k = 1 \/ (k - 1 \in 1 .. n /\ 1 + (k - 1) = k)
    BY <1>2
  <2> QED
    BY <1>4, <2>1
<1>7. \A k \in 1 .. n : v[k] \in i + Size(code[i]) .. Len(code) /\ depth[v[k]] >= 0
  BY <1>2 DEF Walk
<1>8. Increasing(w)
  <2> SUFFICES ASSUME NEW k \in 1 .. 1 + n, NEW l \in 1 .. 1 + n, k < l PROVE w[k] < w[l]
    BY <1>5 DEF Increasing
  <2>1. l - 1 \in 1 .. n /\ w[l] = v[l - 1]
    BY <1>2, <1>6
  <2>2. CASE k = 1
    BY <1>1, <1>4, <1>7, <2>1, <2>2
  <2>3. CASE k # 1
    <3>1. k - 1 \in 1 .. n /\ w[k] = v[k - 1] /\ k - 1 < l - 1
      BY <1>2, <1>6, <2>3
    <3> QED
      BY <1>2, <2>1, <3>1 DEF Walk, Increasing
  <2> QED
    BY <2>2, <2>3
<1>9. ASSUME NEW k \in 1 .. 1 + n PROVE w[k] \in i .. Len(code) /\ depth[w[k]] >= 0
  <2>1. CASE k = 1
    BY <1>4, <2>1
  <2>2. CASE k # 1
    <3>1. k - 1 \in 1 .. n /\ w[k] = v[k - 1]
      BY <1>6, <2>2
    <3> QED
      BY <1>1, <1>7, <3>1
  <2> QED
    BY <2>1, <2>2
<1>10. ASSUME NEW j \in i .. Len(code), depth[j] >= 0 PROVE \E k \in 1 .. 1 + n : w[k] = j
  <2>1. CASE j = i
    BY <1>2, <1>4, <2>1
  <2>2. CASE j # i
    <3>1. j \in i + Size(code[i]) .. Len(code)
      <4>1. SUFFICES ASSUME j < i + Size(code[i]) PROVE FALSE
        BY <1>1
      <4>2. j - i \in 1 .. Size(code[i]) - 1 /\ i + (j - i) = j
        BY <1>1, <2>2, <4>1
      <4>3. depth[j] = -1
        BY <4>2 DEF Whole
      <4> QED
        BY <1>10, <4>3
    <3>2. PICK k \in 1 .. n : v[k] = j
      BY <1>2, <1>10, <3>1 DEF Walk
    <3>3. 1 + k \in 1 .. 1 + n
      BY <1>2
    <3> QED
      BY <1>4, <3>2, <3>3
  <2> QED
    BY <2>1, <2>2
<1> QED
  BY <1>4, <1>5, <1>8, <1>9, <1>10 DEF Walk, w

LEMMA DisassemblyWalks ==
  ASSUME NEW code \in Seq(Nat), NEW depth, Straight(code, depth)
  PROVE  Walk(code, depth, 1, Disassembly(code))
<1> DEFINE N == Len(code) + 1
<1>1. PICK from : /\ Disassembly(code) = from[1]
                  /\ \A i \in 1 .. Len(code) + 3 :
                       from[i] = IF i > Len(code) THEN <<>> ELSE <<i>> \o from[i + Size(code[i])]
  <2>1. Len(code) \in Nat
    OBVIOUS
  <2> QED
    BY <2>1, DisassemblyFrom
<1> DEFINE Good(i) == i = N \/ depth[i] >= 0 => Walk(code, depth, i, from[i])
           T == {n \in Nat : n < N /\ ~\A m \in 0 .. n : Good(N - m)}
<1>2. N \in Nat /\ Len(code) \in Nat /\ N = Len(code) + 1
  OBVIOUS
<1> HIDE DEF N
<1>3. Good(N)
  <2>1. from[N] = <<>>
    <3>1. N \in 1 .. Len(code) + 3 /\ N > Len(code)
      BY <1>2
    <3> QED
      BY <1>1, <3>1
  <2>2. IsSeq(<<>>) /\ DOMAIN <<>> = {} /\ N .. Len(code) = {}
    BY <1>2 DEF IsSeq
  <2>3. Walk(code, depth, N, <<>>)
    BY <2>2 DEF Walk, Increasing
  <2> QED
    BY <2>1, <2>3
<1>4. ASSUME NEW n \in Nat, n + 1 < N, \A m \in 0 .. n : Good(N - m) PROVE Good(N - (n + 1))
  <2> DEFINE i == N - (n + 1)
  <2>1. i \in 1 .. Len(code) /\ i # N
    BY <1>2, <1>4
  <2>2. SUFFICES ASSUME depth[i] >= 0 PROVE Walk(code, depth, i, from[i])
    BY <2>1
  <2>3. Whole(code, depth, i)
    BY <2>1, <2>2 DEF Straight
  <2> DEFINE j == i + Size(code[i])
  <2>4. Size(code[i]) \in 1 .. 3
    BY DEF Size
  <2>5. j \in i + 1 .. N
    <3>1. j <= N
      BY <1>2, <2>3 DEF Whole
    <3> QED
      BY <1>2, <2>1, <2>4, <3>1
  <2>6. depth[j] >= 0
    BY <2>1, <2>2, <2>3, AfterIsNat
  <2>7. Good(j)
    <3> HIDE DEF j
    <3>1. N - j \in 0 .. n /\ N - (N - j) = j
      BY <1>2, <2>1, <2>5
    <3>2. Good(N - (N - j))
      BY <1>4, <3>1
    <3> QED
      BY <3>1, <3>2
  <2>8. Walk(code, depth, j, from[j])
    BY <2>6, <2>7
  <2>9. from[i] = <<i>> \o from[j]
    <3> HIDE DEF i
    <3>1. i \in 1 .. Len(code) + 3 /\ ~(i > Len(code))
      BY <1>2, <2>1
    <3> QED
      BY <1>1, <3>1
  <2> HIDE DEF i
  <2>10. Walk(code, depth, i, <<i>> \o from[j])
    BY <1>2, <2>1, <2>2, <2>3, <2>8, WalkOfOne
  <2> QED
    BY <2>9, <2>10
<1>5. 0 \notin T
  <2>1. N - 0 = N /\ \A m \in 0 .. 0 : m = 0
    BY <1>2
  <2> QED
    BY <1>3, <2>1
<1>6. ASSUME NEW n \in Nat, n + 1 \in T PROVE n \in T
  <2>1. n + 1 < N /\ n < N /\ ~\A m \in 0 .. n + 1 : Good(N - m)
    BY <1>2, <1>6
  <2>2. \A m \in 0 .. n + 1 : m \in 0 .. n \/ m = n + 1
    OBVIOUS
  <2> HIDE DEF Good
  <2> QED
    BY <1>4, <2>1, <2>2
<1>7. T = {}
  <2>1. T \subseteq Nat
    OBVIOUS
  <2> HIDE DEF T
  <2> QED
    BY <1>5, <1>6, <2>1, NoException
<1>8. Good(1)
  <2>1. N - 1 \in Nat /\ N - 1 < N /\ N - (N - 1) = 1 /\ N - 1 \in 0 .. N - 1
    BY <1>2
  <2>2. Good(N - (N - 1))
    <3> HIDE DEF Good
    <3> QED
      BY <1>7, <2>1
  <2> QED
    BY <2>1, <2>2
<1>9. depth[1] >= 0
  BY DEF Straight
<1> QED
  BY <1>1, <1>8, <1>9

\* The instructions at places in S, in order.
Lists(code, depth, S, v) ==
  /\ IsSeq(v) /\ Increasing(v)
  /\ \A k \in DOMAIN v : v[k] \in 1 .. Len(code) /\ depth[v[k]] >= 0 /\ v[k] \in S
  /\ \A i \in 1 .. Len(code) : depth[i] >= 0 /\ i \in S => \E k \in DOMAIN v : v[k] = i

LEMMA FilteredLists ==
  ASSUME NEW code, NEW depth, NEW S, NEW v, Walk(code, depth, 1, v)
  PROVE  Lists(code, depth, S, Filtered(v, S))
<1> DEFINE w == Filtered(v, S)
<1>1. IsSeq(v) /\ Len(v) \in Nat /\ DOMAIN v = 1 .. Len(v) /\ Increasing(v)
  BY SeqFacts DEF Walk
<1>2. PICK at : Picks(v, Len(v), S, w, at)
  BY <1>1, FilteredPicks
<1> HIDE DEF w
<1>3. IsSeq(w) /\ DOMAIN w = 1 .. Len(w)
  BY <1>2, SeqFacts DEF Picks
<1>4. /\ \A k \in DOMAIN w : w[k] = v[at[k]] /\ w[k] \in S /\ at[k] \in DOMAIN v
      /\ DOMAIN at = DOMAIN w /\ Increasing(at)
  BY <1>1, <1>2, <1>3 DEF Picks
<1>5. Increasing(w)
  BY <1>1, <1>4 DEF Increasing
<1>6. \A k \in DOMAIN w : w[k] \in 1 .. Len(code) /\ depth[w[k]] >= 0 /\ w[k] \in S
  BY <1>4 DEF Walk
<1>7. ASSUME NEW i \in 1 .. Len(code), depth[i] >= 0, i \in S PROVE \E k \in DOMAIN w : w[k] = i
  <2>1. PICK j \in DOMAIN v : v[j] = i
    BY <1>7 DEF Walk
  <2>2. PICK k \in 1 .. Len(w) : at[k] = j
    BY <1>1, <1>2, <1>7, <2>1 DEF Picks
  <2> QED
    BY <1>3, <1>4, <2>1, <2>2
<1> QED
  BY <1>3, <1>5, <1>6, <1>7 DEF Lists, w

LEMMA ListedOnce ==
  ASSUME NEW code, Len(code) \in Nat, NEW depth, NEW S, NEW v, Lists(code, depth, S, v),
         NEW w, Lists(code, depth, S, w)
  PROVE  v = w
<1>1. /\ Len(v) \in Nat /\ DOMAIN v = 1 .. Len(v) /\ v = [i \in 1 .. Len(v) |-> v[i]]
      /\ Len(w) \in Nat /\ DOMAIN w = 1 .. Len(w) /\ w = [i \in 1 .. Len(w) |-> w[i]]
  BY SeqFacts DEF Lists, IsSeq
<1>2. /\ \A k \in DOMAIN v : v[k] \in Nat /\ \E l \in DOMAIN w : w[l] = v[k]
      /\ \A k \in DOMAIN w : w[k] \in Nat /\ \E l \in DOMAIN v : v[l] = w[k]
  BY DEF Lists
<1>3. Increasing(v) /\ Increasing(w)
  BY DEF Lists
<1> DEFINE T == {n \in Nat : n \in DOMAIN v /\ n \in DOMAIN w /\ v[n] # w[n]}
<1>4. T = {}
  <2>1. SUFFICES ASSUME T # {} PROVE FALSE
    OBVIOUS
  <2>2. T \subseteq Nat
    OBVIOUS
  <2>3. PICK n \in T : \A m \in T : n <= m
    <3> HIDE DEF T
    <3> QED
      BY <2>1, <2>2, Least
  <2>4. n \in DOMAIN v /\ n \in DOMAIN w /\ v[n] # w[n] /\ v[n] \in Nat /\ w[n] \in Nat /\ n \in Nat
    BY <1>2
  <2>5. \A m \in Nat : m < n /\ m \in DOMAIN v /\ m \in DOMAIN w => v[m] = w[m]
    BY <2>3
  <2>6. CASE v[n] < w[n]
    <3>1. PICK l \in DOMAIN w : w[l] = v[n]
      BY <1>2, <2>4
    <3>2. l \in Nat
      BY <1>1
    <3>3. l < n
      <4>1. ~(n < l) /\ n # l
        BY <1>3, <2>4, <2>6, <3>1 DEF Increasing
      <4> QED
        BY <2>4, <3>2, <4>1
    <3>4. l \in DOMAIN v
      BY <1>1, <2>4, <3>2, <3>3, <3>1
    <3>5. v[l] = w[l] /\ v[l] < v[n]
      BY <1>3, <2>4, <2>5, <3>1, <3>2, <3>3, <3>4 DEF Increasing
    <3> QED
      BY <2>4, <3>1, <3>5
  <2>7. CASE w[n] < v[n]
    <3>1. PICK l \in DOMAIN v : v[l] = w[n]
      BY <1>2, <2>4
    <3>2. l \in Nat
      BY <1>1
    <3>3. l < n
      <4>1. ~(n < l) /\ n # l
        BY <1>3, <2>4, <2>7, <3>1 DEF Increasing
      <4> QED
        BY <2>4, <3>2, <4>1
    <3>4. l \in DOMAIN w
      BY <1>1, <2>4, <3>2, <3>3, <3>1
    <3>5. v[l] = w[l] /\ w[l] < w[n]
      BY <1>3, <2>4, <2>5, <3>1, <3>2, <3>3, <3>4 DEF Increasing
    <3> QED
      BY <2>4, <3>1, <3>5
  <2> QED
    BY <2>4, <2>6, <2>7
<1>5. \A n : n \in DOMAIN v /\ n \in DOMAIN w => v[n] = w[n] /\ n \in Nat
  BY <1>1, <1>4
<1>6. ~(Len(v) < Len(w))
  <2>1. SUFFICES ASSUME Len(v) < Len(w) PROVE FALSE
    OBVIOUS
  <2> DEFINE n == Len(v) + 1
  <2>2. n \in DOMAIN w /\ n \notin DOMAIN v
    BY <1>1, <2>1
  <2>3. PICK l \in DOMAIN v : v[l] = w[n]
    BY <1>2, <2>2
  <2>4. l \in DOMAIN w /\ l < n
    BY <1>1, <2>1
  <2>5. w[l] = w[n] /\ w[l] < w[n] /\ w[n] \in Nat
    BY <1>2, <1>3, <1>5, <2>2, <2>3, <2>4 DEF Increasing
  <2> QED
    BY <2>5
<1>7. ~(Len(w) < Len(v))
  <2>1. SUFFICES ASSUME Len(w) < Len(v) PROVE FALSE
    OBVIOUS
  <2> DEFINE n == Len(w) + 1
  <2>2. n \in DOMAIN v /\ n \notin DOMAIN w
    BY <1>1, <2>1
  <2>3. PICK l \in DOMAIN w : w[l] = v[n]
    BY <1>2, <2>2
  <2>4. l \in DOMAIN v /\ l < n
    BY <1>1, <2>1
  <2>5. v[l] = v[n] /\ v[l] < v[n] /\ v[n] \in Nat
    BY <1>2, <1>3, <1>5, <2>2, <2>3, <2>4 DEF Increasing
  <2> QED
    BY <2>5
<1>8. Len(v) = Len(w)
  <2>1. \A a, b \in Nat : ~(a < b) /\ ~(b < a) => a = b
    OBVIOUS
  <2>2. Len(v) \in Nat /\ Len(w) \in Nat
    BY <1>1
  <2> QED
    BY <1>6, <1>7, <2>1, <2>2, Zenon
<1>9. \A i \in 1 .. Len(v) : v[i] = w[i]
  BY <1>1, <1>5, <1>8
<1> QED
  BY <1>1, <1>8, <1>9

\* A list of the instructions in S is the one that disassembling finds.
LEMMA UsesAreListed ==
  ASSUME NEW code \in Seq(Nat), NEW depth, Straight(code, depth), NEW S, NEW v, Lists(code, depth, S, v)
  PROVE  Filtered(Disassembly(code), S) = v
<1>1. Lists(code, depth, S, Filtered(Disassembly(code), S))
  BY DisassemblyWalks, FilteredLists
<1>2. Len(code) \in Nat
  OBVIOUS
<1> QED
  BY <1>1, <1>2, ListedOnce

-----------------------------------------------------------------------------
(***************************************************************************)
(* What is known of an encoder.  Its jumps have targets at depth zero, but *)
(* for those that are still open: breaks, and the pasts of ifs.            *)
(***************************************************************************)
LiteralOps        == {kPushLiteral, kResolve, kResolvedStore}
LiteralUses(code) == {i \in DOMAIN code : code[i] \in {kPushLiteral, kResolve, kResolvedStore}}

\* lit has the instructions that use the literals.
Named(gen, depth, lit) ==
  /\ Lists(gen.code, depth, LiteralUses(gen.code), lit)
  /\ Len(lit) = Len(gen.literals)
  /\ \A k \in DOMAIN lit :
       /\ gen.code[lit[k] + 1] = (k - 1) % ByteSize
       /\ gen.literals[k].t = "String" <=> gen.code[lit[k]] # kPushLiteral

Opened(code, depth, open) ==
  \A p \in open : p \in 3 .. Len(code) /\ depth[p - 2] >= 0 /\ code[p - 2] \in JumpOps

Targeted(code, depth, i) ==
  OffsetsFit(code) =>
    JumpTarget(code, i) \in i + 1 .. Len(code) + 1 /\ depth[JumpTarget(code, i)] = 0

Landing(code, depth, open) ==
  \A i \in 1 .. Len(code) :
    depth[i] >= 0 /\ code[i] \in JumpOps => i + 2 \in open \/ Targeted(code, depth, i)

EndsFlat(gen, depth) ==
  \A e \in gen.ends :
    /\ e.at \in 0 .. Len(gen.code) /\ depth[e.at + 1] = 0
    /\ \A b \in gen.breaks : b.stmt = e.stmt => b.at <= e.at

BreakPlaces(gen) == {b.at : b \in gen.breaks}

Coded(gen, depth, lit, pasts) ==
  /\ Straight(gen.code, depth)
  /\ Named(gen, depth, lit)
  /\ Opened(gen.code, depth, pasts \union BreakPlaces(gen))
  /\ Landing(gen.code, depth, pasts \union BreakPlaces(gen))
  /\ EndsFlat(gen, depth)

-----------------------------------------------------------------------------
(***************************************************************************)
(* An instruction is emitted.                                              *)
(***************************************************************************)
\* Cells that are an instruction which can be executed with t operands.
IsInstruction(cells, t) ==
  /\ IsSeq(cells) /\ cells[1] \in Ops /\ Len(cells) = Size(cells[1])
  /\ \A k \in 1 .. Size(cells[1]) - 1 : cells[1 + k] \in Byte
  /\ t >= Pops(cells, 1)
  /\ cells[1] = kReturn => t = 1
  /\ cells[1] \in JumpOps => DepthAfter(cells, 1, t) = 0

Longer(depth, n, size, after) ==
  [i \in 1 .. n + size + 1 |->
     IF i <= n + 1 THEN depth[i] ELSE IF i = n + size + 1 THEN after ELSE -1]

LEMMA SizeIs ==
  /\ \A op : Size(op) \in 1 .. 3
  /\ \A op : op = kCall \/ op \in LiteralOps => Size(op) = 2 /\ op \notin JumpOps
  /\ \A op \in JumpOps : Size(op) = 3
BY DEF Size, JumpOps, OperandOps, LiteralOps, kJump, kJumpIfFalse, kCall, kPushLiteral, kResolve, kResolvedStore

\* An instruction is whole wherever it and the depths around it are the same; the
\* operands of a jump may be others.
LEMMA WholeStays ==
  ASSUME NEW code, NEW depth, NEW i, i \in Nat, Whole(code, depth, i), NEW new, NEW e,
         new[i] = code[i], i + Size(code[i]) <= Len(new) + 1,
         \A k \in 1 .. Size(code[i]) - 1 : new[i + k] \in Byte /\ (code[i] \notin JumpOps => new[i + k] = code[i + k]),
         \A k \in 0 .. Size(code[i]) : e[i + k] = depth[i + k]
  PROVE  Whole(new, e, i)
<1>1. Size(code[i]) \in 1 .. 3 /\ (code[i] = kCall => Size(code[i]) = 2 /\ code[i] \notin JumpOps)
  BY SizeIs
<1>2. Pops(new, i) = Pops(code, i)
  <2>1. CASE code[i] = kCall
    <3>1. new[i + 1] = code[i + 1]
      BY <1>1, <2>1
    <3> QED
      BY <2>1, <3>1 DEF Pops
  <2>2. CASE code[i] # kCall
    BY <2>2 DEF Pops
  <2> QED
    BY <2>1, <2>2
<1>3. /\ e[i] = depth[i] /\ e[i + Size(code[i])] = depth[i + Size(code[i])]
      /\ \A k \in 1 .. Size(code[i]) - 1 : e[i + k] = depth[i + k]
  <2>1. 0 \in 0 .. Size(code[i]) /\ Size(code[i]) \in 0 .. Size(code[i]) /\ i + 0 = i
    BY <1>1
  <2>2. \A k \in 1 .. Size(code[i]) - 1 : k \in 0 .. Size(code[i])
    BY <1>1
  <2> QED
    BY <2>1, <2>2
<1>4. DepthAfter(new, i, e[i]) = DepthAfter(code, i, depth[i])
  BY <1>2, <1>3 DEF DepthAfter
<1> QED
  BY <1>2, <1>3, <1>4 DEF Whole

\* new is code with the cells of an instruction behind, e its depths.
Grows(code, depth, cells, new, e) ==
  /\ Len(code) \in Nat /\ Len(cells) = Size(cells[1]) /\ Len(new) = Len(code) + Len(cells)
  /\ \A i \in 1 .. Len(code) : new[i] = code[i]
  /\ \A i \in 1 .. Len(cells) : new[Len(code) + i] = cells[i]
  /\ DOMAIN code = 1 .. Len(code) /\ DOMAIN new = 1 .. Len(new)
  /\ \A i \in 1 .. Len(code) + 1 : e[i] = depth[i]
  /\ \A i \in 1 .. Len(new) : e[i] >= 0 => i \in 1 .. Len(code) \/ i = Len(code) + 1
  /\ e[Len(code) + 1] \in Nat

LEMMA StraightGrows ==
  ASSUME NEW code \in Seq(Nat), NEW depth, Straight(code, depth),
         NEW cells, IsInstruction(cells, depth[Len(code) + 1])
  PROVE  LET new   == code \o cells
             after == DepthAfter(cells, 1, depth[Len(code) + 1])
             e     == Longer(depth, Len(code), Len(cells), after)
         IN  Straight(new, e) /\ Grows(code, depth, cells, new, e) /\ e[Len(new) + 1] = after
<1> DEFINE n     == Len(code)
           size  == Len(cells)
           t     == depth[n + 1]
           new   == code \o cells
           after == DepthAfter(cells, 1, t)
           e     == Longer(depth, n, size, after)
<1>1. n \in Nat /\ IsSeq(code) /\ IsSeq(cells) /\ size = Size(cells[1]) /\ size \in 1 .. 3
  <2>1. n \in Nat /\ IsSeq(code)
    BY SeqIsSeq
  <2> QED
    BY <2>1, SizeIs DEF IsInstruction
<1>2. /\ Len(new) = n + size
      /\ \A i \in 1 .. n : new[i] = code[i]
      /\ \A k \in 1 .. size : new[n + k] = cells[k]
  <2>1. IsSeq(code) /\ IsSeq(cells)
    BY <1>1
  <2>2. Len(new) = n + size /\ \A i \in 1 .. n : new[i] = code[i]
    BY <2>1, ConcatFacts
  <2>3. \A k \in 1 .. size : new[n + k] = cells[k]
    BY <2>1, ConcatAfter
  <2> QED
    BY <2>2, <2>3
<1>3. depth \in [1 .. n + 1 -> Int] /\ t \in Int /\ depth[1] = 0
  BY <1>1 DEF Straight
<1>4. \A i \in 1 .. n : depth[i] >= 0 => Whole(code, depth, i)
  BY DEF Straight
<1>5. /\ cells[1] \in Ops /\ \A k \in 1 .. size - 1 : cells[1 + k] \in Byte
      /\ t >= Pops(cells, 1)
      /\ cells[1] = kReturn => t = 1
      /\ cells[1] \in JumpOps => after = 0
  BY <1>1 DEF IsInstruction
<1>6. Pops(cells, 1) \in Nat /\ Pushes(cells[1]) \in {0, 1}
  <2>1. cells[1] = kCall => cells[1 + 1] \in Byte
    BY <1>1, <1>5, SizeIs
  <2>2. \A b \in Byte : b + 1 \in Nat
    BY ByteSizeAssumption DEF Byte
  <2> QED
    BY <2>1, <2>2 DEF Pops, Pushes
<1>7. t \in Nat /\ after \in Nat
  <2>1. \A x \in Int, y \in Nat, z \in {0, 1} : x >= y => x \in Nat /\ (x - y) + z \in Nat
    OBVIOUS
  <2> HIDE DEF t
  <2> QED
    BY <1>3, <1>5, <1>6, <2>1 DEF DepthAfter
<1> HIDE DEF n, size, t, new, after
<1>8. /\ e \in [1 .. (n + size) + 1 -> Int]
      /\ \A i \in 1 .. n + 1 : e[i] = depth[i]
      /\ \A i \in n + 2 .. n + size : e[i] = -1
      /\ e[(n + 1) + size] = after
  <2>1. /\ (n + 1) + size \in 1 .. (n + size) + 1 /\ ~((n + 1) + size <= n + 1)
        /\ (n + size) + 1 = n + size + 1 /\ (n + 1) + size = n + size + 1
    BY <1>1
  <2>2. e \in [1 .. n + size + 1 -> Int]
    BY <1>1, <1>3, <1>7 DEF Longer
  <2>3. \A i \in 1 .. n + 1 : e[i] = depth[i]
    BY <1>1 DEF Longer
  <2>4. \A i \in n + 2 .. n + size : e[i] = -1
    BY <1>1 DEF Longer
  <2>5. e[n + size + 1] = after
    BY <2>1 DEF Longer
  <2> QED
    BY <2>1, <2>2, <2>3, <2>4, <2>5
<1> HIDE DEF e
<1>9. e[1] = 0
  BY <1>1, <1>3, <1>8
<1>10. ASSUME NEW i \in 1 .. n, depth[i] >= 0 PROVE Whole(new, e, i)
  <2>1. Whole(code, depth, i) /\ Size(code[i]) \in 1 .. 3 /\ i + Size(code[i]) <= n + 1
    BY <1>4, <1>10, SizeIs DEF Whole, n
  <2>2. new[i] = code[i]
    BY <1>2
  <2>3. ASSUME NEW k \in 1 .. Size(code[i]) - 1
        PROVE  new[i + k] \in Byte /\ new[i + k] = code[i + k]
    <3>1. i + k \in 1 .. n
      BY <1>1, <2>1
    <3>2. code[i + k] \in Byte
      BY <2>1 DEF Whole
    <3> QED
      BY <1>2, <3>1, <3>2
  <2>4. ASSUME NEW k \in 0 .. Size(code[i]) PROVE e[i + k] = depth[i + k]
    <3>1. i + k \in 1 .. n + 1
      BY <1>1, <2>1
    <3> QED
      BY <1>8, <3>1
  <2>5. i + Size(code[i]) <= Len(new) + 1 /\ i \in Nat
    BY <1>1, <1>2, <2>1
  <2> QED
    BY <2>1, <2>2, <2>3, <2>4, <2>5, WholeStays
<1>11. Whole(new, e, n + 1)
  <2>1. \A k \in 1 .. size - 1 : 1 + k \in 1 .. size /\ (n + 1) + k = n + (1 + k)
    BY <1>1
  <2>2. new[n + 1] = cells[1] /\ \A k \in 1 .. size - 1 : new[(n + 1) + k] = cells[1 + k]
    BY <1>1, <1>2, <2>1
  <2>3. \A k \in 1 .. size - 1 : e[(n + 1) + k] = -1
    <3>1. \A k \in 1 .. size - 1 : (n + 1) + k \in n + 2 .. n + size
      BY <1>1
    <3> QED
      BY <1>8, <3>1
  <2>4. e[n + 1] = t
    BY <1>1, <1>8 DEF t
  <2>5. Pops(new, n + 1) = Pops(cells, 1)
    <3>1. CASE cells[1] = kCall
      <4>1. size = 2
        BY <1>1, <3>1, SizeIs
      <4>2. 1 \in 1 .. size - 1
        BY <4>1
      <4>3. new[(n + 1) + 1] = cells[1 + 1]
        BY <2>2, <4>2
      <4> QED
        BY <2>2, <3>1, <4>3 DEF Pops
    <3>2. CASE cells[1] # kCall
      BY <2>2, <3>2 DEF Pops
    <3> QED
      BY <3>1, <3>2
  <2>6. DepthAfter(new, n + 1, t) = after
    BY <2>2, <2>5 DEF DepthAfter, after
  <2>7. (n + 1) + Size(cells[1]) <= Len(new) + 1
    BY <1>1, <1>2
  <2> QED
    BY <1>1, <1>5, <1>8, <2>2, <2>3, <2>4, <2>5, <2>6, <2>7 DEF Whole
<1>12. ASSUME NEW i \in 1 .. n + size, e[i] >= 0 PROVE Whole(new, e, i)
  <2>1. i \in 1 .. n \/ i = n + 1 \/ i \in n + 2 .. n + size
    BY <1>1
  <2>2. CASE i \in 1 .. n
    <3>1. e[i] = depth[i]
      BY <1>1, <1>8, <2>2
    <3> QED
      BY <1>10, <1>12, <2>2, <3>1
  <2>3. CASE i = n + 1
    BY <1>11, <2>3
  <2>4. CASE i \in n + 2 .. n + size
    BY <1>8, <1>12, <2>4
  <2> QED
    BY <2>1, <2>2, <2>3, <2>4
<1>13. Straight(new, e)
  BY <1>2, <1>8, <1>9, <1>12 DEF Straight
<1>14. Grows(code, depth, cells, new, e)
  <2>1. DOMAIN code = 1 .. n
    BY DEF n
  <2>2. DOMAIN new = 1 .. Len(new)
    <3>1. IsSeq(new)
      BY <1>1, ConcatFacts DEF new
    <3> QED
      BY <3>1, SeqFacts
  <2>3. \A i \in 1 .. n + size : e[i] >= 0 => i \in 1 .. n \/ i = n + 1
    <3>1. \A i \in 1 .. n + size : i \in 1 .. n \/ i = n + 1 \/ i \in n + 2 .. n + size
      BY <1>1
    <3>2. \A i \in n + 2 .. n + size : ~(e[i] >= 0)
      BY <1>8
    <3> QED
      BY <3>1, <3>2
  <2>4. e[n + 1] \in Nat
    BY <1>1, <1>7, <1>8 DEF t
  <2>5. \A i \in 1 .. size : new[n + i] = cells[i]
    BY <1>2
  <2> QED
    BY <1>1, <1>2, <1>8, <2>1, <2>2, <2>3, <2>4, <2>5 DEF Grows, n, size
<1>15. e[Len(new) + 1] = after
  <2>1. Len(new) + 1 = (n + 1) + size
    BY <1>1, <1>2
  <2> QED
    BY <1>8, <2>1
<1> QED
  BY <1>13, <1>14, <1>15 DEF new, e, after, t, n, size

\* An instruction of code, and where a jump leads.
LEMMA InsideGrown ==
  ASSUME NEW code, NEW depth, Straight(code, depth), NEW cells, NEW new, NEW e, Grows(code, depth, cells, new, e),
         NEW i \in 1 .. Len(code), depth[i] >= 0
  PROVE  /\ new[i] = code[i] /\ e[i] = depth[i] /\ i + Size(code[i]) <= Len(code) + 1
         /\ code[i] \in LiteralOps => i + 1 \in 1 .. Len(code) /\ new[i + 1] = code[i + 1]
         /\ code[i] \in JumpOps =>
              /\ i + 2 \in 1 .. Len(code)
              /\ Targeted(code, depth, i) => Targeted(new, e, i)
<1>1. i \in 1 .. Len(code) + 1 /\ Len(code) \in Nat /\ i + Size(code[i]) <= Len(code) + 1
  BY DEF Grows, Straight, Whole
<1>2. new[i] = code[i] /\ e[i] = depth[i]
  BY <1>1 DEF Grows
<1>3. ASSUME code[i] \in LiteralOps PROVE i + 1 \in 1 .. Len(code) /\ new[i + 1] = code[i + 1]
  <2>1. i + 1 \in 1 .. Len(code)
    BY <1>1, <1>3, SizeIs
  <2> QED
    BY <2>1 DEF Grows
<1>4. ASSUME code[i] \in JumpOps PROVE i + 2 \in 1 .. Len(code)
  BY <1>1, <1>4, SizeIs
<1>5. ASSUME code[i] \in JumpOps, Targeted(code, depth, i) PROVE Targeted(new, e, i)
  <2>1. SUFFICES ASSUME OffsetsFit(new)
                 PROVE  JumpTarget(new, i) \in i + 1 .. Len(new) + 1 /\ e[JumpTarget(new, i)] = 0
    BY DEF Targeted
  <2>2. Len(new) \in Nat /\ Len(code) <= Len(new)
    <3>1. Len(cells) \in 1 .. 3
      BY SizeIs DEF Grows
    <3> QED
      BY <1>1, <3>1 DEF Grows
  <2>3. OffsetsFit(code)
    <3>1. \A x, y \in Nat, z \in Int : x <= y /\ 2 * y < z => 2 * x < z
      OBVIOUS
    <3>2. ByteSize * ByteSize \in Int
      BY ByteSizeAssumption
    <3> QED
      BY <1>1, <2>1, <2>2, <3>1, <3>2 DEF OffsetsFit
  <2>4. i + 1 \in 1 .. Len(code) /\ i + 2 \in 1 .. Len(code)
    BY <1>1, <1>4, <1>5
  <2>5. JumpTarget(new, i) = JumpTarget(code, i)
    BY <2>4 DEF JumpTarget, Grows
  <2>6. PICK target : target = JumpTarget(code, i)
    OBVIOUS
  <2>7. target \in i + 1 .. Len(code) + 1 /\ depth[target] = 0
    BY <1>5, <2>3, <2>6 DEF Targeted
  <2>8. target \in 1 .. Len(code) + 1 /\ target \in i + 1 .. Len(new) + 1
    BY <1>1, <2>2, <2>7
  <2>9. e[target] = depth[target]
    BY <2>8 DEF Grows
  <2> QED
    BY <2>5, <2>6, <2>7, <2>8, <2>9
<1> QED
  BY <1>1, <1>2, <1>3, <1>4, <1>5

LEMMA GrownAtEnd ==
  ASSUME NEW code, NEW depth, NEW cells, NEW new, NEW e, Grows(code, depth, cells, new, e)
  PROVE  /\ Len(code) \in Nat /\ Len(cells) \in 1 .. 3 /\ Len(new) = Len(code) + Len(cells)
         /\ cells[1] \in JumpOps => Len(cells) = 3
         /\ cells[1] \in LiteralOps => Len(cells) = 2
         /\ new[Len(code) + 1] = cells[1]
<1>1. Len(cells) \in 1 .. 3 /\ (cells[1] \in JumpOps => Len(cells) = 3) /\ (cells[1] \in LiteralOps => Len(cells) = 2)
  BY SizeIs DEF Grows
<1>2. 1 \in 1 .. Len(cells)
  BY <1>1
<1> QED
  BY <1>1, <1>2 DEF Grows

\* A jump that is emitted is open.
JumpPlace(cells, new) == IF cells[1] \in JumpOps THEN {Len(new)} ELSE {}

LEMMA OpenedGrows ==
  ASSUME NEW code, NEW depth, Straight(code, depth), NEW cells, NEW new, NEW e, Grows(code, depth, cells, new, e),
         NEW open, Opened(code, depth, open), Landing(code, depth, open)
  PROVE  LET opened == open \union JumpPlace(cells, new) IN Opened(new, e, opened) /\ Landing(new, e, opened)
<1> DEFINE more == JumpPlace(cells, new)
<1>0. more = IF cells[1] \in JumpOps THEN {Len(new)} ELSE {}
  BY DEF JumpPlace
<1> HIDE DEF more
<1>1. /\ Len(code) \in Nat /\ Len(cells) \in 1 .. 3 /\ Len(new) = Len(code) + Len(cells)
      /\ cells[1] \in JumpOps => Len(cells) = 3
      /\ new[Len(code) + 1] = cells[1]
  BY GrownAtEnd
<1>2. ASSUME NEW p \in open PROVE p \in 3 .. Len(new) /\ e[p - 2] >= 0 /\ new[p - 2] \in JumpOps
  <2>1. p \in 3 .. Len(code) /\ depth[p - 2] >= 0 /\ code[p - 2] \in JumpOps
    BY DEF Opened
  <2>2. p - 2 \in 1 .. Len(code) /\ p \in 3 .. Len(new)
    BY <1>1, <2>1
  <2> QED
    BY <2>1, <2>2, InsideGrown
<1>3. ASSUME cells[1] \in JumpOps, NEW p, p = Len(new)
      PROVE  p \in 3 .. Len(new) /\ e[p - 2] >= 0 /\ new[p - 2] \in JumpOps
  <2>1. \A n \in Nat : \A l : l = 3 => (n + l) - 2 = n + 1 /\ n + l \in 3 .. n + l
    OBVIOUS
  <2>2. Len(code) \in Nat /\ Len(cells) = 3 /\ p = Len(code) + Len(cells) /\ p = Len(new)
    BY <1>1, <1>3
  <2>3. p - 2 = Len(code) + 1 /\ p \in 3 .. Len(new)
    BY <2>1, <2>2
  <2>4. e[Len(code) + 1] >= 0
    BY DEF Grows
  <2> QED
    BY <1>1, <1>3, <2>3, <2>4
<1>4. ASSUME NEW i \in 1 .. Len(new), e[i] >= 0, new[i] \in JumpOps
      PROVE  i + 2 \in open \union more \/ Targeted(new, e, i)
  <2>1. i \in 1 .. Len(code) \/ i = Len(code) + 1
    BY <1>4 DEF Grows
  <2>2. CASE i \in 1 .. Len(code)
    <3>1. new[i] = code[i] /\ e[i] = depth[i]
      <4>1. i \in 1 .. Len(code) + 1
        BY <1>1, <2>2
      <4> QED
        BY <2>2, <4>1 DEF Grows
    <3>2. i + 2 \in open \/ Targeted(code, depth, i)
      BY <1>4, <2>2, <3>1 DEF Landing
    <3> QED
      BY <1>4, <2>2, <3>1, <3>2, InsideGrown
  <2>3. CASE i = Len(code) + 1
    <3>1. \A n \in Nat : \A l : l = 3 => (n + 1) + 2 = n + l
      OBVIOUS
    <3>2. cells[1] \in JumpOps /\ Len(cells) = 3
      BY <1>1, <1>4, <2>3
    <3>3. i + 2 = Len(new)
      BY <1>1, <2>3, <3>1, <3>2
    <3> QED
      BY <1>0, <3>2, <3>3
  <2> QED
    BY <2>1, <2>2, <2>3
<1>5. Opened(new, e, open \union more) /\ Landing(new, e, open \union more)
  BY <1>0, <1>2, <1>3, <1>4 DEF Opened, Landing
<1> QED
  BY <1>5 DEF more

LEMMA EndsGrow ==
  ASSUME NEW old, NEW depth, NEW cells, NEW new, NEW e, Grows(old.code, depth, cells, new.code, e),
         EndsFlat(old, depth), new.ends = old.ends,
         \A b \in new.breaks : b \in old.breaks \/ \A f \in old.ends : f.stmt # b.stmt
  PROVE  EndsFlat(new, e)
<1>1. Len(old.code) \in Nat /\ Len(cells) \in 1 .. 3 /\ Len(new.code) = Len(old.code) + Len(cells)
  BY GrownAtEnd
<1> SUFFICES ASSUME NEW f \in old.ends
             PROVE  /\ f.at \in 0 .. Len(new.code) /\ e[f.at + 1] = 0
                    /\ \A b \in new.breaks : b.stmt = f.stmt => b.at <= f.at
  BY DEF EndsFlat
<1>2. f.at \in 0 .. Len(old.code) /\ depth[f.at + 1] = 0 /\ \A b \in old.breaks : b.stmt = f.stmt => b.at <= f.at
  BY DEF EndsFlat
<1>3. f.at + 1 \in 1 .. Len(old.code) + 1 /\ f.at \in 0 .. Len(new.code)
  BY <1>1, <1>2
<1>4. e[f.at + 1] = depth[f.at + 1]
  BY <1>3 DEF Grows
<1> QED
  BY <1>2, <1>3, <1>4

\* An instruction that uses no literal.
LEMMA NamedGrows ==
  ASSUME NEW old, NEW depth, Straight(old.code, depth), NEW cells, NEW new, NEW e,
         Grows(old.code, depth, cells, new.code, e), new.literals = old.literals,
         cells[1] \notin LiteralOps, NEW lit, Named(old, depth, lit)
  PROVE  Named(new, e, lit)
<1>1. /\ Len(old.code) \in Nat /\ Len(cells) \in 1 .. 3 /\ Len(new.code) = Len(old.code) + Len(cells)
      /\ new.code[Len(old.code) + 1] = cells[1]
      /\ DOMAIN old.code = 1 .. Len(old.code) /\ DOMAIN new.code = 1 .. Len(new.code)
  <2>1. /\ Len(old.code) \in Nat /\ Len(cells) \in 1 .. 3 /\ Len(new.code) = Len(old.code) + Len(cells)
        /\ new.code[Len(old.code) + 1] = cells[1]
    BY GrownAtEnd
  <2>2. DOMAIN old.code = 1 .. Len(old.code) /\ DOMAIN new.code = 1 .. Len(new.code)
    BY DEF Grows
  <2> QED
    BY <2>1, <2>2
<1>2. /\ IsSeq(lit) /\ Increasing(lit)
      /\ \A k \in DOMAIN lit :
           lit[k] \in 1 .. Len(old.code) /\ depth[lit[k]] >= 0 /\ lit[k] \in LiteralUses(old.code)
      /\ \A i \in 1 .. Len(old.code) :
           depth[i] >= 0 /\ i \in LiteralUses(old.code) => \E k \in DOMAIN lit : lit[k] = i
  BY DEF Named, Lists
<1>3. ASSUME NEW k \in DOMAIN lit
      PROVE  /\ lit[k] \in 1 .. Len(new.code) /\ e[lit[k]] >= 0 /\ lit[k] \in LiteralUses(new.code)
             /\ new.code[lit[k]] = old.code[lit[k]] /\ new.code[lit[k] + 1] = old.code[lit[k] + 1]
  <2>1. PICK i : i = lit[k]
    OBVIOUS
  <2>2. i \in 1 .. Len(old.code) /\ depth[i] >= 0 /\ old.code[i] \in LiteralOps
    BY <1>2, <2>1 DEF LiteralUses, LiteralOps
  <2>3. new.code[i] = old.code[i] /\ e[i] = depth[i] /\ new.code[i + 1] = old.code[i + 1]
    BY <2>2, InsideGrown
  <2>4. i \in 1 .. Len(new.code)
    BY <1>1, <2>2
  <2> QED
    BY <1>1, <2>1, <2>2, <2>3, <2>4 DEF LiteralUses, LiteralOps
<1>4. ASSUME NEW i \in 1 .. Len(new.code), e[i] >= 0, i \in LiteralUses(new.code)
      PROVE  \E k \in DOMAIN lit : lit[k] = i
  <2>1. i \in 1 .. Len(old.code) \/ i = Len(old.code) + 1
    BY <1>4 DEF Grows
  <2>2. i # Len(old.code) + 1
    BY <1>1, <1>4 DEF LiteralUses, LiteralOps
  <2>3. i \in 1 .. Len(old.code) + 1
    BY <1>1, <2>1, <2>2
  <2>4. new.code[i] = old.code[i] /\ e[i] = depth[i]
    BY <2>1, <2>2, <2>3 DEF Grows
  <2>5. i \in LiteralUses(old.code)
    BY <1>1, <1>4, <2>1, <2>2, <2>4 DEF LiteralUses
  <2> QED
    BY <1>2, <1>4, <2>1, <2>2, <2>4, <2>5
<1>5. Lists(new.code, e, LiteralUses(new.code), lit)
  BY <1>2, <1>3, <1>4 DEF Lists
<1>6. \A k \in DOMAIN lit :
        /\ new.code[lit[k] + 1] = (k - 1) % ByteSize
        /\ new.literals[k].t = "String" <=> new.code[lit[k]] # kPushLiteral
  BY <1>3 DEF Named
<1> QED
  BY <1>5, <1>6 DEF Named

\* An instruction that uses a new literal.
LEMMA NamedGrowsToo ==
  ASSUME NEW old, IsSeq(old.literals), NEW depth, Straight(old.code, depth), NEW cells, NEW new, NEW e,
         Grows(old.code, depth, cells, new.code, e), NEW literal, new.literals = Append(old.literals, literal),
         cells[1] \in LiteralOps, cells[2] = Len(old.literals) % ByteSize,
         literal.t = "String" <=> cells[1] # kPushLiteral, NEW lit, Named(old, depth, lit)
  PROVE  Named(new, e, Append(lit, Len(old.code) + 1))
<1> DEFINE n   == Len(old.code)
           m   == Len(lit)
           new_lit == Append(lit, n + 1)
<1>1. /\ n \in Nat /\ Len(cells) = 2 /\ Len(new.code) = n + 2
      /\ new.code[n + 1] = cells[1] /\ new.code[(n + 1) + 1] = cells[2]
      /\ DOMAIN old.code = 1 .. n /\ DOMAIN new.code = 1 .. Len(new.code)
      /\ e[n + 1] \in Nat
  <2>1. n \in Nat /\ Len(cells) = 2 /\ Len(new.code) = n + Len(cells) /\ new.code[n + 1] = cells[1]
    <3>1. /\ Len(old.code) \in Nat /\ Len(new.code) = Len(old.code) + Len(cells)
          /\ cells[1] \in LiteralOps => Len(cells) = 2
          /\ new.code[Len(old.code) + 1] = cells[1]
      <4>1. Grows(old.code, depth, cells, new.code, e)
        OBVIOUS
      <4> QED
        BY ONLY <4>1, GrownAtEnd
    <3> QED
      BY <3>1
  <2>2. DOMAIN old.code = 1 .. n /\ DOMAIN new.code = 1 .. Len(new.code) /\ e[n + 1] \in Nat
    BY DEF Grows
  <2>3. 2 \in 1 .. Len(cells) /\ n + 2 = (n + 1) + 1
    BY <2>1
  <2>4. new.code[n + 2] = cells[2]
    BY <2>3 DEF Grows
  <2> QED
    BY <2>1, <2>2, <2>3, <2>4
<1>2. /\ IsSeq(lit) /\ Increasing(lit)
      /\ \A k \in DOMAIN lit : lit[k] \in 1 .. n /\ depth[lit[k]] >= 0 /\ lit[k] \in LiteralUses(old.code)
      /\ \A i \in 1 .. n : depth[i] >= 0 /\ i \in LiteralUses(old.code) => \E k \in DOMAIN lit : lit[k] = i
      /\ m = Len(old.literals)
      /\ \A k \in DOMAIN lit :
           /\ old.code[lit[k] + 1] = (k - 1) % ByteSize
           /\ old.literals[k].t = "String" <=> old.code[lit[k]] # kPushLiteral
  BY DEF Named, Lists
<1>3. /\ IsSeq(new_lit) /\ DOMAIN new_lit = 1 .. m + 1 /\ DOMAIN lit = 1 .. m /\ m \in Nat
      /\ \A k \in 1 .. m : new_lit[k] = lit[k] /\ new.literals[k] = old.literals[k]
      /\ new_lit[m + 1] = n + 1 /\ new.literals[m + 1] = literal
      /\ Len(new_lit) = m + 1 /\ Len(new.literals) = m + 1
  <2>1. DOMAIN lit = 1 .. m /\ m \in Nat /\ DOMAIN old.literals = 1 .. m
    BY <1>2, SeqFacts
  <2>2. /\ IsSeq(new_lit) /\ DOMAIN new_lit = 1 .. m + 1 /\ new_lit[m + 1] = n + 1
        /\ \A k \in 1 .. m : new_lit[k] = lit[k]
    BY <1>2, <2>1, AppendFacts
  <2>3. new.literals[m + 1] = literal /\ \A k \in 1 .. m : new.literals[k] = old.literals[k]
    BY <1>2, <2>1, AppendFacts
  <2>4. Len(new_lit) = m + 1 /\ Len(new.literals) = m + 1
    BY <1>2, AppendLen
  <2> QED
    BY <2>1, <2>2, <2>3, <2>4
<1> HIDE DEF n, m, new_lit
<1>4. \A k \in 1 .. m + 1 : k \in 1 .. m \/ k = m + 1
  BY <1>3
<1>5. ASSUME NEW k \in 1 .. m
      PROVE  /\ lit[k] \in 1 .. Len(new.code) /\ e[lit[k]] >= 0 /\ lit[k] \in LiteralUses(new.code)
             /\ new.code[lit[k]] = old.code[lit[k]] /\ new.code[lit[k] + 1] = old.code[lit[k] + 1]
  <2>1. PICK i : i = lit[k]
    OBVIOUS
  <2>2. i \in 1 .. Len(old.code) /\ depth[i] >= 0 /\ old.code[i] \in LiteralOps
    BY <1>2, <1>3, <2>1 DEF LiteralUses, LiteralOps, n
  <2>3. new.code[i] = old.code[i] /\ e[i] = depth[i] /\ new.code[i + 1] = old.code[i + 1]
    BY <2>2, InsideGrown
  <2>4. i \in 1 .. Len(new.code)
    BY <1>1, <2>2 DEF n
  <2> QED
    BY <1>1, <2>1, <2>2, <2>3, <2>4 DEF LiteralUses, LiteralOps
<1>6. n + 1 \in 1 .. Len(new.code) /\ e[n + 1] >= 0 /\ n + 1 \in LiteralUses(new.code)
  BY <1>1 DEF LiteralUses, LiteralOps
<1>7. Increasing(new_lit)
  <2> SUFFICES ASSUME NEW i \in 1 .. m + 1, NEW j \in 1 .. m + 1, i < j PROVE new_lit[i] < new_lit[j]
    BY <1>3 DEF Increasing
  <2>1. i \in 1 .. m
    BY <1>3
  <2>2. CASE j \in 1 .. m
    BY <1>2, <1>3, <2>1, <2>2 DEF Increasing
  <2>3. CASE j = m + 1
    <3>1. lit[i] \in 1 .. n
      BY <1>2, <1>3, <2>1
    <3>2. \A x \in 1 .. n : x < n + 1
      BY <1>1
    <3> QED
      BY <1>3, <2>1, <2>3, <3>1, <3>2
  <2> QED
    BY <1>4, <2>2, <2>3
<1>8. ASSUME NEW i \in 1 .. Len(new.code), e[i] >= 0, i \in LiteralUses(new.code)
      PROVE  \E k \in DOMAIN new_lit : new_lit[k] = i
  <2>1. i \in 1 .. n \/ i = n + 1
    BY <1>8 DEF Grows, n
  <2>2. CASE i = n + 1
    BY <1>3, <2>2
  <2>3. CASE i \in 1 .. n
    <3>1. i \in 1 .. Len(old.code) + 1
      BY <1>1, <2>3 DEF n
    <3>2. new.code[i] = old.code[i] /\ e[i] = depth[i]
      BY <2>3, <3>1 DEF Grows, n
    <3>3. i \in LiteralUses(old.code)
      BY <1>1, <1>8, <2>3, <3>2 DEF LiteralUses
    <3>4. PICK k \in DOMAIN lit : lit[k] = i
      BY <1>2, <1>8, <2>3, <3>2, <3>3
    <3>5. k \in 1 .. m /\ k \in 1 .. m + 1
      BY <1>3, <3>4
    <3> QED
      BY <1>3, <3>4, <3>5
  <2> QED
    BY <2>1, <2>2, <2>3
<1>9. Lists(new.code, e, LiteralUses(new.code), new_lit)
  BY <1>3, <1>4, <1>5, <1>6, <1>7, <1>8 DEF Lists
<1>10. ASSUME NEW k \in 1 .. m + 1
       PROVE  /\ new.code[new_lit[k] + 1] = (k - 1) % ByteSize
              /\ new.literals[k].t = "String" <=> new.code[new_lit[k]] # kPushLiteral
  <2>1. CASE k \in 1 .. m
    <3>1. /\ k \in DOMAIN lit /\ new_lit[k] = lit[k] /\ new.literals[k] = old.literals[k]
          /\ new.code[lit[k]] = old.code[lit[k]] /\ new.code[lit[k] + 1] = old.code[lit[k] + 1]
      BY <1>3, <1>5, <2>1
    <3>2. /\ old.code[lit[k] + 1] = (k - 1) % ByteSize
          /\ old.literals[k].t = "String" <=> old.code[lit[k]] # kPushLiteral
      BY <1>2, <3>1
    <3> QED
      BY <3>1, <3>2
  <2>2. CASE k = m + 1
    <3>1. k - 1 = m
      BY <1>3, <2>2
    <3> QED
      BY <1>1, <1>2, <1>3, <2>2, <3>1
  <2> QED
    BY <1>4, <2>1, <2>2
<1> QED
  BY <1>3, <1>9, <1>10 DEF Named, new_lit, n

End(gen, depth) == depth[Len(gen.code) + 1]

\* What else there is in the encoder: a literal for the instruction that uses one, and
\* a break is of a statement that has not ended.
EmitsTo(old, cells, new) ==
  /\ new.code = old.code \o cells
  /\ \/ cells[1] \notin LiteralOps /\ new.literals = old.literals
     \/ \E literal :
          /\ cells[1] \in LiteralOps /\ cells[2] = Len(old.literals) % ByteSize
          /\ new.literals = Append(old.literals, literal)
          /\ literal.t = "String" <=> cells[1] # kPushLiteral
  /\ new.ends = old.ends
  /\ \A b \in new.breaks : b \in old.breaks \/ \A f \in old.ends : f.stmt # b.stmt

\* What is open then: more are the pasts.
OpensTo(old, pasts, cells, new, more) ==
  more \union BreakPlaces(new) = (pasts \union BreakPlaces(old)) \union JumpPlace(cells, new.code)

LEMMA CodedGrows ==
  ASSUME NEW old, old.code \in Seq(Nat), IsSeq(old.literals), NEW depth, NEW lit, NEW pasts,
         Coded(old, depth, lit, pasts), NEW cells, IsInstruction(cells, End(old, depth)),
         NEW new, EmitsTo(old, cells, new), NEW more, OpensTo(old, pasts, cells, new, more)
  PROVE  \E e, l : Coded(new, e, l, more) /\ End(new, e) = DepthAfter(cells, 1, End(old, depth))
<1> DEFINE after == DepthAfter(cells, 1, End(old, depth))
           e     == Longer(depth, Len(old.code), Len(cells), after)
<1>1. Straight(old.code, depth) /\ new.code = old.code \o cells
  BY DEF Coded, EmitsTo
<1>2. Straight(new.code, e) /\ Grows(old.code, depth, cells, new.code, e) /\ End(new, e) = after
  BY <1>1, StraightGrows DEF End
<1> HIDE DEF e, after
<1>3. Opened(new.code, e, more \union BreakPlaces(new)) /\ Landing(new.code, e, more \union BreakPlaces(new))
  <2>1. PICK open : open = pasts \union BreakPlaces(old)
    OBVIOUS
  <2>2. Opened(old.code, depth, open) /\ Landing(old.code, depth, open)
    BY <2>1 DEF Coded
  <2>3. Opened(new.code, e, open \union JumpPlace(cells, new.code)) /\ Landing(new.code, e, open \union JumpPlace(cells, new.code))
    <3>1. /\ Straight(old.code, depth) /\ Grows(old.code, depth, cells, new.code, e)
          /\ Opened(old.code, depth, open) /\ Landing(old.code, depth, open)
      BY <1>1, <1>2, <2>2
    <3> QED
      BY ONLY <3>1, OpenedGrows
  <2> QED
    BY <2>1, <2>3 DEF OpensTo
<1>4. EndsFlat(new, e)
  BY <1>2, EndsGrow DEF Coded, EmitsTo
<1>5. PICK l : Named(new, e, l)
  <2>1. Named(old, depth, lit)
    BY DEF Coded
  <2>2. CASE cells[1] \notin LiteralOps /\ new.literals = old.literals
    BY <1>1, <1>2, <2>1, <2>2, NamedGrows
  <2>3. ASSUME NEW literal, cells[1] \in LiteralOps, cells[2] = Len(old.literals) % ByteSize,
               new.literals = Append(old.literals, literal), literal.t = "String" <=> cells[1] # kPushLiteral
        PROVE  \E l : Named(new, e, l)
    BY <1>1, <1>2, <2>1, <2>3, NamedGrowsToo
  <2> QED
    BY <2>2, <2>3 DEF EmitsTo
<1>6. Coded(new, e, l, more)
  BY <1>2, <1>3, <1>4, <1>5 DEF Coded
<1> QED
  BY <1>2, <1>6 DEF after

-----------------------------------------------------------------------------
(***************************************************************************)
(* Jumps are patched.                                                      *)
(***************************************************************************)
\* new is code with bytes in the cells of some of its open jumps.
Recodes(code, depth, new, places) ==
  /\ Len(code) \in Nat /\ Len(new) = Len(code) /\ DOMAIN code = 1 .. Len(code) /\ DOMAIN new = 1 .. Len(code)
  /\ Straight(code, depth) /\ Opened(code, depth, places)
  /\ \A i \in 1 .. Len(code) :
       new[i] = code[i] \/ (new[i] \in Byte /\ \E p \in places : i = p \/ i = p - 1)

LEMMA RecodedAt ==
  ASSUME NEW code, NEW depth, NEW new, NEW places, Recodes(code, depth, new, places),
         NEW i \in 1 .. Len(code), depth[i] >= 0
  PROVE  /\ new[i] = code[i] /\ i + Size(code[i]) <= Len(code) + 1 /\ Size(code[i]) \in 1 .. 3
         /\ \A k \in 1 .. Size(code[i]) - 1 :
              new[i + k] \in Byte /\ (code[i] \notin JumpOps \/ i + 2 \notin places => new[i + k] = code[i + k])
<1> DEFINE n == Len(code)
<1>1. n \in Nat
  BY DEF Recodes
<1>2. Whole(code, depth, i) /\ Size(code[i]) \in 1 .. 3 /\ i + Size(code[i]) <= n + 1
  BY SizeIs DEF Recodes, Straight, Whole
<1>3. ASSUME NEW p \in places
      PROVE  /\ p \in 3 .. n /\ code[p - 2] \in JumpOps
             /\ depth[p - 2] >= 0 /\ depth[p - 1] = -1 /\ depth[p] = -1
  <2>1. p \in 3 .. n /\ depth[p - 2] >= 0 /\ code[p - 2] \in JumpOps
    BY DEF Recodes, Opened
  <2>2. p - 2 \in 1 .. n /\ (p - 2) + 1 = p - 1 /\ (p - 2) + 2 = p
    BY <1>1, <2>1
  <2>3. Whole(code, depth, p - 2)
    BY <2>1, <2>2 DEF Recodes, Straight
  <2>4. Size(code[p - 2]) = 3
    BY <2>1, SizeIs
  <2>5. 1 \in 1 .. Size(code[p - 2]) - 1 /\ 2 \in 1 .. Size(code[p - 2]) - 1
    BY <2>4
  <2>6. depth[(p - 2) + 1] = -1 /\ depth[(p - 2) + 2] = -1
    BY <2>3, <2>5 DEF Whole
  <2> QED
    BY <2>1, <2>2, <2>6
<1>4. new[i] = code[i]
  <2>1. ASSUME NEW p \in places PROVE i # p /\ i # p - 1
    BY <1>3
  <2> QED
    BY <2>1 DEF Recodes
<1> HIDE DEF n
<1>5. ASSUME NEW k \in 1 .. Size(code[i]) - 1
      PROVE  new[i + k] \in Byte /\ (code[i] \notin JumpOps \/ i + 2 \notin places => new[i + k] = code[i + k])
  <2>1. i + k \in 1 .. n /\ code[i + k] \in Byte /\ depth[i + k] = -1 /\ k \in {1, 2}
    <3>1. i + k \in 1 .. n /\ k \in {1, 2}
      BY <1>1, <1>2 DEF n
    <3> QED
      BY <1>2, <3>1 DEF Whole
  <2>2. CASE \E p \in places : i + k = p \/ i + k = p - 1
    <3>1. PICK p \in places : i + k = p \/ i + k = p - 1
      BY <2>2
    <3>2. p \in 3 .. n /\ code[p - 2] \in JumpOps /\ depth[p - 2] >= 0 /\ depth[p - 1] = -1 /\ depth[p] = -1
      BY <1>3 DEF n
    <3>3. i \in Nat /\ p \in Nat
      BY <1>1, <3>2 DEF n
    <3>4. i # p /\ i # p - 1
      BY <3>2
    <3>5. k = 2 => i + 1 # p - 2
      <4>1. k = 2 => depth[i + 1] = -1
        <5>1. k = 2 => 1 \in 1 .. Size(code[i]) - 1
          BY <1>2
        <5> QED
          BY <1>2, <5>1 DEF Whole
      <4> QED
        BY <3>2, <4>1
    <3>6. i = p - 2
      BY <2>1, <3>1, <3>3, <3>4, <3>5
    <3>7. code[i] \in JumpOps /\ i + 2 = p
      BY <3>2, <3>3, <3>6
    <3> QED
      BY <2>1, <3>7 DEF Recodes, n
  <2>3. CASE ~\E p \in places : i + k = p \/ i + k = p - 1
    BY <2>1, <2>3 DEF Recodes, n
  <2> QED
    BY <2>2, <2>3
<1> QED
  BY <1>2, <1>4, <1>5 DEF n

LEMMA StraightRecoded ==
  ASSUME NEW code, NEW depth, NEW new, NEW places, Recodes(code, depth, new, places)
  PROVE  Straight(new, depth)
<1>1. /\ Len(code) \in Nat /\ Len(new) = Len(code) /\ depth \in [1 .. Len(code) + 1 -> Int] /\ depth[1] = 0
  BY DEF Recodes, Straight
<1>2. ASSUME NEW i \in 1 .. Len(code), depth[i] >= 0 PROVE Whole(new, depth, i)
  <2>1. /\ new[i] = code[i] /\ i + Size(code[i]) <= Len(code) + 1
        /\ \A k \in 1 .. Size(code[i]) - 1 :
             new[i + k] \in Byte /\ (code[i] \notin JumpOps \/ i + 2 \notin places => new[i + k] = code[i + k])
    BY <1>2, RecodedAt
  <2>2. Whole(code, depth, i) /\ i \in Nat
    BY <1>2 DEF Recodes, Straight
  <2>3. i + Size(code[i]) <= Len(new) + 1
    BY <1>1, <2>1
  <2>4. \A k \in 0 .. Size(code[i]) : depth[i + k] = depth[i + k]
    OBVIOUS
  <2> QED
    BY <2>1, <2>2, <2>3, <2>4, WholeStays
<1> QED
  BY <1>1, <1>2 DEF Straight

\* Jumps whose cells are not written lead where they did.
LEMMA TargetedStill ==
  ASSUME NEW code, NEW depth, NEW new, NEW places, Recodes(code, depth, new, places),
         NEW i \in 1 .. Len(code), depth[i] >= 0, code[i] \in JumpOps, i + 2 \notin places, Targeted(code, depth, i)
  PROVE  Targeted(new, depth, i)
<1>1. Size(code[i]) = 3 /\ Len(new) = Len(code)
  BY SizeIs DEF Recodes
<1>2. new[i + 1] = code[i + 1] /\ new[i + 2] = code[i + 2]
  <2>1. 1 \in 1 .. Size(code[i]) - 1 /\ 2 \in 1 .. Size(code[i]) - 1
    BY <1>1
  <2>2. \A k \in 1 .. Size(code[i]) - 1 :
          new[i + k] \in Byte /\ (code[i] \notin JumpOps \/ i + 2 \notin places => new[i + k] = code[i + k])
    BY RecodedAt
  <2> QED
    BY <2>1, <2>2
<1>3. JumpTarget(new, i) = JumpTarget(code, i) /\ (OffsetsFit(new) <=> OffsetsFit(code))
  BY <1>1, <1>2 DEF JumpTarget, OffsetsFit
<1> QED
  BY <1>1, <1>3 DEF Targeted

LEMMA NamedRecoded ==
  ASSUME NEW old, NEW depth, NEW new, NEW places, Recodes(old.code, depth, new.code, places),
         new.literals = old.literals, NEW lit, Named(old, depth, lit)
  PROVE  Named(new, depth, lit)
<1>1. /\ Len(new.code) = Len(old.code)
      /\ DOMAIN old.code = 1 .. Len(old.code) /\ DOMAIN new.code = 1 .. Len(old.code)
  BY DEF Recodes
<1>2. ASSUME NEW i \in 1 .. Len(old.code), depth[i] >= 0
      PROVE  /\ new.code[i] = old.code[i]
             /\ i \in LiteralUses(new.code) <=> i \in LiteralUses(old.code)
             /\ i \in LiteralUses(old.code) => new.code[i + 1] = old.code[i + 1]
  <2>1. /\ new.code[i] = old.code[i]
        /\ \A k \in 1 .. Size(old.code[i]) - 1 :
             \/ old.code[i] \in JumpOps
             \/ new.code[i + k] = old.code[i + k]
    BY <1>2, RecodedAt
  <2>2. old.code[i] \in LiteralOps => 1 \in 1 .. Size(old.code[i]) - 1 /\ old.code[i] \notin JumpOps
    BY SizeIs
  <2> QED
    BY <1>1, <2>1, <2>2 DEF LiteralUses, LiteralOps
<1>3. /\ Lists(old.code, depth, LiteralUses(old.code), lit)
      /\ Len(lit) = Len(old.literals)
      /\ \A k \in DOMAIN lit :
           /\ old.code[lit[k] + 1] = (k - 1) % ByteSize
           /\ old.literals[k].t = "String" <=> old.code[lit[k]] # kPushLiteral
  BY DEF Named
<1>4. \A k \in DOMAIN lit : lit[k] \in 1 .. Len(old.code) /\ depth[lit[k]] >= 0 /\ lit[k] \in LiteralUses(old.code)
  BY <1>3 DEF Lists
<1>5. Lists(new.code, depth, LiteralUses(new.code), lit)
  BY <1>1, <1>2, <1>3, <1>4 DEF Lists
<1>6. \A k \in DOMAIN lit :
        /\ new.code[lit[k] + 1] = (k - 1) % ByteSize
        /\ new.literals[k].t = "String" <=> new.code[lit[k]] # kPushLiteral
  BY <1>2, <1>3, <1>4
<1> QED
  BY <1>3, <1>5, <1>6 DEF Named

\* What is left open is what was, but for what leads somewhere now.
LEMMA CodedRecoded ==
  ASSUME NEW old, NEW depth, NEW lit, NEW pasts, Coded(old, depth, lit, pasts),
         NEW new, NEW places, Recodes(old.code, depth, new.code, places),
         places \subseteq pasts \union BreakPlaces(old),
         new.literals = old.literals, new.breaks = old.breaks, EndsFlat(new, depth),
         NEW left, left \subseteq pasts, \A p \in pasts : p \in left \/ Targeted(new.code, depth, p - 2)
  PROVE  Coded(new, depth, lit, left)
<1>1. Straight(new.code, depth) /\ Named(new, depth, lit) /\ Len(new.code) = Len(old.code)
  BY StraightRecoded, NamedRecoded DEF Coded, Recodes
<1>2. BreakPlaces(new) = BreakPlaces(old)
  BY DEF BreakPlaces
<1>3. Opened(new.code, depth, left \union BreakPlaces(new))
  <2> SUFFICES ASSUME NEW p \in left \union BreakPlaces(new)
               PROVE  p \in 3 .. Len(new.code) /\ depth[p - 2] >= 0 /\ new.code[p - 2] \in JumpOps
    BY DEF Opened
  <2>1. p \in 3 .. Len(old.code) /\ depth[p - 2] >= 0 /\ old.code[p - 2] \in JumpOps
    BY <1>2 DEF Coded, Opened
  <2>2. Len(old.code) \in Nat
    BY DEF Recodes
  <2>3. p - 2 \in 1 .. Len(old.code)
    BY <2>1, <2>2
  <2>4. new.code[p - 2] = old.code[p - 2]
    BY <2>1, <2>3, RecodedAt
  <2> QED
    BY <1>1, <2>1, <2>4
<1>4. Landing(new.code, depth, left \union BreakPlaces(new))
  <2> SUFFICES ASSUME NEW i \in 1 .. Len(new.code), depth[i] >= 0, new.code[i] \in JumpOps,
                      i + 2 \notin left \union BreakPlaces(new)
               PROVE  Targeted(new.code, depth, i)
    BY DEF Landing
  <2>1. i \in 1 .. Len(old.code) /\ old.code[i] \in JumpOps
    BY <1>1, RecodedAt
  <2>2. CASE i + 2 \in pasts
    <3>1. (i + 2) - 2 = i
      BY <2>1
    <3>2. Targeted(new.code, depth, (i + 2) - 2)
      BY <2>2
    <3> QED
      BY <3>1, <3>2
  <2>3. CASE i + 2 \notin pasts
    <3>1. i + 2 \notin pasts \union BreakPlaces(old)
      BY <1>2, <2>3
    <3>2. Targeted(old.code, depth, i) /\ i + 2 \notin places
      BY <2>1, <3>1 DEF Coded, Landing
    <3> QED
      BY <2>1, <3>2, TargetedStill
  <2> QED
    BY <2>2, <2>3
<1> QED
  BY <1>1, <1>3, <1>4 DEF Coded

\* A jump that is patched to the end leads there.
LEMMA PatchedTargets ==
  ASSUME NEW code, Len(code) \in Nat, NEW depth, depth[Len(code) + 1] = 0, NEW p \in 3 .. Len(code),
         code[p] = LowByte(Len(code) - p), code[p - 1] = HighByte(Len(code) - p)
  PROVE  Targeted(code, depth, p - 2)
<1> DEFINE n == Len(code)
<1> SUFFICES ASSUME OffsetsFit(code)
             PROVE  JumpTarget(code, p - 2) \in (p - 2) + 1 .. n + 1 /\ depth[JumpTarget(code, p - 2)] = 0
  BY DEF Targeted
<1>1. n - p \in Nat /\ 2 * (n - p) < ByteSize * ByteSize
  <2>1. n - p \in Nat /\ 2 * (n - p) <= 2 * n /\ 2 * (n - p) \in Int /\ 2 * n \in Int
    OBVIOUS
  <2>2. 2 * n < ByteSize * ByteSize /\ ByteSize * ByteSize \in Int
    BY ByteSizeAssumption DEF OffsetsFit
  <2>3. \A x, y, z \in Int : x <= y /\ y < z => x < z
    OBVIOUS
  <2> QED
    BY <2>1, <2>2, <2>3
<1>2. Int16(code[p - 1], code[p]) = n - p
  BY <1>1, OffsetReadsBack
<1>3. (p - 2) + 1 = p - 1 /\ (p - 2) + 2 = p /\ ((p - 2) + 3) + (n - p) = n + 1
  OBVIOUS
<1>4. JumpTarget(code, p - 2) = n + 1
  BY <1>2, <1>3 DEF JumpTarget
<1>5. n + 1 \in p - 1 .. n + 1
  OBVIOUS
<1> QED
  BY <1>3, <1>4, <1>5

LEMMA Bytes == \A x \in Int : HighByte(x) \in Byte /\ LowByte(x) \in Byte
<1>1. \A x \in Int : x \div ByteSize \in Int /\ x % ByteSize \in 0 .. ByteSize - 1
  BY ByteSizeAssumption
<1> QED
  BY <1>1 DEF HighByte, LowByte, Byte

LEMMA PatchedBytes ==
  ASSUME NEW code, IsSeq(code), NEW at \in Int, NEW target \in Int
  PROVE  LET new == ReplaceJumpTarget(code, at, target)
         IN  /\ DOMAIN new = 1 .. Len(code) /\ IsSeq(new) /\ Len(new) = Len(code) /\ Len(code) \in Nat
             /\ \A i \in 1 .. Len(code) : new[i] = code[i] \/ (new[i] \in Byte /\ (i = at \/ i = at - 1))
             /\ at \in 3 .. Len(code) => new[at] = LowByte(target - at) /\ new[at - 1] = HighByte(target - at)
<1> DEFINE new == ReplaceJumpTarget(code, at, target)
<1>1. DOMAIN code = 1 .. Len(code) /\ Len(code) \in Nat
  BY SeqFacts
<1>2. DOMAIN new = 1 .. Len(code)
  BY <1>1 DEF ReplaceJumpTarget
<1>3. HighByte(target - at) \in Byte /\ LowByte(target - at) \in Byte
  BY Bytes
<1>4. \A i \in 1 .. Len(code) :
        new[i] = IF i = at THEN LowByte(target - at) ELSE IF i = at - 1 THEN HighByte(target - at) ELSE code[i]
  BY <1>1 DEF ReplaceJumpTarget
<1>5. IsSeq(new) /\ Len(new) = Len(code)
  BY PatchedCells
<1> HIDE DEF new
<1>6. \A i \in 1 .. Len(code) : new[i] = code[i] \/ (new[i] \in Byte /\ (i = at \/ i = at - 1))
  BY <1>3, <1>4
<1>7. ASSUME at \in 3 .. Len(code) PROVE new[at] = LowByte(target - at) /\ new[at - 1] = HighByte(target - at)
  <2>1. at \in 1 .. Len(code) /\ at - 1 \in 1 .. Len(code) /\ at - 1 # at
    BY <1>1, <1>7
  <2> QED
    BY <1>4, <2>1
<1> QED
  BY <1>1, <1>2, <1>5, <1>6, <1>7 DEF new

LEMMA BreaksPatchedBytes ==
  ASSUME NEW code, IsSeq(code), NEW breaks, IsSeq(breaks), \A k \in DOMAIN breaks : breaks[k] \in Int
  PROVE  LET new == BreaksPatched(code, breaks)
         IN  /\ DOMAIN new = 1 .. Len(code) /\ IsSeq(new) /\ Len(new) = Len(code)
             /\ \A i \in 1 .. Len(code) :
                  \/ new[i] = code[i]
                  \/ new[i] \in Byte /\ \E k \in DOMAIN breaks : i = breaks[k] \/ i = breaks[k] - 1
<1> DEFINE new        == BreaksPatched(code, breaks)
           Writers(i) == {k \in DOMAIN breaks : i \in {breaks[k] - 1, breaks[k]}}
           Final(i)   == CHOOSE k \in Writers(i) : \A j \in Writers(i) : j <= k
<1>1. /\ DOMAIN code = 1 .. Len(code) /\ Len(code) \in Nat
      /\ DOMAIN breaks = 1 .. Len(breaks) /\ Len(breaks) \in Nat
  BY SeqFacts
<1>2. new = [i \in 1 .. Len(code) |->
               IF Writers(i) = {} THEN code[i]
               ELSE ReplaceJumpTarget(code, breaks[Final(i)], Len(code))[i]]
  BY <1>1 DEF BreaksPatched
<1>3. IsSeq(new) /\ Len(new) = Len(code)
  BY BreaksPatchedCells
<1> HIDE DEF new, Final
<1>4. ASSUME NEW i \in 1 .. Len(code), Writers(i) # {}
      PROVE  \/ new[i] = code[i]
             \/ new[i] \in Byte /\ \E k \in DOMAIN breaks : i = breaks[k] \/ i = breaks[k] - 1
  <2> DEFINE S == Writers(i)
  <2>1. S \subseteq 1 .. Len(breaks) /\ S # {}
    BY <1>1, <1>4
  <2> HIDE DEF S
  <2>2. \E k \in S : \A j \in S : j <= k
    BY <1>1, <2>1, Greatest
  <2>3. (CHOOSE k \in S : \A j \in S : j <= k) \in S
    BY <2>2
  <2>4. PICK k : k = Final(i) /\ k \in DOMAIN breaks
    BY <2>3 DEF S, Final
  <2>5. new[i] = ReplaceJumpTarget(code, breaks[k], Len(code))[i]
    BY <1>2, <1>4, <2>4
  <2>6. breaks[k] \in Int /\ Len(code) \in Int
    BY <1>1, <2>4
  <2>7. \A j \in 1 .. Len(code) :
          \/ ReplaceJumpTarget(code, breaks[k], Len(code))[j] = code[j]
          \/ /\ ReplaceJumpTarget(code, breaks[k], Len(code))[j] \in Byte
             /\ j = breaks[k] \/ j = breaks[k] - 1
    BY <2>6, PatchedBytes
  <2> QED
    BY <2>4, <2>5, <2>7
<1> HIDE DEF Writers
<1>5. DOMAIN new = 1 .. Len(code) /\ \A i \in 1 .. Len(code) : Writers(i) = {} => new[i] = code[i]
  BY <1>2
<1> QED
  BY <1>3, <1>4, <1>5 DEF new

LEMMA Instructions ==
  /\ \A t \in Nat :
       /\ t >= 2 => IsInstruction(<<kAdd>>, t) /\ DepthAfter(<<kAdd>>, 1, t) = t - 1
       /\ t = 1 => IsInstruction(<<kPop>>, t) /\ DepthAfter(<<kPop>>, 1, t) = 0
       /\ t = 1 => IsInstruction(<<kReturn>>, t) /\ DepthAfter(<<kReturn>>, 1, t) = 0
       /\ t >= 1 => IsInstruction(<<kCreateClosure>>, t) /\ DepthAfter(<<kCreateClosure>>, 1, t) = t
       /\ IsInstruction(<<kPushUndefined>>, t) /\ DepthAfter(<<kPushUndefined>>, 1, t) = t + 1
       /\ t = 0 => IsInstruction(<<kJump, 0, 0>>, t) /\ DepthAfter(<<kJump, 0, 0>>, 1, t) = 0
       /\ t = 1 => IsInstruction(<<kJumpIfFalse, 0, 0>>, t) /\ DepthAfter(<<kJumpIfFalse, 0, 0>>, 1, t) = 0
  /\ \A t \in Nat, b \in Byte :
       /\ t >= b + 1 => IsInstruction(<<kCall, b>>, t) /\ DepthAfter(<<kCall, b>>, 1, t) = t - b
       /\ \A op \in {kPushLiteral, kResolve} :
            IsInstruction(<<op, b>>, t) /\ DepthAfter(<<op, b>>, 1, t) = t + 1
       /\ t >= 1 => IsInstruction(<<kResolvedStore, b>>, t) /\ DepthAfter(<<kResolvedStore, b>>, 1, t) = t
<1> USE DEF IsInstruction, DepthAfter, Pops, Pushes, Size, JumpOps, OperandOps, PlainOps, Ops,
            kPushUndefined, kPushLiteral, kResolve, kResolvedStore, kPop, kAdd, kJump, kJumpIfFalse,
            kCall, kCreateClosure, kReturn
<1>1. /\ \A a : IsSeq(<<a>>) /\ Len(<<a>>) = 1 /\ <<a>>[1] = a
      /\ \A a, b : IsSeq(<<a, b>>) /\ Len(<<a, b>>) = 2 /\ <<a, b>>[1] = a /\ <<a, b>>[2] = b
      /\ \A a, b, c : IsSeq(<<a, b, c>>) /\ Len(<<a, b, c>>) = 3
                      /\ <<a, b, c>>[1] = a /\ <<a, b, c>>[2] = b /\ <<a, b, c>>[3] = c
  BY DEF IsSeq
<1>2. 0 \in Byte /\ \A b \in Byte : b \in Nat
  BY ByteSizeAssumption DEF Byte
<1>3. ASSUME NEW t \in Nat
      PROVE  /\ t >= 2 => IsInstruction(<<kAdd>>, t) /\ DepthAfter(<<kAdd>>, 1, t) = t - 1
             /\ t = 1 => IsInstruction(<<kPop>>, t) /\ DepthAfter(<<kPop>>, 1, t) = 0
             /\ t = 1 => IsInstruction(<<kReturn>>, t) /\ DepthAfter(<<kReturn>>, 1, t) = 0
             /\ t >= 1 => IsInstruction(<<kCreateClosure>>, t) /\ DepthAfter(<<kCreateClosure>>, 1, t) = t
             /\ IsInstruction(<<kPushUndefined>>, t) /\ DepthAfter(<<kPushUndefined>>, 1, t) = t + 1
  BY <1>1
<1>4. ASSUME NEW t \in Nat
      PROVE  /\ t = 0 => IsInstruction(<<kJump, 0, 0>>, t) /\ DepthAfter(<<kJump, 0, 0>>, 1, t) = 0
             /\ t = 1 => IsInstruction(<<kJumpIfFalse, 0, 0>>, t) /\ DepthAfter(<<kJumpIfFalse, 0, 0>>, 1, t) = 0
  BY <1>1, <1>2
<1>5. ASSUME NEW t \in Nat, NEW b \in Byte
      PROVE  /\ t >= b + 1 => IsInstruction(<<kCall, b>>, t) /\ DepthAfter(<<kCall, b>>, 1, t) = t - b
             /\ \A op \in {kPushLiteral, kResolve} :
                  IsInstruction(<<op, b>>, t) /\ DepthAfter(<<op, b>>, 1, t) = t + 1
             /\ t >= 1 => IsInstruction(<<kResolvedStore, b>>, t) /\ DepthAfter(<<kResolvedStore, b>>, 1, t) = t
  BY <1>1, <1>2
<1> HIDE DEF IsInstruction, DepthAfter, Pops, Pushes, Size, JumpOps, OperandOps, PlainOps, Ops,
             kPushUndefined, kPushLiteral, kResolve, kResolvedStore, kPop, kAdd, kJump, kJumpIfFalse,
             kCall, kCreateClosure, kReturn
<1> QED
  BY <1>3, <1>4, <1>5

-----------------------------------------------------------------------------
(***************************************************************************)
(* What the rest of visitIf, a new encoder and exitFunction make of that.  *)
(***************************************************************************)
\* An encoder but for its code, and the statements that have ended.
Differs(gen, new, code, ends) ==
  /\ IsEncoder(new) /\ new.code = code /\ new.ends = ends
  /\ new.literals = gen.literals /\ new.breaks = gen.breaks /\ new.decls = gen.decls

LEMMA Recoded ==
  ASSUME NEW gen, IsEncoder(gen), NEW code, NEW ends
  PROVE  /\ Differs(gen, [gen EXCEPT !.code = code], code, gen.ends)
         /\ Differs(gen, [gen EXCEPT !.code = code, !.ends = ends], code, ends)
<1>1. DOMAIN gen = {"code", "literals", "decls", "breaks", "ends"}
  BY DEF IsEncoder
<1>2. Differs(gen, [gen EXCEPT !.code = code], code, gen.ends)
  <2> DEFINE new == [gen EXCEPT !.code = code]
  <2>1. new = [f \in DOMAIN gen |-> IF f = "code" THEN code ELSE gen[f]]
    OBVIOUS
  <2> HIDE DEF new
  <2>2. Differs(gen, new, code, gen.ends)
    BY <1>1, <2>1 DEF IsEncoder, Differs
  <2> QED
    BY <2>2 DEF new
<1>3. Differs(gen, [gen EXCEPT !.code = code, !.ends = ends], code, ends)
  <2> DEFINE new == [gen EXCEPT !.code = code, !.ends = ends]
  <2>1. new = [f \in DOMAIN gen |-> IF f = "code" THEN code ELSE IF f = "ends" THEN ends ELSE gen[f]]
    BY <1>1
  <2> HIDE DEF new
  <2>2. Differs(gen, new, code, ends)
    BY <1>1, <2>1 DEF IsEncoder, Differs
  <2> QED
    BY <2>2 DEF new
<1> QED
  BY <1>2, <1>3

IsTyped(gen) == IsEncoder(gen) /\ gen.code \in Seq(Nat) /\ IsSeq(gen.literals)

LEMMA JumpInstruction == IsInstruction(<<kJump, 0, 0>>, 0) /\ DepthAfter(<<kJump, 0, 0>>, 1, 0) = 0
<1>1. PICK t \in Nat : t = 0
  OBVIOUS
<1>2. IsInstruction(<<kJump, 0, 0>>, t) /\ DepthAfter(<<kJump, 0, 0>>, 1, t) = 0
  BY <1>1, Instructions
<1> QED
  BY <1>1, <1>2

\* The end of the if-case: the jump past the else-case is made, and that past the
\* condition patched.
LEMMA ElseCoded ==
  ASSUME NEW gen, IsTyped(gen), NEW depth, NEW lit, NEW pasts, Coded(gen, depth, lit, pasts), End(gen, depth) = 0,
         NEW past \in pasts, NEW left,
         \A p \in pasts : p \in left \/ p = past,
         \A p \in left : p \in pasts \/ p = Len(gen.code) + 3, Len(gen.code) + 3 \in left
  PROVE  LET code == gen.code \o <<kJump, 0, 0>>
             new  == [gen EXCEPT !.code = ReplaceJumpTarget(code, past, Len(code))]
         IN  \E e, l : Coded(new, e, l, left) /\ End(new, e) = 0
<1> DEFINE cells == <<kJump, 0, 0>>
           code  == gen.code \o cells
           mid   == [gen EXCEPT !.code = code]
           patched == ReplaceJumpTarget(code, past, Len(code))
           new   == [gen EXCEPT !.code = patched]
           more  == pasts \union {Len(code)}
<1>1. IsEncoder(gen) /\ gen.code \in Seq(Nat) /\ IsSeq(gen.literals) /\ IsSeq(gen.code) /\ Len(gen.code) \in Nat
  <2>1. IsEncoder(gen) /\ gen.code \in Seq(Nat) /\ IsSeq(gen.literals)
    BY DEF IsTyped
  <2> QED
    BY <2>1, SeqIsSeq
<1>2. IsSeq(cells) /\ Len(cells) = 3 /\ cells[1] = kJump /\ cells[1] \in JumpOps /\ cells[1] \notin LiteralOps
  BY DEF IsSeq, JumpOps, LiteralOps, kJump, kPushLiteral, kResolve, kResolvedStore
<1>3. IsInstruction(cells, End(gen, depth)) /\ DepthAfter(cells, 1, End(gen, depth)) = 0
  <2>1. IsInstruction(cells, 0) /\ DepthAfter(cells, 1, 0) = 0
    BY JumpInstruction
  <2> HIDE DEF cells
  <2> QED
    BY <2>1
<1> HIDE DEF cells
<1>4. IsSeq(code) /\ Len(code) = Len(gen.code) + 3
  <2>1. IsSeq(code) /\ Len(code) = Len(gen.code) + Len(cells)
    BY <1>1, <1>2, ConcatFacts
  <2> QED
    BY <1>2, <2>1
<1>5. /\ IsEncoder(mid) /\ mid.code = code /\ mid.literals = gen.literals
      /\ mid.breaks = gen.breaks /\ mid.ends = gen.ends
      /\ IsEncoder(new) /\ new.code = patched /\ new.literals = gen.literals
      /\ new.breaks = gen.breaks /\ new.ends = gen.ends
  <2> HIDE DEF code, patched
  <2>1. Differs(gen, mid, code, gen.ends) /\ Differs(gen, new, patched, gen.ends)
    BY <1>1, Recoded
  <2> HIDE DEF mid, new
  <2> QED
    BY <2>1 DEF Differs
<1> HIDE DEF mid, new
<1>6. EmitsTo(gen, cells, mid)
  BY <1>2, <1>5 DEF EmitsTo
<1>7. PICK e, l : Coded(mid, e, l, more) /\ End(mid, e) = 0
  <2>1. more \union BreakPlaces(mid) = (pasts \union BreakPlaces(gen)) \union JumpPlace(cells, mid.code)
    BY <1>2, <1>5 DEF BreakPlaces, JumpPlace
  <2>2. PICK m : m = more
    OBVIOUS
  <2>3. \E e, l : Coded(mid, e, l, m) /\ End(mid, e) = DepthAfter(cells, 1, End(gen, depth))
    <3>1. OpensTo(gen, pasts, cells, mid, m)
      BY <2>1, <2>2 DEF OpensTo
    <3>2. gen.code \in Seq(Nat) /\ IsSeq(gen.literals) /\ Coded(gen, depth, lit, pasts)
      BY <1>1
    <3>3. EmitsTo(gen, cells, mid) /\ IsInstruction(cells, End(gen, depth))
      BY <1>3, <1>6
    <3> QED
      BY ONLY <3>1, <3>2, <3>3, CodedGrows
  <2> QED
    BY <1>3, <2>2, <2>3
<1>8. past \in 3 .. Len(gen.code) /\ past \in Int
  <2>1. past \in 3 .. Len(gen.code)
    BY DEF Coded, Opened
  <2> QED
    BY <1>1, <2>1
<1>9. past \in 3 .. Len(code) /\ Len(code) \in Nat /\ past # Len(gen.code) + 3
  BY <1>1, <1>4, <1>8
<1>10. /\ DOMAIN patched = 1 .. Len(code) /\ Len(patched) = Len(code)
       /\ \A i \in 1 .. Len(code) : patched[i] = code[i] \/ (patched[i] \in Byte /\ (i = past \/ i = past - 1))
       /\ patched[past] = LowByte(Len(code) - past) /\ patched[past - 1] = HighByte(Len(code) - past)
  <2> HIDE DEF code
  <2> QED
    BY <1>4, <1>8, <1>9, PatchedBytes
<1> HIDE DEF patched
<1>11. Recodes(mid.code, e, new.code, {past})
  <2>1. Straight(code, e) /\ Opened(code, e, {past})
    BY <1>5, <1>7 DEF Coded, Opened
  <2>2. DOMAIN code = 1 .. Len(code)
    BY <1>4, SeqFacts
  <2> QED
    BY <1>5, <1>9, <1>10, <2>1, <2>2 DEF Recodes
<1>12. e[Len(code) + 1] = 0
  BY <1>5, <1>7 DEF End
<1>13. Targeted(new.code, e, past - 2)
  <2>1. Len(patched) \in Nat /\ past \in 3 .. Len(patched) /\ e[Len(patched) + 1] = 0
        /\ patched[past] = LowByte(Len(patched) - past) /\ patched[past - 1] = HighByte(Len(patched) - past)
    BY <1>9, <1>10, <1>12
  <2> QED
    BY <1>5, <2>1, PatchedTargets
<1>14. EndsFlat(new, e)
  BY <1>5, <1>7, <1>10 DEF Coded, EndsFlat
<1>15. Coded(new, e, l, left)
  <2>1. left \subseteq more /\ \A p \in more : p \in left \/ Targeted(new.code, e, p - 2)
    BY <1>4, <1>13
  <2>2. {past} \subseteq more \union BreakPlaces(mid) /\ new.literals = mid.literals /\ new.breaks = mid.breaks
    BY <1>5
  <2>3. Coded(mid, e, l, more)
    BY <1>7
  <2> HIDE DEF more
  <2> QED
    BY ONLY <1>11, <1>14, <2>1, <2>2, <2>3, CodedRecoded
<1>16. End(new, e) = 0
  BY <1>5, <1>10, <1>12 DEF End
<1> QED
  BY <1>15, <1>16 DEF new, patched, cells

\* The end of the if: the last forward jump and the breaks are patched.
LEMMA EndCoded ==
  ASSUME NEW gen, IsTyped(gen), NEW depth, NEW lit, NEW pasts, Coded(gen, depth, lit, pasts), End(gen, depth) = 0,
         NEW past \in pasts, \A b \in gen.breaks : Apart(b.at, past), NEW left, left \subseteq pasts,
         \A p \in pasts : p \in left \/ p = past,
         NEW breaks, IsSeq(breaks), \A k \in DOMAIN breaks : breaks[k] \in BreakPlaces(gen), NEW stmt
  PROVE  LET code == BreaksPatched(ReplaceJumpTarget(gen.code, past, Len(gen.code)), breaks)
             new  == [gen EXCEPT !.code = code, !.ends = gen.ends \union {[stmt |-> stmt, at |-> Len(gen.code)]}]
         IN  Coded(new, depth, lit, left) /\ End(new, depth) = 0
<1> DEFINE n     == Len(gen.code)
           first == ReplaceJumpTarget(gen.code, past, n)
           code  == BreaksPatched(first, breaks)
           end   == [stmt |-> stmt, at |-> n]
           ends  == gen.ends \union {end}
           new   == [gen EXCEPT !.code = code, !.ends = ends]
           places == {past} \union {breaks[k] : k \in DOMAIN breaks}
<1>1. IsEncoder(gen) /\ gen.code \in Seq(Nat) /\ IsSeq(gen.code) /\ n \in Nat
  <2>1. IsEncoder(gen) /\ gen.code \in Seq(Nat)
    BY DEF IsTyped
  <2> QED
    BY <2>1, SeqIsSeq
<1>2. end.at = n /\ end.stmt = stmt
  OBVIOUS
<1>3. /\ new.code = code /\ new.literals = gen.literals /\ new.breaks = gen.breaks /\ new.ends = ends
  <2> HIDE DEF code, ends
  <2>1. Differs(gen, new, code, ends)
    BY <1>1, Recoded
  <2> HIDE DEF new
  <2> QED
    BY <2>1 DEF Differs
<1> HIDE DEF new, end
<1>4. /\ past \in 3 .. n /\ past \in Int
      /\ \A b \in gen.breaks : b.at \in 3 .. n
      /\ \A k \in DOMAIN breaks : breaks[k] \in Int /\ \E b \in gen.breaks : b.at = breaks[k]
  <2>1. past \in 3 .. n /\ \A b \in gen.breaks : b.at \in 3 .. n
    BY DEF Coded, Opened, BreakPlaces
  <2>2. \A x \in 3 .. n : x \in Int
    BY <1>1
  <2>3. \A k \in DOMAIN breaks : \E b \in gen.breaks : b.at = breaks[k]
    BY DEF BreakPlaces
  <2> QED
    BY <2>1, <2>2, <2>3
<1>5. /\ IsSeq(first) /\ Len(first) = n /\ DOMAIN first = 1 .. n
      /\ \A i \in 1 .. n : first[i] = gen.code[i] \/ (first[i] \in Byte /\ (i = past \/ i = past - 1))
      /\ first[past] = LowByte(n - past) /\ first[past - 1] = HighByte(n - past)
  BY <1>1, <1>4, PatchedBytes
<1> HIDE DEF first
<1>6. /\ Len(code) = n /\ DOMAIN code = 1 .. n
      /\ \A i \in 1 .. n :
           \/ code[i] = first[i]
           \/ code[i] \in Byte /\ \E k \in DOMAIN breaks : i = breaks[k] \/ i = breaks[k] - 1
      /\ \A i \in 1 .. n : (\A k \in DOMAIN breaks : i # breaks[k] /\ i # breaks[k] - 1) => code[i] = first[i]
  <2>1. /\ Len(code) = n /\ DOMAIN code = 1 .. n
        /\ \A i \in 1 .. n :
             \/ code[i] = first[i]
             \/ code[i] \in Byte /\ \E k \in DOMAIN breaks : i = breaks[k] \/ i = breaks[k] - 1
    BY <1>4, <1>5, BreaksPatchedBytes
  <2>2. \A i \in 1 .. n : (\A k \in DOMAIN breaks : i # breaks[k] /\ i # breaks[k] - 1) => code[i] = first[i]
    BY <1>5, BreaksPatchedCells
  <2> QED
    BY <2>1, <2>2
<1> HIDE DEF code
<1>7. code[past] = LowByte(n - past) /\ code[past - 1] = HighByte(n - past)
  <2>1. \A k \in DOMAIN breaks : past # breaks[k] /\ past # breaks[k] - 1 /\ past - 1 # breaks[k] /\ past - 1 # breaks[k] - 1
    <3>1. \A a, p \in Int : Apart(a, p) => p # a /\ p # a - 1 /\ p - 1 # a /\ p - 1 # a - 1
      BY DEF Apart
    <3> QED
      BY <1>4, <3>1
  <2>2. past \in 1 .. n /\ past - 1 \in 1 .. n
    BY <1>1, <1>4
  <2> QED
    BY <1>5, <1>6, <2>1, <2>2
<1>8. Recodes(gen.code, depth, new.code, places)
  <2>1. Straight(gen.code, depth) /\ Opened(gen.code, depth, places)
    BY DEF Coded, Opened
  <2>2. DOMAIN gen.code = 1 .. n
    BY <1>1, SeqFacts
  <2>3. \A i \in 1 .. n : code[i] = gen.code[i] \/ (code[i] \in Byte /\ \E p \in places : i = p \/ i = p - 1)
    BY <1>5, <1>6
  <2> HIDE DEF places
  <2> QED
    BY <1>1, <1>3, <1>6, <2>1, <2>2, <2>3 DEF Recodes
<1>9. depth[n + 1] = 0
  BY DEF End
<1>10. Targeted(new.code, depth, past - 2)
  BY <1>1, <1>3, <1>4, <1>6, <1>7, <1>9, PatchedTargets
<1>11. EndsFlat(new, depth)
  <2> SUFFICES ASSUME NEW f \in ends
               PROVE  f.at \in 0 .. n /\ depth[f.at + 1] = 0 /\ \A b \in gen.breaks : b.stmt = f.stmt => b.at <= f.at
    BY <1>3, <1>6 DEF EndsFlat
  <2>1. CASE f \in gen.ends
    BY <2>1 DEF Coded, EndsFlat
  <2>2. CASE f = end
    <3>1. n \in 0 .. n /\ \A a \in 3 .. n : a <= n
      BY <1>1
    <3> QED
      BY <1>2, <1>4, <1>9, <2>2, <3>1
  <2> QED
    BY <2>1, <2>2
<1>12. Coded(new, depth, lit, left)
  <2>1. places \subseteq pasts \union BreakPlaces(gen)
    OBVIOUS
  <2>2. new.literals = gen.literals /\ new.breaks = gen.breaks
    BY <1>3
  <2>3. left \subseteq pasts /\ \A p \in pasts : p \in left \/ Targeted(new.code, depth, p - 2)
    BY <1>10
  <2>4. Coded(gen, depth, lit, pasts)
    OBVIOUS
  <2> HIDE DEF places
  <2> QED
    BY ONLY <1>8, <1>11, <2>1, <2>2, <2>3, <2>4, CodedRecoded
<1>13. End(new, depth) = 0
  BY <1>3, <1>6, <1>9 DEF End
<1> QED
  BY <1>12, <1>13 DEF new, code, first, end

LEMMA NewCoded ==
  ASSUME NEW gen, gen.code = <<>>, gen.literals = <<>>, gen.breaks = {}, gen.ends = {}
  PROVE  \E depth : Coded(gen, depth, <<>>, {}) /\ End(gen, depth) = 0
<1> DEFINE depth == [i \in 1 .. 1 |-> 0]
<1>1. Len(gen.code) = 0 /\ 1 .. 0 = {} /\ 0 + 1 = 1 /\ DOMAIN gen.code = {} /\ Len(gen.literals) = 0
  OBVIOUS
<1>2. depth \in [1 .. 0 + 1 -> Int] /\ depth[1] = 0
  OBVIOUS
<1> HIDE DEF depth
<1>3. Straight(gen.code, depth)
  BY <1>1, <1>2 DEF Straight
<1>4. DOMAIN <<>> = {} /\ IsSeq(<<>>) /\ Len(<<>>) = 0
  BY DEF IsSeq
<1>5. Named(gen, depth, <<>>)
  BY <1>1, <1>4 DEF Named, Lists, Increasing
<1>6. Opened(gen.code, depth, {} \union BreakPlaces(gen)) /\ Landing(gen.code, depth, {} \union BreakPlaces(gen))
  BY <1>1 DEF Opened, Landing, BreakPlaces
<1>7. EndsFlat(gen, depth)
  BY DEF EndsFlat
<1>8. Coded(gen, depth, <<>>, {}) /\ End(gen, depth) = 0
  BY <1>1, <1>2, <1>3, <1>5, <1>6, <1>7 DEF Coded, End
<1> QED
  BY <1>8

\* An encoder whose function is at its end: every jump has its target.
IsFinished(gen, depth, lit) ==
  /\ IsTyped(gen) /\ Coded(gen, depth, lit, {}) /\ End(gen, depth) = 0
  /\ Lands(gen) /\ \A b \in gen.breaks : Ended(gen, b)

LEMMA AllTargeted ==
  ASSUME NEW gen, NEW depth, NEW lit, IsFinished(gen, depth, lit),
         NEW i \in 1 .. Len(gen.code), depth[i] >= 0, gen.code[i] \in JumpOps
  PROVE  Targeted(gen.code, depth, i)
<1>1. CASE i + 2 \in BreakPlaces(gen)
  <2>1. PICK b \in gen.breaks : b.at = i + 2
    BY <1>1 DEF BreakPlaces
  <2>2. PICK e \in gen.ends : e.stmt = b.stmt
    BY DEF IsFinished, Ended
  <2>3. e.at \in 0 .. Len(gen.code) /\ depth[e.at + 1] = 0 /\ b.at <= e.at
    BY <2>2 DEF IsFinished, Coded, EndsFlat
  <2>4. SUFFICES ASSUME OffsetsFit(gen.code)
                 PROVE  /\ JumpTarget(gen.code, i) \in i + 1 .. Len(gen.code) + 1
                        /\ depth[JumpTarget(gen.code, i)] = 0
    BY DEF Targeted
  <2>5. b.at + Int16(gen.code[b.at - 1], gen.code[b.at]) = e.at
    BY <2>2, <2>4 DEF IsFinished, Lands
  <2>6. Len(gen.code) \in Nat
    BY DEF IsFinished, IsTyped
  <2>7. b.at - 1 = i + 1
    BY <2>1, <2>6
  <2>8. PICK x : x = Int16(gen.code[i + 1], gen.code[i + 2])
    OBVIOUS
  <2>9. (i + 2) + x = e.at
    BY <2>1, <2>5, <2>7, <2>8
  <2>10. x \in Int
    <3>1. gen.code[i + 1] \in Int /\ gen.code[i + 2] \in Int
      <4>1. i + 2 \in 3 .. Len(gen.code)
        BY <1>1 DEF IsFinished, Coded, Opened
      <4>2. i + 1 \in 1 .. Len(gen.code) /\ i + 2 \in 1 .. Len(gen.code)
        BY <2>6, <4>1
      <4> QED
        BY <4>2 DEF IsFinished, IsTyped
    <3>2. \A c, d \in Int : Int16(c, d) \in Int
      BY ByteSizeAssumption DEF Int16
    <3> QED
      BY <2>8, <3>1, <3>2
  <2>11. (i + 3) + x = e.at + 1
    BY <2>3, <2>6, <2>9, <2>10
  <2>12. e.at + 1 \in i + 1 .. Len(gen.code) + 1
    BY <2>1, <2>3, <2>6
  <2> QED
    BY <2>3, <2>8, <2>11, <2>12 DEF JumpTarget
<1>2. CASE i + 2 \notin BreakPlaces(gen)
  BY <1>2 DEF IsFinished, Coded, Landing
<1> QED
  BY <1>1, <1>2

\* The two instructions exitFunction ends it with.
LEMMA FinishedCells ==
  ASSUME NEW gen, NEW depth, NEW lit, IsFinished(gen, depth, lit)
  PROVE  LET new == Emitted(gen, <<kPushUndefined, kReturn>>)
             n   == Len(gen.code)
         IN  /\ IsTyped(new) /\ new.literals = gen.literals /\ Len(new.code) = n + 2 /\ n \in Nat
             /\ \A i \in 1 .. n : new.code[i] = gen.code[i]
             /\ new.code[n + 1] = kPushUndefined /\ new.code[n + 2] = kReturn
             /\ \E e : /\ Straight(new.code, e) /\ Named(new, e, lit)
                       /\ \A i \in 1 .. n + 1 : e[i] = depth[i]
                       /\ e[n + 2] = 1
<1> DEFINE n   == Len(gen.code)
           push == <<kPushUndefined>>
           ret  == <<kReturn>>
           both == <<kPushUndefined, kReturn>>
           one  == gen.code \o push
           two  == gen.code \o both
           mid  == [gen EXCEPT !.code = one]
           new  == Emitted(gen, both)
<1>1. IsEncoder(gen) /\ gen.code \in Seq(Nat) /\ IsSeq(gen.code) /\ n \in Nat /\ IsSeq(gen.literals)
  <2>1. IsEncoder(gen) /\ gen.code \in Seq(Nat) /\ IsSeq(gen.literals)
    BY DEF IsFinished, IsTyped
  <2> QED
    BY <2>1, SeqIsSeq
<1>2. /\ push \in Seq(Nat) /\ Len(push) = 1 /\ push[1] = kPushUndefined
      /\ ret \in Seq(Nat) /\ Len(ret) = 1 /\ ret[1] = kReturn
      /\ both \in Seq(Nat) /\ Len(both) = 2 /\ both[1] = kPushUndefined /\ both[2] = kReturn
  BY DEF kPushUndefined, kReturn
<1>3. IsInstruction(push, 0) /\ DepthAfter(push, 1, 0) = 1 /\ IsInstruction(ret, 1) /\ DepthAfter(ret, 1, 1) = 0
  <2>1. PICK t, u : t = 0 /\ u = 1
    OBVIOUS
  <2>2. t \in Nat /\ u \in Nat /\ t + 1 = 1
    BY <2>1
  <2>3. IsInstruction(push, t) /\ DepthAfter(push, 1, t) = t + 1
    BY <2>2, Instructions
  <2>4. IsInstruction(ret, u) /\ DepthAfter(ret, 1, u) = 0
    BY <2>1, <2>2, Instructions
  <2> QED
    BY <2>1, <2>2, <2>3, <2>4
<1>4. push[1] \notin LiteralOps /\ push[1] \notin JumpOps /\ ret[1] \notin LiteralOps /\ ret[1] \notin JumpOps
  BY <1>2 DEF LiteralOps, JumpOps, kPushUndefined, kPushLiteral, kResolve, kResolvedStore, kReturn, kJump, kJumpIfFalse
<1> HIDE DEF push, ret, both
<1>5. /\ mid.code = gen.code \o push /\ mid.literals = gen.literals
      /\ mid.breaks = gen.breaks /\ mid.ends = gen.ends
      /\ IsEncoder(new) /\ new.code = gen.code \o both /\ new.literals = gen.literals
      /\ new.breaks = gen.breaks /\ new.ends = gen.ends
  <2>1. new = [gen EXCEPT !.code = two]
    BY DEF Emitted
  <2> HIDE DEF one, two, new
  <2>2. Differs(gen, mid, one, gen.ends) /\ Differs(gen, new, two, gen.ends)
    BY <1>1, <2>1, Recoded
  <2> HIDE DEF mid
  <2> QED
    BY <2>2 DEF Differs, one, two
<1> HIDE DEF mid, new
<1>6. mid.code \in Seq(Nat) /\ new.code \in Seq(Nat) /\ IsSeq(new.code)
  <2>1. mid.code \in Seq(Nat) /\ new.code \in Seq(Nat)
    BY <1>1, <1>2, <1>5
  <2> QED
    BY <2>1, SeqIsSeq
<1>7. /\ Len(mid.code) = n + 1 /\ Len(new.code) = n + 2
      /\ \A i \in 1 .. n : mid.code[i] = gen.code[i] /\ new.code[i] = gen.code[i]
      /\ mid.code[n + 1] = kPushUndefined
      /\ new.code[n + 1] = kPushUndefined /\ new.code[n + 2] = kReturn
  <2>1. IsSeq(push) /\ IsSeq(both) /\ 1 \in 1 .. 1 /\ 1 \in 1 .. 2 /\ 2 \in 1 .. 2
    BY <1>2, SeqIsSeq
  <2>2. Len(mid.code) = n + Len(push) /\ Len(new.code) = n + Len(both)
        /\ \A i \in 1 .. n : mid.code[i] = gen.code[i] /\ new.code[i] = gen.code[i]
    <3>1. Len(one) = n + Len(push) /\ \A i \in 1 .. n : one[i] = gen.code[i]
      BY <1>1, <2>1, ConcatFacts
    <3>2. Len(two) = n + Len(both) /\ \A i \in 1 .. n : two[i] = gen.code[i]
      BY <1>1, <2>1, ConcatFacts
    <3> QED
      BY <1>5, <3>1, <3>2
  <2>3. mid.code[n + 1] = push[1]
    BY <1>1, <1>2, <1>5, <2>1, ConcatAfter
  <2>4. new.code[n + 1] = both[1] /\ new.code[n + 2] = both[2]
    <3>1. \A i \in 1 .. Len(both) : two[n + i] = both[i]
      BY <1>1, <2>1, ConcatAfter
    <3> QED
      BY <1>2, <1>5, <2>1, <3>1
  <2> QED
    BY <1>2, <2>2, <2>3, <2>4
<1>8. new.code = mid.code \o ret
  <2> DEFINE w == mid.code \o ret
  <2>1. IsSeq(mid.code) /\ IsSeq(ret)
    BY <1>2, <1>6, SeqIsSeq
  <2>2. /\ IsSeq(w) /\ Len(w) = Len(mid.code) + Len(ret)
        /\ \A i \in 1 .. Len(mid.code) : w[i] = mid.code[i]
    BY <2>1, ConcatFacts
  <2>3. \A i \in 1 .. Len(ret) : w[Len(mid.code) + i] = ret[i]
    BY <2>1, ConcatAfter
  <2> HIDE DEF w
  <2>4. Len(w) = Len(new.code)
    BY <1>1, <1>2, <1>7, <2>2
  <2>5. \A i \in 1 .. n + 2 : i \in 1 .. n \/ i = n + 1 \/ i = n + 2
    BY <1>1
  <2>6. w[n + 2] = kReturn
    <3>1. 1 \in 1 .. Len(ret) /\ (n + 1) + 1 = n + 2
      BY <1>1, <1>2
    <3>2. w[Len(mid.code) + 1] = ret[1]
      BY <2>3, <3>1
    <3> QED
      BY <1>2, <1>7, <3>1, <3>2
  <2>7. w[n + 1] = kPushUndefined /\ \A i \in 1 .. n : w[i] = gen.code[i]
    <3>1. n + 1 \in 1 .. n + 1 /\ \A i \in 1 .. n : i \in 1 .. n + 1
      BY <1>1
    <3> QED
      BY <1>7, <2>2, <3>1
  <2>8. \A i \in 1 .. n + 2 : w[i] = new.code[i]
    BY <1>7, <2>5, <2>6, <2>7
  <2>9. w = [i \in 1 .. n + 2 |-> w[i]] /\ new.code = [i \in 1 .. n + 2 |-> new.code[i]]
    BY <1>6, <1>7, <2>2, <2>4 DEF IsSeq
  <2>10. w = new.code
    BY <2>8, <2>9
  <2> QED
    BY <2>10 DEF w
<1>9. PICK d : /\ Coded(mid, d, lit, {}) /\ End(mid, d) = 1 /\ \A i \in 1 .. n + 1 : d[i] = depth[i]
  <2> DEFINE d == Longer(depth, n, Len(push), 1)
  <2>1. Straight(gen.code, depth) /\ depth[n + 1] = 0
    BY DEF IsFinished, Coded, End
  <2>2. Straight(gen.code \o push, d) /\ Grows(gen.code, depth, push, gen.code \o push, d) /\ d[Len(gen.code \o push) + 1] = 1
    BY <1>1, <1>3, <2>1, StraightGrows
  <2> HIDE DEF d
  <2>3. Straight(mid.code, d) /\ Grows(gen.code, depth, push, mid.code, d) /\ End(mid, d) = 1
    BY <1>5, <2>2 DEF End
  <2>4. Named(gen, depth, lit)
    BY DEF IsFinished, Coded
  <2>5. Named(mid, d, lit)
    BY <1>4, <1>5, <2>1, <2>3, <2>4, NamedGrows
  <2>6. Opened(gen.code, depth, {} \union BreakPlaces(gen)) /\ Landing(gen.code, depth, {} \union BreakPlaces(gen))
    BY DEF IsFinished, Coded
  <2>7. PICK open : open = {} \union BreakPlaces(gen)
    OBVIOUS
  <2>8. Opened(mid.code, d, open \union JumpPlace(push, mid.code)) /\ Landing(mid.code, d, open \union JumpPlace(push, mid.code))
    <3>1. Opened(gen.code, depth, open) /\ Landing(gen.code, depth, open)
      BY <2>6, <2>7
    <3>2. Straight(gen.code, depth) /\ Grows(gen.code, depth, push, mid.code, d)
      BY <2>1, <2>3
    <3> QED
      BY ONLY <3>1, <3>2, OpenedGrows
  <2>9. open \union JumpPlace(push, mid.code) = {} \union BreakPlaces(mid)
    BY <1>4, <1>5, <2>7 DEF JumpPlace, BreakPlaces
  <2>10. EndsFlat(mid, d)
    BY <1>5, <2>3, EndsGrow DEF IsFinished, Coded
  <2>11. \A i \in 1 .. n + 1 : d[i] = depth[i]
    BY <2>2 DEF Grows
  <2> QED
    BY <2>3, <2>5, <2>8, <2>9, <2>10, <2>11 DEF Coded
<1>10. PICK e : /\ Straight(new.code, e) /\ Named(new, e, lit) /\ \A i \in 1 .. n + 2 : e[i] = d[i]
  <2> DEFINE e == Longer(d, Len(mid.code), Len(ret), 0)
  <2>1. Straight(mid.code, d) /\ d[Len(mid.code) + 1] = 1 /\ Named(mid, d, lit)
    BY <1>9 DEF Coded, End
  <2>2. Straight(mid.code \o ret, e) /\ Grows(mid.code, d, ret, mid.code \o ret, e)
    BY <1>3, <1>6, <2>1, StraightGrows
  <2> HIDE DEF e
  <2>3. Straight(new.code, e) /\ Grows(mid.code, d, ret, new.code, e)
    BY <1>8, <2>2
  <2>4. Named(new, e, lit)
    BY <1>4, <1>5, <2>1, <2>3, NamedGrows
  <2>5. \A i \in 1 .. n + 2 : e[i] = d[i]
    <3>1. (n + 1) + 1 = n + 2
      BY <1>1
    <3> QED
      BY <1>7, <2>2, <3>1 DEF Grows
  <2> QED
    BY <2>3, <2>4, <2>5
<1>11. e[n + 2] = 1 /\ \A i \in 1 .. n + 1 : e[i] = depth[i]
  <2>1. n + 2 \in 1 .. n + 2 /\ (n + 1) + 1 = n + 2 /\ \A i \in 1 .. n + 1 : i \in 1 .. n + 2
    BY <1>1
  <2>2. d[n + 2] = 1
    BY <1>7, <1>9, <2>1 DEF End
  <2> QED
    BY <1>9, <1>10, <2>1, <2>2
<1>12. IsTyped(new)
  BY <1>1, <1>5, <1>6 DEF IsTyped
<1> QED
  BY <1>1, <1>5, <1>7, <1>10, <1>11, <1>12 DEF new, both

LEMMA SuccessorsAre ==
  ASSUME NEW code, NEW i
  PROVE  /\ code[i] = kReturn => Successors(code, i) = {}
         /\ code[i] = kJump => Successors(code, i) = {JumpTarget(code, i)}
         /\ code[i] = kJumpIfFalse => Successors(code, i) = {i + 3, JumpTarget(code, i)}
         /\ code[i] \notin {kReturn, kJump, kJumpIfFalse} => Successors(code, i) = {i + Size(code[i])}
BY DEF Successors, kReturn, kJump, kJumpIfFalse

LEMMA FinishedIsSound ==
  ASSUME NEW gen, NEW depth, NEW lit, IsFinished(gen, depth, lit), NEW e, NEW new,
         new = Emitted(gen, <<kPushUndefined, kReturn>>),
         Straight(new.code, e), \A i \in 1 .. Len(gen.code) + 1 : e[i] = depth[i], e[Len(gen.code) + 2] = 1,
         OffsetsFit(new.code)
  PROVE  Sound(new.code) /\ \A i \in 1 .. Len(new.code) : DepthOf(new.code)[i] >= 0 => e[i] >= 0
<1> DEFINE n == Len(gen.code)
           d == [i \in 1 .. n + 2 |-> e[i]]
<1>0. (\A i \in 1 .. n + 1 : e[i] = depth[i]) /\ e[n + 2] = 1
  OBVIOUS
<1>1. /\ new.code \in Seq(Nat) /\ Len(new.code) = n + 2 /\ n \in Nat
      /\ \A i \in 1 .. n : new.code[i] = gen.code[i]
      /\ new.code[n + 1] = kPushUndefined /\ new.code[n + 2] = kReturn
  BY FinishedCells DEF IsTyped
<1>2. Straight(gen.code, depth) /\ depth[1] = 0
  BY DEF IsFinished, Coded, Straight
<1> HIDE DEF n
<1>3. \A i \in 1 .. n + 2 : e[i] \in Int
  <2>1. \A i \in 1 .. n + 2 : i \in 1 .. (n + 2) + 1
    BY <1>1
  <2> QED
    BY <1>1, <2>1 DEF Straight
<1>4. /\ kPushUndefined \notin JumpOps /\ kReturn # kPushUndefined /\ kReturn \notin JumpOps
      /\ kJump \in JumpOps /\ kJumpIfFalse \in JumpOps /\ kReturn # kJump /\ kReturn # kJumpIfFalse
      /\ kPushUndefined # kJump /\ kPushUndefined # kJumpIfFalse
      /\ Size(kPushUndefined) = 1 /\ Size(kReturn) = 1 /\ Size(kJumpIfFalse) = 3
  BY DEF Size, JumpOps, OperandOps, kPushUndefined, kPushLiteral, kResolve, kResolvedStore, kReturn, kJump,
         kJumpIfFalse, kCall
<1> HIDE DEF d
<1>5. ASSUME NEW i \in 1 .. n, e[i] >= 0, NEW j \in Successors(new.code, i)
      PROVE  j \in i + 1 .. n + 2 /\ e[j] = DepthAfter(new.code, i, e[i])
  <2> DEFINE op == new.code[i]
  <2>1. /\ op = gen.code[i] /\ e[i] = depth[i] /\ i \in 1 .. n + 1
        /\ Whole(gen.code, depth, i) /\ i + Size(op) <= n + 1 /\ Size(op) \in 1 .. 3
    <3>1. i \in 1 .. n + 1 /\ op = gen.code[i]
      <4>1. i \in 1 .. n + 1
        BY <1>1
      <4>2. new.code[i] = gen.code[i]
        BY <1>1
      <4> QED
        BY <4>1, <4>2
    <3>2. e[i] = depth[i]
      BY <1>0, <3>1
    <3>3. Whole(gen.code, depth, i)
      BY <1>2, <1>5, <3>2 DEF Straight, n
    <3>4. i + Size(op) <= n + 1
      BY <3>1, <3>3 DEF Whole, n
    <3>5. Size(op) \in 1 .. 3
      BY SizeIs
    <3> QED
      BY <3>1, <3>2, <3>3, <3>4, <3>5
  <2> HIDE DEF op
  <2>2. Whole(new.code, e, i)
    <3>1. i \in 1 .. Len(new.code)
      BY <1>1
    <3> QED
      BY <1>5, <3>1 DEF Straight
  <2> op = new.code[i]
    BY DEF op
  <2>3. i + Size(op) \in i + 1 .. n + 2 /\ e[i + Size(op)] = DepthAfter(new.code, i, e[i])
    <3>1. i + Size(op) \in i + 1 .. n + 2
      <4>1. \A k \in 1 .. 3 : i + k <= n + 1 => i + k \in i + 1 .. n + 2
        BY <1>1
      <4> QED
        BY <2>1, <4>1
    <3> QED
      BY <2>2, <3>1 DEF Whole
  <2>4. ASSUME op \in JumpOps
        PROVE  JumpTarget(new.code, i) \in i + 1 .. n + 2 /\ e[JumpTarget(new.code, i)] = DepthAfter(new.code, i, e[i])
    <3>1. Targeted(gen.code, depth, i)
      BY <1>5, <2>1, <2>4, AllTargeted DEF n
    <3>2. OffsetsFit(gen.code)
      <4>1. 2 * n < 2 * (n + 2) /\ 2 * n \in Int /\ 2 * (n + 2) \in Int /\ ByteSize * ByteSize \in Int
        <5>1. n \in Nat
          BY <1>1
        <5>2. 2 * n < 2 * (n + 2) /\ 2 * n \in Int /\ 2 * (n + 2) \in Int
          BY ONLY <5>1
        <5>3. ByteSize * ByteSize \in Int
          BY ByteSizeAssumption
        <5> QED
          BY <5>2, <5>3
      <4>2. 2 * (n + 2) < ByteSize * ByteSize
        BY <1>1 DEF OffsetsFit
      <4>3. \A x, y, z \in Int : x < y /\ y < z => x < z
        OBVIOUS
      <4> QED
        BY <4>1, <4>2, <4>3 DEF OffsetsFit, n
    <3>3. PICK target : target = JumpTarget(gen.code, i)
      OBVIOUS
    <3>4. target \in i + 1 .. n + 1 /\ depth[target] = 0
      BY <3>1, <3>2, <3>3 DEF Targeted, n
    <3>5. i + 1 \in 1 .. n /\ i + 2 \in 1 .. n
      <4>1. Size(op) = 3
        BY <2>4, SizeIs
      <4>2. \A k : k = 3 /\ i + k <= n + 1 => i + 1 \in 1 .. n /\ i + 2 \in 1 .. n
        BY <1>1
      <4> QED
        BY <2>1, <4>1, <4>2
    <3>6. JumpTarget(new.code, i) = target
      BY <1>1, <3>3, <3>5 DEF JumpTarget
    <3>7. target \in i + 1 .. n + 2 /\ target \in 1 .. n + 1
      BY <1>1, <3>4
    <3>8. DepthAfter(new.code, i, e[i]) = 0
      BY <2>2, <2>4 DEF Whole
    <3>9. e[target] = 0
      BY <1>0, <3>4, <3>7
    <3> QED
      BY <3>6, <3>7, <3>8, <3>9
  <2>5. op # kReturn
    BY <1>5, SuccessorsAre
  <2>6. CASE op = kJump
    BY <1>4, <1>5, <2>4, <2>6, SuccessorsAre
  <2>7. CASE op = kJumpIfFalse
    <3>1. j \in {i + 3, JumpTarget(new.code, i)}
      BY <1>5, <2>7, SuccessorsAre
    <3> QED
      BY <1>4, <2>3, <2>4, <2>7, <3>1
  <2>8. CASE op # kJump /\ op # kJumpIfFalse
    <3>1. j = i + Size(op)
      BY <1>5, <2>5, <2>8, SuccessorsAre
    <3> QED
      BY <2>3, <3>1
  <2> QED
    BY <2>6, <2>7, <2>8
<1>6. ASSUME NEW j \in Successors(new.code, n + 1), e[n + 1] >= 0
      PROVE  j = n + 2 /\ e[j] = DepthAfter(new.code, n + 1, e[n + 1])
  <2>1. j = n + 2
    <3>1. j = (n + 1) + 1
      BY <1>1, <1>4, <1>6, SuccessorsAre
    <3> QED
      BY <1>1, <3>1
  <2>2. n + 1 \in 1 .. Len(new.code)
    BY <1>1
  <2>3. e[(n + 1) + 1] = DepthAfter(new.code, n + 1, e[n + 1])
    BY <1>1, <1>4, <1>6, <2>2 DEF Straight, Whole
  <2>4. (n + 1) + 1 = n + 2
    BY <1>1
  <2> QED
    BY <2>1, <2>3, <2>4
<1>7. Successors(new.code, n + 2) = {}
  BY <1>1, SuccessorsAre
<1>8. ASSUME NEW i \in 1 .. n + 2, e[i] >= 0 PROVE SoundAt(new.code, d, i)
  <2>1. i \in 1 .. Len(new.code)
    BY <1>1
  <2>2. Whole(new.code, e, i)
    BY <1>8, <2>1 DEF Straight
  <2>3. ASSUME NEW j \in Successors(new.code, i)
        PROVE  j \in i + 1 .. n + 2 /\ e[j] = DepthAfter(new.code, i, e[i])
    <3>1. i \in 1 .. n \/ i = n + 1 \/ i = n + 2
      BY <1>1
    <3>2. n + 2 \in (n + 1) + 1 .. n + 2
      BY <1>1
    <3> QED
      BY <1>5, <1>6, <1>7, <1>8, <2>3, <3>1, <3>2
  <2>4. d[i] = e[i]
    BY DEF d
  <2>5. \A j \in i + 1 .. n + 2 : d[j] = e[j]
    <3>1. \A j \in i + 1 .. n + 2 : j \in 1 .. n + 2
      BY <1>1
    <3> QED
      BY <3>1 DEF d
  <2>6. i + Size(new.code[i]) - 1 <= Len(new.code)
    <3>1. Size(new.code[i]) \in 1 .. 3
      BY SizeIs
    <3>2. i + Size(new.code[i]) <= Len(new.code) + 1
      BY <2>2 DEF Whole
    <3> QED
      BY <1>1, <3>1, <3>2
  <2>7. \A j \in Successors(new.code, i) : j \in i + 1 .. Len(new.code) /\ d[j] = DepthAfter(new.code, i, d[i])
    BY <1>1, <2>3, <2>4, <2>5
  <2> QED
    BY <2>2, <2>4, <2>6, <2>7 DEF SoundAt, Whole
<1>9. SoundDepth(new.code, d)
  <2>1. d \in [1 .. n + 2 -> Int]
    BY <1>3 DEF d
  <2>2. d[1] = 0
    <3>1. 1 \in 1 .. n + 2 /\ 1 \in 1 .. n + 1
      BY <1>1
    <3>2. e[1] = depth[1]
      BY <1>0, <3>1
    <3> QED
      BY <1>2, <3>1, <3>2 DEF d
  <2>3. \A i \in 1 .. n + 2 : d[i] >= 0 => SoundAt(new.code, d, i)
    <3>1. \A i \in 1 .. n + 2 : d[i] = e[i]
      BY DEF d
    <3> QED
      BY <1>8, <3>1
  <2>4. Len(new.code) > 0
    BY <1>1
  <2> QED
    BY <1>1, <2>1, <2>2, <2>3, <2>4 DEF SoundDepth
<1>10. \A i \in 1 .. n + 2 : d[i] = e[i]
  BY DEF d
<1>11. Sound(new.code) /\ \A i \in 1 .. Len(new.code) : DepthOf(new.code)[i] >= 0 => d[i] >= 0
  BY <1>1, <1>9, SoundIfDepth
<1> QED
  BY <1>1, <1>10, <1>11

LiteralTypes == {"String", "Double", "Function"}

\* What is said of a function's literals, of one that is made.
LiteralsNamed(fun) ==
  LET code == fun.code
      uses == Filtered(Disassembly(code),
                       {i \in DOMAIN code : code[i] \in {kPushLiteral, kResolve, kResolvedStore}})
  IN  /\ Len(uses) = Len(fun.literals)
      /\ LiteralsFit(fun) => \A k \in DOMAIN uses : code[uses[k] + 1] = k - 1

LEMMA NamesRead ==
  ASSUME NEW m \in Nat, m <= ByteSize, NEW k \in 1 .. m
  PROVE  (k - 1) % ByteSize = k - 1
<1>1. ByteSize \in Nat /\ ByteSize > 0 /\ k - 1 \in 0 .. ByteSize - 1
  BY ByteSizeAssumption
<1> QED
  BY <1>1

LEMMA FinishedNames ==
  ASSUME NEW fun, fun.code \in Seq(Nat), IsSeq(fun.literals), NEW e, Straight(fun.code, e), NEW lit, Named(fun, e, lit)
  PROVE  LiteralsNamed(fun)
<1> DEFINE uses == Filtered(Disassembly(fun.code),
                       {i \in DOMAIN fun.code : fun.code[i] \in {kPushLiteral, kResolve, kResolvedStore}})
<1>1. uses = lit
  BY UsesAreListed DEF Named, LiteralUses
<1> HIDE DEF uses
<1>2. /\ IsSeq(lit) /\ Len(lit) = Len(fun.literals)
      /\ \A k \in DOMAIN lit : fun.code[lit[k] + 1] = (k - 1) % ByteSize
  BY DEF Named, Lists
<1>3. DOMAIN lit = 1 .. Len(fun.literals) /\ Len(fun.literals) \in Nat
  BY <1>2, SeqFacts
<1>4. LiteralsFit(fun) => \A k \in DOMAIN lit : (k - 1) % ByteSize = k - 1
  BY <1>3, NamesRead DEF LiteralsFit
<1> QED
  BY <1>1, <1>2, <1>4 DEF LiteralsNamed, uses

LEMMA FinishedLiterals ==
  ASSUME NEW fun, IsSeq(fun.literals), DOMAIN fun.code = 1 .. Len(fun.code),
         \A k \in DOMAIN fun.literals : fun.literals[k].t \in LiteralTypes,
         NEW e, \A i \in 1 .. Len(fun.code) : DepthOf(fun.code)[i] >= 0 => e[i] >= 0,
         NEW lit, Named(fun, e, lit), LiteralsFit(fun)
  PROVE  SoundLiterals(fun)
<1> SUFFICES ASSUME NEW i \in 1 .. Len(fun.code), DepthOf(fun.code)[i] >= 0
             PROVE  /\ fun.code[i] = kPushLiteral => LiteralAt(fun, i, {"Double", "Function"})
                    /\ fun.code[i] \in {kResolve, kResolvedStore} => LiteralAt(fun, i, {"String"})
  BY DEF SoundLiterals
<1> SUFFICES ASSUME i \in LiteralUses(fun.code)
             PROVE  /\ fun.code[i] = kPushLiteral => LiteralAt(fun, i, {"Double", "Function"})
                    /\ fun.code[i] # kPushLiteral => LiteralAt(fun, i, {"String"})
  BY DEF LiteralUses, kPushLiteral, kResolve, kResolvedStore
<1>1. /\ IsSeq(lit) /\ Len(lit) = Len(fun.literals)
      /\ \A k \in DOMAIN lit :
           /\ fun.code[lit[k] + 1] = (k - 1) % ByteSize
           /\ fun.literals[k].t = "String" <=> fun.code[lit[k]] # kPushLiteral
  BY DEF Named, Lists
<1>2. PICK k \in DOMAIN lit : lit[k] = i
  BY DEF Named, Lists
<1>3. DOMAIN lit = 1 .. Len(fun.literals) /\ DOMAIN fun.literals = 1 .. Len(fun.literals) /\ Len(fun.literals) \in Nat
  BY <1>1, SeqFacts
<1>4. fun.code[i + 1] = k - 1
  <2>1. (k - 1) % ByteSize = k - 1
    BY <1>2, <1>3, NamesRead DEF LiteralsFit
  <2> QED
    BY <1>1, <1>2, <2>1
<1>5. fun.code[i + 1] + 1 = k /\ k \in DOMAIN fun.literals
  BY <1>2, <1>3, <1>4
<1>6. fun.literals[k].t = "String" <=> fun.code[i] # kPushLiteral
  BY <1>1, <1>2
<1>7. fun.literals[k].t \in {"String", "Double", "Function"}
  BY <1>5 DEF LiteralTypes
<1> QED
  BY <1>5, <1>6, <1>7 DEF LiteralAt

-----------------------------------------------------------------------------
(***************************************************************************)
(* Types.                                                                  *)
(***************************************************************************)
LiteralSet(doubles, made) ==
  [t : {"String"}, v : Names] \union [t : {"Double"}, v : 1 .. doubles] \union [t : {"Function"}, v : 1 .. made]

DeclSet == {Undeclared, Local} \union {Arg(i) : i \in 0 .. MaxParams - 1}

EncoderTyped(gen, doubles, made, stmts) ==
  /\ IsEncoder(gen)
  /\ gen.code \in Seq(Nat)
  /\ gen.literals \in Seq(LiteralSet(doubles, made))
  /\ gen.decls \in [Names -> DeclSet]
  /\ gen.breaks \subseteq [at : Positions, stmt : 1 .. stmts]
  /\ gen.ends \subseteq [at : Positions, stmt : 1 .. stmts]

DescSet(stmts, encoders) ==
  [ident : LabelNames, stmt : 1 .. stmts, breaks : Seq(Positions), copies : Positions, depth : 1 .. encoders]

FunSet(doubles, made) ==
  [params : Seq(Names), locals : Seq(Names), code : Seq(Nat), literals : Seq(LiteralSet(doubles, made))]

\* An item that is no store and no call, or has a name or a number of arguments.
ItemTyped(item) ==
  /\ item.k = "Store" => item.name \in Names
  /\ item.k = "Call" => item.args \in 1 .. MaxArgs

ItemsTyped(items) == \A i \in DOMAIN items : ItemTyped(items[i])

TInv ==
  /\ fuel \in 0 .. MaxNodes /\ nDoubles \in Nat
  /\ \A g \in 1 .. Len(gens) : EncoderTyped(gens[g], nDoubles, Len(funs), nStmts)
  /\ labelDescs \in Seq(DescSet(nStmts, Len(gens)))
  /\ nextLabels \in Seq(LabelNames)
  /\ status \in {"compiling", "done", "error", "undefined"}
  /\ crossed \in BOOLEAN
  /\ ItemsTyped(todo)
  /\ funs \in Seq(FunSet(nDoubles, Len(funs)))
  /\ status = "done" => funs # <<>>

LEMMA SeqGrows == ASSUME NEW S, NEW T, S \subseteq T, NEW s \in Seq(S) PROVE s \in Seq(T)
<1>1. IsSeq(s) /\ \A i \in DOMAIN s : s[i] \in S
  BY SeqIsSeq
<1>2. \A i \in DOMAIN s : s[i] \in T
  BY <1>1
<1> QED
  BY <1>1, <1>2, SeqFacts

LEMMA LiteralsGrow ==
  ASSUME NEW d \in Nat, NEW d2 \in Nat, d <= d2, NEW m \in Nat, NEW m2 \in Nat, m <= m2
  PROVE  LiteralSet(d, m) \subseteq LiteralSet(d2, m2)
<1>1. 1 .. d \subseteq 1 .. d2 /\ 1 .. m \subseteq 1 .. m2
  OBVIOUS
<1> QED
  BY <1>1 DEF LiteralSet

LEMMA EncoderTypedStill ==
  ASSUME NEW d \in Nat, NEW d2 \in Nat, d <= d2, NEW m \in Nat, NEW m2 \in Nat, m <= m2,
         NEW n \in Nat, NEW n2 \in Nat, n <= n2, NEW gen, EncoderTyped(gen, d, m, n)
  PROVE  EncoderTyped(gen, d2, m2, n2)
<1>1. gen.literals \in Seq(LiteralSet(d2, m2))
  <2>1. LiteralSet(d, m) \subseteq LiteralSet(d2, m2) /\ gen.literals \in Seq(LiteralSet(d, m))
    BY LiteralsGrow DEF EncoderTyped
  <2> QED
    BY <2>1, SeqGrows
<1>2. [at : Positions, stmt : 1 .. n] \subseteq [at : Positions, stmt : 1 .. n2]
  <2>1. 1 .. n \subseteq 1 .. n2
    OBVIOUS
  <2> QED
    BY <2>1
<1>3. /\ gen.breaks \subseteq [at : Positions, stmt : 1 .. n2] /\ gen.ends \subseteq [at : Positions, stmt : 1 .. n2]
  BY <1>2 DEF EncoderTyped
<1> QED
  BY <1>1, <1>3 DEF EncoderTyped

LEMMA DescsGrow ==
  ASSUME NEW n \in Nat, NEW n2 \in Nat, n <= n2, NEW g \in Nat, NEW g2 \in Nat, g <= g2,
         NEW s, s \in Seq(DescSet(n, g))
  PROVE  s \in Seq(DescSet(n2, g2))
<1>1. 1 .. n \subseteq 1 .. n2 /\ 1 .. g \subseteq 1 .. g2
  OBVIOUS
<1>2. DescSet(n, g) \subseteq DescSet(n2, g2)
  BY <1>1 DEF DescSet
<1> QED
  BY <1>2, SeqGrows

LEMMA FunsGrow ==
  ASSUME NEW d \in Nat, NEW d2 \in Nat, d <= d2, NEW m \in Nat, NEW m2 \in Nat, m <= m2,
         NEW s, s \in Seq(FunSet(d, m))
  PROVE  s \in Seq(FunSet(d2, m2))
<1>1. LiteralSet(d, m) \subseteq LiteralSet(d2, m2)
  BY LiteralsGrow
<1>2. \A l : l \in Seq(LiteralSet(d, m)) => l \in Seq(LiteralSet(d2, m2))
  BY <1>1, SeqGrows
<1>3. FunSet(d, m) \subseteq FunSet(d2, m2)
  BY <1>2 DEF FunSet
<1> QED
  BY <1>3, SeqGrows

\* Instructions and literals are added.
LEMMA EmittedTyped ==
  ASSUME NEW gen, NEW d, NEW m, NEW n, EncoderTyped(gen, d, m, n), NEW cells \in Seq(Nat)
  PROVE  EncoderTyped(Emitted(gen, cells), d, m, n)
<1> DEFINE code == gen.code \o cells
           new  == Emitted(gen, cells)
<1>1. IsEncoder(gen) /\ code \in Seq(Nat)
  BY DEF EncoderTyped
<1>2. new = [gen EXCEPT !.code = code]
  BY DEF Emitted
<1> HIDE DEF code, new
<1>3. Differs(gen, new, code, gen.ends)
  BY <1>1, <1>2, Recoded
<1>4. EncoderTyped(new, d, m, n)
  BY <1>1, <1>3 DEF EncoderTyped, Differs
<1> QED
  BY <1>4 DEF new

\* The encoder a literal has been emitted into.
LEMMA LiteralEmitted ==
  ASSUME NEW gen, IsEncoder(gen), NEW op, NEW literal
  PROVE  LET new == EmittedLiteral(gen, op, literal)
         IN  /\ IsEncoder(new) /\ new.code = gen.code \o <<op, Len(gen.literals) % ByteSize>>
             /\ new.literals = Append(gen.literals, literal)
             /\ new.decls = gen.decls /\ new.breaks = gen.breaks /\ new.ends = gen.ends
<1> DEFINE code == gen.code \o <<op, Len(gen.literals) % ByteSize>>
           literals == Append(gen.literals, literal)
           new == EmittedLiteral(gen, op, literal)
<1>1. DOMAIN gen = {"code", "literals", "decls", "breaks", "ends"}
  BY DEF IsEncoder
<1>2. new = [f \in DOMAIN gen |-> IF f = "code" THEN code ELSE IF f = "literals" THEN literals ELSE gen[f]]
  BY DEF EmittedLiteral
<1> HIDE DEF new, code, literals
<1>3. /\ IsEncoder(new) /\ new.code = code /\ new.literals = literals
      /\ new.decls = gen.decls /\ new.breaks = gen.breaks /\ new.ends = gen.ends
  BY <1>1, <1>2 DEF IsEncoder
<1> QED
  BY <1>3 DEF new, code, literals

LEMMA EmittedLiteralTyped ==
  ASSUME NEW gen, NEW d \in Nat, NEW d2 \in Nat, d <= d2, NEW m \in Nat, NEW m2 \in Nat, m <= m2, NEW n \in Nat,
         EncoderTyped(gen, d, m, n), NEW op \in Nat, NEW literal \in LiteralSet(d2, m2)
  PROVE  EncoderTyped(EmittedLiteral(gen, op, literal), d2, m2, n)
<1> DEFINE new == EmittedLiteral(gen, op, literal)
<1>1. EncoderTyped(gen, d2, m2, n)
  BY EncoderTypedStill
<1>2. Len(gen.literals) % ByteSize \in Nat
  <2>1. Len(gen.literals) \in Nat
    BY <1>1 DEF EncoderTyped
  <2>2. \A x \in Nat : x % ByteSize \in Nat
    BY ByteSizeAssumption
  <2> QED
    BY <2>1, <2>2
<1>3. gen.code \o <<op, Len(gen.literals) % ByteSize>> \in Seq(Nat)
  <2>1. gen.code \in Seq(Nat) /\ <<op, Len(gen.literals) % ByteSize>> \in Seq(Nat)
    BY <1>1, <1>2 DEF EncoderTyped
  <2> QED
    BY <2>1
<1>4. Append(gen.literals, literal) \in Seq(LiteralSet(d2, m2))
  BY <1>1 DEF EncoderTyped
<1>5. /\ IsEncoder(new) /\ new.code = gen.code \o <<op, Len(gen.literals) % ByteSize>>
      /\ new.literals = Append(gen.literals, literal)
      /\ new.decls = gen.decls /\ new.breaks = gen.breaks /\ new.ends = gen.ends
  BY <1>1, LiteralEmitted DEF EncoderTyped
<1> HIDE DEF new
<1>6. EncoderTyped(new, d2, m2, n)
  BY <1>1, <1>3, <1>4, <1>5 DEF EncoderTyped
<1> QED
  BY <1>6 DEF new

\* A step that enters or leaves no function.
Proceeds(items) ==
  /\ todo # <<>> /\ IsSeq(items) /\ Replace(items) /\ ItemsTyped(items)
  /\ UNCHANGED fuel \/ Spend
  /\ nDoubles' \in {nDoubles, nDoubles + 1} /\ nStmts' \in {nStmts, nStmts + 1}
  /\ UNCHANGED <<funs, status>> /\ crossed' \in BOOLEAN
  /\ \/ gens' = gens
     \/ \E gen : SetCoder(gen) /\ EncoderTyped(gen, nDoubles', Len(funs), nStmts')
  /\ UNCHANGED labelDescs \/ labelDescs' \in Seq(DescSet(nStmts', Len(gens)))
  /\ UNCHANGED nextLabels \/ nextLabels' \in Seq(LabelNames)

LEMMA ItemsAfter ==
  ASSUME NEW items, IsSeq(items), IsSeq(todo), todo # <<>>, Replace(items)
  PROVE  \A i \in DOMAIN todo' :
           \/ i \in DOMAIN items /\ todo'[i] = items[i]
           \/ \E j \in DOMAIN todo : j # 1 /\ i = (j + Len(items)) - 1 /\ todo'[i] = todo[j]
<1> DEFINE n == Len(items)
           l == Len(todo)
<1>1. /\ DOMAIN todo' = 1 .. n + l - 1
      /\ \A i \in DOMAIN items : todo'[i] = items[i]
      /\ \A i \in n + 1 .. n + l - 1 : todo'[i] = todo[(i - n) + 1]
      /\ n \in Nat /\ DOMAIN items = 1 .. n /\ l \in Nat \ {0} /\ DOMAIN todo = 1 .. l
  BY Replaced
<1> HIDE DEF n, l
<1>2. \A i \in 1 .. n + l - 1 :
        \/ i \in 1 .. n
        \/ /\ i \in n + 1 .. n + l - 1 /\ (i - n) + 1 \in 1 .. l /\ (i - n) + 1 # 1
           /\ i = (((i - n) + 1) + n) - 1
  BY <1>1
<1> QED
  BY <1>1, <1>2 DEF n

LEMMA ItemsTypedStill ==
  ASSUME NEW items, IsSeq(items), IsSeq(todo), todo # <<>>, Replace(items), ItemsTyped(todo), ItemsTyped(items)
  PROVE  ItemsTyped(todo')
BY ItemsAfter DEF ItemsTyped

LEMMA ProceedsKeepsTInv ==
  ASSUME IInv, BInv, TInv, NEW items, Proceeds(items)
  PROVE  TInv'
<1>1. nDoubles \in Nat /\ nDoubles' \in Nat /\ nDoubles <= nDoubles' /\ Len(funs) \in Nat
  BY DEF TInv, Proceeds
<1>2. nStmts \in Nat /\ nStmts' \in Nat /\ nStmts <= nStmts'
  BY DEF IInv, Proceeds
<1>3. IsSeq(gens) /\ Len(gens) \in Nat /\ DOMAIN gens = 1 .. Len(gens)
  BY SeqFacts DEF BInv, Nested
<1>4. \A g \in 1 .. Len(gens) : EncoderTyped(gens[g], nDoubles', Len(funs), nStmts')
  BY <1>1, <1>2, EncoderTypedStill DEF TInv
<1>5. Len(gens') = Len(gens) /\ \A g \in 1 .. Len(gens') : EncoderTyped(gens'[g], nDoubles', Len(funs), nStmts')
  <2>1. CASE gens' = gens
    BY <1>4, <2>1
  <2>2. CASE gens' # gens
    <3>1. PICK gen : SetCoder(gen) /\ EncoderTyped(gen, nDoubles', Len(funs), nStmts')
      BY <2>2 DEF Proceeds
    <3>2. gens' = [g \in 1 .. Len(gens) |-> IF g = Len(gens) THEN gen ELSE gens[g]]
      BY <1>3, <3>1 DEF SetCoder
    <3>3. Len(gens') = Len(gens)
      <4> DEFINE n == Len(gens)
                 w == [g \in 1 .. n |-> IF g = n THEN gen ELSE gens[g]]
      <4>1. n \in Nat /\ DOMAIN w = 1 .. n /\ gens' = w
        BY <1>3, <3>2
      <4> HIDE DEF w, n
      <4>2. Len(w) = n
        BY <4>1
      <4> QED
        BY <4>1, <4>2 DEF n
    <3> QED
      BY <1>4, <3>1, <3>2, <3>3
  <2> QED
    BY <2>1, <2>2
<1>6. fuel' \in 0 .. MaxNodes
  BY BoundsAssumption DEF Proceeds, TInv, Spend
<1>7. labelDescs' \in Seq(DescSet(nStmts', Len(gens')))
  <2>1. labelDescs \in Seq(DescSet(nStmts', Len(gens)))
    BY <1>2, <1>3, DescsGrow DEF TInv
  <2> QED
    BY <1>5, <2>1 DEF Proceeds
<1>8. nextLabels' \in Seq(LabelNames)
  BY DEF Proceeds, TInv
<1>9. funs' = funs /\ funs \in Seq(FunSet(nDoubles', Len(funs)))
  BY <1>1, FunsGrow DEF Proceeds, TInv
<1>10. ItemsTyped(todo')
  BY ItemsTypedStill DEF Proceeds, TInv, IInv
<1>11. ItemsTyped(todo)' /\ status' = status /\ crossed' \in BOOLEAN
  BY <1>10 DEF Proceeds, ItemsTyped
<1>12. (\A g \in 1 .. Len(gens) : EncoderTyped(gens[g], nDoubles, Len(funs), nStmts))'
  BY <1>5, <1>9 DEF EncoderTyped
<1>13. (funs \in Seq(FunSet(nDoubles, Len(funs))))'
  BY <1>9
<1>14. (labelDescs \in Seq(DescSet(nStmts, Len(gens))))'
  BY <1>7
<1> QED
  BY <1>1, <1>6, <1>8, <1>9, <1>11, <1>12, <1>13, <1>14 DEF TInv

LEMMA FewTyped ==
  /\ IsSeq(<<>>) /\ ItemsTyped(<<>>)
  /\ \A a : ItemTyped(a) => IsSeq(<<a>>) /\ ItemsTyped(<<a>>)
  /\ \A a, b : ItemTyped(a) /\ ItemTyped(b) => IsSeq(<<a, b>>) /\ ItemsTyped(<<a, b>>)
  /\ \A a, b, c : ItemTyped(a) /\ ItemTyped(b) /\ ItemTyped(c) => IsSeq(<<a, b, c>>) /\ ItemsTyped(<<a, b, c>>)
BY DEF IsSeq, ItemsTyped

LEMMA ItemsAreTyped ==
  /\ \A kind : kind \notin {"Store", "Call"} => ItemTyped(Item(kind))
  /\ \A n : ItemTyped(Exit(n))
  /\ \A n \in 1 .. MaxArgs : ItemTyped([k |-> "Call", args |-> n])
  /\ \A n \in Names : ItemTyped([k |-> "Store", name |-> n])
  /\ \A s, e, d : ItemTyped([k |-> "IfCode", stmt |-> s, else |-> e, depth |-> d])
  /\ \A kind, s, p, d : kind \notin {"Store", "Call"} => ItemTyped([k |-> kind, stmt |-> s, past |-> p, depth |-> d])
BY DEF ItemTyped, Item, Exit

LEMMA CoderTyped ==
  ASSUME BInv, TInv, status = "compiling"
  PROVE  /\ EncoderTyped(coder, nDoubles, Len(funs), nStmts) /\ coder = gens[Len(gens)]
         /\ nDoubles \in Nat /\ Len(funs) \in Nat /\ pos \in Nat
<1>1. coder = gens[Len(gens)] /\ Len(gens) \in 1 .. Len(gens) /\ pos \in Nat
  BY CoderPlaced
<1> QED
  BY <1>1 DEF TInv

LEMMA OpsAreNat ==
  /\ kPushUndefined \in Nat /\ kPushLiteral \in Nat /\ kResolve \in Nat /\ kResolvedStore \in Nat /\ kPop \in Nat
  /\ kAdd \in Nat /\ kJump \in Nat /\ kJumpIfFalse \in Nat /\ kCall \in Nat /\ kCreateClosure \in Nat /\ kReturn \in Nat
BY DEF kPushUndefined, kPushLiteral, kResolve, kResolvedStore, kPop, kAdd, kJump, kJumpIfFalse,
       kCall, kCreateClosure, kReturn

LEMMA ExpressionsKeepTInv ==
  ASSUME IInv, BInv, TInv, VisitIdentifier \/ VisitNumber \/ VisitBinOp PROVE TInv'
<1>1. /\ todo # <<>> /\ status = "compiling" /\ UNCHANGED <<labelDescs, nextLabels, funs, nStmts, status, crossed>>
      /\ UNCHANGED fuel \/ Spend
  BY DEF VisitIdentifier, VisitNumber, VisitBinOp, AtExpr, Doing, OnlyCode, OnlyTree
<1>2. crossed' \in BOOLEAN /\ nStmts \in Nat
  BY <1>1 DEF TInv, IInv
<1>3. EncoderTyped(coder, nDoubles, Len(funs), nStmts) /\ nDoubles \in Nat /\ Len(funs) \in Nat
  BY <1>1, CoderTyped
<1>4. nDoubles' \in {nDoubles, nDoubles + 1}
  BY DEF VisitIdentifier, VisitNumber, VisitBinOp, OnlyCode, OnlyTree
<1>5. gens' = gens \/ \E gen : SetCoder(gen) /\ EncoderTyped(gen, nDoubles', Len(funs), nStmts')
  <2>1. CASE VisitIdentifier
    <3>1. PICK n \in Names : SetCoder(EmittedLiteral(coder, kResolve, StringOop(n)))
      BY <2>1 DEF VisitIdentifier
    <3>2. StringOop(n) \in LiteralSet(nDoubles, Len(funs)) /\ kResolve \in Nat
      BY OpsAreNat DEF StringOop, LiteralSet
    <3>3. EncoderTyped(EmittedLiteral(coder, kResolve, StringOop(n)), nDoubles, Len(funs), nStmts)
      <4>1. nDoubles <= nDoubles /\ Len(funs) <= Len(funs)
        BY <1>3
      <4> QED
        BY <1>2, <1>3, <3>2, <4>1, EmittedLiteralTyped
    <3>4. nDoubles' = nDoubles
      BY <2>1 DEF VisitIdentifier, OnlyCode
    <3> QED
      BY <1>1, <3>1, <3>3, <3>4
  <2>2. CASE VisitNumber
    <3> DEFINE new == EmittedLiteral(coder, kPushLiteral, Double(nDoubles + 1))
    <3>1. SetCoder(new) /\ nDoubles' = nDoubles + 1
      BY <2>2 DEF VisitNumber
    <3>2. Double(nDoubles + 1) \in LiteralSet(nDoubles + 1, Len(funs)) /\ kPushLiteral \in Nat
      BY <1>3, OpsAreNat DEF Double, LiteralSet
    <3>3. EncoderTyped(new, nDoubles + 1, Len(funs), nStmts)
      <4>1. nDoubles <= nDoubles + 1 /\ nDoubles + 1 \in Nat /\ Len(funs) <= Len(funs)
        BY <1>3
      <4> QED
        BY <1>2, <1>3, <3>2, <4>1, EmittedLiteralTyped
    <3> HIDE DEF new
    <3> QED
      BY <1>1, <3>1, <3>3
  <2>3. CASE VisitBinOp
    BY <2>3 DEF VisitBinOp, OnlyTree
  <2> QED
    BY <2>1, <2>2, <2>3
<1>6. PICK items : IsSeq(items) /\ Replace(items) /\ ItemsTyped(items)
  <2>1. ItemTyped(Item("Expr")) /\ ItemTyped(Item("Add"))
    BY ItemsAreTyped
  <2> QED
    BY <2>1, FewTyped DEF VisitIdentifier, VisitNumber, VisitBinOp
<1>7. Proceeds(items)
  BY <1>1, <1>2, <1>4, <1>5, <1>6 DEF Proceeds
<1> QED
  BY <1>7, ProceedsKeepsTInv

LEMMA EmitLastKeepsTInv == ASSUME IInv, BInv, TInv, EmitLast PROVE TInv'
<1>1. /\ todo # <<>> /\ status = "compiling" /\ Replace(<<>>)
      /\ UNCHANGED <<labelDescs, nextLabels, funs, nStmts, status, crossed, fuel, nDoubles>>
  BY DEF EmitLast, Doing, OnlyCode
<1>2. crossed' \in BOOLEAN
  BY <1>1 DEF TInv
<1>3. EncoderTyped(coder, nDoubles, Len(funs), nStmts)
  BY <1>1, CoderTyped
<1>4. PICK cells \in Seq(Nat) : SetCoder(Emitted(coder, cells))
  <2>1. <<kAdd>> \in Seq(Nat) /\ <<kPop>> \in Seq(Nat) /\ <<kReturn>> \in Seq(Nat)
    BY OpsAreNat
  <2>2. CASE Doing("Call") /\ SetCoder(Emitted(coder, <<kCall, Head(todo).args % ByteSize>>))
    <3>1. Head(todo).args % ByteSize \in Nat
      <4>1. Head(todo) = todo[1] /\ 1 \in DOMAIN todo
        BY <1>1, SeqFacts DEF IInv
      <4>2. Head(todo).args \in Nat
        BY <2>2, <4>1, BoundsAssumption DEF TInv, ItemsTyped, ItemTyped, Doing
      <4>3. \A x \in Nat : x % ByteSize \in Nat
        BY ByteSizeAssumption
      <4> QED
        BY <4>2, <4>3
    <3>2. <<kCall, Head(todo).args % ByteSize>> \in Seq(Nat)
      BY <3>1, OpsAreNat
    <3> QED
      BY <2>2, <3>2
  <2> QED
    BY <2>1, <2>2 DEF EmitLast
<1>5. EncoderTyped(Emitted(coder, cells), nDoubles, Len(funs), nStmts)
  BY <1>3, EmittedTyped
<1>6. IsSeq(<<>>) /\ ItemsTyped(<<>>)
  BY FewTyped
<1>7. Proceeds(<<>>)
  BY <1>1, <1>2, <1>4, <1>5, <1>6 DEF Proceeds
<1> QED
  BY <1>7, ProceedsKeepsTInv

\* What visitFunCall has still to do.
LEMMA CallItems ==
  ASSUME NEW n \in 1 .. MaxArgs, Replace([i \in 1 .. n + 1 |-> Item("Expr")] \o <<[k |-> "Call", args |-> n]>>)
  PROVE  \E items :
           /\ IsSeq(items) /\ Replace(items) /\ DOMAIN items = 1 .. n + 2 /\ n \in Nat
           /\ \A i \in 1 .. n + 1 : items[i] = Item("Expr")
           /\ items[n + 2] = [k |-> "Call", args |-> n]
           /\ \A i \in DOMAIN items : items[i] \in {Item("Expr"), [k |-> "Call", args |-> n]}
<1> DEFINE exprs == [i \in 1 .. n + 1 |-> Item("Expr")]
           call  == [k |-> "Call", args |-> n]
           items == exprs \o <<call>>
<1>1. n \in Nat
  BY BoundsAssumption
<1>2. exprs \in Seq({Item("Expr"), call}) /\ Len(exprs) = n + 1
  BY <1>1
<1>3. <<call>> \in Seq({Item("Expr"), call}) /\ Len(<<call>>) = 1 /\ <<call>>[1] = call
  OBVIOUS
<1>4. \A i \in 1 .. n + 1 : exprs[i] = Item("Expr")
  OBVIOUS
<1> HIDE DEF exprs, call
<1>5. items \in Seq({Item("Expr"), call}) /\ Len(items) = n + 2
  BY <1>1, <1>2, <1>3
<1>6. \A i \in 1 .. n + 1 : items[i] = Item("Expr")
  BY <1>1, <1>2, <1>3, <1>4
<1>7. items[n + 2] = call
  BY <1>1, <1>2, <1>3
<1> HIDE DEF items
<1>8. IsSeq(items) /\ DOMAIN items = 1 .. n + 2 /\ \A i \in DOMAIN items : items[i] \in {Item("Expr"), call}
  BY <1>5, SeqIsSeq
<1>9. Replace(items)
  BY DEF items, exprs, call
<1> QED
  BY <1>1, <1>6, <1>7, <1>8, <1>9 DEF call

LEMMA VisitFunCallKeepsTInv == ASSUME IInv, BInv, TInv, VisitFunCall PROVE TInv'
<1>1. /\ todo # <<>> /\ Spend
      /\ UNCHANGED <<gens, labelDescs, nextLabels, funs, nDoubles, nStmts, status, crossed>>
  BY DEF VisitFunCall, AtExpr, Doing, OnlyTree
<1>2. PICK n \in 1 .. MaxArgs :
        Replace([i \in 1 .. n + 1 |-> Item("Expr")] \o <<[k |-> "Call", args |-> n]>>)
  BY DEF VisitFunCall
<1> DEFINE call == [k |-> "Call", args |-> n]
<1>3. PICK items : IsSeq(items) /\ Replace(items) /\ \A i \in DOMAIN items : items[i] \in {Item("Expr"), call}
  BY <1>2, CallItems
<1>4. ItemTyped(Item("Expr")) /\ ItemTyped(call)
  BY ItemsAreTyped
<1>5. ItemsTyped(items)
  BY <1>3, <1>4 DEF ItemsTyped
<1>6. crossed' \in BOOLEAN
  BY <1>1 DEF TInv
<1>7. Proceeds(items)
  BY <1>1, <1>3, <1>5, <1>6 DEF Proceeds
<1> QED
  BY <1>7, ProceedsKeepsTInv

LEMMA DeclaredTyped ==
  ASSUME NEW gen, NEW d, NEW m, NEW s, EncoderTyped(gen, d, m, s), NEW n \in Names
  PROVE  LET new == [gen EXCEPT !.decls[n] = Local]
         IN  /\ EncoderTyped(new, d, m, s)
             /\ new.code = gen.code /\ new.literals = gen.literals /\ new.breaks = gen.breaks /\ new.ends = gen.ends
<1> DEFINE decls == [gen.decls EXCEPT ![n] = Local]
           new   == [gen EXCEPT !.decls[n] = Local]
<1>1. IsEncoder(gen) /\ DOMAIN gen = {"code", "literals", "decls", "breaks", "ends"}
  BY DEF EncoderTyped, IsEncoder
<1>2. decls \in [Names -> DeclSet]
  BY DEF EncoderTyped, DeclSet
<1>3. new = [f \in DOMAIN gen |-> IF f = "decls" THEN decls ELSE gen[f]]
  BY <1>1
<1> HIDE DEF new, decls
<1>4. /\ IsEncoder(new) /\ new.code = gen.code /\ new.literals = gen.literals /\ new.breaks = gen.breaks
      /\ new.ends = gen.ends /\ new.decls = decls
  BY <1>1, <1>3 DEF IsEncoder
<1>5. EncoderTyped(new, d, m, s)
  BY <1>2, <1>4 DEF EncoderTyped
<1> QED
  BY <1>4, <1>5 DEF new

LEMMA StatementsKeepTInv ==
  ASSUME IInv, BInv, TInv,
         MoreStmts \/ VisitExprStmt \/ VisitReturn \/ VisitContinue \/ VisitDecl \/ StoreDecl \/ VisitLabel
  PROVE  TInv'
<1>1. /\ todo # <<>> /\ status = "compiling"
      /\ UNCHANGED <<labelDescs, funs, nDoubles, nStmts, status, crossed>>
      /\ UNCHANGED fuel \/ Spend
      /\ UNCHANGED nextLabels \/ \E l \in LabelNames : nextLabels' = Append(nextLabels, l)
  BY DEF MoreStmts, VisitExprStmt, VisitReturn, VisitContinue, VisitDecl, StoreDecl, VisitLabel,
         AtStmt, Doing, OnlyCode, OnlyTree
<1>2. crossed' \in BOOLEAN /\ nextLabels' \in Seq(LabelNames) /\ nStmts \in Nat
  <2>1. nextLabels \in Seq(LabelNames) /\ crossed' \in BOOLEAN /\ nStmts \in Nat
    BY <1>1 DEF TInv, IInv
  <2> QED
    BY <1>1, <2>1
<1>3. EncoderTyped(coder, nDoubles, Len(funs), nStmts) /\ nDoubles \in Nat /\ Len(funs) \in Nat
  BY <1>1, CoderTyped
<1>4. gens' = gens \/ \E gen : SetCoder(gen) /\ EncoderTyped(gen, nDoubles', Len(funs), nStmts')
  <2>1. CASE VisitDecl
    <3>1. PICK n \in Names : SetCoder([coder EXCEPT !.decls[n] = Local])
      BY <2>1 DEF VisitDecl
    <3>2. EncoderTyped([coder EXCEPT !.decls[n] = Local], nDoubles, Len(funs), nStmts)
      BY <1>3, DeclaredTyped
    <3> QED
      BY <1>1, <3>1, <3>2
  <2>2. CASE StoreDecl
    <3> DEFINE mid == EmittedLiteral(coder, kResolvedStore, StringOop(Head(todo).name))
    <3>1. SetCoder(Emitted(mid, <<kPop>>)) /\ Head(todo).k = "Store"
      BY <2>2 DEF StoreDecl, Doing
    <3>2. Head(todo).name \in Names
      <4>1. Head(todo) = todo[1] /\ 1 \in DOMAIN todo
        BY <1>1, SeqFacts DEF IInv
      <4> QED
        BY <3>1, <4>1 DEF TInv, ItemsTyped, ItemTyped
    <3>3. StringOop(Head(todo).name) \in LiteralSet(nDoubles, Len(funs)) /\ kResolvedStore \in Nat /\ <<kPop>> \in Seq(Nat)
      BY <3>2, OpsAreNat DEF StringOop, LiteralSet
    <3>4. EncoderTyped(mid, nDoubles, Len(funs), nStmts)
      <4>1. nDoubles <= nDoubles /\ Len(funs) <= Len(funs)
        BY <1>3
      <4> QED
        BY <1>2, <1>3, <3>3, <4>1, EmittedLiteralTyped
    <3> HIDE DEF mid
    <3>5. EncoderTyped(Emitted(mid, <<kPop>>), nDoubles, Len(funs), nStmts)
      BY <3>3, <3>4, EmittedTyped
    <3> QED
      BY <1>1, <3>1, <3>5
  <2>3. CASE ~VisitDecl /\ ~StoreDecl
    BY <2>3 DEF MoreStmts, VisitExprStmt, VisitReturn, VisitContinue, VisitLabel, OnlyTree
  <2> QED
    BY <2>1, <2>2, <2>3
<1>5. PICK items : IsSeq(items) /\ Replace(items) /\ ItemsTyped(items)
  <2>1. \/ Replace(<<>>) \/ Replace(<<Item("StmtListItem"), Item("More")>>)
        \/ Replace(<<Item("Expr"), Item("Pop")>>) \/ Replace(<<Item("Expr"), Item("Return")>>)
        \/ \E n \in Names : Replace(<<Item("Expr"), [k |-> "Store", name |-> n]>>)
        \/ Replace(<<Item("Stmt")>>)
    BY DEF MoreStmts, VisitExprStmt, VisitReturn, VisitContinue, VisitDecl, StoreDecl, VisitLabel
  <2>2. /\ ItemTyped(Item("Expr")) /\ ItemTyped(Item("Pop")) /\ ItemTyped(Item("Return")) /\ ItemTyped(Item("Stmt"))
        /\ ItemTyped(Item("StmtListItem")) /\ ItemTyped(Item("More"))
        /\ \A n \in Names : ItemTyped([k |-> "Store", name |-> n])
    BY ItemsAreTyped
  <2> QED
    BY <2>1, <2>2, FewTyped
<1>6. Proceeds(items)
  BY <1>1, <1>2, <1>4, <1>5 DEF Proceeds
<1> QED
  BY <1>6, ProceedsKeepsTInv

\* A step that throws, or is undefined.
Stops == \E how \in {"error", "undefined"} : Stop(how)

LEMMA StmtsCounted ==
  ASSUME IInv, NEW i \in DOMAIN todo, OfIf(todo[i]) PROVE todo[i].stmt \in 1 .. nStmts
BY DEF IInv, Entered

LEMMA SeqWith ==
  ASSUME NEW S, NEW s \in Seq(S), NEW i, NEW e \in S
  PROVE  [s EXCEPT ![i] = e] \in Seq(S) /\ Len([s EXCEPT ![i] = e]) = Len(s)
<1> DEFINE n   == Len(s)
           new == [j \in 1 .. n |-> IF j = i THEN e ELSE s[j]]
<1>1. n \in Nat /\ [s EXCEPT ![i] = e] = new /\ \A j \in 1 .. n : s[j] \in S
  OBVIOUS
<1>2. DOMAIN new = 1 .. n /\ \A j \in 1 .. n : new[j] \in S
  BY <1>1
<1>3. new = [j \in 1 .. n |-> new[j]]
  OBVIOUS
<1> HIDE DEF new, n
<1>4. Len(new) = n
  BY <1>1, <1>2
<1>5. new \in Seq(S)
  BY <1>1, <1>2, <1>3, <1>4, SeqFacts DEF IsSeq
<1> QED
  BY <1>1, <1>4, <1>5 DEF n

LEMMA VisitBreakKeepsTInv == ASSUME IInv, BInv, TInv, VisitBreak, ~Stops PROVE TInv'
<1>1. PICK d \in DOMAIN labelDescs :
        /\ SetCoder([Emitted(coder, <<kJump, 0, 0>>)
                       EXCEPT !.breaks = @ \union {[at |-> pos + 3, stmt |-> labelDescs[d].stmt]}])
        /\ labelDescs' = [labelDescs EXCEPT ![d].breaks = Append(@, pos + 3)]
        /\ crossed' = (crossed \/ labelDescs[d].depth # Len(gens))
        /\ Replace(<<>>)
        /\ UNCHANGED <<fuel, nextLabels, funs, nDoubles, nStmts, status>>
  BY BreakMatches DEF Stops
<1>2. todo # <<>> /\ status = "compiling"
  BY DEF VisitBreak, AtStmt, Doing
<1>3. EncoderTyped(coder, nDoubles, Len(funs), nStmts) /\ nDoubles \in Nat /\ Len(funs) \in Nat /\ pos \in Nat
  BY <1>2, CoderTyped
<1>4. /\ labelDescs \in Seq(DescSet(nStmts, Len(gens))) /\ labelDescs[d] \in DescSet(nStmts, Len(gens))
      /\ pos + 3 \in Positions
  <2>1. labelDescs \in Seq(DescSet(nStmts, Len(gens)))
    BY DEF TInv
  <2>2. pos + 3 \in Nat \ {0}
    BY <1>3
  <2> QED
    BY <1>1, <2>1, <2>2 DEF Positions
<1> DEFINE mid == Emitted(coder, <<kJump, 0, 0>>)
           b   == [at |-> pos + 3, stmt |-> labelDescs[d].stmt]
           gen == [mid EXCEPT !.breaks = @ \union {b}]
<1>5. EncoderTyped(mid, nDoubles, Len(funs), nStmts)
  <2>1. <<kJump, 0, 0>> \in Seq(Nat)
    BY OpsAreNat
  <2> QED
    BY <1>3, <2>1, EmittedTyped
<1>6. b \in [at : Positions, stmt : 1 .. nStmts]
  BY <1>4 DEF DescSet
<1> HIDE DEF mid, b
<1>7. EncoderTyped(gen, nDoubles, Len(funs), nStmts)
  <2>1. IsEncoder(mid) /\ DOMAIN mid = {"code", "literals", "decls", "breaks", "ends"}
    BY <1>5 DEF EncoderTyped, IsEncoder
  <2>2. gen = [f \in DOMAIN mid |-> IF f = "breaks" THEN mid.breaks \union {b} ELSE mid[f]]
    BY <2>1
  <2> HIDE DEF gen
  <2>3. /\ IsEncoder(gen) /\ gen.code = mid.code /\ gen.literals = mid.literals /\ gen.ends = mid.ends
        /\ gen.decls = mid.decls /\ gen.breaks = mid.breaks \union {b}
    BY <2>1, <2>2 DEF IsEncoder
  <2> QED
    BY <1>5, <1>6, <2>3 DEF EncoderTyped
<1>8. labelDescs' \in Seq(DescSet(nStmts, Len(gens)))
  <2> DEFINE S == DescSet(nStmts, Len(gens))
             breaks == Append(labelDescs[d].breaks, pos + 3)
             desc == [labelDescs[d] EXCEPT !.breaks = breaks]
  <2>1. breaks \in Seq(Positions)
    <3>1. labelDescs[d].breaks \in Seq(Positions)
      BY <1>4 DEF DescSet
    <3> QED
      BY <1>4, <3>1
  <2>2. labelDescs' = [labelDescs EXCEPT ![d] = desc]
    BY <1>1
  <2> HIDE DEF breaks
  <2>3. desc \in S
    BY <1>4, <2>1 DEF DescSet
  <2>4. labelDescs \in Seq(S)
    BY <1>4
  <2> HIDE DEF S, desc
  <2>5. labelDescs' \in Seq(S)
    BY <2>2, <2>3, <2>4, SeqWith
  <2> QED
    BY <2>5 DEF S
<1>9. crossed' \in BOOLEAN
  <2>1. crossed \in BOOLEAN
    BY DEF TInv
  <2> QED
    BY <1>1, <2>1
<1>10. SetCoder(gen)
  BY <1>1 DEF mid, b
<1>11. IsSeq(<<>>) /\ ItemsTyped(<<>>)
  BY FewTyped
<1> HIDE DEF gen
<1>12. Proceeds(<<>>)
  BY <1>1, <1>2, <1>7, <1>8, <1>9, <1>10, <1>11 DEF Proceeds
<1> QED
  BY <1>12, ProceedsKeepsTInv

LEMMA VisitIfKeepsTInv == ASSUME IInv, BInv, TInv, VisitIf PROVE TInv'
<1>1. /\ todo # <<>> /\ status = "compiling" /\ Spend /\ nextLabels' = <<>> /\ nStmts' = nStmts + 1
      /\ labelDescs' = IF nextLabels = <<>> THEN labelDescs
                       ELSE Append(labelDescs,
                                   [ident |-> Last(nextLabels), stmt |-> nStmts + 1, breaks |-> <<>>,
                                    copies |-> Len(nextLabels), depth |-> Len(gens)])
      /\ UNCHANGED <<gens, funs, nDoubles, status, crossed>>
  BY DEF VisitIf, AtStmt, Doing
<1>2. crossed' \in BOOLEAN /\ nextLabels' \in Seq(LabelNames) /\ nStmts \in Nat
  BY <1>1 DEF TInv, IInv
<1>3. UNCHANGED labelDescs \/ labelDescs' \in Seq(DescSet(nStmts + 1, Len(gens)))
  <2>1. CASE nextLabels = <<>>
    BY <1>1, <2>1
  <2>2. CASE nextLabels # <<>>
    <3> DEFINE desc == [ident |-> Last(nextLabels), stmt |-> nStmts + 1, breaks |-> <<>>,
                        copies |-> Len(nextLabels), depth |-> Len(gens)]
    <3>1. labelDescs' = Append(labelDescs, desc)
      BY <1>1, <2>2
    <3>2. nextLabels \in Seq(LabelNames) /\ labelDescs \in Seq(DescSet(nStmts, Len(gens)))
      BY DEF TInv
    <3>3. Len(nextLabels) \in Nat \ {0}
      BY <2>2, <3>2
    <3>4. Last(nextLabels) \in LabelNames
      BY <3>2, <3>3 DEF Last
    <3>5. Len(gens) \in 1 .. Len(gens) /\ nStmts + 1 \in 1 .. nStmts + 1 /\ <<>> \in Seq(Positions)
      BY <1>1, <1>2, CoderPlaced
    <3>6. desc \in DescSet(nStmts + 1, Len(gens))
      BY <3>3, <3>4, <3>5 DEF DescSet, Positions
    <3>7. labelDescs \in Seq(DescSet(nStmts + 1, Len(gens)))
      <4>1. Len(gens) \in Nat /\ nStmts + 1 \in Nat /\ nStmts <= nStmts + 1
        BY <1>2, <3>5
      <4>2. Len(gens) <= Len(gens)
        BY <4>1
      <4> QED
        BY <1>2, <3>2, <4>1, <4>2, DescsGrow
    <3> HIDE DEF desc
    <3> QED
      BY <3>1, <3>6, <3>7
  <2> QED
    BY <2>1, <2>2
<1>4. PICK items : IsSeq(items) /\ Replace(items) /\ ItemsTyped(items)
  <2>1. ItemTyped(Item("Expr")) /\ \A s, e, d : ItemTyped([k |-> "IfCode", stmt |-> s, else |-> e, depth |-> d])
    BY ItemsAreTyped
  <2>2. PICK else \in BOOLEAN :
          Replace(<<Item("Expr"), [k |-> "IfCode", stmt |-> nStmts + 1, else |-> else, depth |-> Len(gens)]>>)
    BY DEF VisitIf
  <2> QED
    BY <2>1, <2>2, FewTyped
<1>5. Proceeds(items)
  BY <1>1, <1>2, <1>3, <1>4 DEF Proceeds
<1> QED
  BY <1>5, ProceedsKeepsTInv

\* An encoder whose code has had bytes replaced.
LEMMA RecodedTyped ==
  ASSUME NEW gen, NEW d, NEW m, NEW n, EncoderTyped(gen, d, m, n), NEW new, NEW code \in Seq(Nat), NEW ends,
         Differs(gen, new, code, ends), ends \subseteq [at : Positions, stmt : 1 .. n]
  PROVE  EncoderTyped(new, d, m, n)
BY DEF EncoderTyped, Differs

LEMMA PatchedTyped ==
  ASSUME NEW code \in Seq(Nat), NEW at \in Int, NEW target \in Int
  PROVE  ReplaceJumpTarget(code, at, target) \in Seq(Nat)
<1> DEFINE new == ReplaceJumpTarget(code, at, target)
<1>1. IsSeq(code) /\ DOMAIN code = 1 .. Len(code) /\ \A i \in DOMAIN code : code[i] \in Nat
  BY SeqIsSeq
<1>2. IsSeq(new) /\ DOMAIN new = 1 .. Len(code) /\ \A i \in 1 .. Len(code) : new[i] = code[i] \/ new[i] \in Byte
  BY <1>1, PatchedBytes
<1>3. Byte \subseteq Nat
  BY ByteSizeAssumption DEF Byte
<1> HIDE DEF new
<1>4. new \in Seq(Nat)
  BY <1>1, <1>2, <1>3, SeqFacts
<1> QED
  BY <1>4 DEF new

LEMMA IfCasesKeepTInv == ASSUME IInv, BInv, TInv, VisitIfCode \/ VisitElseCode PROVE TInv'
<1>1. /\ todo # <<>> /\ status = "compiling"
      /\ UNCHANGED <<fuel, labelDescs, nextLabels, funs, nDoubles, nStmts, status, crossed>>
  BY DEF VisitIfCode, VisitElseCode, Doing, OnlyCode
<1>2. crossed' \in BOOLEAN
  BY <1>1 DEF TInv
<1>3. EncoderTyped(coder, nDoubles, Len(funs), nStmts) /\ coder = gens[Len(gens)] /\ pos \in Nat
  BY <1>1, CoderTyped
<1>4. <<kJump, 0, 0>> \in Seq(Nat) /\ <<kJumpIfFalse, 0, 0>> \in Seq(Nat)
  BY OpsAreNat
<1>5. \E gen : SetCoder(gen) /\ EncoderTyped(gen, nDoubles, Len(funs), nStmts)
  <2>1. CASE VisitIfCode
    <3>1. SetCoder(Emitted(coder, <<kJumpIfFalse, 0, 0>>))
      BY <2>1 DEF VisitIfCode
    <3>2. EncoderTyped(Emitted(coder, <<kJumpIfFalse, 0, 0>>), nDoubles, Len(funs), nStmts)
      BY <1>3, <1>4, EmittedTyped
    <3> QED
      BY <3>1, <3>2
  <2>2. CASE VisitElseCode
    <3> DEFINE code == coder.code \o <<kJump, 0, 0>>
               patched == ReplaceJumpTarget(code, Head(todo).past, Len(code))
               new == [coder EXCEPT !.code = patched]
    <3>1. SetCoder(new) /\ Head(todo).k = "ElseCode"
      BY <2>2 DEF VisitElseCode, Doing
    <3>2. coder.code \in Seq(Nat) /\ IsEncoder(coder)
      BY <1>3 DEF EncoderTyped
    <3>3. code \in Seq(Nat) /\ Len(code) \in Int
      BY <1>4, <3>2
    <3>4. Head(todo).past \in Int
      <4>1. Head(todo) = todo[1] /\ 1 \in DOMAIN todo
        BY <1>1, SeqFacts DEF IInv
      <4>2. todo[1].past \in 3 .. Len(gens[todo[1].depth].code)
        BY <3>1, <4>1 DEF BInv, PastsPlaced, HasPast
      <4> QED
        BY <4>1, <4>2
    <3> HIDE DEF code
    <3>5. patched \in Seq(Nat)
      BY <3>3, <3>4, PatchedTyped
    <3> HIDE DEF patched
    <3>6. Differs(coder, new, patched, coder.ends)
      BY <3>2, Recoded
    <3> HIDE DEF new
    <3>7. coder.ends \subseteq [at : Positions, stmt : 1 .. nStmts]
      BY <1>3 DEF EncoderTyped
    <3>8. EncoderTyped(new, nDoubles, Len(funs), nStmts)
      BY <1>3, <3>5, <3>6, <3>7, RecodedTyped
    <3> QED
      BY <3>1, <3>8
  <2> QED
    BY <2>1, <2>2
<1>6. PICK items : IsSeq(items) /\ Replace(items) /\ ItemsTyped(items)
  <2>1. \E kind \in {"ElseCode", "EndIf"} : \E s, p, d :
          Replace(<<Item("Stmt"), [k |-> kind, stmt |-> s, past |-> p, depth |-> d]>>)
    BY DEF VisitIfCode, VisitElseCode
  <2>0. PICK kind \in {"ElseCode", "EndIf"} : \E s, p, d :
          Replace(<<Item("Stmt"), [k |-> kind, stmt |-> s, past |-> p, depth |-> d]>>)
    BY <2>1
  <2>2. PICK s, p, d : Replace(<<Item("Stmt"), [k |-> kind, stmt |-> s, past |-> p, depth |-> d]>>)
    BY <2>0
  <2>3. ItemTyped(Item("Stmt")) /\ ItemTyped([k |-> kind, stmt |-> s, past |-> p, depth |-> d])
    BY <2>2, ItemsAreTyped
  <2> QED
    BY <2>2, <2>3, FewTyped
<1>7. Proceeds(items)
  BY <1>1, <1>2, <1>5, <1>6 DEF Proceeds
<1> QED
  BY <1>7, ProceedsKeepsTInv

\* The descriptors that are left are some of those there were.
LEMMA EndIfDescs ==
  ASSUME IInv, NEW S, labelDescs \in Seq(S), NEW stmt, labelDescs' = DescPopped(stmt) PROVE labelDescs' \in Seq(S)
<1>1. CASE labelDescs' = labelDescs
  BY <1>1
<1>2. CASE labelDescs' # labelDescs
  <2>1. labelDescs # <<>> /\ labelDescs' = Front(labelDescs) /\ IsSeq(labelDescs)
    BY <1>2 DEF DescPopped, IInv
  <2>2. IsSeq(labelDescs') /\ DOMAIN labelDescs' = 1 .. Len(labelDescs) - 1
        /\ \A i \in 1 .. Len(labelDescs) - 1 : labelDescs'[i] = labelDescs[i]
    BY <2>1, FrontFacts
  <2>3. \A i \in DOMAIN labelDescs' : labelDescs'[i] \in S
    BY <2>2
  <2> QED
    BY <2>2, <2>3, SeqFacts
<1> QED
  BY <1>1, <1>2

\* The breaks of the descriptor that goes with its statement.
EndBreaks ==
  IF labelDescs # <<>> /\ Last(labelDescs).stmt = Head(todo).stmt THEN Last(labelDescs).breaks ELSE <<>>

LEMMA EndBreaksTyped ==
  ASSUME TInv
  PROVE  EndBreaks \in Seq(Positions) /\ IsSeq(EndBreaks) /\ \A k \in DOMAIN EndBreaks : EndBreaks[k] \in Int
<1>1. EndBreaks \in Seq(Positions)
  <2>1. CASE labelDescs = <<>>
    BY <2>1 DEF EndBreaks
  <2>2. CASE labelDescs # <<>>
    <3>1. labelDescs \in Seq(DescSet(nStmts, Len(gens))) /\ IsSeq(labelDescs)
      BY SeqIsSeq DEF TInv
    <3>2. Last(labelDescs) = labelDescs[Len(labelDescs)] /\ Len(labelDescs) \in DOMAIN labelDescs
      BY <2>2, <3>1, FrontFacts
    <3>3. Last(labelDescs) \in DescSet(nStmts, Len(gens))
      BY <3>1, <3>2
    <3>4. Last(labelDescs).breaks \in Seq(Positions) /\ <<>> \in Seq(Positions)
      BY <3>3 DEF DescSet
    <3> QED
      BY <3>4 DEF EndBreaks
  <2> QED
    BY <2>1, <2>2
<1>2. IsSeq(EndBreaks) /\ \A k \in DOMAIN EndBreaks : EndBreaks[k] \in Positions
  BY <1>1, SeqIsSeq
<1> QED
  BY <1>1, <1>2 DEF Positions

\* What EndIf makes of the encoder.
EndedCode   == BreaksPatched(ReplaceJumpTarget(coder.code, Head(todo).past, pos), EndBreaks)
EndedEncoder ==
  [coder EXCEPT !.code = EndedCode, !.ends = @ \union {[stmt |-> Head(todo).stmt, at |-> pos]}]

LEMMA EndIfEnds ==
  ASSUME EndIf, ~Stops
  PROVE  /\ todo # <<>> /\ status = "compiling" /\ Head(todo).k = "EndIf"
         /\ SetCoder(EndedEncoder) /\ labelDescs' = DescPopped(Head(todo).stmt) /\ Replace(<<>>)
         /\ UNCHANGED <<fuel, nextLabels, funs, nDoubles, nStmts, status, crossed>>
         /\ \A at \in ToSet(EndBreaks) : at <= pos
<1>1. todo # <<>> /\ status = "compiling" /\ Head(todo).k = "EndIf"
  BY DEF EndIf, Doing
<1> QED
  BY <1>1 DEF EndIf, EndedEncoder, EndedCode, EndBreaks, Stops

LEMMA HeadPast ==
  ASSUME IInv, BInv, todo # <<>>, HasPast(Head(todo)), status = "compiling"
  PROVE  /\ Head(todo).past \in 3 .. pos /\ Head(todo).stmt \in 1 .. nStmts /\ Head(todo).depth = Len(gens)
         /\ \A b \in coder.breaks : Apart(b.at, Head(todo).past)
<1>1. Head(todo) = todo[1] /\ 1 \in DOMAIN todo
  <2>1. IsSeq(todo) /\ IsSeq(<<>>)
    BY DEF IInv, IsSeq
  <2>2. DOMAIN todo = 1 .. Len(todo) /\ Len(todo) \in Nat /\ todo \in Seq({todo[i] : i \in DOMAIN todo})
    BY <2>1, SeqFacts
  <2> QED
    BY <2>2
<1>2. OfIf(Head(todo)) /\ HasDepth(Head(todo))
  BY DEF HasPast, OfIf, HasDepth
<1>3. Head(todo).depth = Len(gens)
  BY <1>2, HeadDepth DEF BInv, IInv
<1>4. Head(todo).stmt \in 1 .. nStmts
  BY <1>1, <1>2, StmtsCounted
<1>5. coder = gens[Len(gens)] /\ pos = Len(gens[Len(gens)].code)
  BY CoderPlaced
<1> QED
  BY <1>1, <1>3, <1>4, <1>5 DEF BInv, PastsPlaced

LEMMA EndIfKeepsTInv == ASSUME IInv, BInv, TInv, EndIf, ~Stops PROVE TInv'
<1>1. /\ todo # <<>> /\ status = "compiling" /\ Head(todo).k = "EndIf"
      /\ SetCoder(EndedEncoder) /\ labelDescs' = DescPopped(Head(todo).stmt) /\ Replace(<<>>)
      /\ UNCHANGED <<fuel, nextLabels, funs, nDoubles, nStmts, status, crossed>>
  BY EndIfEnds
<1>2. crossed' \in BOOLEAN
  BY <1>1 DEF TInv
<1>3. EncoderTyped(coder, nDoubles, Len(funs), nStmts) /\ pos \in Nat
  BY <1>1, CoderTyped
<1>4. Head(todo).past \in 3 .. pos /\ Head(todo).stmt \in 1 .. nStmts
  BY <1>1, HeadPast DEF HasPast
<1>5. EndBreaks \in Seq(Positions) /\ IsSeq(EndBreaks) /\ \A k \in DOMAIN EndBreaks : EndBreaks[k] \in Int
  BY EndBreaksTyped
<1> DEFINE first == ReplaceJumpTarget(coder.code, Head(todo).past, pos)
           ends  == coder.ends \union {[stmt |-> Head(todo).stmt, at |-> pos]}
<1>6. first \in Seq(Nat)
  <2>1. coder.code \in Seq(Nat) /\ Head(todo).past \in Int /\ pos \in Int
    BY <1>3, <1>4 DEF EncoderTyped
  <2> QED
    BY <2>1, PatchedTyped
<1>7. EndedCode = BreaksPatched(first, EndBreaks)
  BY DEF EndedCode
<1> HIDE DEF first
<1>8. EndedCode \in Seq(Nat)
  <2>1. IsSeq(first) /\ DOMAIN first = 1 .. Len(first) /\ \A i \in DOMAIN first : first[i] \in Nat
    BY <1>6, SeqIsSeq
  <2>2. /\ IsSeq(EndedCode) /\ DOMAIN EndedCode = 1 .. Len(first)
        /\ \A i \in 1 .. Len(first) : EndedCode[i] = first[i] \/ EndedCode[i] \in Byte
    BY <1>5, <1>7, <2>1, BreaksPatchedBytes
  <2>3. Byte \subseteq Nat
    BY ByteSizeAssumption DEF Byte
  <2> QED
    BY <2>1, <2>2, <2>3, SeqFacts
<1>9. IsEncoder(coder) /\ EndedEncoder = [coder EXCEPT !.code = EndedCode, !.ends = ends]
  BY <1>3 DEF EndedEncoder, EncoderTyped
<1> HIDE DEF ends
<1>10. Differs(coder, EndedEncoder, EndedCode, ends)
  BY <1>9, Recoded
<1>11. ends \subseteq [at : Positions, stmt : 1 .. nStmts]
  <2>1. pos \in Positions
    BY <1>3, <1>4 DEF Positions
  <2>2. coder.ends \subseteq [at : Positions, stmt : 1 .. nStmts]
    BY <1>3 DEF EncoderTyped
  <2> QED
    BY <1>4, <2>1, <2>2 DEF ends
<1>12. EncoderTyped(EndedEncoder, nDoubles, Len(funs), nStmts)
  BY <1>3, <1>8, <1>10, <1>11, RecodedTyped
<1>13. labelDescs' \in Seq(DescSet(nStmts, Len(gens)))
  BY <1>1, EndIfDescs DEF TInv
<1>14. IsSeq(<<>>) /\ ItemsTyped(<<>>)
  BY FewTyped
<1>15. Proceeds(<<>>)
  BY <1>1, <1>2, <1>12, <1>13, <1>14 DEF Proceeds
<1> QED
  BY <1>15, ProceedsKeepsTInv

-----------------------------------------------------------------------------
\* A formal has the index of its last occurrence.
LEMMA DeclaredArgs ==
  ASSUME NEW formals, NEW n \in Nat, n <= MaxParams, DOMAIN formals = 1 .. n
  PROVE  DeclareArgs(formals) \in [Names -> DeclSet]
<1> DEFINE At(x) == {i \in DOMAIN formals : formals[i] = x}
           Place(x) == CHOOSE i \in At(x) : \A j \in At(x) : j <= i
<1>1. DeclareArgs(formals) = [x \in Names |-> IF At(x) = {} THEN Undeclared ELSE Arg(Place(x) - 1)]
  BY DEF DeclareArgs
<1>2. ASSUME NEW x \in Names, At(x) # {} PROVE Place(x) \in 1 .. n
  <2> DEFINE S == At(x)
  <2>1. S \subseteq 1 .. n /\ S # {}
    BY <1>2
  <2> HIDE DEF S
  <2>2. \E i \in S : \A j \in S : j <= i
    BY <2>1, Greatest
  <2>3. (CHOOSE i \in S : \A j \in S : j <= i) \in S
    BY <2>2
  <2> QED
    BY <2>1, <2>3 DEF S
<1> HIDE DEF Place, At
<1>3. \A i \in 1 .. n : i - 1 \in 0 .. MaxParams - 1
  BY BoundsAssumption
<1>4. \A x \in Names : (IF At(x) = {} THEN Undeclared ELSE Arg(Place(x) - 1)) \in DeclSet
  BY <1>2, <1>3 DEF DeclSet
<1> QED
  BY <1>1, <1>4

LEMMA NewTyped ==
  ASSUME NEW formals, NEW n \in Nat, n <= MaxParams, DOMAIN formals = 1 .. n, NEW d, NEW m, NEW s
  PROVE  EncoderTyped(NewEncoder(formals), d, m, s)
<1>1. DeclareArgs(formals) \in [Names -> DeclSet]
  BY DeclaredArgs
<1>2. <<>> \in Seq(Nat) /\ <<>> \in Seq(LiteralSet(d, m))
  OBVIOUS
<1> QED
  BY <1>1, <1>2 DEF EncoderTyped, NewEncoder, IsEncoder

\* What visitFunExpr has still to do.
FunctionBodies == {<<Item("Expr"), Item("Return")>>, <<Item("StmtListItem"), Item("More")>>}

LEMMA FunctionItems ==
  ASSUME VisitFunExpr
  PROVE  \E items, a, b :
           /\ <<a, b>> \in FunctionBodies
           /\ IsSeq(items) /\ Len(items) = 3 /\ DOMAIN items = 1 .. 3 /\ Replace(items)
           /\ items[1] = a /\ items[2] = b /\ items[3] = Exit(Len(gens) + 1)
<1>1. PICK body \in FunctionBodies : Replace(body \o <<Exit(Len(gens) + 1)>>)
  BY DEF VisitFunExpr, FunctionBodies
<1>2. PICK a, b : body = <<a, b>>
  BY <1>1 DEF FunctionBodies
<1> DEFINE x     == Exit(Len(gens) + 1)
           items == <<a, b>> \o <<x>>
<1>3. Replace(items) /\ <<a, b>> \in FunctionBodies
  BY <1>1, <1>2
<1>4. items \in Seq({a, b, x}) /\ Len(items) = 3 /\ items[1] = a /\ items[2] = b /\ items[3] = x
  BY BodyItems
<1> HIDE DEF items
<1>5. IsSeq(items) /\ DOMAIN items = 1 .. 3
  BY <1>4, SeqIsSeq
<1> QED
  BY <1>3, <1>4, <1>5

LEMMA VisitFunExprKeepsTInv == ASSUME IInv, BInv, TInv, VisitFunExpr PROVE TInv'
<1>1. /\ todo # <<>> /\ status = "compiling" /\ Spend
      /\ UNCHANGED <<labelDescs, nextLabels, funs, nDoubles, nStmts, status, crossed>>
  BY DEF VisitFunExpr, AtExpr, Doing
<1>2. PICK n \in 1 .. MaxParams : \E formals \in [1 .. n -> Names] : gens' = Append(gens, NewEncoder(formals))
  BY DEF VisitFunExpr
<1>3. PICK formals \in [1 .. n -> Names] : gens' = Append(gens, NewEncoder(formals))
  BY <1>2
<1> DEFINE gen == NewEncoder(formals)
<1>4. EncoderTyped(gen, nDoubles, Len(funs), nStmts)
  <2>1. n \in Nat /\ n <= MaxParams /\ DOMAIN formals = 1 .. n
    BY <1>3, BoundsAssumption
  <2> QED
    BY <2>1, NewTyped
<1>5. gens' = Append(gens, gen)
  BY <1>3
<1> HIDE DEF gen
<1>6. IsSeq(gens) /\ DOMAIN gens = 1 .. Len(gens) /\ Len(gens) \in Nat
  BY SeqFacts DEF BInv, Nested
<1>7. /\ Len(gens') = Len(gens) + 1 /\ gens'[Len(gens) + 1] = gen
      /\ \A g \in 1 .. Len(gens) : gens'[g] = gens[g]
  BY <1>5, <1>6, AppendFacts, AppendLen
<1>8. \A g \in 1 .. Len(gens') : EncoderTyped(gens'[g], nDoubles, Len(funs), nStmts)
  <2>1. \A g \in 1 .. Len(gens) + 1 : g = Len(gens) + 1 \/ g \in 1 .. Len(gens)
    BY <1>6
  <2> QED
    BY <1>4, <1>7, <2>1 DEF TInv
<1>9. labelDescs' \in Seq(DescSet(nStmts, Len(gens')))
  <2>1. nStmts \in Nat /\ Len(gens) <= Len(gens) + 1 /\ Len(gens) + 1 \in Nat
    BY <1>6 DEF IInv
  <2>2. nStmts <= nStmts
    BY <2>1
  <2>3. labelDescs \in Seq(DescSet(nStmts, Len(gens) + 1))
    BY <1>6, <2>1, <2>2, DescsGrow DEF TInv
  <2> QED
    BY <1>1, <1>7, <2>3
<1>10. ItemsTyped(todo')
  <2>1. PICK items, a, b :
           /\ <<a, b>> \in FunctionBodies
           /\ IsSeq(items) /\ Len(items) = 3 /\ DOMAIN items = 1 .. 3 /\ Replace(items)
           /\ items[1] = a /\ items[2] = b /\ items[3] = Exit(Len(gens) + 1)
    BY FunctionItems
  <2>2. ItemTyped(a) /\ ItemTyped(b) /\ ItemTyped(Exit(Len(gens) + 1))
    <3>1. /\ ItemTyped(Item("Expr")) /\ ItemTyped(Item("Return")) /\ ItemTyped(Item("StmtListItem"))
          /\ ItemTyped(Item("More")) /\ ItemTyped(Exit(Len(gens) + 1))
      BY ItemsAreTyped
    <3> QED
      BY <2>1, <3>1 DEF FunctionBodies
  <2>3. ItemsTyped(items)
    <3>1. \A i \in 1 .. 3 : i = 1 \/ i = 2 \/ i = 3
      OBVIOUS
    <3> QED
      BY <2>1, <2>2, <3>1 DEF ItemsTyped
  <2> QED
    BY <1>1, <2>1, <2>3, ItemsTypedStill DEF TInv, IInv
<1>11. fuel' \in 0 .. MaxNodes
  BY <1>1, BoundsAssumption DEF TInv, Spend
<1>12. (\A g \in 1 .. Len(gens) : EncoderTyped(gens[g], nDoubles, Len(funs), nStmts))'
  BY <1>1, <1>8 DEF EncoderTyped
<1>13. ItemsTyped(todo)' /\ (labelDescs \in Seq(DescSet(nStmts, Len(gens))))' /\ (funs \in Seq(FunSet(nDoubles, Len(funs))))'
  BY <1>1, <1>9, <1>10 DEF ItemsTyped, TInv
<1> QED
  BY <1>1, <1>11, <1>12, <1>13 DEF TInv

-----------------------------------------------------------------------------
\* The formals that have an index are numbered from nought.
LEMMA ParamCountIsNat == ASSUME NEW decls \in [Names -> DeclSet] PROVE ParamCount(decls) \in Nat
<1> DEFINE indices == {decls[n].idx : n \in {m \in Names : decls[m].kind = "arg"}}
           most    == CHOOSE i \in indices : \A j \in indices : j <= i
<1>1. indices \subseteq 0 .. MaxParams - 1 /\ indices \subseteq Int
  <2>1. ASSUME NEW n \in Names, decls[n].kind = "arg" PROVE decls[n].idx \in 0 .. MaxParams - 1
    <3>1. decls[n] \in DeclSet
      OBVIOUS
    <3>2. Undeclared.kind = "none" /\ Local.kind = "local" /\ \A i : Arg(i).idx = i
      BY DEF Undeclared, Local, Arg
    <3>3. decls[n] # Undeclared /\ decls[n] # Local
      BY <2>1, <3>2
    <3> QED
      BY <3>1, <3>2, <3>3 DEF DeclSet
  <2>2. indices \subseteq 0 .. MaxParams - 1
    BY <2>1
  <2>3. 0 .. MaxParams - 1 \subseteq Int
    BY BoundsAssumption
  <2> HIDE DEF indices
  <2> QED
    BY <2>2, <2>3
<1>2. ParamCount(decls) = IF indices = {} THEN 0 ELSE 1 + most
  BY DEF ParamCount
<1>3. ASSUME indices # {} PROVE most \in indices
  <2> HIDE DEF indices
  <2> DEFINE T == {i + 1 : i \in indices}
  <2>1. T \subseteq 1 .. MaxParams /\ T # {} /\ MaxParams \in Nat
    <3>1. \A i \in 0 .. MaxParams - 1 : i + 1 \in 1 .. MaxParams
      BY BoundsAssumption
    <3> QED
      BY <1>1, <1>3, <3>1, BoundsAssumption
  <2>2. PICK t \in T : \A u \in T : u <= t
    <3> HIDE DEF T
    <3> QED
      BY <2>1, Greatest
  <2>3. PICK i \in indices : t = i + 1
    BY <2>2
  <2>4. \A j \in indices : j + 1 <= i + 1 /\ j \in Int /\ i \in Int
    <3>1. \A j \in indices : j + 1 \in T
      OBVIOUS
    <3> HIDE DEF T
    <3>2. \A j \in indices : j + 1 <= t
      BY <2>2, <3>1
    <3> QED
      BY <1>1, <2>3, <3>2
  <2>5. \A j \in indices : j <= i
    BY <2>4
  <2> QED
    BY <2>3, <2>5
<1> HIDE DEF most, indices
<1>4. indices # {} => most \in 0 .. MaxParams - 1
  BY <1>1, <1>3
<1>5. \A x \in 0 .. MaxParams - 1 : 1 + x \in Nat
  BY BoundsAssumption
<1> QED
  BY <1>2, <1>4, <1>5

LEMMA MadeTyped ==
  ASSUME NEW gen, NEW d, NEW m, NEW s, EncoderTyped(gen, d, m, s), ~HasNullParam(gen.decls)
  PROVE  MakeFun(gen) \in FunSet(d, m) /\ MakeFun(gen).code = gen.code /\ MakeFun(gen).literals = gen.literals
<1> DEFINE count  == ParamCount(gen.decls)
           params == [i \in 1 .. count |-> CHOOSE n \in Names : gen.decls[n] = Arg(i - 1)]
           locals == Filtered(NameOrder, {n \in Names : gen.decls[n] = Local})
<1>1. count \in Nat
  BY ParamCountIsNat DEF EncoderTyped
<1>2. \A i \in 1 .. count : \E n \in Names : gen.decls[n] = Arg(i - 1)
  <2>1. \A i \in 1 .. count : i - 1 \in 0 .. count - 1
    BY <1>1
  <2> HIDE DEF count
  <2> QED
    BY <2>1 DEF HasNullParam, count
<1> HIDE DEF count
<1>3. params \in Seq(Names)
  BY <1>1, <1>2
<1>4. locals \in Seq(Names)
  <2> DEFINE S == {n \in Names : gen.decls[n] = Local}
  <2>1. Len(NameOrder) \in Nat
    BY NamesAssumption
  <2> HIDE DEF S
  <2>2. PICK at : Picks(NameOrder, Len(NameOrder), S, Filtered(NameOrder, S), at)
    BY <2>1, FilteredPicks
  <2> DEFINE v == Filtered(NameOrder, S)
  <2>3. IsSeq(v) /\ \A k \in 1 .. Len(v) : v[k] \in S
    BY <2>2 DEF Picks
  <2> HIDE DEF v
  <2>4. \A k \in DOMAIN v : v[k] \in Names
    BY <2>3, SeqFacts DEF S
  <2>5. v \in Seq(Names)
    BY <2>3, <2>4, SeqFacts
  <2> QED
    BY <2>5 DEF v, S
<1>5. MakeFun(gen) = [params |-> params, locals |-> locals, code |-> gen.code, literals |-> gen.literals]
  BY DEF MakeFun, count
<1> HIDE DEF params, locals
<1>6. gen.code \in Seq(Nat) /\ gen.literals \in Seq(LiteralSet(d, m))
  BY DEF EncoderTyped
<1> QED
  BY <1>3, <1>4, <1>5, <1>6 DEF FunSet

\* The encoder of the function that ends, and that of the function around it, after.
Ending    == Emitted(coder, <<kPushUndefined, kReturn>>)
Enclosing == Emitted(EmittedLiteral(gens[Len(gens) - 1], kPushLiteral, FunctionOop(Len(funs) + 1)), <<kCreateClosure>>)

LEMMA ExitFunctionMakes ==
  ASSUME BInv, ExitFunction, ~Stops
  PROVE  /\ todo # <<>> /\ status = "compiling" /\ OfFunction(Head(todo)) /\ Len(gens) \in Nat \ {0}
         /\ ~HasNullParam(Ending.decls) /\ funs' = Append(funs, MakeFun(Ending)) /\ Replace(<<>>)
         /\ UNCHANGED <<fuel, labelDescs, nextLabels, nDoubles, nStmts, crossed>>
         /\ Len(gens) = 1 => gens' = <<>> /\ status' = "done"
         /\ Len(gens) > 1 =>
              /\ UNCHANGED status /\ IsSeq(gens') /\ Len(gens') = Len(gens) - 1
              /\ \A g \in 1 .. Len(gens) - 2 : gens'[g] = gens[g]
              /\ gens'[Len(gens) - 1] = Enclosing
<1> DEFINE made == Emitted(EmittedLiteral(Last(Front(gens)), kPushLiteral, FunctionOop(Len(funs) + 1)), <<kCreateClosure>>)
<1>1. todo # <<>> /\ status = "compiling" /\ OfFunction(Head(todo))
  BY DEF ExitFunction, Doing, OfFunction
<1>2. /\ ~HasNullParam(Ending.decls) /\ funs' = Append(funs, MakeFun(Ending)) /\ Replace(<<>>)
      /\ UNCHANGED <<fuel, labelDescs, nextLabels, nDoubles, nStmts, crossed>>
      /\ IF Len(gens) = 1 THEN gens' = <<>> /\ status' = "done"
         ELSE gens' = Append(Front(Front(gens)), made) /\ UNCHANGED status
  BY DEF ExitFunction, Ending, Stops
<1>3. IsSeq(gens) /\ Len(gens) \in Nat \ {0}
  BY <1>1, SeqFacts DEF BInv, Nested
<1>4. ASSUME Len(gens) > 1
      PROVE  /\ UNCHANGED status /\ IsSeq(gens') /\ Len(gens') = Len(gens) - 1
             /\ \A g \in 1 .. Len(gens) - 2 : gens'[g] = gens[g]
             /\ gens'[Len(gens) - 1] = Enclosing
  <2>1. gens' = Append(Front(Front(gens)), made) /\ UNCHANGED status
    <3>1. Len(gens) # 1
      BY <1>3, <1>4
    <3> QED
      BY <1>2, <3>1
  <2> HIDE DEF made
  <2> DEFINE new == Append(Front(Front(gens)), made)
  <2>2. /\ IsSeq(new) /\ Len(new) = Len(gens) - 1
        /\ \A g \in 1 .. Len(gens) - 2 : new[g] = gens[g]
        /\ new[Len(gens) - 1] = made /\ Last(Front(gens)) = gens[Len(gens) - 1]
    BY <1>3, <1>4, Left
  <2> HIDE DEF new
  <2>3. made = Enclosing
    BY <2>2 DEF made, Enclosing
  <2>4. gens' = new
    BY <2>1 DEF new
  <2> QED
    BY <2>1, <2>2, <2>3, <2>4
<1> QED
  BY <1>1, <1>2, <1>3, <1>4

LEMMA EnclosingTyped ==
  ASSUME BInv, TInv, IInv, Len(gens) > 1
  PROVE  EncoderTyped(Enclosing, nDoubles, Len(funs) + 1, nStmts)
<1> DEFINE outer == gens[Len(gens) - 1]
           mid == EmittedLiteral(outer, kPushLiteral, FunctionOop(Len(funs) + 1))
<1>1. Len(gens) \in Nat /\ Len(gens) - 1 \in 1 .. Len(gens)
  BY SeqFacts DEF BInv, Nested
<1>2. EncoderTyped(outer, nDoubles, Len(funs), nStmts)
  BY <1>1 DEF TInv
<1>3. nDoubles \in Nat /\ nStmts \in Nat /\ Len(funs) \in Nat /\ nDoubles <= nDoubles
  <2>1. nDoubles \in Nat /\ nStmts \in Nat /\ Len(funs) \in Nat
    BY DEF TInv, IInv
  <2> QED
    BY <2>1
<1>4. Len(funs) <= Len(funs) + 1 /\ Len(funs) + 1 \in 1 .. Len(funs) + 1 /\ Len(funs) + 1 \in Nat
  BY <1>3
<1>5. FunctionOop(Len(funs) + 1) \in LiteralSet(nDoubles, Len(funs) + 1) /\ kPushLiteral \in Nat /\ <<kCreateClosure>> \in Seq(Nat)
  BY <1>4, OpsAreNat DEF FunctionOop, LiteralSet
<1>6. EncoderTyped(mid, nDoubles, Len(funs) + 1, nStmts)
  BY <1>2, <1>3, <1>4, <1>5, EmittedLiteralTyped
<1>7. Enclosing = Emitted(mid, <<kCreateClosure>>)
  BY DEF Enclosing
<1> HIDE DEF mid
<1> QED
  BY <1>5, <1>6, <1>7, EmittedTyped

LEMMA ExitFunctionKeepsTInv == ASSUME IInv, BInv, TInv, ExitFunction, ~Stops PROVE TInv'
<1>1. /\ todo # <<>> /\ status = "compiling" /\ OfFunction(Head(todo)) /\ Len(gens) \in Nat \ {0}
      /\ ~HasNullParam(Ending.decls) /\ funs' = Append(funs, MakeFun(Ending)) /\ Replace(<<>>)
      /\ UNCHANGED <<fuel, labelDescs, nextLabels, nDoubles, nStmts, crossed>>
      /\ Len(gens) = 1 => gens' = <<>> /\ status' = "done"
      /\ Len(gens) > 1 =>
           /\ UNCHANGED status /\ IsSeq(gens') /\ Len(gens') = Len(gens) - 1
           /\ \A g \in 1 .. Len(gens) - 2 : gens'[g] = gens[g]
           /\ gens'[Len(gens) - 1] = Enclosing
  BY ExitFunctionMakes
<1>2. nDoubles \in Nat /\ nStmts \in Nat /\ Len(funs) \in Nat /\ nDoubles <= nDoubles /\ nStmts <= nStmts
  <2>1. nDoubles \in Nat /\ nStmts \in Nat /\ Len(funs) \in Nat
    BY DEF TInv, IInv
  <2> QED
    BY <2>1
<1>3. Len(funs) <= Len(funs) + 1 /\ Len(funs) + 1 \in Nat
  BY <1>2
<1> DEFINE top == Len(gens)
<1>0. top \in Nat \ {0}
  BY <1>1
<1> HIDE DEF top
<1>13. top = 1 \/ top > 1
  BY <1>0
<1>14. Len(gens) = 1 \/ Len(gens) > 1
  BY <1>13 DEF top
<1>4. EncoderTyped(coder, nDoubles, Len(funs), nStmts)
  BY <1>1, CoderTyped
<1>5. MakeFun(Ending) \in FunSet(nDoubles, Len(funs))
  <2>1. <<kPushUndefined, kReturn>> \in Seq(Nat)
    BY OpsAreNat
  <2>2. EncoderTyped(Ending, nDoubles, Len(funs), nStmts)
    BY <1>4, <2>1, EmittedTyped DEF Ending
  <2> QED
    BY <1>1, <2>2, MadeTyped
<1>6. Len(funs') = Len(funs) + 1 /\ funs' \in Seq(FunSet(nDoubles, Len(funs) + 1)) /\ funs' # <<>>
  <2>1. funs \in Seq(FunSet(nDoubles, Len(funs)))
    BY DEF TInv
  <2>2. funs' \in Seq(FunSet(nDoubles, Len(funs))) /\ Len(funs') = Len(funs) + 1
    BY <1>1, <1>5, <2>1
  <2>3. funs' \in Seq(FunSet(nDoubles, Len(funs) + 1))
    BY <1>2, <1>3, <2>2, FunsGrow
  <2> QED
    BY <1>2, <2>2, <2>3
<1>7. \A g \in 1 .. Len(gens') : EncoderTyped(gens'[g], nDoubles, Len(funs) + 1, nStmts)
  <2>1. CASE Len(gens) = 1
    <3>1. Len(gens') = 0
      BY <1>1, <2>1
    <3> QED
      BY <3>1
  <2>2. CASE Len(gens) > 1
    <3>1. \A g \in 1 .. Len(gens) : EncoderTyped(gens[g], nDoubles, Len(funs) + 1, nStmts)
      BY <1>2, <1>3, EncoderTypedStill DEF TInv
    <3>2. EncoderTyped(Enclosing, nDoubles, Len(funs) + 1, nStmts)
      BY <2>2, EnclosingTyped
    <3>3. \A g \in 1 .. Len(gens) - 1 : g \in 1 .. Len(gens) /\ (g = Len(gens) - 1 \/ g \in 1 .. Len(gens) - 2)
      BY <1>1
    <3> QED
      BY <1>1, <2>2, <3>1, <3>2, <3>3
  <2>3. Len(gens) = 1 \/ Len(gens) > 1
    BY <1>14
  <2> QED
    BY <2>1, <2>2, <2>3
<1>8. labelDescs' \in Seq(DescSet(nStmts, Len(gens')))
  <2>1. \A d \in DOMAIN labelDescs : labelDescs[d] \in DescSet(nStmts, Len(gens')) /\ IsSeq(labelDescs)
    <3> TAKE d \in DOMAIN labelDescs
    <3>1. labelDescs \in Seq(DescSet(nStmts, Len(gens)))
      BY DEF TInv
    <3>2. labelDescs[d] \in DescSet(nStmts, Len(gens)) /\ IsSeq(labelDescs)
      BY <3>1, SeqIsSeq
    <3>3. labelDescs[d].depth \in 1 .. Len(gens) - 1
      BY <1>1, NoneOfFunction
    <3>4. Len(gens) > 1 /\ 1 .. Len(gens) - 1 = 1 .. Len(gens')
      BY <1>1, <3>3
    <3> QED
      BY <3>2, <3>3, <3>4 DEF DescSet
  <2>2. IsSeq(labelDescs)
    BY DEF IInv
  <2> QED
    BY <1>1, <2>1, <2>2, SeqFacts
<1>9. ItemsTyped(todo')
  BY <1>1, FewTyped, ItemsTypedStill DEF TInv, IInv
<1>10. (\A g \in 1 .. Len(gens) : EncoderTyped(gens[g], nDoubles, Len(funs), nStmts))'
  BY <1>1, <1>6, <1>7 DEF EncoderTyped
<1>11. /\ ItemsTyped(todo)' /\ (labelDescs \in Seq(DescSet(nStmts, Len(gens))))'
       /\ (funs \in Seq(FunSet(nDoubles, Len(funs))))'
  BY <1>1, <1>6, <1>8, <1>9 DEF ItemsTyped
<1>12. status' \in {"compiling", "done", "error", "undefined"}
  <2>1. Len(gens) = 1 \/ Len(gens) > 1
    BY <1>14
  <2>2. status' = "done" \/ status' = "compiling"
    BY <1>1, <2>1
  <2> QED
    BY <2>2
<1> QED
  BY <1>1, <1>2, <1>6, <1>10, <1>11, <1>12 DEF TInv

LEMMA StopKeepsTInv ==
  ASSUME TInv, UNCHANGED <<todo, fuel, gens, labelDescs, nextLabels, funs, nDoubles, nStmts, crossed>>,
         status' \in {status, "error", "undefined"}
  PROVE  TInv'
<1>1. (\A g \in 1 .. Len(gens) : EncoderTyped(gens[g], nDoubles, Len(funs), nStmts))'
  BY DEF TInv, EncoderTyped
<1> QED
  BY <1>1 DEF TInv, ItemsTyped

LEMMA InitTInv == Init => TInv
<1> SUFFICES ASSUME Init PROVE TInv
  OBVIOUS
<1>1. EncoderTyped(NewEncoder(<<>>), 0, 0, 0)
  <2> DEFINE formals == <<>>
  <2>1. PICK n \in Nat : n <= MaxParams /\ DOMAIN formals = 1 .. n
    <3>1. DOMAIN formals = 1 .. 0 /\ 0 <= MaxParams
      BY BoundsAssumption
    <3> QED
      BY <3>1
  <2> HIDE DEF formals
  <2>2. EncoderTyped(NewEncoder(formals), 0, 0, 0)
    BY <2>1, NewTyped
  <2> QED
    BY <2>2 DEF formals
<1>2. Len(gens) = 1 /\ gens[1] = NewEncoder(<<>>) /\ nDoubles = 0 /\ Len(funs) = 0 /\ nStmts = 0
  BY DEF Init
<1>3. \A g \in 1 .. Len(gens) : EncoderTyped(gens[g], nDoubles, Len(funs), nStmts)
  <2>1. \A g \in 1 .. 1 : g = 1
    OBVIOUS
  <2> QED
    BY <1>1, <1>2, <2>1
<1>4. ItemsTyped(todo)
  BY ItemsAreTyped, FewTyped DEF Init
<1>5. fuel \in 0 .. MaxNodes
  BY BoundsAssumption DEF Init
<1>6. /\ labelDescs \in Seq(DescSet(nStmts, Len(gens))) /\ nextLabels \in Seq(LabelNames)
      /\ funs \in Seq(FunSet(nDoubles, Len(funs)))
  <2>1. labelDescs = <<>> /\ nextLabels = <<>> /\ funs = <<>> /\ \A S : <<>> \in Seq(S)
    BY DEF Init
  <2> QED
    BY <2>1
<1>7. status = "compiling" /\ crossed = FALSE
  BY DEF Init
<1> QED
  BY <1>2, <1>3, <1>4, <1>5, <1>6, <1>7 DEF TInv

LEMMA NextKeepsTInv == IInv /\ BInv /\ TInv /\ [Next]_vars => TInv'
<1> SUFFICES ASSUME IInv, BInv, TInv, [Next]_vars PROVE TInv'
  OBVIOUS
<1>1. CASE UNCHANGED vars
  BY <1>1, StopKeepsTInv DEF vars
<1>2. CASE Stops
  BY <1>2, StopKeepsTInv DEF Stops, Stop
<1>3. CASE Next /\ ~Stops
  BY <1>3, ExpressionsKeepTInv, EmitLastKeepsTInv, VisitFunCallKeepsTInv, VisitFunExprKeepsTInv, StatementsKeepTInv,
     VisitBreakKeepsTInv, VisitIfKeepsTInv, IfCasesKeepTInv, EndIfKeepsTInv, ExitFunctionKeepsTInv DEF Next
<1> QED
  BY <1>1, <1>2, <1>3

THEOREM TypesInvariance == Spec => [](IInv /\ BInv /\ TInv)
<1>1. Init => IInv /\ BInv /\ TInv
  BY InitIInv, InitBInv, InitTInv
<1>2. IInv /\ BInv /\ TInv /\ [Next]_vars => (IInv /\ BInv /\ TInv)'
  BY NextKeepsIInv, NextKeepsBInv, NextKeepsTInv
<1> QED
  BY <1>1, <1>2, PTL DEF Spec

\* Every member of BytecodeGenerator and BytecodeEncoder has its type, whatever the tree, a
\* literal names a double or a function that has been made, and each function that is being
\* compiled has its encoder on the stack.
THEOREM TypesAlwaysHold == Spec => []TypeOK
<1>1. ASSUME IInv, BInv, TInv PROVE TypeOK
  <2>1. DOMAIN gens = 1 .. Len(gens) /\ IsSeq(gens)
    BY <1>1, SeqFacts DEF BInv, Nested
  <2>2. \A g \in DOMAIN gens :
          /\ gens[g].code \in Seq(Nat)
          /\ gens[g].literals \in Seq([t : {"String"}, v : Names]
                                        \union [t : {"Double"}, v : 1 .. nDoubles]
                                        \union [t : {"Function"}, v : 1 .. Len(funs)])
          /\ gens[g].decls \in [Names -> {Undeclared, Local} \union {Arg(i) : i \in 0 .. MaxParams - 1}]
          /\ gens[g].breaks \subseteq [at : Positions, stmt : 1 .. nStmts]
          /\ gens[g].ends \subseteq [at : Positions, stmt : 1 .. nStmts]
    BY <1>1, <2>1 DEF TInv, EncoderTyped, LiteralSet, DeclSet
  <2>3. {todo[i].depth : i \in {j \in DOMAIN todo : todo[j].k = "ExitFunction"}} = DOMAIN gens
    BY <1>1, <2>1 DEF BInv, Nested, FunctionsEnd, DepthsExist, HasDepth, OfFunction
  <2>4. labelDescs \in Seq([ident : LabelNames, stmt : 1 .. nStmts, breaks : Seq(Positions),
                            copies : Positions, depth : 1 .. Len(gens)])
    BY <1>1 DEF TInv, DescSet
  <2> QED
    BY <1>1, <2>2, <2>3, <2>4 DEF TypeOK, TInv
<1> QED
  BY <1>1, TypesInvariance, PTL

-----------------------------------------------------------------------------
(***************************************************************************)
(* What is left to be visited, and the operands it needs and leaves.       *)
(***************************************************************************)
\* What the end of an encoder's code is at when an item is come to.
Needs(item, t) ==
  /\ item.k = "Add" => t >= 2
  /\ item.k = "Call" => item.args \in 1 .. MaxArgs /\ t >= item.args + 1
  /\ item.k \in {"Pop", "Return", "Store", "IfCode"} => t = 1
  /\ item.k \in {"Stmt", "StmtListItem", "More", "ElseCode", "EndIf", "ExitFunction"} => t = 0

Effect(item) ==
  IF item.k = "Expr" THEN 1
  ELSE IF item.k = "Call" THEN -item.args
  ELSE IF item.k \in {"Add", "Pop", "Return", "Store", "IfCode"} THEN -1 ELSE 0

\* After a function, it is what is left for the one around it: it has been pushed there.
AfterItem(item, t, ends) ==
  IF OfFunction(item) THEN IF item.depth > 1 THEN ends[item.depth - 1] + 1 ELSE 0 ELSE t + Effect(item)

Flows(items, at, ends) ==
  /\ at \in [1 .. Len(items) + 1 -> Nat]
  /\ \A i \in DOMAIN items : Needs(items[i], at[i]) /\ at[i + 1] = AfterItem(items[i], at[i], ends)

Flow(items, s, t, ends) == \E at : Flows(items, at, ends) /\ at[1] = s /\ at[Len(items) + 1] = t

\* The jumps of an encoder that will be patched at the end of a case.
Pasts(items, g) == {items[i].past : i \in {j \in DOMAIN items : HasPast(items[j]) /\ items[j].depth = g}}

\* The encoder's code is what the generator emits, and v operands deep at its end.
Ends(gen, pasts, v) == \E depth, lit : Coded(gen, depth, lit, pasts) /\ End(gen, depth) = v

Shaped(items, encoders, ends) ==
  /\ \A g \in 1 .. Len(encoders) : ends[g] \in Nat /\ Ends(encoders[g], Pasts(items, g), ends[g])
  /\ \E t : Flow(items, ends[Len(encoders)], t, ends)

SInv == status = "compiling" /\ ~crossed => \E ends : Shaped(todo, gens, ends)

LEMMA NoItemFlows == ASSUME NEW t \in Nat, NEW ends PROVE Flow(<<>>, t, t, ends)
<1> DEFINE at == [i \in 1 .. 1 |-> t]
<1>1. Flows(<<>>, at, ends) /\ at[1] = t /\ at[Len(<<>>) + 1] = t
  BY DEF Flows
<1> QED
  BY <1>1 DEF Flow

LEMMA OneFlows ==
  ASSUME NEW a, NEW s \in Nat, NEW ends, Needs(a, s), NEW t \in Nat, t = AfterItem(a, s, ends)
  PROVE  Flow(<<a>>, s, t, ends)
<1> DEFINE at == [i \in 1 .. 2 |-> IF i = 1 THEN s ELSE t]
<1>1. at \in [1 .. 2 -> Nat] /\ at[1] = s /\ at[2] = t
  OBVIOUS
<1> HIDE DEF at
<1>2. Flows(<<a>>, at, ends) /\ at[Len(<<a>>) + 1] = t
  BY <1>1 DEF Flows
<1> QED
  BY <1>1, <1>2 DEF Flow

LEMMA TwoFlow ==
  ASSUME NEW a, NEW b, NEW s \in Nat, NEW ends, Needs(a, s), NEW r \in Nat, r = AfterItem(a, s, ends),
         Needs(b, r), NEW t \in Nat, t = AfterItem(b, r, ends)
  PROVE  Flow(<<a, b>>, s, t, ends)
<1> DEFINE at == [i \in 1 .. 3 |-> IF i = 1 THEN s ELSE IF i = 2 THEN r ELSE t]
<1>1. at \in [1 .. 3 -> Nat] /\ at[1] = s /\ at[2] = r /\ at[3] = t
  OBVIOUS
<1> HIDE DEF at
<1>2. Flows(<<a, b>>, at, ends) /\ at[Len(<<a, b>>) + 1] = t
  BY <1>1 DEF Flows
<1> QED
  BY <1>1, <1>2 DEF Flow

\* The items that follow the head, after those that take its place.
LEMMA FlowReplaced ==
  ASSUME IsSeq(todo), todo # <<>>, NEW items, IsSeq(items), Replace(items),
         NEW s, NEW t, NEW ends, Flow(todo, s, t, ends),
         NEW s2, NEW ends2, Flow(items, s2, AfterItem(Head(todo), s, ends), ends2),
         \A i \in DOMAIN todo : i # 1 /\ OfFunction(todo[i]) /\ todo[i].depth > 1 =>
           ends2[todo[i].depth - 1] = ends[todo[i].depth - 1]
  PROVE  Flow(todo', s2, t, ends2)
<1> DEFINE n == Len(items)
           l == Len(todo)
<1>1. PICK at : Flows(todo, at, ends) /\ at[1] = s /\ at[Len(todo) + 1] = t
  BY DEF Flow
<1>2. PICK new : Flows(items, new, ends2) /\ new[1] = s2 /\ new[Len(items) + 1] = AfterItem(Head(todo), s, ends)
  BY DEF Flow
<1>3. /\ IsSeq(todo') /\ DOMAIN todo' = 1 .. n + l - 1
      /\ \A i \in DOMAIN items : todo'[i] = items[i]
      /\ \A i \in n + 1 .. n + l - 1 : todo'[i] = todo[(i - n) + 1]
      /\ n \in Nat /\ DOMAIN items = 1 .. n
      /\ l \in Nat \ {0} /\ DOMAIN todo = 1 .. l /\ Head(todo) = todo[1]
  BY Replaced
<1>4. /\ at \in [1 .. l + 1 -> Nat] /\ at[l + 1] = t
      /\ \A i \in 1 .. l : Needs(todo[i], at[i]) /\ at[i + 1] = AfterItem(todo[i], at[i], ends)
      /\ new \in [1 .. n + 1 -> Nat]
      /\ \A i \in 1 .. n : Needs(items[i], new[i]) /\ new[i + 1] = AfterItem(items[i], new[i], ends2)
      /\ new[n + 1] = at[2]
  <2>1. 1 \in 1 .. l /\ 1 + 1 = 2
    BY <1>3
  <2> QED
    BY <1>1, <1>2, <1>3, <2>1 DEF Flows
<1>5. Len(todo') = n + l - 1
  <2>1. DOMAIN todo' = 1 .. Len(todo') /\ Len(todo') \in Nat
    BY <1>3, SeqFacts
  <2>2. \A x, y \in Nat : 1 .. x = 1 .. y => x = y
    <3> SUFFICES ASSUME NEW x \in Nat, NEW y \in Nat, 1 .. x = 1 .. y PROVE x = y
      OBVIOUS
    <3>1. x = 0 \/ x \in 1 .. y
      OBVIOUS
    <3>2. y = 0 \/ y \in 1 .. x
      OBVIOUS
    <3> QED
      BY <3>1, <3>2
  <2>3. n + l - 1 \in Nat
    BY <1>3
  <2> HIDE DEF n, l
  <2> QED
    BY <1>3, <2>1, <2>2, <2>3
<1> HIDE DEF n, l
<1> DEFINE both == [i \in 1 .. n + l |-> IF i <= n THEN new[i] ELSE at[(i - n) + 1]]
<1>6. both \in [1 .. n + l -> Nat] /\ both[n + l] = t /\ both[1] = s2
  <2>1. \A i \in 1 .. n + l : (i <= n => i \in 1 .. n + 1) /\ (~(i <= n) => (i - n) + 1 \in 1 .. l + 1)
    BY <1>3
  <2>2. both \in [1 .. n + l -> Nat]
    BY <1>4, <2>1
  <2>3. n + l \in 1 .. n + l /\ ~(n + l <= n) /\ ((n + l) - n) + 1 = l + 1 /\ 1 \in 1 .. n + l
    BY <1>3
  <2>4. n = 0 => (1 - n) + 1 = 2 /\ ~(1 <= n)
    OBVIOUS
  <2>5. n # 0 => 1 <= n
    BY <1>3
  <2>6. both[1] = s2
    <3>1. CASE n = 0
      <4>1. both[1] = at[2] /\ new[0 + 1] = at[2]
        BY <1>4, <2>3, <2>4, <3>1
      <4> QED
        BY <1>2, <4>1
    <3>2. CASE n # 0
      BY <1>2, <2>3, <2>5, <3>2
    <3> QED
      BY <3>1, <3>2
  <2> QED
    BY <1>4, <2>2, <2>3, <2>6
<1>7. ASSUME NEW i \in 1 .. n + l - 1
      PROVE  Needs(todo'[i], both[i]) /\ both[i + 1] = AfterItem(todo'[i], both[i], ends2)
  <2>1. CASE i <= n
    <3>1. i \in 1 .. n /\ i \in 1 .. n + l /\ i + 1 \in 1 .. n + l
      BY <1>3, <2>1
    <3>2. both[i] = new[i] /\ todo'[i] = items[i]
      BY <1>3, <2>1, <3>1
    <3>3. both[i + 1] = new[i + 1]
      <4>1. CASE i = n
        <5>1. ~(i + 1 <= n) /\ ((i + 1) - n) + 1 = 2
          BY <1>3, <4>1
        <5>2. both[i + 1] = at[2]
          BY <3>1, <5>1
        <5> QED
          BY <1>4, <4>1, <5>2
      <4>2. CASE i # n
        <5>1. i + 1 <= n
          BY <1>3, <2>1, <4>2
        <5> QED
          BY <3>1, <5>1
      <4> QED
        BY <4>1, <4>2
    <3> HIDE DEF both
    <3> QED
      BY <1>4, <3>1, <3>2, <3>3
  <2>2. CASE ~(i <= n)
    <3> DEFINE j == (i - n) + 1
    <3>1. /\ i \in n + 1 .. n + l - 1 /\ i \in 1 .. n + l /\ i + 1 \in 1 .. n + l /\ ~(i + 1 <= n)
          /\ ((i + 1) - n) + 1 = j + 1 /\ j \in 1 .. l /\ j # 1
      BY <1>3, <2>2
    <3>2. both[i] = at[j] /\ both[i + 1] = at[j + 1] /\ todo'[i] = todo[j]
      BY <1>3, <2>2, <3>1
    <3> HIDE DEF both, j
    <3>3. AfterItem(todo[j], at[j], ends2) = AfterItem(todo[j], at[j], ends)
      BY <1>3, <3>1 DEF AfterItem
    <3> QED
      BY <1>4, <3>1, <3>2, <3>3
  <2> QED
    BY <2>1, <2>2
<1> HIDE DEF both
<1>8. (n + l - 1) + 1 = n + l
  BY <1>3
<1>9. Flows(todo', both, ends2) /\ both[Len(todo') + 1] = t
  BY <1>3, <1>5, <1>6, <1>7, <1>8 DEF Flows
<1> QED
  BY <1>6, <1>9 DEF Flow

\* What the head needs is there.
LEMMA HeadFlows ==
  ASSUME IsSeq(todo), todo # <<>>, NEW s, NEW t, NEW ends, Flow(todo, s, t, ends)
  PROVE  Needs(Head(todo), s) /\ s \in Nat /\ AfterItem(Head(todo), s, ends) \in Nat
<1>1. PICK at : Flows(todo, at, ends) /\ at[1] = s
  BY DEF Flow
<1>2. Len(todo) \in Nat \ {0} /\ DOMAIN todo = 1 .. Len(todo) /\ Head(todo) = todo[1]
  <2> DEFINE none == <<>>
  <2>1. DOMAIN todo = 1 .. Len(todo) /\ Len(todo) \in Nat /\ todo \in Seq({todo[i] : i \in DOMAIN todo})
    BY SeqFacts
  <2> QED
    BY <2>1
<1>3. 1 \in 1 .. Len(todo) /\ 1 \in 1 .. Len(todo) + 1 /\ 1 + 1 \in 1 .. Len(todo) + 1
  BY <1>2
<1> QED
  BY <1>1, <1>2, <1>3 DEF Flows

LEMMA PastsAfter ==
  ASSUME IsSeq(todo), todo # <<>>, NEW items, IsSeq(items), Replace(items), NEW g
  PROVE  /\ \A p \in Pasts(todo', g) : p \in Pasts(items, g) \/ p \in Pasts(todo, g)
         /\ \A p \in Pasts(todo, g) :
              p \in Pasts(todo', g) \/ (HasPast(Head(todo)) /\ Head(todo).depth = g /\ p = Head(todo).past)
         /\ Pasts(items, g) \subseteq Pasts(todo', g)
         /\ HasPast(Head(todo)) /\ Head(todo).depth = g => Head(todo).past \in Pasts(todo, g)
<1> DEFINE n == Len(items)
           l == Len(todo)
<1>1. /\ DOMAIN todo' = 1 .. n + l - 1
      /\ \A i \in DOMAIN items : todo'[i] = items[i]
      /\ \A i \in n + 1 .. n + l - 1 : todo'[i] = todo[(i - n) + 1]
      /\ n \in Nat /\ DOMAIN items = 1 .. n
      /\ l \in Nat \ {0} /\ DOMAIN todo = 1 .. l /\ Head(todo) = todo[1]
  BY Replaced
<1> HIDE DEF n, l
<1>2. \A i \in 1 .. n : i \in 1 .. n + l - 1
  BY <1>1
<1>3. \A j \in 1 .. l : j # 1 => (j + n) - 1 \in n + 1 .. n + l - 1 /\ (((j + n) - 1) - n) + 1 = j
  BY <1>1
<1>4. \A i \in n + 1 .. n + l - 1 : i \in 1 .. n + l - 1
  BY <1>1
<1>5. \A p, s, h : p \in Pasts(s, h) <=> \E i \in DOMAIN s : HasPast(s[i]) /\ s[i].depth = h /\ p = s[i].past
  BY DEF Pasts
<1>6. ASSUME NEW p \in Pasts(todo', g) PROVE p \in Pasts(items, g) \/ p \in Pasts(todo, g)
  <2>1. PICK i \in DOMAIN todo' : HasPast(todo'[i]) /\ todo'[i].depth = g /\ p = todo'[i].past
    BY <1>5
  <2>2. \/ i \in DOMAIN items /\ todo'[i] = items[i]
        \/ \E j \in DOMAIN todo : j # 1 /\ i = (j + Len(items)) - 1 /\ todo'[i] = todo[j]
    BY ItemsAfter
  <2> QED
    BY <1>5, <2>1, <2>2
<1>7. ASSUME NEW p \in Pasts(todo, g)
      PROVE  p \in Pasts(todo', g) \/ (HasPast(Head(todo)) /\ Head(todo).depth = g /\ p = Head(todo).past)
  <2>1. PICK j \in DOMAIN todo : HasPast(todo[j]) /\ todo[j].depth = g /\ p = todo[j].past
    BY <1>5
  <2>2. CASE j = 1
    BY <1>1, <2>1, <2>2
  <2>3. CASE j # 1
    <3>1. PICK i : i = (j + n) - 1
      OBVIOUS
    <3>2. i \in n + 1 .. n + l - 1 /\ (i - n) + 1 = j
      BY <1>1, <1>3, <2>3, <3>1
    <3>3. i \in DOMAIN todo' /\ todo'[i] = todo[j]
      BY <1>1, <1>4, <3>2
    <3> QED
      BY <1>5, <2>1, <3>3
  <2> QED
    BY <2>2, <2>3
<1>8. ASSUME NEW p \in Pasts(items, g) PROVE p \in Pasts(todo', g)
  BY <1>1, <1>2, <1>5, <1>8
<1>9. HasPast(Head(todo)) /\ Head(todo).depth = g => Head(todo).past \in Pasts(todo, g)
  <2>1. 1 \in DOMAIN todo
    BY <1>1
  <2> QED
    BY <1>1, <1>5, <2>1
<1> QED
  BY <1>6, <1>7, <1>8, <1>9

\* A step of an item that is of no function, to others that are not.
LEMMA StepIsShaped ==
  ASSUME IInv, BInv, todo # <<>>, ~OfFunction(Head(todo)), Len(gens) > 0,
         NEW ends, Shaped(todo, gens, ends),
         NEW items, IsSeq(items), Replace(items),
         \A i \in DOMAIN items : ~OfFunction(items[i]) /\ (HasPast(items[i]) => items[i].depth = Len(gens)),
         IsSeq(gens'), Len(gens') = Len(gens), \A g \in 1 .. Len(gens) : g # Len(gens) => gens'[g] = gens[g],
         NEW v \in Nat, Ends(gens'[Len(gens)], Pasts(todo', Len(gens)), v),
         \A e : Flow(items, v, ends[Len(gens)] + Effect(Head(todo)), e)
  PROVE  \E e : Shaped(todo', gens', e)
<1> DEFINE top == Len(gens)
           new == [g \in 1 .. top |-> IF g = top THEN v ELSE ends[g]]
<1>1. PICK t : Flow(todo, ends[top], t, ends)
  BY DEF Shaped
<1>2. IsSeq(todo) /\ top \in Nat /\ top > 0 /\ DOMAIN todo = 1 .. Len(todo)
  BY SeqFacts DEF IInv, BInv, Nested
<1>3. \A i \in DOMAIN todo : OfFunction(todo[i]) => todo[i].depth \in 1 .. top
  BY DEF BInv, Nested, DepthsExist, HasDepth
<1>4. Flow(todo', v, t, new)
  <2>1. AfterItem(Head(todo), ends[top], ends) = ends[top] + Effect(Head(todo))
    BY DEF AfterItem
  <2>2. Flow(items, v, AfterItem(Head(todo), ends[top], ends), new)
    BY <2>1
  <2>3. \A x \in 1 .. top : x > 1 => x - 1 \in 1 .. top /\ x - 1 # top
    BY <1>2
  <2>4. \A i \in DOMAIN todo : i # 1 /\ OfFunction(todo[i]) /\ todo[i].depth > 1 =>
          new[todo[i].depth - 1] = ends[todo[i].depth - 1]
    <3> HIDE DEF top
    <3> QED
      BY <1>3, <2>3
  <2> HIDE DEF new, top
  <2> QED
    BY <1>1, <1>2, <2>2, <2>4, FlowReplaced
<1>5. ASSUME NEW g \in 1 .. top PROVE new[g] \in Nat /\ Ends(gens'[g], Pasts(todo', g), new[g])
  <2>1. CASE g = top
    BY <2>1
  <2>2. CASE g # top
    <3>1. new[g] = ends[g] /\ gens'[g] = gens[g]
      BY <2>2
    <3>2. Pasts(items, g) = {}
      BY <2>2 DEF Pasts
    <3>3. ~(HasPast(Head(todo)) /\ Head(todo).depth = g)
      <4>1. HasDepth(Head(todo)) => Head(todo).depth = top
        BY HeadDepth DEF BInv, IInv
      <4> QED
        BY <2>2, <4>1 DEF HasPast, HasDepth, OfIf
    <3>4. Pasts(todo', g) = Pasts(todo, g)
      <4>1. /\ \A p \in Pasts(todo', g) : p \in Pasts(items, g) \/ p \in Pasts(todo, g)
            /\ \A p \in Pasts(todo, g) :
                 p \in Pasts(todo', g) \/ (HasPast(Head(todo)) /\ Head(todo).depth = g /\ p = Head(todo).past)
        BY <1>2, PastsAfter
      <4> QED
        BY <3>2, <3>3, <4>1
    <3> QED
      BY <3>1, <3>4 DEF Shaped
  <2> QED
    BY <2>1, <2>2
<1>6. new[top] = v
  BY <1>2
<1> HIDE DEF new
<1>7. Shaped(todo', gens', new)
  BY <1>4, <1>5, <1>6 DEF Shaped
<1> QED
  BY <1>7

\* An instruction is emitted.
LEMMA EndsAfter ==
  ASSUME NEW old, IsTyped(old), NEW pasts, NEW t, Ends(old, pasts, t), NEW cells, IsInstruction(cells, t),
         NEW new, EmitsTo(old, cells, new), NEW more, OpensTo(old, pasts, cells, new, more)
  PROVE  Ends(new, more, DepthAfter(cells, 1, t))
<1>1. PICK depth, lit : Coded(old, depth, lit, pasts) /\ End(old, depth) = t
  BY DEF Ends
<1>2. old.code \in Seq(Nat) /\ IsSeq(old.literals)
  BY DEF IsTyped
<1>3. \E e, l : Coded(new, e, l, more) /\ End(new, e) = DepthAfter(cells, 1, End(old, depth))
  BY <1>1, <1>2, CodedGrows
<1> QED
  BY <1>1, <1>3 DEF Ends

LEMMA CoderSet ==
  ASSUME BInv, status = "compiling", NEW new, SetCoder(new)
  PROVE  /\ IsSeq(gens') /\ Len(gens') = Len(gens) /\ gens'[Len(gens)] = new
         /\ \A g \in 1 .. Len(gens) : g # Len(gens) => gens'[g] = gens[g]
<1> DEFINE n == Len(gens)
           w == [g \in 1 .. n |-> IF g = n THEN new ELSE gens[g]]
<1>1. n \in Nat /\ DOMAIN gens = 1 .. n /\ n > 0
  BY SeqFacts DEF BInv, Nested
<1>2. gens' = w
  BY <1>1 DEF SetCoder
<1>3. n \in 1 .. n
  <2> HIDE DEF n
  <2> QED
    BY <1>1
<1>7. DOMAIN w = 1 .. n /\ w[n] = new /\ \A g \in 1 .. n : g # n => w[g] = gens[g]
  <2> HIDE DEF n
  <2> QED
    BY <1>3
<1>4. w = [g \in 1 .. n |-> w[g]]
  OBVIOUS
<1> HIDE DEF w, n
<1>5. Len(w) = n
  BY <1>1, <1>7
<1>6. IsSeq(w)
  BY <1>1, <1>4, <1>5 DEF IsSeq
<1> QED
  BY <1>2, <1>5, <1>6, <1>7 DEF n

LEMMA TypedEncoder == ASSUME NEW gen, NEW d, NEW m, NEW n, EncoderTyped(gen, d, m, n) PROVE IsTyped(gen)
<1>1. IsEncoder(gen) /\ gen.code \in Seq(Nat) /\ gen.literals \in Seq(LiteralSet(d, m))
  BY DEF EncoderTyped
<1> QED
  BY <1>1, SeqIsSeq DEF IsTyped

\* What the encoder on top is at, and what the head needs, when a step begins.
LEMMA TopFacts ==
  ASSUME IInv, BInv, TInv, status = "compiling", todo # <<>>, NEW ends, Shaped(todo, gens, ends)
  PROVE  /\ IsTyped(coder) /\ coder = gens[Len(gens)] /\ Len(gens) \in Nat /\ Len(gens) > 0
         /\ ends[Len(gens)] \in Nat /\ Ends(coder, Pasts(todo, Len(gens)), ends[Len(gens)])
         /\ Needs(Head(todo), ends[Len(gens)]) /\ IsSeq(todo)
         /\ AfterItem(Head(todo), ends[Len(gens)], ends) \in Nat
<1>1. coder = gens[Len(gens)] /\ Len(gens) \in 1 .. Len(gens) /\ EncoderTyped(coder, nDoubles, Len(funs), nStmts)
  BY CoderTyped, CoderPlaced
<1>2. Len(gens) \in Nat /\ Len(gens) > 0
  BY SeqFacts DEF BInv, Nested
<1>3. ends[Len(gens)] \in Nat /\ Ends(coder, Pasts(todo, Len(gens)), ends[Len(gens)])
  BY <1>1 DEF Shaped
<1>4. IsSeq(todo)
  BY DEF IInv
<1>5. PICK t : Flow(todo, ends[Len(gens)], t, ends)
  BY DEF Shaped
<1>6. Needs(Head(todo), ends[Len(gens)]) /\ AfterItem(Head(todo), ends[Len(gens)], ends) \in Nat
  BY <1>4, <1>5, HeadFlows
<1> QED
  BY <1>1, <1>2, <1>3, <1>4, <1>6, TypedEncoder

\* A step that emits one instruction and is done with the head.
LEMMA EmitIsShaped ==
  ASSUME IInv, BInv, TInv, status = "compiling", todo # <<>>, ~HasDepth(Head(todo)),
         NEW ends, Shaped(todo, gens, ends), Replace(<<>>), NEW cells, IsInstruction(cells, ends[Len(gens)]),
         NEW new, SetCoder(new), EmitsTo(coder, cells, new),
         OpensTo(coder, Pasts(todo, Len(gens)), cells, new, Pasts(todo, Len(gens))),
         DepthAfter(cells, 1, ends[Len(gens)]) = ends[Len(gens)] + Effect(Head(todo))
  PROVE  \E e : Shaped(todo', gens', e)
<1> DEFINE top == Len(gens)
           v   == ends[top] + Effect(Head(todo))
           none == <<>>
<1>1. /\ IsTyped(coder) /\ coder = gens[top] /\ top \in Nat /\ top > 0
      /\ ends[top] \in Nat /\ Ends(coder, Pasts(todo, top), ends[top]) /\ IsSeq(todo)
      /\ AfterItem(Head(todo), ends[top], ends) \in Nat
  BY TopFacts
<1>2. ~OfFunction(Head(todo)) /\ ~HasPast(Head(todo))
  BY DEF HasDepth, OfFunction, HasPast, OfIf
<1>3. v \in Nat
  BY <1>1, <1>2 DEF AfterItem
<1>4. Ends(new, Pasts(todo, top), v)
  BY <1>1, EndsAfter
<1>5. Pasts(none, top) = {} /\ IsSeq(none) /\ Replace(none)
  BY DEF Pasts, IsSeq
<1>6. /\ IsSeq(gens') /\ Len(gens') = top /\ gens'[top] = new
      /\ \A g \in 1 .. top : g # top => gens'[g] = gens[g]
  BY CoderSet
<1>7. \A e : Flow(none, v, v, e)
  BY <1>3, NoItemFlows
<1>8. \A i \in DOMAIN none : ~OfFunction(none[i]) /\ (HasPast(none[i]) => none[i].depth = top)
  OBVIOUS
<1> HIDE DEF none
<1>9. Pasts(todo', top) = Pasts(todo, top)
  <2>1. /\ \A p \in Pasts(todo', top) : p \in Pasts(none, top) \/ p \in Pasts(todo, top)
        /\ \A p \in Pasts(todo, top) :
             p \in Pasts(todo', top) \/ (HasPast(Head(todo)) /\ Head(todo).depth = top /\ p = Head(todo).past)
    BY <1>1, <1>5, PastsAfter
  <2> QED
    BY <1>2, <1>5, <2>1
<1>10. Ends(gens'[top], Pasts(todo', top), v)
  BY <1>4, <1>6, <1>9
<1>11. \A e : Flow(none, v, ends[top] + Effect(Head(todo)), e)
  BY <1>7
<1> HIDE DEF v
<1> QED
  BY <1>1, <1>2, <1>3, <1>5, <1>6, <1>8, <1>10, <1>11, StepIsShaped

LEMMA SameEnds ==
  ASSUME NEW old, NEW new, new.code = old.code, new.literals = old.literals, new.breaks = old.breaks,
         new.ends = old.ends, NEW pasts, NEW v, Ends(old, pasts, v)
  PROVE  Ends(new, pasts, v)
<1>1. PICK depth, lit : Coded(old, depth, lit, pasts) /\ End(old, depth) = v
  BY DEF Ends
<1>2. Straight(new.code, depth) /\ End(new, depth) = v
  BY <1>1 DEF Coded, End
<1>3. Named(new, depth, lit) /\ EndsFlat(new, depth) /\ BreakPlaces(new) = BreakPlaces(old)
  BY <1>1 DEF Coded, Named, EndsFlat, BreakPlaces
<1>4. Opened(new.code, depth, pasts \union BreakPlaces(new)) /\ Landing(new.code, depth, pasts \union BreakPlaces(new))
  BY <1>1, <1>3 DEF Coded
<1> QED
  BY <1>2, <1>3, <1>4 DEF Ends, Coded

\* A step that emits nothing: the head gives way to its parts.
LEMMA TreeIsShaped ==
  ASSUME IInv, BInv, TInv, status = "compiling", todo # <<>>, ~HasDepth(Head(todo)),
         NEW ends, Shaped(todo, gens, ends), NEW items, IsSeq(items), Replace(items),
         \A i \in DOMAIN items : ~OfFunction(items[i]) /\ ~HasPast(items[i]),
         \/ gens' = gens
         \/ \E new : /\ SetCoder(new) /\ new.code = coder.code /\ new.literals = coder.literals
                     /\ new.breaks = coder.breaks /\ new.ends = coder.ends,
         \A e : Flow(items, ends[Len(gens)], ends[Len(gens)] + Effect(Head(todo)), e)
  PROVE  \E e : Shaped(todo', gens', e)
<1> DEFINE top == Len(gens)
<1>1. /\ coder = gens[top] /\ top \in Nat /\ top > 0
      /\ ends[top] \in Nat /\ Ends(coder, Pasts(todo, top), ends[top]) /\ IsSeq(todo)
  BY TopFacts
<1>2. ~OfFunction(Head(todo)) /\ ~HasPast(Head(todo))
  BY DEF HasDepth, OfFunction, HasPast, OfIf
<1>3. Pasts(todo', top) = Pasts(todo, top)
  <2>1. Pasts(items, top) = {}
    BY DEF Pasts
  <2>2. /\ \A p \in Pasts(todo', top) : p \in Pasts(items, top) \/ p \in Pasts(todo, top)
        /\ \A p \in Pasts(todo, top) :
             p \in Pasts(todo', top) \/ (HasPast(Head(todo)) /\ Head(todo).depth = top /\ p = Head(todo).past)
    BY <1>1, PastsAfter
  <2> QED
    BY <1>2, <2>1, <2>2
<1>4. /\ IsSeq(gens') /\ Len(gens') = top /\ Ends(gens'[top], Pasts(todo, top), ends[top])
      /\ \A g \in 1 .. top : g # top => gens'[g] = gens[g]
  <2>1. CASE gens' = gens
    BY <1>1, <2>1 DEF BInv, Nested
  <2>2. CASE gens' # gens
    <3>1. PICK new : /\ SetCoder(new) /\ new.code = coder.code /\ new.literals = coder.literals
                     /\ new.breaks = coder.breaks /\ new.ends = coder.ends
      BY <2>2
    <3>2. Ends(new, Pasts(todo, top), ends[top])
      BY <1>1, <3>1, SameEnds
    <3>3. /\ IsSeq(gens') /\ Len(gens') = top /\ gens'[top] = new
          /\ \A g \in 1 .. top : g # top => gens'[g] = gens[g]
      BY <3>1, CoderSet
    <3> QED
      BY <3>2, <3>3
  <2> QED
    BY <2>1, <2>2
<1>5. Ends(gens'[top], Pasts(todo', top), ends[top])
  BY <1>3, <1>4
<1>6. \A i \in DOMAIN items : ~OfFunction(items[i]) /\ (HasPast(items[i]) => items[i].depth = top)
  OBVIOUS
<1> QED
  BY <1>1, <1>2, <1>4, <1>5, <1>6, StepIsShaped

-----------------------------------------------------------------------------
(***************************************************************************)
(* The visitors' instructions.                                             *)
(***************************************************************************)
LEMMA PlainOpens ==
  ASSUME NEW old, NEW new, new.breaks = old.breaks, NEW cells, cells[1] \notin JumpOps, NEW pasts
  PROVE  OpensTo(old, pasts, cells, new, pasts)
BY DEF OpensTo, BreakPlaces, JumpPlace

LEMMA EmittedTo ==
  ASSUME NEW gen, IsEncoder(gen), NEW cells, cells[1] \notin LiteralOps
  PROVE  LET new == Emitted(gen, cells)
         IN  EmitsTo(gen, cells, new) /\ new.breaks = gen.breaks /\ IsEncoder(new)
<1> DEFINE code == gen.code \o cells
           new  == Emitted(gen, cells)
<1>1. new = [gen EXCEPT !.code = code]
  BY DEF Emitted
<1>2. code = gen.code \o cells
  OBVIOUS
<1> HIDE DEF code, new
<1>3. Differs(gen, new, code, gen.ends)
  BY <1>1, Recoded
<1>4. EmitsTo(gen, cells, new) /\ new.breaks = gen.breaks /\ IsEncoder(new)
  BY <1>2, <1>3 DEF EmitsTo, Differs
<1> QED
  BY <1>4 DEF new

LEMMA EmittedLiteralTo ==
  ASSUME NEW gen, IsEncoder(gen), NEW op \in LiteralOps, NEW literal, literal.t = "String" <=> op # kPushLiteral
  PROVE  LET new   == EmittedLiteral(gen, op, literal)
             cells == <<op, Len(gen.literals) % ByteSize>>
         IN  EmitsTo(gen, cells, new) /\ new.breaks = gen.breaks /\ IsEncoder(new)
<1> DEFINE new   == EmittedLiteral(gen, op, literal)
           cells == <<op, Len(gen.literals) % ByteSize>>
<1>1. /\ IsEncoder(new) /\ new.code = gen.code \o cells
      /\ new.literals = Append(gen.literals, literal)
      /\ new.decls = gen.decls /\ new.breaks = gen.breaks /\ new.ends = gen.ends
  BY LiteralEmitted
<1>2. cells[1] = op /\ cells[2] = Len(gen.literals) % ByteSize
  OBVIOUS
<1> HIDE DEF new, cells
<1>3. EmitsTo(gen, cells, new)
  BY <1>1, <1>2 DEF EmitsTo
<1> QED
  BY <1>1, <1>3 DEF new, cells

LEMMA OpKinds ==
  /\ LiteralOps \intersect JumpOps = {}
  /\ \A op \in {kAdd, kPop, kReturn, kCall, kCreateClosure, kPushUndefined} : op \notin LiteralOps /\ op \notin JumpOps
  /\ kJump \in JumpOps /\ kJumpIfFalse \in JumpOps /\ kJump \notin LiteralOps /\ kJumpIfFalse \notin LiteralOps
  /\ {kPushLiteral, kResolve, kResolvedStore} = LiteralOps
  /\ kResolve # kPushLiteral /\ kResolvedStore # kPushLiteral
BY DEF LiteralOps, JumpOps, kPushUndefined, kPushLiteral, kResolve, kResolvedStore, kPop, kAdd, kJump, kJumpIfFalse,
       kCall, kCreateClosure, kReturn

LEMMA LiteralNumber == ASSUME NEW gen, IsTyped(gen) PROVE Len(gen.literals) % ByteSize \in Byte
<1>1. Len(gen.literals) \in Nat
  BY DEF IsTyped, IsSeq
<1>2. \A x \in Nat : x % ByteSize \in 0 .. ByteSize - 1
  BY ByteSizeAssumption
<1> QED
  BY <1>1, <1>2 DEF Byte

\* The head is of no function and no if when it is one of these.
PlainKinds == {"Expr", "Add", "Call", "Pop", "Return", "Store", "Stmt", "StmtListItem", "More"}

LEMMA PlainHead == ASSUME Head(todo).k \in PlainKinds PROVE ~HasDepth(Head(todo))
BY DEF PlainKinds, HasDepth, OfIf, OfFunction

LEMMA LiteralIsShaped ==
  ASSUME IInv, BInv, TInv, NEW ends, Shaped(todo, gens, ends), VisitIdentifier \/ VisitNumber
  PROVE  \E e : Shaped(todo', gens', e)
<1>1. todo # <<>> /\ status = "compiling" /\ Head(todo).k = "Expr" /\ Replace(<<>>)
  BY DEF VisitIdentifier, VisitNumber, AtExpr, Doing
<1>2. IsTyped(coder) /\ ends[Len(gens)] \in Nat
  BY <1>1, TopFacts
<1>3. PICK op, literal :
        op \in {kPushLiteral, kResolve} /\ (literal.t = "String" <=> op # kPushLiteral) /\ SetCoder(EmittedLiteral(coder, op, literal))
  <2>1. CASE VisitIdentifier
    <3>1. PICK n \in Names : SetCoder(EmittedLiteral(coder, kResolve, StringOop(n)))
      BY <2>1 DEF VisitIdentifier
    <3>2. StringOop(n).t = "String"
      BY DEF StringOop
    <3> QED
      BY <3>1, <3>2, OpKinds
  <2>2. CASE VisitNumber
    <3>1. SetCoder(EmittedLiteral(coder, kPushLiteral, Double(nDoubles + 1)))
      BY <2>2 DEF VisitNumber
    <3>2. Double(nDoubles + 1).t # "String"
      BY DEF Double
    <3> QED
      BY <3>1, <3>2
  <2> QED
    BY <2>1, <2>2
<1> DEFINE new   == EmittedLiteral(coder, op, literal)
           cells == <<op, Len(coder.literals) % ByteSize>>
<1>4. PICK b \in Byte : b = Len(coder.literals) % ByteSize
  BY <1>2, LiteralNumber
<1>5. cells = <<op, b>>
  BY <1>4
<1>6. IsInstruction(<<op, b>>, ends[Len(gens)]) /\ DepthAfter(<<op, b>>, 1, ends[Len(gens)]) = ends[Len(gens)] + 1
  <2>1. PICK t \in Nat : t = ends[Len(gens)]
    BY <1>2
  <2> QED
    BY <1>3, <2>1, Instructions
<1>7. EmitsTo(coder, cells, new) /\ new.breaks = coder.breaks
  <2>1. op \in LiteralOps /\ IsEncoder(coder)
    BY <1>2, <1>3, OpKinds DEF IsTyped
  <2> QED
    BY <1>3, <2>1, EmittedLiteralTo
<1>8. cells[1] \notin JumpOps
  BY <1>3, OpKinds
<1>9. SetCoder(new)
  BY <1>3
<1> HIDE DEF new, cells
<1>10. OpensTo(coder, Pasts(todo, Len(gens)), cells, new, Pasts(todo, Len(gens)))
  BY <1>7, <1>8, PlainOpens
<1>11. IsInstruction(cells, ends[Len(gens)]) /\ DepthAfter(cells, 1, ends[Len(gens)]) = ends[Len(gens)] + Effect(Head(todo))
  BY <1>1, <1>5, <1>6 DEF Effect
<1>12. ~HasDepth(Head(todo))
  BY <1>1, PlainHead DEF PlainKinds
<1> QED
  BY <1>1, <1>7, <1>9, <1>10, <1>11, <1>12, EmitIsShaped

LEMMA EmitLastIsShaped ==
  ASSUME IInv, BInv, TInv, MaxArgs < ByteSize, NEW ends, Shaped(todo, gens, ends), EmitLast
  PROVE  \E e : Shaped(todo', gens', e)
<1>1. todo # <<>> /\ status = "compiling" /\ Head(todo).k \in {"Add", "Call", "Pop", "Return"} /\ Replace(<<>>)
  BY DEF EmitLast, Doing
<1>2. IsTyped(coder) /\ ends[Len(gens)] \in Nat /\ Needs(Head(todo), ends[Len(gens)])
  BY <1>1, TopFacts
<1>3. PICK t \in Nat : t = ends[Len(gens)]
  BY <1>2
<1>4. PICK cells :
        /\ SetCoder(Emitted(coder, cells)) /\ cells[1] \notin LiteralOps /\ cells[1] \notin JumpOps
        /\ IsInstruction(cells, t) /\ DepthAfter(cells, 1, t) = t + Effect(Head(todo))
  <2>1. CASE Doing("Add") /\ SetCoder(Emitted(coder, <<kAdd>>))
    <3>1. t >= 2 /\ Effect(Head(todo)) = -1
      BY <1>2, <1>3, <2>1 DEF Needs, Effect, Doing
    <3>2. IsInstruction(<<kAdd>>, t) /\ DepthAfter(<<kAdd>>, 1, t) = t - 1
      BY <3>1, Instructions
    <3>3. t - 1 = t + (-1)
      OBVIOUS
    <3> QED
      BY <2>1, <3>1, <3>2, <3>3, OpKinds
  <2>2. CASE Doing("Call") /\ SetCoder(Emitted(coder, <<kCall, Head(todo).args % ByteSize>>))
    <3>1. Head(todo).args \in 1 .. MaxArgs /\ t >= Head(todo).args + 1 /\ Effect(Head(todo)) = -Head(todo).args
      BY <1>2, <1>3, <2>2 DEF Needs, Effect, Doing
    <3>2. PICK b \in Byte : b = Head(todo).args /\ Head(todo).args % ByteSize = b
      <4>1. \A a \in 1 .. MaxArgs : a \in 0 .. ByteSize - 1 /\ a % ByteSize = a
        BY BoundsAssumption, ByteSizeAssumption
      <4> QED
        BY <3>1, <4>1 DEF Byte
    <3>3. IsInstruction(<<kCall, b>>, t) /\ DepthAfter(<<kCall, b>>, 1, t) = t - b
      BY <3>1, <3>2, Instructions
    <3>4. b \in Int
      BY ByteSizeAssumption DEF Byte
    <3>5. t - b = t + (-b)
      BY <3>4
    <3> QED
      BY <2>2, <3>1, <3>2, <3>3, <3>5, OpKinds
  <2>3. CASE Doing("Pop") /\ SetCoder(Emitted(coder, <<kPop>>))
    <3>1. t = 1 /\ Effect(Head(todo)) = -1
      BY <1>2, <1>3, <2>3 DEF Needs, Effect, Doing
    <3>2. IsInstruction(<<kPop>>, t) /\ DepthAfter(<<kPop>>, 1, t) = 0
      BY <3>1, Instructions
    <3>3. 0 = t + (-1)
      BY <3>1
    <3> QED
      BY <2>3, <3>1, <3>2, <3>3, OpKinds
  <2>4. CASE Doing("Return") /\ SetCoder(Emitted(coder, <<kReturn>>))
    <3>1. t = 1 /\ Effect(Head(todo)) = -1
      BY <1>2, <1>3, <2>4 DEF Needs, Effect, Doing
    <3>2. IsInstruction(<<kReturn>>, t) /\ DepthAfter(<<kReturn>>, 1, t) = 0
      BY <3>1, Instructions
    <3>3. 0 = t + (-1)
      BY <3>1
    <3> QED
      BY <2>4, <3>1, <3>2, <3>3, OpKinds
  <2> QED
    BY <2>1, <2>2, <2>3, <2>4 DEF EmitLast
<1> DEFINE new == Emitted(coder, cells)
<1>5. EmitsTo(coder, cells, new) /\ new.breaks = coder.breaks
  BY <1>2, <1>4, EmittedTo DEF IsTyped
<1>6. SetCoder(new)
  BY <1>4
<1> HIDE DEF new
<1>7. OpensTo(coder, Pasts(todo, Len(gens)), cells, new, Pasts(todo, Len(gens)))
  BY <1>4, <1>5, PlainOpens
<1>8. ~HasDepth(Head(todo))
  BY <1>1, PlainHead DEF PlainKinds
<1> QED
  BY <1>1, <1>3, <1>4, <1>5, <1>6, <1>7, <1>8, EmitIsShaped

\* The jump of a break is open until its statement ends.
LEMMA BreakIsShaped ==
  ASSUME IInv, BInv, TInv, NEW ends, Shaped(todo, gens, ends), VisitBreak, ~Stops
  PROVE  \E e : Shaped(todo', gens', e)
<1>1. PICK d \in DOMAIN labelDescs :
        /\ SetCoder([Emitted(coder, <<kJump, 0, 0>>)
                       EXCEPT !.breaks = @ \union {[at |-> pos + 3, stmt |-> labelDescs[d].stmt]}])
        /\ Replace(<<>>)
  BY BreakMatches DEF Stops
<1>2. todo # <<>> /\ status = "compiling" /\ Head(todo).k \in {"Stmt", "StmtListItem"}
  BY DEF VisitBreak, AtStmt, Doing
<1>3. IsTyped(coder) /\ ends[Len(gens)] = 0
  <2>1. IsTyped(coder) /\ Needs(Head(todo), ends[Len(gens)])
    BY <1>2, TopFacts
  <2> QED
    BY <1>2, <2>1 DEF Needs
<1>4. coder = gens[Len(gens)] /\ Len(gens) \in 1 .. Len(gens) /\ pos \in Nat /\ pos = Len(coder.code)
  BY <1>2, CoderPlaced DEF pos
<1> DEFINE cells == <<kJump, 0, 0>>
           b   == [at |-> pos + 3, stmt |-> labelDescs[d].stmt]
           mid == Emitted(coder, cells)
           new == [mid EXCEPT !.breaks = @ \union {b}]
<1>5. /\ cells[1] \in JumpOps /\ cells[1] \notin LiteralOps /\ IsInstruction(cells, 0) /\ DepthAfter(cells, 1, 0) = 0
      /\ IsSeq(cells) /\ Len(cells) = 3
  <2>1. cells[1] = kJump /\ Len(cells) = 3 /\ IsSeq(cells)
    BY DEF IsSeq
  <2> QED
    BY <2>1, JumpInstruction, OpKinds
<1>6. b.at = pos + 3 /\ b.stmt = labelDescs[d].stmt
  OBVIOUS
<1>7. SetCoder(new)
  BY <1>1
<1> HIDE DEF cells
<1>8. EmitsTo(coder, cells, mid) /\ mid.breaks = coder.breaks /\ IsEncoder(mid)
  BY <1>3, <1>5, EmittedTo DEF IsTyped
<1> HIDE DEF mid, b
<1>9. /\ new.code = mid.code /\ new.literals = mid.literals /\ new.ends = mid.ends
      /\ new.breaks = coder.breaks \union {b}
  <2>1. DOMAIN mid = {"code", "literals", "decls", "breaks", "ends"}
    BY <1>8 DEF IsEncoder
  <2>2. new = [f \in DOMAIN mid |-> IF f = "breaks" THEN mid.breaks \union {b} ELSE mid[f]]
    OBVIOUS
  <2> HIDE DEF new
  <2> QED
    BY <1>8, <2>1, <2>2
<1> HIDE DEF new
<1>10. \A e \in coder.ends : e.stmt # b.stmt
  <2>1. PICK o \in DOMAIN todo : OfIf(todo[o]) /\ todo[o].stmt = labelDescs[d].stmt
    BY DEF IInv, Enclosed
  <2> QED
    BY <1>4, <1>6, <2>1 DEF BInv, Encoders, EndsPlaced
<1>11. EmitsTo(coder, cells, new)
  BY <1>5, <1>8, <1>9, <1>10 DEF EmitsTo
<1>12. Len(new.code) = pos + 3
  <2>1. new.code = coder.code \o cells /\ IsSeq(coder.code)
    BY <1>2, <1>8, <1>9, CoderPlaced DEF EmitsTo, IsPlaced
  <2>2. IsSeq(cells) /\ Len(cells) = 3
    BY <1>5
  <2>3. Len(coder.code \o cells) = Len(coder.code) + Len(cells)
    BY ONLY <2>1, <2>2, ConcatFacts
  <2> QED
    BY <1>4, <2>1, <2>2, <2>3
<1>13. OpensTo(coder, Pasts(todo, Len(gens)), cells, new, Pasts(todo, Len(gens)))
  <2>1. JumpPlace(cells, new.code) = {pos + 3}
    BY <1>5, <1>12 DEF JumpPlace
  <2>2. BreakPlaces(new) = BreakPlaces(coder) \union {pos + 3}
    BY <1>6, <1>9 DEF BreakPlaces
  <2> QED
    BY <2>1, <2>2 DEF OpensTo
<1>14. IsInstruction(cells, ends[Len(gens)]) /\ DepthAfter(cells, 1, ends[Len(gens)]) = ends[Len(gens)] + Effect(Head(todo))
  BY <1>2, <1>3, <1>5 DEF Effect
<1>15. ~HasDepth(Head(todo))
  BY <1>2, PlainHead DEF PlainKinds
<1> QED
  BY <1>1, <1>2, <1>7, <1>11, <1>13, <1>14, <1>15, EmitIsShaped

-----------------------------------------------------------------------------
\* The items' kinds, and what they need and leave.
LEMMA ItemFlows ==
  ASSUME NEW ends
  PROVE  /\ \A s \in Nat : /\ Needs(Item("Expr"), s) /\ AfterItem(Item("Expr"), s, ends) = s + 1
                           /\ s >= 2 => Needs(Item("Add"), s) /\ AfterItem(Item("Add"), s, ends) = s - 1
                           /\ s = 1 => /\ Needs(Item("Pop"), s) /\ AfterItem(Item("Pop"), s, ends) = 0
                                       /\ Needs(Item("Return"), s) /\ AfterItem(Item("Return"), s, ends) = 0
                                       /\ \A n : /\ Needs([k |-> "Store", name |-> n], s)
                                                 /\ AfterItem([k |-> "Store", name |-> n], s, ends) = 0
                                       /\ \A m, e, d : LET item == [k |-> "IfCode", stmt |-> m, else |-> e, depth |-> d]
                                                       IN  Needs(item, s) /\ AfterItem(item, s, ends) = 0
                           /\ s = 0 => /\ Needs(Item("Stmt"), s) /\ AfterItem(Item("Stmt"), s, ends) = 0
                                       /\ Needs(Item("StmtListItem"), s) /\ AfterItem(Item("StmtListItem"), s, ends) = 0
                                       /\ Needs(Item("More"), s) /\ AfterItem(Item("More"), s, ends) = 0
                                       /\ \A kind \in {"ElseCode", "EndIf"} : \A m, p, d :
                                            LET item == [k |-> kind, stmt |-> m, past |-> p, depth |-> d]
                                            IN  Needs(item, s) /\ AfterItem(item, s, ends) = 0
         /\ \A n \in 1 .. MaxArgs, s \in Nat : s >= n + 1 =>
              /\ Needs([k |-> "Call", args |-> n], s) /\ AfterItem([k |-> "Call", args |-> n], s, ends) = s + (-n)
<1> USE DEF Needs, AfterItem, Effect, OfFunction, Item
<1>1. \A s \in Nat : /\ Needs(Item("Expr"), s) /\ AfterItem(Item("Expr"), s, ends) = s + 1
                     /\ s >= 2 => Needs(Item("Add"), s) /\ AfterItem(Item("Add"), s, ends) = s - 1
  OBVIOUS
<1>2. \A s \in Nat : s = 1 => /\ Needs(Item("Pop"), s) /\ AfterItem(Item("Pop"), s, ends) = 0
                              /\ Needs(Item("Return"), s) /\ AfterItem(Item("Return"), s, ends) = 0
  OBVIOUS
<1>3. \A s \in Nat : \A n : s = 1 => /\ Needs([k |-> "Store", name |-> n], s)
                                 /\ AfterItem([k |-> "Store", name |-> n], s, ends) = 0
  OBVIOUS
<1>4. \A s \in Nat : \A m, e, d : s = 1 => LET item == [k |-> "IfCode", stmt |-> m, else |-> e, depth |-> d]
                                       IN  Needs(item, s) /\ AfterItem(item, s, ends) = 0
  OBVIOUS
<1>5. \A s \in Nat : s = 0 => /\ Needs(Item("Stmt"), s) /\ AfterItem(Item("Stmt"), s, ends) = 0
                              /\ Needs(Item("StmtListItem"), s) /\ AfterItem(Item("StmtListItem"), s, ends) = 0
                              /\ Needs(Item("More"), s) /\ AfterItem(Item("More"), s, ends) = 0
  OBVIOUS
<1>6. \A s \in Nat, kind \in {"ElseCode", "EndIf"} : \A m, p, d : s = 0 =>
        LET item == [k |-> kind, stmt |-> m, past |-> p, depth |-> d] IN Needs(item, s) /\ AfterItem(item, s, ends) = 0
  OBVIOUS
<1>7. \A n \in 1 .. MaxArgs, s \in Nat : s >= n + 1 =>
        /\ Needs([k |-> "Call", args |-> n], s) /\ AfterItem([k |-> "Call", args |-> n], s, ends) = s + (-n)
  OBVIOUS
<1> HIDE DEF Needs, AfterItem, Effect, OfFunction, Item
<1> QED
  BY <1>1, <1>2, <1>3, <1>4, <1>5, <1>6, <1>7

LEMMA BinOpIsShaped ==
  ASSUME IInv, BInv, TInv, NEW ends, Shaped(todo, gens, ends), VisitBinOp
  PROVE  \E e : Shaped(todo', gens', e)
<1>1. todo # <<>> /\ status = "compiling" /\ Head(todo).k = "Expr" /\ gens' = gens
  BY DEF VisitBinOp, AtExpr, Doing, OnlyTree
<1> DEFINE items == <<Item("Expr"), Item("Expr"), Item("Add")>>
<1>2. Replace(items)
  BY DEF VisitBinOp
<1>3. IsSeq(items) /\ \A i \in DOMAIN items : ~HasDepth(items[i])
  BY Shallow, ShallowItems
<1>4. \A i \in DOMAIN items : ~OfFunction(items[i]) /\ ~HasPast(items[i])
  <2> HIDE DEF items
  <2> QED
    BY <1>3 DEF HasDepth, OfFunction, HasPast, OfIf
<1>5. ends[Len(gens)] \in Nat
  BY <1>1, TopFacts
<1>6. PICK s \in Nat : s = ends[Len(gens)]
  BY <1>5
<1>7. ASSUME NEW e PROVE Flow(items, s, s + 1, e)
  <2> DEFINE at == [i \in 1 .. 4 |-> IF i = 1 THEN s ELSE IF i = 2 THEN s + 1 ELSE IF i = 3 THEN s + 2 ELSE s + 1]
  <2>1. at \in [1 .. 4 -> Nat] /\ at[1] = s /\ at[2] = s + 1 /\ at[3] = s + 2 /\ at[4] = s + 1
    OBVIOUS
  <2> HIDE DEF at
  <2>2. s + 1 \in Nat /\ s + 2 \in Nat /\ s + 2 >= 2 /\ (s + 1) + 1 = s + 2 /\ (s + 2) - 1 = s + 1
    OBVIOUS
  <2>3. /\ Needs(Item("Expr"), s) /\ AfterItem(Item("Expr"), s, e) = s + 1
        /\ Needs(Item("Expr"), s + 1) /\ AfterItem(Item("Expr"), s + 1, e) = s + 2
    BY <2>2, ItemFlows
  <2>4. Needs(Item("Add"), s + 2) /\ AfterItem(Item("Add"), s + 2, e) = s + 1
    <3>1. PICK t \in Nat : t = s + 2
      OBVIOUS
    <3>2. Needs(Item("Add"), t) /\ AfterItem(Item("Add"), t, e) = t - 1
      BY <2>2, <3>1, ItemFlows
    <3> QED
      BY <2>2, <3>1, <3>2
  <2>5. Len(items) = 3 /\ items[1] = Item("Expr") /\ items[2] = Item("Expr") /\ items[3] = Item("Add") /\ DOMAIN items = 1 .. 3
    OBVIOUS
  <2> HIDE DEF items
  <2>6. \A i \in 1 .. 3 : i = 1 \/ i = 2 \/ i = 3
    OBVIOUS
  <2>7. Flows(items, at, e)
    BY <2>1, <2>3, <2>4, <2>5, <2>6 DEF Flows
  <2> QED
    BY <2>1, <2>5, <2>7 DEF Flow
<1>8. Effect(Head(todo)) = 1
  BY <1>1 DEF Effect
<1>9. ~HasDepth(Head(todo))
  BY <1>1, PlainHead DEF PlainKinds
<1> HIDE DEF items
<1> QED
  BY <1>1, <1>2, <1>3, <1>4, <1>6, <1>7, <1>8, <1>9, TreeIsShaped

LEMMA FunCallIsShaped ==
  ASSUME IInv, BInv, TInv, NEW ends, Shaped(todo, gens, ends), VisitFunCall
  PROVE  \E e : Shaped(todo', gens', e)
<1>1. todo # <<>> /\ status = "compiling" /\ Head(todo).k = "Expr" /\ gens' = gens
  BY DEF VisitFunCall, AtExpr, Doing, OnlyTree
<1>2. PICK n \in 1 .. MaxArgs : Replace([i \in 1 .. n + 1 |-> Item("Expr")] \o <<[k |-> "Call", args |-> n]>>)
  BY DEF VisitFunCall
<1> DEFINE call == [k |-> "Call", args |-> n]
<1>3. PICK items :
        /\ IsSeq(items) /\ Replace(items) /\ DOMAIN items = 1 .. n + 2 /\ n \in Nat
        /\ \A i \in 1 .. n + 1 : items[i] = Item("Expr")
        /\ items[n + 2] = call
        /\ \A i \in DOMAIN items : items[i] \in {Item("Expr"), call}
  BY <1>2, CallItems
<1>4. \A i \in DOMAIN items : ~OfFunction(items[i]) /\ ~HasPast(items[i])
  <2>1. ~HasDepth(Item("Expr")) /\ ~HasDepth(call)
    BY ShallowItems
  <2> HIDE DEF call
  <2> QED
    BY <1>3, <2>1 DEF HasDepth, OfFunction, HasPast, OfIf
<1>5. ends[Len(gens)] \in Nat
  BY <1>1, TopFacts
<1>6. PICK s \in Nat : s = ends[Len(gens)]
  BY <1>5
<1>7. ASSUME NEW e PROVE Flow(items, s, s + 1, e)
  <2> DEFINE at == [i \in 1 .. n + 3 |-> IF i = n + 3 THEN s + 1 ELSE s + (i - 1)]
  <2>1. /\ at \in [1 .. n + 3 -> Nat] /\ at[1] = s /\ at[n + 3] = s + 1
        /\ \A i \in 1 .. n + 2 : at[i] = s + (i - 1)
    BY <1>3
  <2> HIDE DEF at, call
  <2>2. Len(items) = n + 2
    <3>1. DOMAIN items = 1 .. Len(items) /\ Len(items) \in Nat
      BY <1>3, SeqFacts
    <3>2. \A x, y \in Nat : 1 .. x = 1 .. y => x = y
      <4> SUFFICES ASSUME NEW x \in Nat, NEW y \in Nat, 1 .. x = 1 .. y PROVE x = y
        OBVIOUS
      <4>1. x = 0 \/ x \in 1 .. y
        OBVIOUS
      <4>2. y = 0 \/ y \in 1 .. x
        OBVIOUS
      <4> QED
        BY <4>1, <4>2
    <3>3. n + 2 \in Nat
      BY <1>3
    <3> QED
      BY <1>3, <3>1, <3>2, <3>3
  <2>3. ASSUME NEW i \in 1 .. n + 2 PROVE Needs(items[i], at[i]) /\ at[i + 1] = AfterItem(items[i], at[i], e)
    <3>1. CASE i # n + 2
      <4>1. i \in 1 .. n + 1 /\ i + 1 \in 1 .. n + 2 /\ (i + 1) - 1 = (i - 1) + 1 /\ i - 1 \in Nat
        BY <1>3, <3>1
      <4>2. PICK x \in Nat : x = s + (i - 1)
        BY <4>1
      <4>3. at[i] = x /\ at[i + 1] = x + 1
        BY <2>1, <4>1, <4>2
      <4> QED
        BY <1>3, <4>1, <4>3, ItemFlows
    <3>2. CASE i = n + 2
      <4>1. PICK x \in Nat : x = s + (n + 1)
        BY <1>3
      <4>2. at[i] = x /\ i + 1 = n + 3 /\ x >= n + 1 /\ x + (-n) = s + 1
        BY <1>3, <2>1, <3>2, <4>1
      <4>3. Needs(call, x) /\ AfterItem(call, x, e) = x + (-n)
        BY <4>2, ItemFlows DEF call
      <4> QED
        BY <1>3, <2>1, <3>2, <4>2, <4>3
    <3> QED
      BY <3>1, <3>2
  <2>4. (n + 2) + 1 = n + 3
    BY <1>3
  <2>5. Flows(items, at, e)
    BY <1>3, <2>1, <2>2, <2>3, <2>4 DEF Flows
  <2> QED
    BY <2>1, <2>2, <2>4, <2>5 DEF Flow
<1>8. Effect(Head(todo)) = 1
  BY <1>1 DEF Effect
<1>9. ~HasDepth(Head(todo))
  BY <1>1, PlainHead DEF PlainKinds
<1> HIDE DEF call
<1> QED
  BY <1>1, <1>3, <1>4, <1>6, <1>7, <1>8, <1>9, TreeIsShaped

\* What a statement gives way to: its expression and what takes the value off again.
LEMMA StmtFlows ==
  ASSUME NEW s \in Nat, s = 0, NEW e
  PROVE  /\ Flow(<<>>, s, s, e)
         /\ Flow(<<Item("Stmt")>>, s, s, e)
         /\ Flow(<<Item("StmtListItem"), Item("More")>>, s, s, e)
         /\ Flow(<<Item("Expr"), Item("Pop")>>, s, s, e)
         /\ Flow(<<Item("Expr"), Item("Return")>>, s, s, e)
         /\ \A n : Flow(<<Item("Expr"), [k |-> "Store", name |-> n]>>, s, s, e)
         /\ \A m, x, d : Flow(<<Item("Expr"), [k |-> "IfCode", stmt |-> m, else |-> x, depth |-> d]>>, s, s, e)
         /\ \A kind \in {"ElseCode", "EndIf"} : \A m, p, d :
              Flow(<<Item("Stmt"), [k |-> kind, stmt |-> m, past |-> p, depth |-> d]>>, s, s, e)
<1>1. PICK r \in Nat : r = 1
  OBVIOUS
<1>2. Needs(Item("Expr"), s) /\ r = AfterItem(Item("Expr"), s, e)
  <2>1. AfterItem(Item("Expr"), s, e) = s + 1 /\ s + 1 = r
    BY <1>1, ItemFlows
  <2> QED
    BY <2>1, ItemFlows
<1>3. ASSUME NEW b, Needs(b, r), AfterItem(b, r, e) = 0 PROVE Flow(<<Item("Expr"), b>>, s, s, e)
  <2>1. s = AfterItem(b, r, e)
    BY <1>3
  <2> QED
    BY <1>2, <1>3, <2>1, TwoFlow
<1>4. ASSUME NEW a, Needs(a, s), AfterItem(a, s, e) = 0, NEW b, Needs(b, s), AfterItem(b, s, e) = 0
      PROVE  Flow(<<a, b>>, s, s, e)
  <2>1. s = AfterItem(a, s, e) /\ s = AfterItem(b, s, e)
    BY <1>4
  <2> QED
    BY <1>4, <2>1, TwoFlow
<1>5. /\ Needs(Item("Pop"), r) /\ AfterItem(Item("Pop"), r, e) = 0
      /\ Needs(Item("Return"), r) /\ AfterItem(Item("Return"), r, e) = 0
      /\ \A n : LET item == [k |-> "Store", name |-> n] IN Needs(item, r) /\ AfterItem(item, r, e) = 0
      /\ \A m, x, d : LET item == [k |-> "IfCode", stmt |-> m, else |-> x, depth |-> d]
                      IN  Needs(item, r) /\ AfterItem(item, r, e) = 0
  BY <1>1, ItemFlows
<1>6. /\ Needs(Item("Stmt"), s) /\ AfterItem(Item("Stmt"), s, e) = 0
      /\ Needs(Item("StmtListItem"), s) /\ AfterItem(Item("StmtListItem"), s, e) = 0
      /\ Needs(Item("More"), s) /\ AfterItem(Item("More"), s, e) = 0
      /\ \A kind \in {"ElseCode", "EndIf"} : \A m, p, d :
           LET item == [k |-> kind, stmt |-> m, past |-> p, depth |-> d] IN Needs(item, s) /\ AfterItem(item, s, e) = 0
  BY ItemFlows
<1>7. Flow(<<>>, s, s, e)
  BY NoItemFlows
<1>8. Flow(<<Item("Stmt")>>, s, s, e)
  <2>1. s = AfterItem(Item("Stmt"), s, e)
    BY <1>6
  <2> QED
    BY <1>6, <2>1, OneFlows
<1>9. Flow(<<Item("StmtListItem"), Item("More")>>, s, s, e)
  BY <1>4, <1>6
<1>10. Flow(<<Item("Expr"), Item("Pop")>>, s, s, e) /\ Flow(<<Item("Expr"), Item("Return")>>, s, s, e)
  BY <1>3, <1>5
<1>11. \A n : Flow(<<Item("Expr"), [k |-> "Store", name |-> n]>>, s, s, e)
  BY <1>3, <1>5
<1>12. \A m, x, d : Flow(<<Item("Expr"), [k |-> "IfCode", stmt |-> m, else |-> x, depth |-> d]>>, s, s, e)
  BY <1>3, <1>5
<1>13. \A kind \in {"ElseCode", "EndIf"} : \A m, p, d :
         Flow(<<Item("Stmt"), [k |-> kind, stmt |-> m, past |-> p, depth |-> d]>>, s, s, e)
  BY <1>4, <1>6
<1> QED
  BY <1>7, <1>8, <1>9, <1>10, <1>11, <1>12, <1>13

LEMMA StatementsAreShaped ==
  ASSUME IInv, BInv, TInv, NEW ends, Shaped(todo, gens, ends),
         MoreStmts \/ VisitExprStmt \/ VisitReturn \/ VisitContinue \/ VisitDecl \/ VisitLabel \/ VisitIf
  PROVE  \E e : Shaped(todo', gens', e)
<1>1. todo # <<>> /\ status = "compiling" /\ Head(todo).k \in {"Stmt", "StmtListItem", "More"}
  BY DEF MoreStmts, VisitExprStmt, VisitReturn, VisitContinue, VisitDecl, VisitLabel, VisitIf, AtStmt, Doing
<1>2. PICK s \in Nat : s = 0 /\ s = ends[Len(gens)]
  <2>1. Needs(Head(todo), ends[Len(gens)])
    BY <1>1, TopFacts
  <2> QED
    BY <1>1, <2>1 DEF Needs
<1>3. PICK items :
        /\ IsSeq(items) /\ Replace(items) /\ \A e : Flow(items, s, s, e)
        /\ \A i \in DOMAIN items : ~OfFunction(items[i]) /\ ~HasPast(items[i])
  <2>1. \/ Replace(<<>>) \/ Replace(<<Item("StmtListItem"), Item("More")>>)
        \/ Replace(<<Item("Expr"), Item("Pop")>>) \/ Replace(<<Item("Expr"), Item("Return")>>)
        \/ \E n \in Names : Replace(<<Item("Expr"), [k |-> "Store", name |-> n]>>)
        \/ Replace(<<Item("Stmt")>>)
        \/ \E m, x, d : Replace(<<Item("Expr"), [k |-> "IfCode", stmt |-> m, else |-> x, depth |-> d]>>)
    BY DEF MoreStmts, VisitExprStmt, VisitReturn, VisitContinue, VisitDecl, VisitLabel, VisitIf
  <2> DEFINE Fits(items) == IsSeq(items) /\ \A i \in DOMAIN items : ~OfFunction(items[i]) /\ ~HasPast(items[i])
             Plainly(item) == ~OfFunction(item) /\ ~HasPast(item)
  <2>2. /\ Fits(<<>>) /\ \A a : Plainly(a) => Fits(<<a>>)
        /\ \A a, b : Plainly(a) /\ Plainly(b) => Fits(<<a, b>>)
    BY DEF IsSeq
  <2>3. /\ \A kind \in {"Stmt", "StmtListItem", "More", "Expr", "Pop", "Return"} : Plainly(Item(kind))
        /\ \A n : Plainly([k |-> "Store", name |-> n])
        /\ \A m, x, d : Plainly([k |-> "IfCode", stmt |-> m, else |-> x, depth |-> d])
    BY DEF OfFunction, HasPast, Item
  <2> HIDE DEF Plainly
  <2>4. /\ Fits(<<>>) /\ Fits(<<Item("StmtListItem"), Item("More")>>)
        /\ Fits(<<Item("Expr"), Item("Pop")>>) /\ Fits(<<Item("Expr"), Item("Return")>>)
        /\ Fits(<<Item("Stmt")>>) /\ \A n : Fits(<<Item("Expr"), [k |-> "Store", name |-> n]>>)
        /\ \A m, x, d : Fits(<<Item("Expr"), [k |-> "IfCode", stmt |-> m, else |-> x, depth |-> d]>>)
    <3> HIDE DEF Fits
    <3> QED
      BY <2>2, <2>3
  <2> HIDE DEF Fits
  <2>5. \E items : Fits(items) /\ Replace(items) /\ \A e : Flow(items, s, s, e)
    BY <1>2, <2>1, <2>4, StmtFlows
  <2> QED
    BY <2>5 DEF Fits
<1>4. \/ gens' = gens
      \/ \E new : /\ SetCoder(new) /\ new.code = coder.code /\ new.literals = coder.literals
                  /\ new.breaks = coder.breaks /\ new.ends = coder.ends
  <2>1. CASE VisitDecl
    <3>1. PICK n \in Names : SetCoder([coder EXCEPT !.decls[n] = Local])
      BY <2>1 DEF VisitDecl
    <3> DEFINE new == [coder EXCEPT !.decls[n] = Local]
    <3>2. EncoderTyped(coder, nDoubles, Len(funs), nStmts)
      BY <1>1, CoderTyped
    <3>3. /\ new.code = coder.code /\ new.literals = coder.literals
          /\ new.breaks = coder.breaks /\ new.ends = coder.ends
      BY <3>2, DeclaredTyped
    <3> HIDE DEF new
    <3>4. SetCoder(new)
      BY <3>1 DEF new
    <3> QED
      BY <3>3, <3>4
  <2>2. CASE ~VisitDecl
    BY <2>2 DEF MoreStmts, VisitExprStmt, VisitReturn, VisitContinue, VisitLabel, VisitIf, OnlyTree
  <2> QED
    BY <2>1, <2>2
<1>5. s + Effect(Head(todo)) = s
  BY <1>1, <1>2 DEF Effect
<1>6. ~HasDepth(Head(todo))
  BY <1>1, PlainHead DEF PlainKinds
<1> QED
  BY <1>1, <1>2, <1>3, <1>4, <1>5, <1>6, TreeIsShaped

LEMMA EmitsTyped ==
  ASSUME NEW old, IsTyped(old), NEW cells \in Seq(Nat), NEW new, EmitsTo(old, cells, new), IsEncoder(new)
  PROVE  IsTyped(new)
<1>1. new.code \in Seq(Nat)
  <2>1. old.code \in Seq(Nat) /\ new.code = old.code \o cells
    BY DEF IsTyped, EmitsTo
  <2> QED
    BY <2>1
<1>2. IsSeq(new.literals)
  <2>1. IsSeq(old.literals) /\ \A literal : IsSeq(Append(old.literals, literal))
    BY AppendFacts DEF IsTyped
  <2> QED
    BY <2>1 DEF EmitsTo
<1> QED
  BY <1>1, <1>2 DEF IsTyped

\* The value is stored, and popped.
LEMMA StoreIsShaped ==
  ASSUME IInv, BInv, TInv, NEW ends, Shaped(todo, gens, ends), StoreDecl
  PROVE  \E e : Shaped(todo', gens', e)
<1> DEFINE top   == Len(gens)
           pasts == Pasts(todo, top)
           cells == <<kResolvedStore, Len(coder.literals) % ByteSize>>
           mid   == EmittedLiteral(coder, kResolvedStore, StringOop(Head(todo).name))
           pop   == <<kPop>>
           new   == Emitted(mid, pop)
           none  == <<>>
<1>1. todo # <<>> /\ status = "compiling" /\ Head(todo).k = "Store" /\ SetCoder(new) /\ Replace(none)
  BY DEF StoreDecl, Doing
<1>2. /\ IsTyped(coder) /\ top \in Nat /\ top > 0 /\ IsSeq(todo)
      /\ Ends(coder, pasts, ends[top]) /\ Needs(Head(todo), ends[top])
  BY <1>1, TopFacts
<1>3. PICK t \in Nat : t = 1 /\ ends[top] = t
  BY <1>1, <1>2 DEF Needs
<1>4. PICK b \in Byte : b = Len(coder.literals) % ByteSize
  BY <1>2, LiteralNumber
<1>5. /\ IsInstruction(<<kResolvedStore, b>>, t) /\ DepthAfter(<<kResolvedStore, b>>, 1, t) = t
      /\ IsInstruction(pop, t) /\ DepthAfter(pop, 1, t) = 0
  <2>1. t >= 1
    BY <1>3
  <2> QED
    BY <1>3, <2>1, Instructions
<1>6. cells = <<kResolvedStore, b>> /\ cells[1] = kResolvedStore /\ pop[1] = kPop
  BY <1>4
<1>7. cells \in Seq(Nat) /\ pop \in Seq(Nat)
  <2>1. b \in Nat
    BY ByteSizeAssumption DEF Byte
  <2>2. <<kResolvedStore, b>> \in Seq(Nat) /\ <<kPop>> \in Seq(Nat)
    BY <2>1, OpsAreNat
  <2> QED
    BY <1>6, <2>2
<1>8. EmitsTo(coder, cells, mid) /\ mid.breaks = coder.breaks /\ IsEncoder(mid)
  <2>1. IsEncoder(coder) /\ kResolvedStore \in LiteralOps /\ kResolvedStore # kPushLiteral
    BY <1>2, OpKinds DEF IsTyped
  <2>2. StringOop(Head(todo).name).t = "String"
    BY DEF StringOop
  <2> QED
    BY <2>1, <2>2, EmittedLiteralTo
<1> HIDE DEF cells, mid, pop
<1>9. IsTyped(mid)
  BY <1>2, <1>7, <1>8, EmitsTyped
<1>10. Ends(mid, pasts, t)
  <2>1. OpensTo(coder, pasts, cells, mid, pasts)
    BY <1>6, <1>8, OpKinds, PlainOpens
  <2>2. Ends(coder, pasts, t) /\ IsInstruction(cells, t)
    BY <1>2, <1>3, <1>5, <1>6
  <2> HIDE DEF pasts
  <2>3. Ends(mid, pasts, DepthAfter(cells, 1, t))
    BY <1>2, <1>8, <2>1, <2>2, EndsAfter
  <2> QED
    BY <1>5, <1>6, <2>3
<1>11. EmitsTo(mid, pop, new) /\ new.breaks = mid.breaks
  BY <1>6, <1>8, OpKinds, EmittedTo
<1> HIDE DEF new
<1>12. Ends(new, pasts, 0)
  <2>1. OpensTo(mid, pasts, pop, new, pasts)
    BY <1>6, <1>11, OpKinds, PlainOpens
  <2>2. Ends(mid, pasts, t) /\ IsInstruction(pop, t)
    BY <1>5, <1>10
  <2> HIDE DEF pasts
  <2>3. Ends(new, pasts, DepthAfter(pop, 1, t))
    BY <1>9, <1>11, <2>1, <2>2, EndsAfter
  <2> QED
    BY <1>5, <2>3
<1>13. /\ IsSeq(gens') /\ Len(gens') = top /\ gens'[top] = new
       /\ \A g \in 1 .. top : g # top => gens'[g] = gens[g]
  BY <1>1, CoderSet
<1>14. ~HasDepth(Head(todo))
  BY <1>1, PlainHead DEF PlainKinds
<1>15. ~OfFunction(Head(todo)) /\ ~HasPast(Head(todo))
  BY <1>14 DEF HasDepth, OfFunction, HasPast, OfIf
<1>16. Pasts(none, top) = {} /\ IsSeq(none) /\ DOMAIN none = {}
  BY DEF Pasts, IsSeq
<1>17. PICK v \in Nat : v = 0
  OBVIOUS
<1>18. \A e : Flow(none, v, v, e)
  BY NoItemFlows
<1> HIDE DEF none
<1>19. Pasts(todo', top) = pasts
  <2>1. /\ \A p \in Pasts(todo', top) : p \in Pasts(none, top) \/ p \in Pasts(todo, top)
        /\ \A p \in Pasts(todo, top) :
             p \in Pasts(todo', top) \/ (HasPast(Head(todo)) /\ Head(todo).depth = top /\ p = Head(todo).past)
    BY <1>1, <1>2, <1>16, PastsAfter
  <2> QED
    BY <1>15, <1>16, <2>1
<1>20. Ends(gens'[top], Pasts(todo', top), v)
  BY <1>12, <1>13, <1>17, <1>19
<1>21. \A e : Flow(none, v, ends[top] + Effect(Head(todo)), e)
  <2>1. ends[top] + Effect(Head(todo)) = v
    BY <1>1, <1>3, <1>17 DEF Effect
  <2> QED
    BY <1>18, <2>1
<1>22. \A i \in DOMAIN none : ~OfFunction(none[i]) /\ (HasPast(none[i]) => none[i].depth = top)
  BY <1>16
<1> QED
  BY <1>1, <1>2, <1>13, <1>15, <1>16, <1>20, <1>21, <1>22, StepIsShaped

\* An if's item and, after it, what is left of it with a jump that is still open.
LEMMA CaseItems ==
  ASSUME NEW kind \in {"ElseCode", "EndIf"}, NEW m, NEW p, NEW d
  PROVE  LET items == <<Item("Stmt"), [k |-> kind, stmt |-> m, past |-> p, depth |-> d]>>
         IN  /\ IsSeq(items)
             /\ \A i \in DOMAIN items : ~OfFunction(items[i]) /\ (HasPast(items[i]) => items[i].depth = d)
             /\ Pasts(items, d) = {p}
<1> DEFINE rest  == [k |-> kind, stmt |-> m, past |-> p, depth |-> d]
           items == <<Item("Stmt"), rest>>
<1>1. /\ ~OfFunction(Item("Stmt")) /\ ~HasPast(Item("Stmt")) /\ ~OfFunction(rest) /\ HasPast(rest)
      /\ rest.depth = d /\ rest.past = p
  BY DEF OfFunction, HasPast, Item
<1>2. IsSeq(items) /\ DOMAIN items = {1, 2} /\ items[1] = Item("Stmt") /\ items[2] = rest
  BY DEF IsSeq
<1> HIDE DEF items, rest
<1>3. \A q : q \in Pasts(items, d) <=> q = p
  BY <1>1, <1>2 DEF Pasts
<1>4. Pasts(items, d) = {p}
  BY <1>3
<1> QED
  BY <1>1, <1>2, <1>4 DEF items, rest

LEMMA IfCodeIsShaped ==
  ASSUME IInv, BInv, TInv, NEW ends, Shaped(todo, gens, ends), VisitIfCode
  PROVE  \E e : Shaped(todo', gens', e)
<1> DEFINE top   == Len(gens)
           cells == <<kJumpIfFalse, 0, 0>>
           new   == Emitted(coder, cells)
<1>1. todo # <<>> /\ status = "compiling" /\ Head(todo).k = "IfCode" /\ SetCoder(new)
  BY DEF VisitIfCode, Doing
<1>2. /\ IsTyped(coder) /\ top \in Nat /\ top > 0 /\ IsSeq(todo)
      /\ Ends(coder, Pasts(todo, top), ends[top]) /\ Needs(Head(todo), ends[top])
  BY <1>1, TopFacts
<1>3. PICK t \in Nat : t = 1 /\ ends[top] = t
  BY <1>1, <1>2 DEF Needs
<1>4. /\ HasDepth(Head(todo)) /\ ~OfFunction(Head(todo)) /\ ~HasPast(Head(todo)) /\ Head(todo).depth = top
  <2>1. HasDepth(Head(todo)) /\ ~OfFunction(Head(todo)) /\ ~HasPast(Head(todo))
    BY <1>1 DEF HasDepth, OfIf, OfFunction, HasPast
  <2> QED
    BY <1>1, <2>1, HeadDepth DEF BInv, IInv
<1>0. PICK kind \in {"ElseCode", "EndIf"} : \E m :
        Replace(<<Item("Stmt"), [k |-> kind, stmt |-> m, past |-> pos + 3, depth |-> top]>>)
  <2>1. (IF Head(todo).else THEN "ElseCode" ELSE "EndIf") \in {"ElseCode", "EndIf"}
    OBVIOUS
  <2> QED
    BY <1>4, <2>1 DEF VisitIfCode
<1>5. PICK m : Replace(<<Item("Stmt"), [k |-> kind, stmt |-> m, past |-> pos + 3, depth |-> top]>>)
  BY <1>0
<1> DEFINE items == <<Item("Stmt"), [k |-> kind, stmt |-> m, past |-> pos + 3, depth |-> top]>>
<1>6. /\ IsSeq(items) /\ Pasts(items, top) = {pos + 3}
      /\ \A i \in DOMAIN items : ~OfFunction(items[i]) /\ (HasPast(items[i]) => items[i].depth = top)
  <2>1. PICK p, d : p = pos + 3 /\ d = top
    OBVIOUS
  <2> DEFINE rest == <<Item("Stmt"), [k |-> kind, stmt |-> m, past |-> p, depth |-> d]>>
  <2>2. /\ IsSeq(rest) /\ Pasts(rest, d) = {p}
        /\ \A i \in DOMAIN rest : ~OfFunction(rest[i]) /\ (HasPast(rest[i]) => rest[i].depth = d)
    BY <1>5, CaseItems
  <2>3. rest = items
    BY <2>1
  <2> HIDE DEF rest, items
  <2> QED
    BY <2>1, <2>2, <2>3
<1>7. PICK v \in Nat : v = 0
  OBVIOUS
<1>8. \A e : Flow(items, v, v, e)
  BY <1>5, <1>7, StmtFlows
<1>9. Replace(items)
  BY <1>5
<1> HIDE DEF items
<1>10. \A p : p \in Pasts(todo', top) <=> p \in Pasts(todo, top) \/ p = pos + 3
  <2>1. /\ \A p \in Pasts(todo', top) : p \in Pasts(items, top) \/ p \in Pasts(todo, top)
        /\ \A p \in Pasts(todo, top) :
             p \in Pasts(todo', top) \/ (HasPast(Head(todo)) /\ Head(todo).depth = top /\ p = Head(todo).past)
        /\ Pasts(items, top) \subseteq Pasts(todo', top)
    BY <1>1, <1>2, <1>6, <1>9, PastsAfter
  <2> QED
    BY <1>4, <1>6, <2>1
<1>11. /\ IsInstruction(cells, t) /\ DepthAfter(cells, 1, t) = 0 /\ IsSeq(cells) /\ Len(cells) = 3
       /\ cells[1] \in JumpOps /\ cells[1] \notin LiteralOps
  <2>1. IsInstruction(cells, t) /\ DepthAfter(cells, 1, t) = 0
    BY <1>3, Instructions
  <2>2. cells[1] = kJumpIfFalse /\ IsSeq(cells) /\ Len(cells) = 3
    BY DEF IsSeq
  <2> QED
    BY <2>1, <2>2, OpKinds
<1> HIDE DEF cells
<1>12. EmitsTo(coder, cells, new) /\ new.breaks = coder.breaks
  BY <1>2, <1>11, EmittedTo DEF IsTyped
<1> HIDE DEF new
<1>13. Len(new.code) = pos + 3
  <2>1. new.code = coder.code \o cells /\ IsSeq(coder.code) /\ IsSeq(cells) /\ Len(cells) = 3
    BY <1>1, <1>11, <1>12, CoderPlaced DEF EmitsTo, IsPlaced
  <2>2. Len(coder.code \o cells) = Len(coder.code) + Len(cells)
    BY ONLY <2>1, ConcatFacts
  <2> QED
    BY <2>1, <2>2 DEF pos
<1>14. OpensTo(coder, Pasts(todo, top), cells, new, Pasts(todo', top))
  <2>1. JumpPlace(cells, new.code) = {pos + 3} /\ BreakPlaces(new) = BreakPlaces(coder)
    BY <1>11, <1>12, <1>13 DEF JumpPlace, BreakPlaces
  <2>2. PICK a, b : a = Pasts(todo, top) /\ b = Pasts(todo', top)
    OBVIOUS
  <2>3. b \union BreakPlaces(new) = (a \union BreakPlaces(coder)) \union JumpPlace(cells, new.code)
    BY <1>10, <2>1, <2>2
  <2> QED
    BY <2>2, <2>3 DEF OpensTo
<1>15. Ends(new, Pasts(todo', top), v)
  <2>1. PICK a, b : a = Pasts(todo, top) /\ b = Pasts(todo', top)
    OBVIOUS
  <2>2. Ends(coder, a, t) /\ OpensTo(coder, a, cells, new, b)
    BY <1>2, <1>3, <1>14, <2>1
  <2>3. Ends(new, b, DepthAfter(cells, 1, t))
    BY <1>2, <1>11, <1>12, <2>2, EndsAfter
  <2> QED
    BY <1>7, <1>11, <2>1, <2>3
<1>16. /\ IsSeq(gens') /\ Len(gens') = top /\ gens'[top] = new
       /\ \A g \in 1 .. top : g # top => gens'[g] = gens[g]
  BY <1>1, CoderSet
<1>17. ends[top] + Effect(Head(todo)) = v
  BY <1>1, <1>3, <1>7 DEF Effect
<1>18. Ends(gens'[top], Pasts(todo', top), v) /\ \A e : Flow(items, v, ends[top] + Effect(Head(todo)), e)
  BY <1>8, <1>15, <1>16, <1>17
<1> QED
  BY <1>1, <1>2, <1>4, <1>6, <1>9, <1>16, <1>18, StepIsShaped

LEMMA ElseCodeIsShaped ==
  ASSUME IInv, BInv, TInv, NEW ends, Shaped(todo, gens, ends), VisitElseCode
  PROVE  \E e : Shaped(todo', gens', e)
<1> DEFINE top  == Len(gens)
           code == coder.code \o <<kJump, 0, 0>>
           new  == [coder EXCEPT !.code = ReplaceJumpTarget(code, Head(todo).past, Len(code))]
<1>1. todo # <<>> /\ status = "compiling" /\ Head(todo).k = "ElseCode" /\ SetCoder(new)
  BY DEF VisitElseCode, Doing
<1>2. /\ IsTyped(coder) /\ top \in Nat /\ top > 0 /\ IsSeq(todo)
      /\ Ends(coder, Pasts(todo, top), ends[top]) /\ Needs(Head(todo), ends[top])
  BY <1>1, TopFacts
<1>3. PICK v \in Nat : v = 0 /\ ends[top] = v
  BY <1>1, <1>2 DEF Needs
<1>4. /\ HasDepth(Head(todo)) /\ ~OfFunction(Head(todo)) /\ HasPast(Head(todo)) /\ Head(todo).depth = top
  <2>1. HasDepth(Head(todo)) /\ ~OfFunction(Head(todo)) /\ HasPast(Head(todo))
    BY <1>1 DEF HasDepth, OfIf, OfFunction, HasPast
  <2> QED
    BY <1>1, <2>1, HeadDepth DEF BInv, IInv
<1>5. PICK m : Replace(<<Item("Stmt"), [k |-> "EndIf", stmt |-> m, past |-> pos + 3, depth |-> top]>>)
  BY <1>4 DEF VisitElseCode
<1> DEFINE items == <<Item("Stmt"), [k |-> "EndIf", stmt |-> m, past |-> pos + 3, depth |-> top]>>
<1>6. /\ IsSeq(items) /\ Pasts(items, top) = {pos + 3}
      /\ \A i \in DOMAIN items : ~OfFunction(items[i]) /\ (HasPast(items[i]) => items[i].depth = top)
  <2>1. PICK p, d : p = pos + 3 /\ d = top
    OBVIOUS
  <2>0. PICK kind \in {"ElseCode", "EndIf"} : kind = "EndIf"
    OBVIOUS
  <2> DEFINE rest == <<Item("Stmt"), [k |-> kind, stmt |-> m, past |-> p, depth |-> d]>>
  <2>2. /\ IsSeq(rest) /\ Pasts(rest, d) = {p}
        /\ \A i \in DOMAIN rest : ~OfFunction(rest[i]) /\ (HasPast(rest[i]) => rest[i].depth = d)
    BY CaseItems
  <2>3. rest = items
    BY <2>0, <2>1
  <2> HIDE DEF rest, items
  <2> QED
    BY <2>1, <2>2, <2>3
<1>7. \A e : Flow(items, v, v, e)
  BY <1>3, StmtFlows
<1>8. Replace(items)
  BY <1>5
<1> HIDE DEF items
<1>9. /\ \A p \in Pasts(todo', top) : p \in Pasts(todo, top) \/ p = pos + 3
      /\ \A p \in Pasts(todo, top) : p \in Pasts(todo', top) \/ p = Head(todo).past
      /\ pos + 3 \in Pasts(todo', top) /\ Head(todo).past \in Pasts(todo, top)
  <2>1. /\ \A p \in Pasts(todo', top) : p \in Pasts(items, top) \/ p \in Pasts(todo, top)
        /\ \A p \in Pasts(todo, top) :
             p \in Pasts(todo', top) \/ (HasPast(Head(todo)) /\ Head(todo).depth = top /\ p = Head(todo).past)
        /\ Pasts(items, top) \subseteq Pasts(todo', top)
        /\ HasPast(Head(todo)) /\ Head(todo).depth = top => Head(todo).past \in Pasts(todo, top)
    BY <1>1, <1>2, <1>6, <1>8, PastsAfter
  <2> QED
    BY <1>4, <1>6, <2>1
<1>10. Ends(new, Pasts(todo', top), v)
  <2>1. PICK a, b, past : a = Pasts(todo, top) /\ b = Pasts(todo', top) /\ past = Head(todo).past
    OBVIOUS
  <2>2. PICK depth, lit : Coded(coder, depth, lit, a) /\ End(coder, depth) = 0
    BY <1>2, <1>3, <2>1 DEF Ends
  <2>3. /\ \A p \in b : p \in a \/ p = Len(coder.code) + 3
        /\ \A p \in a : p \in b \/ p = past
        /\ Len(coder.code) + 3 \in b /\ past \in a
    BY <1>9, <2>1 DEF pos
  <2>4. LET c == coder.code \o <<kJump, 0, 0>>
            n == [coder EXCEPT !.code = ReplaceJumpTarget(c, past, Len(c))]
        IN  \E e, l : Coded(n, e, l, b) /\ End(n, e) = 0
    BY <1>2, <2>2, <2>3, ElseCoded
  <2>5. \E e, l : Coded(new, e, l, b) /\ End(new, e) = 0
    BY <2>1, <2>4
  <2> HIDE DEF new
  <2> QED
    BY <1>3, <2>1, <2>5 DEF Ends
<1> HIDE DEF new
<1>11. /\ IsSeq(gens') /\ Len(gens') = top /\ gens'[top] = new
       /\ \A g \in 1 .. top : g # top => gens'[g] = gens[g]
  BY <1>1, CoderSet
<1>12. ends[top] + Effect(Head(todo)) = v
  BY <1>1, <1>3 DEF Effect
<1>13. Ends(gens'[top], Pasts(todo', top), v) /\ \A e : Flow(items, v, ends[top] + Effect(Head(todo)), e)
  BY <1>7, <1>10, <1>11, <1>12
<1> QED
  BY <1>1, <1>2, <1>4, <1>6, <1>8, <1>11, <1>13, StepIsShaped

LEMMA EndIfIsShaped ==
  ASSUME IInv, BInv, TInv, ~crossed, NEW ends, Shaped(todo, gens, ends), EndIf, ~Stops
  PROVE  \E e : Shaped(todo', gens', e)
<1> DEFINE top  == Len(gens)
           none == <<>>
<1>1. todo # <<>> /\ status = "compiling" /\ Head(todo).k = "EndIf" /\ SetCoder(EndedEncoder) /\ Replace(none)
  BY EndIfEnds
<1>2. /\ IsTyped(coder) /\ coder = gens[top] /\ top \in Nat /\ top > 0 /\ IsSeq(todo)
      /\ Ends(coder, Pasts(todo, top), ends[top]) /\ Needs(Head(todo), ends[top])
  BY <1>1, TopFacts
<1>3. PICK v \in Nat : v = 0 /\ ends[top] = v
  BY <1>1, <1>2 DEF Needs
<1>4. /\ HasDepth(Head(todo)) /\ ~OfFunction(Head(todo)) /\ HasPast(Head(todo)) /\ Head(todo).depth = top
      /\ OfIf(Head(todo))
  <2>1. HasDepth(Head(todo)) /\ ~OfFunction(Head(todo)) /\ HasPast(Head(todo)) /\ OfIf(Head(todo))
    BY <1>1 DEF HasDepth, OfIf, OfFunction, HasPast
  <2> QED
    BY <1>1, <2>1, HeadDepth DEF BInv, IInv
<1>5. IsSeq(none) /\ Pasts(none, top) = {} /\ DOMAIN none = {}
  BY DEF IsSeq, Pasts
<1>6. \A e : Flow(none, v, v, e)
  BY NoItemFlows
<1> HIDE DEF none
<1>7. /\ Pasts(todo', top) \subseteq Pasts(todo, top)
      /\ \A p \in Pasts(todo, top) : p \in Pasts(todo', top) \/ p = Head(todo).past
      /\ Head(todo).past \in Pasts(todo, top)
  <2>1. /\ \A p \in Pasts(todo', top) : p \in Pasts(none, top) \/ p \in Pasts(todo, top)
        /\ \A p \in Pasts(todo, top) :
             p \in Pasts(todo', top) \/ (HasPast(Head(todo)) /\ Head(todo).depth = top /\ p = Head(todo).past)
        /\ HasPast(Head(todo)) /\ Head(todo).depth = top => Head(todo).past \in Pasts(todo, top)
    BY <1>1, <1>2, <1>5, PastsAfter
  <2> QED
    BY <1>4, <1>5, <2>1
<1>8. Ends(EndedEncoder, Pasts(todo', top), v)
  <2>1. PICK a, b, past, stmt, breaks :
          /\ a = Pasts(todo, top) /\ b = Pasts(todo', top) /\ past = Head(todo).past /\ stmt = Head(todo).stmt
          /\ breaks = EndBreaks
    OBVIOUS
  <2>2. PICK depth, lit : Coded(coder, depth, lit, a) /\ End(coder, depth) = 0
    BY <1>2, <1>3, <2>1 DEF Ends
  <2>3. past \in a /\ b \subseteq a /\ \A p \in a : p \in b \/ p = past
    BY <1>7, <2>1
  <2>4. \A c \in coder.breaks : Apart(c.at, past)
    BY <1>1, <1>4, <2>1, HeadPast
  <2>5. IsSeq(breaks) /\ \A k \in DOMAIN breaks : breaks[k] \in BreakPlaces(coder)
    <3>1. IsSeq(breaks)
      BY <2>1, EndBreaksTyped
    <3>2. ASSUME NEW k \in DOMAIN breaks PROVE breaks[k] \in BreakPlaces(coder)
      <4>1. labelDescs # <<>> /\ Last(labelDescs).stmt = Head(todo).stmt /\ breaks = Last(labelDescs).breaks
        BY <2>1 DEF EndBreaks
      <4>2. \E c \in gens[Len(gens)].breaks : c.at = Last(labelDescs).breaks[k] /\ c.stmt = Head(todo).stmt
        BY <1>1, <1>4, <4>1, PatchedAreOwn
      <4> QED
        BY <1>2, <4>1, <4>2 DEF BreakPlaces
    <3> QED
      BY <3>1, <3>2
  <2>6. LET code == BreaksPatched(ReplaceJumpTarget(coder.code, past, Len(coder.code)), breaks)
            new  == [coder EXCEPT !.code = code, !.ends = coder.ends \union {[stmt |-> stmt, at |-> Len(coder.code)]}]
        IN  Coded(new, depth, lit, b) /\ End(new, depth) = 0
    <3>1. PICK gen : gen = coder
      OBVIOUS
    <3>2. /\ IsTyped(gen) /\ Coded(gen, depth, lit, a) /\ End(gen, depth) = 0
          /\ \A c \in gen.breaks : Apart(c.at, past)
          /\ \A k \in DOMAIN breaks : breaks[k] \in BreakPlaces(gen)
      BY <1>2, <2>2, <2>4, <2>5, <3>1
    <3>3. LET code == BreaksPatched(ReplaceJumpTarget(gen.code, past, Len(gen.code)), breaks)
              new  == [gen EXCEPT !.code = code, !.ends = gen.ends \union {[stmt |-> stmt, at |-> Len(gen.code)]}]
          IN  Coded(new, depth, lit, b) /\ End(new, depth) = 0
      BY ONLY <2>3, <2>5, <3>2, EndCoded
    <3> QED
      BY <3>1, <3>3
  <2>7. Coded(EndedEncoder, depth, lit, b) /\ End(EndedEncoder, depth) = 0
    BY <2>1, <2>6 DEF EndedEncoder, EndedCode, pos
  <2> QED
    BY <1>3, <2>1, <2>7 DEF Ends
<1>9. /\ IsSeq(gens') /\ Len(gens') = top /\ gens'[top] = EndedEncoder
       /\ \A g \in 1 .. top : g # top => gens'[g] = gens[g]
  BY <1>1, CoderSet
<1>10. ends[top] + Effect(Head(todo)) = v
  BY <1>1, <1>3 DEF Effect
<1>11. Ends(gens'[top], Pasts(todo', top), v) /\ \A e : Flow(none, v, ends[top] + Effect(Head(todo)), e)
  BY <1>6, <1>8, <1>9, <1>10
<1>12. \A i \in DOMAIN none : ~OfFunction(none[i]) /\ (HasPast(none[i]) => none[i].depth = top)
  BY <1>5
<1> QED
  BY <1>1, <1>2, <1>4, <1>5, <1>9, <1>11, <1>12, StepIsShaped

-----------------------------------------------------------------------------
(***************************************************************************)
(* Functions.                                                              *)
(***************************************************************************)
\* A function's body begins and ends with no operand on the stack.
LEMMA BodyFlows ==
  ASSUME NEW a, NEW b, <<a, b>> \in FunctionBodies, NEW ends
  PROVE  /\ ~OfFunction(a) /\ ~OfFunction(b) /\ ~HasPast(a) /\ ~HasPast(b) /\ Needs(a, 0)
         /\ \E m \in Nat : m = AfterItem(a, 0, ends) /\ Needs(b, m) /\ AfterItem(b, m, ends) = 0
<1>1. CASE a = Item("Expr") /\ b = Item("Return")
  <2>1. PICK s \in Nat, m \in Nat : s = 0 /\ m = 1
    OBVIOUS
  <2>2. Needs(a, s) /\ AfterItem(a, s, ends) = s + 1
    BY <1>1, ItemFlows
  <2>3. Needs(b, m) /\ AfterItem(b, m, ends) = 0
    BY <1>1, <2>1, ItemFlows
  <2>4. Needs(a, 0) /\ m = AfterItem(a, 0, ends)
    BY <2>1, <2>2
  <2> QED
    BY <1>1, <2>3, <2>4 DEF Item, OfFunction, HasPast
<1>2. CASE a = Item("StmtListItem") /\ b = Item("More")
  <2>1. PICK s \in Nat : s = 0
    OBVIOUS
  <2>2. Needs(a, s) /\ AfterItem(a, s, ends) = 0 /\ Needs(b, s) /\ AfterItem(b, s, ends) = 0
    BY <1>2, <2>1, ItemFlows
  <2> QED
    BY <1>2, <2>1, <2>2 DEF Item, OfFunction, HasPast
<1>3. (a = Item("Expr") /\ b = Item("Return")) \/ (a = Item("StmtListItem") /\ b = Item("More"))
  BY DEF FunctionBodies
<1> QED
  BY <1>1, <1>2, <1>3

\* The body and the end of a function, after which it has been pushed in the one around it.
LEMMA FunctionFlows ==
  ASSUME NEW items, NEW a, NEW b, <<a, b>> \in FunctionBodies,
         Len(items) = 3, DOMAIN items = 1 .. 3, NEW top \in Nat \ {0},
         items[1] = a, items[2] = b, items[3] = Exit(top + 1),
         NEW ends, NEW s \in Nat, s = 0, NEW t \in Nat, t = ends[top] + 1
  PROVE  Flow(items, s, t, ends)
<1>1. PICK m \in Nat : m = AfterItem(a, 0, ends) /\ Needs(b, m) /\ AfterItem(b, m, ends) = 0
  BY BodyFlows
<1>2. Needs(a, s)
  BY BodyFlows
<1>3. Needs(Exit(top + 1), s) /\ AfterItem(Exit(top + 1), s, ends) = t
  <2>1. top + 1 > 1 /\ (top + 1) - 1 = top
    OBVIOUS
  <2> QED
    BY <2>1 DEF Exit, Needs, AfterItem, OfFunction
<1> DEFINE at == [i \in 1 .. 4 |-> IF i = 2 THEN m ELSE IF i = 4 THEN t ELSE s]
<1>4. at[1] = s /\ at[2] = m /\ at[3] = s /\ at[4] = t /\ at \in [1 .. 4 -> Nat]
  OBVIOUS
<1> HIDE DEF at
<1>5. /\ Needs(items[1], at[1]) /\ at[2] = AfterItem(items[1], at[1], ends)
      /\ Needs(items[2], at[2]) /\ at[3] = AfterItem(items[2], at[2], ends)
      /\ Needs(items[3], at[3]) /\ at[4] = AfterItem(items[3], at[3], ends)
  BY <1>1, <1>2, <1>3, <1>4
<1>6. \A i \in 1 .. 3 : (i = 1 /\ i + 1 = 2) \/ (i = 2 /\ i + 1 = 3) \/ (i = 3 /\ i + 1 = 4)
  OBVIOUS
<1>7. \A i \in 1 .. 3 : Needs(items[i], at[i]) /\ at[i + 1] = AfterItem(items[i], at[i], ends)
  BY <1>5, <1>6
<1>8. Len(items) + 1 = 4
  OBVIOUS
<1> QED
  BY <1>4, <1>7, <1>8 DEF Flow, Flows

LEMMA FunExprIsShaped ==
  ASSUME IInv, BInv, TInv, NEW ends, Shaped(todo, gens, ends), VisitFunExpr
  PROVE  \E e : Shaped(todo', gens', e)
<1> DEFINE top  == Len(gens)
           new  == [g \in 1 .. top + 1 |-> IF g = top + 1 THEN 0 ELSE ends[g]]
<1>1. todo # <<>> /\ status = "compiling" /\ Head(todo).k = "Expr"
  BY DEF VisitFunExpr, AtExpr, Doing
<1>2. PICK formals : gens' = Append(gens, NewEncoder(formals))
  BY DEF VisitFunExpr
<1> DEFINE gen == NewEncoder(formals)
<1>3. gen.code = <<>> /\ gen.literals = <<>> /\ gen.breaks = {} /\ gen.ends = {}
  BY DEF NewEncoder
<1>4. gens' = Append(gens, gen)
  BY <1>2
<1> HIDE DEF gen
<1>5. /\ top \in Nat \ {0} /\ IsSeq(todo) /\ Needs(Head(todo), ends[top]) /\ ends[top] \in Nat
      /\ AfterItem(Head(todo), ends[top], ends) = ends[top] + 1
  <2>1. top \in Nat /\ top > 0 /\ IsSeq(todo) /\ Needs(Head(todo), ends[top]) /\ ends[top] \in Nat
    BY <1>1, TopFacts
  <2>2. AfterItem(Head(todo), ends[top], ends) = ends[top] + 1
    BY <1>1 DEF AfterItem, Effect, OfFunction
  <2> HIDE DEF top
  <2> QED
    BY <2>1, <2>2
<1>6. /\ Len(gens') = top + 1 /\ gens'[top + 1] = gen
      /\ \A g \in 1 .. top : gens'[g] = gens[g]
  <2>1. IsSeq(gens) /\ DOMAIN gens = 1 .. Len(gens)
    BY SeqFacts DEF BInv, Nested
  <2> QED
    BY <1>4, <2>1, AppendFacts, AppendLen
<1>7. PICK items, a, b :
           /\ <<a, b>> \in FunctionBodies
           /\ IsSeq(items) /\ Len(items) = 3 /\ DOMAIN items = 1 .. 3 /\ Replace(items)
           /\ items[1] = a /\ items[2] = b /\ items[3] = Exit(top + 1)
  BY FunctionItems
<1>8. PICK t : Flow(todo, ends[top], t, ends)
  BY DEF Shaped
<1> HIDE DEF top
<1>9. /\ \A g \in 1 .. top : g \in 1 .. top + 1 /\ g # top + 1 /\ new[g] = ends[g]
      /\ top \in 1 .. top /\ new[top + 1] = 0 /\ \A g \in 1 .. top + 1 : g \in 1 .. top \/ g = top + 1
  <2>1. /\ \A g \in 1 .. top : g \in 1 .. top + 1 /\ g # top + 1
        /\ top \in 1 .. top /\ top + 1 \in 1 .. top + 1
    BY <1>5
  <2>2. \A g \in 1 .. top + 1 : g \in 1 .. top \/ g = top + 1
    BY <1>5
  <2> QED
    BY <2>1, <2>2
<1> HIDE DEF new
<1>10. PICK s \in Nat : s = 0
  OBVIOUS
<1>11. Flow(todo', s, t, new)
  <2>1. Flow(items, s, AfterItem(Head(todo), ends[top], ends), new)
    <3>1. PICK r \in Nat : r = new[top] + 1 /\ r = AfterItem(Head(todo), ends[top], ends)
      BY <1>5, <1>9
    <3>2. Flow(items, s, r, new)
      BY <1>5, <1>7, <1>10, <3>1, FunctionFlows
    <3> QED
      BY <3>1, <3>2
  <2>2. \A i \in DOMAIN todo : i # 1 /\ OfFunction(todo[i]) /\ todo[i].depth > 1 =>
          new[todo[i].depth - 1] = ends[todo[i].depth - 1]
    <3>1. \A i \in DOMAIN todo : OfFunction(todo[i]) => todo[i].depth \in 1 .. top
      BY DEF BInv, Nested, DepthsExist, HasDepth, top
    <3>2. \A x \in 1 .. top : x > 1 => x - 1 \in 1 .. top
      BY <1>5
    <3> QED
      BY <1>9, <3>1, <3>2
  <2> QED
    BY <1>1, <1>5, <1>7, <1>8, <2>1, <2>2, FlowReplaced
<1>12. \A g : Pasts(items, g) = {} /\ ~HasPast(Head(todo))
  <2>1. ~HasPast(a) /\ ~HasPast(b) /\ ~HasPast(Exit(top + 1)) /\ ~HasPast(Head(todo))
    BY <1>1, <1>7, BodyFlows DEF HasPast, Exit
  <2>2. \A i \in 1 .. 3 : i = 1 \/ i = 2 \/ i = 3
    OBVIOUS
  <2> QED
    BY <1>7, <2>1, <2>2 DEF Pasts
<1>13. \A g : Pasts(todo', g) = Pasts(todo, g)
  <2> TAKE g
  <2>1. /\ \A p \in Pasts(todo', g) : p \in Pasts(items, g) \/ p \in Pasts(todo, g)
        /\ \A p \in Pasts(todo, g) :
             p \in Pasts(todo', g) \/ (HasPast(Head(todo)) /\ Head(todo).depth = g /\ p = Head(todo).past)
    BY <1>1, <1>5, <1>7, PastsAfter
  <2> QED
    BY <1>12, <2>1
<1>14. ASSUME NEW g \in 1 .. top PROVE new[g] \in Nat /\ Ends(gens'[g], Pasts(todo', g), new[g])
  BY <1>6, <1>9, <1>13 DEF Shaped, top
<1>15. Pasts(todo, top + 1) = {}
  <2>1. \A j \in DOMAIN todo : HasPast(todo[j]) => todo[j].depth \in 1 .. top
    BY DEF BInv, Nested, DepthsExist, HasDepth, HasPast, OfIf, top
  <2> QED
    BY <1>9, <2>1 DEF Pasts
<1>16. new[top + 1] \in Nat /\ Ends(gens'[top + 1], Pasts(todo', top + 1), new[top + 1])
  <2>1. \E depth : Coded(gen, depth, <<>>, {}) /\ End(gen, depth) = 0
    BY <1>3, NewCoded
  <2>2. PICK none : none = {}
    OBVIOUS
  <2>3. Ends(gen, none, s)
    BY <1>10, <2>1, <2>2 DEF Ends
  <2>4. Pasts(todo', top + 1) = none /\ new[top + 1] = s /\ gens'[top + 1] = gen
    BY <1>6, <1>9, <1>10, <1>13, <1>15, <2>2
  <2> QED
    BY <2>3, <2>4
<1>17. \A g \in 1 .. Len(gens') : new[g] \in Nat /\ Ends(gens'[g], Pasts(todo', g), new[g])
  BY <1>6, <1>9, <1>14, <1>16
<1>18. Flow(todo', new[Len(gens')], t, new)
  BY <1>6, <1>9, <1>10, <1>11
<1> QED
  BY <1>17, <1>18 DEF Shaped

\* The function is a literal of the one around it, which pushes it and makes a closure of it.
LEMMA EnclosingEnds ==
  ASSUME IInv, BInv, TInv, Len(gens) > 1, NEW pasts, NEW t \in Nat, Ends(gens[Len(gens) - 1], pasts, t)
  PROVE  Ends(Enclosing, pasts, t + 1)
<1> DEFINE outer == gens[Len(gens) - 1]
           cells == <<kPushLiteral, Len(outer.literals) % ByteSize>>
           mid   == EmittedLiteral(outer, kPushLiteral, FunctionOop(Len(funs) + 1))
           close == <<kCreateClosure>>
           new   == Emitted(mid, close)
<1>1. IsTyped(outer)
  <2>1. Len(gens) - 1 \in 1 .. Len(gens)
    BY SeqFacts DEF BInv, Nested
  <2> QED
    BY <2>1, TypedEncoder DEF TInv
<1>2. PICK b \in Byte : b = Len(outer.literals) % ByteSize
  BY <1>1, LiteralNumber
<1>3. PICK u \in Nat : u = t + 1 /\ u >= 1
  OBVIOUS
<1>4. /\ IsInstruction(<<kPushLiteral, b>>, t) /\ DepthAfter(<<kPushLiteral, b>>, 1, t) = u
      /\ IsInstruction(close, u) /\ DepthAfter(close, 1, u) = u
  BY <1>3, Instructions
<1>5. cells = <<kPushLiteral, b>> /\ cells[1] = kPushLiteral /\ close[1] = kCreateClosure
  BY <1>2
<1>6. cells \in Seq(Nat) /\ close \in Seq(Nat)
  <2>1. b \in Nat
    BY ByteSizeAssumption DEF Byte
  <2>2. <<kPushLiteral, b>> \in Seq(Nat) /\ <<kCreateClosure>> \in Seq(Nat)
    BY <2>1, OpsAreNat
  <2> QED
    BY <1>5, <2>2
<1>7. EmitsTo(outer, cells, mid) /\ mid.breaks = outer.breaks /\ IsEncoder(mid)
  <2>1. IsEncoder(outer) /\ kPushLiteral \in LiteralOps
    BY <1>1, OpKinds DEF IsTyped
  <2>2. FunctionOop(Len(funs) + 1).t = "String" <=> kPushLiteral # kPushLiteral
    BY DEF FunctionOop
  <2> HIDE DEF outer
  <2> QED
    BY <2>1, <2>2, EmittedLiteralTo
<1>8. Enclosing = new
  BY DEF Enclosing
<1>9. Ends(outer, pasts, t)
  OBVIOUS
<1> HIDE DEF cells, mid, close, outer
<1>10. IsTyped(mid)
  BY <1>1, <1>6, <1>7, EmitsTyped
<1>11. Ends(mid, pasts, u)
  <2>1. OpensTo(outer, pasts, cells, mid, pasts)
    BY <1>5, <1>7, OpKinds, PlainOpens
  <2>2. IsInstruction(cells, t)
    BY <1>4, <1>5
  <2>3. Ends(mid, pasts, DepthAfter(cells, 1, t))
    BY <1>1, <1>7, <1>9, <2>1, <2>2, EndsAfter
  <2> QED
    BY <1>4, <1>5, <2>3
<1>12. EmitsTo(mid, close, new) /\ new.breaks = mid.breaks
  BY <1>5, <1>7, OpKinds, EmittedTo
<1> HIDE DEF new
<1>13. Ends(new, pasts, u)
  <2>1. OpensTo(mid, pasts, close, new, pasts)
    BY <1>5, <1>12, OpKinds, PlainOpens
  <2>2. Ends(new, pasts, DepthAfter(close, 1, u))
    BY <1>4, <1>10, <1>11, <1>12, <2>1, EndsAfter
  <2> QED
    BY <1>4, <2>2
<1> QED
  BY <1>3, <1>8, <1>13

\* What is left is of the functions around the one that ends.
LEMMA RestIsOutside ==
  ASSUME IInv, BInv, todo # <<>>, OfFunction(Head(todo))
  PROVE  /\ Head(todo).depth = Len(gens) /\ Len(gens) \in Nat \ {0}
         /\ \A i \in DOMAIN todo : i # 1 /\ HasDepth(todo[i]) => todo[i].depth \in 1 .. Len(gens) - 1
<1>1. 1 \in DOMAIN todo /\ Head(todo) = todo[1] /\ \A i \in DOMAIN todo : i = 1 \/ 1 < i
  <2> DEFINE S == {todo[i] : i \in DOMAIN todo}
  <2>1. todo \in Seq(S)
    BY SeqFacts DEF IInv
  <2> HIDE DEF S
  <2>2. Len(todo) \in Nat \ {0} /\ DOMAIN todo = 1 .. Len(todo) /\ Head(todo) = todo[1]
    BY <2>1
  <2> QED
    BY <2>2
<1>2. todo[1].depth = Len(gens) /\ Len(gens) \in Nat /\ HasDepth(todo[1])
  BY <1>1, HeadDepth DEF BInv, IInv, HasDepth
<1>3. \A i \in DOMAIN todo : HasDepth(todo[i]) => todo[i].depth \in 1 .. Len(gens)
  BY DEF BInv, Nested, DepthsExist
<1>4. \A i \in DOMAIN todo : i # 1 /\ HasDepth(todo[i]) => todo[i].depth < todo[1].depth
  BY <1>1, <1>2 DEF BInv, Nested, DepthsFall
<1>5. Len(gens) \in Nat \ {0}
  BY <1>1, <1>2, <1>3
<1> DEFINE top == Len(gens)
<1>6. \A x \in 1 .. top : x < top => x \in 1 .. top - 1
  BY <1>2
<1> QED
  BY <1>1, <1>2, <1>3, <1>4, <1>5, <1>6

LEMMA ExitIsShaped ==
  ASSUME IInv, BInv, TInv, NEW ends, Shaped(todo, gens, ends), ExitFunction, ~Stops, Len(gens) > 1
  PROVE  \E e : Shaped(todo', gens', e)
<1> DEFINE top  == Len(gens)
           none == <<>>
           new  == [g \in 1 .. top - 1 |-> IF g = top - 1 THEN ends[g] + 1 ELSE ends[g]]
<1>1. /\ todo # <<>> /\ status = "compiling" /\ OfFunction(Head(todo)) /\ top \in Nat \ {0} /\ top > 1
      /\ Replace(none) /\ Len(gens') = top - 1 /\ gens'[top - 1] = Enclosing
      /\ \A g \in 1 .. top - 2 : gens'[g] = gens[g]
  BY ExitFunctionMakes
<1>2. /\ Head(todo).depth = top
      /\ \A i \in DOMAIN todo : i # 1 /\ HasDepth(todo[i]) => todo[i].depth \in 1 .. top - 1
  BY <1>1, RestIsOutside
<1>3. IsSeq(todo) /\ ends[top] \in Nat
  BY <1>1, TopFacts
<1>4. PICK t : Flow(todo, ends[top], t, ends)
  BY DEF Shaped
<1>5. \A g \in 1 .. top : ends[g] \in Nat /\ Ends(gens[g], Pasts(todo, g), ends[g])
  BY DEF Shaped
<1>6. IsSeq(none) /\ DOMAIN none = {} /\ \A g : Pasts(none, g) = {}
  BY DEF IsSeq, Pasts
<1>7. \A n \in Nat : \A e : Flow(none, n, n, e)
  BY NoItemFlows
<1>8. Len(gens) > 1 /\ gens[Len(gens) - 1] = gens[top - 1]
  OBVIOUS
<1> HIDE DEF top, none
<1>9. /\ top - 1 \in 1 .. top - 1
      /\ \A g \in 1 .. top - 1 : g \in 1 .. top /\ (g = top - 1 \/ (g # top - 1 /\ g \in 1 .. top - 2))
      /\ \A x \in 1 .. top - 1 : x > 1 => x - 1 \in 1 .. top - 1 /\ x - 1 # top - 1
  BY <1>1
<1>10. PICK v \in Nat : v = ends[top - 1] + 1
  BY <1>5, <1>9
<1>11. new[top - 1] = v /\ \A g \in 1 .. top - 1 : g # top - 1 => new[g] = ends[g]
  BY <1>9, <1>10
<1> HIDE DEF new
<1>12. Flow(todo', v, t, new)
  <2>1. AfterItem(Head(todo), ends[top], ends) = v
    BY <1>1, <1>2, <1>10 DEF AfterItem
  <2>2. Flow(none, v, AfterItem(Head(todo), ends[top], ends), new)
    BY <1>7, <2>1
  <2>3. \A i \in DOMAIN todo : i # 1 /\ OfFunction(todo[i]) /\ todo[i].depth > 1 =>
          new[todo[i].depth - 1] = ends[todo[i].depth - 1]
    BY <1>2, <1>9, <1>11 DEF HasDepth
  <2> QED
    BY <1>1, <1>3, <1>4, <1>6, <2>2, <2>3, FlowReplaced
<1>13. \A g : Pasts(todo', g) = Pasts(todo, g)
  <2> TAKE g
  <2>1. /\ \A p \in Pasts(todo', g) : p \in Pasts(none, g) \/ p \in Pasts(todo, g)
        /\ \A p \in Pasts(todo, g) :
             p \in Pasts(todo', g) \/ (HasPast(Head(todo)) /\ Head(todo).depth = g /\ p = Head(todo).past)
    BY <1>1, <1>3, <1>6, PastsAfter
  <2>2. ~HasPast(Head(todo))
    BY <1>1 DEF OfFunction, HasPast
  <2> QED
    BY <1>6, <2>1, <2>2
<1>14. Ends(gens'[top - 1], Pasts(todo', top - 1), v)
  <2>0. PICK pasts : pasts = Pasts(todo, top - 1)
    OBVIOUS
  <2>1. PICK n \in Nat : n = ends[top - 1]
    BY <1>5, <1>9
  <2>2. Ends(gens[Len(gens) - 1], pasts, n)
    BY <1>5, <1>8, <1>9, <2>0, <2>1
  <2>3. Ends(Enclosing, pasts, n + 1)
    BY <1>8, <2>2, EnclosingEnds
  <2> QED
    BY <1>1, <1>10, <1>13, <2>0, <2>1, <2>3
<1>15. \A g \in 1 .. top - 1 : new[g] \in Nat /\ Ends(gens'[g], Pasts(todo', g), new[g])
  BY <1>1, <1>5, <1>9, <1>11, <1>13, <1>14
<1>16. Flow(todo', new[Len(gens')], t, new)
  BY <1>1, <1>11, <1>12
<1> QED
  BY <1>1, <1>15, <1>16 DEF Shaped

-----------------------------------------------------------------------------
LEMMA InitSInv == Init => SInv
<1> SUFFICES ASSUME Init PROVE \E ends : Shaped(todo, gens, ends)
  BY DEF SInv
<1> DEFINE gen == NewEncoder(<<>>)
           a   == Item("StmtListItem")
           b   == Item("More")
           c   == Exit(1)
<1>1. gen.code = <<>> /\ gen.literals = <<>> /\ gen.breaks = {} /\ gen.ends = {}
  BY DEF NewEncoder
<1>2. Len(gens) = 1 /\ gens[1] = gen
  BY DEF Init
<1>3. /\ Len(todo) = 3 /\ DOMAIN todo = 1 .. 3
      /\ todo[1] = a /\ todo[2] = b /\ todo[3] = c
  BY DEF Init
<1>4. <<a, b>> \in FunctionBodies
  BY DEF FunctionBodies
<1>5. ~HasPast(c) /\ OfFunction(c) /\ c.depth = 1
  BY DEF HasPast, OfFunction, Exit
<1> HIDE DEF gen, a, b, c
<1>6. PICK s \in Nat : s = 0
  OBVIOUS
<1>7. PICK ends : ends = [g \in 1 .. 1 |-> s]
  OBVIOUS
<1>8. PICK m \in Nat : m = AfterItem(a, 0, ends) /\ Needs(b, m) /\ AfterItem(b, m, ends) = 0
  BY <1>4, BodyFlows
<1>9. Needs(a, s) /\ ~HasPast(a) /\ ~HasPast(b)
  BY <1>4, <1>6, BodyFlows
<1>10. Needs(c, s) /\ AfterItem(c, s, ends) = s
  BY <1>5, <1>6 DEF Needs, AfterItem, OfFunction
<1>11. Flow(todo, s, s, ends)
  <2> DEFINE at == [i \in 1 .. 4 |-> IF i = 2 THEN m ELSE s]
  <2>1. at[1] = s /\ at[2] = m /\ at[3] = s /\ at[4] = s /\ at \in [1 .. 4 -> Nat]
    OBVIOUS
  <2> HIDE DEF at
  <2>2. /\ Needs(todo[1], at[1]) /\ at[2] = AfterItem(todo[1], at[1], ends)
        /\ Needs(todo[2], at[2]) /\ at[3] = AfterItem(todo[2], at[2], ends)
        /\ Needs(todo[3], at[3]) /\ at[4] = AfterItem(todo[3], at[3], ends)
    BY <1>3, <1>6, <1>8, <1>9, <1>10, <2>1
  <2>3. \A i \in 1 .. 3 : (i = 1 /\ i + 1 = 2) \/ (i = 2 /\ i + 1 = 3) \/ (i = 3 /\ i + 1 = 4)
    OBVIOUS
  <2>4. \A i \in 1 .. 3 : Needs(todo[i], at[i]) /\ at[i + 1] = AfterItem(todo[i], at[i], ends)
    BY <2>2, <2>3
  <2>5. Len(todo) + 1 = 4
    BY <1>3
  <2> QED
    BY <1>3, <2>1, <2>4, <2>5 DEF Flow, Flows
<1>12. PICK none : none = {}
  OBVIOUS
<1>13. Ends(gen, none, s)
  <2>1. \E depth : Coded(gen, depth, <<>>, {}) /\ End(gen, depth) = 0
    BY <1>1, NewCoded
  <2> QED
    BY <1>6, <1>12, <2>1 DEF Ends
<1>14. \A g : Pasts(todo, g) = none
  <2>1. \A i \in 1 .. 3 : i = 1 \/ i = 2 \/ i = 3
    OBVIOUS
  <2> QED
    BY <1>3, <1>5, <1>9, <1>12, <2>1 DEF Pasts
<1>15. ends[1] = s /\ \A g \in 1 .. 1 : g = 1
  BY <1>7
<1>16. \A g \in 1 .. Len(gens) : ends[g] \in Nat /\ Ends(gens[g], Pasts(todo, g), ends[g])
  BY <1>2, <1>13, <1>14, <1>15
<1>17. Flow(todo, ends[Len(gens)], s, ends)
  BY <1>2, <1>11, <1>15
<1> QED
  BY <1>16, <1>17 DEF Shaped

LEMMA NextKeepsSInv ==
  ASSUME MaxArgs < ByteSize
  PROVE  IInv /\ BInv /\ TInv /\ SInv /\ [Next]_vars => SInv'
<1> SUFFICES ASSUME IInv, BInv, TInv, SInv, [Next]_vars, status' = "compiling", ~crossed'
             PROVE  \E e : Shaped(todo', gens', e)
  BY DEF SInv
<1>1. CASE UNCHANGED vars
  BY <1>1 DEF vars, SInv
<1>2. CASE Next
  <2>1. status = "compiling" /\ ~Stops
    BY <1>2 DEF Next, VisitIdentifier, VisitNumber, VisitBinOp, VisitFunCall, VisitFunExpr, EmitLast, MoreStmts,
         VisitExprStmt, VisitReturn, VisitContinue, VisitDecl, StoreDecl, VisitLabel, VisitBreak, VisitIf, VisitIfCode,
         VisitElseCode, EndIf, ExitFunction, AtExpr, AtStmt, Doing, Stops, Stop
  <2>2. ~crossed
    <3>1. CASE ExitFunction
      BY <2>1, <3>1, ExitFunctionMakes
    <3>2. CASE EndIf
      BY <2>1, <3>2, EndIfEnds
    <3>3. CASE VisitBreak
      BY <2>1, <3>3 DEF VisitBreak, Stops, Stop
    <3>4. CASE ~(ExitFunction \/ EndIf \/ VisitBreak)
      BY <1>2, <3>4 DEF Next, VisitIdentifier, VisitNumber, VisitBinOp, VisitFunCall, VisitFunExpr, EmitLast, MoreStmts,
         VisitExprStmt, VisitReturn, VisitContinue, VisitDecl, StoreDecl, VisitLabel, VisitIf, VisitIfCode,
         VisitElseCode, OnlyTree, OnlyCode
    <3> QED
      BY <3>1, <3>2, <3>3, <3>4
  <2>3. PICK ends : Shaped(todo, gens, ends)
    BY <2>1, <2>2 DEF SInv
  <2>4. CASE VisitIdentifier \/ VisitNumber
    BY <2>3, <2>4, LiteralIsShaped
  <2>5. CASE VisitBinOp
    BY <2>3, <2>5, BinOpIsShaped
  <2>6. CASE VisitFunCall
    BY <2>3, <2>6, FunCallIsShaped
  <2>7. CASE VisitFunExpr
    BY <2>3, <2>7, FunExprIsShaped
  <2>8. CASE EmitLast
    BY <2>3, <2>8, EmitLastIsShaped
  <2>9. CASE MoreStmts \/ VisitExprStmt \/ VisitReturn \/ VisitContinue \/ VisitDecl \/ VisitLabel \/ VisitIf
    BY <2>3, <2>9, StatementsAreShaped
  <2>10. CASE StoreDecl
    BY <2>3, <2>10, StoreIsShaped
  <2>11. CASE VisitBreak
    BY <2>1, <2>3, <2>11, BreakIsShaped
  <2>12. CASE VisitIfCode
    BY <2>3, <2>12, IfCodeIsShaped
  <2>13. CASE VisitElseCode
    BY <2>3, <2>13, ElseCodeIsShaped
  <2>14. CASE EndIf
    BY <2>1, <2>2, <2>3, <2>14, EndIfIsShaped
  <2>15. CASE ExitFunction
    <3> DEFINE top == Len(gens)
    <3>1. top \in Nat \ {0} /\ (top = 1 => status' = "done")
      BY <2>1, <2>15, ExitFunctionMakes
    <3>2. top > 1
      <4> HIDE DEF top
      <4> QED
        BY <3>1
    <3> QED
      BY <2>1, <2>3, <2>15, <3>2, ExitIsShaped
  <2> QED
    BY <1>2, <2>4, <2>5, <2>6, <2>7, <2>8, <2>9, <2>10, <2>11, <2>12, <2>13, <2>14, <2>15 DEF Next
<1> QED
  BY <1>1, <1>2

-----------------------------------------------------------------------------
(***************************************************************************)
(* The functions that are made.                                            *)
(***************************************************************************)
CodeSound(fun) ==
  /\ LiteralsNamed(fun)
  /\ OffsetsFit(fun.code) => Sound(fun.code)
  /\ OffsetsFit(fun.code) /\ LiteralsFit(fun) => SoundLiterals(fun)

MInv == \A f \in DOMAIN funs : DistinctNames(funs[f]) /\ (~crossed => CodeSound(funs[f]))

\* When a function ends nothing of it is left to be visited: every if has been finished,
\* and every break patched.
LEMMA EndingIsFinished ==
  ASSUME IInv, BInv, TInv, SInv, ~crossed, ExitFunction, ~Stops
  PROVE  \E depth, lit : IsFinished(coder, depth, lit)
<1> DEFINE top == Len(gens)
<1>1. todo # <<>> /\ status = "compiling" /\ OfFunction(Head(todo))
  BY ExitFunctionMakes
<1>2. PICK ends : Shaped(todo, gens, ends)
  BY <1>1 DEF SInv
<1>3. /\ IsTyped(coder) /\ coder = gens[top] /\ top \in Nat /\ top > 0
      /\ Ends(coder, Pasts(todo, top), ends[top]) /\ Needs(Head(todo), ends[top])
  BY <1>1, <1>2, TopFacts
<1>4. ends[top] = 0
  BY <1>1, <1>3 DEF Needs, OfFunction
<1>5. Pasts(todo, top) = {}
  <2>1. \A i \in DOMAIN todo : i # 1 /\ HasDepth(todo[i]) => todo[i].depth \in 1 .. top - 1
    BY <1>1, RestIsOutside
  <2>2. top \notin 1 .. top - 1
    BY <1>3
  <2>3. ~HasPast(todo[1])
    BY <1>1 DEF HasPast, OfFunction
  <2>4. \A i \in DOMAIN todo : HasPast(todo[i]) => i # 1 /\ HasDepth(todo[i])
    BY <2>3 DEF HasPast, HasDepth, OfIf
  <2> HIDE DEF top
  <2> QED
    BY <2>1, <2>2, <2>4 DEF Pasts
<1>6. PICK depth, lit : Coded(coder, depth, lit, {}) /\ End(coder, depth) = 0
  BY <1>3, <1>4, <1>5 DEF Ends
<1>7. top \in 1 .. top
  BY <1>3
<1>8. Lands(coder)
  BY <1>3, <1>7 DEF BInv, AllLand
<1>9. ASSUME NEW b \in coder.breaks PROVE Ended(coder, b)
  <2>1. Ended(gens[top], b) \/ Pending(top, b)
    BY <1>3, <1>7 DEF BInv, BreaksKept
  <2>2. \A d \in DOMAIN labelDescs : labelDescs[d].depth \in 1 .. top - 1
    BY <1>1, NoneOfFunction
  <2>3. top \notin 1 .. top - 1
    BY <1>3
  <2>4. ~Pending(top, b)
    BY <2>2, <2>3 DEF Pending
  <2> QED
    BY <1>3, <2>1, <2>4
<1> QED
  BY <1>3, <1>6, <1>8, <1>9 DEF IsFinished

LEMMA MadeIsSound ==
  ASSUME IInv, BInv, TInv, SInv, ~crossed, ExitFunction, ~Stops
  PROVE  CodeSound(MakeFun(Ending))
<1> DEFINE fun == MakeFun(Ending)
           n   == Len(coder.code)
<1>1. PICK depth, lit : IsFinished(coder, depth, lit)
  BY EndingIsFinished
<1>2. Ending = Emitted(coder, <<kPushUndefined, kReturn>>)
  BY DEF Ending
<1>3. /\ IsTyped(Ending) /\ Ending.literals = coder.literals
      /\ \E e : /\ Straight(Ending.code, e) /\ Named(Ending, e, lit)
                /\ \A i \in 1 .. n + 1 : e[i] = depth[i]
                /\ e[n + 2] = 1
  <2>1. LET new == Emitted(coder, <<kPushUndefined, kReturn>>)
        IN  /\ IsTyped(new) /\ new.literals = coder.literals
            /\ \E e : /\ Straight(new.code, e) /\ Named(new, e, lit)
                      /\ \A i \in 1 .. n + 1 : e[i] = depth[i]
                      /\ e[n + 2] = 1
    BY <1>1, FinishedCells
  <2> QED
    BY <1>2, <2>1
<1>4. PICK e : /\ Straight(Ending.code, e) /\ Named(Ending, e, lit)
               /\ \A i \in 1 .. n + 1 : e[i] = depth[i]
               /\ e[n + 2] = 1
  BY <1>3
<1>5. fun.code = Ending.code /\ fun.literals = Ending.literals
  BY DEF MakeFun
<1> HIDE DEF fun
<1>6. /\ fun.code \in Seq(Nat) /\ IsSeq(fun.literals) /\ Straight(fun.code, e) /\ Named(fun, e, lit)
  BY <1>3, <1>4, <1>5 DEF IsTyped, Named
<1>7. LiteralsNamed(fun)
  BY <1>6, FinishedNames
<1>8. ASSUME OffsetsFit(fun.code)
      PROVE  Sound(fun.code) /\ \A i \in 1 .. Len(fun.code) : DepthOf(fun.code)[i] >= 0 => e[i] >= 0
  <2>1. OffsetsFit(Ending.code)
    BY <1>5, <1>8
  <2>2. Sound(Ending.code) /\ \A i \in 1 .. Len(Ending.code) : DepthOf(Ending.code)[i] >= 0 => e[i] >= 0
    BY <1>1, <1>2, <1>4, <2>1, FinishedIsSound
  <2> QED
    BY <1>5, <2>2
<1>9. \A k \in DOMAIN fun.literals : fun.literals[k].t \in LiteralTypes
  <2>1. status = "compiling"
    BY ExitFunctionMakes
  <2>2. coder.literals \in Seq(LiteralSet(nDoubles, Len(funs)))
    BY <2>1, CoderTyped DEF EncoderTyped
  <2>3. \A x \in LiteralSet(nDoubles, Len(funs)) : x.t \in LiteralTypes
    BY DEF LiteralSet, LiteralTypes
  <2>4. \A k \in DOMAIN coder.literals : coder.literals[k] \in LiteralSet(nDoubles, Len(funs))
    BY <2>2
  <2> QED
    BY <1>3, <1>5, <2>3, <2>4
<1>10. ASSUME OffsetsFit(fun.code), LiteralsFit(fun) PROVE SoundLiterals(fun)
  <2>1. DOMAIN fun.code = 1 .. Len(fun.code)
    BY <1>6
  <2> QED
    BY <1>6, <1>8, <1>9, <1>10, <2>1, FinishedLiterals
<1> QED
  BY <1>7, <1>8, <1>10 DEF CodeSound, fun

\* No name is twice in the map that a function's environments are made from.
LEMMA MadeNamesDiffer ==
  ASSUME NEW gen, gen.decls \in [Names -> DeclSet], ~HasNullParam(gen.decls)
  PROVE  DistinctNames(MakeFun(gen))
<1> DEFINE decls  == gen.decls
           n      == ParamCount(decls)
           params == [i \in 1 .. n |-> CHOOSE m \in Names : decls[m] = Arg(i - 1)]
           S      == {m \in Names : decls[m] = Local}
           locals == Filtered(NameOrder, S)
           names  == params \o locals
<1>1. n \in Nat
  BY ParamCountIsNat
<1>2. ASSUME NEW i \in 1 .. n PROVE decls[params[i]] = Arg(i - 1)
  <2>1. i - 1 \in 0 .. n - 1
    BY <1>1
  <2>2. \E m \in Names : decls[m] = Arg(i - 1)
    BY <2>1 DEF HasNullParam
  <2> QED
    BY <2>2
<1>3. \E at : Picks(NameOrder, Len(NameOrder), S, locals, at)
  <2>1. Len(NameOrder) \in Nat
    BY NamesAssumption
  <2> HIDE DEF S
  <2> QED
    BY <2>1, FilteredPicks
<1>0. PICK at : Picks(NameOrder, Len(NameOrder), S, locals, at)
  BY <1>3
<1>4. IsSeq(params) /\ Len(params) = n
  BY <1>1 DEF IsSeq
<1>5. IsSeq(locals)
  BY <1>0 DEF Picks
<1>6. \A k \in 1 .. Len(locals) : decls[locals[k]] = Local
  BY <1>0 DEF Picks
<1>7. \A j, k \in 1 .. Len(locals) : locals[j] = locals[k] => j = k
  <2> HIDE DEF locals, S
  <2> SUFFICES ASSUME NEW j \in 1 .. Len(locals), NEW k \in 1 .. Len(locals), locals[j] = locals[k] PROVE j = k
    OBVIOUS
  <2>1. /\ at \in [1 .. Len(locals) -> 1 .. Len(NameOrder)] /\ Increasing(at)
        /\ locals[j] = NameOrder[at[j]] /\ locals[k] = NameOrder[at[k]]
    BY <1>0 DEF Picks
  <2>2. DOMAIN NameOrder = 1 .. Len(NameOrder)
    BY NamesAssumption
  <2>3. at[j] = at[k]
    BY <2>1, <2>2, NamesAssumption DEF IsInjective
  <2>4. Len(locals) \in Nat
    BY <1>5 DEF IsSeq
  <2>5. j < k \/ k < j \/ j = k
    BY <2>4
  <2>6. \A x \in 1 .. Len(NameOrder) : ~(x < x)
    BY NamesAssumption
  <2> QED
    BY <2>1, <2>3, <2>5, <2>6 DEF Increasing
<1>8. \A i, j \in 1 .. n : params[i] = params[j] => i = j
  <2>1. \A i, j \in 1 .. n : Arg(i - 1) = Arg(j - 1) => i = j
    BY <1>1 DEF Arg
  <2> HIDE DEF params
  <2> QED
    BY <1>2, <2>1
<1>9. \A i : Arg(i) # Local
  BY DEF Arg, Local
<1> HIDE DEF params, locals, n
<1>10. /\ DOMAIN names = 1 .. n + Len(locals) /\ Len(locals) \in Nat
       /\ \A i \in 1 .. n : names[i] = params[i]
       /\ \A i \in 1 .. Len(locals) : names[n + i] = locals[i]
  <2>1. /\ IsSeq(names) /\ Len(names) = Len(params) + Len(locals)
        /\ \A i \in 1 .. Len(params) : names[i] = params[i]
    BY <1>4, <1>5, ConcatFacts
  <2>2. \A i \in 1 .. Len(locals) : names[Len(params) + i] = locals[i]
    BY <1>4, <1>5, ConcatAfter
  <2> HIDE DEF names
  <2>3. DOMAIN names = 1 .. Len(names)
    BY <2>1, SeqFacts
  <2> QED
    BY <1>4, <1>5, <2>1, <2>2, <2>3 DEF IsSeq
<1> HIDE DEF names, decls
<1>11. ASSUME NEW i \in 1 .. n + Len(locals)
       PROVE  i \in 1 .. n \/ (i - n \in 1 .. Len(locals) /\ names[i] = locals[i - n])
  <2>1. i \in 1 .. n \/ (i - n \in 1 .. Len(locals) /\ n + (i - n) = i)
    BY <1>1, <1>10
  <2> QED
    BY <1>10, <2>1
<1>12. ASSUME NEW i \in 1 .. n + Len(locals), NEW j \in 1 .. n + Len(locals), names[i] = names[j] PROVE i = j
  <2>1. CASE i \in 1 .. n /\ j \in 1 .. n
    BY <1>8, <1>10, <1>12, <2>1
  <2>2. CASE i \in 1 .. n /\ j \notin 1 .. n
    BY <1>2, <1>6, <1>9, <1>10, <1>11, <1>12, <2>2
  <2>3. CASE i \notin 1 .. n /\ j \in 1 .. n
    BY <1>2, <1>6, <1>9, <1>10, <1>11, <1>12, <2>3
  <2>4. CASE i \notin 1 .. n /\ j \notin 1 .. n
    <3>1. i - n = j - n
      BY <1>7, <1>11, <1>12, <2>4
    <3> QED
      BY <1>1, <1>10, <3>1
  <2> QED
    BY <2>1, <2>2, <2>3, <2>4
<1>13. MakeFun(gen).params = params /\ MakeFun(gen).locals = locals
  BY DEF MakeFun, params, locals, n, decls
<1> QED
  BY <1>10, <1>12, <1>13 DEF DistinctNames, names

\* Only exitFunction makes a function, and a break that has left its function has.
LEMMA FunsStay ==
  ASSUME BInv, [Next]_vars, ~(ExitFunction /\ ~Stops)
  PROVE  UNCHANGED funs /\ (~crossed' => ~crossed)
<1>1. CASE UNCHANGED vars
  BY <1>1 DEF vars
<1>2. CASE Stops
  BY <1>2 DEF Stops, Stop
<1>3. CASE EndIf /\ ~Stops
  BY <1>3, EndIfEnds
<1>4. CASE VisitBreak /\ ~Stops
  BY <1>4 DEF VisitBreak, Stops, Stop
<1>5. CASE Next /\ ~(Stops \/ ExitFunction \/ EndIf \/ VisitBreak)
  BY <1>5 DEF Next, VisitIdentifier, VisitNumber, VisitBinOp, VisitFunCall, VisitFunExpr, EmitLast, MoreStmts,
     VisitExprStmt, VisitReturn, VisitContinue, VisitDecl, StoreDecl, VisitLabel, VisitIf, VisitIfCode,
     VisitElseCode, OnlyTree, OnlyCode
<1> QED
  BY <1>1, <1>2, <1>3, <1>4, <1>5

LEMMA NextKeepsMInv == IInv /\ BInv /\ TInv /\ SInv /\ MInv /\ [Next]_vars => MInv'
<1> SUFFICES ASSUME IInv, BInv, TInv, SInv, MInv, [Next]_vars PROVE MInv'
  OBVIOUS
<1>1. CASE ~(ExitFunction /\ ~Stops)
  <2>1. UNCHANGED funs /\ (~crossed' => ~crossed)
    BY <1>1, FunsStay
  <2> QED
    BY <2>1 DEF MInv
<1>2. CASE ExitFunction /\ ~Stops
  <2>1. /\ status = "compiling" /\ ~HasNullParam(Ending.decls) /\ funs' = Append(funs, MakeFun(Ending))
        /\ UNCHANGED crossed
    BY <1>2, ExitFunctionMakes
  <2>2. ~crossed => CodeSound(MakeFun(Ending))
    BY <1>2, MadeIsSound
  <2>3. DistinctNames(MakeFun(Ending))
    <3>1. <<kPushUndefined, kReturn>> \in Seq(Nat)
      BY OpsAreNat
    <3>2. EncoderTyped(coder, nDoubles, Len(funs), nStmts)
      BY <2>1, CoderTyped
    <3>3. EncoderTyped(Ending, nDoubles, Len(funs), nStmts)
      BY <3>1, <3>2, EmittedTyped DEF Ending
    <3> QED
      BY <2>1, <3>3, MadeNamesDiffer DEF EncoderTyped
  <2> DEFINE fun == MakeFun(Ending)
  <2> HIDE DEF fun
  <2>4. \A f \in DOMAIN funs' : (f \in DOMAIN funs /\ funs'[f] = funs[f]) \/ funs'[f] = fun
    <3>1. funs \in Seq(FunSet(nDoubles, Len(funs))) /\ funs' = Append(funs, fun)
      BY <2>1 DEF TInv, fun
    <3> QED
      BY <3>1
  <2>5. \A f \in DOMAIN funs' : DistinctNames(funs'[f]) /\ (~crossed => CodeSound(funs'[f]))
    BY <2>2, <2>3, <2>4 DEF MInv, fun
  <2> QED
    BY <2>1, <2>5 DEF MInv
<1> QED
  BY <1>1, <1>2

THEOREM SoundnessInvariance ==
  ASSUME MaxArgs < ByteSize
  PROVE  Spec => [](IInv /\ BInv /\ TInv /\ SInv /\ MInv)
<1> DEFINE Inv == IInv /\ BInv /\ TInv /\ SInv /\ MInv
<1>1. Init => Inv
  BY InitIInv, InitBInv, InitTInv, InitSInv DEF Init, MInv
<1>2. Inv /\ [Next]_vars => Inv'
  <2>1. Inv /\ [Next]_vars => IInv' /\ BInv' /\ TInv' /\ SInv' /\ MInv'
    BY NextKeepsIInv, NextKeepsBInv, NextKeepsTInv, NextKeepsSInv, NextKeepsMInv
  <2> QED
    BY <2>1
<1> QED
  BY <1>1, <1>2, PTL DEF Spec

\* When a call has no more arguments than its byte can count, what is compiled is what the
\* interpreter relies on and never checks, for every tree: unless a break left its function,
\* or a function's code or literals are more than their numbers can count.
THEOREM ProgramsAreSound ==
  ASSUME MaxArgs < ByteSize
  PROVE  Spec => []ProgramIsSound
<1>1. ASSUME TInv, MInv PROVE ProgramIsSound
  <2> SUFFICES ASSUME status = "done", ~crossed,
                      \A f \in DOMAIN funs : OffsetsFit(funs[f].code) /\ LiteralsFit(funs[f])
               PROVE  SoundProgram([funs |-> funs, doubles |-> [d \in 1 .. nDoubles |-> TRUE]], Names)
    BY DEF ProgramIsSound
  <2> DEFINE doubles == [d \in 1 .. nDoubles |-> TRUE]
             p == [funs |-> funs, doubles |-> doubles]
  <2>1. doubles \in Seq(BOOLEAN) /\ Len(doubles) = nDoubles
    BY <1>1 DEF TInv
  <2>2. p.funs = funs /\ p.doubles = doubles
    OBVIOUS
  <2> HIDE DEF doubles, p
  <2>3. FunctionsOf(p, Names) = FunSet(nDoubles, Len(funs))
    BY <2>1, <2>2 DEF FunctionsOf, FunSet, LiteralsOf, LiteralSet
  <2>4. p.funs \in Seq(FunctionsOf(p, Names)) /\ p.funs # <<>>
    BY <1>1, <2>2, <2>3 DEF TInv
  <2>5. \A f \in DOMAIN p.funs : Sound(p.funs[f].code) /\ SoundLiterals(p.funs[f]) /\ DistinctNames(p.funs[f])
    BY <1>1, <2>2 DEF MInv, CodeSound
  <2>6. SoundProgram(p, Names)
    BY <2>1, <2>2, <2>4, <2>5 DEF SoundProgram
  <2> QED
    BY <2>6 DEF p, doubles
<1> QED
  BY <1>1, SoundnessInvariance, PTL

\* The k-th instruction of a compiled function that takes a literal names its k-th literal,
\* as long as a char can number them, for every tree.
THEOREM LiteralsAlwaysNamed ==
  ASSUME MaxArgs < ByteSize
  PROVE  Spec => []LiteralsAreNamed
<1>1. ASSUME MInv PROVE LiteralsAreNamed
  <2>1. ~crossed => \A f \in DOMAIN funs : LiteralsNamed(funs[f])
    BY <1>1 DEF MInv, CodeSound
  <2> QED
    BY <2>1 DEF LiteralsAreNamed, LiteralsNamed
<1> QED
  BY <1>1, SoundnessInvariance, PTL

=============================================================================
