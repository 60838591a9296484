-------------------------- MODULE CallStackProofs --------------------------
(***************************************************************************)
(* The interpreter implements CallStack, for every set of sound programs.  *)
(* What m_stack says of the frames that wait is, by FramesIntact, what     *)
(* their callers left there; so it does not change while the running       *)
(* function stays above its floor, a call adds the running frame to it,    *)
(* and a return takes the last of it for the running frame.                *)
(***************************************************************************)
EXTENDS InterpreterProofs

\* A frame that waits, from what was recorded of it.
Waiting(f) ==
  [pc       |-> f.pc,
   closure  |-> f.closure,
   env      |-> f.env,
   operands |-> SubSeq(f.stack, FloorAt(f.bp) + 1, Len(f.stack) - 4)]

Recorded == [i \in DOMAIN frames |-> Waiting(frames[i])]

-----------------------------------------------------------------------------
\* A part of a sequence.
LEMMA PartFacts ==
  ASSUME NEW S, NEW s \in Seq(S), NEW low \in Nat, NEW high \in Nat, low <= high, high <= Len(s)
  PROVE  /\ SubSeq(s, low + 1, high) \in Seq(S)
         /\ Len(SubSeq(s, low + 1, high)) = high - low
         /\ \A i \in 1 .. high - low : SubSeq(s, low + 1, high)[i] = s[low + i]
<1>1. Len(s) \in Nat
  BY LenProperties
<1>2. ASSUME NEW i \in low + 1 .. high PROVE s[i] \in S
  BY <1>1, <1>2, ElementOfSeq
<1>3. /\ SubSeq(s, low + 1, high) \in Seq(S)
      /\ Len(SubSeq(s, low + 1, high)) = (IF low + 1 <= high THEN high - (low + 1) + 1 ELSE 0)
      /\ \A i \in 1 .. high - (low + 1) + 1 : SubSeq(s, low + 1, high)[i] = s[(low + 1) + i - 1]
  BY <1>1, <1>2, SubSeqProperties
<1>4. (IF low + 1 <= high THEN high - (low + 1) + 1 ELSE 0) = high - low /\ high - (low + 1) + 1 = high - low
  OBVIOUS
<1>5. \A i \in 1 .. high - low : (low + 1) + i - 1 = low + i
  OBVIOUS
<1> QED
  BY <1>3, <1>4, <1>5

\* Two sequences that agree between two places have the same part there.
LEMMA SameParts ==
  ASSUME NEW S, NEW s \in Seq(S), NEW t \in Seq(S), NEW low \in Nat, NEW high \in Nat,
         low <= high, high <= Len(s), high <= Len(t), \A k \in low + 1 .. high : s[k] = t[k]
  PROVE  SubSeq(s, low + 1, high) = SubSeq(t, low + 1, high)
<1> DEFINE p == SubSeq(s, low + 1, high)
           q == SubSeq(t, low + 1, high)
<1>1. /\ p \in Seq(S) /\ Len(p) = high - low /\ \A i \in 1 .. high - low : p[i] = s[low + i]
      /\ q \in Seq(S) /\ Len(q) = high - low /\ \A i \in 1 .. high - low : q[i] = t[low + i]
  BY PartFacts
<1>2. \A i \in 1 .. high - low : low + i \in low + 1 .. high
  OBVIOUS
<1> HIDE DEF p, q
<1>3. Len(p) = Len(q) /\ \A i \in 1 .. Len(p) : p[i] = q[i]
  BY <1>1, <1>2
<1>4. p = q
  BY <1>1, <1>3, SeqEqual
<1> QED
  BY <1>4 DEF p, q

\* The operands of a frame that waits are between its floor and its registers.
LEMMA FrameFacts ==
  ASSUME IInv, NEW i \in DOMAIN frames
  PROVE  LET f == frames[i]
             n == Len(f.stack)
         IN  /\ f \in FrameRecords /\ f.stack \in Seq(Words) /\ IntactAt(f)
             /\ n \in Nat /\ n >= 4 /\ n <= Len(m_stack) /\ f.bp \in Nat
             /\ FloorAt(f.bp) \in Nat /\ FloorAt(f.bp) <= n - 4
<1> DEFINE f == frames[i]
           n == Len(f.stack)
<1>1. Len(frames) \in Nat /\ DOMAIN frames = 1 .. Len(frames)
  BY LengthsAreNat DEF IInv
<1>2. \A j \in 1 .. Len(frames) : frames[j] \in FrameRecords /\ IntactAt(frames[j])
  BY <1>1, ElementOfSeq DEF IInv, TypeOK, FramesIntact
<1>3. \A j \in 1 .. Len(frames) : Len(frames[j].stack) \in Nat /\ Len(frames[j].stack) >= 4
  BY <1>2, LenProperties DEF FrameRecords, IntactAt
<1>4. f \in FrameRecords /\ f.stack \in Seq(Words) /\ IntactAt(f) /\ f.bp \in Nat /\ n <= Len(m_stack)
  BY <1>1, <1>2 DEF FrameRecords, IntactAt
<1>5. FloorAt(f.bp) \in Nat /\ FloorAt(f.bp) <= n - 4
  <2>1. f.bp = BaseAbove(i - 1)
    BY DEF IInv, BasePointersChain
  <2>2. CASE i = 1
    BY <2>1, <2>2, <1>1, <1>3 DEF BaseAbove, FloorAt
  <2>3. CASE i # 1
    <3> DEFINE m == Len(frames[i - 1].stack)
    <3>1. i - 1 \in 1 .. Len(frames) /\ i - 1 < i /\ i - 1 # 0
      BY <2>3, <1>1
    <3>2. m + 4 <= n /\ m \in Nat /\ m >= 4
      BY <3>1, <1>1, <1>3 DEF IInv, FramesIntact
    <3>3. f.bp = m - 1
      BY <2>1, <3>1 DEF BaseAbove
    <3>4. n \in Nat
      BY <1>1, <1>3
    <3> HIDE DEF m, n, f
    <3>5. FloorAt(f.bp) = m
      BY <3>2, <3>3 DEF FloorAt
    <3> QED
      BY <3>2, <3>4, <3>5
  <2> QED
    BY <2>2, <2>3
<1> QED
  BY <1>1, <1>3, <1>4, <1>5

\* What kReturn will find on m_stack is what the calls left.
LEMMA SuspendedIsRecorded == IInv => Suspended = Recorded
<1> SUFFICES ASSUME IInv, NEW i \in DOMAIN frames PROVE Suspended[i] = Waiting(frames[i])
  BY DEF Suspended, Recorded
<1> DEFINE f == frames[i]
           n == Len(f.stack)
<1>1. /\ f.stack \in Seq(Words) /\ IntactAt(f) /\ n \in Nat /\ n >= 4 /\ n <= Len(m_stack)
      /\ FloorAt(f.bp) \in Nat /\ FloorAt(f.bp) <= n - 4
  BY FrameFacts
<1>2. m_stack \in Seq(Words)
  BY DEF IInv, TypeOK
<1>3. Suspended[i] =
        [pc |-> m_stack[n - 3].v, closure |-> m_stack[n - 1].v, env |-> m_stack[n].v,
         operands |-> SubSeq(m_stack, FloorAt(m_stack[n - 2].v) + 1, n - 4)]
  BY DEF Suspended
<1> HIDE DEF n
<1>4. /\ \A k \in 1 .. n : m_stack[k] = f.stack[k]
      /\ f.stack[n - 3] = Smi(f.pc) /\ f.stack[n - 2] = Smi(f.bp)
      /\ f.stack[n - 1] = ClosureOop(f.closure) /\ f.stack[n] = EnvOop(f.env)
  BY <1>1 DEF IntactAt, n
<1>5. {n, n - 1, n - 2, n - 3} \subseteq 1 .. n
  BY <1>1
<1>6. /\ m_stack[n - 3].v = f.pc /\ m_stack[n - 2].v = f.bp
      /\ m_stack[n - 1].v = f.closure /\ m_stack[n].v = f.env
  BY <1>4, <1>5 DEF Smi, ClosureOop, EnvOop
<1> DEFINE low  == FloorAt(f.bp)
           high == n - 4
           s    == f.stack
<1>7. SubSeq(m_stack, low + 1, high) = SubSeq(s, low + 1, high)
  <2>1. low \in Nat /\ high \in Nat /\ low <= high /\ high <= Len(s) /\ high <= Len(m_stack) /\ s \in Seq(Words)
    <3>1. Len(s) = n
      BY DEF n
    <3>2. Len(m_stack) \in Nat
      BY <1>2, LenProperties
    <3> QED
      BY <1>1, <3>1, <3>2
  <2>2. \A k \in low + 1 .. high : m_stack[k] = s[k]
    BY <1>1, <1>4
  <2> HIDE DEF low, high, s
  <2> QED
    BY <1>2, <2>1, <2>2, SameParts
<1> QED
  BY <1>3, <1>6, <1>7 DEF Waiting, n

LEMMA SuspendedIsRecordedNext == (IInv => Suspended = Recorded)'
BY SuspendedIsRecorded, PTL

\* The running frame's operands are the words above the floor.
LEMMA OperandsLength ==
  IInv => /\ Len(SubSeq(m_stack, FloorAt(m_bp) + 1, Len(m_stack))) = Len(m_stack) - Floor
          /\ Floor \in Nat /\ Len(m_stack) \in Nat /\ Floor <= Len(m_stack)
<1> SUFFICES ASSUME IInv
             PROVE  /\ Len(SubSeq(m_stack, FloorAt(m_bp) + 1, Len(m_stack))) = Len(m_stack) - Floor
                    /\ Floor \in Nat /\ Len(m_stack) \in Nat /\ Floor <= Len(m_stack)
  OBVIOUS
<1>1. m_stack \in Seq(Words) /\ Floor \in Nat /\ Len(m_stack) \in Nat /\ Floor <= Len(m_stack)
  BY LengthsAreNat, FloorFacts DEF IInv, TypeOK
<1>2. Len(SubSeq(m_stack, Floor + 1, Len(m_stack))) = Len(m_stack) - Floor
  BY <1>1, PartFacts
<1> QED
  BY <1>1, <1>2 DEF Floor

LEMMA OperandsLengthNext ==
  (IInv => /\ Len(SubSeq(m_stack, FloorAt(m_bp) + 1, Len(m_stack))) = Len(m_stack) - Floor
           /\ Floor \in Nat /\ Len(m_stack) \in Nat /\ Floor <= Len(m_stack))'
BY OperandsLength, PTL

-----------------------------------------------------------------------------
(***************************************************************************)
(* The steps.                                                              *)
(***************************************************************************)
Halting == status = "running" /\ status' # "running" /\ frames' = frames

\* The process stops: the frames that wait are left as they are.
LEMMA HaltRefines == ASSUME IInv, IInv', Halting PROVE Abstract!Next
<1>1. Suspended' = Suspended
  BY SuspendedIsRecorded, SuspendedIsRecordedNext DEF Recorded, Halting
<1> QED
  BY <1>1 DEF Halting, Abstract!Next, Abstract!Halt

LEMMA StopHalts ==
  ASSUME status = "running", NEW how \in Statuses \ {"running"}, Stop(how) PROVE Halting
BY DEF Stop, Halting

\* An instruction that stays in its frame moves forward and takes two operands at most.
LEMMA OperandStepRefines ==
  ASSUME IInv, IInv', status = "running", Code[Position] # kCall, OperandStep
  PROVE  Abstract!Next
<1>1. /\ m_closure' = m_closure /\ m_env' = m_env /\ m_bp' = m_bp /\ status' = status
      /\ frames' = frames
  BY DEF OperandStep, registers
<1>2. Suspended' = Suspended
  BY <1>1, SuspendedIsRecorded, SuspendedIsRecordedNext DEF Recorded
<1>3. m_pc' > m_pc
  <2>1. m_pc \in Nat /\ m_pc' \in Nat /\ m_pc' + 1 \in Successors(Code, Position)
    BY DEF OperandStep, IInv, TypeOK
  <2>2. m_pc' + 1 \in Position + 1 .. Len(Code) /\ Len(Code) \in Nat
    BY <2>1, CodeFacts DEF SoundAt
  <2>3. Position = m_pc + 1
    BY DEF Position
  <2>4. \A from, to, end \in Nat : to + 1 \in (from + 1) + 1 .. end => to > from
    OBVIOUS
  <2> QED
    BY <2>1, <2>2, <2>3, <2>4
<1>4. Len(SubSeq(m_stack', FloorAt(m_bp') + 1, Len(m_stack')))
        >= Len(SubSeq(m_stack, FloorAt(m_bp) + 1, Len(m_stack))) - 2
  <2> DEFINE depth == Depth[Position]
             next  == DepthAfter(Code, Position, depth)
  <2>1. Len(m_stack') = Floor + next /\ Floor' = Floor
    BY <1>1 DEF OperandStep, Floor, FloorAt
  <2>2. depth = Len(m_stack) - Floor /\ depth \in Nat
    BY CodeFacts
  <2>3. Pops(Code, Position) \in 0 .. 2 /\ Pushes(Code[Position]) \in 0 .. 1
    BY DEF Pops, Pushes
  <2>4. next \in Nat /\ next >= depth - 2
    BY <2>2, <2>3, DepthFacts DEF DepthAfter
  <2> HIDE DEF depth, next
  <2>5. Len(SubSeq(m_stack', FloorAt(m_bp') + 1, Len(m_stack'))) = next
    <3>1. Len(SubSeq(m_stack', FloorAt(m_bp') + 1, Len(m_stack'))) = Len(m_stack') - Floor'
      BY OperandsLengthNext DEF FloorAt
    <3>2. Floor \in Nat
      BY OperandsLength
    <3>3. Len(m_stack') - Floor' = (Floor + next) - Floor
      BY <2>1
    <3>4. (Floor + next) - Floor = next
      BY <2>4, <3>2
    <3> QED
      BY <3>1, <3>3, <3>4
  <2>6. Len(SubSeq(m_stack, FloorAt(m_bp) + 1, Len(m_stack))) = depth
    BY <2>2, OperandsLength
  <2> QED
    BY <2>4, <2>5, <2>6
<1>5. Abstract!Step
  BY <1>1, <1>2, <1>3, <1>4 DEF Abstract!Step
<1> QED
  BY <1>5 DEF Abstract!Next

LEMMA StaysRefines ==
  ASSUME IInv, IInv', status = "running", Code[Position] # kCall, Stays
  PROVE  Abstract!Next
BY OperandStepRefines, StopHalts, HaltRefines DEF Stays

\* A call suspends the running frame, without the callee and its arguments.
LEMMA EnteredRefines ==
  ASSUME IInv, IInv', status = "running", Code[Position] = kCall, Entered
  PROVE  Abstract!Next
<1> DEFINE fr    == [pc |-> m_pc + 2, bp |-> m_bp, closure |-> m_closure,
                     env |-> m_env, stack |-> Saved]
           mine  == SubSeq(m_stack, FloorAt(m_bp) + 1, Len(m_stack))
           n     == Operand + 1
           L     == Len(frames)
<1>1. /\ Operand \in Nat /\ Len(m_stack) \in Nat /\ Floor \in Nat
      /\ Kept \in Nat /\ Floor <= Kept /\ Len(m_stack) = Kept + Operand + 1
  BY CallOperands
<1>2. /\ Saved \in Seq(Words) /\ Len(Saved) = Kept + 4
      /\ \A k \in 1 .. Kept : Saved[k] = m_stack[k]
  BY SavedFacts
<1>3. /\ m_stack' = Saved /\ m_pc' = 0 /\ m_bp' = Len(Saved) - 1 /\ status' = status
      /\ frames' = Append(frames, fr)
  BY DEF Entered
<1>4. m_stack \in Seq(Words) /\ frames \in Seq(FrameRecords) /\ L \in Nat /\ DOMAIN frames = 1 .. L
  BY LengthsAreNat DEF IInv, TypeOK
\* What is left of the caller's operands is what waits under the saved words.
<1>5. Waiting(fr) = [pc |-> m_pc + 2, closure |-> m_closure, env |-> m_env,
                     operands |-> SubSeq(mine, 1, Len(mine) - n)]
  <2>1. /\ mine \in Seq(Words) /\ Len(mine) = Len(m_stack) - Floor
        /\ \A i \in 1 .. Len(m_stack) - Floor : mine[i] = m_stack[Floor + i]
    <3>1. mine = SubSeq(m_stack, Floor + 1, Len(m_stack))
      BY DEF Floor
    <3>2. Floor <= Len(m_stack) /\ Len(m_stack) <= Len(m_stack)
      BY <1>1
    <3> DEFINE part == SubSeq(m_stack, Floor + 1, Len(m_stack))
    <3>3. /\ part \in Seq(Words) /\ Len(part) = Len(m_stack) - Floor
          /\ \A i \in 1 .. Len(m_stack) - Floor : part[i] = m_stack[Floor + i]
      BY <1>1, <1>4, <3>2, PartFacts
    <3>4. mine = part
      BY <3>1
    <3> HIDE DEF mine, part
    <3> QED
      BY <3>3, <3>4
  <2>2. Len(mine) - n = Kept - Floor /\ Len(mine) - n \in 0 .. Len(mine)
    BY <1>1, <2>1
  <2> DEFINE p == SubSeq(mine, 1, Len(mine) - n)
             q == SubSeq(Saved, Floor + 1, Kept)
  <2>3. p \in Seq(Words) /\ Len(p) = Kept - Floor /\ \A i \in 1 .. Kept - Floor : p[i] = mine[i]
    <3> HIDE DEF mine, n
    <3> QED
      BY <2>1, <2>2, PrefixFacts
  <2>4. q \in Seq(Words) /\ Len(q) = Kept - Floor /\ \A i \in 1 .. Kept - Floor : q[i] = Saved[Floor + i]
    <3>1. Kept <= Len(Saved)
      BY <1>1, <1>2
    <3> QED
      BY <1>1, <1>2, <3>1, PartFacts
  <2>5. \A i \in 1 .. Kept - Floor : i \in 1 .. Len(m_stack) - Floor /\ Floor + i \in 1 .. Kept
    BY <1>1
  <2> HIDE DEF p, q, mine, n
  <2>6. Len(p) = Len(q) /\ \A i \in 1 .. Len(p) : p[i] = q[i]
    BY <1>2, <2>1, <2>3, <2>4, <2>5
  <2>7. p = q
    BY <2>3, <2>4, <2>6, SeqEqual
  <2>8. Len(Saved) - 4 = Kept
    BY <1>1, <1>2
  <2>9. Waiting(fr) = [pc |-> m_pc + 2, closure |-> m_closure, env |-> m_env, operands |-> q]
    BY <2>8 DEF Waiting, Floor, q
  <2> QED
    BY <2>7, <2>9 DEF p
<1>6. n \in 1 .. Len(mine)
  <2>1. Len(mine) = Len(m_stack) - Floor
    BY OperandsLength
  <2> HIDE DEF mine
  <2> QED
    BY <1>1, <2>1
\* The callee's frame starts empty, above the saved words.
<1>7. SubSeq(m_stack', FloorAt(m_bp') + 1, Len(m_stack')) = <<>>
  <2>1. Len(Saved) \in Nat /\ Len(Saved) >= 4
    BY <1>1, <1>2
  <2>2. FloorAt(Len(Saved) - 1) = Len(Saved)
    <3> DEFINE l == Len(Saved)
    <3> HIDE DEF l
    <3>1. l \in Nat /\ l >= 4
      BY <2>1 DEF l
    <3>2. FloorAt(l - 1) = l
      BY <3>1 DEF FloorAt
    <3> QED
      BY <3>2 DEF l
  <2>3. /\ SubSeq(Saved, Len(Saved) + 1, Len(Saved)) \in Seq(Words)
        /\ Len(SubSeq(Saved, Len(Saved) + 1, Len(Saved))) = Len(Saved) - Len(Saved)
    BY <1>2, <2>1, PartFacts
  <2>4. SubSeq(Saved, Len(Saved) + 1, Len(Saved)) = <<>>
    BY <2>1, <2>3, EmptySeq
  <2> QED
    BY <1>3, <2>2, <2>4
<1>8. Suspended' = Append(Suspended, Waiting(fr))
  <2>1. Suspended = [i \in 1 .. L |-> Waiting(frames[i])]
    BY <1>4, SuspendedIsRecorded DEF Recorded
  <2>2. Suspended' = [i \in DOMAIN frames' |-> Waiting(frames'[i])]
    BY SuspendedIsRecordedNext DEF Recorded
  <2> HIDE DEF fr
  <2>3. /\ DOMAIN frames' = 1 .. L + 1 /\ \A i \in 1 .. L : frames'[i] = frames[i]
        /\ frames'[L + 1] = fr
    <3> DEFINE S == {frames[i] : i \in 1 .. L} \union {fr}
    <3>1. frames \in Seq(S) /\ fr \in S
      <4>1. \A i \in 1 .. L : frames[i] \in S
        OBVIOUS
      <4>2. frames = [i \in 1 .. L |-> frames[i]]
        BY <1>4
      <4> QED
        BY <1>4, <4>1, <4>2
    <3> HIDE DEF S
    <3>2. /\ Append(frames, fr) \in Seq(S) /\ Len(Append(frames, fr)) = L + 1
          /\ \A i \in 1 .. L : Append(frames, fr)[i] = frames[i]
          /\ Append(frames, fr)[L + 1] = fr
      BY <3>1, AppendProperties
    <3> QED
      BY <1>3, <3>2, LenProperties
  <2> DEFINE W == {Waiting(frames[i]) : i \in 1 .. L} \union {Waiting(fr)}
             s == Suspended
  <2>4. s \in Seq(W) /\ Len(s) = L /\ Waiting(fr) \in W
    <3>1. \A i \in 1 .. L : Waiting(frames[i]) \in W
      OBVIOUS
    <3> HIDE DEF W
    <3>2. s \in [1 .. L -> W]
      BY <2>1, <3>1
    <3>3. s \in Seq(W)
      BY <1>4, <3>2
    <3>4. Waiting(fr) \in W
      BY DEF W
    <3> QED
      BY <1>4, <3>2, <3>3, <3>4, LenProperties
  <2> HIDE DEF W, s
  <2>5. Append(s, Waiting(fr)) = [i \in 1 .. L + 1 |-> IF i = L + 1 THEN Waiting(fr) ELSE s[i]]
    <3>1. /\ Append(s, Waiting(fr)) \in Seq(W) /\ Len(Append(s, Waiting(fr))) = Len(s) + 1
          /\ \A i \in 1 .. Len(s) : Append(s, Waiting(fr))[i] = s[i]
          /\ Append(s, Waiting(fr))[Len(s) + 1] = Waiting(fr)
      BY <2>4, AppendProperties
    <3> DEFINE both == Append(s, Waiting(fr))
    <3> HIDE DEF both
    <3>2. /\ both \in Seq(W) /\ Len(both) = L + 1 /\ \A i \in 1 .. L : both[i] = s[i]
          /\ both[L + 1] = Waiting(fr)
      BY <3>1, <2>4 DEF both
    <3>3. both = [i \in 1 .. L + 1 |-> both[i]]
      BY <3>2, LenProperties
    <3>4. \A i \in 1 .. L + 1 : i = L + 1 \/ i \in 1 .. L
      BY <1>4
    <3>5. both = [i \in 1 .. L + 1 |-> IF i = L + 1 THEN Waiting(fr) ELSE s[i]]
      BY <3>2, <3>3, <3>4
    <3> QED
      BY <3>5 DEF both
  <2>6. Suspended' = [i \in 1 .. L + 1 |-> IF i = L + 1 THEN Waiting(fr) ELSE s[i]]
    <3>1. \A i \in 1 .. L + 1 : i = L + 1 \/ i \in 1 .. L
      BY <1>4
    <3>2. L + 1 \notin 1 .. L
      BY <1>4
    <3> QED
      BY <2>1, <2>2, <2>3, <3>1, <3>2 DEF s
  <2> QED
    BY <2>5, <2>6 DEF s
<1>9. Abstract!Call
  <2> HIDE DEF fr, mine, n
  <2>1. \E k \in 1 .. Len(mine) :
          Suspended' = Append(Suspended, [pc |-> m_pc + 2, closure |-> m_closure, env |-> m_env,
                                          operands |-> SubSeq(mine, 1, Len(mine) - k)])
    BY <1>5, <1>6, <1>8
  <2> QED
    BY <1>3, <1>7, <2>1 DEF Abstract!Call, mine
<1> QED
  BY <1>9 DEF Abstract!Next

LEMMA CallRefines == ASSUME IInv, IInv', Call PROVE Abstract!Next
<1>1. status = "running" /\ Code[Position] = kCall
  BY DEF Call, Running, Code
<1>2. CASE Stop("undefined") \/ Stop("out of memory")
  BY <1>1, <1>2, StopHalts, HaltRefines DEF Statuses
<1>3. CASE ~ (Stop("undefined") \/ Stop("out of memory"))
  <2>1. Entered
    BY <1>3 DEF Call, OutOfMemory, BasePointer, Entered, Callee, Called, CallArgs, Saved, Kept
  <2> QED
    BY <1>1, <2>1, EnteredRefines
<1> QED
  BY <1>2, <1>3

-----------------------------------------------------------------------------
(***************************************************************************)
(* Returns: the last of the frames that wait becomes the running one.      *)
(***************************************************************************)
\* What waits is one record for each of frames.
LEMMA RecordedFacts ==
  ASSUME NEW S, frames \in Seq(S)
  PROVE  LET W == {Waiting(frames[i]) : i \in DOMAIN frames}
         IN  /\ Recorded \in Seq(W) /\ Len(Recorded) = Len(frames)
             /\ \A i \in 1 .. Len(frames) : Recorded[i] = Waiting(frames[i])
<1> DEFINE W == {Waiting(frames[i]) : i \in DOMAIN frames}
<1>1. Len(frames) \in Nat /\ DOMAIN frames = 1 .. Len(frames)
  BY LenProperties
<1>2. \A i \in 1 .. Len(frames) : Waiting(frames[i]) \in W
  BY <1>1
<1>3. Recorded = [i \in 1 .. Len(frames) |-> Waiting(frames[i])]
  BY <1>1 DEF Recorded
<1> HIDE DEF W
<1>4. Recorded \in [1 .. Len(frames) -> W]
  BY <1>2, <1>3
<1>5. Recorded \in Seq(W)
  BY <1>1, <1>4
<1>6. Len(Recorded) = Len(frames)
  BY <1>1, <1>3, <1>5, LenProperties
<1> QED
  BY <1>3, <1>5, <1>6 DEF W

\* The frame that is resumed has what it waited with and the returned value.
LEMMA ResumeRefines ==
  ASSUME IInv, IInv', Return, Front(m_stack) # <<>>
  PROVE  Abstract!Next
<1> DEFINE L    == Len(frames)
           top  == frames[L]
           rest == Front(m_stack)
           val  == Last(m_stack)
           n    == Len(rest)
           kept == SubSeq(rest, 1, n - 4)
           mine == SubSeq(m_stack, FloorAt(m_bp) + 1, Len(m_stack))
           its  == SubSeq(m_stack', FloorAt(m_bp') + 1, Len(m_stack'))
<1>1. status = "running" /\ Code[Position] = kReturn
  BY DEF Return, Running, Code
<1>2. /\ L \in 1 .. Len(frames) /\ frames # <<>> /\ top \in FrameRecords
      /\ n = Len(top.stack) /\ n \in Nat /\ n >= 4 /\ n = Floor
      /\ \A k \in 1 .. n : rest[k] = top.stack[k]
      /\ SavedRegisters(rest)
      /\ rest[n].v = top.env /\ rest[n - 1].v = top.closure
      /\ rest[n - 2].v = top.bp /\ rest[n - 3].v = top.pc
  BY <1>1, ReturnRegisters
<1>3. /\ m_env' = top.env /\ m_closure' = top.closure /\ m_bp' = top.bp /\ m_pc' = top.pc
      /\ m_stack' = Append(kept, val) /\ frames' = Front(frames) /\ status' = status
      /\ doubles' = doubles /\ closures' = closures /\ envs' = envs /\ funs' = funs
  BY <1>2 DEF Return, Registers, BelowRegisters, heap
<1>4. /\ val \in ValueOops /\ rest \in Seq(Words) /\ Len(m_stack) = Floor + 1
      /\ m_stack \in Seq(Words) /\ val = m_stack[Len(m_stack)] /\ Floor \in Nat
  <2>1. m_stack \in Seq(Words)
    BY DEF IInv, TypeOK
  <2>2. val = m_stack[Len(m_stack)]
    BY DEF Last
  <2> QED
    BY <1>1, <2>1, <2>2, ReturnOperand
<1>5. frames \in Seq(FrameRecords)
  BY DEF IInv, TypeOK
<1> HIDE DEF top, rest, val, n
<1>6. /\ kept \in Seq(Words) /\ Len(kept) = n - 4
      /\ \A k \in 1 .. n - 4 : kept[k] = rest[k]
  <2>1. n - 4 \in 0 .. n
    BY <1>2
  <2> QED
    BY <1>4, <2>1, PrefixFacts DEF n
<1> HIDE DEF kept
<1>7. /\ m_stack' \in Seq(Words) /\ Len(m_stack') = n - 3
      /\ \A k \in 1 .. n - 4 : m_stack'[k] = top.stack[k]
      /\ m_stack'[n - 3] = val
  <2>1. val \in Words
    BY <1>4 DEF Words
  <2>2. /\ m_stack' \in Seq(Words) /\ Len(m_stack') = Len(kept) + 1
        /\ \A k \in 1 .. Len(kept) : m_stack'[k] = kept[k]
        /\ m_stack'[Len(kept) + 1] = val
    BY <1>3, <1>6, <2>1, AppendProperties
  <2>3. Len(kept) = n - 4 /\ Len(kept) + 1 = n - 3
    BY <1>2, <1>6
  <2>4. \A k \in 1 .. n - 4 : kept[k] = top.stack[k]
    BY <1>2, <1>6
  <2> QED
    BY <2>2, <2>3, <2>4
\* The returning function has one operand, the value.
<1>8. Len(mine) = 1 /\ mine[Len(mine)] = val
  <2>1. mine = SubSeq(m_stack, Floor + 1, Len(m_stack))
    BY DEF Floor
  <2>2. Floor <= Len(m_stack) /\ Len(m_stack) <= Len(m_stack) /\ Len(m_stack) \in Nat
        /\ Len(m_stack) - Floor = 1
    BY <1>4
  <2> HIDE DEF mine
  <2>3. Len(mine) = 1 /\ \A i \in 1 .. 1 : mine[i] = m_stack[Floor + i]
    BY <1>4, <2>1, <2>2, PartFacts
  <2> QED
    BY <1>4, <2>3
\* It is the last of the resumed function's.
<1>9. its = Append(Waiting(top).operands, val)
  <2> DEFINE low  == FloorAt(top.bp)
             old  == SubSeq(top.stack, low + 1, n - 4)
  <2>1. /\ top.stack \in Seq(Words) /\ low \in Nat /\ low <= n - 4
    <3>1. L \in DOMAIN frames
      BY <1>2, <1>5, LenProperties
    <3> QED
      BY <1>2, <3>1, FrameFacts DEF top
  <2>2. n - 4 \in Nat /\ n - 3 \in Nat /\ n - 4 <= Len(top.stack) /\ low <= n - 3
    BY <1>2, <2>1
  <2>3. /\ its \in Seq(Words) /\ Len(its) = n - 3 - low
        /\ \A i \in 1 .. n - 3 - low : its[i] = m_stack'[low + i]
    <3>1. its = SubSeq(m_stack', low + 1, n - 3)
      BY <1>3, <1>7 DEF FloorAt
    <3> DEFINE new == m_stack'
    <3>2. new \in Seq(Words) /\ Len(new) = n - 3
      BY <1>7
    <3> HIDE DEF new, low
    <3>3. /\ SubSeq(new, low + 1, n - 3) \in Seq(Words) /\ Len(SubSeq(new, low + 1, n - 3)) = n - 3 - low
          /\ \A i \in 1 .. n - 3 - low : SubSeq(new, low + 1, n - 3)[i] = new[low + i]
      <4>1. n - 3 <= Len(new)
        BY <2>2, <3>2
      <4> QED
        BY <2>1, <2>2, <3>2, <4>1, PartFacts
    <3> QED
      BY <3>1, <3>3 DEF new
  <2>4. /\ old \in Seq(Words) /\ Len(old) = n - 4 - low
        /\ \A i \in 1 .. n - 4 - low : old[i] = top.stack[low + i]
    <3> HIDE DEF low
    <3> QED
      BY <2>1, <2>2, PartFacts
  <2>5. val \in Words
    BY <1>4 DEF Words
  <2> HIDE DEF low, old, its
  <2>6. /\ Append(old, val) \in Seq(Words) /\ Len(Append(old, val)) = Len(old) + 1
        /\ \A i \in 1 .. Len(old) : Append(old, val)[i] = old[i]
        /\ Append(old, val)[Len(old) + 1] = val
    BY <2>4, <2>5, AppendProperties
  <2> DEFINE both == Append(old, val)
  <2> HIDE DEF both
  <2>7. /\ both \in Seq(Words) /\ Len(both) = n - 3 - low
        /\ \A i \in 1 .. n - 4 - low : both[i] = top.stack[low + i]
        /\ both[n - 3 - low] = val
    <3>1. n \in Nat /\ low \in Nat /\ Len(old) = n - 4 - low
      BY <1>2, <2>1, <2>4
    <3>2. \A a, b \in Nat : (a - 4 - b) + 1 = a - 3 - b
      OBVIOUS
    <3>3. Len(old) + 1 = n - 3 - low
      BY <3>1, <3>2
    <3> QED
      BY <2>4, <2>6, <3>3 DEF both
  <2>8. ASSUME NEW i \in 1 .. n - 3 - low
        PROVE  its[i] = both[i]
    <3>1. CASE i \in 1 .. n - 4 - low
      <4>1. low + i \in 1 .. n - 4
        BY <2>1, <2>2, <3>1
      <4> QED
        BY <1>7, <2>3, <2>7, <3>1, <4>1
    <3>2. CASE i = n - 3 - low
      <4>1. low + i = n - 3
        BY <2>1, <2>2, <3>2
      <4> QED
        BY <1>7, <2>3, <2>7, <3>2, <4>1
    <3>3. n \in Nat /\ low \in Nat
      BY <1>2, <2>1
    <3>4. \A a, b \in Nat : \A k \in 1 .. a - 3 - b : k \in 1 .. a - 4 - b \/ k = a - 3 - b
      OBVIOUS
    <3>5. i \in 1 .. n - 4 - low \/ i = n - 3 - low
      BY <3>3, <3>4
    <3> QED
      BY <3>1, <3>2, <3>5
  <2>9. its = both
    BY <2>3, <2>7, <2>8, SeqEqual
  <2>10. Waiting(top).operands = old
    BY <1>2 DEF Waiting, old, low
  <2> QED
    BY <2>9, <2>10 DEF both
<1> HIDE DEF mine, its
<1>10. /\ Waiting(top).pc = top.pc /\ Waiting(top).closure = top.closure /\ Waiting(top).env = top.env
  BY DEF Waiting
\* The others go on waiting.
<1> DEFINE W == {Waiting(frames[i]) : i \in DOMAIN frames}
<1>11. /\ Suspended \in Seq(W) /\ Len(Suspended) = L
       /\ \A i \in 1 .. L : Suspended[i] = Waiting(frames[i])
  BY <1>5, RecordedFacts, SuspendedIsRecorded
<1> HIDE DEF W
<1>12. Suspended # <<>> /\ Suspended[Len(Suspended)] = Waiting(top)
  BY <1>2, <1>11 DEF top
<1>13. Suspended' = SubSeq(Suspended, 1, Len(Suspended) - 1)
  <2> DEFINE before == SubSeq(Suspended, 1, Len(Suspended) - 1)
  <2>1. L \in Nat \ {0} /\ L - 1 \in 0 .. L /\ \A i \in 1 .. L - 1 : i \in 1 .. L
    BY <1>2
  <2>2. /\ before \in Seq(W) /\ Len(before) = L - 1
        /\ \A i \in 1 .. L - 1 : before[i] = Suspended[i]
    BY <1>11, <2>1, PrefixFacts
  <2>3. /\ frames' \in Seq(FrameRecords) /\ Len(frames') = L - 1
        /\ \A i \in 1 .. L - 1 : frames'[i] = frames[i]
    BY <1>2, <1>3, <1>5, FrontLast
  <2>4. Suspended' = [i \in DOMAIN frames' |-> Waiting(frames'[i])]
    BY SuspendedIsRecordedNext DEF Recorded
  <2>5. DOMAIN frames' = 1 .. L - 1
    BY <2>3, LenProperties
  <2>6. \A i \in 1 .. L - 1 : before[i] = Waiting(frames'[i])
    BY <1>11, <2>1, <2>2, <2>3
  <2> HIDE DEF before
  <2>7. before = [i \in 1 .. L - 1 |-> before[i]]
    BY <2>2, LenProperties
  <2>8. Suspended' = before
    BY <2>4, <2>5, <2>6, <2>7
  <2> QED
    BY <2>8 DEF before
<1>14. Abstract!Return
  BY <1>3, <1>8, <1>9, <1>10, <1>12, <1>13
  DEF Abstract!Return, Abstract!Last, Abstract!Front, mine, its
<1> QED
  BY <1>1, <1>14 DEF Abstract!Next

LEMMA ReturnRefines == ASSUME IInv, IInv', Return PROVE Abstract!Next
<1>1. CASE Front(m_stack) = <<>>
  <2>1. status = "running" /\ status' \in {"undefined", "finished"} /\ frames' = frames
    BY <1>1 DEF Return, Running
  <2>2. Halting
    BY <2>1 DEF Halting
  <2> QED
    BY <2>2, HaltRefines
<1>2. CASE Front(m_stack) # <<>>
  BY <1>2, ResumeRefines
<1> QED
  BY <1>1, <1>2

-----------------------------------------------------------------------------
LEMMA InitRefines == Init => Abstract!Init
<1> SUFFICES ASSUME Init PROVE Abstract!Init
  OBVIOUS
<1>1. m_stack = <<>> /\ frames = <<>> /\ m_pc = 0 /\ m_bp = 0 /\ status = "running"
  BY DEF Init
<1>2. IInv
  BY InitIInv
<1>3. Suspended = <<>>
  <2>1. Recorded \in Seq({Waiting(frames[i]) : i \in DOMAIN frames}) /\ Len(Recorded) = Len(frames)
    BY <1>2, RecordedFacts DEF IInv, TypeOK
  <2>2. Len(frames) = 0
    BY <1>1
  <2>3. Recorded = <<>>
    BY <2>1, <2>2, EmptySeq
  <2> QED
    BY <1>2, <2>3, SuspendedIsRecorded
<1>4. SubSeq(m_stack, FloorAt(m_bp) + 1, Len(m_stack)) = <<>>
  <2>1. m_stack \in Seq(Words) /\ Len(m_stack) = 0 /\ FloorAt(m_bp) = 0
    BY <1>1 DEF FloorAt
  <2>2. /\ SubSeq(m_stack, 0 + 1, 0) \in Seq(Words)
        /\ Len(SubSeq(m_stack, 0 + 1, 0)) = 0 - 0
    BY <2>1, PartFacts
  <2>3. SubSeq(m_stack, 0 + 1, 0) = <<>>
    BY <2>2, EmptySeq
  <2> QED
    BY <2>1, <2>3
<1> QED
  BY <1>1, <1>3, <1>4 DEF Abstract!Init

\* Every step of the interpreter is a step of CallStack.
LEMMA NextRefines == ASSUME IInv, IInv', Next PROVE Abstract!Next
<1>1. ASSUME PushUndefined \/ PushLiteral \/ Resolve \/ ResolvedStore \/ Pop
      PROVE  Abstract!Next
  <2>1. Stays
    BY <1>1, PushUndefinedKeepsIInv, PushLiteralKeepsIInv, ResolveKeepsIInv,
       ResolvedStoreKeepsIInv, PopKeepsIInv
  <2>2. status = "running" /\ Code[Position] # kCall
    BY <1>1 DEF PushUndefined, PushLiteral, Resolve, ResolvedStore, Pop, Running, Code, kCall,
       kPushUndefined, kPushLiteral, kResolve, kResolvedStore, kPop
  <2> QED
    BY <2>1, <2>2, StaysRefines
<1>2. ASSUME Jump \/ JumpIfFalse \/ Add \/ CreateClosure
      PROVE  Abstract!Next
  <2>1. Stays
    BY <1>2, JumpKeepsIInv, JumpIfFalseKeepsIInv, AddKeepsIInv, CreateClosureKeepsIInv
  <2>2. status = "running" /\ Code[Position] # kCall
    <3>1. Running(kJump) \/ Running(kJumpIfFalse) \/ Running(kAdd) \/ Running(kCreateClosure)
      BY <1>2, Zenon DEF Jump, JumpIfFalse, Add, CreateClosure
    <3> QED
      BY <3>1 DEF Running, Code, kCall, kJump, kJumpIfFalse, kAdd, kCreateClosure
  <2> QED
    BY <2>1, <2>2, StaysRefines
<1> QED
  BY <1>1, <1>2, CallRefines, ReturnRefines DEF Next

LEMMA StutterRefines ==
  ASSUME IInv, IInv', UNCHANGED vars PROVE UNCHANGED Abstract!vars
<1>1. /\ m_env' = m_env /\ m_closure' = m_closure /\ m_bp' = m_bp /\ m_pc' = m_pc
      /\ m_stack' = m_stack /\ frames' = frames /\ status' = status
  BY DEF vars
<1>2. Suspended' = Suspended
  BY <1>1, SuspendedIsRecorded, SuspendedIsRecordedNext DEF Recorded
<1> QED
  BY <1>1, <1>2 DEF Abstract!vars, FloorAt

\* Calls nest, whatever sound program runs: a callee never touches what its caller
\* left on m_stack, and kReturn, which finds the caller by four words of m_stack
\* alone, resumes exactly the frame that waits, where it stopped, with one operand
\* more (Interpreter.cc:240, :254).
THEOREM CallsAlwaysNest == Spec => CallsNest
<1>1. IInv /\ IInv' /\ [Next]_vars => [Abstract!Next]_(Abstract!vars)
  BY NextRefines, StutterRefines
<1> QED
  BY <1>1, InitRefines, Invariance, PTL DEF Spec, CallsNest, Abstract!Spec
=============================================================================
