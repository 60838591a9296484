------------------------- MODULE InterpreterProofs -------------------------
(***************************************************************************)
(* The interpreter's invariants for every set of sound programs, every     *)
(* byte size and every heap limit.                                         *)
(*                                                                         *)
(* None of the invariants is inductive alone: that a return finds its      *)
(* registers needs the frames to be intact; that they are intact needs the *)
(* operand depth at each instruction, so that no instruction pops below    *)
(* the frame floor; and the depth after a return needs the caller's        *)
(* registers.  IInv is their conjunction.                                  *)
(***************************************************************************)
EXTENDS Interpreter, SequenceTheorems, TLAPS

IInv ==
  /\ TypeOK
  /\ FramesIntact
  /\ BasePointersChain
  /\ OperandsBalanced
  /\ OperandsAreValues
  /\ ScopeMatchesCode
  /\ ArgumentsFit

-----------------------------------------------------------------------------
(***************************************************************************)
(* Sequences.                                                              *)
(***************************************************************************)
\* A prefix of a sequence.
LEMMA PrefixFacts ==
  ASSUME NEW S, NEW s \in Seq(S), NEW n \in 0 .. Len(s)
  PROVE  /\ SubSeq(s, 1, n) \in Seq(S)
         /\ Len(SubSeq(s, 1, n)) = n
         /\ \A i \in 1 .. n : SubSeq(s, 1, n)[i] = s[i]
<1>1. Len(s) \in Nat
  BY LenProperties
<1>2. \A i \in 1 .. n : s[i] \in S
  BY <1>1, ElementOfSeq
<1> QED
  BY <1>1, <1>2, SubSeqProperties

\* The last element of a nonempty sequence and what is before it.
LEMMA FrontLast ==
  ASSUME NEW S, NEW s \in Seq(S), s # <<>>
  PROVE  /\ Len(s) \in Nat \ {0}
         /\ Last(s) = s[Len(s)] /\ Last(s) \in S
         /\ Front(s) \in Seq(S)
         /\ Len(Front(s)) = Len(s) - 1
         /\ \A i \in 1 .. Len(s) - 1 : Front(s)[i] = s[i]
<1>1. Len(s) \in Nat \ {0}
  BY EmptySeq, Zenon
<1>2. s[Len(s)] \in S
  BY <1>1, ElementOfSeq
<1>3. Len(s) - 1 \in 0 .. Len(s)
  BY <1>1
<1> QED
  BY <1>1, <1>2, <1>3, PrefixFacts DEF Front, Last

-----------------------------------------------------------------------------
(***************************************************************************)
(* The heap only grows: what was a value stays one.                        *)
(***************************************************************************)
HeapGrows ==
  /\ funs' = funs
  /\ doubles' \in Seq(BOOLEAN) /\ Len(doubles) <= Len(doubles')
  /\ closures' \in Seq(ClosureRecords') /\ Len(closures) <= Len(closures')
  /\ \A c \in 1 .. Len(closures) : closures'[c] = closures[c]
  /\ envs' \in Seq(EnvRecords') /\ Len(envs) <= Len(envs')
  /\ \A e \in 1 .. Len(envs) : envs'[e].map = envs[e].map

LEMMA LengthsAreNat ==
  ASSUME TypeOK
  PROVE  /\ Len(funs) \in Nat /\ Len(doubles) \in Nat /\ Len(closures) \in Nat
         /\ Len(envs) \in Nat /\ Len(m_stack) \in Nat /\ Len(frames) \in Nat
         /\ DOMAIN frames = 1 .. Len(frames) /\ DOMAIN envs = 1 .. Len(envs)
         /\ DOMAIN funs = 1 .. Len(funs)
<1>1. PICK p \in Programs : funs = p.funs /\ Len(p.doubles) <= Len(doubles)
  BY DEF TypeOK
<1>2. funs \in Seq(FunctionsOf(p, Names))
  BY <1>1, ProgramsAssumption DEF SoundProgram
<1> QED
  BY <1>2, LenProperties DEF TypeOK

\* Growth of the lengths alone is enough for the sets of words to grow.
LEMMA WordsGrow ==
  ASSUME TypeOK, funs' = funs, Len(doubles') \in Nat, Len(closures') \in Nat, Len(envs') \in Nat,
         Len(doubles) <= Len(doubles'), Len(closures) <= Len(closures'), Len(envs) <= Len(envs')
  PROVE  /\ ValueOops \subseteq ValueOops' /\ Words \subseteq Words'
         /\ ClosureRecords \subseteq ClosureRecords' /\ EnvRecords \subseteq EnvRecords'
         /\ FrameRecords \subseteq FrameRecords'
<1>1. /\ Len(funs) \in Nat /\ Len(doubles) \in Nat /\ Len(closures) \in Nat /\ Len(envs) \in Nat
      /\ 1 .. Len(doubles) \subseteq 1 .. Len(doubles')
      /\ 1 .. Len(closures) \subseteq 1 .. Len(closures')
      /\ 1 .. Len(envs) \subseteq 1 .. Len(envs')
      /\ 0 .. Len(envs) \subseteq 0 .. Len(envs')
  BY LengthsAreNat
<1>2. ValueOops \subseteq ValueOops'
  BY <1>1 DEF ValueOops
<1>3. Words \subseteq Words'
  BY <1>1, <1>2 DEF Words
<1>4. Seq(ValueOops) \subseteq Seq(ValueOops') /\ Seq(Words) \subseteq Seq(Words')
  BY <1>2, <1>3, SeqMonotonic
<1>5. ClosureRecords \subseteq ClosureRecords'
  BY <1>1, <1>2 DEF ClosureRecords
<1>6. EnvRecords \subseteq EnvRecords'
  BY <1>1, <1>4 DEF EnvRecords
<1>7. FrameRecords \subseteq FrameRecords'
  BY <1>1, <1>4 DEF FrameRecords
<1> QED
  BY <1>2, <1>3, <1>5, <1>6, <1>7

-----------------------------------------------------------------------------
(***************************************************************************)
(* The instruction about to be executed.                                   *)
(***************************************************************************)
Code  == Fun.code
Depth == DepthOf(Fun.code)
Floor == FloorAt(m_bp)

\* The functions and literals of one of the programs are loaded.
Loaded ==
  /\ \E p \in Programs : funs = p.funs /\ Len(p.doubles) <= Len(doubles)
  /\ doubles \in Seq(BOOLEAN)

LEMMA LoadedFunctions ==
  ASSUME Loaded
  PROVE  /\ Len(funs) \in Nat \ {0}
         /\ \A f \in 1 .. Len(funs) :
              /\ funs[f].params \in Seq(Names) /\ funs[f].locals \in Seq(Names)
              /\ funs[f].code \in Seq(Nat)
              /\ Sound(funs[f].code) /\ SoundLiterals(funs[f])
              /\ \A k \in DOMAIN funs[f].literals :
                   funs[f].literals[k].t \in {"Double", "Function"} => funs[f].literals[k] \in ValueOops
<1>1. PICK p \in Programs : funs = p.funs /\ Len(p.doubles) <= Len(doubles)
  BY DEF Loaded
<1>2. /\ funs \in Seq(FunctionsOf(p, Names)) /\ funs # <<>> /\ p.doubles \in Seq(BOOLEAN)
      /\ \A g \in DOMAIN funs : Sound(funs[g].code) /\ SoundLiterals(funs[g])
  BY <1>1, ProgramsAssumption DEF SoundProgram
<1>3. Len(funs) \in Nat \ {0}
  BY <1>2, EmptySeq, Zenon
<1>4. Len(p.doubles) \in Nat /\ Len(doubles) \in Nat
  BY <1>2, LenProperties DEF Loaded
<1>5. ASSUME NEW f \in 1 .. Len(funs)
      PROVE  funs[f] \in FunctionsOf(p, Names) /\ f \in DOMAIN funs
  BY <1>2, ElementOfSeq, LenProperties
<1>6. ASSUME NEW f \in 1 .. Len(funs), NEW k \in DOMAIN funs[f].literals,
             funs[f].literals[k].t \in {"Double", "Function"}
      PROVE  funs[f].literals[k] \in ValueOops
  <2>1. funs[f].literals \in Seq(LiteralsOf(p, Names))
    BY <1>5 DEF FunctionsOf
  <2>2. funs[f].literals[k] \in LiteralsOf(p, Names)
    BY <1>6, <2>1, ElementOfSeq, LenProperties
  <2>3. 1 .. Len(p.doubles) \subseteq 1 .. Len(doubles)
    BY <1>1, <1>4
  <2> QED
    BY <1>1, <1>6, <2>2, <2>3 DEF LiteralsOf, ValueOops
<1> QED
  BY <1>2, <1>3, <1>5, <1>6 DEF FunctionsOf

\* Every Function has the shape the programs promise.
LEMMA FunctionFacts ==
  ASSUME TypeOK, NEW f \in 1 .. Len(funs)
  PROVE  /\ funs[f].params \in Seq(Names) /\ funs[f].locals \in Seq(Names)
         /\ funs[f].code \in Seq(Nat)
         /\ Sound(funs[f].code) /\ SoundLiterals(funs[f])
         /\ \A k \in DOMAIN funs[f].literals :
              funs[f].literals[k].t \in {"Double", "Function"} => funs[f].literals[k] \in ValueOops
<1>1. Loaded
  BY DEF TypeOK, Loaded
<1> QED
  BY <1>1, LoadedFunctions

\* A frame stays on the stack while its words do.
LEMMA IntactSurvives ==
  ASSUME NEW i, IntactAt(frames[i]), frames'[i] = frames[i],
         Len(frames[i].stack) <= Len(m_stack'),
         \A k \in 1 .. Len(frames[i].stack) : m_stack'[k] = m_stack[k]
  PROVE  IntactAt(frames[i])'
<1> DEFINE f == frames[i]
           n == Len(f.stack)
<1>1. /\ 4 <= n
      /\ \A k \in 1 .. n : m_stack[k] = f.stack[k]
      /\ f.stack[n - 3] = Smi(f.pc) /\ f.stack[n - 2] = Smi(f.bp)
      /\ f.stack[n - 1] = ClosureOop(f.closure) /\ f.stack[n] = EnvOop(f.env)
  BY DEF IntactAt
<1>2. n <= Len(m_stack') /\ \A k \in 1 .. n : m_stack'[k] = f.stack[k]
  BY <1>1
<1>3. frames'[i] = f
  OBVIOUS
<1> HIDE DEF f
<1> QED
  BY <1>1, <1>2, <1>3 DEF IntactAt

\* The frame floor, and the frame it is the top of.
LEMMA FloorFacts ==
  ASSUME TypeOK, FramesIntact, BasePointersChain
  PROVE  /\ Floor \in 0 .. Len(m_stack)
         /\ \A i \in 1 .. Len(frames) : Len(frames[i].stack) \in 4 .. Floor
         /\ frames = <<>> => Floor = 0
         /\ frames # <<>> => /\ Len(frames) \in 1 .. Len(frames)
                             /\ Floor = Len(frames[Len(frames)].stack)
<1>1. Len(m_stack) \in Nat /\ Len(frames) \in Nat /\ DOMAIN frames = 1 .. Len(frames)
  BY LengthsAreNat
<1>2. \A i \in 1 .. Len(frames) : frames[i] \in FrameRecords
  BY ElementOfSeq DEF TypeOK
<1>3. \A i \in 1 .. Len(frames) : Len(frames[i].stack) \in 4 .. Len(m_stack)
  <2>1. \A i \in 1 .. Len(frames) : Len(frames[i].stack) \in Nat
    BY <1>2, LenProperties DEF FrameRecords
  <2> QED
    BY <1>1, <2>1 DEF FramesIntact, IntactAt
<1>4. CASE frames = <<>>
  <2>1. Len(frames) = 0
    BY <1>4
  <2> QED
    BY <1>1, <1>4, <2>1 DEF Floor, FloorAt, BasePointersChain, BaseAbove
<1>5. CASE frames # <<>>
  <2>1. Len(frames) \in 1 .. Len(frames)
    BY <1>1, <1>5, EmptySeq DEF TypeOK
  <2>2. m_bp = Len(frames[Len(frames)].stack) - 1
    BY <2>1 DEF BasePointersChain, BaseAbove
  <2>3. Floor = Len(frames[Len(frames)].stack)
    <3> DEFINE n == Len(frames[Len(frames)].stack)
    <3>1. n \in 4 .. Len(m_stack)
      BY <1>3, <2>1
    <3>2. m_bp = n - 1
      BY <2>2
    <3> HIDE DEF n
    <3>3. Floor = n
      BY <1>1, <3>1, <3>2 DEF Floor, FloorAt
    <3> QED
      BY <3>3 DEF n
  <2>4. ASSUME NEW i \in 1 .. Len(frames)
        PROVE  Len(frames[i].stack) <= Floor
    <3>1. CASE i = Len(frames)
      BY <1>3, <2>1, <2>3, <3>1
    <3>2. CASE i \in 1 .. Len(frames) - 1
      <4>1. Len(frames[i].stack) + 4 <= Len(frames[Len(frames)].stack)
        BY <1>1, <2>1, <3>2 DEF FramesIntact
      <4>2. Len(frames[i].stack) \in Nat
        BY <1>3
      <4> QED
        BY <1>3, <2>1, <2>3, <4>1, <4>2
    <3>3. Len(frames) \in Nat
      BY <1>1
    <3>4. i = Len(frames) \/ i \in 1 .. Len(frames) - 1
      BY <3>3
    <3> QED
      BY <3>1, <3>2, <3>4
  <2> QED
    BY <1>1, <1>3, <1>5, <2>1, <2>3, <2>4
<1> QED
  BY <1>4, <1>5

LEMMA CodeFacts ==
  ASSUME IInv, status = "running"
  PROVE  /\ Fun = funs[envs[m_env].map] /\ envs[m_env].map \in 1 .. Len(funs)
         /\ closures[m_closure].func = FunctionOop(envs[m_env].map)
         /\ Code \in Seq(Nat) /\ Len(Code) \in Nat
         /\ Position \in 1 .. Len(Code)
         /\ Depth \in [1 .. Len(Code) -> Int]
         /\ Depth[Position] = Len(m_stack) - Floor /\ Depth[Position] \in Nat
         /\ SoundAt(Code, Depth, Position)
<1>1. envs[m_env] \in EnvRecords /\ Len(m_stack) \in Nat
  BY LengthsAreNat, ElementOfSeq DEF IInv, TypeOK
<1>2. /\ closures[m_closure].func = FunctionOop(envs[m_env].map)
      /\ envs[m_env].map \in 1 .. Len(funs)
      /\ Fun = funs[envs[m_env].map]
  BY <1>1 DEF IInv, ScopeMatchesCode, ScopeMatchesAt, FunctionOop, Fun, EnvRecords
<1>3. Code \in Seq(Nat) /\ Sound(Code)
  BY <1>2, FunctionFacts DEF IInv, Code
<1>4. Len(Code) \in Nat
  BY <1>3, LenProperties
<1>5. Position \in 1 .. Len(Code) /\ Depth[Position] = Len(m_stack) - Floor
  BY DEF IInv, OperandsBalanced, BalancedAt, CodeOf, Fun, Code, Depth, Floor, Position
<1>6. Floor \in 0 .. Len(m_stack)
  BY FloorFacts DEF IInv
<1>7. SoundDepth(Code, Depth)
  BY <1>3 DEF Sound, Code, Depth
<1> QED
  BY <1>1, <1>2, <1>3, <1>4, <1>5, <1>6, <1>7 DEF SoundDepth

\* The operands an instruction takes are there, and it leaves some number of them.
LEMMA DepthFacts ==
  ASSUME IInv, status = "running"
  PROVE  /\ Pops(Code, Position) \in 0 .. Depth[Position]
         /\ DepthAfter(Code, Position, Depth[Position]) \in Nat
<1>1. /\ Code \in Seq(Nat) /\ Len(Code) \in Nat /\ Position \in 1 .. Len(Code)
      /\ Depth[Position] \in Nat /\ SoundAt(Code, Depth, Position)
  BY CodeFacts
<1>2. Pops(Code, Position) \in Nat
  <2>1. CASE Code[Position] = kCall
    <3>1. Position + 1 \in 1 .. Len(Code)
      BY <1>1, <2>1 DEF SoundAt, Size, JumpOps, OperandOps, kCall, kJump, kJumpIfFalse
    <3>2. Code[Position + 1] \in Nat
      BY <1>1, <3>1, ElementOfSeq
    <3> QED
      BY <2>1, <3>2 DEF Pops
  <2>2. CASE Code[Position] # kCall
    BY <2>2 DEF Pops, kAdd, kResolvedStore, kPop, kJumpIfFalse, kCreateClosure, kReturn
  <2> QED
    BY <2>1, <2>2
<1>3. Pushes(Code[Position]) \in Nat
  BY DEF Pushes
<1> QED
  BY <1>1, <1>2, <1>3 DEF SoundAt, DepthAfter

-----------------------------------------------------------------------------
(***************************************************************************)
(* An instruction that stays inside its frame: the words up to the floor   *)
(* are as they were, those above it are values, as many as the code says.  *)
(***************************************************************************)
OperandStep ==
  /\ HeapGrows
  /\ ArgumentsFit'
  /\ UNCHANGED <<registers, status, frames>>
  /\ m_stack' \in Seq(Words')
  /\ Len(m_stack') = Floor + DepthAfter(Code, Position, Depth[Position])
  /\ \A k \in 1 .. Floor : m_stack'[k] = m_stack[k]
  /\ \A k \in Floor + 1 .. Len(m_stack') : m_stack'[k] \in ValueOops'
  /\ m_pc' \in Nat /\ m_pc' + 1 \in Successors(Code, Position)

\* What an instruction other than kCall and kReturn does.
Stays == OperandStep \/ \E how \in Statuses \ {"running"} : Stop(how)

LEMMA OperandStepKeepsIInv ==
  ASSUME IInv, status = "running", OperandStep
  PROVE  IInv'
<1>1. /\ Len(m_stack) \in Nat /\ Len(frames) \in Nat /\ DOMAIN frames = 1 .. Len(frames)
      /\ Len(envs) \in Nat /\ Len(closures) \in Nat /\ DOMAIN envs = 1 .. Len(envs)
      /\ Len(doubles) \in Nat
  BY LengthsAreNat DEF IInv
<1>2. /\ funs' = funs /\ frames' = frames /\ status' = status
      /\ m_env' = m_env /\ m_closure' = m_closure /\ m_bp' = m_bp
  BY DEF OperandStep, HeapGrows, registers
<1>3. /\ Floor \in 0 .. Len(m_stack)
      /\ \A i \in 1 .. Len(frames) : Len(frames[i].stack) \in 4 .. Floor
  BY FloorFacts DEF IInv
<1>4. /\ Code \in Seq(Nat) /\ Len(Code) \in Nat /\ Position \in 1 .. Len(Code)
      /\ SoundAt(Code, Depth, Position)
  BY CodeFacts
<1>5. /\ Len(m_stack') = Floor + DepthAfter(Code, Position, Depth[Position])
      /\ Len(m_stack') \in Nat /\ Floor \in 0 .. Len(m_stack')
  BY <1>3, DepthFacts DEF OperandStep
<1>6. /\ m_pc' + 1 \in Position + 1 .. Len(Code)
      /\ Depth[m_pc' + 1] = Len(m_stack') - Floor
  <2>1. m_pc' + 1 \in Successors(Code, Position)
    BY DEF OperandStep
  <2>2. /\ m_pc' + 1 \in Position + 1 .. Len(Code)
        /\ Depth[m_pc' + 1] = DepthAfter(Code, Position, Depth[Position])
    BY <1>4, <2>1 DEF SoundAt
  <2> QED
    BY <1>3, <1>5, <2>2, DepthFacts
<1>7. /\ Len(doubles') \in Nat /\ Len(closures') \in Nat /\ Len(envs') \in Nat
      /\ Len(doubles) <= Len(doubles') /\ Len(closures) <= Len(closures')
      /\ Len(envs) <= Len(envs')
  BY LenProperties DEF OperandStep, HeapGrows
<1>8. /\ ValueOops \subseteq ValueOops' /\ Words \subseteq Words'
      /\ FrameRecords \subseteq FrameRecords'
  BY <1>2, <1>7, WordsGrow DEF IInv
<1>9. \A i \in 1 .. Len(frames) : frames[i] \in FrameRecords
  BY ElementOfSeq DEF IInv, TypeOK
<1>10. TypeOK'
  <2>1. \E p \in Programs : funs' = p.funs /\ Len(p.doubles) <= Len(doubles')
    <3>1. PICK p \in Programs : funs = p.funs /\ Len(p.doubles) <= Len(doubles)
      BY DEF IInv, TypeOK
    <3>2. Len(p.doubles) \in Nat
      BY ProgramsAssumption, LenProperties DEF SoundProgram
    <3> QED
      BY <1>1, <1>2, <1>7, <3>1, <3>2
  <2>2. doubles' \in Seq(BOOLEAN) /\ closures' \in Seq(ClosureRecords') /\ envs' \in Seq(EnvRecords')
    BY DEF OperandStep, HeapGrows
  <2>3. m_stack' \in Seq(Words')
    BY DEF OperandStep
  <2>4. m_env' \in 1 .. Len(envs') /\ m_closure' \in 1 .. Len(closures') /\ m_bp' \in Nat
    BY <1>1, <1>2, <1>7 DEF IInv, TypeOK
  <2>5. m_pc' \in Nat
    BY DEF OperandStep
  <2>6. status' \in Statuses
    BY <1>2 DEF IInv, TypeOK
  <2>7. frames' \in Seq(FrameRecords')
    BY <1>2, <1>8, SeqMonotonic DEF IInv, TypeOK
  <2> QED
    BY <2>1, <2>2, <2>3, <2>4, <2>5, <2>6, <2>7 DEF TypeOK
<1>11. FramesIntact'
  <2>1. ASSUME NEW i \in DOMAIN frames
        PROVE  IntactAt(frames[i])'
    <3>1. IntactAt(frames[i]) /\ Len(frames[i].stack) \in 4 .. Floor
      BY <1>1, <1>3, <2>1 DEF IInv, FramesIntact
    <3>2. \A k \in 1 .. Len(frames[i].stack) : m_stack'[k] = m_stack[k]
      BY <1>3, <3>1 DEF OperandStep
    <3> QED
      BY <1>2, <1>5, <3>1, <3>2, IntactSurvives
  <2> QED
    BY <1>2, <2>1 DEF IInv, FramesIntact
<1>12. BasePointersChain'
  BY <1>2 DEF IInv, BasePointersChain, BaseAbove
<1>13. ScopeMatchesCode'
  <2>1. ASSUME NEW c \in 1 .. Len(closures), NEW e \in 1 .. Len(envs), ScopeMatchesAt(c, e)
        PROVE  ScopeMatchesAt(c, e)'
    BY <2>1 DEF OperandStep, HeapGrows, ScopeMatchesAt, FunctionOop
  <2>2. m_closure \in 1 .. Len(closures) /\ m_env \in 1 .. Len(envs)
    BY DEF IInv, TypeOK
  <2>3. \A i \in 1 .. Len(frames) :
          frames[i].closure \in 1 .. Len(closures) /\ frames[i].env \in 1 .. Len(envs)
    BY <1>9 DEF FrameRecords
  <2> QED
    BY <1>1, <1>2, <2>1, <2>2, <2>3 DEF IInv, ScopeMatchesCode
<1>14. OperandsBalanced'
  <2>1. ASSUME NEW c \in 1 .. Len(closures) PROVE  CodeOf(c)' = CodeOf(c)
    BY <2>1 DEF OperandStep, HeapGrows, CodeOf
  <2>2. BalancedAt(m_closure, m_pc, Len(m_stack) - FloorAt(m_bp))'
    <3>1. CodeOf(m_closure)' = Code
      BY <1>2, <2>1 DEF IInv, TypeOK, CodeOf, Code, Fun
    <3> QED
      BY <1>2, <1>4, <1>6, <3>1 DEF BalancedAt, Floor, FloorAt, Depth, Code, CodeOf
  <2>3. ASSUME NEW i \in DOMAIN frames
        PROVE  BalancedAt(frames[i].closure, frames[i].pc,
                          (Len(frames[i].stack) - 4 - FloorAt(frames[i].bp)) + 1)'
    <3>1. CodeOf(frames[i].closure)' = CodeOf(frames[i].closure)
      <4>1. frames[i].closure \in 1 .. Len(closures)
        BY <1>1, <1>9, <2>3 DEF FrameRecords
      <4> QED
        BY <1>2, <2>1, <4>1
    <3> QED
      BY <1>2, <2>3, <3>1 DEF IInv, OperandsBalanced, BalancedAt, FloorAt, CodeOf
  <2> QED
    BY <1>2, <2>2, <2>3 DEF OperandsBalanced
<1>15. OperandsAreValues'
  <2>1. ValuesBetween(m_stack, FloorAt(m_bp), Len(m_stack))'
    BY <1>2 DEF OperandStep, ValuesBetween, Floor, FloorAt
  <2>2. \A i \in DOMAIN frames' :
          ValuesBetween(frames[i].stack, FloorAt(frames[i].bp), Len(frames[i].stack) - 4)'
    BY <1>2, <1>8 DEF IInv, OperandsAreValues, ValuesBetween, FloorAt
  <2> QED
    BY <2>1, <2>2 DEF OperandsAreValues
<1>16. ArgumentsFit'
  BY DEF OperandStep
<1> QED
  BY <1>10, <1>11, <1>12, <1>13, <1>14, <1>15, <1>16 DEF IInv

-----------------------------------------------------------------------------
(***************************************************************************)
(* Stacks that agree with m_stack up to the floor and hold values of V     *)
(* above it.                                                               *)
(***************************************************************************)
OnFloor(s, W, V) ==
  /\ s \in Seq(W)
  /\ Len(s) \in Nat /\ Floor <= Len(s)
  /\ \A k \in 1 .. Floor : s[k] = m_stack[k]
  /\ \A k \in Floor + 1 .. Len(s) : s[k] \in V

LEMMA StackOnFloor ==
  ASSUME IInv
  PROVE  OnFloor(m_stack, Words, ValueOops) /\ ValueOops \subseteq Words
<1>1. Len(m_stack) \in Nat /\ Floor \in 0 .. Len(m_stack)
  BY LengthsAreNat, FloorFacts DEF IInv
<1>2. ValuesBetween(m_stack, Floor, Len(m_stack)) /\ m_stack \in Seq(Words)
  BY DEF IInv, OperandsAreValues, TypeOK, Floor
<1> QED
  BY <1>1, <1>2 DEF OnFloor, ValuesBetween, Words

LEMMA PopOnFloor ==
  ASSUME IInv, NEW W, NEW V, NEW s, OnFloor(s, W, V), Len(s) > Floor
  PROVE  /\ OnFloor(Front(s), W, V)
         /\ Len(Front(s)) = Len(s) - 1
         /\ Last(s) \in V
<1>1. Floor \in Nat /\ Len(s) \in Nat /\ s \in Seq(W)
  BY LengthsAreNat, FloorFacts DEF IInv, OnFloor
<1>2. s # <<>>
  BY <1>1
<1>3. /\ Last(s) = s[Len(s)] /\ Front(s) \in Seq(W) /\ Len(Front(s)) = Len(s) - 1
      /\ \A i \in 1 .. Len(s) - 1 : Front(s)[i] = s[i]
  BY <1>1, <1>2, FrontLast
<1> QED
  BY <1>1, <1>3 DEF OnFloor

LEMMA PushOnFloor ==
  ASSUME IInv, NEW W, NEW V, V \subseteq W, NEW s, OnFloor(s, W, V), NEW v \in V
  PROVE  OnFloor(Append(s, v), W, V) /\ Len(Append(s, v)) = Len(s) + 1
<1>1. Floor \in Nat /\ Len(s) \in Nat /\ s \in Seq(W)
  BY LengthsAreNat, FloorFacts DEF IInv, OnFloor
<1>2. /\ Append(s, v) \in Seq(W) /\ Len(Append(s, v)) = Len(s) + 1
      /\ \A i \in 1 .. Len(s) : Append(s, v)[i] = s[i]
      /\ Append(s, v)[Len(s) + 1] = v
  BY <1>1, AppendProperties
<1> QED
  BY <1>1, <1>2 DEF OnFloor

LEMMA WidenOnFloor ==
  ASSUME NEW W, NEW V, NEW X, NEW U, W \subseteq X, V \subseteq U, NEW s, OnFloor(s, W, V)
  PROVE  OnFloor(s, X, U)
<1>1. s \in Seq(X)
  BY SeqMonotonic DEF OnFloor
<1> QED
  BY <1>1 DEF OnFloor

-----------------------------------------------------------------------------
(***************************************************************************)
(* The pieces the instructions are made of.                                *)
(***************************************************************************)
LEMMA SameHeap ==
  ASSUME IInv, UNCHANGED <<funs, heap>>
  PROVE  HeapGrows /\ ArgumentsFit' /\ Words' = Words /\ ValueOops' = ValueOops
<1>1. doubles' = doubles /\ closures' = closures /\ envs' = envs /\ funs' = funs
  BY DEF heap
<1>2. /\ Words' = Words /\ ValueOops' = ValueOops
      /\ ClosureRecords' = ClosureRecords /\ EnvRecords' = EnvRecords
  BY <1>1 DEF Words, ValueOops, ClosureRecords, EnvRecords
<1>3. Len(doubles) \in Nat /\ Len(closures) \in Nat /\ Len(envs) \in Nat
  BY LengthsAreNat DEF IInv
<1>4. HeapGrows
  BY <1>1, <1>2, <1>3 DEF HeapGrows, IInv, TypeOK
<1>5. ArgumentsFit'
  BY <1>1 DEF IInv, ArgumentsFit
<1> QED
  BY <1>2, <1>4, <1>5

\* Falling through to the next instruction.
LEMMA AdvanceSucceeds ==
  ASSUME IInv, status = "running", Advance, Code[Position] \notin {kReturn, kJump}
  PROVE  m_pc' \in Nat /\ m_pc' + 1 \in Successors(Code, Position)
<1>1. m_pc \in Nat /\ Position = m_pc + 1
  BY DEF IInv, TypeOK, Position
<1>2. Size(Code[Position]) \in Nat
  BY DEF Size
<1>3. m_pc' = m_pc + Size(Code[Position])
  BY DEF Advance, Code
<1>4. CASE Code[Position] = kJumpIfFalse
  BY <1>1, <1>3, <1>4 DEF Successors, Size, JumpOps, kJumpIfFalse, kJump, kReturn
<1>5. CASE Code[Position] # kJumpIfFalse
  BY <1>1, <1>2, <1>3, <1>5 DEF Successors
<1> QED
  BY <1>4, <1>5

\* Jumping.
LEMMA JumpSucceeds ==
  ASSUME IInv, status = "running", Code[Position] \in JumpOps,
         m_pc' = JumpTarget(Fun.code, Position) - 1
  PROVE  m_pc' \in Nat /\ m_pc' + 1 \in Successors(Code, Position)
<1>1. JumpTarget(Code, Position) \in Successors(Code, Position)
  BY DEF Successors, JumpOps, kJump, kJumpIfFalse, kReturn
<1>2. JumpTarget(Code, Position) \in Position + 1 .. Len(Code) /\ Position \in 1 .. Len(Code)
  BY <1>1, CodeFacts DEF SoundAt
<1> DEFINE t == JumpTarget(Code, Position)
<1>3. m_pc' = t - 1
  BY DEF Code
<1>4. Len(Code) \in Nat
  BY CodeFacts DEF SoundAt
<1> HIDE DEF Code, Position
<1>6. t \in Nat \ {0}
  BY <1>2, <1>4
<1> HIDE DEF t
<1>5. m_pc' \in Nat /\ m_pc' + 1 = t
  BY <1>3, <1>6
<1> QED
  BY <1>1, <1>5 DEF t

\* Putting them together.
LEMMA ToOperandStep ==
  ASSUME IInv, status = "running", HeapGrows, ArgumentsFit', SameFrame,
         OnFloor(m_stack', Words', ValueOops'),
         Len(m_stack') = (Len(m_stack) - Pops(Code, Position)) + Pushes(Code[Position]),
         m_pc' \in Nat, m_pc' + 1 \in Successors(Code, Position)
  PROVE  IInv' /\ Stays
<1>1. Len(m_stack) \in Nat /\ Floor \in 0 .. Len(m_stack)
  BY LengthsAreNat, FloorFacts DEF IInv
<1>2. /\ Depth[Position] = Len(m_stack) - Floor
      /\ Pops(Code, Position) \in 0 .. Depth[Position]
      /\ Depth[Position] \in Nat
  BY CodeFacts, DepthFacts
<1>3. Pushes(Code[Position]) \in Nat
  BY DEF Pushes
<1>4. Len(m_stack') = Floor + DepthAfter(Code, Position, Depth[Position])
  BY <1>1, <1>2, <1>3 DEF DepthAfter
<1>5. OperandStep
  BY <1>4 DEF OnFloor, OperandStep, SameFrame
<1> QED
  BY <1>5, OperandStepKeepsIInv DEF Stays

\* What each instruction takes and leaves.
LEMMA PopsAndPushes ==
  ASSUME NEW code, NEW i
  PROVE  /\ code[i] \in {kPushUndefined, kPushLiteral, kResolve} =>
              Pops(code, i) = 0 /\ Pushes(code[i]) = 1
         /\ code[i] \in {kResolvedStore, kCreateClosure} =>
              Pops(code, i) = 1 /\ Pushes(code[i]) = 1
         /\ code[i] \in {kPop, kJumpIfFalse} => Pops(code, i) = 1 /\ Pushes(code[i]) = 0
         /\ code[i] = kJump => Pops(code, i) = 0 /\ Pushes(code[i]) = 0
         /\ code[i] = kAdd => Pops(code, i) = 2 /\ Pushes(code[i]) = 1
         /\ code[i] = kCall => Pops(code, i) = code[i + 1] + 1 /\ Pushes(code[i]) = 1
         /\ code[i] = kReturn => Pops(code, i) = 1
BY DEF Pops, Pushes, kPushUndefined, kPushLiteral, kResolve, kResolvedStore, kCreateClosure, kPop,
       kJumpIfFalse, kJump, kAdd, kCall, kReturn

\* The operands an instruction pops are above the floor.
LEMMA OperandsAbove ==
  ASSUME IInv, status = "running"
  PROVE  /\ Len(m_stack) \in Nat /\ Floor \in Nat
         /\ Len(m_stack) >= Floor + Pops(Code, Position) /\ Pops(Code, Position) \in Nat
<1>1. Len(m_stack) \in Nat /\ Floor \in 0 .. Len(m_stack)
  BY LengthsAreNat, FloorFacts DEF IInv
<1>2. /\ Depth[Position] = Len(m_stack) - Floor
      /\ Pops(Code, Position) \in 0 .. Depth[Position]
  BY CodeFacts, DepthFacts
<1> QED
  BY <1>1, <1>2

-----------------------------------------------------------------------------
(***************************************************************************)
(* The instructions, one by one.                                           *)
(***************************************************************************)
LEMMA StopKeepsIInv ==
  ASSUME IInv, NEW how \in Statuses \ {"running"}, Stop(how)
  PROVE  IInv' /\ Stays
<1>1. /\ funs' = funs /\ doubles' = doubles /\ closures' = closures /\ envs' = envs
      /\ m_env' = m_env /\ m_closure' = m_closure /\ m_bp' = m_bp /\ m_pc' = m_pc
      /\ m_stack' = m_stack /\ frames' = frames /\ status' = how
  BY DEF Stop, heap, registers
<1>2. TypeOK'
  BY <1>1 DEF IInv, TypeOK, Words, ValueOops, ClosureRecords, EnvRecords, FrameRecords
<1>3. FramesIntact' /\ BasePointersChain' /\ OperandsBalanced'
  BY <1>1 DEF IInv, FramesIntact, IntactAt, BasePointersChain, BaseAbove, OperandsBalanced
<1>4. OperandsAreValues' /\ ScopeMatchesCode' /\ ArgumentsFit'
  BY <1>1 DEF IInv, OperandsAreValues, ValuesBetween, ValueOops, FloorAt, ScopeMatchesCode,
              ScopeMatchesAt, ArgumentsFit
<1> QED
  BY <1>2, <1>3, <1>4 DEF IInv, Stays

LEMMA PushUndefinedKeepsIInv == ASSUME IInv, PushUndefined PROVE IInv' /\ Stays
<1>1. status = "running" /\ Code[Position] = kPushUndefined
  BY DEF PushUndefined, Running, Code
<1>2. HeapGrows /\ ArgumentsFit' /\ Words' = Words /\ ValueOops' = ValueOops
  BY SameHeap DEF PushUndefined, SameFrame
<1>3. OnFloor(m_stack', Words', ValueOops') /\ Len(m_stack') = Len(m_stack) + 1
  <2>1. Undefined \in ValueOops
    BY DEF Undefined, ValueOops
  <2> QED
    BY <1>2, <2>1, StackOnFloor, PushOnFloor DEF PushUndefined
<1>4. m_pc' \in Nat /\ m_pc' + 1 \in Successors(Code, Position)
  BY <1>1, AdvanceSucceeds DEF PushUndefined, kPushUndefined, kReturn, kJump
<1> QED
  BY <1>1, <1>2, <1>3, <1>4, PopsAndPushes, OperandsAbove, ToOperandStep DEF PushUndefined

\* The literal that kPushLiteral pushes is a value.
LEMMA PushedLiteral ==
  ASSUME IInv, status = "running", Code[Position] = kPushLiteral
  PROVE  Literal \in ValueOops
<1>1. /\ Position \in 1 .. Len(Code) /\ Depth[Position] \in Nat
      /\ SoundLiterals(Fun)
      /\ \A k \in DOMAIN Fun.literals :
           Fun.literals[k].t \in {"Double", "Function"} => Fun.literals[k] \in ValueOops
  BY CodeFacts, FunctionFacts DEF IInv
<1>2. LiteralAt(Fun, Position, {"Double", "Function"})
  BY <1>1 DEF SoundLiterals, Code, Depth
<1> QED
  BY <1>1, <1>2 DEF LiteralAt, Literal, Operand

LEMMA PushLiteralKeepsIInv == ASSUME IInv, PushLiteral PROVE IInv' /\ Stays
<1>1. status = "running" /\ Code[Position] = kPushLiteral
  BY DEF PushLiteral, Running, Code
<1>2. HeapGrows /\ ArgumentsFit' /\ Words' = Words /\ ValueOops' = ValueOops
  BY SameHeap DEF PushLiteral, SameFrame
<1>3. OnFloor(m_stack', Words', ValueOops') /\ Len(m_stack') = Len(m_stack) + 1
  BY <1>1, <1>2, PushedLiteral, StackOnFloor, PushOnFloor DEF PushLiteral
<1>4. m_pc' \in Nat /\ m_pc' + 1 \in Successors(Code, Position)
  BY <1>1, AdvanceSucceeds DEF PushLiteral, kPushLiteral, kReturn, kJump
<1> QED
  BY <1>1, <1>2, <1>3, <1>4, PopsAndPushes, OperandsAbove, ToOperandStep DEF PushLiteral

LEMMA PopKeepsIInv == ASSUME IInv, Pop PROVE IInv' /\ Stays
<1>1. status = "running" /\ Code[Position] = kPop
  BY DEF Pop, Running, Code
<1>2. HeapGrows /\ ArgumentsFit' /\ Words' = Words /\ ValueOops' = ValueOops
  BY SameHeap DEF Pop, SameFrame
<1>3. Len(m_stack) > Floor
  BY <1>1, PopsAndPushes, OperandsAbove
<1>4. OnFloor(m_stack', Words', ValueOops') /\ Len(m_stack') = Len(m_stack) - 1
  BY <1>2, <1>3, StackOnFloor, PopOnFloor DEF Pop
<1>5. m_pc' \in Nat /\ m_pc' + 1 \in Successors(Code, Position)
  BY <1>1, AdvanceSucceeds DEF Pop, kPop, kReturn, kJump
<1> QED
  BY <1>1, <1>2, <1>4, <1>5, PopsAndPushes, OperandsAbove, ToOperandStep DEF Pop

LEMMA JumpKeepsIInv == ASSUME IInv, Jump PROVE IInv' /\ Stays
<1>1. status = "running" /\ Code[Position] = kJump
  BY DEF Jump, Running, Code
<1>2. HeapGrows /\ ArgumentsFit' /\ Words' = Words /\ ValueOops' = ValueOops
  BY SameHeap DEF Jump, SameFrame
<1>3. OnFloor(m_stack', Words', ValueOops') /\ Len(m_stack') = Len(m_stack)
  BY <1>2, StackOnFloor DEF Jump, OnFloor
<1>4. m_pc' \in Nat /\ m_pc' + 1 \in Successors(Code, Position)
  BY <1>1, JumpSucceeds DEF Jump, JumpOps
<1> QED
  BY <1>1, <1>2, <1>3, <1>4, PopsAndPushes, OperandsAbove, ToOperandStep DEF Jump

LEMMA JumpIfFalseKeepsIInv == ASSUME IInv, JumpIfFalse PROVE IInv' /\ Stays
<1>1. status = "running" /\ Code[Position] = kJumpIfFalse
  BY DEF JumpIfFalse, Running, Code
<1>2. CASE Stop("undefined")
  BY <1>2, StopKeepsIInv DEF Statuses
<1>3. CASE ~ Stop("undefined")
  <2>1. HeapGrows /\ ArgumentsFit' /\ Words' = Words /\ ValueOops' = ValueOops
    BY <1>3, SameHeap DEF JumpIfFalse, SameFrame
  <2>2. Len(m_stack) > Floor
    BY <1>1, PopsAndPushes, OperandsAbove
  <2>3. OnFloor(m_stack', Words', ValueOops') /\ Len(m_stack') = Len(m_stack) - 1
    BY <1>3, <2>1, <2>2, StackOnFloor, PopOnFloor DEF JumpIfFalse
  <2>4. m_pc' \in Nat /\ m_pc' + 1 \in Successors(Code, Position)
    <3>1. CASE Advance
      BY <1>1, <3>1, AdvanceSucceeds DEF kJumpIfFalse, kReturn, kJump
    <3>2. CASE m_pc' = JumpTarget(Fun.code, Position) - 1
      BY <1>1, <3>2, JumpSucceeds DEF JumpOps
    <3> QED
      BY <1>3, <3>1, <3>2 DEF JumpIfFalse
  <2> QED
    BY <1>1, <1>3, <2>1, <2>3, <2>4, PopsAndPushes, OperandsAbove, ToOperandStep DEF JumpIfFalse
<1> QED
  BY <1>2, <1>3

LEMMA CreateClosureKeepsIInv == ASSUME IInv, CreateClosure PROVE IInv' /\ Stays
<1>1. status = "running" /\ Code[Position] = kCreateClosure
  BY DEF CreateClosure, Running, Code
<1>2. CASE Stop("out of memory")
  BY <1>2, StopKeepsIInv DEF Statuses
<1>3. CASE ~ Stop("out of memory")
  <2> DEFINE new == [func |-> Last(m_stack), baseEnv |-> m_env]
  <2>1. /\ closures' = Append(closures, new)
        /\ m_stack' = Append(Front(m_stack), ClosureOop(Len(closures) + 1))
        /\ Advance /\ SameFrame /\ funs' = funs /\ doubles' = doubles /\ envs' = envs
    BY <1>3 DEF CreateClosure, OutOfMemory, SameFrame
  <2>2. Len(m_stack) > Floor
    BY <1>1, PopsAndPushes, OperandsAbove
  <2>3. /\ OnFloor(Front(m_stack), Words, ValueOops) /\ Len(Front(m_stack)) = Len(m_stack) - 1
        /\ Last(m_stack) \in ValueOops
    BY <2>2, StackOnFloor, PopOnFloor
  <2>4. new \in ClosureRecords
    <3>1. m_env \in 0 .. Len(envs)
      BY LengthsAreNat DEF IInv, TypeOK
    <3> QED
      BY <2>3, <3>1 DEF ClosureRecords
  <2> HIDE DEF new
  <2>5. /\ closures' \in Seq(ClosureRecords) /\ Len(closures') = Len(closures) + 1
        /\ \A c \in 1 .. Len(closures) : closures'[c] = closures[c]
    BY <2>1, <2>4, AppendProperties DEF IInv, TypeOK
  <2>6. /\ Len(doubles) \in Nat /\ Len(closures) \in Nat /\ Len(envs) \in Nat
        /\ Len(closures') \in Nat
    BY <2>5, LengthsAreNat, LenProperties DEF IInv
  <2>7. /\ ValueOops \subseteq ValueOops' /\ Words \subseteq Words'
        /\ ClosureRecords \subseteq ClosureRecords'
    BY <2>1, <2>5, <2>6, WordsGrow DEF IInv
  <2>8. EnvRecords \subseteq EnvRecords'
    BY <2>1, <2>5, <2>6, WordsGrow DEF IInv
  <2>9. HeapGrows
    <3>1. closures' \in Seq(ClosureRecords') /\ envs' \in Seq(EnvRecords')
      BY <2>1, <2>5, <2>7, <2>8, SeqMonotonic DEF IInv, TypeOK
    <3> QED
      BY <2>1, <2>5, <2>6, <3>1 DEF HeapGrows, IInv, TypeOK
  <2>10. ArgumentsFit'
    BY <2>1 DEF IInv, ArgumentsFit
  <2>11. OnFloor(m_stack', Words', ValueOops') /\ Len(m_stack') = Len(m_stack)
    <3>1. ClosureOop(Len(closures) + 1) \in ValueOops'
      BY <2>5, <2>6 DEF ClosureOop, ValueOops
    <3>2. OnFloor(Front(m_stack), Words', ValueOops') /\ ValueOops' \subseteq Words'
      BY <2>3, <2>7, WidenOnFloor DEF Words
    <3> QED
      BY <1>1, <2>1, <2>3, <3>1, <3>2, PushOnFloor, OperandsAbove
  <2>12. m_pc' \in Nat /\ m_pc' + 1 \in Successors(Code, Position)
    BY <1>1, <2>1, AdvanceSucceeds DEF kCreateClosure, kReturn, kJump
  <2> QED
    BY <1>1, <2>1, <2>9, <2>10, <2>11, <2>12, PopsAndPushes, OperandsAbove, ToOperandStep
<1> QED
  BY <1>2, <1>3

LEMMA AddKeepsIInv == ASSUME IInv, Add PROVE IInv' /\ Stays
<1> DEFINE a    == Last(m_stack)
           b    == Last(Front(m_stack))
           rest == Front(Front(m_stack))
<1>1. status = "running" /\ Code[Position] = kAdd
  BY DEF Add, Running, Code
<1>2. Len(m_stack) \in Nat /\ Floor \in Nat /\ Len(m_stack) >= Floor + 2
  BY <1>1, PopsAndPushes, OperandsAbove
<1>3. OnFloor(Front(m_stack), Words, ValueOops) /\ Len(Front(m_stack)) = Len(m_stack) - 1
      /\ a \in ValueOops
  BY <1>2, StackOnFloor, PopOnFloor
<1>4. OnFloor(rest, Words, ValueOops) /\ Len(rest) = Len(m_stack) - 2 /\ b \in ValueOops
  <2> DEFINE s == Front(m_stack)
  <2>1. OnFloor(s, Words, ValueOops) /\ Len(s) > Floor
    BY <1>2, <1>3
  <2> HIDE DEF s
  <2>2. OnFloor(Front(s), Words, ValueOops) /\ Len(Front(s)) = Len(s) - 1 /\ Last(s) \in ValueOops
    BY <2>1, PopOnFloor
  <2>3. Len(s) = Len(m_stack) - 1
    BY <1>3 DEF s
  <2>4. Len(Front(s)) = Len(m_stack) - 2
    BY <1>2, <2>2, <2>3
  <2> QED
    BY <2>2, <2>4 DEF s
<1>5. CASE Stop("undefined") \/ Stop("aborted")
  BY <1>5, StopKeepsIInv DEF Statuses
<1>6. CASE ~ (Stop("undefined") \/ Stop("aborted"))
  <2>1. a.t = "Double" /\ b.t = "Double"
    <3>1. ~isSmi(a)
      BY <1>3 DEF ValueOops, isSmi
    <3> QED
      BY <1>6, <3>1 DEF Add
  <2>2. /\ doubles' = [doubles EXCEPT ![a.v] = @ \/ doubles[b.v]]
        /\ m_stack' = Append(rest, a)
        /\ Advance /\ SameFrame
        /\ funs' = funs /\ closures' = closures /\ envs' = envs
    BY <1>6, <2>1 DEF Add, SameFrame
  <2>3. a.v \in 1 .. Len(doubles)
    BY <1>3, <2>1 DEF ValueOops
  <2>4. doubles' \in Seq(BOOLEAN) /\ Len(doubles') = Len(doubles)
    <3> DEFINE sum == doubles[a.v] \/ doubles[b.v]
    <3>1. doubles' = [doubles EXCEPT ![a.v] = sum] /\ sum \in BOOLEAN
      BY <2>2
    <3> HIDE DEF sum, a
    <3> QED
      BY <2>3, <3>1, ExceptSeq DEF IInv, TypeOK
  <2>5. /\ Len(doubles) \in Nat /\ Len(closures) \in Nat /\ Len(envs) \in Nat
    BY LengthsAreNat DEF IInv
  <2>6. /\ ValueOops' = ValueOops /\ Words' = Words
        /\ ClosureRecords' = ClosureRecords /\ EnvRecords' = EnvRecords
    BY <2>2, <2>4 DEF ValueOops, Words, ClosureRecords, EnvRecords
  <2>7. HeapGrows /\ ArgumentsFit'
    BY <2>2, <2>4, <2>5, <2>6 DEF HeapGrows, IInv, TypeOK, ArgumentsFit
  <2>8. OnFloor(m_stack', Words', ValueOops') /\ Len(m_stack') = Len(m_stack) - 1
    <3>1. OnFloor(Append(rest, a), Words, ValueOops) /\ Len(Append(rest, a)) = Len(rest) + 1
      BY <1>3, <1>4, StackOnFloor, PushOnFloor
    <3> QED
      BY <1>2, <1>4, <2>2, <2>6, <3>1
  <2>9. m_pc' \in Nat /\ m_pc' + 1 \in Successors(Code, Position)
    BY <1>1, <2>2, AdvanceSucceeds DEF kAdd, kReturn, kJump
  <2> QED
    BY <1>1, <1>2, <2>2, <2>7, <2>8, <2>9, PopsAndPushes, ToOperandStep
<1> QED
  BY <1>5, <1>6

-----------------------------------------------------------------------------
(***************************************************************************)
(* Names.  A slot that lookup returns lies in the environment's arrays.    *)
(***************************************************************************)
LEMMA SlotFacts ==
  ASSUME IInv, NEW name, Lookup(m_env, name) # Unmapped
  PROVE  LET slot == Lookup(m_env, name)
         IN  \/ slot.part = "args" /\ slot.at \in 1 .. Len(envs[m_env].args)
             \/ slot.part = "locals" /\ slot.at \in 1 .. Len(envs[m_env].locals)
<1> DEFINE env    == envs[m_env]
           params == funs[env.map].params
           names  == params \o funs[env.map].locals
           hits   == {i \in 1 .. Len(names) : names[i] = name}
           hit    == CHOOSE i \in hits : TRUE
<1>1. env \in EnvRecords /\ m_env \in DOMAIN envs
  BY LengthsAreNat, ElementOfSeq DEF IInv, TypeOK
<1>2. env.map \in 1 .. Len(funs) /\ Len(env.args) \in Nat /\ Len(env.locals) \in Nat
  BY <1>1, LenProperties DEF EnvRecords
<1>3. Len(params) \in Nat /\ Len(params) <= Len(env.args)
  BY <1>1, <1>2, FunctionFacts, LenProperties DEF IInv, ArgumentsFit
<1>4. names \in Seq(Names)
  BY <1>2, FunctionFacts, ConcatProperties DEF IInv
<1>5. hits # {} => hit \in 1 .. Len(names) /\ Len(names) \in Nat
  BY <1>4, LenProperties
<1>6. Lookup(m_env, name) =
        IF hits = {} THEN Unmapped
        ELSE IF hit <= Len(params) THEN [part |-> "args", at |-> hit]
        ELSE IF hit <= Len(env.locals) THEN [part |-> "locals", at |-> hit]
        ELSE Unmapped
  BY DEF Lookup
<1> HIDE DEF hits, hit, names, params, env
<1>7. CASE hits # {} /\ hit <= Len(params)
  BY <1>2, <1>3, <1>5, <1>6, <1>7 DEF env
<1>8. CASE hits # {} /\ ~ (hit <= Len(params)) /\ hit <= Len(env.locals)
  BY <1>2, <1>5, <1>6, <1>8 DEF env
<1> QED
  BY <1>6, <1>7, <1>8

LEMMA ResolveKeepsIInv == ASSUME IInv, Resolve PROVE IInv' /\ Stays
<1> DEFINE slot == Lookup(m_env, Literal.v)
<1>1. status = "running" /\ Code[Position] = kResolve
  BY DEF Resolve, Running, Code
<1>2. CASE Stop("undefined")
  BY <1>2, StopKeepsIInv DEF Statuses
<1>3. CASE ~ Stop("undefined")
  <2>1. /\ slot # Unmapped
        /\ m_stack' = Append(m_stack, envs[m_env][slot.part][slot.at])
        /\ Advance /\ SameFrame /\ UNCHANGED heap
    BY <1>3 DEF Resolve
  <2>2. HeapGrows /\ ArgumentsFit' /\ Words' = Words /\ ValueOops' = ValueOops
    BY <2>1, SameHeap DEF SameFrame
  <2>3. envs[m_env] \in EnvRecords
    BY ElementOfSeq DEF IInv, TypeOK
  <2>4. envs[m_env][slot.part][slot.at] \in ValueOops
    <3>1. /\ envs[m_env].args \in Seq(ValueOops) /\ envs[m_env].locals \in Seq(ValueOops)
      BY <2>3 DEF EnvRecords
    <3>2. CASE slot.part = "args" /\ slot.at \in 1 .. Len(envs[m_env].args)
      BY <3>1, <3>2, ElementOfSeq
    <3>3. CASE slot.part = "locals" /\ slot.at \in 1 .. Len(envs[m_env].locals)
      BY <3>1, <3>3, ElementOfSeq
    <3> QED
      BY <2>1, <3>2, <3>3, SlotFacts
  <2>5. OnFloor(m_stack', Words', ValueOops') /\ Len(m_stack') = Len(m_stack) + 1
    BY <2>1, <2>2, <2>4, StackOnFloor, PushOnFloor
  <2>6. m_pc' \in Nat /\ m_pc' + 1 \in Successors(Code, Position)
    BY <1>1, <2>1, AdvanceSucceeds DEF kResolve, kReturn, kJump
  <2> QED
    BY <1>1, <2>1, <2>2, <2>5, <2>6, PopsAndPushes, OperandsAbove, ToOperandStep
<1> QED
  BY <1>2, <1>3

LEMMA ResolvedStoreKeepsIInv == ASSUME IInv, ResolvedStore PROVE IInv' /\ Stays
<1> DEFINE slot == Lookup(m_env, Literal.v)
           v    == Last(m_stack)
           env  == envs[m_env]
<1>1. status = "running" /\ Code[Position] = kResolvedStore
  BY DEF ResolvedStore, Running, Code
<1>2. CASE Stop("undefined")
  BY <1>2, StopKeepsIInv DEF Statuses
<1>3. CASE ~ Stop("undefined")
  <2>1. /\ slot # Unmapped
        /\ envs' = [envs EXCEPT ![m_env][slot.part][slot.at] = v]
        /\ Advance /\ SameFrame /\ m_stack' = m_stack
        /\ funs' = funs /\ doubles' = doubles /\ closures' = closures
    BY <1>3 DEF ResolvedStore, SameFrame
  <2>2. v \in ValueOops
    BY <1>1, PopsAndPushes, OperandsAbove, StackOnFloor, PopOnFloor
  <2>3. /\ env \in EnvRecords /\ m_env \in 1 .. Len(envs) /\ Len(envs) \in Nat
        /\ envs \in Seq(EnvRecords) /\ DOMAIN envs = 1 .. Len(envs)
    BY LengthsAreNat, ElementOfSeq DEF IInv, TypeOK
  <2>4. PICK written \in EnvRecords : /\ envs' = [envs EXCEPT ![m_env] = written]
                                     /\ written.map = env.map
                                     /\ Len(written.args) = Len(env.args)
    <3>1. /\ env.map \in 1 .. Len(funs) /\ env.prev \in 0 .. Len(envs)
          /\ env.args \in Seq(ValueOops) /\ env.locals \in Seq(ValueOops)
          /\ env = [map |-> env.map, prev |-> env.prev, args |-> env.args, locals |-> env.locals]
      BY <2>3 DEF EnvRecords
    <3> DEFINE inArgs   == [env EXCEPT !.args = [env.args EXCEPT ![slot.at] = v]]
               inLocals == [env EXCEPT !.locals = [env.locals EXCEPT ![slot.at] = v]]
    <3>2. CASE slot.part = "args" /\ slot.at \in 1 .. Len(env.args)
      <4>1. envs' = [envs EXCEPT ![m_env] = inArgs]
        BY <2>1, <2>3, <3>2
      <4>2. /\ [env.args EXCEPT ![slot.at] = v] \in Seq(ValueOops)
            /\ Len([env.args EXCEPT ![slot.at] = v]) = Len(env.args)
        BY <2>2, <3>1, <3>2, ExceptSeq
      <4>3. inArgs \in EnvRecords /\ inArgs.map = env.map /\ Len(inArgs.args) = Len(env.args)
        BY <2>3, <3>1, <4>2 DEF EnvRecords
      <4> QED
        BY <4>1, <4>3
    <3>3. CASE slot.part = "locals" /\ slot.at \in 1 .. Len(env.locals)
      <4>1. envs' = [envs EXCEPT ![m_env] = inLocals]
        BY <2>1, <2>3, <3>3
      <4>2. /\ [env.locals EXCEPT ![slot.at] = v] \in Seq(ValueOops)
        BY <2>2, <3>1, <3>3, ExceptSeq
      <4>3. inLocals \in EnvRecords /\ inLocals.map = env.map /\ inLocals.args = env.args
        BY <2>3, <3>1, <4>2 DEF EnvRecords
      <4> QED
        BY <4>1, <4>3
    <3> QED
      BY <2>1, <3>2, <3>3, SlotFacts
  <2>5. /\ envs' \in Seq(EnvRecords) /\ Len(envs') = Len(envs)
        /\ \A e \in 1 .. Len(envs) : envs'[e] = IF e = m_env THEN written ELSE envs[e]
    BY <2>3, <2>4, ExceptSeq
  <2>6. /\ ValueOops' = ValueOops /\ Words' = Words
        /\ ClosureRecords' = ClosureRecords /\ EnvRecords' = EnvRecords
    BY <2>1, <2>5 DEF ValueOops, Words, ClosureRecords, EnvRecords
  <2>7. HeapGrows
    <3>1. Len(doubles) \in Nat /\ Len(closures) \in Nat
      BY LengthsAreNat DEF IInv
    <3> QED
      BY <2>1, <2>3, <2>4, <2>5, <2>6, <3>1 DEF HeapGrows, IInv, TypeOK
  <2>8. ArgumentsFit'
    <3>1. DOMAIN envs' = 1 .. Len(envs)
      BY <2>5, LenProperties
    <3> QED
      BY <2>1, <2>3, <2>4, <2>5, <3>1 DEF IInv, ArgumentsFit
  <2>9. OnFloor(m_stack', Words', ValueOops') /\ Len(m_stack') = Len(m_stack)
    BY <2>1, <2>6, StackOnFloor
  <2>10. m_pc' \in Nat /\ m_pc' + 1 \in Successors(Code, Position)
    BY <1>1, <2>1, AdvanceSucceeds DEF kResolvedStore, kReturn, kJump
  <2> QED
    BY <1>1, <2>1, <2>7, <2>8, <2>9, <2>10, PopsAndPushes, OperandsAbove, ToOperandStep
<1> QED
  BY <1>2, <1>3

-----------------------------------------------------------------------------
(***************************************************************************)
(* Calls.                                                                  *)
(***************************************************************************)
CallArgs == [i \in 1 .. Operand |-> m_stack[Len(m_stack) - i]]
Kept     == Len(m_stack) - (Operand + 1)
Saved    == SubSeq(m_stack, 1, Kept) \o SavedWords
Callee   == Last(m_stack)
Called   == closures[Callee.v].func.v

\* The callee and its arguments are operands of the caller.
LEMMA CallOperands ==
  ASSUME IInv, status = "running", Code[Position] = kCall
  PROVE  /\ Operand \in Nat /\ Len(m_stack) \in Nat /\ Floor \in Nat
         /\ Kept \in Nat /\ Floor <= Kept /\ Kept < Len(m_stack)
         /\ Len(m_stack) = Kept + Operand + 1
         /\ Callee \in ValueOops
         /\ CallArgs \in Seq(ValueOops) /\ Len(CallArgs) = Operand
<1>1. /\ Len(m_stack) \in Nat /\ Floor \in Nat
      /\ Len(m_stack) >= Floor + (Operand + 1) /\ Operand + 1 \in Nat
  BY PopsAndPushes, OperandsAbove DEF Operand, Code
<1>2. Operand \in Nat
  <2>1. Position \in 1 .. Len(Code) /\ Code \in Seq(Nat) /\ Len(Code) \in Nat
        /\ SoundAt(Code, Depth, Position)
    BY CodeFacts
  <2>2. Position + 1 \in 1 .. Len(Code)
    BY <2>1 DEF SoundAt, Size, JumpOps, OperandOps, kCall, kJump, kJumpIfFalse
  <2> QED
    BY <2>1, <2>2, ElementOfSeq DEF Operand, Code
<1>3. Kept \in Nat /\ Floor <= Kept /\ Kept < Len(m_stack) /\ Len(m_stack) = Kept + Operand + 1
  BY <1>1, <1>2 DEF Kept
<1>4. Callee \in ValueOops
  <2>1. Len(m_stack) > Floor
    BY <1>1, <1>3
  <2> QED
    BY <2>1, StackOnFloor, PopOnFloor DEF Callee
<1>5. \A i \in 1 .. Operand : m_stack[Len(m_stack) - i] \in ValueOops
  BY <1>1, <1>2, <1>3, StackOnFloor DEF OnFloor
<1>6. CallArgs \in [1 .. Operand -> ValueOops]
  BY <1>5 DEF CallArgs
<1>7. CallArgs \in Seq(ValueOops)
  BY <1>2, <1>6, SeqDef
<1>8. Len(CallArgs) = Operand
  BY <1>2, <1>6, <1>7, LenProperties
<1> QED
  BY <1>1, <1>2, <1>3, <1>4, <1>7, <1>8

\* What kCall pushes, on what it leaves.
LEMMA SavedFacts ==
  ASSUME IInv, status = "running", Code[Position] = kCall
  PROVE  /\ Saved \in Seq(Words) /\ Len(Saved) = Kept + 4
         /\ \A k \in 1 .. Kept : Saved[k] = m_stack[k]
         /\ Saved[Kept + 1] = Smi(m_pc + 2) /\ Saved[Kept + 2] = Smi(m_bp)
         /\ Saved[Kept + 3] = ClosureOop(m_closure) /\ Saved[Kept + 4] = EnvOop(m_env)
<1> DEFINE pushed == <<Smi(m_pc + 2), Smi(m_bp), ClosureOop(m_closure), EnvOop(m_env)>>
           rest   == SubSeq(m_stack, 1, Kept)
<1>1. m_stack \in Seq(Words) /\ Kept \in 0 .. Len(m_stack) /\ Kept \in Nat
  BY CallOperands DEF IInv, TypeOK
<1>2. rest \in Seq(Words) /\ Len(rest) = Kept /\ \A k \in 1 .. Kept : rest[k] = m_stack[k]
  BY <1>1, PrefixFacts
<1>3. /\ Smi(m_pc + 2) \in Words /\ Smi(m_bp) \in Words
      /\ ClosureOop(m_closure) \in Words /\ EnvOop(m_env) \in Words
  BY DEF IInv, TypeOK, Smi, ClosureOop, EnvOop, Words, ValueOops
<1>4. /\ pushed \in Seq(Words) /\ Len(pushed) = 4
      /\ pushed[1] = Smi(m_pc + 2) /\ pushed[2] = Smi(m_bp)
      /\ pushed[3] = ClosureOop(m_closure) /\ pushed[4] = EnvOop(m_env)
  BY <1>3
<1>5. Saved = rest \o pushed
  BY DEF Saved, SavedWords
<1> HIDE DEF pushed, rest
<1>6. /\ Saved \in Seq(Words) /\ Len(Saved) = Kept + 4
      /\ \A k \in 1 .. Kept + 4 : Saved[k] = IF k <= Kept THEN rest[k] ELSE pushed[k - Kept]
  <2>1. /\ rest \o pushed \in Seq(Words)
        /\ Len(rest \o pushed) = Len(rest) + Len(pushed)
        /\ \A k \in 1 .. Len(rest) + Len(pushed) :
             (rest \o pushed)[k] = IF k <= Len(rest) THEN rest[k] ELSE pushed[k - Len(rest)]
    BY <1>2, <1>4, ConcatProperties
  <2> QED
    BY <1>1, <1>2, <1>4, <1>5, <2>1
<1>7. \A j \in 1 .. 4 : Saved[Kept + j] = pushed[j]
  BY <1>1, <1>6
<1> QED
  BY <1>1, <1>2, <1>4, <1>6, <1>7

\* The environment a call makes has a word for every parameter.
LEMMA NewEnvironment ==
  ASSUME Loaded, NEW f \in 1 .. Len(funs), NEW prev \in 0 .. Len(envs), NEW args \in Seq(ValueOops)
  PROVE  /\ MakeEnvironment(f, prev, args) \in EnvRecords
         /\ MakeEnvironment(f, prev, args).map = f
         /\ Len(funs[f].params) <= Len(MakeEnvironment(f, prev, args).args)
<1> DEFINE n    == IF Len(args) < Len(funs[f].params) THEN Len(funs[f].params) ELSE Len(args)
           m    == Capacity(Len(funs[f].locals))
           made == [i \in 1 .. n |-> IF i <= Len(args) THEN args[i] ELSE Garbage]
           raw  == [i \in 1 .. m |-> Garbage]
<1>1. Len(args) \in Nat /\ Len(funs[f].params) \in Nat /\ Len(funs[f].locals) \in Nat
  BY LoadedFunctions, LenProperties
<1>2. n \in Nat /\ Len(funs[f].params) <= n
  BY <1>1
<1>3. m \in Nat
  <2>1. \A k \in Nat : k + (k % 2) \in Nat
    OBVIOUS
  <2> QED
    BY <1>1, <2>1 DEF Capacity
<1>4. Garbage \in ValueOops
  BY DEF Garbage, ValueOops
<1>5. MakeEnvironment(f, prev, args) = [map |-> f, prev |-> prev, args |-> made, locals |-> raw]
  BY DEF MakeEnvironment
<1> HIDE DEF n, m
<1>6. \A i \in 1 .. n : i <= Len(args) => args[i] \in ValueOops
  BY <1>1, <1>2, ElementOfSeq
<1>7. made \in [1 .. n -> ValueOops] /\ raw \in [1 .. m -> ValueOops]
  BY <1>4, <1>6
<1> HIDE DEF made, raw
<1>8. made \in Seq(ValueOops) /\ raw \in Seq(ValueOops) /\ Len(made) = n
  BY <1>2, <1>3, <1>7, SeqDef, LenProperties
<1> QED
  BY <1>2, <1>5, <1>8 DEF EnvRecords

\* A call that goes through, in the terms of the proof.
Entered ==
  /\ Callable(Callee)
  /\ envs' = Append(envs, MakeEnvironment(Called, m_env, CallArgs))
  /\ m_stack' = Saved
  /\ m_pc' = 0
  /\ m_bp' = Len(Saved) - 1
  /\ m_closure' = Callee.v
  /\ m_env' = Len(envs) + 1
  /\ frames' = Append(frames, [pc |-> m_pc + 2, bp |-> m_bp, closure |-> m_closure,
                               env |-> m_env, stack |-> Saved])
  /\ funs' = funs /\ doubles' = doubles /\ closures' = closures /\ status' = status

LEMMA EnteredKeepsIInv ==
  ASSUME IInv, status = "running", Code[Position] = kCall, Entered
  PROVE  IInv'
<1> DEFINE frame == [pc |-> m_pc + 2, bp |-> m_bp, closure |-> m_closure,
                     env |-> m_env, stack |-> Saved]
           made  == MakeEnvironment(Called, m_env, CallArgs)
           L     == Len(frames)
<1>1. /\ Len(m_stack) \in Nat /\ L \in Nat /\ DOMAIN frames = 1 .. L
      /\ Len(envs) \in Nat /\ Len(closures) \in Nat /\ Len(funs) \in Nat
      /\ Len(doubles) \in Nat
  BY LengthsAreNat DEF IInv
<1>2. /\ funs' = funs /\ doubles' = doubles /\ closures' = closures /\ status' = "running"
      /\ m_stack' = Saved /\ m_pc' = 0 /\ m_bp' = Len(Saved) - 1
      /\ m_closure' = Callee.v /\ m_env' = Len(envs) + 1
      /\ envs' = Append(envs, made) /\ frames' = Append(frames, frame)
  BY DEF Entered
<1>3. /\ Callee.v \in 1 .. Len(closures) /\ Called \in 1 .. Len(funs)
      /\ closures[Callee.v].func = FunctionOop(Called)
  <2>1. Callee \in ValueOops /\ Callee.t = "Closure"
    BY CallOperands DEF Entered, Callable
  <2>2. Callee.v \in 1 .. Len(closures)
    BY <2>1 DEF ValueOops
  <2>3. closures[Callee.v] \in ClosureRecords
    BY <2>2, ElementOfSeq DEF IInv, TypeOK
  <2>4. closures[Callee.v].func \in ValueOops /\ closures[Callee.v].func.t = "Function"
    BY <2>3 DEF ClosureRecords, Entered, Callable
  <2> QED
    BY <2>2, <2>4 DEF ValueOops, FunctionOop, Called
<1>4. /\ made \in EnvRecords /\ made.map = Called
      /\ Len(funs[Called].params) <= Len(made.args)
  <2>1. m_env \in 0 .. Len(envs) /\ CallArgs \in Seq(ValueOops)
    BY <1>1, CallOperands DEF IInv, TypeOK
  <2> QED
    BY <1>3, <2>1, NewEnvironment DEF IInv, TypeOK, Loaded
<1> HIDE DEF made
<1>5. /\ envs' \in Seq(EnvRecords) /\ Len(envs') = Len(envs) + 1
      /\ \A e \in 1 .. Len(envs) : envs'[e] = envs[e]
      /\ envs'[Len(envs) + 1] = made
  BY <1>2, <1>4, AppendProperties DEF IInv, TypeOK
<1>6. /\ ValueOops \subseteq ValueOops' /\ Words \subseteq Words'
      /\ ClosureRecords \subseteq ClosureRecords' /\ EnvRecords \subseteq EnvRecords'
      /\ FrameRecords \subseteq FrameRecords'
  <2>1. Len(envs') \in Nat /\ Len(envs) <= Len(envs')
    BY <1>1, <1>5
  <2> QED
    BY <1>1, <1>2, <2>1, WordsGrow DEF IInv
<1>7. /\ Floor \in Nat /\ Kept \in Nat /\ Floor <= Kept /\ Kept < Len(m_stack)
      /\ Len(m_stack) = Kept + Operand + 1 /\ Operand \in Nat
      /\ Saved \in Seq(Words) /\ Len(Saved) = Kept + 4
      /\ \A k \in 1 .. Kept : Saved[k] = m_stack[k]
  BY CallOperands, SavedFacts
<1>8. frame \in FrameRecords
  BY <1>7 DEF FrameRecords, IInv, TypeOK
<1>9. /\ frames' \in Seq(FrameRecords) /\ Len(frames') = L + 1
      /\ \A i \in 1 .. L : frames'[i] = frames[i]
      /\ frames'[L + 1] = frame
  <2>1. frames \in Seq(FrameRecords)
    BY DEF IInv, TypeOK
  <2> HIDE DEF frame
  <2> QED
    BY <1>2, <1>8, <2>1, AppendProperties
<1>10. /\ DOMAIN frames' = 1 .. L + 1
       /\ frame.pc = m_pc + 2 /\ frame.bp = m_bp /\ frame.closure = m_closure
       /\ frame.env = m_env /\ frame.stack = Saved
  BY <1>9, LenProperties
<1> HIDE DEF frame
<1>11. /\ \A i \in 1 .. L : frames[i] \in FrameRecords
       /\ \A i \in 1 .. L : Len(frames[i].stack) \in 4 .. Floor
  BY FloorFacts, ElementOfSeq DEF IInv, TypeOK
<1>12. TypeOK'
  <2>1. \E p \in Programs : funs' = p.funs /\ Len(p.doubles) <= Len(doubles')
    BY <1>2 DEF IInv, TypeOK
  <2>2. closures' \in Seq(ClosureRecords') /\ envs' \in Seq(EnvRecords')
        /\ m_stack' \in Seq(Words') /\ frames' \in Seq(FrameRecords')
    BY <1>2, <1>5, <1>6, <1>7, <1>9, SeqMonotonic DEF IInv, TypeOK
  <2>3. m_env' \in 1 .. Len(envs') /\ m_closure' \in 1 .. Len(closures')
    BY <1>1, <1>2, <1>3, <1>5
  <2>4. m_pc' \in Nat /\ m_bp' \in Nat /\ status' \in Statuses /\ doubles' \in Seq(BOOLEAN)
    <3>1. Len(Saved) - 1 \in Nat
      BY <1>7
    <3> QED
      BY <1>2, <3>1 DEF IInv, TypeOK, Statuses
  <2> QED
    BY <2>1, <2>2, <2>3, <2>4 DEF TypeOK
<1>13. FramesIntact'
  <2>1. ASSUME NEW i \in 1 .. L
        PROVE  IntactAt(frames[i])'
    <3>1. IntactAt(frames[i]) /\ Len(frames[i].stack) \in 4 .. Floor
      BY <1>1, <1>11 DEF IInv, FramesIntact
    <3>2. frames'[i] = frames[i]
      BY <1>9
    <3>3. \A k \in 1 .. Len(frames[i].stack) : Saved[k] = m_stack[k]
      BY <1>7, <3>1
    <3>4. Len(frames[i].stack) <= Len(m_stack')
      BY <1>2, <1>7, <3>1
    <3>5. \A k \in 1 .. Len(frames[i].stack) : m_stack'[k] = m_stack[k]
      BY <1>2, <3>3
    <3> QED
      BY <3>1, <3>2, <3>4, <3>5, IntactSurvives
  <2>2. /\ 4 <= Len(Saved) /\ Saved[Len(Saved) - 3] = Smi(frame.pc)
        /\ Saved[Len(Saved) - 2] = Smi(frame.bp)
        /\ Saved[Len(Saved) - 1] = ClosureOop(frame.closure)
        /\ Saved[Len(Saved)] = EnvOop(frame.env)
    <3>1. /\ Len(Saved) - 3 = Kept + 1 /\ Len(Saved) - 2 = Kept + 2
          /\ Len(Saved) - 1 = Kept + 3 /\ Len(Saved) = Kept + 4
      BY <1>7
    <3> QED
      BY <1>7, <1>10, <3>1, SavedFacts
  <2>3. ASSUME NEW i, i = L + 1
        PROVE  IntactAt(frames[i])'
    <3>1. frames'[i] = frame
      BY <1>9, <2>3
    <3>2. frame.stack = Saved /\ m_stack' = Saved
      BY <1>2, <1>10
    <3>3. Len(Saved) \in Nat
      BY <1>7
    <3> HIDE DEF frame, Saved
    <3> QED
      BY <2>2, <3>1, <3>2, <3>3 DEF IntactAt
  <2>4. \A i \in DOMAIN frames' : IntactAt(frames[i])'
    <3>1. \A i \in 1 .. L + 1 : i \in 1 .. L \/ i = L + 1
      BY <1>1
    <3>2. ASSUME NEW i \in DOMAIN frames' PROVE IntactAt(frames[i])'
      <4>1. CASE i \in 1 .. L
        BY <2>1, <4>1
      <4>2. CASE i = L + 1
        BY <2>3, <4>2
      <4> QED
        BY <1>10, <3>1, <4>1, <4>2
    <3> QED
      BY <3>2
  <2>5. ASSUME NEW i \in DOMAIN frames', NEW j \in DOMAIN frames', i < j
        PROVE  Len(frames'[i].stack) + 4 <= Len(frames'[j].stack)
    <3>1. i \in 1 .. L /\ j \in 1 .. L + 1
      BY <1>1, <1>10, <2>5
    <3>2. CASE j \in 1 .. L
      BY <1>1, <1>9, <2>5, <3>1, <3>2 DEF IInv, FramesIntact
    <3>3. CASE j = L + 1
      BY <1>7, <1>9, <1>10, <1>11, <3>1, <3>3
    <3> QED
      BY <1>1, <3>1, <3>2, <3>3
  <2> QED
    BY <2>4, <2>5 DEF FramesIntact
<1>14. BasePointersChain'
  <2>1. m_bp' = BaseAbove(Len(frames))'
    <3>1. L + 1 # 0 /\ frames'[L + 1].stack = Saved
      BY <1>1, <1>9, <1>10
    <3> QED
      BY <1>2, <1>9, <3>1 DEF BaseAbove
  <2>2. ASSUME NEW i \in DOMAIN frames'
        PROVE  frames'[i].bp = BaseAbove(i - 1)'
    <3>1. i \in 1 .. L + 1 /\ i - 1 \in 0 .. L
      BY <1>1, <1>10
    <3>2. BaseAbove(i - 1)' = BaseAbove(i - 1)
      BY <1>1, <1>9, <3>1 DEF BaseAbove
    <3>3. CASE i \in 1 .. L
      BY <1>1, <1>9, <3>2, <3>3 DEF IInv, BasePointersChain
    <3>4. CASE i = L + 1
      BY <1>1, <1>9, <1>10, <3>2, <3>4 DEF IInv, BasePointersChain
    <3> QED
      BY <1>1, <3>1, <3>3, <3>4
  <2> QED
    BY <2>1, <2>2 DEF BasePointersChain
<1>15. ASSUME NEW c \in 1 .. Len(closures), NEW pc, NEW depth
       PROVE  /\ BalancedAt(c, pc, depth) <=> BalancedAt(c, pc, depth)'
              /\ CodeOf(c)' = CodeOf(c)
  BY <1>2 DEF BalancedAt, CodeOf
<1>16. OperandsBalanced'
  <2>1. BalancedAt(m_closure, m_pc, Len(m_stack) - FloorAt(m_bp))'
    <3>1. funs'[closures'[Callee.v].func.v].code = funs[Called].code
      BY <1>2 DEF Called
    <3>2. SoundDepth(funs[Called].code, DepthOf(funs[Called].code))
      BY <1>3, FunctionFacts DEF IInv, Sound
    <3>3. Len(funs[Called].code) \in Nat
      BY <1>3, FunctionFacts, LenProperties DEF IInv
    <3>4. Len(Saved) - FloorAt(Len(Saved) - 1) = 0
      BY <1>7 DEF FloorAt
    <3>5. (Len(m_stack) - FloorAt(m_bp))' = 0
      BY <1>2, <3>4 DEF FloorAt
    <3>6. m_pc' + 1 = 1
      BY <1>2
    <3>7. 1 \in 1 .. Len(funs[Called].code) /\ DepthOf(funs[Called].code)[1] = 0
      BY <3>2, <3>3 DEF SoundDepth
    <3>8. CodeOf(m_closure)' = funs[Called].code
      BY <1>2, <3>1 DEF CodeOf
    <3> QED
      BY <3>5, <3>6, <3>7, <3>8 DEF BalancedAt
  <2>2. ASSUME NEW i \in 1 .. L
        PROVE  LET f == frames[i]
               IN  BalancedAt(f.closure, f.pc, (Len(f.stack) - 4 - FloorAt(f.bp)) + 1)'
    <3>1. frames'[i] = frames[i] /\ frames[i].closure \in 1 .. Len(closures)
      BY <1>9, <1>11 DEF FrameRecords
    <3>2. LET f == frames[i]
          IN  BalancedAt(f.closure, f.pc, (Len(f.stack) - 4 - FloorAt(f.bp)) + 1)
      BY <1>1 DEF IInv, OperandsBalanced
    <3> QED
      BY <1>2, <3>1, <3>2 DEF BalancedAt, CodeOf, FloorAt
  <2>3. BalancedAt(m_closure, m_pc + 2, (Len(Saved) - 4 - FloorAt(m_bp)) + 1)
    <3>1. /\ Position \in 1 .. Len(Code) /\ Len(Code) \in Nat
          /\ Depth[Position] = Len(m_stack) - Floor
          /\ SoundAt(Code, Depth, Position) /\ Position = m_pc + 1
      BY CodeFacts DEF Position
    <3>2. Position + 2 \in Successors(Code, Position)
      BY DEF Successors, Size, JumpOps, OperandOps, kCall, kJump, kJumpIfFalse, kReturn
    <3>3. /\ Position + 2 \in 1 .. Len(Code)
          /\ Depth[Position + 2] = DepthAfter(Code, Position, Depth[Position])
      BY <3>1, <3>2 DEF SoundAt
    <3>4. DepthAfter(Code, Position, Depth[Position]) = (Len(m_stack) - Floor) - (Operand + 1) + 1
      BY <3>1, PopsAndPushes DEF DepthAfter, Operand, Code
    <3>5. Depth[Position + 2] = (Len(Saved) - 4 - Floor) + 1
      BY <1>7, <3>3, <3>4
    <3>6. m_pc \in Nat /\ (m_pc + 2) + 1 = Position + 2
      BY <3>1 DEF IInv, TypeOK
    <3>7. CodeOf(m_closure) = Code /\ Depth = DepthOf(Code)
      BY DEF CodeOf, Code, Fun, Depth
    <3> QED
      BY <3>3, <3>5, <3>6, <3>7 DEF BalancedAt, Floor
  <2>4. ASSUME NEW i \in DOMAIN frames'
        PROVE  LET f == frames[i]
               IN  BalancedAt(f.closure, f.pc, (Len(f.stack) - 4 - FloorAt(f.bp)) + 1)'
    <3>1. i \in 1 .. L \/ i = L + 1
      BY <1>1, <1>10
    <3>2. CASE i \in 1 .. L
      BY <2>2, <3>2
    <3>3. CASE i = L + 1
      <4>1. frames'[i] = frame
        BY <1>9, <3>3
      <4> QED
        BY <1>2, <1>10, <2>3, <4>1 DEF BalancedAt, CodeOf, FloorAt
    <3> QED
      BY <3>1, <3>2, <3>3
  <2> QED
    BY <2>1, <2>4 DEF OperandsBalanced
<1>17. OperandsAreValues'
  <2>1. ValuesBetween(m_stack, FloorAt(m_bp), Len(m_stack))'
    <3>1. FloorAt(Len(Saved) - 1) = Len(Saved) /\ Len(Saved) \in Nat
      BY <1>7 DEF FloorAt
    <3> QED
      BY <1>2, <3>1 DEF ValuesBetween, FloorAt
  <2>2. ASSUME NEW i \in DOMAIN frames'
        PROVE  ValuesBetween(frames[i].stack, FloorAt(frames[i].bp), Len(frames[i].stack) - 4)'
    <3>1. i \in 1 .. L \/ i = L + 1
      BY <1>1, <1>10
    <3>2. CASE i \in 1 .. L
      BY <1>1, <1>6, <1>9, <3>2 DEF IInv, OperandsAreValues, ValuesBetween, FloorAt
    <3>3. CASE i = L + 1
      <4>1. ValuesBetween(m_stack, Floor, Len(m_stack))
        BY DEF IInv, OperandsAreValues, Floor
      <4>2. \A k \in Floor + 1 .. Len(Saved) - 4 : Saved[k] \in ValueOops
        BY <1>7, <4>1 DEF ValuesBetween
      <4>3. frames'[i].stack = Saved /\ FloorAt(frames'[i].bp) = Floor
        BY <1>9, <1>10, <3>3 DEF Floor
      <4> QED
        BY <1>6, <4>2, <4>3 DEF ValuesBetween, FloorAt
    <3> QED
      BY <3>1, <3>2, <3>3
  <2> QED
    BY <2>1, <2>2 DEF OperandsAreValues
<1>18. ScopeMatchesCode'
  <2>1. ASSUME NEW c \in 1 .. Len(closures), NEW e \in 1 .. Len(envs), ScopeMatchesAt(c, e)
        PROVE  ScopeMatchesAt(c, e)'
    BY <1>2, <1>5, <2>1 DEF ScopeMatchesAt, FunctionOop
  <2>2. ScopeMatchesAt(m_closure, m_env)'
    BY <1>2, <1>3, <1>4, <1>5 DEF ScopeMatchesAt, FunctionOop
  <2>3. ASSUME NEW i \in DOMAIN frames'
        PROVE  ScopeMatchesAt(frames[i].closure, frames[i].env)'
    <3>1. i \in 1 .. L \/ i = L + 1
      BY <1>1, <1>10
    <3>2. CASE i \in 1 .. L
      <4>1. frames[i].closure \in 1 .. Len(closures) /\ frames[i].env \in 1 .. Len(envs)
        BY <1>11, <3>2 DEF FrameRecords
      <4>2. ScopeMatchesAt(frames[i].closure, frames[i].env)
        BY <1>1, <3>2 DEF IInv, ScopeMatchesCode
      <4>3. envs'[frames[i].env] = envs[frames[i].env]
        BY <1>5, <4>1
      <4> QED
        BY <1>2, <1>9, <3>2, <4>2, <4>3 DEF ScopeMatchesAt, FunctionOop
    <3>3. CASE i = L + 1
      <4>1. m_env \in 1 .. Len(envs) /\ ScopeMatchesAt(m_closure, m_env)
        BY DEF IInv, TypeOK, ScopeMatchesCode
      <4>2. envs'[m_env] = envs[m_env]
        BY <1>5, <4>1
      <4> QED
        BY <1>2, <1>9, <1>10, <3>3, <4>1, <4>2 DEF ScopeMatchesAt, FunctionOop
    <3> QED
      BY <3>1, <3>2, <3>3
  <2> QED
    BY <2>2, <2>3 DEF ScopeMatchesCode
<1>19. ArgumentsFit'
  <2>1. DOMAIN envs' = 1 .. Len(envs) + 1 /\ DOMAIN envs = 1 .. Len(envs)
    BY <1>5, LenProperties, LengthsAreNat DEF IInv
  <2>2. ASSUME NEW e \in DOMAIN envs'
        PROVE  Len(funs'[envs'[e].map].params) <= Len(envs'[e].args)
    <3>1. e \in 1 .. Len(envs) \/ e = Len(envs) + 1
      BY <1>1, <2>1
    <3>2. CASE e \in 1 .. Len(envs)
      BY <1>2, <1>5, <2>1, <3>2 DEF IInv, ArgumentsFit
    <3>3. CASE e = Len(envs) + 1
      BY <1>2, <1>4, <1>5, <3>3
    <3> QED
      BY <3>1, <3>2, <3>3
  <2> QED
    BY <2>2 DEF ArgumentsFit
<1> QED
  BY <1>12, <1>13, <1>14, <1>16, <1>17, <1>18, <1>19 DEF IInv

LEMMA CallKeepsIInv == ASSUME IInv, Call PROVE IInv'
<1>1. status = "running" /\ Code[Position] = kCall
  BY DEF Call, Running, Code
<1>2. CASE Stop("undefined") \/ Stop("out of memory")
  BY <1>2, StopKeepsIInv DEF Statuses
<1>3. CASE ~ (Stop("undefined") \/ Stop("out of memory"))
  <2>1. Entered
    BY <1>3 DEF Call, OutOfMemory, BasePointer, Entered, Callee, Called, CallArgs, Saved, Kept
  <2> QED
    BY <1>1, <2>1, EnteredKeepsIInv
<1> QED
  BY <1>2, <1>3

-----------------------------------------------------------------------------
(***************************************************************************)
(* Returns.  The depth at a kReturn is one, so under the returned value is *)
(* exactly what the topmost suspended frame left.                          *)
(***************************************************************************)
LEMMA ReturnOperand ==
  ASSUME IInv, status = "running", Code[Position] = kReturn
  PROVE  /\ Floor \in Nat /\ Len(m_stack) = Floor + 1
         /\ Last(m_stack) \in ValueOops
         /\ Front(m_stack) \in Seq(Words) /\ Len(Front(m_stack)) = Floor
         /\ \A k \in 1 .. Floor : Front(m_stack)[k] = m_stack[k]
<1>1. Len(m_stack) \in Nat /\ Floor \in 0 .. Len(m_stack)
  BY LengthsAreNat, FloorFacts DEF IInv
<1>2. Depth[Position] = 1 /\ Depth[Position] = Len(m_stack) - Floor
  BY CodeFacts DEF SoundAt
<1>3. Len(m_stack) = Floor + 1
  BY <1>1, <1>2
<1>4. Len(m_stack) > Floor
  BY <1>1, <1>3
<1>5. /\ OnFloor(Front(m_stack), Words, ValueOops)
      /\ Len(Front(m_stack)) = Len(m_stack) - 1 /\ Last(m_stack) \in ValueOops
  BY <1>4, StackOnFloor, PopOnFloor
<1> QED
  BY <1>1, <1>3, <1>5 DEF OnFloor

\* The end of the script.
LEMMA FinishKeepsIInv ==
  ASSUME IInv, Return, Front(m_stack) = <<>>
  PROVE  IInv'
<1>1. status = "running" /\ Code[Position] = kReturn
  BY DEF Return, Running, Code
<1>2. /\ funs' = funs /\ doubles' = doubles /\ closures' = closures /\ envs' = envs
      /\ m_env' = m_env /\ m_closure' = m_closure /\ m_bp' = m_bp
      /\ m_stack' = <<>> /\ frames' = frames
      /\ status' \in {"undefined", "finished"} /\ Advance
  BY DEF Return, heap, registers
<1>3. Floor = 0
  BY <1>1, ReturnOperand
<1>4. frames = <<>>
  <2>1. Len(frames) = 0
    <3>1. \A i \in 1 .. Len(frames) : Len(frames[i].stack) \in 4 .. 0
      BY <1>3, FloorFacts DEF IInv
    <3>2. Len(frames) \in Nat
      BY LengthsAreNat DEF IInv
    <3>3. 1 \notin 1 .. Len(frames)
      BY <3>1
    <3> QED
      BY <3>2, <3>3
  <2> QED
    BY <2>1, EmptySeq, Zenon DEF IInv, TypeOK
<1>5. TypeOK'
  <2>1. m_pc' \in Nat
    <3>1. Size(Fun.code[Position]) \in Nat /\ m_pc \in Nat
      BY DEF Size, IInv, TypeOK
    <3>2. m_pc + Size(Fun.code[Position]) \in Nat
      BY <3>1
    <3> QED
      BY <1>2, <3>2 DEF Advance
  <2>2. m_stack' \in Seq(Words')
    BY <1>2
  <2> QED
    BY <1>2, <2>1, <2>2
    DEF IInv, TypeOK, Words, ValueOops, ClosureRecords, EnvRecords, FrameRecords, Statuses
<1>6. FramesIntact' /\ BasePointersChain' /\ OperandsBalanced'
  BY <1>2, <1>4 DEF IInv, FramesIntact, BasePointersChain, BaseAbove, OperandsBalanced
<1>7. OperandsAreValues'
  <2>1. FloorAt(m_bp)' = 0 /\ Len(m_stack') = 0
    BY <1>2, <1>3 DEF Floor, FloorAt
  <2> QED
    BY <1>2, <1>4, <2>1 DEF OperandsAreValues, ValuesBetween
<1>8. ScopeMatchesCode' /\ ArgumentsFit'
  BY <1>2 DEF IInv, ScopeMatchesCode, ScopeMatchesAt, FunctionOop, ArgumentsFit
<1> QED
  BY <1>5, <1>6, <1>7, <1>8 DEF IInv

\* The words under the returned value are the topmost frame's registers.
LEMMA ReturnRegisters ==
  ASSUME IInv, status = "running", Code[Position] = kReturn, Front(m_stack) # <<>>
  PROVE  LET L    == Len(frames)
             top  == frames[L]
             rest == Front(m_stack)
             n    == Len(rest)
         IN  /\ L \in 1 .. Len(frames) /\ frames # <<>> /\ top \in FrameRecords
             /\ n = Len(top.stack) /\ n \in Nat /\ n >= 4 /\ n = Floor
             /\ \A k \in 1 .. n : rest[k] = top.stack[k]
             /\ SavedRegisters(rest)
             /\ rest[n].v = top.env /\ rest[n - 1].v = top.closure
             /\ rest[n - 2].v = top.bp /\ rest[n - 3].v = top.pc
<1> DEFINE L    == Len(frames)
           top  == frames[L]
           rest == Front(m_stack)
           n    == Len(rest)
<1>1. /\ n = Floor /\ Floor \in Nat /\ rest \in Seq(Words)
      /\ Floor + 1 = Len(m_stack) /\ \A k \in 1 .. Floor : rest[k] = m_stack[k]
  BY ReturnOperand
<1>2. n # 0
  BY <1>1, EmptySeq
<1>3. frames # <<>>
  BY <1>1, <1>2, FloorFacts DEF IInv
<1>4. L \in 1 .. Len(frames) /\ Floor = Len(top.stack)
  BY <1>3, FloorFacts DEF IInv
<1>5. top \in FrameRecords /\ IntactAt(top)
  BY <1>4, LengthsAreNat, ElementOfSeq DEF IInv, TypeOK, FramesIntact
<1>6. top.pc \in Nat /\ top.bp \in Nat
  BY <1>5 DEF FrameRecords
<1>7. n >= 4 /\ \A k \in 1 .. n : rest[k] = top.stack[k]
  BY <1>1, <1>4, <1>5 DEF IntactAt
<1>8. /\ rest[n] = EnvOop(top.env) /\ rest[n - 1] = ClosureOop(top.closure)
      /\ rest[n - 2] = Smi(top.bp) /\ rest[n - 3] = Smi(top.pc)
  <2>1. {n, n - 1, n - 2, n - 3} \subseteq 1 .. n
    BY <1>1, <1>7
  <2> QED
    BY <1>1, <1>4, <1>5, <1>7, <2>1 DEF IntactAt
<1>9. SavedRegisters(rest)
  BY <1>6, <1>7, <1>8 DEF SavedRegisters, EnvOop, ClosureOop, Smi
<1> QED
  BY <1>1, <1>3, <1>4, <1>5, <1>7, <1>8, <1>9 DEF EnvOop, ClosureOop, Smi

\* Coming back to the topmost suspended frame.
LEMMA ResumeKeepsIInv ==
  ASSUME IInv, Return, Front(m_stack) # <<>>
  PROVE  IInv'
<1> DEFINE L    == Len(frames)
           top  == frames[L]
           rest == Front(m_stack)
           val  == Last(m_stack)
           n    == Len(rest)
           kept == SubSeq(rest, 1, n - 4)
<1>1. status = "running" /\ Code[Position] = kReturn
  BY DEF Return, Running, Code
<1>2. /\ L \in 1 .. Len(frames) /\ frames # <<>> /\ top \in FrameRecords
      /\ n = Len(top.stack) /\ n \in Nat /\ n >= 4 /\ n = Floor
      /\ \A k \in 1 .. n : rest[k] = top.stack[k]
      /\ SavedRegisters(rest)
      /\ rest[n].v = top.env /\ rest[n - 1].v = top.closure
      /\ rest[n - 2].v = top.bp /\ rest[n - 3].v = top.pc
  BY <1>1, ReturnRegisters
<1>3. /\ m_env' = top.env /\ m_closure' = top.closure /\ m_bp' = top.bp /\ m_pc' = top.pc
      /\ m_stack' = Append(kept, val) /\ frames' = Front(frames)
      /\ funs' = funs /\ doubles' = doubles /\ closures' = closures /\ envs' = envs
      /\ status' = status
  BY <1>2 DEF Return, Registers, BelowRegisters, heap
<1>4. /\ val \in ValueOops /\ rest \in Seq(Words)
      /\ \A k \in 1 .. n : rest[k] = m_stack[k]
  BY <1>1, <1>2, ReturnOperand
<1> HIDE DEF top, rest, val, n
<1>5. /\ kept \in Seq(Words) /\ Len(kept) = n - 4
      /\ \A k \in 1 .. n - 4 : kept[k] = rest[k]
  <2>1. n - 4 \in 0 .. n
    BY <1>2
  <2> QED
    BY <1>4, <2>1, PrefixFacts DEF n
<1> HIDE DEF kept
<1>6. /\ m_stack' \in Seq(Words) /\ Len(m_stack') = n - 3
      /\ \A k \in 1 .. n - 4 : m_stack'[k] = top.stack[k]
      /\ m_stack'[n - 3] = val
  <2>1. val \in Words
    BY <1>4 DEF Words
  <2>2. /\ m_stack' \in Seq(Words) /\ Len(m_stack') = Len(kept) + 1
        /\ \A k \in 1 .. Len(kept) : m_stack'[k] = kept[k]
        /\ m_stack'[Len(kept) + 1] = val
    BY <1>3, <1>5, <2>1, AppendProperties
  <2>3. Len(kept) = n - 4 /\ Len(kept) + 1 = n - 3
    BY <1>2, <1>5
  <2>4. \A k \in 1 .. n - 4 : kept[k] = top.stack[k]
    BY <1>2, <1>5
  <2> QED
    BY <2>2, <2>3, <2>4
<1>7. /\ L \in Nat \ {0} /\ Len(frames') = L - 1 /\ frames' \in Seq(FrameRecords)
      /\ \A i \in 1 .. L - 1 : frames'[i] = frames[i]
  <2>1. frames \in Seq(FrameRecords) /\ frames # <<>>
    BY <1>2 DEF IInv, TypeOK
  <2>2. L \in Nat \ {0}
    BY <1>2
  <2>3. frames' = Front(frames)
    BY <1>3
  <2> QED
    BY <2>1, <2>2, <2>3, FrontLast
<1>8. DOMAIN frames' = 1 .. L - 1 /\ DOMAIN frames = 1 .. L
  <2>1. DOMAIN frames' = 1 .. Len(frames')
    <3>1. frames' \in Seq(FrameRecords)
      BY <1>7
    <3> QED
      BY <3>1, LenProperties
  <2>2. frames \in Seq(FrameRecords)
    BY DEF IInv, TypeOK
  <2>3. DOMAIN frames = 1 .. L
    BY <2>2, LenProperties
  <2> QED
    BY <1>7, <2>1, <2>3
<1>9. \A i \in 1 .. L : frames[i] \in FrameRecords /\ Len(frames[i].stack) \in Nat
  <2>1. \A i \in 1 .. L : frames[i] \in FrameRecords
    BY ElementOfSeq DEF IInv, TypeOK
  <2> QED
    BY <2>1, LenProperties DEF FrameRecords
<1>10. \A i \in 1 .. L - 1 : Len(frames[i].stack) <= n - 4 /\ Len(frames[i].stack) \in 4 .. n
  <2>1. \A i \in 1 .. L - 1 : Len(frames[i].stack) + 4 <= Len(frames[L].stack)
    BY <1>7, <1>8 DEF IInv, FramesIntact
  <2>2. \A i \in 1 .. L : Len(frames[i].stack) \in 4 .. n
    BY <1>2, FloorFacts DEF IInv
  <2> QED
    BY <1>2, <1>7, <1>9, <2>1, <2>2 DEF top
<1>11. TypeOK'
  <2>1. /\ ValueOops' = ValueOops /\ Words' = Words /\ FrameRecords' = FrameRecords
        /\ ClosureRecords' = ClosureRecords /\ EnvRecords' = EnvRecords
    BY <1>3 DEF ValueOops, Words, FrameRecords, ClosureRecords, EnvRecords
  <2>2. /\ top.env \in 1 .. Len(envs) /\ top.closure \in 1 .. Len(closures)
        /\ top.bp \in Nat /\ top.pc \in Nat
    BY <1>2 DEF FrameRecords
  <2> QED
    BY <1>3, <1>6, <1>7, <2>1, <2>2 DEF IInv, TypeOK
<1>12. FramesIntact'
  <2>1. ASSUME NEW i \in 1 .. L - 1
        PROVE  IntactAt(frames[i])'
    <3> i \in DOMAIN frames
      BY <1>7, <1>8
    <3>1. IntactAt(frames[i]) /\ frames'[i] = frames[i]
      BY <1>7 DEF IInv, FramesIntact
    <3>2. Len(frames[i].stack) <= n - 4 /\ Len(frames[i].stack) \in 4 .. n
      BY <1>10
    <3>3. \A k \in 1 .. Len(frames[i].stack) : m_stack'[k] = m_stack[k]
      <4>1. \A k \in 1 .. Len(frames[i].stack) : k \in 1 .. n - 4 /\ k \in 1 .. n
        BY <1>2, <3>2
      <4> QED
        BY <1>2, <1>4, <1>6, <4>1
    <3>4. Len(frames[i].stack) <= Len(m_stack')
      BY <1>2, <1>6, <3>2
    <3> QED
      BY <3>1, <3>3, <3>4, IntactSurvives
  <2>2. \A i, j \in 1 .. L : i < j => Len(frames[i].stack) + 4 <= Len(frames[j].stack)
    BY <1>8 DEF IInv, FramesIntact
  <2>3. \A i, j \in 1 .. L - 1 : i < j => Len(frames'[i].stack) + 4 <= Len(frames'[j].stack)
    <3> \A i \in 1 .. L - 1 : i \in 1 .. L
      BY <1>7
    <3> QED
      BY <1>7, <2>2
  <2> QED
    BY <1>8, <2>1, <2>3 DEF FramesIntact
<1>13. top.bp = BaseAbove(L - 1)
  BY <1>2, <1>8 DEF IInv, BasePointersChain, top
<1>14. BasePointersChain'
  <2>1. ASSUME NEW i \in 0 .. L - 1
        PROVE  BaseAbove(i)' = BaseAbove(i)
    BY <1>7, <2>1 DEF BaseAbove
  <2>2. m_bp' = BaseAbove(Len(frames))'
    <3>1. L - 1 \in 0 .. L - 1
      BY <1>7
    <3> QED
      BY <1>3, <1>7, <1>13, <2>1, <3>1 DEF BaseAbove
  <2>3. ASSUME NEW i \in 1 .. L - 1
        PROVE  frames'[i].bp = BaseAbove(i - 1)'
    <3>1. i - 1 \in 0 .. L - 1 /\ i \in 1 .. L
      BY <1>7
    <3>2. BaseAbove(i - 1)' = BaseAbove(i - 1)
      BY <2>1, <3>1
    <3> QED
      BY <1>7, <1>8, <3>1, <3>2 DEF IInv, BasePointersChain
  <2> QED
    BY <1>8, <2>2, <2>3 DEF BasePointersChain
<1>15. FloorAt(top.bp) \in 0 .. n - 4
  <2>1. CASE L = 1
    <3>1. top.bp = 0
      BY <1>13, <2>1 DEF BaseAbove
    <3> QED
      BY <1>2, <3>1 DEF FloorAt
  <2>2. CASE L # 1
    <3>1. L - 1 \in 1 .. L - 1
      BY <1>7, <2>2
    <3>2. top.bp = Len(frames[L - 1].stack) - 1
      BY <1>7, <1>13, <2>2 DEF BaseAbove
    <3> QED
      BY <1>2, <1>10, <3>1, <3>2 DEF FloorAt
  <2> QED
    BY <2>1, <2>2
<1>16. OperandsBalanced'
  <2>1. BalancedAt(top.closure, top.pc, (Len(top.stack) - 4 - FloorAt(top.bp)) + 1)
    BY <1>1, <1>2, <1>8 DEF IInv, OperandsBalanced, top
  <2>2. Len(m_stack') - FloorAt(top.bp) = (Len(top.stack) - 4 - FloorAt(top.bp)) + 1
    BY <1>2, <1>6, <1>15
  <2>3. BalancedAt(m_closure, m_pc, Len(m_stack) - FloorAt(m_bp))'
    BY <1>3, <2>1, <2>2 DEF BalancedAt, CodeOf, FloorAt
  <2>4. ASSUME NEW i \in DOMAIN frames'
        PROVE  LET f == frames[i]
               IN  BalancedAt(f.closure, f.pc, (Len(f.stack) - 4 - FloorAt(f.bp)) + 1)'
    <3>1. i \in DOMAIN frames /\ frames'[i] = frames[i]
      BY <1>7, <1>8
    <3> QED
      BY <1>1, <1>3, <3>1 DEF IInv, OperandsBalanced, BalancedAt, CodeOf, FloorAt
  <2> QED
    BY <2>3, <2>4 DEF OperandsBalanced
<1>17. OperandsAreValues'
  <2>1. ValueOops' = ValueOops
    BY <1>3 DEF ValueOops
  <2>2. \A k \in FloorAt(top.bp) + 1 .. n - 4 : top.stack[k] \in ValueOops
    BY <1>2, <1>8 DEF IInv, OperandsAreValues, ValuesBetween, top
  <2>3. ASSUME NEW k \in FloorAt(top.bp) + 1 .. n - 3
        PROVE  m_stack'[k] \in ValueOops
    <3>1. k \in 1 .. n - 4 \/ k = n - 3
      BY <1>2, <1>15
    <3> QED
      BY <1>2, <1>4, <1>6, <1>15, <2>2, <3>1
  <2>4. ValuesBetween(m_stack, FloorAt(m_bp), Len(m_stack))'
    BY <1>3, <1>6, <2>1, <2>3 DEF ValuesBetween, FloorAt
  <2>5. ASSUME NEW i \in DOMAIN frames'
        PROVE  ValuesBetween(frames[i].stack, FloorAt(frames[i].bp), Len(frames[i].stack) - 4)'
    <3>1. i \in DOMAIN frames /\ frames'[i] = frames[i]
      BY <1>7, <1>8
    <3> QED
      BY <2>1, <3>1 DEF IInv, OperandsAreValues, ValuesBetween, FloorAt
  <2> QED
    BY <2>4, <2>5 DEF OperandsAreValues
<1>18. ScopeMatchesCode'
  <2>1. ScopeMatchesAt(top.closure, top.env)
    BY <1>2, <1>8 DEF IInv, ScopeMatchesCode, top
  <2>2. ScopeMatchesAt(m_closure, m_env)'
    BY <1>3, <2>1 DEF ScopeMatchesAt, FunctionOop
  <2>3. ASSUME NEW i \in DOMAIN frames'
        PROVE  ScopeMatchesAt(frames[i].closure, frames[i].env)'
    <3>1. i \in DOMAIN frames /\ frames'[i] = frames[i]
      BY <1>7, <1>8
    <3> QED
      BY <1>3, <3>1 DEF IInv, ScopeMatchesCode, ScopeMatchesAt, FunctionOop
  <2> QED
    BY <2>2, <2>3 DEF ScopeMatchesCode
<1>19. ArgumentsFit'
  BY <1>3 DEF IInv, ArgumentsFit
<1> QED
  BY <1>11, <1>12, <1>14, <1>16, <1>17, <1>18, <1>19 DEF IInv

LEMMA ReturnKeepsIInv == ASSUME IInv, Return PROVE IInv'
BY FinishKeepsIInv, ResumeKeepsIInv

-----------------------------------------------------------------------------
(***************************************************************************)
(* The invariants.                                                         *)
(***************************************************************************)
LEMMA InitIInv == Init => IInv
<1> SUFFICES ASSUME Init PROVE IInv
  OBVIOUS
<1> DEFINE made   == MakeEnvironment(Len(funs), 0, <<>>)
           script == [func |-> FunctionOop(Len(funs)), baseEnv |-> 0]
<1>1. PICK p \in Programs : funs = p.funs /\ doubles = p.doubles
  BY DEF Init
<1>2. /\ closures = <<script>> /\ envs = <<made>> /\ m_stack = <<>> /\ frames = <<>>
      /\ m_env = 1 /\ m_closure = 1 /\ m_pc = 0 /\ m_bp = 0 /\ status = "running"
  BY DEF Init
<1>3. Loaded
  <2>1. p.doubles \in Seq(BOOLEAN)
    BY ProgramsAssumption DEF SoundProgram
  <2>2. Len(p.doubles) \in Nat
    BY <2>1, LenProperties
  <2> QED
    BY <1>1, <2>1, <2>2 DEF Loaded
<1>4. Len(funs) \in 1 .. Len(funs) /\ Len(funs) \in Nat
  BY <1>3, LoadedFunctions
<1>5. made \in EnvRecords /\ made.map = Len(funs) /\ Len(funs[Len(funs)].params) <= Len(made.args)
  <2>1. 0 \in 0 .. Len(envs)
    BY <1>2
  <2>2. <<>> \in Seq(ValueOops)
    OBVIOUS
  <2> QED
    BY <1>3, <1>4, <2>1, <2>2, NewEnvironment
<1>6. script \in ClosureRecords
  <2>1. FunctionOop(Len(funs)) \in ValueOops
    BY <1>4 DEF FunctionOop, ValueOops
  <2>2. 0 \in 0 .. Len(envs)
    BY <1>2
  <2> QED
    BY <2>1, <2>2 DEF ClosureRecords
<1> HIDE DEF made
<1>7. envs \in Seq(EnvRecords) /\ Len(envs) = 1 /\ envs[1] = made /\ DOMAIN envs = {1}
  BY <1>2, <1>5
<1>8. closures[1].func = FunctionOop(Len(funs))
  BY <1>2
<1>9. closures \in Seq(ClosureRecords) /\ Len(closures) = 1
  <2> HIDE DEF script
  <2> QED
    BY <1>2, <1>6
<1>10. TypeOK
  <2>1. m_stack \in Seq(Words) /\ frames \in Seq(FrameRecords)
    BY <1>2
  <2> QED
    BY <1>2, <1>3, <1>7, <1>9, <2>1 DEF TypeOK, Loaded, Statuses
<1>11. FramesIntact /\ BasePointersChain /\ OperandsAreValues
  BY <1>2 DEF FramesIntact, BasePointersChain, BaseAbove, OperandsAreValues, ValuesBetween, FloorAt
<1>12. OperandsBalanced
  <2>1. Sound(CodeOf(1)) /\ CodeOf(1) \in Seq(Nat)
    BY <1>3, <1>4, <1>8, LoadedFunctions DEF CodeOf, FunctionOop
  <2>2. 1 \in 1 .. Len(CodeOf(1)) /\ DepthOf(CodeOf(1))[1] = 0
    BY <2>1, LenProperties DEF Sound, SoundDepth
  <2> QED
    BY <1>2, <2>2 DEF OperandsBalanced, BalancedAt, FloorAt
<1>13. ScopeMatchesCode /\ ArgumentsFit
  BY <1>2, <1>5, <1>7, <1>8 DEF ScopeMatchesCode, ScopeMatchesAt, ArgumentsFit
<1> QED
  BY <1>10, <1>11, <1>12, <1>13 DEF IInv

LEMMA NextIInv == IInv /\ [Next]_vars => IInv'
<1> SUFFICES ASSUME IInv, [Next]_vars PROVE IInv'
  OBVIOUS
<1>1. CASE PushUndefined \/ PushLiteral \/ Pop
  BY <1>1, PushUndefinedKeepsIInv, PushLiteralKeepsIInv, PopKeepsIInv
<1>2. CASE Resolve \/ ResolvedStore
  BY <1>2, ResolveKeepsIInv, ResolvedStoreKeepsIInv
<1>3. CASE Jump \/ JumpIfFalse
  BY <1>3, JumpKeepsIInv, JumpIfFalseKeepsIInv
<1>4. CASE Add \/ CreateClosure
  BY <1>4, AddKeepsIInv, CreateClosureKeepsIInv
<1>5. CASE Call \/ Return
  BY <1>5, CallKeepsIInv, ReturnKeepsIInv
<1>6. CASE UNCHANGED vars
  <2>1. /\ funs' = funs /\ doubles' = doubles /\ closures' = closures /\ envs' = envs
        /\ m_env' = m_env /\ m_closure' = m_closure /\ m_bp' = m_bp /\ m_pc' = m_pc
        /\ m_stack' = m_stack /\ frames' = frames /\ status' = status
    BY <1>6 DEF vars
  <2>2. TypeOK' /\ ArgumentsFit'
    BY <2>1 DEF IInv, TypeOK, Words, ValueOops, ClosureRecords, EnvRecords, FrameRecords,
                ArgumentsFit
  <2>3. FramesIntact' /\ BasePointersChain' /\ OperandsBalanced'
    BY <2>1 DEF IInv, FramesIntact, IntactAt, BasePointersChain, BaseAbove, OperandsBalanced,
                BalancedAt, CodeOf, FloorAt
  <2>4. OperandsAreValues' /\ ScopeMatchesCode'
    BY <2>1 DEF IInv, OperandsAreValues, ValuesBetween, ValueOops, FloorAt, ScopeMatchesCode,
                ScopeMatchesAt, FunctionOop
  <2> QED
    BY <2>2, <2>3, <2>4 DEF IInv
<1> QED
  BY <1>1, <1>2, <1>3, <1>4, <1>5, <1>6 DEF Next

\* All of the invariants hold together in every reachable state, whatever sound
\* programs the generator returned.
THEOREM Invariance == Spec => []IInv
BY InitIInv, NextIInv, PTL DEF Spec

\* Every variable has its type and every reference is to an allocated object: no
\* instruction of a sound program makes the interpreter index outside the heap.
THEOREM TypeCorrect == Spec => []TypeOK
<1>1. IInv => TypeOK
  BY DEF IInv
<1> QED
  BY <1>1, Invariance, PTL

\* The words and the registers of every suspended frame survive whatever the
\* callees do, and a return therefore finds them.
THEOREM FramesStayIntact == Spec => []FramesIntact
<1>1. IInv => FramesIntact
  BY DEF IInv
<1> QED
  BY <1>1, Invariance, PTL

\* m_bp and the saved base pointers always chain the suspended frames.
THEOREM BasePointersAlwaysChain == Spec => []BasePointersChain
<1>1. IInv => BasePointersChain
  BY DEF IInv
<1> QED
  BY <1>1, Invariance, PTL

\* However an instruction is reached, the operands its code was written for are
\* on the stack, for the running function and for every suspended one.
THEOREM OperandsStayBalanced == Spec => []OperandsBalanced
<1>1. IInv => OperandsBalanced
  BY DEF IInv
<1> QED
  BY <1>1, Invariance, PTL

\* A saved register is never an operand.
THEOREM OperandsStayValues == Spec => []OperandsAreValues
<1>1. IInv => OperandsAreValues
  BY DEF IInv
<1> QED
  BY <1>1, Invariance, PTL

\* Names are always resolved in an environment made for the running function.
THEOREM ScopesStayMatched == Spec => []ScopeMatchesCode
<1>1. IInv => ScopeMatchesCode
  BY DEF IInv
<1> QED
  BY <1>1, Invariance, PTL

\* No parameter is ever read outside its environment's argument array.
THEOREM ArgumentsStayFit == Spec => []ArgumentsFit
<1>1. IInv => ArgumentsFit
  BY DEF IInv
<1> QED
  BY <1>1, Invariance, PTL
=============================================================================
