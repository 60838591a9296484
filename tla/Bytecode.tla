------------------------------ MODULE Bytecode ------------------------------
(***************************************************************************)
(* The instruction set of the virtual machine (Bytecode.hh) and the static *)
(* shape of the code the bytecode generator hands to the interpreter.      *)
(*                                                                         *)
(* A function's bytecode is a sequence of chars.  Here it is a sequence of *)
(* cells, one per char: an opcode is its number in enum Op and an operand  *)
(* is a number below ByteSize, so that a program counter counts exactly    *)
(* what m_pc counts.  m_pc is 0-based and sequences are 1-based: the cell  *)
(* at pc is code[pc + 1].                                                  *)
(*                                                                         *)
(* kPushArg has a handler but no emitter (its only emission is inside the  *)
(* #if 0 of BytecodeGen.cc:485-499), and the opcodes from kExp to kOr      *)
(* other than kAdd have neither, so none of them is an opcode here.        *)
(***************************************************************************)
EXTENDS Integers, Sequences

CONSTANT ByteSize    \* The number of values of an operand cell; 256 in the code.

ASSUME ByteSizeAssumption == ByteSize \in Nat /\ ByteSize > 1 /\ ByteSize % 2 = 0

Byte == 0 .. ByteSize - 1

\* enum Op, the opcodes that are both emitted and handled.
kPushUndefined == 1
kPushLiteral   == 2
kResolve       == 3
kResolvedStore == 4
kPop           == 5
kAdd           == 10
kJump          == 30
kJumpIfFalse   == 31
kCall          == 32
kCreateClosure == 33
kReturn        == 34

PlainOps   == {kPushUndefined, kPop, kAdd, kCreateClosure, kReturn}
OperandOps == {kPushLiteral, kResolve, kResolvedStore, kCall}
JumpOps    == {kJump, kJumpIfFalse}
Ops        == PlainOps \union OperandOps \union JumpOps

\* The number of cells an instruction takes.
Size(op) == IF op \in JumpOps THEN 3 ELSE IF op \in OperandOps THEN 2 ELSE 1

\* Function::disassemble's walk: the positions of the instructions, in order.
Disassembly(code) ==
  LET from[i \in 1 .. Len(code) + 3] ==
        IF i > Len(code) THEN <<>> ELSE <<i>> \o from[i + Size(code[i])]
  IN  from[1]

\* The Oops a literal table holds: a tag and which object it is.
Double(i)       == [t |-> "Double", v |-> i]
FunctionOop(f)  == [t |-> "Function", v |-> f]
StringOop(name) == [t |-> "String", v |-> name]

-----------------------------------------------------------------------------
(***************************************************************************)
(* int16_t relative, its two bytes, and the int16_t they are read back as. *)
(***************************************************************************)
\* Mutant: only the low byte is written.
HighByteLost(offset) == 0

HighByte(offset) == (offset \div ByteSize) % ByteSize
LowByte(offset)  == offset % ByteSize

Int16(b1, b2) ==
  LET u == (b1 * ByteSize) + b2
  IN  IF 2 * u >= ByteSize * ByteSize THEN u - (ByteSize * ByteSize) ELSE u

\* Where the jump whose opcode is the cell at position i (1-based) lands.
JumpTarget(code, i) == i + 3 + Int16(code[i + 1], code[i + 2])

-----------------------------------------------------------------------------
(***************************************************************************)
(* What the instruction at position i takes off and puts on the operand    *)
(* stack when it falls through, jumps or is returned to.                   *)
(***************************************************************************)
Pops(code, i) ==
  CASE code[i] = kCall -> code[i + 1] + 1
    [] code[i] = kAdd  -> 2
    [] code[i] \in {kResolvedStore, kPop, kJumpIfFalse, kCreateClosure, kReturn} -> 1
    [] OTHER -> 0

Pushes(op) == IF op \in {kPop, kJump, kJumpIfFalse, kReturn} THEN 0 ELSE 1

DepthAfter(code, i, depth) == depth - Pops(code, i) + Pushes(code[i])

\* The positions control may move to, inside the function, after position i.
Successors(code, i) ==
  CASE code[i] = kReturn      -> {}
    [] code[i] = kJump        -> {JumpTarget(code, i)}
    [] code[i] = kJumpIfFalse -> {i + 3, JumpTarget(code, i)}
    [] OTHER                   -> {i + Size(code[i])}

(***************************************************************************)
(* The operand depth of every position, -1 where control never comes.      *)
(* Every jump of compiled code is forward, so a position's depth is        *)
(* settled by earlier positions.                                           *)
(***************************************************************************)
DepthOf(code) ==
  LET DepthAt(i, depth) ==
        LET from == {j \in 1 .. i - 1 :
                       /\ depth[j] >= 0
                       /\ code[j] \in Ops
                       /\ j + Size(code[j]) - 1 <= Len(code)
                       /\ i \in Successors(code, j)}
        IN  IF i = 1 THEN 0
            ELSE IF from = {} THEN -1
            ELSE LET j == CHOOSE k \in from : TRUE IN DepthAfter(code, j, depth[j])
      upTo[n \in 0 .. Len(code)] ==
        IF n = 0 THEN <<>>
        ELSE LET depth == upTo[n - 1] IN Append(depth, DepthAt(n, depth))
  IN  upTo[Len(code)]

(***************************************************************************)
(* What the interpreter takes for granted of the code it is given: every   *)
(* position control can come to holds a whole instruction, has the         *)
(* operands it pops whichever way it was reached, and returns from a depth *)
(* of exactly one, the returned value.                                     *)
(***************************************************************************)
SoundAt(code, depth, i) ==
  /\ code[i] \in Ops
  /\ i + Size(code[i]) - 1 <= Len(code)
  /\ \A k \in 1 .. Size(code[i]) - 1 : code[i + k] \in Byte
  /\ depth[i] >= Pops(code, i)
  /\ code[i] = kReturn => depth[i] = 1
  /\ \A j \in Successors(code, i) :
       /\ j \in i + 1 .. Len(code)
       /\ depth[j] = DepthAfter(code, i, depth[i])

SoundDepth(code, depth) ==
  /\ Len(code) > 0
  /\ depth \in [1 .. Len(code) -> Int]
  /\ depth[1] = 0
  /\ \A i \in 1 .. Len(code) : depth[i] >= 0 => SoundAt(code, depth, i)

Sound(code) == SoundDepth(code, DepthOf(code))

\* The literal an instruction names exists and is of a kind it expects.
LiteralAt(fun, i, kinds) ==
  /\ fun.code[i + 1] + 1 \in DOMAIN fun.literals
  /\ fun.literals[fun.code[i + 1] + 1].t \in kinds

SoundLiterals(fun) ==
  \A i \in 1 .. Len(fun.code) : DepthOf(fun.code)[i] >= 0 =>
    /\ fun.code[i] = kPushLiteral => LiteralAt(fun, i, {"Double", "Function"})
    /\ fun.code[i] \in {kResolve, kResolvedStore} => LiteralAt(fun, i, {"String"})

(***************************************************************************)
(* What generateBytecode() hands over: the Functions, in the order they    *)
(* were made, and the doubles of their literals.  A Function has its map's *)
(* parameter and local names, its bytecode and its literals.               *)
(***************************************************************************)
LiteralsOf(p, names) ==
  [t : {"String"}, v : names]
    \union [t : {"Double"}, v : 1 .. Len(p.doubles)]
    \union [t : {"Function"}, v : 1 .. Len(p.funs)]

FunctionsOf(p, names) ==
  [params : Seq(names), locals : Seq(names), code : Seq(Nat), literals : Seq(LiteralsOf(p, names))]

DistinctNames(fun) ==
  LET names == fun.params \o fun.locals
  IN  \A i, j \in DOMAIN names : names[i] = names[j] => i = j

\* The contract between the compiler and the interpreter.
SoundProgram(p, names) ==
  /\ p.doubles \in Seq(BOOLEAN)
  /\ p.funs \in Seq(FunctionsOf(p, names)) /\ p.funs # <<>>
  /\ \A f \in DOMAIN p.funs :
       Sound(p.funs[f].code) /\ SoundLiterals(p.funs[f]) /\ DistinctNames(p.funs[f])
=============================================================================
