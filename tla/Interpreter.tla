---------------------------- MODULE Interpreter ----------------------------
(***************************************************************************)
(* The bytecode interpreter: VM::Interpreter (VM.hh, Interpreter.cc), with *)
(* the heap objects it makes and reads (Object.h, ObjectMemory.cc) and the *)
(* name lookup of Environment (Object.inl.hh).  One action per opcode; an  *)
(* action is one whole turn of the loop in interpret(), FETCHes included.  *)
(*                                                                         *)
(* An Oop is a record [t, v]: t is what the word holds and v which one.    *)
(* A Double's value matters only to JS_ToBoolean, so doubles[v] is whether *)
(* it is nonzero.  Number literals are never negative and there is no      *)
(* subtraction, so a sum is nonzero iff an operand is.                     *)
(*                                                                         *)
(* Undefined behaviour (a null or wild dereference, a word read before it  *)
(* is written) ends a behaviour in status "undefined": nothing is claimed  *)
(* of what the process does from there on.                                 *)
(***************************************************************************)
EXTENDS Bytecode, SequencesExt

CONSTANTS
  Names,      \* identifiers
  Programs,   \* what generateBytecode() may return: [funs, doubles]
  HeapLimit   \* bound: objects allocated before mps_reserve fails

\* The script is the last Function made.
ASSUME ProgramsAssumption == \A p \in Programs : SoundProgram(p, Names)
ASSUME HeapLimitAssumption == HeapLimit \in Nat

VARIABLES
  funs,       \* Function objects, the script's last.  Never modified.
  doubles,    \* heap doubles, literals first
  closures,   \* heap closures; 1 is the script's
  envs,       \* heap environments; 1 is the script's
  m_stack,    \* the one stack of operands and saved registers
  m_env,
  m_closure,
  m_pc,
  m_bp,
  status,     \* how the host process fares
  frames      \* history: the registers each suspended frame was saved with, and
              \* m_stack as it was just after they were pushed; no guard reads it

heap      == <<doubles, closures, envs>>
registers == <<m_env, m_closure, m_bp>>
vars      == <<funs, doubles, closures, envs, m_stack, m_env, m_closure, m_pc,
               m_bp, status, frames>>

-----------------------------------------------------------------------------
(***************************************************************************)
(* Words.                                                                  *)
(***************************************************************************)
Smi(i)        == [t |-> "Smi", v |-> i]
ClosureOop(c) == [t |-> "Closure", v |-> c]
EnvOop(e)     == [t |-> "Environment", v |-> e]
Undefined     == [t |-> "Undefined", v |-> 0]
Garbage       == [t |-> "Garbage", v |-> 0]   \* a word nobody has written

gSmiMax == 2147483647 \div 2
gSmiMin == - gSmiMax - 1

\* An int32_t is stored untagged and isSmi tests its lowest bit: an even one is
\* taken for a pointer.  Such a word must be moved only, like one never written.
isSmi(oop) == oop.t = "Smi" /\ oop.v % 2 = 1
Wild(oop)  == oop.t = "Garbage" \/ (oop.t = "Smi" /\ ~isSmi(oop))

\* JS_ToBoolean of a word that is not wild; an odd int32_t is not zero.
JS_ToBoolean(oop) ==
  \/ isSmi(oop)
  \/ oop.t = "Double" /\ doubles[oop.v]
  \/ oop.t \in {"Function", "Closure", "Environment"}

-----------------------------------------------------------------------------
(***************************************************************************)
(* Environments.  makeEnvironment makes an argument array and an array of  *)
(* locals and writes neither.  An array's block is rounded up to 16 bytes, *)
(* so an odd number of elements leaves one more word of it.                *)
(***************************************************************************)
Capacity(n) == n + (n % 2)

\* Mutant: the arguments are as many as were passed.
MakeEnvironmentOfArgs(f, prev, args) ==
  [map    |-> f,
   prev   |-> prev,
   args   |-> args,
   locals |-> [i \in 1 .. Capacity(Len(funs[f].locals)) |-> Garbage]]

\* Mutant: the map is the caller's.
MakeEnvironmentOfCaller(f, prev, args) ==
  [MakeEnvironmentOfArgs(f, prev, args) EXCEPT !.map = IF prev = 0 THEN f ELSE envs[prev].map]

MakeEnvironment(f, prev, args) ==
  [map    |-> f,
   prev   |-> prev,
   args   |-> [i \in 1 .. (IF Len(args) < Len(funs[f].params)
                             THEN Len(funs[f].params) ELSE Len(args)) |->
                 IF i <= Len(args) THEN args[i] ELSE Garbage],
   locals |-> [i \in 1 .. Capacity(Len(funs[f].locals)) |-> Garbage]]

Unmapped == [part |-> "none", at |-> 0]

(***************************************************************************)
(* Environment::lookup.  A map's names are distinct, so the order they are *)
(* compared in does not matter.  The index of a local's NAME, parameters   *)
(* counted, is used in the array of locals; beyond the array's block it is *)
(* a word of another object.  A name that is neither a local nor a         *)
(* parameter is never found: max is unsigned, so the loop runs on to       *)
(* m_names[-1], the word m_nLocals, and dereferences it.  m_prev is never  *)
(* consulted.                                                              *)
(***************************************************************************)
Lookup(e, name) ==
  LET env    == envs[e]
      params == funs[env.map].params
      names  == params \o funs[env.map].locals
      hits   == {i \in 1 .. Len(names) : names[i] = name}
      hit    == CHOOSE i \in hits : TRUE
  IN  IF hits = {} THEN Unmapped
      ELSE IF hit <= Len(params) THEN [part |-> "args", at |-> hit]
      ELSE IF hit <= Len(env.locals) THEN [part |-> "locals", at |-> hit]
      ELSE Unmapped

\* mps_reserve succeeds.
HeapHasRoom == Len(doubles) + Len(closures) + Len(envs) < HeapLimit

-----------------------------------------------------------------------------
Fun        == funs[closures[m_closure].func.v]
Position   == m_pc + 1                          \* of the opcode, in Fun.code
Operand    == Fun.code[Position + 1]
Literal    == Fun.literals[Operand + 1]
Running(op) == status = "running" /\ Fun.code[Position] = op

Advance == m_pc' = m_pc + Size(Fun.code[Position])

\* The process stops with the given status; nothing else is looked at again.
Stop(how) ==
  /\ status' = how
  /\ UNCHANGED <<funs, heap, registers, m_stack, m_pc, frames>>

\* Mutant: a failed reservation is tried again.
TryAgain == UNCHANGED vars

\* FATAL, when mps_reserve fails.
OutOfMemory == Stop("out of memory")

\* What every instruction but kCall and kReturn leaves alone.
SameFrame == UNCHANGED <<funs, registers, status, frames>>

PushUndefined ==
  /\ Running(kPushUndefined)
  /\ m_stack' = Append(m_stack, Undefined)
  /\ Advance
  /\ SameFrame /\ UNCHANGED heap

PushLiteral ==
  /\ Running(kPushLiteral)
  /\ m_stack' = Append(m_stack, Literal)
  /\ Advance
  /\ SameFrame /\ UNCHANGED heap

Resolve ==
  /\ Running(kResolve)
  /\ LET slot == Lookup(m_env, Literal.v)
     IN  \/ /\ slot = Unmapped
            /\ Stop("undefined")
         \/ /\ slot # Unmapped
            /\ m_stack' = Append(m_stack, envs[m_env][slot.part][slot.at])
            /\ Advance
            /\ SameFrame /\ UNCHANGED heap

ResolvedStore ==
  /\ Running(kResolvedStore)
  /\ LET slot == Lookup(m_env, Literal.v)
     IN  \/ /\ slot = Unmapped
            /\ Stop("undefined")
         \/ /\ slot # Unmapped
            /\ envs' = [envs EXCEPT ![m_env][slot.part][slot.at] = Last(m_stack)]
            /\ Advance
            /\ SameFrame /\ UNCHANGED <<m_stack, doubles, closures>>

Pop ==
  /\ Running(kPop)
  /\ m_stack' = Front(m_stack)
  /\ Advance
  /\ SameFrame /\ UNCHANGED heap

Jump ==
  /\ Running(kJump)
  /\ m_pc' = JumpTarget(Fun.code, Position) - 1
  /\ SameFrame /\ UNCHANGED <<heap, m_stack>>

JumpIfFalse ==
  /\ Running(kJumpIfFalse)
  /\ \/ /\ Wild(Last(m_stack))
        /\ Stop("undefined")
     \/ /\ ~Wild(Last(m_stack))
        /\ m_stack' = Front(m_stack)
        /\ IF JS_ToBoolean(Last(m_stack))
             THEN Advance
             ELSE m_pc' = JumpTarget(Fun.code, Position) - 1
        /\ SameFrame /\ UNCHANGED heap

(***************************************************************************)
(* kAdd.  The sum of two doubles is written over the right operand, which  *)
(* is pushed again.  Small integers are only ever saved registers, which   *)
(* OperandsAreValues keeps away from kAdd, but the handler adds them.      *)
(***************************************************************************)
Add ==
  /\ Running(kAdd)
  /\ LET a    == Last(m_stack)
         b    == Last(Front(m_stack))
         rest == Front(Front(m_stack))
         sum  == a.v + b.v
     IN  IF Wild(a) \/ Wild(b) THEN Stop("undefined")
         ELSE IF a.t = "Double" /\ b.t = "Double" THEN
           /\ doubles' = [doubles EXCEPT ![a.v] = @ \/ doubles[b.v]]
           /\ m_stack' = Append(rest, a)
           /\ Advance
           /\ SameFrame /\ UNCHANGED <<closures, envs>>
         ELSE IF ~(isSmi(a) /\ isSmi(b)) THEN Stop("aborted")
         ELSE IF gSmiMin < sum /\ sum < gSmiMax THEN
           /\ m_stack' = Append(rest, Smi(sum))
           /\ Advance
           /\ SameFrame /\ UNCHANGED heap
         ELSE
           /\ doubles' = Append(doubles, TRUE)
           /\ m_stack' = Append(rest, Double(Len(doubles) + 1))
           /\ Advance
           /\ SameFrame /\ UNCHANGED <<closures, envs>>

CreateClosure ==
  /\ Running(kCreateClosure)
  /\ \/ /\ ~HeapHasRoom
        /\ OutOfMemory
     \/ /\ HeapHasRoom
        /\ closures' = Append(closures, [func |-> Last(m_stack), baseEnv |-> m_env])
        /\ m_stack' = Append(Front(m_stack), ClosureOop(Len(closures) + 1))
        /\ Advance
        /\ SameFrame /\ UNCHANGED <<doubles, envs>>

(***************************************************************************)
(* kCall.  The callee is on top and the arguments under it, so the first   *)
(* popped, args[0], is the LAST one pushed.  The environment's prev is the *)
(* caller's, not the closure's.  The casts to Closure and Function are     *)
(* unchecked, and every argument is printed.                               *)
(***************************************************************************)
Callable(oop) == oop.t = "Closure" /\ closures[oop.v].func.t = "Function"

\* Mutants: the pc of the operand is saved; the environment is pushed first.
SavedWordsAtOperand == <<Smi(m_pc + 1), Smi(m_bp), ClosureOop(m_closure), EnvOop(m_env)>>
SavedWordsReordered == <<Smi(m_pc + 2), Smi(m_bp), EnvOop(m_env), ClosureOop(m_closure)>>

\* The caller's registers as kCall pushes them, m_pc past the instruction.
SavedWords == <<Smi(m_pc + 2), Smi(m_bp), ClosureOop(m_closure), EnvOop(m_env)>>

\* Mutants: m_bp is past the saved words; it is computed before they are pushed.
BasePointerPast(s) == Len(s)
BasePointerBefore(s) == Len(s) - 5

\* The callee's m_bp, from the stack with the saved words.
BasePointer(s) == Len(s) - 1

Call ==
  /\ Running(kCall)
  /\ LET nArgs  == Operand
         callee == Last(m_stack)
         args   == [i \in 1 .. nArgs |-> m_stack[Len(m_stack) - i]]
         rest   == SubSeq(m_stack, 1, Len(m_stack) - (nArgs + 1))
         saved  == rest \o SavedWords
     IN  \/ /\ ~Callable(callee)
            /\ Stop("undefined")
         \/ /\ Callable(callee) /\ ~HeapHasRoom
            /\ OutOfMemory
         \/ /\ Callable(callee) /\ HeapHasRoom
            /\ \E i \in 1 .. nArgs : Wild(args[i])
            /\ Stop("undefined")
         \/ /\ Callable(callee) /\ HeapHasRoom
            /\ \A i \in 1 .. nArgs : ~Wild(args[i])
            /\ envs' = Append(envs, MakeEnvironment(closures[callee.v].func.v, m_env, args))
            /\ m_stack' = saved
            /\ m_pc' = 0
            /\ m_bp' = BasePointer(saved)
            /\ m_closure' = callee.v
            /\ m_env' = Len(envs) + 1
            /\ frames' = Append(frames, [pc |-> m_pc + 2, bp |-> m_bp, closure |-> m_closure,
                                         env |-> m_env, stack |-> saved])
            /\ UNCHANGED <<funs, doubles, closures, status>>

(***************************************************************************)
(* kReturn.  An empty stack under the returned value is the end of the     *)
(* script; the value is then printed.  Otherwise the four words under it   *)
(* are taken for the caller's registers, whatever they are.                *)
(***************************************************************************)
SavedRegisters(s) ==
  /\ Len(s) >= 4
  /\ s[Len(s)].t = "Environment"
  /\ s[Len(s) - 1].t = "Closure"
  /\ s[Len(s) - 2].t = "Smi" /\ s[Len(s) - 2].v >= 0
  /\ s[Len(s) - 3].t = "Smi" /\ s[Len(s) - 3].v >= 0

\* Mutant: m_env is not restored.
RegistersButEnv(s) ==
  [pc |-> s[Len(s) - 3].v, bp |-> s[Len(s) - 2].v, closure |-> s[Len(s) - 1].v, env |-> m_env]

Registers(s) ==
  [pc |-> s[Len(s) - 3].v, bp |-> s[Len(s) - 2].v, closure |-> s[Len(s) - 1].v, env |-> s[Len(s)].v]

\* Mutant: the saved m_pc stays on the stack.
BelowThreeRegisters(s) == SubSeq(s, 1, Len(s) - 3)

BelowRegisters(s) == SubSeq(s, 1, Len(s) - 4)

Return ==
  /\ Running(kReturn)
  /\ LET val   == Last(m_stack)
         rest  == Front(m_stack)
         saved == Registers(rest)
     IN  \/ /\ rest = <<>>
            /\ status' = IF Wild(val) THEN "undefined" ELSE "finished"
            /\ m_stack' = rest
            /\ Advance
            /\ UNCHANGED <<funs, heap, registers, frames>>
         \/ /\ rest # <<>>
            /\ IF SavedRegisters(rest)
                 THEN /\ m_env' = saved.env
                      /\ m_closure' = saved.closure
                      /\ m_bp' = saved.bp
                      /\ m_pc' = saved.pc
                      /\ m_stack' = Append(BelowRegisters(rest), val)
                      /\ frames' = IF frames = <<>> THEN frames ELSE Front(frames)
                      /\ UNCHANGED <<funs, heap, status>>
                 ELSE Stop("undefined")

-----------------------------------------------------------------------------
Init ==
  /\ \E p \in Programs : funs = p.funs /\ doubles = p.doubles
  /\ closures = <<[func |-> FunctionOop(Len(funs)), baseEnv |-> 0]>>
  /\ envs = <<MakeEnvironment(Len(funs), 0, <<>>)>>
  /\ m_stack = <<>>
  /\ m_env = 1
  /\ m_closure = 1
  /\ m_pc = 0
  /\ m_bp = 0
  /\ status = "running"
  /\ frames = <<>>

Next ==
  \/ PushUndefined \/ PushLiteral \/ Resolve \/ ResolvedStore \/ Pop
  \/ Jump \/ JumpIfFalse \/ Add \/ CreateClosure \/ Call \/ Return

\* interpret() is a loop in the process's only thread: it takes its next turn.
Fairness == WF_vars(Next)

Spec == Init /\ [][Next]_vars
FairSpec == Spec /\ Fairness
-----------------------------------------------------------------------------
(***************************************************************************)
(* Properties.                                                             *)
(***************************************************************************)
\* What a JavaScript value may be.
ValueOops ==
  [t : {"Double"}, v : 1 .. Len(doubles)]
    \union [t : {"Function"}, v : 1 .. Len(funs)]
    \union [t : {"Closure"}, v : 1 .. Len(closures)]
    \union [t : {"Undefined", "Garbage"}, v : {0}]

\* What m_stack may hold: values and saved registers.
Words ==
  ValueOops
    \union [t : {"Smi"}, v : Nat]
    \union [t : {"Environment"}, v : 1 .. Len(envs)]

ClosureRecords == [func : ValueOops, baseEnv : 0 .. Len(envs)]

EnvRecords ==
  [map : 1 .. Len(funs), prev : 0 .. Len(envs), args : Seq(ValueOops), locals : Seq(ValueOops)]

FrameRecords ==
  [pc : Nat, bp : Nat, closure : 1 .. Len(closures), env : 1 .. Len(envs), stack : Seq(Words)]

Statuses == {"running", "finished", "aborted", "out of memory", "undefined"}

\* Every variable has its type and every reference is to an allocated object:
\* the heap kinds of Object.h and the registers of VM.hh.
TypeOK ==
  /\ \E p \in Programs : funs = p.funs /\ Len(p.doubles) <= Len(doubles)
  /\ doubles \in Seq(BOOLEAN)
  /\ closures \in Seq(ClosureRecords)
  /\ envs \in Seq(EnvRecords)
  /\ m_stack \in Seq(Words)
  /\ m_env \in 1 .. Len(envs)
  /\ m_closure \in 1 .. Len(closures)
  /\ m_pc \in Nat
  /\ m_bp \in Nat
  /\ status \in Statuses
  /\ frames \in Seq(FrameRecords)

\* The number of words that are under the running function's operands, by m_bp.
FloorAt(bp) == IF bp = 0 THEN 0 ELSE bp + 1

\* Whatever the callees did, m_stack still begins with the words each suspended
\* frame left there, its four saved registers last (kCall, Interpreter.cc:240),
\* and the frames lie one above the other, none in another's registers.
IntactAt(f) ==
  LET n == Len(f.stack)
  IN  /\ 4 <= n /\ n <= Len(m_stack)
      /\ \A k \in 1 .. n : m_stack[k] = f.stack[k]
      /\ f.stack[n - 3] = Smi(f.pc)
      /\ f.stack[n - 2] = Smi(f.bp)
      /\ f.stack[n - 1] = ClosureOop(f.closure)
      /\ f.stack[n] = EnvOop(f.env)

FramesIntact ==
  /\ \A i \in DOMAIN frames : IntactAt(frames[i])
  /\ \A i, j \in DOMAIN frames : i < j => Len(frames[i].stack) + 4 <= Len(frames[j].stack)

\* m_bp and the saved base pointers chain the suspended frames: each is the
\* place of the last word its caller pushed (Interpreter.cc:246, VM.hh:23).
BaseAbove(i) == IF i = 0 THEN 0 ELSE Len(frames[i].stack) - 1

BasePointersChain ==
  /\ m_bp = BaseAbove(Len(frames))
  /\ \A i \in DOMAIN frames : frames[i].bp = BaseAbove(i - 1)

\* Whichever way an instruction was reached, through branches, breaks, calls and
\* returns, the running function has the operands its code was written for, and
\* so will every caller once the value it waits for is pushed.
CodeOf(c) == funs[closures[c].func.v].code

BalancedAt(c, pc, depth) == pc + 1 \in 1 .. Len(CodeOf(c)) /\ DepthOf(CodeOf(c))[pc + 1] = depth

OperandsBalanced ==
  status = "running" =>
    /\ BalancedAt(m_closure, m_pc, Len(m_stack) - FloorAt(m_bp))
    /\ \A i \in DOMAIN frames :
         LET f == frames[i]
         IN  BalancedAt(f.closure, f.pc, (Len(f.stack) - 4 - FloorAt(f.bp)) + 1)

\* A saved register is never taken for an operand: no word above the frame floor
\* is a Smi or an Environment, so kAdd, kCall and JS_ToBoolean see only values.
ValuesBetween(s, low, high) == \A k \in low + 1 .. high : s[k] \in ValueOops

OperandsAreValues ==
  /\ ValuesBetween(m_stack, FloorAt(m_bp), Len(m_stack))
  /\ \A i \in DOMAIN frames :
       ValuesBetween(frames[i].stack, FloorAt(frames[i].bp), Len(frames[i].stack) - 4)

\* Names are resolved in an environment of the running function: m_env was made
\* from the map of m_closure's Function, in every suspended frame too.
ScopeMatchesAt(c, e) == closures[c].func = FunctionOop(envs[e].map)

ScopeMatchesCode ==
  /\ ScopeMatchesAt(m_closure, m_env)
  /\ \A i \in DOMAIN frames : ScopeMatchesAt(frames[i].closure, frames[i].env)

\* m_args has a word for every parameter of the map, however few arguments a call
\* passed, so a parameter is never read outside its array (ObjectMemory.cc:112).
ArgumentsFit ==
  \A e \in DOMAIN envs : Len(funs[envs[e].map].params) <= Len(envs[e].args)

\* Every program stops: compiled jumps are forward, and recursion runs out of heap.
Halts == <>(status # "running")

(***************************************************************************)
(* The frames that wait, as kReturn will find them: the topmost word a     *)
(* call left is the saved m_env, and m_closure, m_bp and m_pc are under    *)
(* it.  frames only says where that word is.                               *)
(***************************************************************************)
Suspended ==
  [i \in DOMAIN frames |->
     LET n == Len(frames[i].stack)
     IN  [pc       |-> m_stack[n - 3].v,
          closure  |-> m_stack[n - 1].v,
          env      |-> m_stack[n].v,
          operands |-> SubSeq(m_stack, FloorAt(m_stack[n - 2].v) + 1, n - 4)]]

\* The interpreter implements CallStack: calls nest and returns resume exactly.
Abstract == INSTANCE CallStack WITH
  frame     <- [pc       |-> m_pc,
                closure  |-> m_closure,
                env      |-> m_env,
                operands |-> SubSeq(m_stack, FloorAt(m_bp) + 1, Len(m_stack))],
  suspended <- Suspended,
  halted    <- status # "running"

CallsNest == Abstract!Spec

(***************************************************************************)
(* Two promises the name lookup does not keep.                             *)
(***************************************************************************)
NameWanted == Literal.v
Resolving  == Running(kResolve) \/ Running(kResolvedStore)

\* A name the running function itself declares is found, inside its array: the
\* map's "param names followed by locals" (Object.h:278) index m_args and m_locals.
OwnNamesResolve ==
  Resolving =>
    LET map  == funs[envs[m_env].map]
        slot == Lookup(m_env, NameWanted)
    IN  /\ NameWanted \in Range(map.params) => slot # Unmapped
        /\ NameWanted \in Range(map.locals) =>
             slot.part = "locals" /\ slot.at <= Len(map.locals)

\* A name that is declared in an environment on the m_prev chain is found there
\* (Object.inl.hh:110 goes on to m_prev when the name is not the function's own).
OuterNamesResolve ==
  Resolving =>
    LET declares[e \in 0 .. Len(envs)] ==
          /\ e # 0
          /\ \/ NameWanted \in Range(funs[envs[e].map].params)
             \/ NameWanted \in Range(funs[envs[e].map].locals)
             \/ declares[envs[e].prev]
    IN  declares[envs[m_env].prev] => Lookup(m_env, NameWanted) # Unmapped
=============================================================================
