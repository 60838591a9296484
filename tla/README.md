# Xwin Scripting Host in TLA+

Specifications, model-checking configurations and machine-checked proofs for the
scripting host in `src/cmd/xwshost`: a JavaScript subset is parsed, compiled to
bytecode and run by a stack machine whose objects live in a garbage-collected
heap (MPS). Line references below are to files of that directory.

## 1. The system

One process, one thread. `main` (Main.cc) makes the object memory, parses a
script into a syntax tree, compiles it (`Driver::generateBytecode`), wraps the
resulting Function in a Closure and runs `Interpreter::interpret` until the
script returns. Nothing is persisted and there are no messages. The collector
runs inside allocations and at an explicit request in `kReturn`.

```
 Scanner.ll -> Parser.yy -> AST -> Hoister -> BytecodeGenerator -> Interpreter
                                      |             |                   |
                                   DeclEnv    BytecodeEncoder      Environment
                                                    \_____ ObjectMemory (MPS) ____/
```

| Component | State it keeps | Operations | What is hard | What makes it correct |
|---|---|---|---|---|
| Scanner, Parser (Scanner.ll, Parser.yy) | location, bison stack | tokens, nodes | cover grammar of arrow functions | a list that was parsed as an expression becomes the same parameters in the same order |
| Syntax tree (AST.hh, AST.cc) | nodes; a DeclEnv per script and function | `accept`, default visits, `toExpr`, `toDestructuringVec` | default visits that do not descend, nodes that throw | the Hoister and the generator see the same declarations |
| Hoister (BytecodeGen.cc 132-237) | stack of DeclEnvs, `m_inArgs` | define arguments and locals | a name declared twice | every name of a map is distinct and not null |
| Bytecode generator (BytecodeGen.cc) | `m_gens`, `m_labelDescs`, `m_nextStmtLabels` | one visit per node, `enterStmt`/`exitStmt`, `exitFunction` | forward jumps patched later; breaks and labels across statements and functions | code is sound: operands on every path, jumps inside the code, literals of the right kind; breaks land |
| Encoder (Bytecode.cc) | bytecode, literals | `emit*`, `lit*`, `replaceJumpTarget` | truncation to 8 and 16 bits | operands and offsets decode to what was encoded |
| Interpreter (Interpreter.cc, VM.hh) | `m_stack`, `m_env`, `m_closure`, `m_pc`, `m_bp` | one handler per opcode | registers and operands share one stack; unchecked casts | frames are kept apart, returns resume exactly, no register is taken for a value |
| Environments (Object.h, Object.inl.hh) | map, previous environment, arguments, locals | `lookup` | unsigned loops, indices of two arrays | a name in scope resolves to its own slot |
| Allocation (ObjectMemory.cc) | two allocation points | `make*`, `poll` | uninitialised elements, reserve/commit sizes | objects are complete before they are reachable |
| Formats and roots (MPS.cc) | roots; forwarding and padding objects | scan, skip, fwd, isFwd, pad | called by the collector on objects in any state | a walk visits exactly the objects; a forwarded object leads to its copy |
| Oop representation (Object.h) | a 64-bit word | tag tests, conversions | an untagged int32_t whose low bit is the tag | a word has one type |

They interact by calls: the generator drives the encoder, the encoder and the
interpreter call the allocator, the collector calls the formats and the roots.
The one contract that nothing in the code checks is between the generator and
the interpreter: `interpret()` pops, casts and jumps without looking. The project
is built around that contract. It is named `SoundProgram` in `Bytecode.tla`; one module
shows that the generator keeps it and another what the interpreter does with it.

The hazards are listed in `PROJECT.json` with their lines and the properties that
cover them.

## 2. Modules

| Module | Models | Correspondence |
|---|---|---|
| `Bytecode` | enum Op, instruction sizes, jump offsets as two bytes, the contract `SoundProgram` | one cell per char, so `m_pc` counts the same thing; `ByteSize` is 256 in the code and smaller where a run is about limits |
| `Interpreter` | `VM::Interpreter`, environments and lookup, what allocation leaves in the heap | variables have the names of the members; one action per opcode, one step per turn of the loop; the constructor is `Init` |
| `CallStack` | nothing of the code: the promise that calls nest, each in a frame of its own | implemented by `Interpreter` under the refinement mapping `Abstract` |
| `BytecodeGen` | Hoister, BytecodeGenerator and encoder | `todo` is the visitors' call stack; one action per visit, and one per rest of a visit after a child returned; `gens`, `labelDescs`, `nextLabels` are `m_gens`, `m_labelDescs`, `m_nextStmtLabels` |
| `Parameters` | the cover grammar of lists in parentheses, its conversion, the Hoister's numbers, the order in which `kCall` takes arguments | a list of elements and a number stand for the tree of CommaNodes and a node; one action per production, and per half of `CommaNode::toDestructuringVec` |
| `Collector` | a moving collection under the compiler and the interpreter: FIXOOP, the scan and fwd of objects, both roots, every allocation, `poll` | `cstack` has the C++ variables that hold references while others allocate, `stack` is `m_stack`, `encoders` the literals that are no root; `pc` is the place in the C++ code |
| `ObjectFormat` | sizes, scan, skip, fwd and pad of ObjectDescs, and what ObjectMemory.cc reserves | addresses and sizes in bytes; `mem` has the last header written at an address, `base` is the local of the walks |
| `PrimFormat` | PrimDescs byte by byte: `makeString`, `makeDouble`, skip, fwd, isFwd, pad, and what strcmp reads | `mem` maps addresses to bytes; the members are operators that read them |
| `Area` | nothing of the code: a walk visits the blocks of an area in order and ends | implemented by `ObjectFormat` |
| `Oops` | a word: constructors, `type`, `asI32`, `addrT`, `JS_ToBoolean`, `JS_ToNumber` | words are numbers with the real tags; only the half of a word is smaller |
| `Doubles` | where numbers are: literals made once, pushed by reference, sums written in place | `doubles` maps addresses to `m_dbl` |
| `InterpreterProofs`, `CallStackProofs`, `BytecodeGenProofs`, `SoundnessProofs`, `ValuesProofs`, `FormatsProofs`, `ParametersProofs`, `CollectorProofs` | | see section 4 |
| `MCInterpreter`, `MCBytecodeGen`, `MCCollector` | | programs, trees and scripts for TLC |
| `MCFormats` | | `ObjectFormat` or `PrimFormat`: a behaviour is about one of the two pools |
| `MCData` | | `MCFormats`, `Oops`, `Doubles` or `Parameters`: they share no state, and a behaviour is about one of them (`about`) |

`CallStack` and `Area` are the abstract specifications. `Interpreter` and
`BytecodeGen` meet in `SoundProgram`, which one promises and the other assumes in the
same words; `Collector` takes up the interpreter with its
references and leaves out its values; `ObjectFormat` and `PrimFormat` are what
`Collector` relies on when it lets an object be found and forwarded as a whole.

**Undefined behaviour.** A null or wild dereference, a use of a word nobody wrote,
or a cast to the wrong kind ends a behaviour in status `"undefined"`: nothing is
claimed of the process from there on. `abort()` is `"aborted"`, `errx` after a
failed reservation is `"out of memory"`, an exception in the generator `"error"`.
A word that `makeArray` did not write is `Garbage` to the interpreter: moving it is
allowed, using it is not. To the collector it is zero or what the block held before.

**`Interpreter` and `BytecodeGen`.** An Oop is a record of what the word holds and
which one. A double is whether it is nonzero (JS_ToBoolean is the only test of one;
literals are not negative and every binary operator is compiled to `kAdd`, so a sum
is nonzero iff an operand is); overflow to NaN is out of the model. An even int32_t
reads as a pointer. A name is compared as a whole, which `ShortNamesRead` of
`PrimFormat` justifies for names of up to six chars in blocks that were zero.
Objects do not move: `ReferencesFollow` of `Collector` says when a collection
cannot be seen. `HeapLimit` counts objects instead of bytes, and the three blocks
of an environment are one object. While compiling, memory suffices.

The generator is run on every tree up to a size, without building the tree: a visit
chooses its children when it reaches them. Nodes whose `accept` throws, calls
without arguments, functions without formals or body, declarations without an
initialiser and `return;` are left out: they throw, or follow a null pointer, as
soon as they are visited. The Hoister runs before the generator in the code; here
each declaration is made when the generator reaches it. The result is the same, as
`exitFunction` reads a DeclEnv after the whole function was visited and a function's
formals are declared before its locals in both.

**`Collector`.** The Memory Pool System is external and modelled from its use: at a
flip every object is condemned; what an ambiguous root may refer to is nailed where
it is, with or without stray words of the C stack; then the exact root and the grey
objects are scanned, up or down the heap; the rest is reclaimed. Collections are
full ones. `mps_reserve` and `mps_commit` are one step, because a flip between them
makes the commit fail and the loop run again. Which slot a name is found in and how
many arguments a call has is left open, so that more programs are covered than the
generator emits. `confused` records what a collection met that misleads it (see
section 5); the mutator does not go on after one that was misled, since what it
does with a wrong reference is undefined.

**Formats.** An area begins empty and is filled by reservations, copies and pads in
any order; forwarding goes on while a walk is under way, because scanning an object
fixes others. `PrimFormat` has memory that was zero (`OldBytes`).

## 3. Runs

| Run | Module, cfg | Checks | Result |
|---|---|---|---|
| `interpreter` | `MCInterpreter.cfg` | `TypeOK`, `FramesIntact`, `BasePointersChain`, `OperandsBalanced`, `OperandsAreValues`, `ScopeMatchesCode`, `ArgumentsFit`, refinement `CallsNest`, liveness `Halts` | hold |
| `generator_data` | `MCBytecodeGen.cfg` | `TypeOK`, `ProgramIsSound`, `LiteralsAreNamed` | hold |
| `generator_control` | `MCBytecodeGenControl.cfg` | `ProgramIsSound`, `BreaksLand`, `LabelsEnclose` | hold |
| `collector` | `MCCollector.cfg` | `TypeOK`, `ReferencesFollow`, `CastsHold`, `QueueDrained` | hold |
| `data` | `MCData.cfg` | `HeadersTile`, refinement `WalksBlocks`, liveness `WalkEnds`; `ShortNamesRead`, `ForwardsLead`, `WalkStays`; `ReadsBack`, `BooleansAgree`; `SumsMeant`; `ArgumentsBind`, `ParametersKept` | hold |
| `interpreter_outer_names` | `MCInterpreterFree.cfg` | `OuterNamesResolve` | violated: finding |
| `interpreter_own_locals` | `MCInterpreterLocals.cfg` | `OwnNamesResolve` | violated: finding |
| `generator_crossing_breaks` | `MCBytecodeGenCrossing.cfg` | `AllBreaksLand` | violated: finding |
| `generator_leaking_labels` | `MCBytecodeGenLabels.cfg` | `LabelsBindNextStatement` | violated: finding |
| `collector_forwarded_twice` | `MCCollectorForward.cfg` | `AllReferencesFollow` | violated: finding |
| `parameters_partial_conversion` | `Parameters`, `MCParametersRejected.cfg` | `ConvertedOrRejected` | violated: finding |
| `parameters_of_functions` | `Parameters`, `MCParametersFunction.cfg` | `FunctionArgumentsBind` | violated: finding |

What the properties say:

- `FramesIntact`: `m_stack` still begins with what each suspended frame left there,
  its registers last, and frames do not overlap. `BasePointersChain`: `m_bp` and the
  saved ones lead from frame to frame.
- `OperandsBalanced`: the running function has as many operands as its code expects
  at `m_pc`, however it got there, and a suspended one will once its value arrives.
  `OperandsAreValues`: no operand is a saved register.
- `ScopeMatchesCode`: `m_env` was made from the map of the running function, in
  every frame. `ArgumentsFit`: every parameter has a word in the argument array.
- `CallsNest`: the interpreter implements `CallStack`. The mapping reads the
  registers and operands of the frames that wait out of `m_stack`, as `kReturn` would;
  the history variable `frames` only says where on `m_stack` each of them begins.
- `Halts`: every program stops.
- `ProgramIsSound`: unless a break left its function, and as long as offsets and
  literal numbers fit, what the generator returns is a `SoundProgram`: on every path
  each instruction has its operands, jumps land inside the code on an instruction
  boundary, a return has exactly its value, literals are of the kind they are cast to
  and refer to objects already made, and a map's names are distinct. It is word for
  word what the proofs about the interpreter assume. `LiteralsAreNamed`: each literal
  operand is the number of the literal made for it.
- `BreaksLand`: every break compiled into a function lands on the end of the
  statement it leaves. `LabelsEnclose`: label descriptors are always of enclosing
  statements, in order.
- `ReferencesFollow`: when the mutator runs, each word it can reach from `m_stack`
  and the C stack leads to the object it was made for, and all words that mean one
  object lead to one place. `CastsHold`: the registers, the closure being called and
  the words a return takes from `m_stack` lead to a Closure and an Environment with
  all their parts, although nothing looks at the kind of what it finds.
  `QueueDrained`: no message is left from an earlier
  instruction, although a collection posts two and an instruction may start several.
- `HeadersTile`: mpsSkip and mpsScan, two switches written apart, find in each
  header the size that was reserved. `WalksBlocks`, `WalkEnds`: walks implement
  `Area` and end.
- `ShortNamesRead`: names of up to six chars are read back, with strings of up to
  fifteen chars spilling over around them. `ForwardsLead`: isfwd leads from each moved primitive to
  its copy and takes no length, double or char for an address. `WalkStays`: a walk
  is always on a block.
- `ReadsBack`: a word is shown as the value it was made for, so that no two values
  share a word. `BooleansAgree`: conditions are taken as ES2022 takes the value.
  `SumsMeant`: as long as each literal and each variable is used once, adding in
  place computes what the script means.
- `ArgumentsBind`: an arrow function's parameters are the arguments at their places:
  two reversed orders cancel out. `ParametersKept`: when every element of a list is a
  parameter, the arrow function has all of them, each once and with its own initialiser. Of
  the same lists, `ConvertedOrRejected` (a list with an element that is no parameter
  makes no function) and `FunctionArgumentsBind` (a function expression's parameters
  are the arguments at their places) are violated.

**Bounds.** The programs of `MCInterpreter` are the code the generator emits for the
scripts in the comments; they were chosen so that every opcode, every branch both
ways, calls in operand position, a closure passed and called, recursion that fills
the heap (`HeapLimit = 10`, four to nine suspended frames), missing arguments, calls
of non-functions and sums of non-numbers occur. Number literals are tried as zero
and nonzero. For `BytecodeGen`, `MaxNodes` bounds the inner nodes: two, with two
names and up to two formals and arguments, for data (a function of two formals
that calls, or shadows a formal), with `ByteSize = 8`, where offsets need their high
byte and literals their sign bit; four, with two labels, for control (an if with an
else within an if within a function, several breaks of one statement).

`MCCollector` has a script with a literal and one without, three sequences of
instructions (a closure stored, called and left; a closure that is its own argument,
two frames deep; two closures of one function), one collection at any allocation
besides those at every return, and 44 addresses, enough for every object and its
copy. `MCData` has 80 bytes of objects, up to two elements (three to five objects,
of every kind), and 64 bytes of primitives: a string of six chars, one of nine and a
double, four blocks with their copies and pads. It has int32_t of six bits,
all of them, an object of each class of value, and seven instructions on three
literals and two variables. Lists and calls have up to four elements, which
reach a failure at the top, in the middle and at the bottom of a tree.

**Fairness.** `interpret()` is a `while (1)` in the only thread of the process, so a
next turn that is possible is taken: `WF_vars(Next)`. A walk is a loop of the
collector that nothing holds up: `WF_vars(WalkStep \/ EndWalk)`. Nothing else is
assumed; the other runs check safety only. `CHECK_DEADLOCK FALSE` is set because the
program really ends: `interpret()` returns, a compilation ends in a Function, a list
is called or rejected, a bounded area is full.

**Findings.** Each of the seven violated properties is what a comment or another
line of the code says: `lookup` never follows `m_prev` (Object.inl.hh:102), a local
is looked up with the index of its name (Object.inl.hh:98), a break may leave its
function and be patched in the wrong encoder (BytecodeGen.cc:317), a label of a
statement other than an if is bound to a later if (BytecodeGen.cc:474), an
ObjectDesc's new address is never stored (MPS.cc:428), a conversion that fails in
the left part of a list keeps the right part and is not noticed, although AST.hh:658 and
Parser.yy:1563 expect NULL (AST.cc:284), and the arguments of a function expression are
bound in reverse (Interpreter.cc:234).

## 4. Proofs

TLAPS proves the following for every value of the constants.

**`InterpreterProofs`**, for every set of programs that are `SoundProgram`s, every
even `ByteSize` above 1 and every `HeapLimit`: the conjunction `IInv` of the seven
invariants of the run `interpreter` is inductive,

    Init => IInv          IInv /\ [Next]_vars => IInv'          Spec => []IInv

and from it one theorem for each invariant. The assumptions are those the module
`Interpreter` declares: `ProgramsAssumption` is `SoundProgram`, word for word what
`SoundnessProofs` concludes of what the generator returns (`ProgramIsSound`). Together
they say that no script this compiler accepts, whatever its size, leads
the interpreter to an operand that is not there, as long as no break leaves its
function and the numbers fit.

None of the invariants is inductive alone. That a return finds registers under its
value needs the stack to hold exactly one operand there (`OperandsBalanced` and the
clause of `Sound` on `kReturn`) and the words under it to be the ones the call pushed
(`FramesIntact`). That frames stay intact needs that no instruction pops below the
frame floor, which is `m_bp + 1` only because base pointers chain
(`BasePointersChain`), and that the operands it pops are there. The depth after a
return is the caller's depth past the call, because `m_pc` and `m_closure` are the
ones that were saved. `OperandsAreValues` lets kCall and kReturn conclude which
words are values, and so that references are to allocated objects (`TypeOK`).

The proof has one lemma per opcode. The nine that stay in their frame go through
`OperandStepKeepsIInv`: an instruction that leaves the words up to the frame floor
alone, leaves as many values above it as `DepthAfter` says, moves to one of its
`Successors` and lets the heap grow preserves `IInv`. `CallKeepsIInv` and
`ReturnKeepsIInv` are on their own, one step per conjunct.

**`CallStackProofs`**, on the same assumptions: the interpreter implements
`CallStack`. By `FramesIntact` the words of `m_stack` that the mapping reads are those
the calls left (`SuspendedIsRecorded`), so what waits does not change while the
running function stays above its floor, a call adds the running frame without the
callee and its arguments, and a return takes the last frame, whose operands are then
those it waited with and the value.

**`BytecodeGenProofs`**, in two parts, for every tree, every set of names and labels.
Labels (`IInv`): the descriptors of `m_labelDescs` are in the order of the ifs that are still to be
finished, each of which is visited once. An if that ends therefore finds its own
descriptor at the back or has none, which is why `exitStmt` may pop the last.
Breaks: `BInv` follows a break from `visitBreak` to
`exitStmt`. Until its statement ends, the break is in the statement's descriptor, and
that is for the encoder the break is in, because what is left to do for a function
comes before what is left for those around it (`Nested`). When the statement ends, the
break is therefore patched in the right encoder; no two jumps share a cell and those
of the ifs are no breaks (`Apart`, `PastsPlaced`), so its offset is read back as the
end and stays so while the function grows. Both `BreaksLand`'s halves follow; a break
that leaves its function is the only step that breaks the argument, which is why the
second half of `BInv` is under `~crossed`. That a jump's cell was left by one of those
that were patched, and that `visitBreak` finds a descriptor, needs the greatest of
some numbers; it exists because `<` on `Nat` is well founded.

**`SoundnessProofs`**, for every tree: `TypeOK`, `ProgramIsSound` and
`LiteralsAreNamed`. The last two are for `MaxArgs < ByteSize`: a call of 256 arguments
pops none (section 5), so they are false without it. Two assumptions are
declared in `BytecodeGen`, `BoundsAssumption` and `NamesAssumption` (the keys of a
`std::map` are distinct). The invariant is `IInv` and `BInv` with

- `TInv`, the types: an encoder for each function being compiled, literals that name
  what has been made, well-typed finished functions;
- `SInv`, the shape of what is being compiled. For each encoder there are depths
  (`Coded`): that of the operands before each instruction and behind the last, by
  which each instruction has what it pops, is followed by the depth it leaves, and
  each jump that is not open leads forward to depth zero. And the items of `todo` agree
  with them (`Flow`): an item needs as many operands as the code that was emitted
  before it leaves (a `Pop` one, a `Call` its arguments and the callee, a statement
  none), and leaves what the next item needs; a function leaves one in the encoder
  around it. Open are the jumps of ifs that `todo` still has, and breaks;
- `MInv`: a finished function is sound and its names are distinct.

When a function ends, the items that are left are of other functions, so no if has an
open jump; its breaks have all been patched (`BreaksKept`) and lead to the end of
their statement (`AllLand`), where the depth is zero (`EndsFlat`). The witness `depth` is
then one `Sound` may take, and `SoundIfDepth` shows that `DepthOf`, which computes
depths by recursion over the code, finds the same where control comes. That needs no
induction scheme: a least position at which they differ does not exist
(`NoException`). `UsesAreListed` shows in the same way that the walk of
`Function::disassemble` lists the instructions in the order they were emitted, from
which `LiteralsAreNamed` follows, and with it that each literal is of the kind its
instruction casts it to. That a map's names are distinct needs that each formal has an
index of its own and each local none, and that no formal's name is null.

**`ValuesProofs`**, in two parts. Words, for every number of int32_t values that is a
multiple of 32 and every heap of aligned addresses: a word is always one of the words
its value may have, and each of those is read back as the value and taken as a
condition as the language takes it. The arithmetic is in lemmas about what the tag,
the address and the sign of a sum are. Doubles, for every list of literals: as long as
each literal is pushed and each variable read at most once, the words that can still
be used (operands, variables not yet read, literals not yet pushed) lead to PrimDescs
of their own. So a sum that is written over its right operand changes no value that is
used again.

**`FormatsProofs`**, in two parts, for areas of every size. Objects, with arrays of
every size: the headers tell the sizes of the blocks, which tile the area, and the
walk's base is a block or the end. The tiling needs that two blocks do not overlap,
for all pairs and not only neighbours, because a pad may cover many. From the
invariant, each step of the format is a step or a stutter of `Area`. Primitives, for
every set of strings (without a 0, `PrimFormatAssumption`), doubles and old bytes: the
header of each block tells what is in it or where it went (`Headed`), because blocks
are 16 bytes apart (`Following`) and each write is within 16 bytes of a block or at
the top. `ForwardsLead` and `WalkStays` follow. A name is in the seven bytes behind
its header and the memory behind the top is still zero there (`Named`), so that
`ShortNamesRead` holds if memory was zero and no string has more than fifteen chars
(`ShortTexts`): a longer one writes into the next block's name (section 5).

**`CollectorProofs`**, for heaps of every size, all sources, paths and numbers of
collections: `ReferencesFollow`, `CastsHold`, `QueueDrained` and `TypeOK`. The argument
is that of three colours. Words of roots and of objects that have been scanned are
settled: they lead to the object they were made for at a place that is not reclaimed.
Those of grey and condemned objects still lead to the object or to what was left in
its place, and a fix settles such a word, unless it is one of the accidents that
`confused` records: a forwarded ObjectDesc met again, an old word of a new array, the
literals of an encoder. Each id has one live place, so that no object is split. That
casts hold is a matter of ids alone, which no collection changes: the invariant says
that there is a function from ids to the kinds the objects were made with (`kindOf`),
and what a kind's words are the ids of. The assumptions are on the heap's addresses,
the bounds and that the functions of a source nest (`AddressesAssumption`,
`BoundsAssumption`, `SourcesAssumption`).

**`ParametersProofs`**, for lists and calls of every length: the i-th node is that of
the i-th element from the end, and only an element that is no parameter ends a
conversion early; what kCall leaves in the array is a function of the number of
arguments. `ArgumentsBind` and `ParametersKept` follow.

Only model-checked: liveness (`Halts`, `WalkEnds`), which the prover does not do, and
the violated properties. Every other property of a run is stated by a theorem.

## 5. Divergences met while modelling

Beside the findings, these are places where the code is not what a comment, the
language or another line expects. The models do what the code does, and the
properties of the passing runs name the exclusion that keeps them out.

| Place | What happens | Excluded by |
|---|---|---|
| Object.h:70 | an int32_t is stored untagged and isSmi tests its low bit: an even one is a pointer | `Tagged` in `ReadsBack`, `BooleansAgree` |
| Object.inl.hh:39 | a string is true if it is empty | `BooleansAgree` is not about strings |
| MPS.cc:175 | m_padLen is the whole length, to which mpsSkip adds a header's | `NoLongPad` in `WalkStays` |
| ObjectMemory.cc:54, 62 | a string of more than six chars overwrites what follows, without its seventh char, and is skipped too far | `NoLongString` in `WalkStays`; names of up to six chars in `ShortNamesRead`, where no string reaches the next name (`ShortTexts`: fifteen chars) |
| ObjectMemory.cc:61 | no terminator is written | `OldBytes = {0}` |
| Bytecode.hh:62 | the literals of an encoder are no root: a collection while compiling loses them | `confused` in `ReferencesFollow` |
| ObjectMemory.cc:18 | makeArray writes no element: a scan offers old words to the fix | `confused` in `ReferencesFollow` |
| Interpreter.cc:144 | a sum is written over a literal or a variable's value | `UsedOnce` in `SumsMeant` |
| BytecodeGen.cc:386 | every operator is compiled to kAdd | `ops` in `SumsMeant` |
| AST.cc:309 | `() =>` follows NULL, `m_restIdentifier` is dropped | phase `"undefined"`; no property is about `rest` |
| BytecodeGen.cc:485 | initialisers of parameters are not compiled | `AllPassed` in `ArgumentsBind` |
| BytecodeGen.cc:319 | two labels on one if: a descriptor is deleted and read again | status `"undefined"` |
| BytecodeGen.cc:272 | a formal declared again (`function (a, a)`, or `const a` in its body) leaves a null name | status `"undefined"` |
| BytecodeGen.cc:345 | a call of 256 arguments pops none | `MaxArgs < ByteSize`, in the runs and in the theorems |
| Bytecode.cc:165 | the "u16" offsets of Bytecode.hh:51 are signed | `OffsetsFit` in `ProgramIsSound` |
| Interpreter.cc:229 | the environment of a call is chained to the caller's, not the closure's | never followed: `OuterNamesResolve` |

## 6. Not modelled

Scanner (regular expressions, no state of its own), the parser's automaton
(generated; what its actions build is what `BytecodeGen` enumerates and `Parameters`
builds), the nodes whose `accept` only throws, constructors and printing of nodes,
wording of printed values, the run-time header (an unused stub), `kPushArg` (no
emitter), `emit2` (no caller), `GenerationContext` (prints), `JS_toPrimitive` and
`JS_ToNumeric` (not defined), Map and ProperObject (no maker), the creation of arena,
pools and generations (once, before anything else). The memory pools' policy of what
to condemn and when is external; `Collector` condemns everything.

## 7. Plan

The node constructors of `Parser.yy`, so that the trees `BytecodeGen` enumerates are
shown to be those a parse can build. The collector under a heap that is full, which
`Collector` leaves to `Interpreter`.
