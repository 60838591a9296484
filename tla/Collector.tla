----------------------------- MODULE Collector -----------------------------
(***************************************************************************)
(* The moving collection of the object memory: the object format's scan    *)
(* and forward methods, the two roots (MPS.cc), the allocation that may    *)
(* start a collection (ObjectMemory.cc), and the compiler and interpreter  *)
(* whose references must survive it.                                       *)
(*                                                                         *)
(* The Memory Pool System is not part of the repository.  Its automatic    *)
(* mostly-copying pools are modelled from their use: at a flip all objects *)
(* are condemned, those that ambiguous roots may refer to are nailed where *)
(* they are, the exact root is scanned, then grey objects in any order;    *)
(* every reference is offered to the fix, which asks isfwd, copies and     *)
(* calls fwd; what is left is reclaimed and the mutator goes on.           *)
(*                                                                         *)
(* The heap maps addresses to objects; an object is its kind, the word     *)
(* after its header and the words after that.  A word is an address and a  *)
(* tag; id is history: which object the mutator meant by it (0: none), so  *)
(* that following a reference can be compared with what it meant.  A word  *)
(* that is no heap address is -n for a number n.  What the names and the   *)
(* chars are is left out.                                                  *)
(***************************************************************************)
EXTENDS Integers, SequencesExt, FiniteSetsExt

CONSTANTS
  Addresses,     \* the heap, 1 .. n
  Sources,       \* what the compiler does for a script, a set of sequences of
                 \* [k : {"enter", "num", "str"}] and [k : {"exit"}, params, locals]
  CollectAt,     \* bound: where a collection may start, a set of values of pc
  StrayKinds,    \* bound: kinds of object that an old word of the C stack may nail
  MaxFlips,      \* bound: collections started by an allocation
  Paths          \* bound: the instructions interpreted, a set of sequences of opcodes

\* The values of pc at which the next step is an allocation.
Allocating == {"compile", "envMap", "names", "fun", "main", "args0", "locals0", "env0",
               "closure", "args", "locals", "env"}

Items == [k : {"enter", "num", "str"}] \union [k : {"exit"}, params : Nat, locals : Nat]

\* What is left of a source inside of n functions: each that is entered is left, literals
\* are inside of functions, and when the last function is left the source is at its end.
Nested(items, n) ==
  /\ items \in Seq(Items)
  /\ \E depth \in [0 .. Len(items) -> 0 .. n + Len(items)] :
       /\ depth[0] = n /\ depth[Len(items)] = 0
       /\ \A i \in 1 .. Len(items) :
            /\ depth[i] = CASE items[i].k = "enter" -> depth[i - 1] + 1
                            [] items[i].k = "exit"  -> depth[i - 1] - 1
                            [] OTHER                -> depth[i - 1]
            /\ items[i].k # "enter" => depth[i - 1] > 0
            /\ i < Len(items) => depth[i] > 0

ASSUME AddressesAssumption ==
  IsFiniteSet(Addresses) /\ Addresses = 1 .. Cardinality(Addresses)

ASSUME BoundsAssumption ==
  CollectAt \subseteq Allocating /\ "free" \notin StrayKinds /\ MaxFlips \in Nat

ASSUME SourcesAssumption == \A s \in Sources : s # <<>> /\ Nested(s, 0)

VARIABLES
  heap,        \* address -> object
  nextId,      \* history: the id of the next object made
  encoders,    \* the m_literals of the encoders being filled: no root
  cstack,      \* C++ variable -> word: the ambiguous root
  stack,       \* m_stack: the exact root
  bp,          \* m_bp + 1
  source,      \* what is left of the source
  pc,          \* where the mutator is
  path,        \* the instructions still to be interpreted
  gc,          \* "off", "flipped", or scanning: "up" or "down" the heap
  white,       \* the condemned addresses
  nailed,      \* those that stay where they are
  grey,        \* the addresses still to be scanned
  flips,       \* collections started
  messages,    \* the arena's message queue
  confused     \* history: what has misled or escaped a fix, a subset of Reasons

mutator   == <<encoders, cstack, stack, bp, source, pc, path>>
collector == <<gc, white, nailed, grey, flips, confused>>
vars      == <<heap, nextId, mutator, collector, messages>>

-----------------------------------------------------------------------------
(***************************************************************************)
(* Words and objects.                                                      *)
(***************************************************************************)
Number(n)      == [a |-> -n, id |-> 0, tag |-> 1]
Nil            == [a |-> 0, id |-> 0, tag |-> 0]
Undefined      == [a |-> 0, id |-> 0, tag |-> 2]
\* Mutant: an object's tag is a smi's.
TagOfOdd(kind) == CASE kind = "Double" -> 0 [] kind = "String" -> 12 [] OTHER -> 15
TagOf(kind)    == CASE kind = "Double" -> 0 [] kind = "String" -> 12 [] OTHER -> 14
Prims          == {"Double", "String"}
Forwarders     == {"kFwd", "kFwd16"}
Kinds          == Prims \union Forwarders \union {"free", "EnvironmentMap", "Environment",
                    "PlainArray", "CharArray", "Function", "Closure"}
Variables      == {"m_env", "m_closure", "bytecode", "envMap", "literals", "fun", "closure",
                   "args", "locals", "nArgs", "val"}
NoVariables    == [v \in Variables |-> Nil]

\* What can mislead a fix or escape it: an ObjectDesc that was forwarded, an element
\* that was never written, a literal that only its encoder has, and, as a bound, a heap
\* without a free address.
Reasons == {"forwarder", "unwritten", "literal", "no room"}

\* The objects that mpsScan finds words in.
Scanned == {"EnvironmentMap", "Environment", "PlainArray", "Function", "Closure"}
At(w)   == heap[w.a]
Free    == {a \in Addresses : heap[a].kind = "free"}

(***************************************************************************)
(* mpsFwd and mpsIsFwd.  word is what mpsIsFwd returns: the word after the *)
(* header, or the first one of a PrimDesc.  A primitive of 16 bytes gets   *)
(* the new address there; an ObjectDesc only a kind and a length, in its   *)
(* header.  Every string here is of up to six chars.                       *)
(***************************************************************************)
Fwd(o, new) ==
  IF o.kind \in Prims THEN [o EXCEPT !.kind = "kFwd16", !.word = [Nil EXCEPT !.a = new]]
  ELSE [o EXCEPT !.kind = "kFwd"]

IsFwd(o) == IF o.kind \in Forwarders THEN o.word.a ELSE 0

(***************************************************************************)
(* FIXOOP on one word, with the fix it calls.  c holds the heap, the grey  *)
(* set and confused as the scan changes them, and the words fixed so far.  *)
(***************************************************************************)
\* Mutant: the tag is not put back.
FixOopUntagged(c, w) ==
  [c EXCEPT !.fixed = Append(@, IF w.a \in white THEN [w EXCEPT !.tag = 0] ELSE w)]

FixOop(c, w) ==
  LET o       == c.heap[w.a]
      room    == {a \in Addresses : c.heap[a].kind = "free"}
      new     == Min(room)
      reasons == {r \in Reasons : \/ r = "forwarder" /\ o.kind = "kFwd"
                                  \/ r = "unwritten" /\ w.id = 0
                                  \/ r = "no room" /\ room = {}}
  IN  IF w.a \notin white THEN [c EXCEPT !.fixed = Append(@, w)]
      ELSE IF IsFwd(o) # 0
        THEN [c EXCEPT !.fixed = Append(@, [w EXCEPT !.a = IsFwd(o)]), !.confused = @ \union reasons]
      ELSE IF w.a \in nailed \/ o.kind = "free" \/ room = {}
        THEN [c EXCEPT !.fixed = Append(@, w), !.confused = @ \union reasons]
      ELSE [heap     |-> [c.heap EXCEPT ![new] = o, ![w.a] = Fwd(o, new)],
            grey     |-> IF o.kind \in Scanned THEN c.grey \union {new} ELSE c.grey,
            confused |-> c.confused \union reasons,
            fixed    |-> Append(c.fixed, [w EXCEPT !.a = new])]

\* After the first n of the words, for each n.
FixedUpTo(words) ==
  LET after[n \in 0 .. Len(words)] ==
        IF n = 0 THEN [heap |-> heap, grey |-> grey, confused |-> confused, fixed |-> <<>>]
        ELSE FixOop(after[n - 1], words[n])
  IN  after

FixAll(words) == FixedUpTo(words)[Len(words)]

-----------------------------------------------------------------------------
(***************************************************************************)
(* The collector.                                                          *)
(***************************************************************************)
\* scanArea, from the C stack's top to the marker: it may also meet old words there.
Ambiguous == {cstack[v].a : v \in Variables} \intersect Addresses

\* Bound: no stray word, or one for each object of StrayKinds but at most one.
Stray ==
  LET some == {a \in Addresses : heap[a].kind \in StrayKinds}
  IN  {{}} \union {some \ {a} : a \in some \union {0}}

\* What the program does with a wrong reference is undefined, and left out.  Bound: the
\* heap has a free address.
Running == gc = "off" /\ confused = {} /\ Free # {}

StartCollection ==
  /\ flips' = flips + 1
  /\ white' = Addresses \ Free
  /\ \E old \in Stray : nailed' = (Ambiguous \ Free) \union old
  /\ grey' = {a \in nailed' : heap[a].kind \in Scanned}
  /\ gc' = "flipped"
  /\ messages' = Append(messages, "gc_start")
  /\ confused' = IF \E i \in DOMAIN encoders : encoders[i] # <<>> THEN {"literal"} ELSE {}
  /\ UNCHANGED <<heap, nextId>>

\* An allocation finds its buffer full.
Flip ==
  /\ Running /\ pc \in CollectAt /\ flips < MaxFlips
  /\ StartCollection
  /\ UNCHANGED mutator

\* scanOopVec; the root is created by the Interpreter's constructor.
RootCreated == pc \notin {"compile", "envMap", "names", "fun", "main", "args0", "locals0", "env0"}

ScanRoot ==
  /\ gc = "flipped"
  /\ gc' \in {"up", "down"}
  /\ LET c == FixAll(IF RootCreated THEN stack ELSE <<>>)
     IN  /\ heap' = c.heap /\ grey' = c.grey /\ confused' = c.confused
         /\ stack' = IF RootCreated THEN c.fixed ELSE stack
  /\ UNCHANGED <<nextId, encoders, cstack, bp, source, pc, path, white, nailed, flips, messages>>

\* The words that mpsScan fixes besides the one after the header.
WordsOf(o) == IF o.kind \in Scanned THEN o.rest ELSE <<>>

\* mpsScan of one object.
ScanObject(a) ==
  /\ LET o == heap[a]
         n == Len(WordsOf(o))
         c == FixAll(WordsOf(o) \o IF o.kind \in Scanned THEN <<o.word>> ELSE <<>>)
     IN  /\ heap' = IF o.kind \notin Scanned THEN heap
                    ELSE [c.heap EXCEPT ![a].word = c.fixed[n + 1],
                                        ![a].rest = SubSeq(c.fixed, 1, n)]
         /\ grey' = c.grey \ {a} /\ confused' = c.confused
  /\ UNCHANGED <<nextId, mutator, gc, white, nailed, flips, messages>>

\* Bound: of the orders in which grey objects may be scanned, up and down the heap.
ScanUp   == gc = "up" /\ grey # {} /\ ScanObject(Min(grey))
ScanDown == gc = "down" /\ grey # {} /\ ScanObject(Max(grey))

Reclaim ==
  /\ gc \in {"up", "down"} /\ grey = {}
  /\ heap' = [a \in Addresses |->
                IF a \in white \ nailed THEN [heap[a] EXCEPT !.kind = "free", !.id = 0] ELSE heap[a]]
  /\ gc' = "off" /\ white' = {} /\ nailed' = {}
  /\ messages' = Append(messages, "gc")
  /\ UNCHANGED <<nextId, mutator, grey, flips, confused>>

-----------------------------------------------------------------------------
(***************************************************************************)
(* Allocation: reserve, initialise, commit.  A flip in between makes the   *)
(* commit fail and the loop run again, so it is a flip before all three.   *)
(* makeArray writes no element: each is zero or what the block held before.*)
(***************************************************************************)
NewAt   == Min(Free)

Made(kind, word, rest) ==
  [o |-> [id |-> nextId, kind |-> kind, word |-> word, rest |-> rest],
   w |-> [a |-> NewAt, id |-> nextId, tag |-> TagOf(kind)]]

Alloc(made) ==
  /\ heap' = [heap EXCEPT ![NewAt] = made.o]
  /\ nextId' = nextId + 1

Garbage(n) ==
  {[i \in 1 .. n |-> Nil],
   [i \in 1 .. n |-> IF i \in DOMAIN heap[NewAt].rest THEN [heap[NewAt].rest[i] EXCEPT !.id = 0]
                     ELSE Nil]}

Step(at, to) ==
  /\ Running /\ pc = at /\ pc' = to
  /\ UNCHANGED <<collector, messages>>

(***************************************************************************)
(* Compiling.  litNum and litStr keep the new literal in m_literals only;  *)
(* makeFun has its parts in C++ variables, and its result goes to the      *)
(* literals of the encoder around it, or to main2.                         *)
(***************************************************************************)
Enter ==
  /\ Step("compile", "compile") /\ Head(source).k = "enter"
  /\ encoders' = Append(encoders, <<>>)
  /\ source' = Tail(source)
  /\ UNCHANGED <<heap, nextId, cstack, stack, bp, path>>

Literal ==
  /\ Step("compile", "compile") /\ Head(source).k \in {"num", "str"}
  /\ LET made == Made(IF Head(source).k = "num" THEN "Double" ELSE "String", Nil, <<>>)
     IN  Alloc(made) /\ encoders' = [encoders EXCEPT ![Len(encoders)] = Append(@, made.w)]
  /\ source' = Tail(source)
  /\ UNCHANGED <<cstack, stack, bp, path>>

MakeCharArray ==
  /\ Step("compile", "envMap") /\ Head(source).k = "exit"
  /\ LET made == Made("CharArray", Number(3), <<>>)
     IN  Alloc(made) /\ cstack' = [cstack EXCEPT !.bytecode = made.w]
  /\ UNCHANGED <<encoders, stack, bp, source, path>>

\* makeEnvironmentMap: the map first, then each name.
MakeEnvironmentMap ==
  /\ Step("envMap", "names")
  /\ \E rest \in Garbage(Head(source).params + Head(source).locals) :
       LET made == Made("EnvironmentMap", Number(Head(source).params), rest)
       IN  Alloc(made) /\ cstack' = [cstack EXCEPT !.envMap = made.w]
  /\ UNCHANGED <<encoders, stack, bp, source, path>>

NamesMade == {i \in DOMAIN At(cstack.envMap).rest : At(cstack.envMap).rest[i].id # 0}

MakeName ==
  /\ Step("names", "names") /\ NamesMade # DOMAIN At(cstack.envMap).rest
  /\ LET made == Made("String", Nil, <<>>)
     IN  /\ heap' = [heap EXCEPT ![NewAt] = made.o,
                                 ![cstack.envMap.a].rest[Cardinality(NamesMade) + 1] = made.w]
         /\ nextId' = nextId + 1
  /\ UNCHANGED <<encoders, cstack, stack, bp, source, path>>

\* makeArray and the memcpy of the literals into it.
MakeLiterals ==
  /\ Step("names", "fun") /\ NamesMade = DOMAIN At(cstack.envMap).rest
  /\ LET made == Made("PlainArray", Number(Len(Last(encoders))), Last(encoders))
     IN  Alloc(made) /\ cstack' = [cstack EXCEPT !.literals = made.w]
  /\ UNCHANGED <<encoders, stack, bp, source, path>>

MakeFunction ==
  /\ Step("fun", IF Len(encoders) = 1 THEN "main" ELSE "compile")
  /\ LET made  == Made("Function", cstack.envMap, <<cstack.bytecode, cstack.literals>>)
         outer == Front(encoders)
     IN  /\ Alloc(made)
         /\ encoders' = IF outer = <<>> THEN <<>> ELSE Append(Front(outer), Append(Last(outer), made.w))
         /\ cstack' = IF outer = <<>> THEN [NoVariables EXCEPT !.fun = made.w] ELSE NoVariables
  /\ source' = Tail(source)
  /\ UNCHANGED <<stack, bp, path>>

\* main2's closure, and the Interpreter's constructor with its environment.
MakeMainClosure ==
  /\ Step("main", "args0")
  /\ LET made == Made("Closure", cstack.fun, <<Undefined>>)
     IN  Alloc(made) /\ cstack' = [cstack EXCEPT !.closure = made.w, !.m_closure = made.w]
  /\ UNCHANGED <<encoders, stack, bp, source, path>>

-----------------------------------------------------------------------------
(***************************************************************************)
(* makeEnvironment, for the constructor (at "args0") and for a call.       *)
(***************************************************************************)
MapOf(closure) == At(At(closure).word).word      \* closure->m_func->m_map

MakeArgs(at, to) ==
  /\ Step(at, to)
  /\ \E rest \in Garbage(Max({-At(MapOf(cstack.closure)).word.a, -cstack.nArgs.a})) :
       LET made == Made("PlainArray", Number(Len(rest)), rest)
       IN  Alloc(made) /\ cstack' = [cstack EXCEPT !.args = made.w]
  /\ UNCHANGED <<encoders, stack, bp, source, path>>

MakeLocals(at, to) ==
  /\ Step(at, to)
  /\ LET map == At(MapOf(cstack.closure))
     IN  \E rest \in Garbage(Len(map.rest) + map.word.a) :
           LET made == Made("PlainArray", Number(Len(rest)), rest)
           IN  Alloc(made) /\ cstack' = [cstack EXCEPT !.locals = made.w]
  /\ UNCHANGED <<encoders, stack, bp, source, path>>

MadeEnvironment(prev) ==
  Made("Environment", MapOf(cstack.closure), <<prev, cstack.args, cstack.locals>>)

StartInterpreter ==
  /\ Step("env0", "fetch")
  /\ LET made == MadeEnvironment(Undefined)
     IN  Alloc(made) /\ cstack' = [NoVariables EXCEPT !.m_env = made.w, !.m_closure = cstack.m_closure]
  /\ UNCHANGED <<encoders, stack, bp, source, path>>

(***************************************************************************)
(* Instructions.  Which slot a name is found in and how many arguments a   *)
(* call has is left open.                                                  *)
(***************************************************************************)
Operands == Len(stack) - bp

Fetch(op, to) ==
  /\ Step("fetch", to) /\ path # <<>> /\ Head(path) = op
  /\ path' = Tail(path)
  /\ UNCHANGED <<nextId, encoders, source>>

PushLiteral ==
  /\ Fetch("kPushLiteral", "poll")
  /\ LET literals == At(At(At(cstack.m_closure).word).rest[2]).rest
     IN  \E i \in DOMAIN literals :
           literals[i].tag # TagOf("String") /\ stack' = Append(stack, literals[i])
  /\ UNCHANGED <<heap, cstack, bp>>

\* The slots of the current environment: its arguments and its locals.
Slots == {<<array.a, i>> : array \in {At(cstack.m_env).rest[2], At(cstack.m_env).rest[3]}, i \in 1 .. 2}

Resolve ==
  /\ Fetch("kResolve", "poll")
  /\ \E s \in Slots : s[2] \in DOMAIN heap[s[1]].rest /\ stack' = Append(stack, heap[s[1]].rest[s[2]])
  /\ UNCHANGED <<heap, cstack, bp>>

ResolvedStore ==
  /\ Fetch("kResolvedStore", "poll") /\ Operands > 0
  /\ \E s \in Slots : s[2] \in DOMAIN heap[s[1]].rest /\ heap' = [heap EXCEPT ![s[1]].rest[s[2]] = Last(stack)]
  /\ UNCHANGED <<cstack, stack, bp>>

IsA(w, kind) == w.id # 0 /\ w.a \in Addresses /\ At(w).kind = kind

\* kCreateClosure: pop, makeClosure, push.
PopFunction ==
  /\ Fetch("kCreateClosure", "closure") /\ Operands > 0 /\ IsA(Last(stack), "Function")
  /\ cstack' = [cstack EXCEPT !.fun = Last(stack)]
  /\ stack' = Front(stack)
  /\ UNCHANGED <<heap, bp>>

CreateClosure ==
  /\ Step("closure", "poll")
  /\ LET made == Made("Closure", cstack.fun, <<cstack.m_env>>)
     IN  Alloc(made) /\ stack' = Append(stack, made.w)
  /\ cstack' = [cstack EXCEPT !.fun = Nil]
  /\ UNCHANGED <<encoders, bp, source, path>>

\* kCall: pop, makeEnvironment, then the arguments and the frame.
PopClosure ==
  /\ Fetch("kCall", "args") /\ Operands > 0 /\ IsA(Last(stack), "Closure")
  /\ \E n \in 0 .. Operands - 1 :
       cstack' = [cstack EXCEPT !.closure = Last(stack), !.nArgs = Number(n)]
  /\ stack' = Front(stack)
  /\ UNCHANGED <<heap, bp>>

Call ==
  /\ Step("env", "poll")
  /\ LET made  == MadeEnvironment(cstack.m_env)
         nArgs == -cstack.nArgs.a
         under == Len(stack) - nArgs
         args  == Reverse(SubSeq(stack, under + 1, Len(stack)))
     IN  /\ heap' = [heap EXCEPT ![NewAt] = made.o,
                                 ![cstack.args.a].rest =
                                    args \o SubSeq(@, nArgs + 1, Len(@))]
         /\ nextId' = nextId + 1
         /\ stack' = SubSeq(stack, 1, under)
                       \o <<Number(0), Number(bp), cstack.m_closure, cstack.m_env>>
         /\ bp' = under + 4
         /\ cstack' = [NoVariables EXCEPT !.m_env = made.w, !.m_closure = cstack.closure]
  /\ UNCHANGED <<encoders, source, path>>

\* kReturn: the value is in a C++ variable while mps_arena_collect runs.
PopValue ==
  /\ Fetch("kReturn", IF Len(stack) = 1 THEN "halted" ELSE "collect") /\ Operands = 1
  /\ cstack' = [cstack EXCEPT !.val = Last(stack)]
  /\ stack' = Front(stack)
  /\ UNCHANGED <<heap, bp>>

ArenaCollect ==
  /\ Running /\ pc = "collect"
  /\ StartCollection
  /\ pc' = "restore"
  /\ UNCHANGED <<encoders, cstack, stack, bp, source, path>>

\* Mutant: the two references are popped in the order they were pushed in.
ReturnSwapped ==
  /\ Step("restore", "poll")
  /\ LET base == Len(stack) - 4
     IN  /\ cstack' = [NoVariables EXCEPT !.m_env = stack[base + 3], !.m_closure = stack[base + 4]]
         /\ bp' = -stack[base + 2].a
         /\ stack' = Append(SubSeq(stack, 1, base), cstack.val)
  /\ UNCHANGED <<heap, nextId, encoders, source, path>>

Return ==
  /\ Step("restore", "poll")
  /\ LET base == Len(stack) - 4
     IN  /\ cstack' = [NoVariables EXCEPT !.m_env = stack[base + 4], !.m_closure = stack[base + 3]]
         /\ bp' = -stack[base + 2].a
         /\ stack' = Append(SubSeq(stack, 1, base), cstack.val)
  /\ UNCHANGED <<heap, nextId, encoders, source, path>>

\* Mutant: one message is read after each instruction.
PollOnce ==
  /\ Running /\ pc = "poll" /\ pc' = "fetch"
  /\ messages' = IF messages = <<>> THEN <<>> ELSE Tail(messages)
  /\ UNCHANGED <<heap, nextId, encoders, cstack, stack, bp, source, path, collector>>

\* poll, one round of its loop.
Poll ==
  /\ Running /\ pc = "poll"
  /\ IF messages = <<>> THEN pc' = "fetch" /\ UNCHANGED messages
     ELSE messages' = Tail(messages) /\ UNCHANGED pc
  /\ UNCHANGED <<heap, nextId, encoders, cstack, stack, bp, source, path, collector>>

-----------------------------------------------------------------------------
Init ==
  /\ heap = [a \in Addresses |-> [id |-> 0, kind |-> "free", word |-> Nil, rest |-> <<>>]]
  /\ nextId = 1
  /\ encoders = <<>>
  /\ cstack = NoVariables
  /\ stack = <<>>
  /\ bp = 0
  /\ source \in Sources
  /\ pc = "compile"
  /\ path \in Paths
  /\ gc = "off"
  /\ white = {} /\ nailed = {} /\ grey = {}
  /\ flips = 0
  /\ messages = <<>>
  /\ confused = {}

Collect == Flip \/ ScanRoot \/ ScanUp \/ ScanDown \/ Reclaim

Compile == Enter \/ Literal \/ MakeCharArray \/ MakeEnvironmentMap \/ MakeName \/ MakeLiterals
           \/ MakeFunction \/ MakeMainClosure \/ MakeArgs("args0", "locals0")
           \/ MakeLocals("locals0", "env0") \/ StartInterpreter

Interpret == PushLiteral \/ Resolve \/ ResolvedStore \/ PopFunction \/ CreateClosure \/ PopClosure
             \/ MakeArgs("args", "locals") \/ MakeLocals("locals", "env") \/ Call \/ PopValue
             \/ ArenaCollect \/ Return \/ Poll

Next == Collect \/ Compile \/ Interpret

Spec == Init /\ [][Next]_vars
-----------------------------------------------------------------------------
(***************************************************************************)
(* Properties.                                                             *)
(***************************************************************************)
Words == [a : Int, id : 0 .. nextId, tag : {0, 1, 2, 12, 14}]

\* Every variable has its type: objects at addresses, roots of words, and a
\* collector that is off when nothing is condemned.
TypeOK ==
  /\ heap \in [Addresses -> [id : 0 .. nextId, kind : Kinds, word : Words, rest : Seq(Words)]]
  /\ cstack \in [Variables -> Words]
  /\ stack \in Seq(Words)
  /\ encoders \in Seq(Seq(Words))
  /\ bp \in 0 .. Len(stack)
  /\ flips \in Nat
  /\ gc \in {"off", "flipped", "up", "down"}
  /\ nailed \subseteq white /\ white \subseteq Addresses /\ grey \subseteq Addresses
  /\ gc = "off" => white = {} /\ grey = {}
  /\ messages \in Seq({"gc_start", "gc"})
  /\ confused \subseteq Reasons

\* The word leads to the object it was made for, whole, by the tag of its kind.
Follows(w) ==
  /\ w.a \in Addresses
  /\ At(w).id = w.id
  /\ At(w).kind \in Kinds \ (Forwarders \union {"free"})
  /\ w.tag = TagOf(At(w).kind)

\* The words that can be reached from roots by way of words that follow.
Onward(w) == IF w.id # 0 /\ Follows(w) THEN ToSet(Append(At(w).rest, At(w).word)) ELSE {}

ReachedUpTo(roots) ==
  LET upTo[n \in 0 .. Cardinality(Addresses)] ==
        IF n = 0 THEN roots
        ELSE LET words == upTo[n - 1] IN words \union UNION {Onward(w) : w \in words}
  IN  upTo

Reached(roots) == ReachedUpTo(roots)[Cardinality(Addresses)]

Rooted == {cstack[v] : v \in Variables} \union ToSet(stack)

Faithful(words) ==
  \A w \in words : w.id # 0 =>
    /\ Follows(w)
    /\ \A v \in words : v.id = w.id => v.a = w.a

\* Whenever the mutator runs, every word it can reach from m_stack and the C stack
\* leads to the object it was made for, and all that mean one object lead to one
\* place: a collection loses, mixes up and splits nothing, as long as it met no
\* ObjectDesc that was already forwarded and no element that was never written, and
\* started when no function that was being compiled had a literal.
ReferencesFollow == gc = "off" /\ confused = {} => Faithful(Reached(Rooted))

\* What the interpreter reads by way of a closure and of an environment.
IsClosure(w) ==
  /\ IsA(w, "Closure")
  /\ LET func == At(w).word
     IN  IsA(func, "Function") /\ IsA(At(func).word, "EnvironmentMap") /\ IsA(At(func).rest[2], "PlainArray")

IsEnvironment(w) ==
  /\ IsA(w, "Environment")
  /\ IsA(At(w).word, "EnvironmentMap") /\ \A i \in {2, 3} : IsA(At(w).rest[i], "PlainArray")

\* The interpreter casts without a look: its registers, the closure being called and the
\* words a return takes from m_stack lead to a Closure and an Environment with all their
\* parts, whatever was moved since they were stored.
CastsHold == gc = "off" /\ confused = {} /\ RootCreated =>
  /\ IsClosure(cstack.m_closure) /\ IsEnvironment(cstack.m_env)
  /\ pc \in {"args", "locals", "env"} => IsClosure(cstack.closure)
  /\ pc = "restore" => IsEnvironment(stack[bp]) /\ IsClosure(stack[bp - 1])

\* No instruction starts with a message of an earlier one in the arena's queue.
QueueDrained == pc \in {"fetch", "halted"} /\ path \notin Paths => messages = <<>>

\* A forwarded object's new address is kept for isfwd ("m_fwdPtr", Object.h:258):
\* references follow after a collection that met forwarded objects too.
AllReferencesFollow ==
  gc = "off" /\ confused \subseteq {"forwarder"} => Faithful(Reached(Rooted))
=============================================================================
