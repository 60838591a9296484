---------------------------- MODULE BytecodeGen ----------------------------
(***************************************************************************)
(* The compiler: the Hoister and the BytecodeGenerator (BytecodeGen.cc),   *)
(* with the BytecodeEncoder they drive (Bytecode.cc), for every syntax     *)
(* tree up to a size.  The tree is not built first: each visitXxx chooses  *)
(* what its children are when it is about to visit them.  todo is the      *)
(* visitors' call stack, the work that is left, the next item first; an    *)
(* item that stands for the rest of a visitXxx carries its local variables *)
(* and, if it is of a function or an if, as history, the encoder it is for.*)
(*                                                                         *)
(* The nodes are those the generator compiles: calls with arguments,       *)
(* functions with formals and a body, declarations with an initialiser.    *)
(* The others throw from accept() or dereference a null list or expression *)
(* before any code is made.  A declaration of several names is as many     *)
(* declarations.  The Hoister's pass is folded into this one: it visits    *)
(* the same declarations and fills the DeclEnv of each function, formals   *)
(* first, that exitFunction reads.                                         *)
(***************************************************************************)
EXTENDS Bytecode, SequencesExt

CONSTANTS
  NameOrder,    \* the variable names, in the order of std::map
  LabelNames,   \* the label names
  NodeKinds,    \* bound: the kinds of node the trees are made of
  MaxNodes,     \* bound: inner nodes of the tree
  MaxParams,    \* bound: formals of a function
  MaxArgs       \* bound: arguments of a call

ASSUME BoundsAssumption ==
  MaxNodes \in Nat /\ MaxParams \in Nat \ {0} /\ MaxArgs \in Nat \ {0}

Names   == ToSet(NameOrder)

\* The keys of a std::map.
ASSUME NamesAssumption == NameOrder \in Seq(Names) /\ IsInjective(NameOrder)

NoLabel == "no label"      \* break;

VARIABLES
  todo,         \* what the visitors have still to do
  fuel,         \* inner nodes the tree may still have
  gens,         \* m_gens, the encoders of the functions being compiled, and for
                \* each the DeclEnv of its function and, as history, its breaks
                \* and where the statements that have been left ended
  labelDescs,   \* m_labelDescs; depth is history, the encoder it was made for
  nextLabels,   \* m_nextStmtLabels
  funs,         \* the Functions made, in the order of makeFun
  nDoubles,     \* doubles made for number literals
  nStmts,       \* statements entered; names an IfNode
  status,       \* "compiling", "done", "error" (thrown) or "undefined"
  crossed       \* history: a break has matched a label of another function

vars == <<todo, fuel, gens, labelDescs, nextLabels, funs, nDoubles, nStmts, status, crossed>>

-----------------------------------------------------------------------------
(***************************************************************************)
(* Encoders.                                                               *)
(***************************************************************************)
Undeclared == [kind |-> "none", idx |-> 0]
Local      == [kind |-> "local", idx |-> 0]
Arg(i)     == [kind |-> "arg", idx |-> i]

\* Mutant: formals are numbered from one.
DeclareArgsFromOne(formals) ==
  [n \in Names |->
     LET at == {i \in DOMAIN formals : formals[i] = n}
     IN  IF at = {} THEN Undeclared ELSE Arg(CHOOSE i \in at : \A j \in at : j <= i)]

\* A formal's name keeps the index of its last occurrence.
DeclareArgs(formals) ==
  [n \in Names |->
     LET at == {i \in DOMAIN formals : formals[i] = n}
     IN  IF at = {} THEN Undeclared ELSE Arg((CHOOSE i \in at : \A j \in at : j <= i) - 1)]

NewEncoder(formals) ==
  [code |-> <<>>, literals |-> <<>>, decls |-> DeclareArgs(formals), breaks |-> {}, ends |-> {}]

coder == Last(gens)

pos == Len(coder.code)

\* The encoder with cells appended, and with a literal appended and named.
Emitted(gen, cells) == [gen EXCEPT !.code = @ \o cells]

\* Mutant: the number of a literal is a signed char.
EmittedLiteralSigned(gen, op, literal) ==
  [gen EXCEPT !.code = @ \o <<op, Len(gen.literals) % (ByteSize \div 2)>>,
              !.literals = Append(@, literal)]

EmittedLiteral(gen, op, literal) ==
  [gen EXCEPT !.code = @ \o <<op, Len(gen.literals) % ByteSize>>,
              !.literals = Append(@, literal)]

SetCoder(gen) == gens' = [gens EXCEPT ![Len(gens)] = gen]

\* Mutant: the target is taken relative to the opcode.
ReplaceJumpTargetFromOpcode(code, at, newTarget) ==
  [code EXCEPT ![at - 1] = HighByte(newTarget - (at - 3)), ![at] = LowByte(newTarget - (at - 3))]

\* The two cells before pos, 0-based, become newTarget relative to pos.
ReplaceJumpTarget(code, at, newTarget) ==
  [code EXCEPT ![at - 1] = HighByte(newTarget - at), ![at] = LowByte(newTarget - at)]

(***************************************************************************)
(* exitFunction's walk of the DeclEnv.  A formal whose name was declared   *)
(* again, by a later formal or a local, leaves a null name behind unless   *)
(* it was the last one; makeString(NULL) follows.                          *)
(***************************************************************************)
ParamCount(decls) ==
  LET indices == {decls[n].idx : n \in {m \in Names : decls[m].kind = "arg"}}
  IN  IF indices = {} THEN 0 ELSE 1 + CHOOSE i \in indices : \A j \in indices : j <= i

HasNullParam(decls) == \E i \in 0 .. ParamCount(decls) - 1 : \A n \in Names : decls[n] # Arg(i)

\* The elements of s that are in S, in their order.
Filtered(s, S) ==
  LET upTo[i \in 0 .. Len(s)] ==
        IF i = 0 THEN <<>> ELSE IF s[i] \in S THEN Append(upTo[i - 1], s[i]) ELSE upTo[i - 1]
  IN  upTo[Len(s)]

\* Mutant: the walk for the locals takes every name.
MakeFunOfAllNames(gen) ==
  [params   |-> [i \in 1 .. ParamCount(gen.decls) |-> CHOOSE n \in Names : gen.decls[n] = Arg(i - 1)],
   locals   |-> Filtered(NameOrder, {n \in Names : gen.decls[n] # Undeclared}),
   code     |-> gen.code,
   literals |-> gen.literals]

MakeFun(gen) ==
  [params   |-> [i \in 1 .. ParamCount(gen.decls) |-> CHOOSE n \in Names : gen.decls[n] = Arg(i - 1)],
   locals   |-> Filtered(NameOrder, {n \in Names : gen.decls[n] = Local}),
   code     |-> gen.code,
   literals |-> gen.literals]

-----------------------------------------------------------------------------
Doing(kind)    == status = "compiling" /\ todo # <<>> /\ Head(todo).k = kind
AtExpr(node)   == Doing("Expr") /\ node \in NodeKinds
AtStmt(node)   == (Doing("Stmt") \/ Doing("StmtListItem")) /\ node \in NodeKinds
Item(kind)     == [k |-> kind]
Exit(depth)    == [k |-> "ExitFunction", depth |-> depth]
Replace(items) == todo' = items \o Tail(todo)
Spend          == fuel > 0 /\ fuel' = fuel - 1

Stop(how) ==
  /\ status' = how
  /\ UNCHANGED <<todo, fuel, gens, labelDescs, nextLabels, funs, nDoubles, nStmts, crossed>>

OnlyCode == UNCHANGED <<fuel, labelDescs, nextLabels, funs, nDoubles, nStmts, status, crossed>>
OnlyTree == UNCHANGED <<gens, labelDescs, nextLabels, funs, nDoubles, nStmts, status, crossed>>

(***************************************************************************)
(* Expressions.                                                            *)
(***************************************************************************)
VisitIdentifier ==
  /\ AtExpr("Identifier")
  /\ \E n \in Names : SetCoder(EmittedLiteral(coder, kResolve, StringOop(n)))
  /\ Replace(<<>>) /\ OnlyCode

VisitNumber ==
  /\ AtExpr("Number")
  /\ SetCoder(EmittedLiteral(coder, kPushLiteral, Double(nDoubles + 1)))
  /\ nDoubles' = nDoubles + 1
  /\ Replace(<<>>)
  /\ UNCHANGED <<fuel, labelDescs, nextLabels, funs, nStmts, status, crossed>>

VisitBinOp ==
  /\ AtExpr("BinOp") /\ Spend
  /\ Replace(<<Item("Expr"), Item("Expr"), Item("Add")>>)
  /\ OnlyTree

VisitFunCall ==
  /\ AtExpr("FunCall") /\ Spend
  /\ \E n \in 1 .. MaxArgs :
       Replace([i \in 1 .. n + 1 |-> Item("Expr")] \o <<[k |-> "Call", args |-> n]>>)
  /\ OnlyTree

\* An arrow function's expression body is a return statement.
VisitFunExpr ==
  /\ AtExpr("FunExpr") /\ Spend
  /\ \E n \in 1 .. MaxParams : \E formals \in [1 .. n -> Names] :
       gens' = Append(gens, NewEncoder(formals))
  /\ \E body \in {<<Item("Expr"), Item("Return")>>, <<Item("StmtListItem"), Item("More")>>} :
       Replace(body \o <<Exit(Len(gens) + 1)>>)
  /\ UNCHANGED <<labelDescs, nextLabels, funs, nDoubles, nStmts, status, crossed>>

\* What visitBinOp, visitFunCall, visitExprStmt and visitReturn emit at the end.
EmitLast ==
  /\ \/ Doing("Add")    /\ SetCoder(Emitted(coder, <<kAdd>>))
     \/ Doing("Call")   /\ SetCoder(Emitted(coder, <<kCall, Head(todo).args % ByteSize>>))
     \/ Doing("Pop")    /\ SetCoder(Emitted(coder, <<kPop>>))
     \/ Doing("Return") /\ SetCoder(Emitted(coder, <<kReturn>>))
  /\ Replace(<<>>) /\ OnlyCode

-----------------------------------------------------------------------------
(***************************************************************************)
(* Statements.  A statement list's items may also be declarations.         *)
(***************************************************************************)
MoreStmts ==
  /\ Doing("More")
  /\ \/ Replace(<<>>) /\ UNCHANGED fuel
     \/ Spend /\ Replace(<<Item("StmtListItem"), Item("More")>>)
  /\ OnlyTree

VisitExprStmt ==
  /\ AtStmt("ExprStmt")
  /\ Replace(<<Item("Expr"), Item("Pop")>>)
  /\ OnlyTree /\ UNCHANGED fuel

VisitReturn ==
  /\ AtStmt("Return")
  /\ Replace(<<Item("Expr"), Item("Return")>>)
  /\ OnlyTree /\ UNCHANGED fuel

\* visitContinue is not overridden: nothing is emitted.
VisitContinue ==
  /\ AtStmt("Continue")
  /\ Replace(<<>>)
  /\ OnlyTree /\ UNCHANGED fuel

VisitDecl ==
  /\ Doing("StmtListItem") /\ "Decl" \in NodeKinds
  /\ \E n \in Names :
       /\ SetCoder([coder EXCEPT !.decls[n] = Local])
       /\ Replace(<<Item("Expr"), [k |-> "Store", name |-> n]>>)
  /\ OnlyCode

\* The rest of visitSingleDecl, after the initialiser.
StoreDecl ==
  /\ Doing("Store")
  /\ SetCoder(Emitted(EmittedLiteral(coder, kResolvedStore, StringOop(Head(todo).name)), <<kPop>>))
  /\ Replace(<<>>) /\ OnlyCode

VisitLabel ==
  /\ AtStmt("Label") /\ Spend
  /\ \E l \in LabelNames : nextLabels' = Append(nextLabels, l)
  /\ Replace(<<Item("Stmt")>>)
  /\ UNCHANGED <<gens, labelDescs, funs, nDoubles, nStmts, status, crossed>>

(***************************************************************************)
(* visitBreak: the innermost descriptor, of any function, with the label's *)
(* name, or the innermost one when there is no label.  With neither, the   *)
(* label is reported: a null pointer if there is none, else an exception.  *)
(***************************************************************************)
VisitBreak ==
  /\ AtStmt("Break")
  /\ \E l \in LabelNames \union {NoLabel} :
       LET matches == {i \in DOMAIN labelDescs : l \in {NoLabel, labelDescs[i].ident}}
           d       == CHOOSE i \in matches : \A j \in matches : j <= i
       IN  \/ /\ matches = {}
              /\ Stop(IF l = NoLabel THEN "undefined" ELSE "error")
           \/ /\ matches # {}
              /\ SetCoder([Emitted(coder, <<kJump, 0, 0>>)
                             EXCEPT !.breaks = @ \union {[at |-> pos + 3, stmt |-> labelDescs[d].stmt]}])
              /\ labelDescs' = [labelDescs EXCEPT ![d].breaks = Append(@, pos + 3)]
              /\ crossed' = (crossed \/ labelDescs[d].depth # Len(gens))
              /\ Replace(<<>>)
              /\ UNCHANGED <<fuel, nextLabels, funs, nDoubles, nStmts, status>>

(***************************************************************************)
(* visitIf.  enterStmt binds every pending label to one descriptor, which  *)
(* has the name of the last and is pushed once for each.                   *)
(***************************************************************************)
VisitIf ==
  /\ AtStmt("If") /\ Spend
  /\ labelDescs' = IF nextLabels = <<>> THEN labelDescs
                   ELSE Append(labelDescs,
                               [ident |-> Last(nextLabels), stmt |-> nStmts + 1, breaks |-> <<>>,
                                copies |-> Len(nextLabels), depth |-> Len(gens)])
  /\ nextLabels' = <<>>
  /\ nStmts' = nStmts + 1
  /\ \E else \in BOOLEAN :
       Replace(<<Item("Expr"),
                 [k |-> "IfCode", stmt |-> nStmts + 1, else |-> else, depth |-> Len(gens)]>>)
  /\ UNCHANGED <<gens, funs, nDoubles, status, crossed>>

\* After the condition.
VisitIfCode ==
  /\ Doing("IfCode")
  /\ SetCoder(Emitted(coder, <<kJumpIfFalse, 0, 0>>))
  /\ Replace(<<Item("Stmt"),
               [k |-> IF Head(todo).else THEN "ElseCode" ELSE "EndIf",
                stmt |-> Head(todo).stmt, past |-> pos + 3, depth |-> Head(todo).depth]>>)
  /\ OnlyCode

\* After the if-case, when there is an else-case.
VisitElseCode ==
  /\ Doing("ElseCode")
  /\ LET code == coder.code \o <<kJump, 0, 0>>
     IN  SetCoder([coder EXCEPT !.code = ReplaceJumpTarget(code, Head(todo).past, Len(code))])
  /\ Replace(<<Item("Stmt"),
               [k |-> "EndIf", stmt |-> Head(todo).stmt, past |-> pos + 3, depth |-> Head(todo).depth]>>)
  /\ OnlyCode

\* Mutant: the first break alone is patched.
FirstBreakPatched(code, breaks) ==
  IF breaks = <<>> THEN code ELSE ReplaceJumpTarget(code, Head(breaks), Len(code))

\* The targets of the breaks are replaced one after the other: a cell is as the last
\* of them that is written there left it.
BreaksPatched(code, breaks) ==
  [i \in DOMAIN code |->
     LET writers == {k \in DOMAIN breaks : i \in {breaks[k] - 1, breaks[k]}}
         last    == CHOOSE k \in writers : \A j \in writers : j <= k
     IN  IF writers = {} THEN code[i]
         ELSE ReplaceJumpTarget(code, breaks[last], Len(code))[i]]

\* Mutant: a descriptor outlives its statement.
DescKept(stmt) == labelDescs

\* The descriptors that are left when the statement is.
DescPopped(stmt) ==
  IF labelDescs # <<>> /\ Last(labelDescs).stmt = stmt THEN Front(labelDescs) ELSE labelDescs

(***************************************************************************)
(* The end of visitIf: the last forward jump is patched and exitStmt       *)
(* patches the statement's breaks, in the encoder that is on top now.      *)
(* A descriptor that was pushed twice is read after it was deleted.        *)
(***************************************************************************)
EndIf ==
  /\ Doing("EndIf")
  /\ LET stmt    == Head(todo).stmt
         desc    == Last(labelDescs)
         mine    == labelDescs # <<>> /\ desc.stmt = stmt
         breaks  == IF mine THEN desc.breaks ELSE <<>>
         code    == ReplaceJumpTarget(coder.code, Head(todo).past, pos)
     IN  \/ /\ \/ mine /\ desc.copies > 1
               \/ \E at \in ToSet(breaks) : at > pos
            /\ Stop("undefined")
         \/ /\ mine => desc.copies = 1
            /\ \A at \in ToSet(breaks) : at <= pos
            /\ SetCoder([coder EXCEPT !.code = BreaksPatched(code, breaks),
                                      !.ends = @ \union {[stmt |-> stmt, at |-> pos]}])
            /\ labelDescs' = DescPopped(stmt)
            /\ Replace(<<>>)
            /\ UNCHANGED <<fuel, nextLabels, funs, nDoubles, nStmts, status, crossed>>

-----------------------------------------------------------------------------
(***************************************************************************)
(* exitFunction, and then the rest of visitFunExpr: the new Function is a  *)
(* literal of the function around it.  The script's ends the compilation.  *)
(***************************************************************************)
ExitFunction ==
  /\ Doing("ExitFunction")
  /\ LET gen == Emitted(coder, <<kPushUndefined, kReturn>>)
         outer == Last(Front(gens))
     IN  \/ /\ HasNullParam(gen.decls)
            /\ Stop("undefined")
         \/ /\ ~HasNullParam(gen.decls)
            /\ funs' = Append(funs, MakeFun(gen))
            /\ IF Len(gens) = 1
                 THEN gens' = <<>> /\ status' = "done"
                 ELSE /\ gens' = Append(Front(Front(gens)),
                                   Emitted(EmittedLiteral(outer, kPushLiteral, FunctionOop(Len(funs) + 1)),
                                           <<kCreateClosure>>))
                      /\ UNCHANGED status
            /\ Replace(<<>>)
            /\ UNCHANGED <<fuel, labelDescs, nextLabels, nDoubles, nStmts, crossed>>

\* visitScript has entered the script's function.
Init ==
  /\ todo = <<Item("StmtListItem"), Item("More"), Exit(1)>>
  /\ fuel = MaxNodes
  /\ gens = <<NewEncoder(<<>>)>>
  /\ labelDescs = <<>>
  /\ nextLabels = <<>>
  /\ funs = <<>>
  /\ nDoubles = 0
  /\ nStmts = 0
  /\ status = "compiling"
  /\ crossed = FALSE

Next ==
  \/ VisitIdentifier \/ VisitNumber \/ VisitBinOp \/ VisitFunCall \/ VisitFunExpr \/ EmitLast
  \/ MoreStmts \/ VisitExprStmt \/ VisitReturn \/ VisitContinue \/ VisitDecl \/ StoreDecl
  \/ VisitLabel \/ VisitBreak \/ VisitIf \/ VisitIfCode \/ VisitElseCode \/ EndIf
  \/ ExitFunction

Spec == Init /\ [][Next]_vars
-----------------------------------------------------------------------------
(***************************************************************************)
(* Properties.                                                             *)
(***************************************************************************)
Positions == Nat \ {0}

\* Every variable has its type: the members of BytecodeGenerator and
\* BytecodeEncoder, and an encoder for each function on the visitors' stack.
TypeOK ==
  /\ fuel \in 0 .. MaxNodes
  /\ \A g \in DOMAIN gens :
       /\ gens[g].code \in Seq(Nat)
       /\ gens[g].literals \in Seq([t : {"String"}, v : Names]
                                     \union [t : {"Double"}, v : 1 .. nDoubles]
                                     \union [t : {"Function"}, v : 1 .. Len(funs)])
       /\ gens[g].decls \in [Names -> {Undeclared, Local} \union {Arg(i) : i \in 0 .. MaxParams - 1}]
       /\ gens[g].breaks \subseteq [at : Positions, stmt : 1 .. nStmts]
       /\ gens[g].ends \subseteq [at : Positions, stmt : 1 .. nStmts]
  /\ {todo[i].depth : i \in {j \in DOMAIN todo : todo[j].k = "ExitFunction"}} = DOMAIN gens
  /\ labelDescs \in Seq([ident : LabelNames, stmt : 1 .. nStmts, breaks : Seq(Positions),
                         copies : Positions, depth : 1 .. Len(gens)])
  /\ nextLabels \in Seq(LabelNames)
  /\ status \in {"compiling", "done", "error", "undefined"}
  /\ crossed \in BOOLEAN

\* Every offset in the code is one that int16_t relative can hold.
OffsetsFit(code) == 2 * Len(code) < ByteSize * ByteSize

\* A char numbers every literal.
LiteralsFit(fun) == Len(fun.literals) <= ByteSize

\* Unless a break left its function, or a jump or a literal's number does not fit, a
\* compiled program is what interpret() relies on and never checks: on all paths each
\* instruction has its operands and a return exactly its value, literals are of the
\* kind they are cast to and were made before, and the names of a map are distinct.
ProgramIsSound ==
  /\ status = "done" /\ ~crossed
  /\ \A f \in DOMAIN funs : OffsetsFit(funs[f].code) /\ LiteralsFit(funs[f])
  => SoundProgram([funs |-> funs, doubles |-> [d \in 1 .. nDoubles |-> TRUE]], Names)

\* The k-th instruction that takes a literal names the k-th literal, the one made
\* for it, as long as the table has no more literals than a char can number.
LiteralsAreNamed ==
  status = "done" /\ ~crossed =>
    \A f \in DOMAIN funs :
      LET code == funs[f].code
          uses == Filtered(Disassembly(code),
                           {i \in DOMAIN code : code[i] \in {kPushLiteral, kResolve, kResolvedStore}})
      IN  /\ Len(uses) = Len(funs[f].literals)
          /\ LiteralsFit(funs[f]) => \A k \in DOMAIN uses : code[uses[k] + 1] = k - 1

\* The breaks compiled into an encoder land on the end of the statement they
\* leave, and none is left unpatched when its function ends.
BreaksLandIn(gen) ==
  /\ \A b \in gen.breaks, e \in gen.ends :
       b.stmt = e.stmt => b.at + Int16(gen.code[b.at - 1], gen.code[b.at]) = e.at
  /\ Doing("ExitFunction") /\ gen = coder =>
       \A b \in gen.breaks : \E e \in gen.ends : e.stmt = b.stmt

\* Breaks land on the end of their statement, whatever was compiled in between:
\* else-cases, nested ifs and functions, if no break left its function.
BreaksLand ==
  ~crossed => \A g \in DOMAIN gens : OffsetsFit(gens[g].code) => BreaksLandIn(gens[g])

\* The rest of a visitIf.
OfIf(item) == item.k \in {"IfCode", "ElseCode", "EndIf"}

\* A break can only match a statement that encloses it: the descriptors are, in
\* order, of if statements the visitors have entered and not left.
LabelsEnclose ==
  LET Depth(d) == {i \in DOMAIN todo : OfIf(todo[i]) /\ todo[i].stmt = labelDescs[d].stmt}
  IN  /\ \A d \in DOMAIN labelDescs : Depth(d) # {}
      /\ \A d \in 2 .. Len(labelDescs) : \A i \in Depth(d), j \in Depth(d - 1) : i < j

(***************************************************************************)
(* What comments say and the code does not do.                             *)
(***************************************************************************)
\* "Jump instructions created by breaks to set offset to end" (BytecodeGen.cc:53):
\* every break's, also of a break inside a function expression.
AllBreaksLand == \A g \in DOMAIN gens : OffsetsFit(gens[g].code) => BreaksLandIn(gens[g])

\* "Labels to be bound to the next statement" (BytecodeGen.cc:63): none is left
\* over when a statement of a list has been compiled.
LabelsBindNextStatement == Doing("More") => nextLabels = <<>>
=============================================================================
