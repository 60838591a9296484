--------------------------- MODULE MCInterpreter ---------------------------
(***************************************************************************)
(* Small programs for the interpreter: the code BytecodeGen.cc emits for   *)
(* the script in each comment.  Every number literal is tried as a zero    *)
(* and as a nonzero double, so every branch on one goes both ways.         *)
(***************************************************************************)
EXTENDS Interpreter

S(name) == StringOop(name)

Fn(params, locals, literals, code) ==
  [params |-> params, locals |-> locals, literals |-> literals, code |-> code]

\* A program with n number literals, each of either truth.
WithDoubles(n, fs) == {[funs |-> fs, doubles |-> d] : d \in [1 .. n -> BOOLEAN]}

Epilogue == <<kPushUndefined, kReturn>>

\* const f = function (...) {...};
DeclareF == <<kPushLiteral, 0, kCreateClosure, kResolvedStore, 1, kPop>>
DeclareFLiterals == <<FunctionOop(1), S("f")>>

\* The script of Main.cc:32: const fn = (a = 1, b) => a + b; return fn(1, 2);
MainScript == WithDoubles(2, <<
  Fn(<<"b", "a">>, <<>>, <<S("a"), S("b")>>,
     <<kResolve, 0, kResolve, 1, kAdd, kReturn>> \o Epilogue),
  Fn(<<>>, <<"f">>, DeclareFLiterals \o <<Double(1), Double(2), S("f")>>,
     DeclareF \o <<kPushLiteral, 2, kPushLiteral, 3, kResolve, 4, kCall, 2, kReturn>> \o Epilogue)>>)

\* The script of Main.cc:29: const y = 40;
\* const fn = function fn(a, b) { return a + b + y; } return fn(1, 2);
FreeVariable == WithDoubles(3, <<
  Fn(<<"a", "b">>, <<>>, <<S("a"), S("b"), S("y")>>,
     <<kResolve, 0, kResolve, 1, kAdd, kResolve, 2, kAdd, kReturn>> \o Epilogue),
  Fn(<<>>, <<"f", "y">>, <<Double(1), S("y"), FunctionOop(1), S("f"), Double(2), Double(3), S("f")>>,
     <<kPushLiteral, 0, kResolvedStore, 1, kPop, kPushLiteral, 2, kCreateClosure, kResolvedStore, 3, kPop,
       kPushLiteral, 4, kPushLiteral, 5, kResolve, 6, kCall, 2, kReturn>> \o Epilogue)>>)

\* const f = (a) => a(a); return f(f);
Recursion == WithDoubles(0, <<
  Fn(<<"a">>, <<>>, <<S("a"), S("a")>>,
     <<kResolve, 0, kResolve, 1, kCall, 1, kReturn>> \o Epilogue),
  Fn(<<>>, <<"f">>, DeclareFLiterals \o <<S("f"), S("f")>>,
     DeclareF \o <<kResolve, 2, kResolve, 3, kCall, 1, kReturn>> \o Epilogue)>>)

\* const f = function (a) { const t = (b) => b; return a(a); }; return f(f);
ClosureInRecursion == WithDoubles(0, <<
  Fn(<<"b">>, <<>>, <<S("b")>>, <<kResolve, 0, kReturn>> \o Epilogue),
  Fn(<<"a">>, <<"t">>, <<FunctionOop(1), S("t"), S("a"), S("a")>>,
     <<kPushLiteral, 0, kCreateClosure, kResolvedStore, 1, kPop,
       kResolve, 2, kResolve, 3, kCall, 1, kReturn>> \o Epilogue),
  Fn(<<>>, <<"f">>, <<FunctionOop(2), S("f"), S("f"), S("f")>>,
     DeclareF \o <<kResolve, 2, kResolve, 3, kCall, 1, kReturn>> \o Epilogue)>>)

\* const f = function (a) { if (a) return a; }; return 1 + f(2 + f(3));
NestedCalls == WithDoubles(3, <<
  Fn(<<"a">>, <<>>, <<S("a"), S("a")>>,
     <<kResolve, 0, kJumpIfFalse, 0, 3, kResolve, 1, kReturn>> \o Epilogue),
  Fn(<<>>, <<"f">>, DeclareFLiterals \o <<Double(1), Double(2), Double(3), S("f"), S("f")>>,
     DeclareF \o <<kPushLiteral, 2, kPushLiteral, 3, kPushLiteral, 4, kResolve, 5, kCall, 1, kAdd,
                   kResolve, 6, kCall, 1, kAdd, kReturn>> \o Epilogue)>>)

\* const f = function (a) { return 1 + a(2); }; f((b) => b); return f((b) => b);
HigherOrder == WithDoubles(2, <<
  Fn(<<"a">>, <<>>, <<Double(1), Double(2), S("a")>>,
     <<kPushLiteral, 0, kPushLiteral, 1, kResolve, 2, kCall, 1, kAdd, kReturn>> \o Epilogue),
  Fn(<<"b">>, <<>>, <<S("b")>>, <<kResolve, 0, kReturn>> \o Epilogue),
  Fn(<<"b">>, <<>>, <<S("b")>>, <<kResolve, 0, kReturn>> \o Epilogue),
  Fn(<<>>, <<"f">>, DeclareFLiterals \o <<FunctionOop(2), S("f"), FunctionOop(3), S("f")>>,
     DeclareF \o <<kPushLiteral, 2, kCreateClosure, kResolve, 3, kCall, 1, kPop,
                   kPushLiteral, 4, kCreateClosure, kResolve, 5, kCall, 1, kReturn>> \o Epilogue)>>)

\* const f = function (a, b) {
\*   l: if (a) if (b) break l; else a; else return b;
\*   return a;
\* }; f(1, 2); return f(3, f);
LabelledBreak == WithDoubles(3, <<
  Fn(<<"a", "b">>, <<>>, <<S("a"), S("b"), S("a"), S("b"), S("a")>>,
     <<kResolve, 0, kJumpIfFalse, 0, 17, kResolve, 1, kJumpIfFalse, 0, 6, kJump, 0, 12, kJump, 0, 3,
       kResolve, 2, kPop, kJump, 0, 3, kResolve, 3, kReturn,
       kResolve, 4, kReturn>> \o Epilogue),
  Fn(<<>>, <<"f">>, DeclareFLiterals \o <<Double(1), Double(2), S("f"), Double(3), S("f"), S("f")>>,
     DeclareF \o <<kPushLiteral, 2, kPushLiteral, 3, kResolve, 4, kCall, 2, kPop,
                   kPushLiteral, 5, kResolve, 6, kResolve, 7, kCall, 2, kReturn>> \o Epilogue)>>)

\* const f = function (<params>) { const t = a; return t; }; return f(1);
LocalBesideParams(params) == WithDoubles(1, <<
  Fn(params, <<"t">>, <<S("a"), S("t"), S("t")>>,
     <<kResolve, 0, kResolvedStore, 1, kPop, kResolve, 2, kReturn>> \o Epilogue),
  Fn(<<>>, <<"f">>, DeclareFLiterals \o <<Double(1), S("f")>>,
     DeclareF \o <<kPushLiteral, 2, kResolve, 3, kCall, 1, kReturn>> \o Epilogue)>>)

\* const f = function (a, b) { <body over the missing b> }; return f(f);
MissingArgument(body) == WithDoubles(0, <<
  Fn(<<"a", "b">>, <<>>, <<S("b"), S("a")>>, body \o Epilogue),
  Fn(<<>>, <<"f">>, DeclareFLiterals \o <<S("f"), S("f")>>,
     DeclareF \o <<kResolve, 2, kResolve, 3, kCall, 1, kReturn>> \o Epilogue)>>)

\* const f = 1; f + f; return f(f);
CallOfNumber == WithDoubles(1, <<
  Fn(<<>>, <<"f">>, <<Double(1), S("f"), S("f"), S("f"), S("f"), S("f")>>,
     <<kPushLiteral, 0, kResolvedStore, 1, kPop, kResolve, 2, kResolve, 3, kAdd, kPop,
       kResolve, 4, kResolve, 5, kCall, 1, kReturn>> \o Epilogue)>>)

LocalBesideOneParam == LocalBesideParams(<<"a">>)

MCNames == {"a", "b", "f", "t", "y"}

MCPrograms ==
  MainScript \union FreeVariable \union Recursion \union ClosureInRecursion
    \union NestedCalls \union HigherOrder \union LabelledBreak \union CallOfNumber
    \union LocalBesideOneParam \union LocalBesideParams(<<"a", "b">>)
    \union MissingArgument(<<kResolve, 0, kReturn>>)
    \union MissingArgument(<<kResolve, 0, kResolve, 1, kAdd, kReturn>>)
    \union MissingArgument(<<kResolve, 0, kResolve, 1, kCall, 1, kReturn>>)
    \union MissingArgument(<<kResolve, 0, kJumpIfFalse, 0, 3, kResolve, 1, kReturn>>)
=============================================================================
