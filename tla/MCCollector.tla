---------------------------- MODULE MCCollector ----------------------------
EXTENDS Collector

\* const f = function (a) { ... 1 ... }; ... f ...
MCScript == <<[k |-> "enter"], [k |-> "enter"], [k |-> "num"],
              [k |-> "exit", params |-> 1, locals |-> 0],
              [k |-> "exit", params |-> 0, locals |-> 1]>>

\* A function without a literal: collections may start while its parts are made.
MCSilent == <<[k |-> "enter"], [k |-> "enter"], [k |-> "exit", params |-> 1, locals |-> 1],
              [k |-> "exit", params |-> 0, locals |-> 0]>>
MCSources == {MCScript, MCSilent}

MCPaths ==
  {\* f stored, called with what is on the stack, its value returned, the script left
   <<"kPushLiteral", "kCreateClosure", "kResolvedStore", "kResolve", "kCall",
     "kPushLiteral", "kReturn", "kReturn">>,
   \* f is its own argument and calls it
   <<"kPushLiteral", "kCreateClosure", "kResolvedStore", "kResolve", "kCall",
     "kResolve", "kCall", "kPushLiteral", "kReturn", "kReturn", "kReturn">>,
   \* two closures of one function
   <<"kPushLiteral", "kCreateClosure", "kPushLiteral", "kCreateClosure", "kResolvedStore",
     "kCall", "kPushLiteral", "kResolvedStore", "kReturn", "kReturn">>}
MCAddresses == 1 .. 44
Anywhere    == Allocating
MCStray     == {"Environment", "EnvironmentMap", "Function", "Closure"}
=============================================================================
