--------------------------- MODULE MCBytecodeGen ---------------------------
(***************************************************************************)
(* Every syntax tree up to MaxNodes inner nodes, over one or two variable  *)
(* names and one or two labels.                                            *)
(***************************************************************************)
EXTENDS BytecodeGen

OneName  == <<"a">>
TwoNames == <<"a", "b">>

\* Every expression, declarations, and an if to put them under.
DataKinds == {"Identifier", "Number", "BinOp", "FunCall", "FunExpr", "ExprStmt", "Return",
              "Decl", "If"}

\* Every way statements, labels and functions nest.
ControlKinds == {"Identifier", "FunExpr", "ExprStmt", "Continue", "Label", "Break", "If"}
=============================================================================
