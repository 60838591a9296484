----------------------------- MODULE CallStack -----------------------------
(***************************************************************************)
(* What the interpreter's stack promises, without saying how it is laid    *)
(* out: every call runs in a frame of its own, with an operand stack of    *)
(* its own; a call suspends the caller, a return resumes it exactly where  *)
(* it stopped, with the returned value on its operand stack, and nothing   *)
(* the callee does is seen by a suspended frame.                           *)
(*                                                                         *)
(* Interpreter.tla keeps all frames on one stack of words, m_stack, and    *)
(* finds its way back through the words it pushed at the call; it is shown *)
(* to implement this module.                                               *)
(***************************************************************************)
EXTENDS Naturals, SequencesExt

VARIABLES
  frame,       \* the running frame: [pc, closure, env, operands]
  suspended,   \* the frames that wait for a callee, the oldest first
  halted       \* the program has stopped

vars == <<frame, suspended, halted>>

Init ==
  /\ frame.pc = 0
  /\ frame.operands = <<>>
  /\ suspended = <<>>
  /\ halted = FALSE

\* An instruction of the running function that neither calls nor returns.
Step ==
  /\ frame'.pc > frame.pc
  /\ frame'.closure = frame.closure
  /\ frame'.env = frame.env
  /\ Len(frame'.operands) >= Len(frame.operands) - 2
  /\ UNCHANGED <<suspended, halted>>

\* A call takes its callee and arguments, and the caller waits past the call.
Call ==
  /\ \E n \in 1 .. Len(frame.operands) :
       suspended' = Append(suspended,
                           [pc       |-> frame.pc + 2,
                            closure  |-> frame.closure,
                            env      |-> frame.env,
                            operands |-> SubSeq(frame.operands, 1, Len(frame.operands) - n)])
  /\ frame'.pc = 0
  /\ frame'.operands = <<>>
  /\ UNCHANGED halted

\* A return gives its one operand to the frame that waits for it.
Return ==
  /\ suspended # <<>>
  /\ Len(frame.operands) = 1
  /\ LET waiting == Last(suspended)
     IN  frame' = [pc       |-> waiting.pc,
                   closure  |-> waiting.closure,
                   env      |-> waiting.env,
                   operands |-> Append(waiting.operands, Last(frame.operands))]
  /\ suspended' = Front(suspended)
  /\ UNCHANGED halted

\* The script has returned, or the host process has stopped.
Halt ==
  /\ halted' = TRUE
  /\ UNCHANGED suspended

Next == ~halted /\ (Step \/ Call \/ Return \/ Halt)

Spec == Init /\ [][Next]_vars
=============================================================================
