---------------------------- MODULE GateEvaluation -----------------------------
(***************************************************************************)
(* What the loop body of ParallelEvaluate (evaluate/evaluate.cpp) computes  *)
(* for one gate from the labels A and B of its inputs.                      *)
(***************************************************************************)
EXTENDS Integers, Block

EvalXorGate(A, B) == Xor(A, B)

(* The lowest bits of the labels select the entry, the labels unmask it. *)
EvalNonXorGate(table, A, B, tweak) ==
  Xor(Mask(A, B, tweak), table[2 * GetLsb(A) + GetLsb(B)])

================================================================================
