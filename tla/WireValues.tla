------------------------------- MODULE WireValues ------------------------------
(***************************************************************************)
(* The label a wire holds while a garbled circuit is evaluated, named after *)
(* the way it was obtained (the loop body of evaluate/evaluate.cpp).  Two   *)
(* values are the same label when they were obtained in the same way.       *)
(***************************************************************************)

(* The label extracted for an input. *)
InputValue(w) == <<"input", w>>

(* The output of a XOR gate. *)
XorValue(A, B) == <<"xor", A, B>>

(* The entry of the table of gate owner that A and B select and unmask. *)
TableValue(owner, A, B) == <<"table", owner, A, B>>

(* A Block that nothing was written to: its constructor leaves it as it is. *)
NoValue == <<"uninitialized">>

================================================================================
