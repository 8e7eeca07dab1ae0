------------------------------ MODULE XorWorklist ------------------------------
(***************************************************************************)
(* What GarbledCircuit::Garble is promised by its XorGateProcessor: the     *)
(* loop of garble.cpp "start with first remaining gate, find all connected  *)
(* gates, choose a R, set the labels, remove from remaining", over the SET  *)
(* of remaining XOR gates that the vectors of XorGateProcessor stand for.   *)
(***************************************************************************)
EXTENDS Integers

CONSTANT NbGates        \* nb_gates_ of the circuit

VARIABLES
  remaining,            \* the XOR gates not yet given an offset R
  seed                  \* the gate the next subgraph starts from, or -1

vars == <<remaining, seed>>

Gates == 0 .. NbGates - 1

(* s is the smallest gate of G, or -1 when G is empty. *)
IsFirst(s, G) ==
  \/ G = {} /\ s = -1
  \/ s \in G /\ \A g \in G : s <= g

Init ==
  /\ remaining \in SUBSET Gates
  /\ seed \in Gates \cup {-1}
  /\ IsFirst(seed, remaining)

(* One turn of the loop: a set of remaining gates around the seed leaves    *)
(* the worklist, and the next seed is the first of those that stay.         *)
Process(S) ==
  /\ seed \in S
  /\ S \subseteq remaining
  /\ remaining' = remaining \ S
  /\ seed' \in Gates \cup {-1}
  /\ IsFirst(seed', remaining')

Next == \E S \in SUBSET remaining : Process(S)

Spec == Init /\ [][Next]_vars

================================================================================
