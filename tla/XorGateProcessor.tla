---------------------------- MODULE XorGateProcessor ---------------------------
(***************************************************************************)
(* The XOR worklist of justgarble/xor_gate_processor.cpp.  A vector of      *)
(* flags says which XOR gates still wait for their offset R, an iterator    *)
(* points at the gate the next subgraph starts from.  MarkAsProcessed       *)
(* clears the flags of a subgraph and moves the iterator by scanning only   *)
(* from the smallest gate it has just cleared, never from the beginning.    *)
(***************************************************************************)
EXTENDS Integers

CONSTANT NbGates        \* size of the vector: nb_gates_ of the circuit
ASSUME NbGatesAssumption == NbGates \in Nat

VARIABLES
  toBeProcessed,        \* to_be_processed_, 1 for a XOR gate not yet processed
  seedGateIt            \* seed_gate_it_ as an index; NbGates is end()

vars == <<toBeProcessed, seedGateIt>>

Gates == 0 .. NbGates - 1

(* Slip: the scan runs one element past end(). *)
FindPastEnd(v, first) ==
  { i \in first .. NbGates + 1 :
      /\ i = NbGates + 1 \/ (i < NbGates /\ v[i] = 1)
      /\ \A j \in first .. i - 1 : j = NbGates \/ v[j] = 0 }

(***************************************************************************)
(* The positions std::find(begin() + first, end(), 1) may return in v: the  *)
(* first 1 at or after first, else end().  There is exactly one.            *)
(***************************************************************************)
Find(v, first) ==
  { i \in first .. NbGates :
      /\ i = NbGates \/ v[i] = 1
      /\ \A j \in first .. i - 1 : v[j] = 0 }

(* The constructor, on any vector of flags. *)
Init ==
  /\ toBeProcessed \in [Gates -> {0, 1}]
  /\ seedGateIt \in Find(toBeProcessed, 0)

(* What GetNextSeedGate() returns: -1 when nothing is left. *)
GetNextSeedGate == IF seedGateIt = NbGates THEN -1 ELSE seedGateIt

(* Slip: scan from one past the LARGEST gate of the subgraph. *)
ScanStartsAfterMax(S) ==
  IF S = {} THEN {0} ELSE { g + 1 : g \in { m \in S : \A k \in S : k <= m } }

(***************************************************************************)
(* Where the scan for the next seed starts: one past the smallest gate of   *)
(* the subgraph.  Of an empty subgraph the minimum stays at the largest     *)
(* uint32_t, and min_processed_gate++ wraps around to 0.                    *)
(***************************************************************************)
ScanStarts(S) ==
  IF S = {} THEN {0} ELSE { g + 1 : g \in { m \in S : \A k \in S : m <= k } }

(* Slip: the flags are left as they are, only the iterator moves. *)
MoveIteratorOnly(S) ==
  /\ UNCHANGED toBeProcessed
  /\ \E first \in ScanStarts(S) : seedGateIt' \in Find(toBeProcessed', first)

(* Slip: the scan begins at the beginning and takes the first 1 of the old  *)
(* flags.                                                                   *)
ScanBeforeClear(S) ==
  /\ toBeProcessed' =
       [g \in Gates |-> IF g \in S THEN 0 ELSE toBeProcessed[g]]
  /\ seedGateIt' \in Find(toBeProcessed, 0)

(* MarkAsProcessed(subgraph_gates), S the set of the gates it is given. *)
MarkAsProcessed(S) ==
  /\ toBeProcessed' =
       [g \in Gates |-> IF g \in S THEN 0 ELSE toBeProcessed[g]]
  /\ \E first \in ScanStarts(S) : seedGateIt' \in Find(toBeProcessed', first)

(***************************************************************************)
(* The caller's side of the contract, which the first two assertions of     *)
(* MarkAsProcessed check: the subgraph holds the seed gate, and only gates  *)
(* not processed before.                                                    *)
(***************************************************************************)
Precondition(S) ==
  /\ GetNextSeedGate \in S
  /\ \A g \in S : toBeProcessed[g] = 1

Process(S) == Precondition(S) /\ MarkAsProcessed(S)

Next == \E S \in SUBSET Gates : Process(S)

(* Garble's loop is one thread that runs until GetNextSeedGate() is -1. *)
Spec == Init /\ [][Next]_vars /\ WF_vars(Next)

--------------------------------------------------------------------------------
TypeOK ==
  /\ toBeProcessed \in [Gates -> {0, 1}]
  /\ seedGateIt \in 0 .. NbGates

Remaining == { g \in Gates : toBeProcessed[g] = 1 }

(***************************************************************************)
(* Every gate before the iterator has been processed and the iterator is at *)
(* a gate that waits, or at the end: although a scan never looks back, no   *)
(* XOR gate is skipped (xor_gate_processor.cpp:84-107).                     *)
(***************************************************************************)
NoGateSkipped ==
  /\ \A g \in Gates : g < seedGateIt => toBeProcessed[g] = 0
  /\ seedGateIt # NbGates => toBeProcessed[seedGateIt] = 1

(***************************************************************************)
(* The third assertion of MarkAsProcessed is no condition on the caller: a  *)
(* subgraph that meets the contract never has a gate before the current     *)
(* seed, so the seeds a Garble visits only ever increase.                   *)
(***************************************************************************)
SeedsIncrease == [][seedGateIt' > seedGateIt]_vars

(* The vector and the iterator implement the set of remaining gates. *)
Worklist ==
  INSTANCE XorWorklist WITH remaining <- Remaining, seed <- GetNextSeedGate

RefinesWorklist == Worklist!Spec

(***************************************************************************)
(* Whatever subgraphs it is given, the loop of Garble gets -1 at last, with *)
(* every XOR gate processed.                                                *)
(***************************************************************************)
EveryGateProcessed == <>[](GetNextSeedGate = -1 /\ Remaining = {})

================================================================================
