-------------------------- MODULE GenerationCalls --------------------------
(***************************************************************************)
(* The calls that reach the generation worker, which serves them through a *)
(* child process, and the bounds on that child.                            *)
(***************************************************************************)
EXTENDS Naturals, WorkerCalls

CONSTANTS
  Many,       \* more than one model in GPU memory
  MaxProcess, \* bound: processes created
  MaxKills    \* bound: children killed from outside

ASSUME ManyAssumption == Many \notin Model \cup {None}
ASSUME BoundAssumption == MaxProcess \in Nat /\ MaxKills \in Nat
=============================================================================
