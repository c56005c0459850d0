---------------------------- MODULE WorkerCalls ----------------------------
(***************************************************************************)
(* The calls that reach one GPU worker process.  The upscale worker, the   *)
(* background worker and the adapters of the generation child each serve   *)
(* theirs under one lock of their own.                                     *)
(***************************************************************************)
CONSTANTS
  Call,     \* the calls
  Target,   \* the model each asks for, or Unload
  Model,    \* the models of the process
  Unload,   \* the target of a call that unloads
  None      \* no call, no model

ASSUME CallAssumption ==
  /\ Target \in [Call -> Model \cup {Unload}]
  /\ Unload \notin Model /\ None \notin Call \cup Model
=============================================================================
