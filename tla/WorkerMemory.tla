---------------------------- MODULE WorkerMemory ----------------------------
(***************************************************************************)
(* What a GPU worker promises about its memory, without caches, steps,     *)
(* processes or the order in which they fail: the account of a worker that *)
(* Residency is built on.  A call takes the model lock once and leaves it  *)
(* once.  Something becomes resident for a call that holds the lock only,  *)
(* an image leaves it resident, and a call that unloads is answered when   *)
(* nothing is resident.                                                    *)
(***************************************************************************)
CONSTANTS
  Caller,   \* the calls that reach the worker
  Target,   \* the model each asks for, or Unload
  Unload,   \* the target of a call that unloads
  None,     \* no call, no model
  Skips     \* whether the worker names the model it has, to skip evictions

VARIABLES
  lock,     \* the call that holds the model lock, or None
  resident, \* whether the worker holds anything in GPU memory
  loaded,   \* the model a worker that Skips names, or None
  outcome   \* how each call ended, or "none"

vars == <<lock, resident, loaded, outcome>>

Serves(c) == Target[c] # Unload

Init ==
  /\ lock = None /\ ~resident /\ loaded = None
  /\ outcome = [c \in Caller |-> "none"]

TakeLock(c) ==
  /\ lock = None /\ outcome[c] = "none"
  /\ lock' = c
  /\ UNCHANGED <<resident, loaded, outcome>>

Leave(c, x) ==
  /\ lock = c /\ outcome[c] = "none"
  /\ lock' = None
  /\ outcome' = [outcome EXCEPT ![c] = x]

(* A release that is under way has dropped everything; a worker whose      *)
(* memory is a child's can lose it at any time.                            *)
Drop ==
  /\ resident /\ (Skips \/ lock # None)
  /\ ~resident'
  /\ UNCHANGED <<lock, loaded, outcome>>

(* Another model than the one named is released before the one asked for   *)
(* is loaded.                                                              *)
Replace(c) ==
  /\ Skips /\ lock = c /\ Serves(c) /\ loaded # Target[c]
  /\ ~resident' /\ loaded' = None
  /\ UNCHANGED <<lock, outcome>>

Load(c) ==
  /\ lock = c /\ Serves(c)
  /\ ~resident /\ loaded \in {None, Target[c]}
  /\ resident'
  /\ UNCHANGED <<lock, loaded, outcome>>

Finish(c) ==
  /\ Serves(c) /\ (Skips \/ resident)
  /\ Leave(c, "image")
  /\ loaded' = IF Skips THEN Target[c] ELSE loaded
  /\ UNCHANGED resident

(* A call that fails may have dropped what was there, or, if it was to use *)
(* a model, left one; a child that may be alive keeps its name, and only a *)
(* child that is gone loses it.                                            *)
Fail(c) ==
  /\ Leave(c, "failed")
  /\ \/ /\ resident' => resident \/ (Serves(c) /\ ~Skips)
        /\ UNCHANGED loaded
     \/ ~resident' /\ loaded' = None

Unloaded(c) ==
  /\ ~Serves(c)
  /\ Leave(c, "unloaded")
  /\ ~resident' /\ loaded' = None

Next ==
  \/ Drop
  \/ \E c \in Caller : \/ TakeLock(c) \/ Replace(c) \/ Load(c)
                     \/ Finish(c) \/ Fail(c) \/ Unloaded(c)

Spec == Init /\ [][Next]_vars
=============================================================================
