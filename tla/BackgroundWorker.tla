-------------------------- MODULE BackgroundWorker --------------------------
(***************************************************************************)
(* What the background worker keeps in GPU memory (background.py): the     *)
(* caches of its two matting backends, which belong to the library         *)
(* rembg_api, the SAM 2 adapter that guides one of them, and _active_model, *)
(* by which it decides whether to release them and which the health route  *)
(* reads without the lock.  Evicting the peers comes before the lock and   *)
(* is the subject of Residency.                                            *)
(***************************************************************************)
EXTENDS Integers, FiniteSets, MattingCalls

VARIABLES
  pc,       \* where each call is
  result,   \* how it ended
  lock,     \* _model_lock
  active,   \* _active_model
  cached,   \* the matting models in the library's caches
  sam2,     \* whether _sam2_adapter is set
  errors,   \* the release being done has met an error
  clean     \* no call has failed inside the lock

vars == <<pc, result, lock, active, cached, sam2, errors, clean>>
memory == <<cached, sam2>>

Goto(c, stage) == pc' = [pc EXCEPT ![c] = stage]

End(c, x) ==
  /\ Goto(c, "done")
  /\ result' = [result EXCEPT ![c] = x]
  /\ lock' = None
  /\ clean' = (clean /\ x # "failed")

Continue(c, stage) == Goto(c, stage) /\ UNCHANGED <<result, lock, clean>>

Init ==
  /\ pc = [c \in Call |-> "idle"]
  /\ result = [c \in Call |-> "none"]
  /\ lock = None
  /\ active = None /\ cached = {} /\ sam2 = FALSE
  /\ errors = FALSE /\ clean = TRUE

Acquire(c) ==
  /\ pc[c] = "idle" /\ lock = None
  /\ lock' = c
  /\ Goto(c, IF Target[c] = Unload THEN "sam2" ELSE "validate")
  /\ UNCHANGED <<result, active, memory, errors, clean>>

\* Mutant: a change of model does not release.
ValidateWithoutSwitch(c) ==
  /\ pc[c] = "validate"
  /\ End(c, "failed") \/ Continue(c, "matte")
  /\ UNCHANGED <<active, memory, errors>>

(* The parameters and the source's dimensions are checked, then the models *)
(* are released if the one that served last is another.                    *)
Validate(c) ==
  /\ pc[c] = "validate"
  /\ \/ End(c, "failed")
     \/ Continue(c, IF active # None /\ active # Target[c] THEN "sam2" ELSE "matte")
  /\ UNCHANGED <<active, memory, errors>>

-----------------------------------------------------------------------------
(* _release_resident_models: every step is tried, whatever failed before.  *)

ReleaseSam2(c) ==
  /\ pc[c] = "sam2"
  /\ errors' \in {FALSE, sam2}
  /\ sam2' = FALSE
  /\ Continue(c, "birefnet")
  /\ UNCHANGED <<active, cached>>

\* A backend's cache is cleared, or the library raises and keeps it.
Clear(model) ==
  \/ cached' = cached \ {model} /\ UNCHANGED errors
  \/ cached' = cached /\ errors' = TRUE

ClearBirefnet(c) ==
  /\ pc[c] = "birefnet"
  /\ Clear(Birefnet)
  /\ Continue(c, "bria")
  /\ UNCHANGED <<active, sam2>>

ClearBria(c) ==
  /\ pc[c] = "bria"
  /\ Clear(Bria)
  /\ Continue(c, "forget")
  /\ UNCHANGED <<active, sam2>>

\* Mutant: the errors of the release are not raised.
ForgetErrors(c) ==
  /\ pc[c] = "forget"
  /\ active' = None /\ errors' = FALSE
  /\ IF Target[c] = Unload THEN End(c, "unloaded") ELSE Continue(c, "matte")
  /\ UNCHANGED memory

(* The CUDA cache is emptied, or not; _active_model is reset; then the     *)
(* errors are raised, or the release returns to its caller.                *)
Forget(c) ==
  /\ pc[c] = "forget"
  /\ active' = None
  /\ errors' = FALSE
  /\ \/ End(c, "failed")
     \/ /\ ~errors
        /\ IF Target[c] = Unload THEN End(c, "unloaded") ELSE Continue(c, "matte")
  /\ UNCHANGED memory

-----------------------------------------------------------------------------
(* remove_with_birefnet or remove_with_bria_rmbg_2: the library builds the *)
(* model, unless it has it, and runs it.  Either can fail.                 *)
Matte(c) ==
  /\ pc[c] = "matte"
  /\ \/ cached' = cached \cup {Target[c]} /\ Continue(c, "post")
     \/ cached' \in {cached, cached \cup {Target[c]}} /\ End(c, "failed")
  /\ UNCHANGED <<active, sam2, errors>>

(* The alpha and despill processing; guidance is refused to BRIA only now. *)
Post(c) ==
  /\ pc[c] = "post"
  /\ \/ End(c, "failed")
     \/ c \in Guided /\ Target[c] = Birefnet /\ Continue(c, "guide")
     \/ c \notin Guided /\ Continue(c, "commit")
  /\ UNCHANGED <<active, memory, errors>>

(* The adapter is created, unless there is one; prediction and fusion can  *)
(* fail and leave it.                                                      *)
Guide(c) ==
  /\ pc[c] = "guide"
  /\ \/ sam2' = TRUE /\ Continue(c, "commit")
     \/ sam2' \in {sam2, TRUE} /\ End(c, "failed")
  /\ UNCHANGED <<active, cached, errors>>

(* The output is decoded and checked; the model becomes the active one.    *)
Commit(c) ==
  /\ pc[c] = "commit"
  /\ \/ active' = Target[c] /\ End(c, "image")
     \/ UNCHANGED active /\ End(c, "failed")
  /\ UNCHANGED <<memory, errors>>

Step(c) ==
  \/ Acquire(c) \/ Validate(c) \/ ReleaseSam2(c) \/ ClearBirefnet(c) \/ ClearBria(c)
  \/ Forget(c) \/ Matte(c) \/ Post(c) \/ Guide(c) \/ Commit(c)

Idle == (\A c \in Call : pc[c] = "done") /\ UNCHANGED vars

Next == Idle \/ \E c \in Call : Step(c)

(* Threads are scheduled and an inference ends.                            *)
Spec == Init /\ [][Next]_vars /\ \A c \in Call : WF_vars(Step(c))

-----------------------------------------------------------------------------
Releasing(c) == pc[c] \in {"sam2", "birefnet", "bria", "forget"}

(* Every variable keeps its type.                                          *)
TypeOK ==
  /\ pc \in [Call -> {"idle", "validate", "sam2", "birefnet", "bria", "forget",
                      "matte", "post", "guide", "commit", "done"}]
  /\ result \in [Call -> {"none", "image", "unloaded", "failed"}]
  /\ lock \in Call \cup {None}
  /\ active \in Model \cup {None}
  /\ cached \subseteq Model
  /\ sam2 \in BOOLEAN /\ errors \in BOOLEAN /\ clean \in BOOLEAN

(* _active_model never names a model that is not in memory, except while   *)
(* a release is under way: the health route and the test for a switch may  *)
(* take it at its word.                                                    *)
ActiveIsCached ==
  active # None /\ (\A c \in Call : ~Releasing(c)) => active \in cached

(* While no call has failed, changing the model releases the other one and *)
(* its guide before it builds: one matting model at most, and SAM 2 only   *)
(* beside the model it guides.                                             *)
CleanSingle ==
  clean => (\A m, n \in cached : m = n) /\ (sam2 => Bria \notin cached)

(* The worker keeps the account of its memory that Residency relies on: in *)
(* particular an unload that is answered 200 leaves nothing in memory,     *)
(* whatever the calls before it left behind.                               *)
M == INSTANCE WorkerMemory WITH Caller <- Call, resident <- cached # {} \/ sam2, loaded <- None,
       outcome <- result, Skips <- FALSE
BackgroundMemory == M!Spec

(* Every call ends, so the model lock always comes back.                   *)
EveryCallEnds == \A c \in Call : <>(pc[c] = "done")

-----------------------------------------------------------------------------
(* README.md:23, "changing the selected model unloads the resident model   *)
(* before replacement loading begins".                                     *)
SingleMatting == Cardinality(cached) <= 1
=============================================================================
