--------------------------- MODULE UpscaleWorker ---------------------------
(***************************************************************************)
(* What the upscale worker keeps in GPU memory (upscale.py): one Real-     *)
(* ESRGAN backend in an lru_cache of size one, and the name of it that the *)
(* health route reads without the lock.  Evicting the peers comes before   *)
(* the lock and is the subject of Residency.                               *)
(* Model is the keys of MODELS.                                            *)
(***************************************************************************)
EXTENDS Integers, FiniteSets, WorkerCalls

VARIABLES
  pc,       \* where each call is
  result,   \* how it ended
  lock,     \* _model_lock
  cached,   \* the backend in _load_model's cache, by its model, or None
  built,    \* a backend that is not in the cache yet, by its model, or None
  named,    \* _loaded_model_name
  tile,     \* tile_size of the cached backend: "default" or a request's
  old       \* what _run puts back when the inference has ended

vars == <<pc, result, lock, cached, built, named, tile, old>>
memory == <<cached, built, named, tile, old>>

Goto(c, stage) == pc' = [pc EXCEPT ![c] = stage]

\* The call leaves "with _model_lock" with the result x.
End(c, x) ==
  /\ Goto(c, "done")
  /\ result' = [result EXCEPT ![c] = x]
  /\ lock' = None

\* The call goes on inside the lock.
Continue(c, stage) == Goto(c, stage) /\ UNCHANGED <<result, lock>>

Init ==
  /\ pc = [c \in Call |-> "idle"]
  /\ result = [c \in Call |-> "none"]
  /\ lock = None
  /\ cached = None /\ built = None /\ named = None
  /\ tile = "default" /\ old = "default"

Acquire(c) ==
  /\ pc[c] = "idle" /\ lock = None
  /\ lock' = c
  /\ Goto(c, IF Target[c] = Unload THEN "release" ELSE "validate")
  /\ UNCHANGED <<result, memory>>

(* The parameters and the dimensions of the source are checked first.      *)
Validate(c) ==
  /\ pc[c] = "validate"
  /\ End(c, "failed") \/ Continue(c, "load")
  /\ UNCHANGED memory

\* Mutant: the cache is not keyed by the model.
LoadCachedAny(c) ==
  /\ pc[c] = "load" /\ cached # None
  /\ Continue(c, "run")
  /\ UNCHANGED memory

(* A call of _load_model that its cache answers.                           *)
LoadCached(c) ==
  /\ pc[c] = "load" /\ cached = Target[c]
  /\ Continue(c, "run")
  /\ UNCHANGED memory

\* Mutant: the name is not set before the backend is built.
LoadMissingUnnamed(c) ==
  /\ pc[c] = "load" /\ cached # Target[c]
  /\ Continue(c, "build")
  /\ UNCHANGED memory

(* A call of _load_model that its cache does not answer: the name is set   *)
(* before the backend exists.                                              *)
LoadMissing(c) ==
  /\ pc[c] = "load" /\ cached # Target[c]
  /\ \/ End(c, "failed") /\ UNCHANGED named
     \/ Continue(c, "build") /\ named' = Target[c]
  /\ UNCHANGED <<cached, built, tile, old>>

Build(c) ==
  /\ pc[c] = "build"
  /\ \/ End(c, "failed") /\ UNCHANGED built
     \/ Continue(c, "insert") /\ built' = Target[c]
  /\ UNCHANGED <<cached, named, tile, old>>

(* _load_model returns and lru_cache drops the older entry.                *)
Insert(c) ==
  /\ pc[c] = "insert"
  /\ cached' = built /\ built' = None /\ tile' = "default"
  /\ Continue(c, "run")
  /\ UNCHANGED <<named, old>>

(* old = backend.tile_size, and the tile size of this request.             *)
SetTile(c) ==
  /\ pc[c] = "run"
  /\ old' = tile
  /\ tile' \in {"default", "request"}
  /\ Continue(c, "enhance")
  /\ UNCHANGED <<cached, built, named>>

\* Mutant: the tile size is put back after a success only.
EnhanceWithoutFinally(c) ==
  /\ pc[c] = "enhance"
  /\ \/ tile' = old /\ End(c, "image")
     \/ UNCHANGED tile /\ End(c, "failed")
  /\ UNCHANGED <<cached, built, named, old>>

(* enhance(), the finally that puts the tile size back, the encoding.      *)
Enhance(c) ==
  /\ pc[c] = "enhance"
  /\ tile' = old
  /\ End(c, "image") \/ End(c, "failed")
  /\ UNCHANGED <<cached, built, named, old>>

\* Mutant: the cache is not cleared.
ReleaseNameOnly(c) ==
  /\ pc[c] = "release"
  /\ named' = None
  /\ End(c, "unloaded")
  /\ UNCHANGED <<cached, built, tile, old>>

(* _release: emptying the CUDA cache may fail, when all is dropped.        *)
Release(c) ==
  /\ pc[c] = "release"
  /\ cached' = None /\ named' = None /\ tile' = "default"
  /\ End(c, "unloaded") \/ End(c, "failed")
  /\ UNCHANGED <<built, old>>

Step(c) ==
  \/ Acquire(c) \/ Validate(c) \/ LoadCached(c) \/ LoadMissing(c) \/ Build(c)
  \/ Insert(c) \/ SetTile(c) \/ Enhance(c) \/ Release(c)

Idle == (\A c \in Call : pc[c] = "done") /\ UNCHANGED vars

Next == Idle \/ \E c \in Call : Step(c)

(* Threads are scheduled and an inference ends.                            *)
Spec == Init /\ [][Next]_vars /\ \A c \in Call : WF_vars(Step(c))

-----------------------------------------------------------------------------
(* The models whose weights are in GPU memory. *)
Held == {cached, built} \ {None}

(* Every variable keeps its type.                                          *)
TypeOK ==
  /\ pc \in [Call -> {"idle", "validate", "load", "build", "insert", "run",
                      "enhance", "release", "done"}]
  /\ result \in [Call -> {"none", "image", "unloaded", "failed"}]
  /\ lock \in Call \cup {None}
  /\ cached \in Model \cup {None} /\ built \in Model \cup {None}
  /\ named \in Model \cup {None}
  /\ tile \in {"default", "request"} /\ old \in {"default", "request"}

(* GET /health, which reads the name without the lock, never says that     *)
(* nothing is loaded while a backend is in memory, whatever failed.        *)
HealthOwnsUp == Held # {} => named # None

(* What one request does to the cached backend does not reach the next:    *)
(* outside the lock the tile size is the one it was built with, also after *)
(* an inference that failed.                                               *)
TileRestored == lock = None => tile = "default"

(* An image is made by the model that was asked for, although the cache is *)
(* keyed, filled and dropped in different steps.                           *)
RunsTarget ==
  \A c \in Call : pc[c] \in {"run", "enhance"} => Held = {Target[c]}

(* The worker keeps the account of its memory that Residency relies on: in *)
(* particular an unload that is answered 200 leaves no backend.            *)
M == INSTANCE WorkerMemory WITH Caller <- Call, resident <- Held # {}, loaded <- None, outcome <- result,
       Skips <- FALSE
UpscaleMemory == M!Spec

(* Every call ends, so the model lock always comes back.                   *)
EveryCallEnds == \A c \in Call : <>(pc[c] = "done")

-----------------------------------------------------------------------------
(* README.md:23, "changing the selected model unloads the resident model   *)
(* before replacement loading begins".                                     *)
UnloadsBeforeLoading == Cardinality(Held) <= 1
=============================================================================
