------------------------------ MODULE Flux2Dev ------------------------------
(***************************************************************************)
(* The FLUX.2 dev adapter of flux2_dev.py, which runs in the generation    *)
(* child: a text encoder and a denoiser that do not fit into GPU memory    *)
(* together take turns within one request.  A part is in memory while      *)
(* anything refers to it: a local variable, the embeddings, or a frame     *)
(* that the traceback of an exception keeps alive.                         *)
(***************************************************************************)
EXTENDS Integers, FiniteSets, WorkerCalls

(* The calls that reach the adapter.  Its unload() only takes the lock, and *)
(* nothing calls it: the worker unloads by ending the child.               *)
Requests == {c \in Call : Target[c] # Unload}

Part == {"encoder", "embeddings", "transformer", "vae"}

VARIABLES
  pc,       \* where each call is
  result,   \* how it ended
  lock,     \* _lock
  frame,    \* the parts that locals of _encode or _generate refer to
  kept,     \* the parts that __call__'s embeddings keep alive
  trace,    \* the parts that frames of a traceback refer to
  garbage,  \* the parts nothing refers to that have not been collected yet
  failing   \* an exception is under way

vars == <<pc, result, lock, frame, kept, trace, garbage, failing>>
memory == <<frame, kept, trace, garbage>>
Held == frame \cup kept \cup trace \cup garbage

Init ==
  /\ pc = [c \in Call |-> "idle"]
  /\ result = [c \in Call |-> "none"]
  /\ lock = None
  /\ frame = {} /\ kept = {} /\ trace = {} /\ garbage = {}
  /\ failing = FALSE

Goto(c, stage) == pc' = [pc EXCEPT ![c] = stage]

\* The call goes on to stage, without an exception.
Continue(c, stage) == Goto(c, stage) /\ UNCHANGED <<result, lock, failing, trace>>

\* The call leaves "with self._lock".
End(c, x) ==
  /\ Goto(c, "done")
  /\ result' = [result EXCEPT ![c] = x]
  /\ lock' = None /\ failing' = FALSE

(* An exception: the frames it passed through, those of the library too,   *)
(* may refer to any part that exists or is being built.                    *)
Raise(c, stage, part) ==
  /\ Goto(c, stage)
  /\ failing' = TRUE
  /\ trace' \in SUBSET (frame \cup kept \cup {part})
  /\ UNCHANGED <<result, lock, frame, kept, garbage>>

Acquire(c) ==
  /\ pc[c] = "idle" /\ lock = None
  /\ lock' = c
  /\ Goto(c, "validate")
  /\ UNCHANGED <<result, memory, failing>>

(* The request, the mounted weights and CUDA are checked.                  *)
Validate(c) ==
  /\ pc[c] = "validate"
  /\ \/ End(c, "failed") /\ UNCHANGED trace
     \/ Continue(c, "encode")
  /\ UNCHANGED <<frame, kept, garbage>>

-----------------------------------------------------------------------------
LoadEncoder(c) ==
  /\ pc[c] = "encode"
  /\ \/ Continue(c, "embed") /\ frame' = {"encoder"} /\ UNCHANGED <<kept, garbage>>
     \/ Raise(c, "leave_encode", "encoder")

\* Mutant: without inference_mode the embeddings keep their encoder alive.
EmbedWithGradients(c) ==
  /\ pc[c] = "embed"
  /\ Continue(c, "leave_encode")
  /\ kept' = {"embeddings", "encoder"}
  /\ UNCHANGED <<frame, garbage>>

(* encode_prompt, in inference_mode.                                       *)
Embed(c) ==
  /\ pc[c] = "embed"
  /\ \/ Continue(c, "leave_encode") /\ kept' = {"embeddings"} /\ UNCHANGED <<frame, garbage>>
     \/ Raise(c, "leave_encode", "embeddings")

(* The finally of a stage: its locals are reset, and what nothing refers   *)
(* to any more is collected.  The collection can raise; the embeddings     *)
(* that were being returned are then in a frame of the traceback.          *)
LeaveStage(c, stage, next) ==
  /\ pc[c] = stage
  /\ frame' = {} /\ garbage' = {}
  /\ \/ /\ Goto(c, IF failing THEN "catch" ELSE next)
        /\ UNCHANGED <<kept, trace, failing>>
     \/ /\ Goto(c, "catch")
        /\ failing' = TRUE
        /\ IF stage = "leave_encode" THEN trace' = trace \cup kept /\ kept' = {}
                                     ELSE UNCHANGED <<trace, kept>>
  /\ UNCHANGED <<result, lock>>

LoadTransformer(c) ==
  /\ pc[c] = "denoise"
  /\ \/ Continue(c, "vae") /\ frame' = {"transformer"} /\ UNCHANGED <<kept, garbage>>
     \/ Raise(c, "leave_generate", "transformer")

LoadVae(c) ==
  /\ pc[c] = "vae"
  /\ \/ Continue(c, "infer") /\ frame' = frame \cup {"vae"} /\ UNCHANGED <<kept, garbage>>
     \/ Raise(c, "leave_generate", "vae")

(* The pipeline is assembled and runs.                                     *)
Infer(c) ==
  /\ pc[c] = "infer"
  /\ \/ Continue(c, "leave_generate") /\ UNCHANGED <<frame, kept, garbage>>
     \/ Raise(c, "leave_generate", "vae")

(* except: traceback.clear_frames; the scope of the exception ends.        *)
Catch(c) ==
  /\ pc[c] = "catch"
  /\ trace' = {} /\ garbage' = garbage \cup trace
  /\ Goto(c, "drop")
  /\ UNCHANGED <<result, lock, frame, kept, failing>>

\* Mutant: what a failure left is not collected before the call returns.
DropUncollected(c) ==
  /\ pc[c] = "drop"
  /\ kept' = {} /\ UNCHANGED <<frame, garbage>>
  /\ \/ End(c, "failed") /\ UNCHANGED trace
     \/ ~failing /\ Continue(c, "save")

(* embeddings = None, parameters.clear(), and the last collection, which   *)
(* can raise; a call without an image raises now.                          *)
Drop(c) ==
  /\ pc[c] = "drop"
  /\ kept' = {} /\ garbage' = {} /\ UNCHANGED frame
  /\ \/ End(c, "failed") /\ UNCHANGED trace
     \/ ~failing /\ Continue(c, "save")

Save(c) ==
  /\ pc[c] = "save"
  /\ End(c, "image") \/ End(c, "failed")
  /\ UNCHANGED memory

Step(c) ==
  \/ Acquire(c) \/ Validate(c)
  \/ LoadEncoder(c) \/ Embed(c) \/ LeaveStage(c, "leave_encode", "denoise")
  \/ LoadTransformer(c) \/ LoadVae(c) \/ Infer(c) \/ LeaveStage(c, "leave_generate", "drop")
  \/ Catch(c) \/ Drop(c) \/ Save(c)

Idle == (\A c \in Requests : pc[c] = "done") /\ UNCHANGED vars

Next == Idle \/ \E c \in Requests : Step(c)

(* The thread is scheduled and an inference ends.                          *)
Spec == Init /\ [][Next]_vars /\ \A c \in Requests : WF_vars(Step(c))

-----------------------------------------------------------------------------
(* Every variable keeps its type.                                          *)
TypeOK ==
  /\ pc \in [Call -> {"idle", "validate", "encode", "embed", "leave_encode",
                      "denoise", "vae", "infer", "leave_generate", "catch", "drop",
                      "save", "done"}]
  /\ result \in [Call -> {"none", "image", "failed"}]
  /\ lock \in Call \cup {None}
  /\ frame \subseteq Part /\ kept \subseteq Part
  /\ trace \subseteq Part /\ garbage \subseteq Part
  /\ failing \in BOOLEAN

(* "The next encoder must never be loaded beside the previous request's    *)
(* denoiser", nor a denoiser beside its own request's encoder, whatever    *)
(* failed and whatever a traceback holds.                                  *)
StagesApart == ~({"encoder", "transformer"} \subseteq Held)

(* "No failed stage can survive a retry": between two calls nothing is in  *)
(* GPU memory, which is why the adapter needs no unloading of its own.     *)
NothingSurvives == lock = None => Held = {}

(* Every call ends, so the lock always comes back.                         *)
EveryCallEnds == \A c \in Requests : <>(pc[c] = "done")
=============================================================================
