--------------------------- MODULE Flux2Dev_proofs ---------------------------
(***************************************************************************)
(* Proofs about the FLUX.2 dev adapter for every set of calls, and about   *)
(* the workers together.  The names of the adapter's module are F!...,     *)
(* beside the other processes.                                             *)
(***************************************************************************)
EXTENDS WorkerCaches_proofs

Outside == {"idle", "done"}

(* Whoever is inside holds the lock.                                       *)
LockInv == \A c \in Call : fpc[c] \notin Outside <=> flock = c

Empty == fframe = {} /\ fkept = {} /\ ftrace = {} /\ fgarbage = {}

(* What can be in memory at a stage of the call inside.                    *)
AtStage(stage) ==
  /\ stage \in {"validate", "encode", "save"} => Empty /\ ~ffailing
  /\ stage = "embed" =>
       fframe = {"encoder"} /\ fkept = {} /\ ftrace = {} /\ fgarbage = {} /\ ~ffailing
  /\ stage = "leave_encode" =>
       /\ "transformer" \notin fframe \cup fkept \cup ftrace
       /\ "encoder" \notin fkept /\ fgarbage = {}
       /\ ~ffailing => ftrace = {}
  /\ stage = "denoise" =>
       fframe = {} /\ "encoder" \notin fkept /\ ftrace = {} /\ fgarbage = {} /\ ~ffailing
  /\ stage \in {"vae", "infer"} =>
       "encoder" \notin fframe \cup fkept /\ ftrace = {} /\ fgarbage = {} /\ ~ffailing
  /\ stage = "leave_generate" =>
       /\ "encoder" \notin fframe \cup fkept \cup ftrace /\ fgarbage = {}
       /\ ~ffailing => ftrace = {}
  /\ stage = "catch" => fframe = {} /\ fgarbage = {} /\ F!StagesApart
  /\ stage = "drop" => fframe = {} /\ ftrace = {} /\ F!StagesApart

StageInv ==
  /\ flock = None => Empty /\ ~ffailing
  /\ \A c \in Call : AtStage(fpc[c])

FInv == F!TypeOK /\ LockInv /\ StageInv

LEMMA RequestsAreCalls == F!Requests \subseteq Call
BY DEF F!Requests

USE CallAssumption, RequestsAreCalls

LEMMA FInit == F!Init => FInv
BY DEF F!Init, FInv, F!TypeOK, LockInv, StageInv, AtStage, Outside, Empty, F!Part

(* Nobody but the call inside has a stage that the memory depends on.      *)
LEMMA StepFrame ==
  ASSUME F!TypeOK, LockInv, NEW c \in Call, F!Step(c)
  PROVE  /\ fpc[c] = "idle" => flock = None
         /\ fpc[c] # "idle" => flock = c
         /\ \A d \in Call \ {c} : fpc[d] \in Outside /\ fpc'[d] = fpc[d]
<1>1. fpc[c] # "done" /\ (fpc[c] = "idle" => flock = None)
  BY DEF F!Step, F!Acquire, F!Validate, F!LoadEncoder, F!Embed,
         F!LeaveStage, F!LoadTransformer, F!LoadVae, F!Infer, F!Catch, F!Drop, F!Save
<1>2. \A d \in Call \ {c} : fpc'[d] = fpc[d]
  BY DEF F!Step, F!Acquire, F!Validate, F!LoadEncoder, F!Embed,
         F!LeaveStage, F!LoadTransformer, F!LoadVae, F!Infer, F!Catch, F!Drop, F!Save,
         F!Continue, F!End, F!Raise, F!Goto, F!TypeOK
<1>. QED  BY <1>1, <1>2 DEF LockInv, Outside

LEMMA StepType ==
  ASSUME FInv, NEW c \in Call, F!Step(c)
  PROVE  F!TypeOK'
<1>. F!TypeOK
  BY DEF FInv
<1>. DEFINE Stage == {"idle", "validate", "encode", "embed", "leave_encode",
                      "denoise", "vae", "infer", "leave_generate", "catch", "drop",
                      "save", "done"}
<1>1. /\ \E stage \in Stage : fpc' = [fpc EXCEPT ![c] = stage]
      /\ flock' \in {None, c, flock} /\ ffailing' \in {TRUE, FALSE, ffailing}
  <2>. USE DEF F!Goto, F!End, F!Continue, F!Raise
  <2>1. CASE F!Acquire(c) \/ F!Validate(c)
    BY <2>1 DEF F!Acquire, F!Validate
  <2>2. CASE F!LoadEncoder(c) \/ F!Embed(c)
    BY <2>2 DEF F!LoadEncoder, F!Embed
  <2>3. CASE \/ F!LeaveStage(c, "leave_encode", "denoise")
             \/ F!LeaveStage(c, "leave_generate", "drop")
    BY <2>3 DEF F!LeaveStage
  <2>4. CASE F!LoadTransformer(c) \/ F!LoadVae(c) \/ F!Infer(c)
    BY <2>4 DEF F!LoadTransformer, F!LoadVae, F!Infer
  <2>5. CASE F!Catch(c) \/ F!Drop(c) \/ F!Save(c)
    BY <2>5 DEF F!Catch, F!Drop, F!Save
  <2>. QED  BY <2>1, <2>2, <2>3, <2>4, <2>5 DEF F!Step
<1>2. \/ fresult' = fresult
      \/ \E x \in {"image", "failed"} : fresult' = [fresult EXCEPT ![c] = x]
  <2>. USE DEF F!End, F!Continue, F!Raise
  <2>1. CASE F!Acquire(c) \/ F!Validate(c)
    BY <2>1 DEF F!Acquire, F!Validate
  <2>2. CASE F!LoadEncoder(c) \/ F!Embed(c)
    BY <2>2 DEF F!LoadEncoder, F!Embed
  <2>3. CASE \/ F!LeaveStage(c, "leave_encode", "denoise")
             \/ F!LeaveStage(c, "leave_generate", "drop")
    BY <2>3 DEF F!LeaveStage
  <2>4. CASE F!LoadTransformer(c) \/ F!LoadVae(c) \/ F!Infer(c)
    BY <2>4 DEF F!LoadTransformer, F!LoadVae, F!Infer
  <2>5. CASE F!Catch(c) \/ F!Drop(c) \/ F!Save(c)
    BY <2>5 DEF F!Catch, F!Drop, F!Save
  <2>. QED  BY <2>1, <2>2, <2>3, <2>4, <2>5 DEF F!Step
<1>3. fframe' \subseteq F!Part /\ fkept' \subseteq F!Part
      /\ ftrace' \subseteq F!Part /\ fgarbage' \subseteq F!Part
  <2>. fframe \subseteq F!Part /\ fkept \subseteq F!Part
       /\ ftrace \subseteq F!Part /\ fgarbage \subseteq F!Part
    BY DEF F!TypeOK
  <2>. USE DEF F!memory, F!Part, F!End, F!Continue, F!Raise
  <2>1. CASE F!Acquire(c) \/ F!Validate(c)
    BY <2>1 DEF F!Acquire, F!Validate
  <2>2. CASE F!LoadEncoder(c) \/ F!Embed(c)
    BY <2>2 DEF F!LoadEncoder, F!Embed
  <2>3. CASE \/ F!LeaveStage(c, "leave_encode", "denoise")
             \/ F!LeaveStage(c, "leave_generate", "drop")
    BY <2>3 DEF F!LeaveStage
  <2>4. CASE F!LoadTransformer(c) \/ F!LoadVae(c) \/ F!Infer(c)
    BY <2>4 DEF F!LoadTransformer, F!LoadVae, F!Infer
  <2>5. CASE F!Catch(c) \/ F!Drop(c) \/ F!Save(c)
    BY <2>5 DEF F!Catch, F!Drop, F!Save
  <2>. QED  BY <2>1, <2>2, <2>3, <2>4, <2>5 DEF F!Step
<1>4. fpc' \in [Call -> Stage] /\ flock' \in Call \cup {None} /\ ffailing' \in BOOLEAN
  <2>1. PICK stage \in Stage : fpc' = [fpc EXCEPT ![c] = stage]
    BY <1>1
  <2>2. fpc \in [Call -> Stage]
    BY DEF F!TypeOK
  <2>. HIDE DEF Stage
  <2>3. fpc' \in [Call -> Stage]
    BY <2>1, <2>2
  <2>. QED  BY <1>1, <2>3 DEF F!TypeOK
<1>5. fresult' \in [Call -> {"none", "image", "failed"}]
  BY <1>2 DEF F!TypeOK
<1>. QED  BY <1>3, <1>4, <1>5 DEF F!TypeOK

LEMMA StepLock ==
  ASSUME FInv, NEW c \in Call, F!Step(c)
  PROVE  LockInv'
<1>1. fpc'[c] # "idle" /\ flock' = IF fpc'[c] = "done" THEN None ELSE c
  <2>1. DOMAIN fpc = Call /\ (fpc[c] # "idle" => flock = c)
    BY StepFrame DEF FInv, F!TypeOK
  <2>. USE DEF F!Goto, F!End, F!Continue, F!Raise
  <2>2. CASE F!Acquire(c) \/ F!Validate(c)
    BY <2>1, <2>2 DEF F!Acquire, F!Validate
  <2>3. CASE F!LoadEncoder(c) \/ F!Embed(c)
    BY <2>1, <2>3 DEF F!LoadEncoder, F!Embed
  <2>4. CASE \/ F!LeaveStage(c, "leave_encode", "denoise")
             \/ F!LeaveStage(c, "leave_generate", "drop")
    BY <2>1, <2>4 DEF F!LeaveStage
  <2>5. CASE F!LoadTransformer(c) \/ F!LoadVae(c) \/ F!Infer(c)
    BY <2>1, <2>5 DEF F!LoadTransformer, F!LoadVae, F!Infer
  <2>6. CASE F!Catch(c) \/ F!Drop(c) \/ F!Save(c)
    BY <2>1, <2>6 DEF F!Catch, F!Drop, F!Save
  <2>. QED  BY <2>2, <2>3, <2>4, <2>5, <2>6 DEF F!Step
<1>2. c # None /\ \A d \in Call \ {c} : d # None /\ fpc'[d] \in Outside
  BY StepFrame DEF FInv
<1>. QED  BY <1>1, <1>2 DEF LockInv, Outside

(* The stage of the call inside decides what can be in memory next.        *)
LEMMA StepStage ==
  ASSUME FInv, NEW c \in Call, F!Step(c)
  PROVE  StageInv'
<1>. F!TypeOK /\ AtStage(fpc[c]) /\ (flock = None => Empty /\ ~ffailing)
  BY DEF FInv, StageInv
<1>0. \A d \in Call \ {c} : fpc'[d] \in Outside
  BY StepFrame DEF FInv
<1> SUFFICES (flock = None => Empty /\ ~ffailing)' /\ AtStage(fpc[c])'
  <2>1. ASSUME NEW d \in Call \ {c} PROVE AtStage(fpc[d])'
    BY <1>0 DEF AtStage, Outside
  <2>. QED  BY <2>1 DEF StageInv
<1>. USE DEF AtStage, Empty, F!Goto, F!End, F!Continue, F!memory, F!TypeOK,
            F!StagesApart, F!Held
<1>1. CASE F!Acquire(c)
  BY <1>1 DEF F!Acquire
<1>2. CASE F!Validate(c) \/ F!Save(c)
  BY <1>2, StepFrame DEF FInv, F!Validate, F!Save
<1>3. CASE F!LoadEncoder(c)
  BY <1>3, StepFrame DEF FInv, F!LoadEncoder, F!Raise
<1>4. CASE F!Embed(c)
  BY <1>4, StepFrame DEF FInv, F!Embed, F!Raise
<1>5. CASE F!LeaveStage(c, "leave_encode", "denoise")
  BY <1>5, StepFrame DEF FInv, F!LeaveStage
<1>6. CASE F!LoadTransformer(c) \/ F!LoadVae(c) \/ F!Infer(c)
  BY <1>6, StepFrame DEF FInv, F!LoadTransformer, F!LoadVae, F!Infer, F!Raise
<1>7. CASE F!LeaveStage(c, "leave_generate", "drop")
  BY <1>7, StepFrame DEF FInv, F!LeaveStage
<1>8. CASE F!Catch(c)
  BY <1>8, StepFrame DEF FInv, F!Catch
<1>9. CASE F!Drop(c)
  BY <1>9, StepFrame DEF FInv, F!Drop
<1>. QED  BY <1>1, <1>2, <1>3, <1>4, <1>5, <1>6, <1>7, <1>8, <1>9 DEF F!Step

LEMMA FNext == FInv /\ [F!Next]_(F!vars) => FInv'
<1> SUFFICES ASSUME FInv, [F!Next]_(F!vars) PROVE FInv'
  OBVIOUS
<1>1. CASE \E c \in Call : F!Step(c)
  BY <1>1, StepType, StepLock, StepStage DEF FInv
<1>2. CASE UNCHANGED F!vars
  BY <1>2 DEF F!vars, FInv, F!TypeOK, LockInv, StageInv, AtStage, Empty,
              F!StagesApart, F!Held
<1>. QED  BY <1>1, <1>2 DEF F!Next, F!Idle

(* The invariant the other results rest on.                                *)
THEOREM Invariant == F!Init /\ [][F!Next]_(F!vars) => []FInv
BY FInit, FNext, PTL

LEMMA NotBoth ==
  ASSUME FInv
  PROVE  F!StagesApart
<1>1. CASE flock = None
  BY <1>1 DEF FInv, StageInv, Empty, F!StagesApart, F!Held
<1>2. ASSUME NEW c \in Call, flock = c PROVE F!StagesApart
  <2>1. fpc[c] \notin Outside /\ AtStage(fpc[c])
    BY <1>2 DEF FInv, LockInv, StageInv
  <2>. QED  BY <2>1 DEF FInv, F!TypeOK, Outside, AtStage, Empty, F!StagesApart, F!Held
<1>. QED  BY <1>1, <1>2 DEF FInv, F!TypeOK

(* The encoder and the denoiser are never in memory together.              *)
THEOREM NeverTogether == F!Init /\ [][F!Next]_(F!vars) => []StagesApart
BY Invariant, NotBoth, PTL DEF StagesApart

(* Between two calls nothing is in memory.                                 *)
THEOREM NothingLeft == F!Init /\ [][F!Next]_(F!vars) => []NothingSurvives
<1>1. FInv => F!NothingSurvives
  BY DEF FInv, StageInv, Empty, F!NothingSurvives, F!Held
<1>. QED  BY Invariant, <1>1, PTL DEF NothingSurvives

-----------------------------------------------------------------------------
(* Beside one another, the workers keep the invariants they keep alone.    *)
THEOREM ProcessesSafe ==
  ProcessesSpec => /\ [](HealthOwnsUp /\ TileRestored /\ RunsTarget)
                   /\ [](B!ActiveIsCached /\ CleanSingle)
                   /\ [](StagesApart /\ NothingSurvives)
<1>1. U!Init /\ [][U!Next]_(U!vars) => [](HealthOwnsUp /\ TileRestored /\ RunsTarget)
  BY HealthOwns, TileBack, TargetRuns, PTL
<1>2. B!Init /\ [][B!Next]_(B!vars) => [](B!ActiveIsCached /\ CleanSingle)
  BY ActiveCached, SingleWhileClean, PTL
<1>3. F!Init /\ [][F!Next]_(F!vars) => [](StagesApart /\ NothingSurvives)
  BY NeverTogether, NothingLeft, PTL
<1>. QED  BY Apart, <1>1, <1>2, <1>3, PTL

(* Beside one another the processes keep the account of their memory on    *)
(* which Residency relies.                                                 *)
THEOREM MemoryKept == ProcessesSpec => MemoryContract
BY Apart, UpscaleContract, BackgroundContract, PTL DEF MemoryContract
=============================================================================
