--------------------------- MODULE Gateway_proofs ---------------------------
(***************************************************************************)
(* Proofs about the gateway for every set of requests, every assignment of *)
(* routes and every size of the pool.                                      *)
(***************************************************************************)
EXTENDS Gateway, FiniteSetTheorems, TLAPS

(* A route keeps the thread it runs on: the loop is not shared between two *)
(* async routes, and a pooled route holds its thread.                      *)
ThreadKept ==
  \A r \in Request :
    pc[r] \in RunStages => IF Async(r) THEN loop = r ELSE r \in pool

SlotKept == \A r \in Request : InLane(r) => slot = Thread(r)

(* Only uploads of async routes are read and closed in the pool; a pooled  *)
(* route that has begun holds its thread.                                  *)
StageInv ==
  \A r \in Request :
    /\ pc[r] \in {"spool", "reading", "back", "unspool", "closing", "resume"} => Async(r)
    /\ pc[r] = "queue" => ~Async(r)
    /\ pc[r] = "gate" /\ ~Async(r) => r \in pool

(* The outcome is known once the call has ended, a model can have run only *)
(* then, and a result exists only once the route has ended.                *)
HistoryInv ==
  \A r \in Request :
    /\ pc[r] \in {"clear", "release", "return"} => outcome[r] \in Outcomes
    /\ outcome[r] # "none" => pc[r] \in {"clear", "release", "return", "reply", "done"}
    /\ ran[r] => /\ outcome[r] \notin {"none", "connect", "http_503", "unloaded", "kept"}
                 /\ pc[r] \in {"clear", "release", "return", "reply", "done"}
    /\ result[r] # "none" => pc[r] \in {"reply", "done"}
    /\ result[r] # "busy"

IInv ==
  /\ TypeOK
  /\ ThreadKept
  /\ SlotKept
  /\ StatusHonest
  /\ StageInv
  /\ HistoryInv
  /\ RetrySafe

USE RouteAssumption, PoolAssumption, ThreadAssumption

(* Two requests on the same thread in a run stage are the same request.    *)
LEMMA ThreadsDiffer ==
  ASSUME ThreadKept, NEW r \in Request, NEW s \in Request,
         pc[r] \in RunStages, pc[s] \in RunStages, Thread(r) = Thread(s)
  PROVE  r = s
BY DEF ThreadKept, Thread

LEMMA ThreadNotNobody ==
  ASSUME NEW r \in Request
  PROVE  Thread(r) \in (Request \cup {EventLoop}) /\ Thread(r) # Nobody
BY DEF Thread

LEMMA LaneIsRun == LaneStages \subseteq RunStages /\ OwnedStages \subseteq LaneStages
BY DEF LaneStages, OwnedStages, RunStages

LEMMA ExcludesOthers ==
  ASSUME ThreadKept, SlotKept
  PROVE  OneInLane
BY ThreadsDiffer, LaneIsRun DEF OneInLane, SlotKept, InLane

LEMMA ClassifyType ==
  ASSUME NEW o \in Outcomes, NEW x
  PROVE  /\ Classify(x, o) \in Results \ {"busy"}
         /\ StatusOf(Classify(x, o)) = 503 => o \in {"connect", "http_503", "kept"}
BY DEF Outcomes, ImageOutcomes, UnloadOutcomes, Classify, Results, StatusOf

-----------------------------------------------------------------------------
LEMMA InitInv == Init => IInv
<1> SUFFICES ASSUME Init PROVE IInv
  OBVIOUS
<1>1. TypeOK
  BY DEF Init, TypeOK, Stages, RunStages, LaneStages
<1>2. \A r \in Request : /\ pc[r] = "idle" /\ outcome[r] = "none"
                          /\ ~ran[r] /\ result[r] = "none"
  BY DEF Init
<1>3. ThreadKept /\ SlotKept
  BY <1>2 DEF ThreadKept, SlotKept, InLane, RunStages, LaneStages
<1>4. StatusHonest
  BY <1>2 DEF Init, StatusHonest, OwnedStages
<1>5. StageInv /\ HistoryInv /\ RetrySafe
  BY <1>2 DEF StageInv, HistoryInv, RetrySafe
<1>. QED  BY <1>1, <1>3, <1>4, <1>5 DEF IInv

(* Leave takes a request out of the lane and off its thread.               *)
LEMMA LeaveFacts ==
  ASSUME TypeOK, NEW r \in Request, NEW x \in Results, Leave(r, x)
  PROVE  /\ pc' = [pc EXCEPT ![r] = "reply"]
         /\ result' = [result EXCEPT ![r] = x]
         /\ pc' \in [Request -> Stages]
         /\ result' \in [Request -> Results \cup {"none"}]
         /\ loop' \in Request \cup {Nobody}
         /\ loop # r => loop' = loop
         /\ pool' = pool \ {r}
BY DEF Leave, Goto, TypeOK, Stages

(* The steps of a route up to coordinator.run; those in which it changes   *)
(* between loop, pool and queues; and those of the world outside.          *)
Coming(r) ==
  Begin(r) \/ BeginPooled(r) \/ HealthAnswers(r) \/ HealthFails(r) \/ Resume(r)
Turning(r) == TakeThread(r) \/ TurnDone(r) \/ CloseUpload(r) \/ Answer(r)
Outside == GenerationFlips \/ \E r \in Request : Worker(r)

(* A coming route leaves, goes on with its own thread to a run stage, or    *)
(* hands its upload to the pool and gives up the loop.                      *)
LEMMA ComingFacts ==
  ASSUME TypeOK, ThreadKept, StageInv, NEW r \in Request, Coming(r)
  PROVE  /\ UNCHANGED <<slot, active, owner, outcome, ran, genReady, editing, flips>>
         /\ pc[r] \in {"gate", "ask", "resume"}
         /\ \/ \E x \in {"rejected", "unavailable", "crashed", "ok"} : Leave(r, x)
            \/ /\ \E stage \in {"ask", "check"} : Goto(r, stage)
               /\ UNCHANGED <<pool, result>>
               /\ IF Async(r) THEN loop \in {r, Nobody} /\ loop' = r
                              ELSE r \in pool /\ loop' = loop
            \/ /\ Async(r) /\ Goto(r, "spool")
               /\ UNCHANGED <<pool, result>>
               /\ loop \in {r, Nobody} /\ loop' = Nobody
<1>. DEFINE Upshot ==
       \/ \E x \in {"rejected", "unavailable", "crashed", "ok"} : Leave(r, x)
       \/ /\ \E stage \in {"ask", "check"} : Goto(r, stage)
          /\ UNCHANGED <<pool, result>>
          /\ IF Async(r) THEN loop \in {r, Nobody} /\ loop' = r
                         ELSE r \in pool /\ loop' = loop
       \/ /\ Async(r) /\ Goto(r, "spool")
          /\ UNCHANGED <<pool, result>>
          /\ loop \in {r, Nobody} /\ loop' = Nobody
<1>1. ASSUME Async(r), loop \in {r, Nobody}, Validate(r) \/ ReadUpload(r) PROVE Upshot
  BY <1>1 DEF Validate, ReadUpload
<1>2. CASE Begin(r)
  BY <1>1, <1>2 DEF Begin, laneVars, genVars
<1>3. CASE BeginPooled(r)
  BY <1>3 DEF BeginPooled, StageInv, laneVars, genVars
<1>4. ASSUME NEW ready \in BOOLEAN, pc[r] = "ask", Gate(r, ready) PROVE Upshot
  <2>1. IF Async(r) THEN loop = r ELSE r \in pool
    BY <1>4 DEF ThreadKept, RunStages
  <2>2. Route[r] = "edit" => Async(r)
    BY DEF Async, AsyncRoutes
  <2>3. Route[r] = "generation" => ~Async(r)
    BY DEF Async, AsyncRoutes
  <2>. QED  BY <1>1, <1>4, <2>1, <2>2, <2>3 DEF Gate
<1>5. CASE HealthAnswers(r) \/ HealthFails(r)
  BY <1>4, <1>5 DEF HealthAnswers, HealthFails, TypeOK, laneVars, genVars
<1>6. CASE Resume(r)
  BY <1>1, <1>6 DEF Resume, StageInv, laneVars, genVars
<1>. QED  BY <1>2, <1>3, <1>5, <1>6 DEF Coming

LEMMA PoolTurns ==
  /\ DOMAIN PoolTurn = {"queue", "spool", "unspool"}
  /\ PoolTurn["queue"] = "gate" /\ PoolTurn["spool"] = "reading"
  /\ PoolTurn["unspool"] = "closing"
BY DEF PoolTurn

LEMMA TurningFacts ==
  ASSUME NEW r \in Request, Turning(r)
  PROVE  /\ UNCHANGED <<loop, slot, active, owner, outcome, ran, result, genReady, editing,
                        flips>>
         /\ \/ pc[r] = "queue" /\ Goto(r, "gate") /\ pool' = pool \cup {r}
            \/ pc[r] = "spool" /\ Goto(r, "reading") /\ pool' = pool \cup {r}
            \/ pc[r] = "unspool" /\ Goto(r, "closing") /\ pool' = pool \cup {r}
            \/ pc[r] = "reading" /\ Goto(r, "back") /\ pool' = pool \ {r}
            \/ pc[r] = "closing" /\ Goto(r, "resume") /\ pool' = pool \ {r}
            \/ pc[r] = "back" /\ Goto(r, "unspool") /\ pool' = pool
            \/ pc[r] = "reply" /\ Goto(r, "done") /\ pool' = pool
<1>. USE PoolTurns DEF laneVars, workVars, genVars
<1>1. CASE TakeThread(r)
  BY <1>1 DEF TakeThread
<1>2. CASE TurnDone(r)
  BY <1>2 DEF TurnDone
<1>3. CASE CloseUpload(r) \/ Answer(r)
  BY <1>3 DEF CloseUpload, Answer
<1>. QED  BY <1>1, <1>2, <1>3 DEF Turning

LEMMA OutsideFacts ==
  ASSUME TypeOK, Outside
  PROVE  /\ UNCHANGED <<pc, loop, pool, slot, active, owner, outcome, ran, result>>
         /\ genReady' \in BOOLEAN /\ flips' \in 0 .. MaxFlips /\ editing' \subseteq Request
<1>1. CASE GenerationFlips
  BY <1>1 DEF GenerationFlips, TypeOK, laneVars, workVars
<1>2. CASE \E r \in Request : Worker(r)
  BY <1>2 DEF Worker, EditBegins, EditEndsLate, TypeOK, laneVars, workVars
<1>. QED  BY <1>1, <1>2 DEF Outside

(* What all the steps of one request r have in common as far as threads    *)
(* are concerned: nobody else's stage or thread is touched.                *)
LEMMA StepFrame ==
  ASSUME TypeOK, ThreadKept, StageInv, NEW r \in Request, Step(r)
  PROVE  /\ \A s \in Request \ {r} : pc'[s] = pc[s] /\ (s \in pool => s \in pool')
         /\ \A s \in Request \ {r} : loop = s => loop' = s
<1>1. CASE Turning(r)
  BY <1>1, TurningFacts DEF Goto, TypeOK
<1>2. CASE Coming(r)
  <2>1. CASE \E x \in {"rejected", "unavailable", "crashed", "ok"} : Leave(r, x)
    BY <2>1 DEF Leave, Goto, TypeOK
  <2>2. CASE /\ \E stage \in {"ask", "check", "spool"} : Goto(r, stage)
             /\ UNCHANGED pool
             /\ loop' = loop \/ loop \in {r, Nobody}
    BY <2>2, ThreadAssumption DEF Goto, TypeOK
  <2>. QED  BY <1>2, <2>1, <2>2, ComingFacts
<1>3. CASE CheckOwner(r)
  BY <1>3 DEF CheckOwner, Leave, Goto, TypeOK
<1>4. CASE AcquireSlot(r) \/ SetOwner(r) \/ Dispatch(r)
  BY <1>4 DEF AcquireSlot, SetOwner, Dispatch, Goto, TypeOK
<1>5. CASE WorkerReturns(r) \/ ClearOwner(r) \/ ReleaseSlot(r)
  BY <1>5 DEF WorkerReturns, ClearOwner, ReleaseSlot, Goto, TypeOK
<1>6. CASE Return(r)
  BY <1>6 DEF Return, Leave, Goto, TypeOK
<1>. QED  BY <1>1, <1>2, <1>3, <1>4, <1>5, <1>6 DEF Step, Coming, Turning

LEMMA StepType ==
  ASSUME IInv, NEW r \in Request, Step(r)
  PROVE  TypeOK'
<1>. USE DEF IInv
<1>0. TypeOK
  OBVIOUS
<1>s. RunStages \cup {"idle", "queue", "gate", "spool", "reading", "back", "unspool",
                      "closing", "resume", "reply", "done"} \subseteq Stages
  BY DEF Stages
<1>1. CASE Turning(r)
  <2>1. pool' \subseteq Request
    BY <1>0, <1>1, TurningFacts DEF TypeOK
  <2>. QED  BY <1>0, <1>1, <1>s, <2>1, TurningFacts DEF Goto, TypeOK
<1>2. CASE Coming(r)
  <2>1. CASE \E x \in {"rejected", "unavailable", "crashed", "ok"} : Leave(r, x)
    <3>1. PICK x \in Results : Leave(r, x)
      BY <2>1 DEF Results
    <3>2. pool' = pool \ {r}
      BY <3>1 DEF Leave
    <3>. QED  BY <1>0, <1>2, <3>1, <3>2, ComingFacts, LeaveFacts DEF TypeOK
  <2>2. CASE /\ \E stage \in {"ask", "check", "spool"} : Goto(r, stage)
             /\ UNCHANGED <<pool, result>>
             /\ loop' \in {loop, r, Nobody}
    <3>1. UNCHANGED <<slot, active, owner, outcome, ran, genReady, editing, flips>>
      BY <1>2, ComingFacts
    <3>2. pc' \in [Request -> Stages]
      BY <1>0, <1>s, <2>2 DEF TypeOK, Goto, RunStages
    <3>. QED  BY <1>0, <2>2, <3>1, <3>2 DEF TypeOK
  <2>. QED  BY <1>2, <2>1, <2>2, ComingFacts
<1>6. CASE CheckOwner(r)
  <2>1. /\ slot' = slot /\ active' = active /\ owner' = owner /\ outcome' = outcome
        /\ ran' = ran /\ genReady' = genReady /\ editing' = editing /\ flips' = flips
    BY <1>6 DEF CheckOwner, laneVars, genVars
  <2>2. CASE Leave(r, "busy")
    BY <1>0, <2>1, <2>2, LeaveFacts DEF TypeOK, Results
  <2>3. CASE Goto(r, "wait") /\ UNCHANGED <<loop, pool, result>>
    BY <1>0, <1>s, <2>1, <2>3 DEF TypeOK, Goto, RunStages
  <2>. QED  BY <1>6, <2>2, <2>3 DEF CheckOwner
<1>7. CASE AcquireSlot(r) \/ SetOwner(r) \/ Dispatch(r) \/ ClearOwner(r) \/ ReleaseSlot(r)
  BY <1>0, <1>7, <1>s, ThreadNotNobody
    DEF AcquireSlot, SetOwner, Dispatch, ClearOwner, ReleaseSlot, Goto, TypeOK, RunStages,
        LaneStages, laneVars, workVars, genVars
<1>8. CASE WorkerReturns(r)
  <2>1. outcome' \in [Request -> Outcomes \cup {"none"}]
    BY <1>0, <1>8 DEF WorkerReturns, TypeOK, Outcomes, OutcomesOf
  <2>2. ran' \in [Request -> BOOLEAN]
    BY <1>0, <1>8, Zenon DEF WorkerReturns, TypeOK
  <2>3. editing' \subseteq Request
    BY <1>0, <1>8 DEF WorkerReturns, TypeOK
  <2>. QED
    BY <1>0, <1>8, <1>s, <2>1, <2>2, <2>3
      DEF WorkerReturns, Goto, TypeOK, RunStages, LaneStages, laneVars
<1>9. CASE Return(r)
  <2>1. Classify(Route[r], outcome[r]) \in Results
    BY <1>9, ClassifyType DEF Return, HistoryInv
  <2>. QED
    BY <1>0, <1>9, <2>1, LeaveFacts DEF Return, TypeOK, laneVars, genVars
<1>. QED
  BY <1>1, <1>2, <1>6, <1>7, <1>8, <1>9 DEF Step, Coming, Turning

(* A route enters a run stage with its thread, and gives the thread up only *)
(* by Leave, which ends its run stages.                                     *)
LEMMA StepThread ==
  ASSUME IInv, NEW r \in Request, Step(r)
  PROVE  ThreadKept'
<1>. TypeOK /\ ThreadKept /\ StageInv
  BY DEF IInv
<1>1. SUFFICES ASSUME pc'[r] \in RunStages
               PROVE  IF Async(r) THEN loop' = r ELSE r \in pool'
  BY StepFrame DEF ThreadKept, Async
<1>2. ASSUME NEW x \in Results, Leave(r, x) PROVE FALSE
  BY <1>1, <1>2, LeaveFacts DEF TypeOK, RunStages, LaneStages
<1>3. \/ Async(r) /\ loop' = r
      \/ ~Async(r) /\ r \in pool /\ pool' = pool
      \/ pc[r] \in RunStages /\ UNCHANGED <<loop, pool>>
      \/ pc'[r] \notin RunStages
  <2>. USE DEF Goto, RunStages, LaneStages
  <2>1. CASE Turning(r)
    BY <2>1, TurningFacts DEF TypeOK
  <2>2. CASE Coming(r)
    BY <1>2, <2>2, ComingFacts DEF TypeOK, Results
  <2>5. CASE CheckOwner(r)
    BY <1>2, <2>5 DEF CheckOwner, Results
  <2>6. CASE AcquireSlot(r) \/ SetOwner(r) \/ Dispatch(r)
    BY <2>6 DEF AcquireSlot, SetOwner, Dispatch
  <2>7. CASE WorkerReturns(r) \/ ClearOwner(r) \/ ReleaseSlot(r)
    BY <2>7 DEF WorkerReturns, ClearOwner, ReleaseSlot
  <2>8. CASE Return(r)
    <3>1. Classify(Route[r], outcome[r]) \in Results
      BY <2>8, ClassifyType DEF Return, IInv, HistoryInv
    <3>. QED  BY <1>2, <2>8, <3>1 DEF Return
  <2>. QED
    BY <2>1, <2>2, <2>5, <2>6, <2>7, <2>8 DEF Step, Coming, Turning
<1>. QED  BY <1>1, <1>3 DEF ThreadKept

(* The slot changes hands only through a free lock.                        *)
LEMMA StepSlot ==
  ASSUME IInv, NEW r \in Request, Step(r)
  PROVE  SlotKept'
<1>. TypeOK /\ ThreadKept /\ SlotKept /\ StageInv /\ OneInLane
  BY ExcludesOthers DEF IInv
<1>. USE StepFrame, ThreadNotNobody, LaneIsRun DEF SlotKept, InLane
<1>1. CASE AcquireSlot(r)
  BY <1>1 DEF AcquireSlot, Goto, TypeOK, Thread, Async
<1>2. CASE ReleaseSlot(r)
  BY <1>2 DEF ReleaseSlot, Goto, TypeOK, OneInLane, LaneStages, Thread, Async
<1>3. CASE SetOwner(r) \/ Dispatch(r) \/ WorkerReturns(r) \/ ClearOwner(r)
  <2>1. pc[r] \in LaneStages /\ slot' = slot
    BY <1>3 DEF SetOwner, Dispatch, WorkerReturns, ClearOwner, LaneStages, laneVars
  <2>. QED  BY <2>1 DEF Thread, Async
<1>4. ASSUME slot' = slot, pc'[r] \notin LaneStages
      PROVE  SlotKept'
  BY <1>4 DEF Thread, Async
<1>5. ASSUME NEW x, Leave(r, x)
      PROVE  pc'[r] \notin LaneStages
  BY <1>5 DEF Leave, Goto, TypeOK, LaneStages
<1>6. CASE Turning(r)
  BY <1>4, <1>6, TurningFacts DEF Goto, TypeOK, LaneStages
<1>7. CASE Coming(r)
  BY <1>4, <1>5, <1>7, ComingFacts DEF Goto, TypeOK, LaneStages
<1>10. CASE CheckOwner(r)
  BY <1>4, <1>5, <1>10 DEF CheckOwner, Goto, TypeOK, LaneStages, laneVars
<1>11. CASE Return(r)
  BY <1>4, <1>5, <1>11 DEF Return, laneVars
<1>. QED
  BY <1>1, <1>2, <1>3, <1>6, <1>7, <1>10, <1>11 DEF Step, Coming, Turning

(* _active and _owner are written by the lane's owner only, and only while  *)
(* it holds the slot.                                                       *)
LEMMA StepStatus ==
  ASSUME IInv, NEW r \in Request, Step(r)
  PROVE  StatusHonest'
<1>. TypeOK /\ ThreadKept /\ StatusHonest /\ StageInv /\ OneInLane
  BY ExcludesOthers DEF IInv
<1>. USE StepFrame, ThreadNotNobody, LaneIsRun DEF StatusHonest
<1>1. CASE SetOwner(r)
  <2>1. \A s \in Request \ {r} : pc[s] \notin OwnedStages
    BY <1>1 DEF SetOwner, OneInLane, InLane, LaneStages
  <2>2. pc'[r] \in OwnedStages /\ active' = 1 /\ owner' = Thread(r)
    BY <1>1 DEF SetOwner, Goto, TypeOK, OwnedStages
  <2>. QED  BY <2>1, <2>2 DEF Thread, Async
<1>2. CASE ClearOwner(r)
  <2>1. \A s \in Request \ {r} : pc[s] \notin OwnedStages
    BY <1>2 DEF ClearOwner, OneInLane, InLane, LaneStages
  <2>2. pc'[r] \notin OwnedStages /\ active' = 0 /\ owner' = Nobody
    BY <1>2 DEF ClearOwner, Goto, TypeOK, OwnedStages
  <2>. QED  BY <2>1, <2>2 DEF Thread, Async
<1>3. ASSUME UNCHANGED <<active, owner>>,
             pc[r] \in OwnedStages <=> pc'[r] \in OwnedStages
      PROVE  StatusHonest'
  <2>1. \A s \in Request : pc[s] \in OwnedStages <=> pc'[s] \in OwnedStages
    BY <1>3
  <2>. QED  BY <1>3, <2>1 DEF Thread, Async
<1>4. ASSUME NEW x, Leave(r, x)
      PROVE  pc'[r] \notin OwnedStages
  BY <1>4 DEF Leave, Goto, TypeOK, OwnedStages
<1>5. CASE Dispatch(r) \/ WorkerReturns(r)
  <2>1. CASE Dispatch(r)
    BY <1>3, <2>1 DEF Dispatch, Goto, TypeOK, OwnedStages, laneVars
  <2>2. CASE WorkerReturns(r)
    BY <1>3, <2>2 DEF WorkerReturns, Goto, TypeOK, OwnedStages, laneVars
  <2>. QED  BY <1>5, <2>1, <2>2
<1>6. CASE AcquireSlot(r) \/ ReleaseSlot(r)
  BY <1>3, <1>6 DEF AcquireSlot, ReleaseSlot, Goto, TypeOK, OwnedStages
<1>7. CASE Turning(r)
  BY <1>3, <1>7, TurningFacts DEF Goto, TypeOK, OwnedStages
<1>8. CASE Coming(r)
  BY <1>3, <1>4, <1>8, ComingFacts DEF Goto, TypeOK, OwnedStages
<1>11. CASE CheckOwner(r)
  BY <1>3, <1>4, <1>11 DEF CheckOwner, Goto, TypeOK, OwnedStages, laneVars
<1>12. CASE Return(r)
  BY <1>3, <1>4, <1>12 DEF Return, TypeOK, OwnedStages, laneVars
<1>. QED
  BY <1>1, <1>2, <1>5, <1>6, <1>7, <1>8, <1>11, <1>12 DEF Step, Coming, Turning

LEMMA StepStage ==
  ASSUME IInv, NEW r \in Request, Step(r)
  PROVE  StageInv'
<1>. TypeOK /\ ThreadKept /\ StageInv
  BY DEF IInv
<1>. DEFINE Upload == {"spool", "reading", "back", "unspool", "closing", "resume"}
<1>1. SUFFICES ASSUME pc'[r] \in {"queue", "gate"} \cup Upload
               PROVE  /\ pc'[r] \in Upload => Async(r)
                      /\ pc'[r] = "queue" => ~Async(r)
                      /\ pc'[r] = "gate" /\ ~Async(r) => r \in pool'
  BY StepFrame DEF StageInv, Async
<1>2. ASSUME NEW x, Leave(r, x) PROVE FALSE
  BY <1>1, <1>2 DEF Leave, Goto, TypeOK
<1>3. CASE Turning(r)
  BY <1>1, <1>3, TurningFacts DEF Goto, TypeOK, StageInv
<1>4. CASE Coming(r)
  BY <1>1, <1>2, <1>4, ComingFacts DEF Goto, TypeOK
<1>7. CASE CheckOwner(r)
  BY <1>1, <1>2, <1>7 DEF CheckOwner, Goto, TypeOK
<1>8. CASE AcquireSlot(r) \/ SetOwner(r) \/ Dispatch(r) \/ WorkerReturns(r)
           \/ ClearOwner(r) \/ ReleaseSlot(r)
  <2>1. CASE AcquireSlot(r) \/ SetOwner(r) \/ ClearOwner(r) \/ ReleaseSlot(r)
    BY <1>1, <2>1 DEF AcquireSlot, SetOwner, ClearOwner, ReleaseSlot, Goto, TypeOK
  <2>2. CASE Dispatch(r)
    BY <1>1, <2>2 DEF Dispatch, Goto, TypeOK
  <2>3. CASE WorkerReturns(r)
    BY <1>1, <2>3 DEF WorkerReturns, Goto, TypeOK
  <2>. QED  BY <1>8, <2>1, <2>2, <2>3
<1>9. CASE Return(r)
  BY <1>2, <1>9 DEF Return
<1>. QED  BY <1>3, <1>4, <1>7, <1>8, <1>9 DEF Step, Coming, Turning

-----------------------------------------------------------------------------
(* A thread that owns the lane is busy in it, so it is not the thread of a *)
(* request that is only coming to coordinator.run.                         *)
LEMMA CheckedOwnerDiffers ==
  ASSUME ThreadKept, StatusHonest, NEW r \in Request, pc[r] = "check"
  PROVE  owner # Thread(r)
<1>1. SUFFICES ASSUME owner = Thread(r) PROVE FALSE
  OBVIOUS
<1>2. PICK s \in Request : pc[s] \in OwnedStages /\ owner = Thread(s)
  BY <1>1, ThreadNotNobody DEF StatusHonest
<1>3. s = r
  BY <1>1, <1>2, ThreadsDiffer, LaneIsRun DEF RunStages
<1>. QED  BY <1>2, <1>3 DEF OwnedStages

LEMMA StepHistory ==
  ASSUME IInv, NEW r \in Request, Step(r)
  PROVE  HistoryInv' /\ RetrySafe'
<1>. TypeOK /\ ThreadKept /\ StageInv /\ HistoryInv /\ RetrySafe
  BY DEF IInv
<1>. DEFINE NoRun == {"none", "connect", "http_503", "unloaded", "kept"}
<1>. DEFINE After == {"clear", "release", "return", "reply", "done"}
<1>. DEFINE Fine(s) ==
              /\ pc'[s] \in {"clear", "release", "return"} => outcome'[s] \in Outcomes
              /\ outcome'[s] # "none" => pc'[s] \in After
              /\ ran'[s] => outcome'[s] \notin NoRun /\ pc'[s] \in After
              /\ result'[s] # "none" => pc'[s] \in {"reply", "done"}
              /\ result'[s] # "busy"
              /\ result'[s] # "none" /\ StatusOf(result'[s]) = 503 => ~ran'[s]
<1>1. /\ \A s \in Request \ {r} : /\ pc'[s] = pc[s] /\ outcome'[s] = outcome[s]
                                  /\ ran'[s] = ran[s] /\ result'[s] = result[s]
      /\ ~WorkerReturns(r) => outcome' = outcome /\ ran' = ran
  <2>1. CASE WorkerReturns(r)
    <3>1. /\ \A s \in Request \ {r} : outcome'[s] = outcome[s] /\ ran'[s] = ran[s]
      <4>1. PICK o : outcome' = [outcome EXCEPT ![r] = o]
        BY <2>1 DEF WorkerReturns
      <4>2. PICK b : ran' = [ran EXCEPT ![r] = b]
        BY <2>1, Zenon DEF WorkerReturns
      <4>. QED  BY <4>1, <4>2 DEF TypeOK
    <3>. QED  BY <2>1, <3>1 DEF WorkerReturns, Goto, TypeOK
  <2>2. CASE Turning(r)
    BY <2>2, TurningFacts DEF Goto, TypeOK
  <2>3. CASE Coming(r)
    BY <2>3, ComingFacts DEF Leave, Goto, TypeOK
  <2>6. CASE CheckOwner(r)
    BY <2>6 DEF CheckOwner, Leave, Goto, TypeOK
  <2>7. CASE AcquireSlot(r) \/ SetOwner(r) \/ Dispatch(r) \/ ClearOwner(r) \/ ReleaseSlot(r)
    BY <2>7 DEF AcquireSlot, SetOwner, Dispatch, ClearOwner, ReleaseSlot, Goto, TypeOK,
                workVars
  <2>8. CASE Return(r)
    BY <2>8 DEF Return, Leave, Goto, TypeOK
  <2>. QED  BY <2>1, <2>2, <2>3, <2>6, <2>7, <2>8 DEF Step, Coming, Turning
<1>2. SUFFICES Fine(r)
  <2>1. \A s \in Request \ {r} : Fine(s)
    BY <1>1 DEF HistoryInv, RetrySafe
  <2>. QED  BY <1>2, <2>1 DEF HistoryInv, RetrySafe
<1>3. ASSUME pc[r] \notin After, UNCHANGED <<outcome, ran>>,
             NEW x \in {"rejected", "unavailable", "crashed", "ok"}, Leave(r, x)
      PROVE  Fine(r)
  BY <1>3 DEF Leave, Goto, TypeOK, HistoryInv
<1>4. ASSUME pc[r] \notin After, UNCHANGED workVars, NEW stage, Goto(r, stage),
             stage \notin After
      PROVE  Fine(r)
  BY <1>4 DEF Goto, TypeOK, HistoryInv, RetrySafe, workVars
<1>5. CASE Turning(r)
  <2>1. CASE pc[r] = "reply" /\ Goto(r, "done")
    <3>1. UNCHANGED <<outcome, ran, result>>
      BY <1>5, TurningFacts
    <3>2. pc'[r] = "done"
      BY <2>1 DEF Goto, TypeOK
    <3>. QED  BY <2>1, <3>1, <3>2 DEF HistoryInv, RetrySafe
  <2>2. CASE /\ pc[r] \notin After
             /\ \E stage \in {"gate", "reading", "closing", "back", "resume", "unspool"} :
                  Goto(r, stage)
    <3>1. UNCHANGED workVars
      BY <1>5, TurningFacts DEF workVars
    <3>. QED  BY <1>4, <2>2, <3>1
  <2>. QED  BY <1>5, <2>1, <2>2, TurningFacts
<1>6. CASE Coming(r)
  BY <1>3, <1>4, <1>6, ComingFacts DEF workVars
<1>9. CASE CheckOwner(r)
  <2>1. owner # Thread(r)
    BY <1>9, CheckedOwnerDiffers DEF CheckOwner, IInv
  <2>. QED  BY <1>1, <1>4, <1>9, <2>1 DEF CheckOwner, WorkerReturns, workVars
<1>10. CASE AcquireSlot(r) \/ SetOwner(r) \/ Dispatch(r)
  BY <1>4, <1>10 DEF AcquireSlot, SetOwner, Dispatch
<1>11. CASE WorkerReturns(r)
  <2>1. pc[r] = "call" /\ pc'[r] = "clear" /\ result' = result
    BY <1>11 DEF WorkerReturns, Goto, TypeOK
  <2>2. outcome'[r] \in Outcomes
    BY <1>11 DEF WorkerReturns, TypeOK, Outcomes, OutcomesOf
  <2>3. ran'[r] => outcome'[r] \notin NoRun
    <3>0. OutcomesOf(r) \subseteq Outcomes
      BY DEF OutcomesOf, Outcomes
    <3>1. PICK o \in OutcomesOf(r) :
            /\ outcome' = [outcome EXCEPT ![r] = o]
            /\ \E b \in CASE o \in {"connect", "http_503", "unloaded", "kept"} -> {FALSE}
                          [] o \in {"png", "bad_png", "long_png", "oversize"} -> {TRUE}
                          [] OTHER -> BOOLEAN :
                 ran' = [ran EXCEPT ![r] = b]
      BY <1>11, Zenon DEF WorkerReturns
    <3>2. o # "none"
      BY <3>0 DEF Outcomes, ImageOutcomes, UnloadOutcomes
    <3>3. o \in {"connect", "http_503", "unloaded", "kept"} => ran' = [ran EXCEPT ![r] = FALSE]
      BY <3>1
    <3>. QED  BY <3>1, <3>2, <3>3 DEF TypeOK
  <2>. QED  BY <2>1, <2>2, <2>3 DEF HistoryInv
<1>12. CASE ClearOwner(r) \/ ReleaseSlot(r)
  BY <1>12 DEF ClearOwner, ReleaseSlot, Goto, TypeOK, HistoryInv, workVars
<1>13. CASE Return(r)
  <2>1. outcome[r] \in Outcomes
    BY <1>13 DEF Return, HistoryInv
  <2>2. /\ result'[r] = Classify(Route[r], outcome[r])
        /\ pc'[r] = "reply" /\ outcome' = outcome /\ ran' = ran
    BY <1>13 DEF Return, Leave, Goto, TypeOK
  <2>. QED  BY <2>1, <2>2, ClassifyType DEF HistoryInv
<1>. QED
  BY <1>5, <1>6, <1>9, <1>10, <1>11, <1>12, <1>13 DEF Step, Coming, Turning

LEMMA ArriveInv ==
  ASSUME IInv, NEW r \in Request, Arrive(r)
  PROVE  IInv'
<1>. TypeOK
  BY DEF IInv
<1>0. /\ pc[r] = "idle" /\ loop = Nobody
      /\ UNCHANGED <<slot, active, owner, outcome, ran, genReady, editing, flips>>
  BY DEF Arrive, laneVars, genVars
<1>1. CASE Leave(r, "rejected")
  <2>1. /\ pc' = [pc EXCEPT ![r] = "reply"] /\ pc' \in [Request -> Stages]
        /\ result' = [result EXCEPT ![r] = "rejected"]
        /\ result' \in [Request -> Results \cup {"none"}]
        /\ loop' = loop /\ pool' = pool \ {r}
    <3>1. "rejected" \in Results /\ loop # r
      BY <1>0 DEF Results
    <3>. QED  BY <1>1, <3>1, LeaveFacts
  <2>2. TypeOK'
    BY <1>0, <2>1 DEF TypeOK
  <2>3. ThreadKept' /\ SlotKept' /\ StatusHonest' /\ StageInv'
    BY <1>0, <2>1 DEF IInv, TypeOK, ThreadKept, SlotKept, StatusHonest, StageInv, InLane,
                      RunStages, LaneStages, OwnedStages, Thread, Async
  <2>4. HistoryInv' /\ RetrySafe'
    <3>1. ~ran[r] /\ outcome[r] = "none"
      BY <1>0 DEF IInv, HistoryInv
    <3>2. \A s \in Request \ {r} : pc'[s] = pc[s] /\ result'[s] = result[s]
      BY <2>1 DEF TypeOK
    <3>3. pc'[r] = "reply" /\ result'[r] = "rejected"
      BY <2>1 DEF TypeOK
    <3>. QED  BY <1>0, <3>1, <3>2, <3>3 DEF IInv, HistoryInv, RetrySafe
  <2>. QED  BY <2>2, <2>3, <2>4 DEF IInv
<1>2. CASE Goto(r, IF Async(r) THEN "gate" ELSE "queue") /\ UNCHANGED <<loop, pool, result>>
  <2>1. /\ pc' = [pc EXCEPT ![r] = pc'[r]]
        /\ pc'[r] = IF Async(r) THEN "gate" ELSE "queue"
        /\ pc' \in [Request -> Stages]
    BY <1>2 DEF Goto, TypeOK, Stages
  <2>2. TypeOK'
    BY <1>0, <1>2, <2>1 DEF TypeOK
  <2>3. ThreadKept' /\ SlotKept' /\ StatusHonest' /\ StageInv'
    BY <1>0, <1>2, <2>1 DEF IInv, TypeOK, ThreadKept, SlotKept, StatusHonest, StageInv, InLane,
                            RunStages, LaneStages, OwnedStages, Thread, Async
  <2>4. HistoryInv' /\ RetrySafe'
    BY <1>0, <1>2, <2>1 DEF IInv, TypeOK, HistoryInv, RetrySafe
  <2>. QED  BY <2>2, <2>3, <2>4 DEF IInv
<1>. QED  BY <1>1, <1>2 DEF Arrive

LEMMA NextInv == IInv /\ [Next]_vars => IInv'
<1> SUFFICES ASSUME IInv, [Next]_vars PROVE IInv'
  OBVIOUS
<1>1. CASE \E r \in Request : Step(r)
  BY <1>1, StepType, StepThread, StepSlot, StepStatus, StepStage, StepHistory DEF IInv
<1>2. CASE \E r \in Request : Arrive(r)
  BY <1>2, ArriveInv
<1>3. CASE Outside
  BY <1>3, OutsideFacts DEF IInv, TypeOK, ThreadKept, SlotKept, StatusHonest, StageInv,
     HistoryInv, RetrySafe, InLane, Thread, Async
<1>4. CASE UNCHANGED vars
  BY <1>4 DEF vars, IInv, TypeOK, ThreadKept, SlotKept, StatusHonest, StageInv, HistoryInv,
              RetrySafe, InLane, Thread, Async
<1>. QED  BY <1>1, <1>2, <1>3, <1>4 DEF Next, Idle, Outside

(* The invariant the other results rest on.                                *)
THEOREM Invariant == Spec => []IInv
BY InitInv, NextInv, PTL DEF Spec

(* Type correctness of the gateway.                                        *)
THEOREM TypeCorrect == Spec => []TypeOK
<1>1. IInv => TypeOK
  BY DEF IInv
<1>. QED  BY Invariant, <1>1, PTL

(* At most one request is in the lane, whatever the requests and routes.   *)
THEOREM MutualExclusion == Spec => []OneInLane
<1>1. IInv => OneInLane
  BY ExcludesOthers DEF IInv
<1>. QED  BY Invariant, <1>1, PTL

(* The lane's owner never waits for a thread.                              *)
THEOREM OwnerRuns == Spec => []LaneOwnerRuns
<1>1. IInv => LaneOwnerRuns
  BY LaneIsRun DEF IInv, LaneOwnerRuns, SlotKept, ThreadKept, InLane
<1>. QED  BY Invariant, <1>1, PTL

(* The status that GET /health reports is the truth.                       *)
THEOREM HonestStatus == Spec => []StatusHonest
<1>1. IInv => StatusHonest
  BY DEF IInv
<1>. QED  BY Invariant, <1>1, PTL

(* No request of any route is ever refused as busy.                        *)
THEOREM BusyUnreachable == Spec => []NeverBusy
<1>1. IInv => NeverBusy
  BY CheckedOwnerDiffers DEF IInv, NeverBusy, HistoryInv
<1>. QED  BY Invariant, <1>1, PTL

(* A 503 is only ever answered for a request for which no model ran.       *)
THEOREM SafeToRetry == Spec => []RetrySafe
<1>1. IInv => RetrySafe
  BY DEF IInv
<1>. QED  BY Invariant, <1>1, PTL

-----------------------------------------------------------------------------
(* The coordinator implements the abstract lane, step for step.            *)

LEMMA HolderIs ==
  ASSUME OneInLane, NEW r \in Request, InLane(r)
  PROVE  LaneHolder = r
BY DEF OneInLane, LaneHolder

LEMMA HolderIsPrimed ==
  ASSUME OneInLane', NEW r \in Request, InLane(r)'
  PROVE  LaneHolder' = r
BY DEF OneInLane, LaneHolder

(* A step that neither moves a request into or out of the lane nor ends a  *)
(* call outside it is invisible in the lane.                               *)
LEMMA LaneStutters ==
  ASSUME \A s \in Request : /\ InLane(s)' <=> InLane(s)
                            /\ ~InLane(s) => outcome'[s] = outcome[s]
  PROVE  UNCHANGED L!vars
<1>1. LaneHolder' = LaneHolder
  BY DEF LaneHolder
<1>2. LaneServed' = LaneServed
  BY DEF LaneServed
<1>. QED  BY <1>1, <1>2 DEF L!vars

LEMMA LeaveIsOutside ==
  ASSUME TypeOK, NEW r \in Request, NEW x, Leave(r, x), pc[r] \notin LaneStages, outcome' = outcome
  PROVE  UNCHANGED L!vars
<1>1. \A s \in Request : InLane(s)' <=> InLane(s)
  BY DEF Leave, Goto, TypeOK, InLane, LaneStages
<1>. QED  BY <1>1, LaneStutters

LEMMA LaneStep == IInv /\ IInv' /\ [Next]_vars => [L!Next]_(L!vars)
<1> SUFFICES ASSUME IInv, IInv', [Next]_vars PROVE [L!Next]_(L!vars)
  OBVIOUS
<1>0. TypeOK /\ ThreadKept /\ StageInv /\ OneInLane /\ OneInLane' /\ SlotKept /\ HistoryInv
  <2>1. OneInLane'
    <3>1. ThreadKept' /\ SlotKept'
      BY DEF IInv
    <3>. QED  BY <3>1, ExcludesOthers, PTL
  <2>. QED  BY <2>1, ExcludesOthers DEF IInv
<1>a. ASSUME NEW r \in Request, NEW stage, Goto(r, stage), outcome' = outcome,
             pc[r] \notin LaneStages, stage \notin LaneStages
      PROVE  UNCHANGED L!vars
  <2>1. \A s \in Request : InLane(s)' <=> InLane(s)
    BY <1>0, <1>a DEF Goto, TypeOK, InLane
  <2>. QED  BY <1>a, <2>1, LaneStutters
<1>1. ASSUME NEW r \in Request, AcquireSlot(r) PROVE L!Take(r)
  <2>1. LaneHolder = Nobody
    BY <1>1, ThreadNotNobody DEF AcquireSlot, LaneHolder, IInv, SlotKept
  <2>2. /\ ~InLane(r) /\ InLane(r)' /\ outcome' = outcome
        /\ \A s \in Request \ {r} : InLane(s)' <=> InLane(s)
    BY <1>0, <1>1 DEF AcquireSlot, Goto, TypeOK, InLane, LaneStages, workVars
  <2>3. outcome[r] = "none"
    BY <1>0, <1>1 DEF AcquireSlot, HistoryInv
  <2>4. LaneServed' = LaneServed /\ r \notin LaneServed
    BY <2>2, <2>3 DEF LaneServed
  <2>. QED  BY <1>0, <2>1, <2>2, <2>4, HolderIsPrimed DEF L!Take
<1>2. ASSUME NEW r \in Request, ReleaseSlot(r) PROVE L!Give
  <2>1. /\ InLane(r) /\ ~InLane(r)' /\ outcome' = outcome
        /\ \A s \in Request \ {r} : InLane(s)' <=> InLane(s)
    BY <1>0, <1>2 DEF ReleaseSlot, Goto, TypeOK, InLane, LaneStages, workVars
  <2>2. LaneHolder = r /\ r # Nobody
    BY <1>0, <2>1, HolderIs
  <2>3. \A s \in Request : ~InLane(s)'
    BY <1>0, <2>1 DEF OneInLane
  <2>4. outcome[r] # "none"
    BY <1>0, <1>2 DEF ReleaseSlot, HistoryInv, Outcomes, ImageOutcomes, UnloadOutcomes
  <2>5. LaneServed' = LaneServed \cup {r}
    BY <2>1, <2>4 DEF LaneServed
  <2>6. LaneHolder' = Nobody
    BY <2>3 DEF LaneHolder
  <2>. QED  BY <2>2, <2>5, <2>6 DEF L!Give
<1>3. ASSUME NEW r \in Request,
             SetOwner(r) \/ Dispatch(r) \/ WorkerReturns(r) \/ ClearOwner(r)
      PROVE  UNCHANGED L!vars
  <2>1. /\ \A s \in Request : InLane(s)' <=> InLane(s)
        /\ InLane(r)
    BY <1>0, <1>3 DEF SetOwner, Dispatch, WorkerReturns, ClearOwner, Goto, TypeOK, InLane,
                      LaneStages
  <2>2. \A s \in Request \ {r} : outcome'[s] = outcome[s]
    <3>1. CASE WorkerReturns(r)
      <4>1. PICK o : outcome' = [outcome EXCEPT ![r] = o]
        BY <3>1 DEF WorkerReturns
      <4>. QED  BY <1>0, <4>1 DEF TypeOK
    <3>2. CASE SetOwner(r) \/ Dispatch(r) \/ ClearOwner(r)
      BY <3>2 DEF SetOwner, Dispatch, ClearOwner, workVars
    <3>. QED  BY <1>3, <3>1, <3>2
  <2>. QED  BY <2>1, <2>2, LaneStutters
<1>4. ASSUME NEW r \in Request, Turning(r)
      PROVE  UNCHANGED L!vars
  BY <1>a, <1>4, TurningFacts DEF LaneStages
<1>5. ASSUME NEW r \in Request, Arrive(r) \/ Coming(r)
      PROVE  UNCHANGED L!vars
  <2>1. outcome' = outcome /\ pc[r] \notin LaneStages
    BY <1>0, <1>5, ComingFacts DEF Arrive, LaneStages
  <2>2. \/ \E x : Leave(r, x)
        \/ \E stage \in {"gate", "queue", "spool", "ask", "check"} : Goto(r, stage)
    BY <1>0, <1>5, ComingFacts DEF Arrive
  <2>. QED  BY <1>0, <1>a, <2>1, <2>2, LeaveIsOutside DEF LaneStages
<1>6. ASSUME NEW r \in Request, CheckOwner(r) \/ Return(r)
      PROVE  UNCHANGED L!vars
  <2>1. outcome' = outcome /\ pc[r] \notin LaneStages
    BY <1>6 DEF CheckOwner, Return, LaneStages
  <2>2. (\E x : Leave(r, x)) \/ Goto(r, "wait")
    BY <1>6 DEF CheckOwner, Return
  <2>. QED  BY <1>0, <1>a, <2>1, <2>2, LeaveIsOutside DEF LaneStages
<1>7. CASE Outside \/ UNCHANGED vars
  <2>1. pc' = pc /\ outcome' = outcome
    BY <1>0, <1>7, OutsideFacts DEF vars
  <2>. QED  BY <2>1, LaneStutters DEF InLane
<1>. QED
  BY <1>1, <1>2, <1>3, <1>4, <1>5, <1>6, <1>7 DEF Next, Step, Idle, Coming, Turning, Outside, L!Next

(* Whatever the gateway does, its lane only takes and gives back, one job  *)
(* at a time and each job once.                                            *)
THEOREM Refinement == Spec => L!Init /\ [][L!Next]_(L!vars)
<1>1. Init => L!Init
  BY DEF Init, L!Init, LaneHolder, LaneServed, InLane, LaneStages
<1>. QED  BY <1>1, Invariant, LaneStep, PTL DEF Spec

-----------------------------------------------------------------------------
(* What nobody waits for in a circle.                                      *)

(* Loop, threads and lock are kept by requests that are using them.        *)
LoopUsed == loop # Nobody => pc[loop] \in RunStages
PoolUsed ==
  \A r \in pool : pc[r] \in IF Async(r) THEN {"reading", "closing"} ELSE RunStages \cup {"gate"}
SlotUsed == slot # Nobody => \E r \in Request : InLane(r)

UInv == LoopUsed /\ PoolUsed /\ SlotUsed

(* A request that moves outside the lane.                                  *)
LEMMA OutsideKeepsSlot ==
  ASSUME TypeOK, SlotUsed, NEW r \in Request, slot' = slot, ~InLane(r),
         \A s \in Request \ {r} : pc'[s] = pc[s]
  PROVE  SlotUsed'
BY DEF SlotUsed, InLane

(* A request that leaves gives back its thread.                            *)
LEMMA LeaveUsed ==
  ASSUME TypeOK, UInv, NEW r \in Request, NEW x, Leave(r, x), slot' = slot, ~InLane(r)
  PROVE  UInv'
<1>1. /\ pc' = [pc EXCEPT ![r] = "reply"]
      /\ loop' = IF loop = r THEN Nobody ELSE loop
      /\ pool' = pool \ {r}
  BY DEF Leave, Goto
<1>2. LoopUsed' /\ PoolUsed'
  BY <1>1, ThreadAssumption DEF UInv, LoopUsed, PoolUsed, TypeOK, Async
<1>3. SlotUsed'
  BY <1>1, OutsideKeepsSlot DEF UInv, TypeOK
<1>. QED  BY <1>2, <1>3 DEF UInv

(* A request that goes on outside the lane, and may take the loop or give  *)
(* it up.                                                                  *)
LEMMA MoveUsed ==
  ASSUME TypeOK, UInv, NEW r \in Request, NEW stage, Goto(r, stage), ~InLane(r), slot' = slot,
         \/ loop' = loop /\ loop # r
         \/ loop' = Nobody
         \/ stage \in RunStages /\ loop' \in {loop, r},
         \/ pool' \subseteq pool /\ r \notin pool'
         \/ stage \in RunStages /\ pool' = pool /\ (r \in pool => ~Async(r))
  PROVE  UInv'
<1>1. pc' = [pc EXCEPT ![r] = stage]
  BY DEF Goto
<1>2. LoopUsed' /\ PoolUsed'
  BY <1>1, ThreadAssumption DEF UInv, LoopUsed, PoolUsed, TypeOK, Async
<1>3. SlotUsed'
  BY <1>1, OutsideKeepsSlot DEF UInv, TypeOK
<1>. QED  BY <1>2, <1>3 DEF UInv

(* A request in a run stage stays in one.                                  *)
LEMMA RunUsed ==
  ASSUME TypeOK, UInv, NEW r \in Request, NEW stage, Goto(r, stage), stage \in RunStages,
         pc[r] \in RunStages, UNCHANGED <<loop, pool>>
  PROVE  LoopUsed' /\ PoolUsed'
<1>1. pc'[r] = stage /\ \A s \in Request \ {r} : pc'[s] = pc[s]
  BY DEF Goto, TypeOK
<1>2. LoopUsed'
  BY <1>1 DEF UInv, LoopUsed, TypeOK
<1>3. r \in pool => ~Async(r)
  BY DEF UInv, PoolUsed, RunStages, LaneStages
<1>4. PoolUsed'
  BY <1>1, <1>3 DEF UInv, PoolUsed, TypeOK, Async
<1>. QED  BY <1>2, <1>4

LEMMA StepUsed ==
  ASSUME IInv, UInv, NEW r \in Request, Step(r)
  PROVE  UInv'
<1>. TypeOK /\ ThreadKept /\ SlotKept /\ StageInv /\ OneInLane
  BY ExcludesOthers DEF IInv
<1>0. /\ pc[r] \notin RunStages => loop # r
      /\ Async(r) /\ pc[r] \notin {"reading", "closing"} => r \notin pool
      /\ ~Async(r) /\ pc[r] \notin RunStages \cup {"gate"} => r \notin pool
  BY ThreadAssumption DEF UInv, LoopUsed, PoolUsed, RunStages, LaneStages
<1>. USE DEF RunStages, LaneStages, InLane
<1>1. CASE Turning(r)
  <2>1. CASE pool' = pool \cup {r}
    <3>1. LoopUsed' /\ PoolUsed'
      BY <1>0, <1>1, <2>1, TurningFacts DEF Goto, UInv, LoopUsed, PoolUsed, StageInv, TypeOK, Async
    <3>. QED  BY <1>1, <3>1, TurningFacts, OutsideKeepsSlot DEF Goto, UInv, TypeOK
  <2>2. CASE pool' # pool \cup {r}
    BY <1>0, <1>1, <2>2, TurningFacts, MoveUsed
  <2>. QED  BY <2>1, <2>2
<1>2. CASE Coming(r)
  <2>1. slot' = slot /\ ~InLane(r) /\ pc[r] \in {"gate", "ask", "resume"}
    BY <1>2, ComingFacts
  <2>2. CASE \E x : Leave(r, x)
    BY <2>1, <2>2, LeaveUsed
  <2>3. CASE /\ \E stage \in {"ask", "check"} : Goto(r, stage)
             /\ pool' = pool /\ (loop' = r \/ loop' = loop)
    BY <1>0, <2>1, <2>3, MoveUsed
  <2>4. CASE Async(r) /\ Goto(r, "spool") /\ pool' = pool /\ loop' = Nobody
    <3>1. r \notin pool
      BY <1>0, <2>1, <2>4
    <3>. QED  BY <2>1, <2>4, <3>1, MoveUsed
  <2>. QED  BY <1>2, <2>2, <2>3, <2>4, ComingFacts
<1>7. CASE CheckOwner(r)
  BY <1>0, <1>7, LeaveUsed, MoveUsed DEF CheckOwner, laneVars
<1>8. CASE AcquireSlot(r) \/ SetOwner(r) \/ Dispatch(r) \/ WorkerReturns(r) \/ ClearOwner(r)
  <2>1. /\ \E stage \in LaneStages : Goto(r, stage)
        /\ pc[r] \in RunStages /\ UNCHANGED <<loop, pool>>
    BY <1>8 DEF AcquireSlot, SetOwner, Dispatch, WorkerReturns, ClearOwner
  <2>2. LoopUsed' /\ PoolUsed'
    BY <2>1, RunUsed
  <2>3. SlotUsed'
    BY <2>1 DEF SlotUsed, Goto, TypeOK
  <2>. QED  BY <2>2, <2>3 DEF UInv
<1>9. CASE ReleaseSlot(r)
  <2>1. LoopUsed' /\ PoolUsed'
    BY <1>9, RunUsed DEF ReleaseSlot
  <2>2. SlotUsed'
    BY <1>9 DEF ReleaseSlot, SlotUsed
  <2>. QED  BY <2>1, <2>2 DEF UInv
<1>10. CASE Return(r)
  BY <1>10, LeaveUsed DEF Return, laneVars
<1>. QED
  BY <1>1, <1>2, <1>7, <1>8, <1>9, <1>10 DEF Step, Coming, Turning

LEMMA NextUsed == IInv /\ UInv /\ [Next]_vars => UInv'
<1>. SUFFICES ASSUME IInv, UInv, [Next]_vars PROVE UInv'
  OBVIOUS
<1>. TypeOK
  BY DEF IInv
<1>1. ASSUME NEW r \in Request, Arrive(r) PROVE UInv'
  <2>1. /\ pc[r] = "idle" /\ loop = Nobody /\ loop # r /\ slot' = slot
        /\ r \notin pool /\ ~InLane(r)
    BY <1>1, ThreadAssumption
      DEF Arrive, UInv, PoolUsed, RunStages, LaneStages, InLane, laneVars
  <2>. QED  BY <1>1, <2>1, LeaveUsed, MoveUsed DEF Arrive
<1>2. CASE Outside \/ UNCHANGED vars
  <2>1. UNCHANGED <<pc, loop, pool, slot>>
    BY <1>2, OutsideFacts DEF vars
  <2>. QED  BY <2>1 DEF UInv, LoopUsed, PoolUsed, SlotUsed, InLane, Async
<1>. QED  BY <1>1, <1>2, StepUsed DEF Next, Idle, Outside

(* No more threads are taken than the pool has.                            *)
PoolFits == IsFiniteSet(pool) /\ Cardinality(pool) <= PoolSize

LEMMA NextFits == IInv /\ PoolFits /\ [Next]_vars => PoolFits'
<1>. SUFFICES ASSUME IInv, PoolFits, [Next]_vars PROVE PoolFits'
  OBVIOUS
<1>. TypeOK /\ ThreadKept /\ StageInv
  BY DEF IInv
<1>1. CASE pool' \subseteq pool
  BY <1>1, FS_Subset, FS_CardinalityType DEF PoolFits
<1>2. CASE \E r \in Request : TakeThread(r)
  <2>1. PICK r \in Request : pool' = pool \cup {r} /\ Cardinality(pool) < PoolSize
    BY <1>2 DEF TakeThread
  <2>2. /\ IsFiniteSet(pool')
        /\ Cardinality(pool') \in {Cardinality(pool), Cardinality(pool) + 1}
    BY <2>1, FS_AddElement DEF PoolFits
  <2>. QED  BY <2>1, <2>2, FS_CardinalityType DEF PoolFits
<1>3. ASSUME NEW r \in Request, Arrive(r) \/ Step(r), ~TakeThread(r) PROVE pool' \subseteq pool
  <2>1. CASE Coming(r)
    BY <2>1, ComingFacts DEF Leave
  <2>2. CASE Arrive(r) \/ TurnDone(r) \/ CloseUpload(r) \/ Answer(r) \/ CheckOwner(r)
    BY <2>2 DEF Arrive, TurnDone, CloseUpload, Answer, CheckOwner, Leave
  <2>. QED
    BY <1>3, <2>1, <2>2 DEF Step, Coming, AcquireSlot, SetOwner, Dispatch, WorkerReturns,
                            ClearOwner, ReleaseSlot, Return, Leave
<1>4. CASE Outside \/ UNCHANGED vars
  BY <1>1, <1>4, OutsideFacts DEF vars
<1>. QED  BY <1>1, <1>2, <1>3, <1>4 DEF Next, Idle, Outside

(* A blocker waits for fewer.                                              *)
LEMMA BlockerNearer ==
  ASSUME IInv, UInv, NEW i \in Request, NEW j \in Request, Blocks(i, j)
  PROVE  Depth(i) < Depth(j) /\ pc[i] # "done"
<1>. USE DEF RunStages, LaneStages, NeedsPool, NeedsLoop, Depth
<1>1. CASE NeedsPool(j) /\ i \in pool
  BY <1>1, PoolTurns DEF UInv, PoolUsed
<1>2. CASE NeedsLoop(j) /\ loop = i
  BY <1>2, PoolTurns, ThreadAssumption DEF UInv, LoopUsed
<1>3. CASE pc[j] = "wait" /\ InLane(i)
  BY <1>3, PoolTurns DEF InLane
<1>4. CASE pc[j] = "ask" /\ EditInFlight(i)
  BY <1>4, PoolTurns DEF EditInFlight
<1>. QED  BY <1>1, <1>2, <1>3, <1>4 DEF Blocks

(* A request that cannot go on waits for somebody.                         *)
LEMMA BlockerExists ==
  ASSUME IInv, UInv, PoolFits, NEW j \in Request, pc[j] \notin {"idle", "done"}, ~CanGo(j)
  PROVE  \E i \in Request : Blocks(i, j)
<1>. TypeOK
  BY DEF IInv
<1>1. CASE NeedsPool(j)
  <2>1. ~(Cardinality(pool) < PoolSize)
    BY <1>1 DEF CanGo
  <2>2. pool # {}
    BY <2>1, FS_EmptySet, PoolAssumption
  <2>. QED  BY <1>1, <2>1, <2>2, FS_CardinalityType, PoolAssumption DEF Blocks, TypeOK, PoolFits
<1>2. CASE NeedsLoop(j)
  BY <1>2 DEF CanGo, Blocks, TypeOK
<1>3. CASE pc[j] = "wait"
  BY <1>3 DEF CanGo, Blocks, UInv, SlotUsed
<1>4. CASE pc[j] = "ask"
  BY <1>4 DEF CanGo, Blocks
<1>. QED
  BY <1>1, <1>2, <1>3, <1>4, PoolTurns DEF CanGo, NeedsPool, NeedsLoop, TypeOK, Stages

(* Loop, pool, lane and the worker's health are never waited for in a      *)
(* circle.                                                                 *)
THEOREM NoCircle == Spec => []NobodyStuck
<1>1. Init => UInv /\ PoolFits
  BY FS_EmptySet, PoolAssumption DEF Init, UInv, LoopUsed, PoolUsed, SlotUsed, PoolFits
<1>2. IInv /\ UInv /\ PoolFits => NobodyStuck
  BY BlockerNearer, BlockerExists DEF NobodyStuck
<1>. QED  BY Invariant, <1>1, NextUsed, NextFits, <1>2, PTL DEF Spec

-----------------------------------------------------------------------------
(* Where a request for generation can be while no model is available.      *)
Undispatched ==
  \A r \in Request :
    NeedsGeneration(r) => pc[r] \in {"idle", "queue", "gate", "ask", "reply", "done"}

(* While the generation worker's models are not available, no request for  *)
(* them reaches the lane.                                                  *)
THEOREM Unready == Spec => UnreadyNeverDispatched
<1>1. Init => Undispatched
  BY DEF Init, Undispatched
<1>2. IInv /\ Undispatched /\ ~genReady /\ [Next]_vars => Undispatched'
  <2>. SUFFICES ASSUME IInv, Undispatched, ~genReady, [Next]_vars PROVE Undispatched'
    OBVIOUS
  <2>. TypeOK
    BY DEF IInv
  <2>. USE DEF Undispatched, NeedsGeneration
  <2>1. ASSUME NEW r \in Request, Arrive(r) \/ Step(r) PROVE Undispatched'
    <3>1. \A s \in Request \ {r} : pc'[s] = pc[s]
      BY <2>1, StepFrame DEF Arrive, Leave, Goto, TypeOK, IInv
    <3>2. ASSUME NeedsGeneration(r)
          PROVE  pc'[r] \in {"idle", "queue", "gate", "ask", "reply", "done"}
      <4>. AsksHealth(r) /\ Route[r] # "health" /\ Route[r] # "unload"
        BY <3>2 DEF AsksHealth
      <4>1. CASE Arrive(r)
        BY <4>1 DEF Arrive, Leave, Goto, TypeOK
      <4>2. CASE Turning(r)
        BY <3>2, <4>2, TurningFacts DEF Goto, TypeOK
      <4>3. CASE Begin(r) \/ BeginPooled(r)
        BY <4>3 DEF Begin, BeginPooled, Leave, Goto, TypeOK
      <4>4. CASE HealthAnswers(r) \/ HealthFails(r)
        BY <4>4 DEF HealthAnswers, HealthFails, Gate, Leave, Goto, TypeOK
      <4>. QED
        BY <2>1, <3>2, <4>1, <4>2, <4>3, <4>4
          DEF Step, Turning, Resume, CheckOwner, AcquireSlot, SetOwner, Dispatch,
              WorkerReturns, ClearOwner, ReleaseSlot, Return
    <3>. QED  BY <3>1, <3>2
  <2>2. CASE Outside \/ UNCHANGED vars
    BY <2>2, OutsideFacts DEF vars
  <2>. QED  BY <2>1, <2>2 DEF Next, Idle, Outside
<1>3. Undispatched => \A r \in Request : NeedsGeneration(r) => ~InLane(r)
  BY DEF Undispatched, InLane, LaneStages
<1>. QED  BY Invariant, <1>1, <1>2, <1>3, PTL DEF Spec, UnreadyNeverDispatched
=============================================================================
