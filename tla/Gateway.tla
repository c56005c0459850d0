------------------------------ MODULE Gateway ------------------------------
(***************************************************************************)
(* The gateway process: the HTTP routes of app.py, the execution lane of   *)
(* coordinator.py and the classification of a worker's answer by           *)
(* workers.py.                                                             *)
(*                                                                         *)
(* Two kinds of thread run requests.  An "async def" route runs on the one *)
(* event-loop thread and keeps it from one await to the next, so it keeps  *)
(* it through the whole of coordinator.run, which blocks.  A "def" route   *)
(* runs in a thread of the bounded pool.  The loop accepts connections and *)
(* sends responses, so while it is blocked nothing arrives and nothing is  *)
(* answered.                                                               *)
(*                                                                         *)
(* A route waits for the loop, for a thread of the pool, for the lane, and *)
(* for another process: the generation, edit and health routes ask the     *)
(* workers for their health, and the generation worker answers only while  *)
(* its own event loop does not run an edit.                                *)
(***************************************************************************)
EXTENDS Integers, FiniteSets

CONSTANTS
  Request,    \* the requests clients send
  Route,      \* the route each of them asks for
  PoolSize,   \* threads in the pool that runs "def" routes
  MaxFlips,   \* bound: changes of the generation worker's readiness
  EventLoop,  \* the identity of the event-loop thread
  Nobody      \* no thread, no request

AsyncRoutes == {"upscale", "background", "edit"}
PoolRoutes  == {"generation", "unload", "health"}

ASSUME RouteAssumption == Route \in [Request -> AsyncRoutes \cup PoolRoutes]
ASSUME PoolAssumption == PoolSize \in Nat \ {0} /\ MaxFlips \in Nat
ASSUME ThreadAssumption ==
  /\ EventLoop \notin Request
  /\ Nobody \notin Request \cup {EventLoop}

VARIABLES
  pc,        \* where each request is
  loop,      \* the request whose route occupies the event loop, or Nobody
  pool,      \* the requests that hold a thread of the pool
  slot,      \* coordinator._slot: the thread that holds the lock, or Nobody
  active,    \* coordinator._active
  owner,     \* coordinator._owner
  genReady,  \* what the generation worker's /health says of its models
  editing,   \* edits the generation worker has on its event loop, or queued for it
  flips,     \* how often that has changed
  outcome,   \* how the worker call of a request ended
  ran,       \* whether a model ran for the request
  result     \* what the route returned or raised

vars == <<pc, loop, pool, slot, active, owner, genReady, editing, flips, outcome,
          ran, result>>
laneVars == <<slot, active, owner>>
workVars == <<outcome, ran, result>>
genVars == <<genReady, editing, flips>>

Async(r) == Route[r] \in AsyncRoutes
NeedsGeneration(r) == Route[r] \in {"generation", "edit"}
AsksHealth(r) == Route[r] \in {"generation", "edit", "health"}

\* threading.get_ident() of the thread that runs the route of r.
Thread(r) == IF Async(r) THEN EventLoop ELSE r

(* Inside coordinator.run: from the lock's acquisition to its release. *)
LaneStages  == {"own", "send", "call", "clear", "release"}
OwnedStages == {"send", "call", "clear"}
(* The stages in which a route occupies the thread it runs on. *)
RunStages == {"ask", "check", "wait"} \cup LaneStages \cup {"return"}

(* Work that a thread of the pool does: a "def" route, and the two calls   *)
(* on an upload that the parser has spilled to disk, its read and its      *)
(* close.  Each is first queued and leads to a stage of its own.           *)
PoolTurn == [queue |-> "gate", spool |-> "reading", unspool |-> "closing"]

Stages == {"idle", "queue", "gate", "spool", "reading", "back", "unspool", "closing",
           "resume", "reply", "done"} \cup RunStages

InLane(r) == pc[r] \in LaneStages

(* How an HTTP call to a worker can end.  "oversize" is a body longer than *)
(* the client's max_output_bytes, "long_png" one that only the route finds *)
(* too long, "lost" a read timeout or a connection that broke after it was *)
(* made, "http_error" any error status but 503.                            *)
ImageOutcomes  == {"png", "bad_png", "long_png", "oversize", "connect", "http_503",
                   "http_error", "lost"}
UnloadOutcomes == {"unloaded", "kept"}
Outcomes       == ImageOutcomes \cup UnloadOutcomes

(* The client has no limit of its own for generation, and for the others   *)
(* the one of the upscale and background routes.                           *)
OutcomesOf(r) ==
  IF Route[r] = "unload" THEN UnloadOutcomes
  ELSE {o \in ImageOutcomes : /\ o = "oversize" => Route[r] # "generation"
                              /\ o = "long_png" => NeedsGeneration(r)}

Results == {"ok", "partial", "unavailable", "busy", "unknown", "invalid_output",
            "too_large", "rejected", "crashed"}

(* The HTTP status of a result: the exception handlers, and 500 for an     *)
(* exception that has none; "rejected" stands for 400, 413 and 422 alike.  *)
StatusOf(x) ==
  CASE x = "ok" -> 200
    [] x \in {"partial", "unavailable", "busy"} -> 503
    [] x \in {"unknown", "invalid_output"} -> 502
    [] x = "too_large" -> 413
    [] x = "rejected" -> 400
    [] x = "crashed" -> 500

\* Mutant: a lost answer is taken for a worker that did not run.
ClassifyLostAsUnavailable(route, o) ==
  CASE o \in {"png", "unloaded"} -> "ok"
    [] o = "bad_png" -> "invalid_output"
    [] o = "long_png" -> "too_large"
    [] o = "kept" -> "partial"
    [] o \in {"connect", "http_503", "lost"} -> "unavailable"
    [] o \in {"oversize", "http_error"} -> "unknown"

(* What the client raises or returns for an outcome.  image_edit, upscale  *)
(* and background share _post; generation has a classification of its own, *)
(* in which only a failed connection is "unavailable".                     *)
Classify(route, o) ==
  CASE o \in {"png", "unloaded"} -> "ok"
    [] o = "bad_png" -> "invalid_output"
    [] o = "long_png" -> "too_large"
    [] o = "kept" -> "partial"
    [] o = "connect" -> "unavailable"
    [] o = "http_503" -> IF route = "generation" THEN "unknown" ELSE "unavailable"
    [] o \in {"oversize", "http_error", "lost"} -> "unknown"

-----------------------------------------------------------------------------
Init ==
  /\ pc = [r \in Request |-> "idle"]
  /\ loop = Nobody
  /\ pool = {}
  /\ slot = Nobody /\ active = 0 /\ owner = Nobody
  /\ genReady \in BOOLEAN /\ editing = {} /\ flips = 0
  /\ outcome = [r \in Request |-> "none"]
  /\ ran = [r \in Request |-> FALSE]
  /\ result = [r \in Request |-> "none"]

Goto(r, stage) == pc' = [pc EXCEPT ![r] = stage]

\* The route of r ends with x; its thread is free again.
Leave(r, x) ==
  /\ Goto(r, "reply")
  /\ result' = [result EXCEPT ![r] = x]
  /\ loop' = IF loop = r THEN Nobody ELSE loop
  /\ pool' = pool \ {r}

(* The generation worker's models become available, or cease to be.        *)
GenerationFlips ==
  /\ flips < MaxFlips
  /\ genReady' = ~genReady
  /\ flips' = flips + 1
  /\ UNCHANGED <<pc, loop, pool, editing, laneVars, workVars>>

(* The generation worker's edit handler, an async route that calls its     *)
(* model without an await, has the worker's event loop, or is queued for   *)
(* it behind one that has.                                                 *)
EditBegins(r) ==
  /\ Route[r] = "edit" /\ pc[r] = "call" /\ r \notin editing
  /\ editing' = editing \cup {r}
  /\ UNCHANGED <<pc, loop, pool, genReady, flips, laneVars, workVars>>

(* The worker is done with an edit on which the gateway had given up.      *)
EditEndsLate(r) ==
  /\ r \in editing /\ pc[r] # "call"
  /\ editing' = editing \ {r}
  /\ UNCHANGED <<pc, loop, pool, genReady, flips, laneVars, workVars>>

(* The loop accepts a request.  RequestBodyLimitMiddleware refuses one     *)
(* that is, or turns out to be, too long; a "def" route goes to the pool.  *)
Arrive(r) ==
  /\ pc[r] = "idle" /\ loop = Nobody
  /\ \/ Leave(r, "rejected")
     \/ /\ Goto(r, IF Async(r) THEN "gate" ELSE "queue")
        /\ UNCHANGED <<loop, pool, result>>
  /\ UNCHANGED <<laneVars, outcome, ran, genVars>>

(* A thread of the pool takes the work queued for it.                      *)
TakeThread(r) ==
  /\ pc[r] \in DOMAIN PoolTurn
  /\ Cardinality(pool) < PoolSize
  /\ pool' = pool \cup {r}
  /\ Goto(r, PoolTurn[pc[r]])
  /\ UNCHANGED <<loop, laneVars, workVars, genVars>>

(* The upload is validated; admit_upscale_processing raises a ValueError   *)
(* that no handler catches.  A valid one goes on to coordinator.run, and   *)
(* the loop with it.                                                       *)
Validate(r) ==
  \/ Leave(r, "rejected")
  \/ Route[r] = "upscale" /\ Leave(r, "crashed")
  \/ Goto(r, "check") /\ loop' = r /\ UNCHANGED <<pool, result>>

(* _read_upload of a file in memory awaits nothing; one that the parser    *)
(* has spilled to disk is read by the pool, and the loop is free so long.  *)
ReadUpload(r) ==
  \/ Validate(r)
  \/ Goto(r, "spool") /\ loop' = Nobody /\ UNCHANGED <<pool, result>>

(* An async route begins: its parameters are checked, then the edit route  *)
(* asks the workers for their health, and keeps the loop while it waits.   *)
Begin(r) ==
  /\ Async(r) /\ pc[r] = "gate" /\ loop = Nobody
  /\ \/ Leave(r, "rejected")
     \/ AsksHealth(r) /\ Goto(r, "ask") /\ loop' = r /\ UNCHANGED <<pool, result>>
     \/ ~AsksHealth(r) /\ ReadUpload(r)
  /\ UNCHANGED <<laneVars, outcome, ran, genVars>>

(* A "def" route up to its first wait: generation and health ask the       *)
(* workers for their health, unload goes to coordinator.run.               *)
BeginPooled(r) ==
  /\ ~Async(r) /\ pc[r] = "gate"
  /\ \/ Route[r] = "generation" /\ Leave(r, "rejected")
     \/ /\ Goto(r, IF AsksHealth(r) THEN "ask" ELSE "check")
        /\ UNCHANGED <<loop, pool, result>>
  /\ UNCHANGED <<laneVars, outcome, ran, genVars>>

(* What a route does with the health of the workers: generation and edit   *)
(* refuse a model that is not ready (model_matrix[model]["ready"]), the    *)
(* health route reports whatever it got.                                   *)
Gate(r, ready) ==
  \/ Route[r] = "health" /\ Leave(r, "ok")
  \/ NeedsGeneration(r) /\ ~ready /\ Leave(r, "unavailable")
  \/ Route[r] = "generation" /\ ready /\ Goto(r, "check") /\ UNCHANGED <<loop, pool, result>>
  \/ Route[r] = "edit" /\ ready /\ ReadUpload(r)

(* workers.health() returns.  It asks the generation worker last, which    *)
(* answers from its event loop.                                            *)
HealthAnswers(r) ==
  /\ pc[r] = "ask" /\ editing = {}
  /\ Gate(r, genReady)
  /\ UNCHANGED <<laneVars, outcome, ran, genVars>>

(* The call breaks, its timeout expires, or the worker answers with an     *)
(* error: such a worker counts as not ready.                               *)
HealthFails(r) ==
  /\ pc[r] = "ask"
  /\ Gate(r, FALSE)
  /\ UNCHANGED <<laneVars, outcome, ran, genVars>>

\* Mutant: the thread that has read the upload is kept for the close.
TurnDoneKeepsThread(r) ==
  /\ pc[r] \in {"reading", "closing"}
  /\ pool' = IF pc[r] = "reading" THEN pool ELSE pool \ {r}
  /\ Goto(r, IF pc[r] = "reading" THEN "back" ELSE "resume")
  /\ UNCHANGED <<loop, laneVars, workVars, genVars>>

(* file.read or file.close is done, and the thread is free again; the      *)
(* route waits for the loop.                                               *)
TurnDone(r) ==
  /\ pc[r] \in {"reading", "closing"}
  /\ pool' = pool \ {r}
  /\ Goto(r, IF pc[r] = "reading" THEN "back" ELSE "resume")
  /\ UNCHANGED <<loop, laneVars, workVars, genVars>>

(* The finally of _read_upload, whether or not the file is too long: the   *)
(* route submits file.close to the pool and gives up the loop once more.   *)
CloseUpload(r) ==
  /\ pc[r] = "back" /\ loop = Nobody
  /\ Goto(r, "unspool")
  /\ UNCHANGED <<loop, pool, laneVars, workVars, genVars>>

\* Mutant: the route runs coordinator.run without keeping the loop.
ResumeOffLoop(r) ==
  /\ pc[r] = "resume" /\ loop = Nobody
  /\ Goto(r, "check")
  /\ UNCHANGED <<loop, pool, result, laneVars, outcome, ran, genVars>>

(* The route continues on the loop with the bytes read.                    *)
Resume(r) ==
  /\ pc[r] = "resume" /\ loop = Nobody
  /\ Validate(r)
  /\ UNCHANGED <<laneVars, outcome, ran, genVars>>

-----------------------------------------------------------------------------
(* coordinator.run.                                                        *)

(* with self._guard: if self._owner == owner: raise CoordinatorBusy.       *)
CheckOwner(r) ==
  /\ pc[r] = "check"
  /\ IF owner = Thread(r)
       THEN Leave(r, "busy")
       ELSE Goto(r, "wait") /\ UNCHANGED <<loop, pool, result>>
  /\ UNCHANGED <<laneVars, outcome, ran, genVars>>

\* Mutant: acquire() does not wait.
AcquireSlotAtOnce(r) ==
  /\ pc[r] = "wait"
  /\ slot' = Thread(r)
  /\ Goto(r, "own")
  /\ UNCHANGED <<loop, pool, active, owner, workVars, genVars>>

(* self._slot.acquire() blocks; the lock is not fair.                      *)
AcquireSlot(r) ==
  /\ pc[r] = "wait" /\ slot = Nobody
  /\ slot' = Thread(r)
  /\ Goto(r, "own")
  /\ UNCHANGED <<loop, pool, active, owner, workVars, genVars>>

SetOwner(r) ==
  /\ pc[r] = "own"
  /\ active' = 1 /\ owner' = Thread(r)
  /\ Goto(r, "send")
  /\ UNCHANGED <<loop, pool, slot, workVars, genVars>>

(* operation(): the one internal HTTP request leaves for the worker.       *)
Dispatch(r) ==
  /\ pc[r] = "send"
  /\ Goto(r, "call")
  /\ UNCHANGED <<loop, pool, laneVars, workVars, genVars>>

(* The call ends.  A worker that never accepted the connection, or that    *)
(* answers 503, has not run a model (Residency tells when workers answer   *)
(* 503); one that sent an image has; of any other the gateway cannot know. *)
(* An edit is answered by its handler, which then leaves the worker's      *)
(* loop; one whose call is lost stays there.                               *)
WorkerReturns(r) ==
  /\ pc[r] = "call"
  /\ \E o \in OutcomesOf(r) :
       /\ outcome' = [outcome EXCEPT ![r] = o]
       /\ Route[r] = "edit" /\ o # "lost" => (o = "connect" <=> r \notin editing)
       /\ editing' = IF o = "lost" THEN editing ELSE editing \ {r}
       /\ \E b \in CASE o \in {"connect", "http_503", "unloaded", "kept"} -> {FALSE}
                     [] o \in {"png", "bad_png", "long_png", "oversize"} -> {TRUE}
                     [] OTHER -> BOOLEAN :
            ran' = [ran EXCEPT ![r] = b]
  /\ Goto(r, "clear")
  /\ UNCHANGED <<loop, pool, laneVars, result, genReady, flips>>

\* Mutant: _owner is not reset.
ClearOwnerActiveOnly(r) ==
  /\ pc[r] = "clear"
  /\ active' = 0
  /\ Goto(r, "release")
  /\ UNCHANGED <<loop, pool, slot, owner, workVars, genVars>>

(* finally: self._active = 0; self._owner = None.                          *)
ClearOwner(r) ==
  /\ pc[r] = "clear"
  /\ active' = 0 /\ owner' = Nobody
  /\ Goto(r, "release")
  /\ UNCHANGED <<loop, pool, slot, workVars, genVars>>

\* Mutant: the lock is not released.
ReleaseSlotNever(r) ==
  /\ pc[r] = "release"
  /\ Goto(r, "return")
  /\ UNCHANGED <<loop, pool, slot, active, owner, workVars, genVars>>

ReleaseSlot(r) ==
  /\ pc[r] = "release"
  /\ slot' = Nobody
  /\ Goto(r, "return")
  /\ UNCHANGED <<loop, pool, active, owner, workVars, genVars>>

\* Mutant: the client library's exception is passed on as it is.
ReturnUnclassified(r) ==
  /\ pc[r] = "return"
  /\ Leave(r, outcome[r])
  /\ UNCHANGED <<laneVars, outcome, ran, genVars>>

\* Mutant: a call that could not connect is made again.
ReturnOrReplay(r) ==
  /\ pc[r] = "return"
  /\ IF outcome[r] = "connect"
       THEN Goto(r, "check") /\ UNCHANGED <<loop, pool, result>>
       ELSE Leave(r, Classify(Route[r], outcome[r]))
  /\ UNCHANGED <<laneVars, outcome, ran, genVars>>

(* Outside the lane: the exception propagates, or the image is validated.  *)
Return(r) ==
  /\ pc[r] = "return"
  /\ Leave(r, Classify(Route[r], outcome[r]))
  /\ UNCHANGED <<laneVars, outcome, ran, genVars>>

(* The loop sends the response.                                            *)
Answer(r) ==
  /\ pc[r] = "reply" /\ loop = Nobody
  /\ Goto(r, "done")
  /\ UNCHANGED <<loop, pool, laneVars, workVars, genVars>>

Step(r) ==
  \/ TakeThread(r) \/ Begin(r) \/ BeginPooled(r) \/ HealthAnswers(r) \/ HealthFails(r)
  \/ TurnDone(r) \/ CloseUpload(r) \/ Resume(r)
  \/ CheckOwner(r) \/ AcquireSlot(r) \/ SetOwner(r) \/ Dispatch(r)
  \/ WorkerReturns(r) \/ ClearOwner(r) \/ ReleaseSlot(r) \/ Return(r) \/ Answer(r)

(* Every request has been answered.                                        *)
Idle == (\A r \in Request : pc[r] = "done") /\ UNCHANGED vars

Worker(r) == EditBegins(r) \/ EditEndsLate(r)

Next ==
  \/ GenerationFlips \/ Idle
  \/ \E r \in Request : Arrive(r) \/ Step(r) \/ Worker(r)

(* Threads are scheduled, and a worker call and a health call end, at the  *)
(* latest by the client's timeout.  Nothing obliges a client to send a     *)
(* request, nor the worker to begin an edit or to finish a lost one.       *)
Fairness == \A r \in Request : WF_vars(Step(r))

Spec == Init /\ [][Next]_vars /\ Fairness

-----------------------------------------------------------------------------
(* Every variable keeps its type (the whole state of coordinator.py and of *)
(* the routes of app.py).                                                  *)
TypeOK ==
  /\ pc \in [Request -> Stages]
  /\ loop \in Request \cup {Nobody}
  /\ pool \subseteq Request
  /\ slot \in Request \cup {EventLoop, Nobody}
  /\ active \in {0, 1}
  /\ owner \in Request \cup {EventLoop, Nobody}
  /\ genReady \in BOOLEAN /\ flips \in 0 .. MaxFlips
  /\ editing \subseteq Request
  /\ outcome \in [Request -> Outcomes \cup {"none"}]
  /\ ran \in [Request -> BOOLEAN]
  /\ result \in [Request -> Results \cup {"none"}]

(* At most one request is inside coordinator.run's locked part, hence at   *)
(* most one worker call is in flight, although two async routes share one  *)
(* thread identity and coordinator.py tells owners apart by it.            *)
OneInLane == \A r, s \in Request : InLane(r) /\ InLane(s) => r = s

(* Whoever is in the lane holds the lock under its own thread identity and *)
(* already has the thread it needs to leave: the loop for an async route,  *)
(* a pool thread for the others.  So the lane's owner never waits for a    *)
(* request that waits for the lane.                                        *)
LaneOwnerRuns ==
  \A r \in Request :
    InLane(r) => slot = Thread(r) /\ IF Async(r) THEN loop = r ELSE r \in pool

(* GET /health is honest about the lane: active is 1 exactly while some    *)
(* request owns it, and _owner then names that request's thread.           *)
StatusHonest ==
  /\ active = 1 <=> \E r \in Request : pc[r] \in OwnedStages
  /\ \A r \in Request : pc[r] \in OwnedStages => owner = Thread(r)
  /\ owner # Nobody => active = 1

(* CoordinatorBusy is unreachable through the routes: a thread never comes *)
(* to coordinator.run while it already owns the lane, so image_capacity_   *)
(* busy is never sent.  README.md:7 says otherwise (RefusedWhenBusy).      *)
NeverBusy ==
  /\ \A r \in Request : pc[r] = "check" => owner # Thread(r)
  /\ \A r \in Request : result[r] # "busy"

(* A 503 is safe to retry: no model ran for the request.                   *)
RetrySafe ==
  \A r \in Request :
    result[r] # "none" /\ StatusOf(result[r]) = 503 => ~ran[r]

(* While the generation worker never reports its models, no generation or  *)
(* edit request gets as far as the lane.                                   *)
UnreadyNeverDispatched ==
  [](~genReady) =>
    [](\A r \in Request : NeedsGeneration(r) => ~InLane(r))

(* Every request that arrives is answered, whatever else waits for the     *)
(* lane, the loop, the pool or the health of a worker that runs an edit:   *)
(* each arrives once, so it is enough that time and again none is waiting. *)
EveryRequestAnswered ==
  []<>(\A r \in Request : pc[r] \in {"idle", "done"})

NeedsPool(r) == pc[r] \in DOMAIN PoolTurn
NeedsLoop(r) == pc[r] \in {"back", "resume", "reply"} \/ (Async(r) /\ pc[r] = "gate")

(* The worker call of an edit in flight that has the worker's event loop.  *)
EditInFlight(r) == r \in editing /\ pc[r] = "call"

(* Request i has what the next step of request j waits for.                *)
Blocks(i, j) ==
  \/ NeedsPool(j) /\ Cardinality(pool) >= PoolSize /\ i \in pool
  \/ NeedsLoop(j) /\ loop = i
  \/ pc[j] = "wait" /\ InLane(i)
  \/ pc[j] = "ask" /\ EditInFlight(i)

(* The next step of request j waits for no other request: only, in a       *)
(* worker call and in a health call behind a lost edit, for the worker,    *)
(* and no longer than the client's timeout.                                *)
CanGo(j) ==
  \/ NeedsPool(j) /\ Cardinality(pool) < PoolSize
  \/ NeedsLoop(j) /\ loop = Nobody
  \/ pc[j] = "wait" /\ slot = Nobody
  \/ pc[j] = "ask" /\ \A i \in Request : ~EditInFlight(i)
  \/ pc[j] \in {"reading", "closing"} \/ (~Async(j) /\ pc[j] = "gate")
  \/ pc[j] \in RunStages \ {"ask", "wait"}

(* How many others a request may have to wait for, one behind the other.   *)
Depth(j) ==
  IF NeedsPool(j) \/ NeedsLoop(j) THEN 2 ELSE IF pc[j] \in {"ask", "wait"} THEN 1 ELSE 0

(* Loop, pool, lane and the generation worker's health are never waited    *)
(* for in a circle, although a route blocks the loop, or holds a pool      *)
(* thread, while it waits for the lane or for the worker, and although the *)
(* worker does not answer while an edit holds the lane: a request that     *)
(* cannot go on waits for one that waits for fewer, and none of the four   *)
(* is kept by a request that has been answered.                            *)
NobodyStuck ==
  \A j \in Request :
    /\ pc[j] \in {"idle", "done"} \/ CanGo(j) \/ \E i \in Request : Blocks(i, j)
    /\ \A i \in Request : Blocks(i, j) => Depth(i) < Depth(j) /\ pc[i] # "done"

(* The coordinator implements the abstract lane.                           *)
LaneHolder ==
  IF \E r \in Request : InLane(r) THEN CHOOSE r \in Request : InLane(r) ELSE Nobody

LaneServed == {r \in Request : outcome[r] # "none" /\ ~InLane(r)}

L == INSTANCE Lane WITH Job <- Request, holder <- LaneHolder, served <- LaneServed

(* Mutual exclusion, one turn per request and the return of the lane, as   *)
(* the abstract specification states them.                                 *)
ImplementsLane == L!Spec

-----------------------------------------------------------------------------
(* What the documentation says, and the code does otherwise.               *)

(* README.md:7, "admits at most one execution across all capabilities and  *)
(* returns 503 with Retry-After: 1 when busy": a request that comes to     *)
(* coordinator.run while the lane is owned is refused.                     *)
RefusedWhenBusy ==
  [][\A r \in Request :
       pc[r] = "check" /\ pc'[r] # "check" /\ slot # Nobody
         => result'[r] = "busy"]_vars

(* README.md:9, "A worker unavailable before inference returns retryable   *)
(* 503": when a worker answers 503 or cannot be connected to, so does the  *)
(* gateway.                                                                *)
UnavailableIsRetryable ==
  \A r \in Request :
    outcome[r] \in {"connect", "http_503"} /\ result[r] # "none"
      => StatusOf(result[r]) = 503

(* README.md:11, "A selected unavailable generation/edit model is rejected *)
(* before its internal worker dispatch": a request is only dispatched to a *)
(* generation worker whose models are available.                           *)
UnavailableNeverDispatched ==
  [][\A r \in Request :
       pc[r] = "send" /\ pc'[r] = "call" /\ NeedsGeneration(r) => genReady]_vars
=============================================================================
