----------------------------- MODULE Residency -----------------------------
(***************************************************************************)
(* The gateway's lane and the three GPU workers: who may hold a model in   *)
(* GPU memory, and when.  The lane is the abstract one that Gateway        *)
(* implements.  A worker keeps no lane of its own: before it uses the GPU  *)
(* it asks its two peers, one after the other, to unload (PeerEvictor),    *)
(* and only then takes its model lock.  The generation worker skips the    *)
(* peers when the model it is asked for is already loaded.                 *)
(*                                                                         *)
(* What a worker does with its own models is the subject of UpscaleWorker, *)
(* BackgroundWorker and GenerationModels; here it holds something in GPU   *)
(* memory or nothing.                                                      *)
(***************************************************************************)
EXTENDS Integers

CONSTANTS
  Job,          \* the calls the gateway makes, each for one request
  Route,        \* the route of each
  Model,        \* the models of the generation worker
  Wanted,       \* the generation model each job asks for
  None,         \* no job, no model, no answer
  MaxDeaths,    \* bound: deaths of the generation child or of a worker
  MaxGiveUps,   \* bound: calls the gateway's client gives up
  MaxRestarts   \* bound: restarts of the gateway

ImageRoutes == {"upscale", "background", "generation", "edit"}
Worker == {"upscale", "background", "generation"}

ASSUME RouteAssumption == Route \in [Job -> ImageRoutes \cup {"unload"}]
ASSUME ModelAssumption == Wanted \in [Job -> Model] /\ None \notin Job \cup Model
ASSUME BoundAssumption == {MaxDeaths, MaxGiveUps, MaxRestarts} \subseteq Nat

VARIABLES
  lane,      \* the job that owns the gateway's lane, or None
  phase,     \* how far each job has come at its worker
  tried,     \* the workers a job has asked to unload
  pending,   \* unload calls that have arrived at a worker: <<asker, worker>>
  lock,      \* the job that holds a worker's model lock, or None
  resident,  \* whether a worker holds a model in GPU memory
  loaded,    \* GenerationModels.loaded_model
  ran,       \* whether a job has begun to use a model
  response,  \* the worker's response to a job
  answer,    \* the status the gateway gave the client
  deaths, giveUps, restarts

vars == <<lane, phase, tried, pending, lock, resident, loaded, ran, response,
          answer, deaths, giveUps, restarts>>
workerVars == <<lock, resident, loaded>>
counters == <<deaths, giveUps, restarts>>

Phases == {"new", "sent", "evict", "asked", "lock", "locked", "run", "replied", "over"}
(* The phases in which a thread of the worker serves the job. *)
AtWorker == {"sent", "evict", "asked", "lock", "locked", "run"}

Generates(j) == Route[j] \in {"generation", "edit"}
Unloads(j) == Route[j] = "unload"
WorkerOf(j) == IF Generates(j) THEN "generation" ELSE Route[j]

(* The peer URLs each worker is built with, in their order; the unload     *)
(* route asks all three workers.                                           *)
Peers(j) ==
  CASE Unloads(j)            -> <<"upscale", "background", "generation">>
    [] Generates(j)          -> <<"upscale", "background">>
    [] Route[j] = "upscale"  -> <<"background", "generation">>
    [] OTHER                 -> <<"upscale", "generation">>

Asked(j) == {Peers(j)[i] : i \in DOMAIN Peers(j)}
IsNext(j, w) ==
  \E i \in DOMAIN Peers(j) :
    /\ Peers(j)[i] = w /\ w \notin tried[j]
    /\ \A k \in 1 .. (i - 1) : Peers(j)[k] \in tried[j]

Init ==
  /\ lane = None
  /\ phase = [j \in Job |-> "new"]
  /\ tried = [j \in Job |-> {}]
  /\ pending = {}
  /\ lock = [w \in Worker |-> None]
  /\ resident = [w \in Worker |-> FALSE]
  /\ loaded = None
  /\ ran = [j \in Job |-> FALSE]
  /\ response = [j \in Job |-> "none"]
  /\ answer = [j \in Job |-> 0]
  /\ deaths = 0 /\ giveUps = 0 /\ restarts = 0

Goto(j, p) == phase' = [phase EXCEPT ![j] = p]
Respond(j, x) == Goto(j, "replied") /\ response' = [response EXCEPT ![j] = x]

-----------------------------------------------------------------------------
(* The gateway.                                                            *)

\* Mutant: the lane is not waited for.
SubmitBeside(j) ==
  /\ phase[j] = "new"
  /\ lane' = j
  /\ Goto(j, "sent")
  /\ UNCHANGED <<tried, pending, workerVars, ran, response, answer, counters>>

(* coordinator.run has the slot and sends the job to its worker.           *)
Submit(j) ==
  /\ phase[j] = "new" /\ lane = None
  /\ lane' = j
  /\ Goto(j, "sent")
  /\ UNCHANGED <<tried, pending, workerVars, ran, response, answer, counters>>

\* Mutant: every failure is reported as retryable.
StatusForRetry(j, x) == IF x = "ok" THEN 200 ELSE 503

\* Mutant: a failure of the worker has no handler.
StatusForCrash(j, x) ==
  CASE x = "ok" -> 200 [] x = "failed" -> 500 [] OTHER -> 503

(* The client library's classification: 503 means "unavailable" except     *)
(* for generation, every other failure is "unknown".                       *)
StatusFor(j, x) ==
  CASE x = "ok" -> 200
    [] x = "unavailable" -> IF Route[j] = "generation" THEN 502 ELSE 503
    [] x = "kept" -> 503
    [] x = "failed" -> 502

(* The response arrives; a gateway that has given the job up ignores it.   *)
Receive(j) ==
  /\ phase[j] = "replied"
  /\ Goto(j, "over")
  /\ IF lane = j
       THEN lane' = None /\ answer' = [answer EXCEPT ![j] = StatusFor(j, response[j])]
       ELSE UNCHANGED <<lane, answer>>
  /\ UNCHANGED <<tried, pending, workerVars, ran, response, counters>>

\* Mutant: the timeout answers the client and keeps the lane.
GiveUpKeepsLane(j) ==
  /\ lane = j /\ ~Unloads(j) /\ phase[j] \in AtWorker /\ giveUps < MaxGiveUps
  /\ answer' = [answer EXCEPT ![j] = 502]
  /\ giveUps' = giveUps + 1
  /\ UNCHANGED <<lane, phase, tried, pending, workerVars, ran, response, deaths, restarts>>

(* The client library's timeout: the worker does not learn of it.          *)
GiveUp(j) ==
  /\ lane = j /\ ~Unloads(j) /\ phase[j] \in AtWorker /\ giveUps < MaxGiveUps
  /\ lane' = None
  /\ answer' = [answer EXCEPT ![j] = 502]
  /\ giveUps' = giveUps + 1
  /\ UNCHANGED <<phase, tried, pending, workerVars, ran, response, deaths, restarts>>

(* The gateway process restarts and forgets what was in flight.  The       *)
(* workers go on with it; only an unload_all ran in the gateway itself.    *)
RestartGateway ==
  /\ lane # None /\ restarts < MaxRestarts
  /\ lane' = None
  /\ phase' = IF Unloads(lane) THEN [phase EXCEPT ![lane] = "over"] ELSE phase
  /\ restarts' = restarts + 1
  /\ UNCHANGED <<tried, pending, workerVars, ran, response, answer, deaths, giveUps>>

-----------------------------------------------------------------------------
(* A worker's handler.                                                     *)

(* The edit handler of the generation worker runs on its event loop from   *)
(* start to end: meanwhile the worker accepts neither jobs nor unloads.    *)
HoldsLoop(j, w) ==
  w = "generation" /\ Route[j] = "edit" /\ phase[j] \in AtWorker \ {"sent"}

LoopFree(w) == \A j \in Job : ~HoldsLoop(j, w)

(* The generation worker validates the options and skips the eviction when *)
(* it has the model, reading loaded_model without its lock.                *)
Enter(j) ==
  /\ phase[j] = "sent" /\ LoopFree(WorkerOf(j))
  /\ \/ Generates(j) /\ Respond(j, "failed")
     \/ /\ Goto(j, IF Generates(j) /\ loaded = Wanted[j] THEN "lock" ELSE "evict")
        /\ UNCHANGED response
  /\ UNCHANGED <<lane, tried, pending, workerVars, ran, answer, counters>>

AskPeer(j) ==
  /\ phase[j] = "evict"
  /\ \E w \in Worker : IsNext(j, w) /\ pending' = pending \cup {<<j, w>>}
  /\ Goto(j, "asked")
  /\ UNCHANGED <<lane, tried, workerVars, ran, response, answer, counters>>

\* Mutant: a peer that keeps its model is passed over.
EvictionFailsUnnoticed(j, w) ==
  /\ tried' = [tried EXCEPT ![j] = @ \cup {w}]
  /\ Goto(j, "evict")
  /\ UNCHANGED response

(* What an eviction that failed does to the job: the upscale and the       *)
(* generation worker answer 503, the background worker's handler answers   *)
(* 500 whatever the exception; unload_all notes it and goes on.            *)
EvictionFails(j, w) ==
  /\ tried' = [tried EXCEPT ![j] = @ \cup {w}]
  /\ IF Unloads(j)
       THEN Goto(j, "evict") /\ response' = [response EXCEPT ![j] = "kept"]
       ELSE Respond(j, IF Route[j] = "background" THEN "failed" ELSE "unavailable")

EvictionSucceeds(j, w) ==
  /\ tried' = [tried EXCEPT ![j] = @ \cup {w}]
  /\ Goto(j, "evict")
  /\ UNCHANGED response

Waits(j, w) == phase[j] = "asked" /\ IsNext(j, w)

(* What a release that fails leaves in memory: the upscale worker has      *)
(* dropped its model by then, the generation child refuses to die or never *)
(* started, the background worker has two caches and may have dropped      *)
(* either.                                                                 *)
LeftBehind(w) ==
  CASE w = "upscale"    -> {FALSE}
    [] w = "background" -> {FALSE, resident[w]}
    [] w = "generation" -> {resident[w]}

\* Mutant: the child is stopped and loaded_model kept.
UnloadKeepsName(j, w) ==
  /\ <<j, w>> \in pending /\ lock[w] = None /\ LoopFree(w)
  /\ pending' = pending \ {<<j, w>>}
  /\ resident' = [resident EXCEPT ![w] = FALSE]
  /\ IF Waits(j, w) THEN EvictionSucceeds(j, w) ELSE UNCHANGED <<phase, tried, response>>
  /\ UNCHANGED <<lane, lock, loaded, ran, answer, counters>>

(* POST /internal/unload at w, under the model lock.  The asker may have   *)
(* stopped waiting.                                                        *)
Unload(j, w) ==
  /\ <<j, w>> \in pending /\ lock[w] = None /\ LoopFree(w)
  /\ pending' = pending \ {<<j, w>>}
  /\ \/ /\ resident' = [resident EXCEPT ![w] = FALSE]
        /\ loaded' = IF w = "generation" THEN None ELSE loaded
        /\ IF Waits(j, w) THEN EvictionSucceeds(j, w)
                          ELSE UNCHANGED <<phase, tried, response>>
     \/ /\ \E left \in LeftBehind(w) : resident' = [resident EXCEPT ![w] = left]
        /\ UNCHANGED loaded
        /\ IF Waits(j, w) THEN EvictionFails(j, w)
                          ELSE UNCHANGED <<phase, tried, response>>
  /\ UNCHANGED <<lane, lock, ran, answer, counters>>

(* PeerEvictor's 30 seconds are over; the unload stays pending.            *)
PeerTimeout(j, w) ==
  /\ Waits(j, w)
  /\ EvictionFails(j, w)
  /\ UNCHANGED <<lane, pending, workerVars, ran, answer, counters>>

\* Mutant: the results of the unload calls are not looked at.
EvictedAllOk(j) ==
  /\ phase[j] = "evict" /\ Asked(j) \subseteq tried[j]
  /\ IF Unloads(j) THEN Respond(j, "ok") ELSE Goto(j, "lock") /\ UNCHANGED response
  /\ UNCHANGED <<lane, tried, pending, workerVars, ran, answer, counters>>

(* Every peer has been asked.                                              *)
Evicted(j) ==
  /\ phase[j] = "evict" /\ Asked(j) \subseteq tried[j]
  /\ IF Unloads(j)
       THEN Respond(j, IF response[j] = "kept" THEN "kept" ELSE "ok")
       ELSE Goto(j, "lock") /\ UNCHANGED response
  /\ UNCHANGED <<lane, tried, pending, workerVars, ran, answer, counters>>

TakeLock(j) ==
  /\ phase[j] = "lock" /\ lock[WorkerOf(j)] = None
  /\ lock' = [lock EXCEPT ![WorkerOf(j)] = j]
  /\ Goto(j, "locked")
  /\ UNCHANGED <<lane, tried, pending, resident, loaded, ran, response, answer, counters>>

(* The model is loaded, unless it was, and begins to run.  A generation    *)
(* worker with another model, or an unnamed one, unloads it first.         *)
Load(j) ==
  /\ phase[j] = "locked"
  /\ resident' = [resident EXCEPT ![WorkerOf(j)] =
                    ~(Generates(j) /\ loaded = Wanted[j]) \/ @]
  /\ loaded' = IF Generates(j) /\ loaded # Wanted[j] THEN None ELSE loaded
  /\ ran' = [ran EXCEPT ![j] = TRUE]
  /\ Goto(j, "run")
  /\ UNCHANGED <<lane, tried, pending, lock, response, answer, counters>>

(* A run succeeds; one in the generation child only if the child lives.    *)
Finish(j) ==
  /\ phase[j] = "run" /\ resident[WorkerOf(j)]
  /\ lock' = [lock EXCEPT ![WorkerOf(j)] = None]
  /\ loaded' = IF Generates(j) THEN Wanted[j] ELSE loaded
  /\ Respond(j, "ok")
  /\ UNCHANGED <<lane, tried, pending, resident, ran, answer, counters>>

\* Mutant: a run that fails keeps the model lock.
FailKeepsLock(j) ==
  /\ phase[j] \in {"locked", "run"}
  /\ Respond(j, "failed")
  /\ UNCHANGED <<lane, tried, pending, workerVars, ran, answer, counters>>

(* A run fails, before or after the load.  The generation worker then      *)
(* unloads, which leaves no child or, if the child will not die, all as it *)
(* was; the others keep what they have cached.                             *)
Fail(j) ==
  /\ phase[j] \in {"locked", "run"}
  /\ lock' = [lock EXCEPT ![WorkerOf(j)] = None]
  /\ \/ UNCHANGED <<resident, loaded>>
     \/ /\ Generates(j)
        /\ resident' = [resident EXCEPT !["generation"] = FALSE]
        /\ loaded' = None
     \/ /\ ~Generates(j) /\ resident' = [resident EXCEPT ![WorkerOf(j)] = FALSE]
        /\ UNCHANGED loaded
  /\ Respond(j, "failed")
  /\ UNCHANGED <<lane, tried, pending, ran, answer, counters>>

-----------------------------------------------------------------------------
(* Failures of processes.                                                  *)

(* The generation child is killed; its parent does not notice.             *)
ChildDies ==
  /\ resident["generation"] /\ deaths < MaxDeaths
  /\ resident' = [resident EXCEPT !["generation"] = FALSE]
  /\ deaths' = deaths + 1
  /\ UNCHANGED <<lane, phase, tried, pending, lock, loaded, ran, response, answer, giveUps, restarts>>

(* A worker process dies and starts again: its jobs and the unload calls   *)
(* it was serving end with a broken connection.                            *)
WorkerDies(w) ==
  LET Mine(j) == ~Unloads(j) /\ WorkerOf(j) = w /\ phase[j] \in AtWorker
      Cut(j)  == Waits(j, w) /\ <<j, w>> \in pending
  IN /\ deaths < MaxDeaths
     /\ deaths' = deaths + 1
     /\ resident' = [resident EXCEPT ![w] = FALSE]
     /\ loaded' = IF w = "generation" THEN None ELSE loaded
     /\ lock' = [lock EXCEPT ![w] = None]
     /\ pending' = {p \in pending : p[2] # w}
     /\ phase' = [j \in Job |-> IF Mine(j) \/ (Cut(j) /\ ~Unloads(j)) THEN "replied"
                                ELSE IF Cut(j) THEN "evict" ELSE phase[j]]
     /\ response' = [j \in Job |-> IF Mine(j) THEN "failed"
                                   ELSE IF ~Cut(j) THEN response[j]
                                   ELSE IF Unloads(j) THEN "kept"
                                   ELSE IF Route[j] = "background" THEN "failed"
                                   ELSE "unavailable"]
     /\ tried' = [j \in Job |-> IF Cut(j) THEN tried[j] \cup {w} ELSE tried[j]]
     /\ UNCHANGED <<lane, ran, answer, giveUps, restarts>>

Step(j) ==
  \/ Enter(j) \/ AskPeer(j) \/ (\E w \in Worker : Unload(j, w)) \/ Evicted(j)
  \/ TakeLock(j) \/ Load(j) \/ Receive(j)

Ends(j) == Finish(j) \/ Fail(j)

Idle == (\A j \in Job : phase[j] = "over") /\ pending = {} /\ UNCHANGED vars

Next ==
  \/ \E j \in Job : \/ Submit(j) \/ Step(j) \/ Ends(j) \/ GiveUp(j)
                    \/ \E w \in Worker : PeerTimeout(j, w)
  \/ RestartGateway \/ ChildDies \/ (\E w \in Worker : WorkerDies(w)) \/ Idle

(* Threads are scheduled and calls arrive.                                 *)
Progress == \A j \in Job : WF_vars(Submit(j)) /\ WF_vars(Step(j))

(* Every inference ends.                                                   *)
Spec == Init /\ [][Next]_vars /\ Progress /\ \A j \in Job : WF_vars(Ends(j))

(* Inference may hang, but the timers fire.                                *)
TimerSpec ==
  /\ Init /\ [][Next]_vars /\ Progress
  /\ \A j \in Job : WF_vars(GiveUp(j)) /\ WF_vars(\E w \in Worker : PeerTimeout(j, w))

-----------------------------------------------------------------------------
(* Every variable keeps its type.                                          *)
TypeOK ==
  /\ lane \in Job \cup {None}
  /\ phase \in [Job -> Phases]
  /\ tried \in [Job -> SUBSET Worker]
  /\ pending \subseteq Job \X Worker
  /\ lock \in [Worker -> Job \cup {None}]
  /\ resident \in [Worker -> BOOLEAN]
  /\ loaded \in Model \cup {None}
  /\ ran \in [Job -> BOOLEAN]
  /\ response \in [Job -> {"none", "ok", "unavailable", "failed", "kept"}]
  /\ answer \in [Job -> {0, 200, 502, 503}]
  /\ deaths \in 0 .. MaxDeaths /\ giveUps \in 0 .. MaxGiveUps
  /\ restarts \in 0 .. MaxRestarts

(* README.md:23, "Heavy models are globally single-resident": at no time   *)
(* do two workers hold a model in GPU memory.                              *)
SingleResident ==
  \A v, w \in Worker : resident[v] /\ resident[w] => v = w

(* The generation worker may skip its evictions: whenever it names a model *)
(* as loaded, even one whose child has died, no peer holds one.            *)
SkipIsSound ==
  loaded # None => \A w \in Worker \ {"generation"} : ~resident[w]

(* At most one job uses the GPU, although no worker knows of the lane.     *)
OneRun ==
  \A i, j \in Job : phase[i] \in {"locked", "run"} /\ phase[j] \in {"locked", "run"} => i = j

(* Whatever the gateway has forgotten or given up, a worker's model lock   *)
(* still lets one job at a time use its model.                             *)
OneRunPerWorker ==
  \A i, j \in Job :
    /\ phase[i] \in {"locked", "run"} /\ phase[j] \in {"locked", "run"}
    /\ WorkerOf(i) = WorkerOf(j)
    => i = j

(* A client that is answered 503 may retry: no model ran for it.           *)
RetrySafe ==
  \A j \in Job : answer[j] = 503 => ~ran[j]

(* POST /v1/models/unload answers 200 only at a moment at which no worker  *)
(* holds a model.                                                          *)
UnloadedMeansEmpty ==
  [][\A j \in Job : Unloads(j) /\ answer'[j] = 200 /\ answer[j] = 0
       => \A w \in Worker : ~resident[w]]_vars

(* A job that was dispatched is answered, and the lane is free again.      *)
EveryJobAnswered ==
  \A j \in Job : <>(answer[j] # 0) /\ [](lane = j => <>(lane # j))

(* Workers that evict one another, because the gateway has forgotten the   *)
(* jobs of some, do not wait for one another for ever: every lock comes    *)
(* back and no worker serves a job or an unload call at the end.           *)
WorkersDrain ==
  <>[]/\ \A w \in Worker : lock[w] = None
       /\ \A j \in Job : phase[j] \notin AtWorker
       /\ pending = {}

-----------------------------------------------------------------------------
(* What keeps job j from going on is job i: it owns the lane, holds the    *)
(* model lock j or the unload call j waits for needs, or keeps the         *)
(* generation worker's event loop.                                         *)
Blocks(i, j) ==
  \/ phase[j] = "new" /\ lane = i
  \/ phase[j] = "sent" /\ HoldsLoop(i, WorkerOf(j))
  \/ \E w \in Worker : Waits(j, w) /\ (lock[w] = i \/ HoldsLoop(i, w))
  \/ phase[j] = "lock" /\ lock[WorkerOf(j)] = i

(* The next step of job j waits for nobody.                                *)
CanGo(j) ==
  \/ phase[j] = "new" /\ lane = None
  \/ phase[j] = "sent" /\ LoopFree(WorkerOf(j))
  \/ \E w \in Worker : Waits(j, w) /\ <<j, w>> \in pending /\ lock[w] = None /\ LoopFree(w)
  \/ phase[j] = "lock" /\ lock[WorkerOf(j)] = None
  \/ phase[j] \in {"evict", "locked", "run", "replied"}

(* How many others a job may have to wait for, one behind the other.       *)
Depth(j) ==
  CASE phase[j] = "over" -> 4
    [] phase[j] = "new" -> 3
    [] phase[j] = "sent" \/ (phase[j] \in {"evict", "asked"} /\ ~Generates(j)) -> 2
    [] phase[j] = "lock" \/ (phase[j] \in {"evict", "asked"} /\ Generates(j)) -> 1
    [] OTHER -> 0

(* Workers that evict one another never wait in a circle, nor for a job    *)
(* that is over, also when the gateway has forgotten some of their jobs:   *)
(* whoever cannot go on waits for a job that waits for fewer.              *)
NobodyStuck ==
  \A j \in Job :
    /\ phase[j] = "over" \/ CanGo(j) \/ \E i \in Job : Blocks(i, j)
    /\ \A i \in Job : Blocks(i, j) => Depth(i) < Depth(j)

(* The lane the jobs use is the abstract one that Gateway implements.      *)
L == INSTANCE Lane WITH Nobody <- None, holder <- lane,
       served <- {j \in Job : phase[j] # "new"} \ {lane}

(* One job at a time, each once, and the lane comes back, although the     *)
(* gateway may give a job up or forget it while its worker goes on.        *)
ImplementsLane == L!Spec

-----------------------------------------------------------------------------
(* README.md:9, "A worker unavailable before inference returns retryable   *)
(* 503": a job for which no model ran because a peer could not be evicted  *)
(* is answered 503.                                                        *)
EvictionFailureIsRetryable ==
  [][\A j \in Job : Route[j] # "unload" /\ phase[j] = "asked" /\ phase'[j] = "replied"
       => StatusFor(j, response'[j]) = 503]_vars
=============================================================================
