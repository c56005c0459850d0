# A TLA+ verification of image-api

image-api is a GPU image service. A **gateway** process (`src/src/image_api`) takes HTTP
requests, lets at most one of them use the GPU at a time, and sends it to one of three
**worker** processes (`src/src/image_api_workers`): upscale, background removal, and
generation, which again runs its models in a **child** process. Its difficulty is not in
the images but in what happens around them: routes that share one event-loop thread,
a lane that blocks, caches of large models in three processes that may not be full at
the same time, unload calls that time out and run all the same, children that die, and
a gateway that restarts and forgets.

Everything here is translated from the source. `PROJECT.json` maps each definition to its
lines, lists the runs, the mutants that show each property can fail, the hazards, the
theorems and the findings.

## 1. Inventory

| Component | State | Operations | Interacts through | Model |
|---|---|---|---|---|
| Coordinator, `coordinator.py` | `_slot`, `_active`, `_owner` | `run`, `status` | called by every GPU route, on the route's thread | `Gateway`, `Lane` |
| Routes, `app.py` | threads, uploads in flight | upload routes, generation, unload, health, exception handlers | event loop, thread pool, coordinator, client | `Gateway`, `Admission`, `Transfer` (partly) |
| Request body limit, `app.py` | bytes received | count and refuse | wraps `receive`/`send` | `Transfer`; one refusal in `Gateway` |
| HTTP worker client, `workers.py` | the answer's spool | `_post`, `generation`, `unload_all`, `health` | HTTP to the workers, with timeouts | `Gateway`, `Residency`, `Transfer`, `WeightReadiness` |
| Peer eviction, `workers.py` | none | `PeerEvictor.__call__` | HTTP from worker to worker | `Residency` |
| Upscale worker, `upscale.py` | `_model_lock`, `lru_cache`, `_loaded_model_name`, tile size | upscale, unload, health | evicts peers, is evicted | `UpscaleWorker` |
| Background worker, `background.py` | `_model_lock`, `_active_model`, two library caches, `_sam2_adapter` | remove_background, unload, health | the same | `BackgroundWorker` |
| Generation worker, `generation_worker.py` | its event loop | generate, edit, unload, health | the same; calls `GenerationModels` | `Residency`, `Admission`, `WeightReadiness` |
| Generation child, `generation_models.py` | `_lock`, `_child`, `_channel`, `loaded_model`; the child's pipelines | `__call__`, `unload`, `child_alive` | pipe, signals | `GenerationModels`, `ModelSlot` |
| FLUX.2 dev adapter, `flux2_dev.py` | `_lock`, what is in GPU memory within a request | `__call__`, `_encode`, `_generate`, `unload` | runs in the child | `Flux2Dev` |
| Image checks, `images.py` | `_image_decode_lock`, Pillow's global pixel limit | `validate_image`, `validate_png_output` | loop and pool threads | `ImageDecode` |
| Other adapters (LongCat, FLUX.2 Klein, Ideogram) | pipelines | check, load and run | libraries, the mounts | `Admission` (partly) |
| Generation options, `generation_options.py` | none | resolve and parse two options | called in gateway, worker and child | `GenerationOptions`, `Admission` |
| Settings and weight readiness, `config.py` | the mounts' files | check a mount, admit a size | called in gateway, worker and child | `WeightReadiness`, `Transfer` (partly) |
| Bounded upload, `uploads.py` | a spool | `read_bounded_upload` | called in two workers | `Transfer` |
| Fakes, scripts, Compose | see section 7 | | | not modelled |

What is hard in them, and what makes each correct:

* **Coordinator and routes.** Owners are told apart by thread identity, but all `async`
  routes run on one thread; they hold the event loop while they block in the lane or, the
  edit route, in the call for a worker's health; pooled routes hold one of a bounded number
  of threads while they wait for either. The worker does not answer while an edit runs.
  Correct: one worker call in flight, an honest status, a 503 that is safe to retry, and
  everybody answered.
* **Workers and evictions.** No worker knows of the lane. A worker evicts its peers one
  after the other, any of which may refuse, be slow (the unload runs later), or die; the
  generation worker skips this on the word of a variable it reads without the lock; the
  edit handler blocks its event loop. Correct: at most one worker holds a model, an
  unload answered 200 left nothing, jobs end, workers do not wait for each other in a
  circle.
* **One worker's memory.** Caches, published names and active flags change in different
  steps with failures between them. Correct: what health says is true, the model that
  runs is the one asked for, an unload empties everything.
* **Generation child.** Starts that fail, children that die between two requests or refuse
  to die, an unload inside an exception handler. Correct: one child, one model per child,
  GPU memory that changes hands only through empty.
* **FLUX.2 dev.** Two models that do not fit together, exceptions whose tracebacks keep
  tensors alive. Correct: never both, nothing left after a call.
* **Image checks.** A process-wide limit that is lifted for a while. Correct: uploads never
  see it lifted; it always comes back.
* **Admission.** Gateway, generation worker, adapter and loader each check a request with
  code of their own and read an omitted option each in another transport; two of them
  look at the same files at different times. Correct: what the first admits the others
  accept, what runs is what was asked for, and a model answers only for its own mount.
* **Transfer.** A request's bytes are counted five times by five loops against limits
  from two configurations. Correct: nothing is cut off in silence, no count passes its
  limit, whoever refuses blames the right side, and every file is closed on every path.

## 2. How the modules fit together

```
   GenerationOptions , WeightReadiness
     | values, mounts and answers
     v
   Admission                Transfer       (one request: what is admitted; its bytes)
     : "rejected", "unready"   : refusals, lengths
     v                         v
   Lane  <==implements==  Gateway          (threads, loop, pool, coordinator, statuses)
     ^                        .
     |                        . worker outcomes
     implements               v
     +-----------------  Residency         (lane, three workers, evictions, deaths, restarts)
                              : a worker's memory
                              v
                         WorkerMemory      (lock, something or nothing, a name)
       implements ^           ^           ^ implements
       UpscaleWorker   BackgroundWorker   GenerationModels ==implements==> ModelSlot
          \__________  |                    . inside the child
                     WorkerCalls ______ Flux2Dev

   WorkerProcesses (the four modules over WorkerCalls, and ImageDecode of the gateway,
                    side by side)
```

Six of the arrows are checked refinements. `Gateway` and `Residency` each implement `Lane`, so
the lane that the jobs of `Residency` use is the one that the threads of `Gateway` provide.
`UpscaleWorker`, `BackgroundWorker` and `GenerationModels` each implement `WorkerMemory`, the
account of a worker that `Residency` is built on: the transitions of `lock`, `resident`
and `loaded` there are those of `WorkerMemory` (section 3). `GenerationModels` implements
`ModelSlot`. All six are proved, except the fairness that `Lane` states.
`Admission` extends `GenerationOptions`, which extends `WeightReadiness`.
`WorkerProcesses` puts what works under a lock of its own side by side: it extends
`GenerationModels` and instances `BackgroundWorker`, `UpscaleWorker`, `Flux2Dev` (which runs in
the generation child) and `ImageDecode`. `WorkerCaches_proofs` shows that each steps there as
it does alone. The dotted arrows are correspondences by construction: `Gateway` takes each
refusal of `Admission` and `Transfer` as one nondeterministic result.

## 3. Modules and code

**Lane** states what the gateway promises of its execution lane: one holder, at most one
turn per job, and a holder that gives the lane back.

**Gateway** has one `pc` per request and one action per stretch of code between two points
at which something else can happen. `loop` is the request that keeps the event loop: an
async route keeps it from `coordinator.run` to its end because the call blocks, and the edit
route keeps it while it asks for the workers' health. `pool` is the set of requests that
hold a pool thread: a `def` route, or one of the two turns that an upload spilled to disk
needs, its read and its close (`PoolTurn`, `TakeThread`, `TurnDone`; between the two and after
them the route must get the loop again, `CloseUpload`, `Resume`). `Begin` and `BeginPooled` go to
the health call, stage `ask`, and `HealthAnswers` and `HealthFails` end it: the generation worker
answers from its event loop, so not while `editing`, the edits that have reached it, is not
empty, and a call that is not answered ends by the client's timeout. An edit on which the
gateway has given up stays in `editing` until the worker is done (`EditEndsLate`). `Gate` is what
the route does with the answer. `slot`, `active` and `owner` are the coordinator's
fields, set and reset in the code's order (`CheckOwner`, `AcquireSlot`, `SetOwner`,
`Dispatch`, `WorkerReturns`, `ClearOwner`, `ReleaseSlot`). `Classify` is what the client
library makes of a worker's outcome, `StatusOf` the exception handlers; `ran` is a history
variable that tells whether a model ran for the request. `genReady` is the one bit that
the readiness matrix gives to generation and edit. The worker is here only the set of
ways in which a call can end.

**Residency** has one job per gateway call. `phase` follows it through its worker,
`tried` and `pending` are the evictor's progress and the unload calls that have arrived
at a peer, which outlive a timeout. `lock`, `resident` and `loaded` are the workers'
model locks, whether they hold a model, and `GenerationModels.loaded_model`, which a dead
child does not change. `HoldsLoop` is the edit handler that blocks its worker. Deaths of
processes, the client's timeout and a gateway restart are actions with bounds.

**WorkerMemory** is what `Residency` assumes of one worker, as a specification of its own. A
call takes the lock once and leaves it once; only a call that holds it makes something
resident (`Load`), and in a worker that names its model (`Skips`) only after another one is
gone (`Replace`); an image leaves the name of its model (`Finish`), an unload is answered when
nothing is resident and nothing named (`Unloaded`), and a failure may leave something, or may
have dropped it (`Fail`, `Drop`). In `Residency` `TakeLock` is its `TakeLock`; `Load` is `Replace`
followed by `Load`, or neither when the named model is asked for again; `Finish` and `Fail` are
theirs; `Unload` is a call that takes the lock, drops and leaves, and `EvictionFails` one that
leaves by `Fail` or is not answered in time. What `Residency` does in one step inside the
lock is thus several of `WorkerMemory`; nobody else sees the steps between, because the
lock is held.

**GenerationModels** has one `pc` per call of `__call__` or `unload`, both under the
reentrant lock, and one `state` per process. `_child` is assigned before `start()`, as in
the code; `unload` is four actions (`CloseChannel`, `Join`, `Terminate`, and the
assignments `Cleared`), because the child and its death interleave with them; `why` is who
called it. `child_alive` reads `_child` twice without the lock; it is modelled as one read,
and when an unload comes between the two, `/health` answers 500, which in `Gateway` is
`HealthFails`. **ModelSlot** is the worker's promise about GPU memory.

**UpscaleWorker** separates the cache's answer, the building of a backend and its insertion
(`LoadCached`, `LoadMissing`, `Build`, `Insert`), because `lru_cache` drops the old entry
at the insertion. **BackgroundWorker** separates the steps of a release and of a request,
each of which may fail; the caches belong to a library and are modelled by what the code
asks of them. `clean` is a history variable.

**WorkerCalls** declares the calls that the modules of a process's memory share, and
**MattingCalls** and **GenerationCalls** add the constants of the background worker and of the
generation child. **UpscaleWorker**,
**BackgroundWorker**, **GenerationModels** and **Flux2Dev** each give a call a `pc`; a call that is
an unload does not reach `Flux2Dev`, since nothing calls that adapter's `unload()`.

**Flux2Dev** models what keeps a part in memory: the locals of a stage (`frame`), the
embeddings (`kept`), the frames of a traceback (`trace`), and what nothing refers to and
nobody has collected yet (`garbage`). An exception may keep any of them.

**ImageChecks** is the list of pictures to check. **ImageDecode** has the lock, the library's limit
and what each lifting of it saved. An
upload makes both passes under one lock, an output takes the lock for each.

**WeightReadiness** goes from the files of a mount to the gate. A `Mount` keeps of each kind
of required file the worst one, because the checks are conjunctions over the files; every
value of a field is a case that one of the checks tells apart (`oversized` is
`_read_bounded`, `outside` an index whose shard leaves the directory, `extra` a weight file
that FLUX.2 dev's manifest does not name). `WorkerHealth` is the worker's answer,
`GetHealth` what the client lets through of an answer of any shape, `GenerationStatus` the
matrix of the gateway. **GenerationOptions** is the file of that name: a value is a pair of
its type and its number, so a JSON `1`, `true`, `"1"` and `null` stay apart.

**Admission** follows one request: `Validate`, `ReadHealth`, `Gate` and `Send` in the gateway,
`WorkerReads` in the worker's route, `AdapterReads`, `Load` and `Run` in the child. `Load` asks for
the mount and for CUDA unless a pipeline is held, and may fail on what passes, because the
readiness check does not open the weights of any model but FLUX.2 dev (`unloadable`); `Run` may
fail to expand a plain prompt (`unexpandable`) or in the pipeline itself (`failed`), which in
Ideogram's case judges the caption. `sent` is the
request as it travels, re-encoded by `Query`, `Message` and `Read`; `ran` is what the
pipeline is called with. `Restage` is an operator who installs or removes a model at any
moment. The lane between `Send` and `WorkerReads` is left to `Gateway`.

**Transfer** follows the bytes of one request. `consumed`, `data`, `got`, `total` and `returned`
are the lengths of the body at the middleware, the file in the route and in the worker, and
the answer in the spool and in the route; `open` is the set of files that somebody must
close. A piece of a body or an answer has any length that is left of it, so every way a
stream may straddle a limit occurs. The gateway's and the workers' limits are separate
constants, related only by `AgreementAssumption`.

An `MC` module per component gives the constants of its instances. `*_proofs` modules hold
the theorems. Definitions marked *Mutant* are not part of the model: each is a plausible
bug in a definition below it, and PROJECT.json names the property that notices it.

## 4. Runs

| Run | Distinct states | Question |
|---|---|---|
| `GatewayMixed` | 492,998 | Who owns the lane, honest status, safe 503, and the refinement of `Lane`: an edit, an upscale and a generation request, one pool thread, one change of readiness |
| `GatewayProbe` | 418,880 | Does nobody wait in a circle for loop, pool, lane and the generation worker, and is everybody answered? Edit, background, unload and a health probe with one pool thread |
| `Residency` | 269,642 | A background, a generation and an edit job, the unload route, one death: single residency, sound skip, safe 503, and a 200 of the unload route means that nothing is resident |
| `ResidencyHang` | 78,301 | Jobs end and the lane returns by timers alone, if inference may hang |
| `ResidencyRecovery` | 189,389 | A gateway that gives up once and restarts once: no circle of evictions, workers drain without any timer if inference ends, and the jobs use the lane as `Lane` allows |
| `WorkerProcesses` | 46,993 | Upscale: health, tile size, the right model. Background: one model while nothing failed. FLUX.2 dev: stages apart, nothing survives. Generation child: one child, honest health, the image of the right model, refinement of `ModelSlot`, calls that end. All three workers implement `WorkerMemory`. Image checks of the gateway: the right limit at every decode, huge uploads refused |
| `Admission` | 139,610 | Do five layers of checks agree on every request that differs from a valid one in up to two fields, and is what runs what was asked for? Does a model answer only for its own mount, for every defect of one? |
| `Transfer` | 18,898 | Bodies, files, pictures and answers on both sides of each limit, in all pieces: nothing cut, no counter beyond its limit, the right side blamed, no file left open |

`GatewayRefusal`, `ResidencyRestart`, `BackgroundOverlap` and `AdmissionKlein` are runs that must
find a violation (section 8). Some definitions are in no listed run because a stronger one is, or because
they are proved: the `TypeOK` of most modules, `OneInLane` (proved, and a part of
`ImplementsLane`), `NeverBusy` (proved), `OneModelPerChild` (proved, and a part of `ImplementsSlot`),
`LimitInForce` (proved, and what `RightLimit` needs), `UnloadedMeansNoChild` (proved, and a
part of `GenerationMemory`), `ActiveIsCached`, `OneRunPerWorker`, `AnswerToCome` and
`UnreadyNeverDispatched` (proved). The `EveryCallEnds` and `EveryCheckEnds` of the modules that
`WorkerProcesses` instances need the `Fairness` of those modules, which its specification
leaves out.

**Bounds, and why they are enough.** The interactions are between pairs: two routes on one
thread, an owner and a waiter, an old job and a new one, a call and the next one that
finds what it left. So three or four requests or calls, with at least two of the same kind
and two of different kinds, show every pair and a third that meets the result. `PoolSize`
is 1, the hardest case: one waiting route exhausts the pool. `MaxFlips`, `MaxDeaths`,
`MaxKills`, `MaxGiveUps`, `MaxRestarts` and `MaxChanges` count events from outside; one of
each (two timeouts in `ResidencyHang`, one per job that can time out) already falls at every
point of every behaviour. `MaxProcess` is four: no run of four calls can create more.

The parts of `WorkerProcesses` share nothing, so `OneSpec` of `MCWorkerProcesses` explores
them one at a time (`OneIsCalled`): an interleaving of two would show each of them the same
states again. Two outputs in the pool, one of them beyond the
library's limit, and uploads and an output on the loop, are every pair of image checks.

The checks of `Admission` are conjunctions of conditions on at most two fields, so requests
that differ from a valid one in two fields reach every pair that could disagree. Numbers
are those at each boundary, one beyond, and one between. `BoundedInit` and `Surroundings`
vary either the request or its surroundings (every single defect of a mount, two pairs of
defects that matter together, answers that differ from a true one in one thing), not both:
no check reads a request and a file together except by the name of the model, and each
model's valid request meets each defect. `MaxSeed` is 9 instead of 2^32 - 1.

`Transfer` has limits of 3 to 7 bytes and requests and answers of up to two bytes beyond,
chunks of 2, and pictures of up to 5 by 5 against limits that are each reached before
another in some picture. `MaxOutput` bounds the longest answer. `OutputCeiling` is smaller
than `MaxEncodedOutput`, as in the code. The proofs cover all other values.

No deadlock check is turned off: each module has an `Idle` or `Done` step that is enabled
only when all the work is done, so TLC would report a system that is stuck before.

**Symmetry** is not used, because requests have different routes and most runs check
liveness.

## 5. Fairness

* A thread that can go on does so (weak fairness on the steps of a request, a job or a
  call): the operating system schedules threads. A lock is only *weakly* fair, since
  `threading.Lock` promises no order; every run has finitely many requests, so no waiter
  can be overtaken for ever. That an endless stream of requests could starve one is
  outside the runs and is listed as a hazard without a property.
* No client is obliged to send a request: `Arrive` has no fairness. A job of `Residency`
  is one that is already in the coordinator, so `Submit` has.
* A worker call and a health call end in `Gateway` because the client has a timeout. The
  generation worker itself is under no obligation there: `EditBegins` and `EditEndsLate` have no
  fairness, so an edit may hold its loop for ever and the health call then ends by
  `HealthFails`. A thread of the pool takes what is queued for it. In `Residency` the two
  reasons are separated: `Spec` assumes that an inference ends and needs no timer,
  `TimerSpec` lets inference hang and has only the timers (`_post`'s timeout and the
  evictor's 30 seconds). A job sent by `unload_all` is never given up by a timer in the
  model and does not need to be: its calls are answered, or broken by the peer's timer.
* `WorkerProcesses` has the fairness of `GenerationModels` for its one liveness property:
  threads are scheduled and an inference ends.
* `Admission` and `Transfer` state safety only and need no fairness.
* Nothing obliges a process to die, to be restarted or to change its readiness.

## 6. What is proved

TLAPS checks these for every value of the constants, from the named assumptions of the
modules (types of the constants, and that the null values are different from the others).

**`Gateway_proofs`**, for any requests, routes and pool size: type correctness,
`OneInLane`, `LaneOwnerRuns`, `StatusHonest`, `NeverBusy`, `RetrySafe`, and that every step
is a step of `Lane` or a stutter. `OneInLane` alone is not inductive: two async routes have
the same thread identity, so the lock does not tell them apart. What does is `ThreadKept`,
an async route in `coordinator.run` *is* the one that keeps the loop and a pooled one holds
a thread of its own, with `SlotKept`, whoever is in the lane holds the lock under its
thread's identity. Two requests in the lane then have the same thread, hence are the same
request. `RetrySafe` needs the history, `HistoryInv`: a model ran only if the outcome is
one that `Classify` maps to another status than 503.

`NoCircle` proves `NobodyStuck`, the safe half of `EveryRequestAnswered`: a request that cannot
go on is blocked by another, and who blocks it has a smaller `Depth`, so no chain of waiting
is longer than two and each ends at a request that can go on. Who needs the pool or the
loop waits for one that waits, with that thread in hand, for the lane or for the worker's
health (`Depth` 1); and both of these wait for the owner of the lane, which waits only for its
own worker call: an edit that keeps the worker from answering *is* in the lane and already
has the loop. It needs the converse of
`ThreadKept` (`UInv`): loop, pool and lock are kept *only* by requests in a stage that uses them,
and a pool that is full is finite and not empty (`PoolFits`). What is left to TLC is
fairness alone. `Unready` proves `UnreadyNeverDispatched`.

**`Residency_proofs`**, for any jobs, routes, models and bounds, in two layers. `WInv` holds
whatever the gateway does, restarts and calls given up included: what a job's history says
of its answer (`HistoryInv`), a model lock that is held by the one job that uses the model
(`LockKept`), and a job that waits for a peer whose unload call is still pending
(`AskedKept`). From it follow `RetrySafe`, `OneRunPerWorker`, `NobodyStuck` and the safety part of
`ImplementsLane` (`LaneRefinement`). For `NobodyStuck` each job has a `Depth`: a job that waits for
the lane may wait for one at a worker, one that has to evict waits for one that holds a
model lock or the edit handler's loop, and a generation job, which is the only one to
block a loop, waits only for workers whose calls never wait for a loop while they hold
their lock. So forgotten jobs and new ones that evict one another never form a circle.

`IInv` adds what needs a gateway that has not restarted nor given a call up: `SingleResident`,
`SkipIsSound`, `OneRun` and `UnloadedMeansEmpty` are proved as long as it has not (`Undisturbed`;
run `ResidencyRestart` shows the behaviour afterwards). It says that only the lane's owner
is busy at a worker (`LaneKept`) and that a peer it has evicted stays empty while it goes on
to the next one (`EvictedStayGone`): nobody else loads, and an unload call that is still
pending from a timeout can only empty. `SkipIsSound` is part of the induction: the skip of the
evictions is justified by what the *previous* generation job established.

**`GenerationModels_proofs`**, for any calls, models, processes and deaths: `OneChild`,
`OneModelPerChild`, `HealthHonest`, `UnloadedMeansNoChild`, `ImageOfTarget`, and the whole of
`ImplementsSlot`. `OneChild` is not inductive alone: that no second process is alive follows
from `_child` naming the one that is, at every stage of an unload, including those an
exception handler runs (`Children`). `Served` says what a call knows of the child it
reaches: it serves the call's model already or is new. `Expected` ties an answer in the pipe
to the call that waits for it, without which the image of one request could be another's.
`MInv` adds what `WorkerMemory` can see, for `MemoryAccount`: a result only at the end
(`Pending`), a name that is none or that of the model in use (`Named`), and a child that works
only for the call that waits for it (`Awaited`). `AnswerComes` proves `AnswerToCome`: a call in
`recv()`, which has no timeout, always has an answer in the pipe or one to come, or a dead
child.

**`WorkerCaches_proofs`**, for any calls: for the background worker `ActiveIsCached` and
`CleanSingle`, for the upscale worker `HealthOwnsUp`, `TileRestored` and `RunsTarget`, and that
both implement `WorkerMemory` (`BackgroundContract`, `UpscaleContract`;
`GenerationModels_proofs` has the third). `Released` follows a release that has met no error step by step; `Tidy` is what a history without failures adds; `UNamed` and
`UTiled` tie a backend out of the cache and a changed tile size to the one call that is
inside. `Apart` shows that `WorkerProcesses` takes the steps of its parts.

**`Flux2Dev_proofs`**, for any calls: `StagesApart` and `NothingSurvives`, and for the processes
together `ProcessesSafe` and `MemoryKept`. `AtStage` says what can be in memory at each stage, an
exception under way included; `LockInv` ties the stages to the lock.

**`ImageDecode_proofs`**, for any checks on any threads: `LimitInForce`, `RightLimit` and
`HugeRefused`. `LimitTold` tells the limit from where the lock's holder is; `Saved` says
that what was saved is always the original.

**`Admission_proofs`**, for any requests, mounts and answers: `AdmittedIsAccepted`,
`RunsAsAsked` and `OthersDoNotMatter`. The lemmas show that an option
survives its transports (`ResolveSteps` of what `Query`, `Read` and the pipe make of it is
what the gateway resolved), and `Travels` carries the admissibility of the request to the
adapter. `OthersDoNotMatter` rests on the answer that the gate saw being that of the
unchanged mounts.

**`Transfer_proofs`**, for all limits within the named assumptions and any requests:
`EntireFile`, `WorkerAgrees`, `AnswerEntire`, `BuffersBounded`, `ProcessingNotBlamed` and
`NothingLeftOpen`. `Read` says which counters are settled at each stage, `Checked` what the
gateway has checked when the worker checks it again. `AgreementAssumption` is needed for
`WorkerAgrees` only: it is the deployment's default, and no code enforces it.

**Only model-checked.** The liveness properties `EveryRequestAnswered`, `EveryJobAnswered`,
`WorkersDrain` and `EveryCallEnds`, and the fairness part of the two `ImplementsLane`: liveness
under fairness and ENABLED are out of the prover's reach. `NobodyStuck` (of `Gateway` and of
`Residency`) and `AnswerToCome` are what they rest on that can be stated of single states.
That a gateway which has restarted becomes single-resident again is not stated. No module
declares a RECURSIVE operator and no proof needs induction over data.

## 7. What is not modelled, and why

* *Parameters of upscale and background removal* (scale, tile, blur, thresholds): a
  nondeterministic refusal at the point where the code makes it. Route and worker declare
  the same ranges, and nothing else depends on them.
* *The content of files.* A mount keeps of each kind of required file the worst one; which of
  the 21 JSON files of LongCat it is makes no difference to a conjunction. The pinned
  digests are one case, `pinned`.
* *Defaults and names of the environment* (`Settings.from_env`): constants of the models.
  What follows from the deployment's values is in section 8.
* *LongCat, FLUX.2 Klein, Ideogram*: what they refuse, need and run with is in `Admission`;
  inside, they call libraries, and their memory ends with the child, which is
  modelled.
* *What a worker's health says* is read in one step, though its fields are not read under one
  lock; *when* it answers is modelled, because the gateway asks before every generation and
  edit (`app.py:472`, `app.py:520`). That Compose may find a worker unhealthy meanwhile has no
  effect after start-up.
* *Refusals of the upscale and background handlers before they evict* are dropped in `Residency`:
  such a job does nothing to any worker.
* *The form parser's own use of the pool* while it writes an upload to disk comes before the
  route and is external. A pool thread counts as free when its work is done; the library
  returns it when the loop resumes.
* *Pixel and mask arithmetic, fakes, scripts and the Compose file*: no state that the
  services share. The restarts that Compose makes possible are actions of `Residency`.
* *The status file of Ideogram's adapter*, which no deployment configures.
* `/v1/models` is a constant. *Wording, logging and the sanitizing of messages* are left out.

## 8. Findings

The code disagrees with its own documents in nine places that the models reach. Four
are runs of the project; the others have a configuration of their name that shows them
(`tlc -config GatewayUnavailable.cfg MCGateway`, and so on), and a formula in the module that
states what the document says.

| Configuration | Source | The code | The text |
|---|---|---|---|
| `ResidencyRestart` (run) | `upscale.py:181` | after a gateway restart two workers hold models | README.md:23, globally single-resident |
| `BackgroundOverlap` (run) | `background.py:377` | a failed call's model is not recorded and not released | README.md:23, unloads before replacement loading |
| `GatewayRefusal` (run) | `coordinator.py:29` | a request waits for the lane; `NeverBusy` says that the refusal is unreachable | README.md:7, a busy lane answers `503` |
| `AdmissionKlein` (run) | `generation_models.py:311` | an edit of FLUX.2 Klein's is run without a number of steps, and `test_longcat_unloading.py:95` wants it so | README.md:67, Klein uses its 4-step path |
| `GatewayUnavailable` | `workers.py:261` | a generation worker's 503 becomes 502 | README.md:9, unavailable before inference is `503` |
| `GatewayStaleReady` | `app.py:472` | readiness is read before the lane, used after it | README.md:11, an unavailable model is rejected before dispatch |
| `ResidencyRetry` | `background.py:492` | a failed eviction becomes 502 | README.md:9, as above |
| `GenerationUnstarted` | `generation_models.py:446` | a child whose `start()` failed makes every later call fail | `generation_models.py:487`, the one reason is a child that did not terminate |
| `UpscaleOverlap` | `upscale.py:130` | the old backend is dropped after the new one is built | README.md:23, unloads before replacement loading |

Smaller observations, of which the models take notice and no document speaks, or which
are about the deployment:

* `admit_upscale_processing` raises a `ValueError` that no handler knows, so a picture too
  large for the upscaler is answered 500 (`app.py:398`, `crashed` in `Transfer`).
* A generated or edited picture beyond 100 MB is answered 413 as if the client's upload
  were too large (`app.py:549`); `ProcessingNotBlamed` shows that the processing routes
  do not do this.
* `RequestBodyTooLarge` passes through the framework's form parser, which may answer 400
  instead of 413 (`unparsed` in `Transfer`).
* Compose gives `IMAGE_API_PROCESSING_MAX_UPLOAD_BYTES` to the gateway alone (`compose.yml:19`)
  and the workers keep 280 MB. Raised above that, uploads are admitted, take the lane
  and end in a 502: `AgreementAssumption` is what keeps `WorkerAgrees` true. The workers also
  read `IMAGE_API_PROCESSING_MAX_INPUT_*`, which the gateway's `from_env` does not.
* Compose gives neither process a magic-prompt backend. Given to the gateway alone, plain
  Ideogram prompts are admitted and fail after the model has been loaded (`ideogram.py:194`,
  `unexpandable` in `Admission`).
* Truncated or malformed weights of LongCat, Klein or Ideogram pass the readiness check, which
  reads their indexes and configuration but does not open the weights; the model is reported ready, and a request for it takes
  the lane, evicts the peers and ends in a 502 (`generation_models.py:141`, `unloadable` in
  `Admission`). So does a caption that Ideogram's pipeline finds fault with (`ideogram.py:236`,
  `failed`).
* A generation or health request that is in the pool when an edit begins waits for the generation
  worker's health as long as the edit runs; when the gateway has given an edit up and the
  worker still runs it, each further one waits for the client's timeout, the edit route on
  the event loop (`app.py:472`, `app.py:520`, `EditEndsLate` and `HealthFails` in `Gateway`).
* Klein's negative prompt is accepted and dropped (`Parameters` in `Admission`).
* SAM 2 guidance with the BRIA model is refused only after the matting has run
  (`background.py`, `Post` and `Guide`).

## 9. Plan

Done, in this order: the lane and the gateway, since everything rests on it; residency, which
composes the lane with the workers; the generation child; the two other workers; the
shared decode limit; the FLUX.2 dev adapter; admission with the options and the readiness
behind it; the transfer of bytes; and a proof module for each.

Then, on the models as they are: `Residency` with restarts and calls given up, and the circle
of evictions; `WorkerMemory` and the three workers that implement it; the circle of loop,
pool and lane in `Gateway`; the answer that `recv()` waits for.

What could follow:

1. `Residency` composed of three instances of `WorkerMemory` step by step, with `Residency`'s larger
   steps shown to be sequences of theirs; today the correspondence is that of section 3.
2. `Admission` and `Gateway` composed, with the readiness of each model in the place of
   `genReady`.
3. What a restarted gateway re-establishes: after the forgotten jobs have drained, one job of
   each kind leaves a single resident model.
4. Ownership of the pipelines inside the child, whose adapters are caches of their own.
