------------------------------ MODULE Admission ------------------------------
(***************************************************************************)
(* One generation or edit request on its way from the gateway's route to   *)
(* the pipeline that runs it.  Five places check it, each with code of its *)
(* own: the route (app.py), the readiness of its model, the worker's route *)
(* (generation_worker.py), the model's adapter, and the adapter's loader.  *)
(* Meanwhile an operator may restage a model's mount.  The lane, eviction  *)
(* and the failures of HTTP are in Gateway and Residency.                  *)
(***************************************************************************)
EXTENDS GenerationOptions

CONSTANTS
  Requests,    \* the requests clients send
  Staging,     \* the mounts an operator may stage
  Faulty,      \* answers to GET /health that are not the worker's own
  MaxSeed,     \* 2**32 - 1
  MaxChanges,  \* bound: how often a mount changes during the request
  Nothing      \* no answer, no message, no run

Flux == {Klein, Dev}
EditModels == {Longcat, Turbo, Klein, Dev}

Null == <<"null", 0>>      \* a JSON null
Blank == <<"blank", 0>>    \* an empty text
Other == <<"other", 0>>    \* a value of any other type, or other text
Literally(b) == <<"literal", IF b THEN 1 ELSE 0>>   \* the text "true" or "false"

(* What a client can send, "plain" being a text of 1 to 4000 characters    *)
(* and "large" an object of more than 64,000 bytes.  An option of the edit *)
(* form is a text, one of the generation body any JSON value.              *)
Options == ({"int", "digits"} \X Int) \cup ({"bool", "literal"} \X {0, 1})
             \cup {Absent, Null, Blank, Other}
Request ==
  [ route: {"generation"}, model: Models, steps: Options, tiling: Options,
    prompt: {"absent", "blank", "plain", "long"}, negative: {"absent"},
    caption: {"absent", "empty", "object", "large", "other"}, magic: BOOLEAN,
    preset: {"absent", "known", "other"}, width: Int, height: Int, seed: Int ]
  \cup
  [ route: {"edit"}, model: Models, steps: Options, tiling: Options,
    prompt: {"absent", "blank", "plain", "long"}, negative: {"absent", "plain", "long"},
    caption: {"absent"}, magic: {FALSE},
    preset: {"absent"}, width: {0}, height: {0}, seed: Int ]

ASSUME RequestAssumption == Requests \subseteq Request
ASSUME StagingAssumption == Staging \subseteq Mount /\ Faulty \subseteq Response
ASSUME ModelAssumption ==
  /\ Longcat \notin {Ideogram, Turbo, Klein, Dev} /\ Turbo \notin {Ideogram, Klein, Dev}
  /\ Klein \notin {Ideogram, Dev} /\ Dev # Ideogram
ASSUME BoundAssumption == MaxSeed \in Nat /\ MaxChanges \in Nat

VARIABLES
  request,   \* what the client asked for
  mounts,    \* the models' mounts
  cuda,      \* whether the generation worker has a GPU
  expander,  \* who has a magic-prompt backend: "none", "gateway", "both"
  warm,      \* the child already holds the model's pipeline
  stage,
  health,    \* the answer of the generation worker the gateway acts on
  sent,      \* the request as it travels
  ran,       \* what the pipeline was run with
  result,
  changes

vars == <<request, mounts, cuda, expander, warm, stage, health, sent, ran, result, changes>>
world == <<request, cuda, expander, warm>>

Init ==
  /\ request \in Requests
  /\ mounts \in [Models -> Staging]
  /\ cuda \in BOOLEAN /\ expander \in {"none", "gateway", "both"} /\ warm \in BOOLEAN
  /\ stage = "validate"
  /\ health = Nothing /\ sent = Nothing /\ ran = Nothing
  /\ result = "none" /\ changes = 0

Finish(x) == stage' = "done" /\ result' = x

(* Another model, or this one, is installed, damaged or removed.           *)
Restage ==
  /\ stage # "done" /\ changes < MaxChanges
  /\ \E m \in Models, s \in Staging : mounts' = [mounts EXCEPT ![m] = s]
  /\ changes' = changes + 1
  /\ UNCHANGED <<world, stage, health, sent, ran, result>>

-----------------------------------------------------------------------------
(* The gateway.                                                            *)

Side(n) == n \in 256 .. 2048 /\ n % 16 = 0
Seeded(r) == r.seed \in 0 .. MaxSeed

(* GenerationRequest and its validator: 422 for what it does not accept.   *)
GenerationAccepted(r) ==
  /\ Side(r.width) /\ Side(r.height) /\ Seeded(r)
  /\ TilingAccepted(r.model, IF r.tiling = Absent THEN Bool(FALSE) ELSE r.tiling)
  /\ ResolveSteps(r.model, r.steps) # Error
  /\ IF r.model \in Flux
       THEN r.prompt = "plain" /\ r.caption = "absent" /\ ~r.magic /\ r.preset = "absent"
       ELSE /\ r.model = Ideogram /\ r.preset = "known"
            /\ \/ r.caption = "object" /\ r.prompt = "absent" /\ ~r.magic
               \/ r.caption = "absent" /\ r.prompt = "plain" /\ r.magic

(* The edit route's form and the checks before its gate.                   *)
EditAccepted(r) ==
  /\ r.model \in EditModels /\ Seeded(r)
  /\ r.prompt = "plain" /\ r.negative # "long"
  /\ r.tiling \in {Absent, Literally(FALSE), Literally(TRUE)}
  /\ TilingAccepted(r.model, Bool(r.tiling = Literally(TRUE)))
  /\ ParseSteps(r.model, r.steps) # Error
  /\ r.model = Dev => r.negative = "absent"

(* 422 also for a plain prompt that nothing is configured to expand.       *)
Accepted(r) ==
  IF r.route = "edit" THEN EditAccepted(r)
  ELSE /\ GenerationAccepted(r)
       /\ ~(r.model \notin Flux /\ r.prompt # "absent" /\ expander = "none")

Validate ==
  /\ stage = "validate"
  /\ IF Accepted(request) THEN stage' = "health" /\ UNCHANGED result
     ELSE Finish("rejected")
  /\ UNCHANGED <<world, mounts, health, sent, ran, changes>>

(* What the worker itself answers; with a warm child it says so.           *)
Honest(h) == \E loaded \in BOOLEAN : (warm => loaded) /\ h = WorkerHealth(mounts, cuda, loaded)

ReadHealth ==
  /\ stage = "health" /\ stage' = "gate"
  /\ \/ \E loaded \in BOOLEAN :
          (warm => loaded) /\ health' = WorkerHealth(mounts, cuda, loaded)
     \/ health' \in Faulty
  /\ UNCHANGED <<world, mounts, sent, ran, result, changes>>

(* 503 before any dispatch, unless the model itself is ready.              *)
Gate ==
  /\ stage = "gate"
  /\ IF request.model \in GenerationStatus(GetHealth(health)).models
       THEN stage' = "send" /\ UNCHANGED result
       ELSE Finish("unready")
  /\ UNCHANGED <<world, mounts, health, sent, ran, changes>>

\* Mutant: an option that was not given is sent all the same, as no text.
QueryAlways(v) == IF v = Absent THEN Blank ELSE <<"digits", v[2]>>

(* An option as a query parameter: given only when there is one.           *)
Query(v) == IF v = Absent THEN Absent ELSE <<"digits", v[2]>>

(* model_dump(exclude_none=True), or the parameters of image_edit.         *)
Message(r) ==
  IF r.route = "edit"
    THEN [r EXCEPT !.steps = Query(ParseSteps(r.model, r.steps)),
                   !.tiling = Literally(r.tiling = Literally(TRUE))]
    ELSE [r EXCEPT !.steps = ResolveSteps(r.model, r.steps),
                   !.tiling = IF r.tiling = Absent THEN Bool(FALSE) ELSE r.tiling]

(* The edit route validates its image, 400, or else the call is made.      *)
Send ==
  /\ stage = "send"
  /\ \/ request.route = "edit" /\ Finish("bad image") /\ UNCHANGED sent
     \/ stage' = "worker" /\ sent' = Message(request) /\ UNCHANGED result
  /\ UNCHANGED <<world, mounts, health, ran, changes>>

-----------------------------------------------------------------------------
(* The worker and the child.  Any refusal here reaches the client as a 502 *)
(* whose execution state is unknown.                                       *)

\* Mutant: any text is true.
ReadTruthy(m) ==
  IF m.route = "edit"
    THEN [m EXCEPT !.steps = ParseSteps(m.model, m.steps), !.tiling = Bool(TRUE)]
    ELSE m

(* The edit route's parameters, read; the generation route takes the body  *)
(* as it comes.                                                            *)
Read(m) ==
  IF m.route = "edit"
    THEN [m EXCEPT !.steps = ParseSteps(m.model, m.steps),
                   !.tiling = IF m.tiling \in {Literally(TRUE), Literally(FALSE)}
                                THEN Bool(m.tiling = Literally(TRUE)) ELSE Error]
    ELSE m

(* _run_selected_model: both options again, and the default filled in.     *)
WorkerReads ==
  /\ stage = "worker"
  /\ LET q == Read(sent)
         steps == ResolveSteps(q.model, q.steps)
     IN IF TilingAccepted(q.model, q.tiling) /\ q.steps # Error /\ steps # Error
          THEN stage' = "adapter" /\ sent' = [q EXCEPT !.steps = steps] /\ UNCHANGED result
          ELSE Finish("refused") /\ UNCHANGED sent
  /\ UNCHANGED <<world, mounts, health, ran, changes>>

(* What the adapters ask of a request: their ValueErrors.                  *)
Prompted(q) == q.prompt = "plain" /\ Seeded(q)
IdeogramAccepts(q) ==
  /\ Side(q.width) /\ Side(q.height) /\ Seeded(q) /\ q.preset = "known"
  /\ (q.caption = "absent") # (q.prompt = "absent")
  /\ q.caption # "other"
LongcatAccepts(q) == q.route = "edit" /\ Prompted(q) /\ q.negative # "long"
KleinAccepts(q) == Prompted(q)
DevAccepts(q) ==
  /\ q.tiling \in {Bool(FALSE), Bool(TRUE)} /\ ResolveSteps(Dev, q.steps) # Error
  /\ Prompted(q) /\ q.negative = "absent"
  /\ q.route = "edit" \/ (Side(q.width) /\ Side(q.height))

(* The adapter the child picks.                                            *)
AdapterAccepts(q) ==
  CASE q.model = Ideogram -> IdeogramAccepts(q)
    [] q.model = Klein    -> KleinAccepts(q)
    [] q.model = Dev      -> DevAccepts(q)
    [] OTHER              -> LongcatAccepts(q)

AdapterReads ==
  /\ stage = "adapter"
  /\ IF AdapterAccepts(sent) THEN stage' = "load" /\ UNCHANGED result
     ELSE Finish("refused")
  /\ UNCHANGED <<world, mounts, health, sent, ran, changes>>

(* A pipeline that is held is used, but FLUX.2 dev holds none and looks at *)
(* its mount every time.                                                   *)
Held == warm /\ sent.model # Dev
Passes == Available(sent.model, mounts[sent.model]) /\ cuda

(* The loaders ask for the mount and for CUDA.  from_pretrained can fail   *)
(* on what passes: but for FLUX.2 dev nobody has looked whether the        *)
(* weights are whole, and memory may be short.                             *)
Load ==
  /\ stage = "load"
  /\ \/ (Held \/ Passes) /\ stage' = "run" /\ UNCHANGED result
     \/ ~Held /\ ~Passes /\ Finish("incomplete")
     \/ ~Held /\ Passes /\ Finish("unloadable")
  /\ UNCHANGED <<world, mounts, health, sent, ran, changes>>

(* What the pipeline is called with.  Absent: Ideogram's steps are its     *)
(* preset's, and an edit of Klein's is given none at all.                  *)
Parameters(q) ==
  [ model |-> q.model, source |-> q.route = "edit",
    steps |-> CASE q.model = Dev     -> q.steps
                [] q.model = Longcat -> Number(50)
                [] q.model = Turbo   -> Number(8)
                [] q.model = Klein /\ q.route = "generation" -> Number(4)
                [] OTHER             -> Absent,
    tiling |-> q.model = Dev /\ q.tiling = Bool(TRUE),
    negative |-> q.model \in {Longcat, Turbo} /\ q.negative = "plain" ]

(* A plain prompt of Ideogram's is expanded only now, by a backend and a   *)
(* key of the worker's own environment.                                    *)
Expands(q) == q.model = Ideogram /\ q.prompt # "absent"

(* The pipeline may raise, Ideogram's also over what the caption says.     *)
Run ==
  /\ stage = "run"
  /\ \/ Expands(sent) /\ Finish("unexpandable") /\ UNCHANGED ran
     \/ /\ Expands(sent) => expander = "both"
        /\ ran' = Parameters(sent)
        /\ Finish("ran") \/ Finish("failed")
  /\ UNCHANGED <<world, mounts, health, sent, changes>>

Done == stage = "done" /\ UNCHANGED vars

Next == \/ Restage \/ Validate \/ ReadHealth \/ Gate \/ Send
        \/ WorkerReads \/ AdapterReads \/ Load \/ Run \/ Done

Spec == Init /\ [][Next]_vars

-----------------------------------------------------------------------------
(* What the gateway admits, neither the worker nor the adapter refuses:    *)
(* the three sets of checks agree on every request, so a client's own      *)
(* mistake is a 422 at once and not a 502 after the other workers' models  *)
(* have been evicted.  (A caption that Ideogram's pipeline finds fault     *)
(* with is beyond the checks: that is a failure of Run.)                   *)
AdmittedIsAccepted == result # "refused"

(* The steps that are due to a request: the client's on FLUX.2 dev, and 25 *)
(* when it names none; the distilled model's 4 for a generation of Klein's *)
(* but the pipeline's own default for an edit, as test_longcat_unloading   *)
(* .py:95 has it; 50 or 8 on LongCat; and Ideogram's preset's.             *)
StepsDue(r) ==
  CASE r.model = Dev     -> IF r.steps = Absent THEN Number(25) ELSE Number(r.steps[2])
    [] r.model = Klein   -> IF r.route = "generation" THEN Number(4) ELSE Absent
    [] r.model = Longcat -> Number(50)
    [] r.model = Turbo   -> Number(8)
    [] OTHER             -> Absent

(* The pipeline is run as the client asked, whichever way the options      *)
(* travelled: with the steps due and never with another model's, with      *)
(* tiling only for dev and only where asked, with the negative prompt on   *)
(* every model but Klein, which has none, with a source exactly for edits. *)
RunsAsAsked ==
  result \in {"ran", "failed"} =>
    /\ ran.model = request.model /\ (ran.source <=> request.route = "edit")
    /\ ran.steps = StepsDue(request) /\ (request.model # Dev => request.steps = Absent)
    /\ ran.tiling <=> request.tiling \in {Bool(TRUE), Literally(TRUE)}
    /\ request.negative = "plain" => request.model = Klein \/ ran.negative

(* README.md:11 and 110: a model is refused only for its own mount or for  *)
(* want of a GPU; the other models' mounts, FLUX.2 dev's above all, count  *)
(* only for the summary, and dev's not even there.                         *)
OthersDoNotMatter ==
  stage = "done" /\ changes = 0 /\ result # "rejected" /\ Honest(health) =>
    /\ result = "unready" => ~cuda \/ ~Available(request.model, mounts[request.model])
    /\ GenerationStatus(GetHealth(health)).ready
         <=> cuda /\ \A m \in Required : Available(m, mounts[m])

-----------------------------------------------------------------------------
(* README.md:67, "Their omitted defaults remain unchanged: Klein uses its  *)
(* distilled 4-step path": a pipeline of Klein's is called for 4 steps, on *)
(* either of the "both routes" of README.md:52.  The code does so for a    *)
(* generation only.                                                        *)
KleinFourSteps ==
  result \in {"ran", "failed"} /\ request.model = Klein => ran.steps = Number(4)
=============================================================================
