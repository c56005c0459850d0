--------------------------- MODULE Admission_proofs ---------------------------
(***************************************************************************)
(* For every request a client can send, every state of the mounts and      *)
(* every answer of a worker: what the gateway admits is accepted all the   *)
(* way down, runs as asked, and is refused for its own model's sake only.  *)
(***************************************************************************)
EXTENDS Admission, TLAPS

(* An option of FLUX.2 dev's: in range, and as given, or 25.               *)
Chosen(value, steps) ==
  \E n \in 1 .. 50 : steps = Number(n) /\ n = IF value = Absent THEN 25 ELSE value[2]

(* A value is a pair of its type and its number.                           *)
LEMMA OptionsArePairs ==
  ASSUME NEW value \in Options
  PROVE  /\ value = <<value[1], value[2]>>
         /\ value[1] = "int" => value = Number(value[2]) /\ value[2] \in Int
         /\ value[1] = "digits" => value = <<"digits", value[2]>> /\ value[2] \in Int
  BY DEF Options, Absent, Null, Blank, Other, Number

(* Numbers resolve to themselves for FLUX.2 dev and to nothing else, and   *)
(* their text parses to them.                                              *)
LEMMA NumbersResolve ==
  ASSUME NEW n \in 1 .. 50
  PROVE  /\ ResolveSteps(Dev, Number(n)) = Number(n) /\ Number(n) # Error
         /\ ParseSteps(Dev, Query(Number(n))) = Number(n)
<1> DEFINE v == <<"int", n>> t == <<"digits", n>>
<1>1. v # Absent /\ v[1] = "int" /\ v[2] = n /\ v # Error
  BY DEF Absent, Error
<1>2. t # Absent /\ t[1] = "digits" /\ t[2] = n
  BY DEF Absent
<1>3. ResolveSteps(Dev, v) = v
  BY <1>1 DEF ResolveSteps, MinInferenceSteps, MaxInferenceSteps
<1>4. Query(v) = t
  BY <1>1 DEF Query
<1>5. ParseSteps(Dev, t) = ResolveSteps(Dev, v)
  BY <1>2 DEF ParseSteps, Number
<1> QED BY <1>1, <1>3, <1>4, <1>5 DEF Number

(* What is omitted resolves to nothing for the other models.               *)
LEMMA OmissionResolves ==
  ASSUME NEW model, model # Dev
  PROVE  /\ ResolveSteps(model, Absent) = Absent /\ Absent # Error
         /\ ParseSteps(model, Absent) = Absent /\ Query(Absent) = Absent
  BY DEF ResolveSteps, ParseSteps, Query, Absent, Error

(* resolve_num_inference_steps gives a number to FLUX.2 dev, and to the    *)
(* other models nothing, of nothing.                                       *)
LEMMA ResolveChooses ==
  ASSUME NEW model, NEW value \in Options, ResolveSteps(model, value) # Error
  PROVE  IF model = Dev THEN Chosen(value, ResolveSteps(model, value))
         ELSE value = Absent /\ ResolveSteps(model, value) = Absent
<1>1. CASE value = Absent
  BY <1>1 DEF ResolveSteps, Chosen, DefaultSteps
<1>2. CASE value # Absent
  <2>1. value[1] = "int" /\ value[2] \in 1 .. 50 /\ model = Dev /\ ResolveSteps(model, value) = value
    BY <1>2 DEF ResolveSteps, MinInferenceSteps, MaxInferenceSteps
  <2> QED BY <1>2, <2>1, OptionsArePairs DEF Chosen
<1> QED BY <1>1, <1>2

(* parse_num_inference_steps does so of a text.                            *)
LEMMA ParseChooses ==
  ASSUME NEW model, NEW text \in Options, ParseSteps(model, text) # Error
  PROVE  IF model = Dev THEN Chosen(text, ParseSteps(model, text))
         ELSE text = Absent /\ ParseSteps(model, text) = Absent
<1>1. CASE text = Absent
  BY <1>1 DEF ParseSteps, ResolveSteps, Chosen, DefaultSteps
<1>2. CASE text # Absent
  <2>1. text[1] = "digits" /\ ParseSteps(model, text) = ResolveSteps(model, Number(text[2]))
    BY <1>2 DEF ParseSteps
  <2>2. text[2] \in Int
    BY <2>1, OptionsArePairs
  <2>3. Number(text[2]) \in Options
    BY <2>2 DEF Number, Options
  <2>4. Number(text[2]) # Absent /\ Number(text[2])[2] = text[2]
    BY DEF Number, Absent
  <2> QED BY <1>2, <2>1, <2>3, <2>4, ResolveChooses DEF Chosen
<1> QED BY <1>1, <1>2

-----------------------------------------------------------------------------
(* The request as the adapter receives it: its options read and resolved.  *)
Admissible(r) == IF r.route = "edit" THEN EditAccepted(r) ELSE GenerationAccepted(r)
Steps(r) == IF r.route = "edit" THEN ParseSteps(r.model, r.steps) ELSE ResolveSteps(r.model, r.steps)
Tiled(r) == r.tiling \in {Bool(TRUE), Literally(TRUE)}
With(r, s, t) == [r EXCEPT !.steps = s, !.tiling = t]
Stepped(r, s) == [r EXCEPT !.steps = s]
Delivered(r) == With(r, Steps(r), Bool(Tiled(r)))

(* The fields of a request, and what a change of its options leaves alone. *)
LEMMA RequestTypes ==
  ASSUME NEW r \in Request
  PROVE  /\ r.steps \in Options /\ r.tiling \in Options /\ r.model \in Models
         /\ r.route \in {"generation", "edit"}
         /\ DOMAIN r = {"route", "model", "steps", "tiling", "prompt", "negative", "caption",
                         "magic", "preset", "width", "height", "seed"}
         /\ r = [f \in DOMAIN r |-> r[f]]
  BY DEF Request

LEMMA OptionsChanged ==
  ASSUME NEW r \in Request, NEW s, NEW t
  PROVE  /\ With(r, s, t).steps = s /\ With(r, s, t).tiling = t
         /\ With(r, s, t).route = r.route /\ With(r, s, t).model = r.model /\ With(r, s, t).prompt = r.prompt
         /\ With(r, s, t).negative = r.negative /\ With(r, s, t).caption = r.caption /\ With(r, s, t).preset = r.preset
         /\ With(r, s, t).width = r.width /\ With(r, s, t).height = r.height /\ With(r, s, t).seed = r.seed
  BY RequestTypes DEF With

LEMMA OptionsChangedAgain ==
  ASSUME NEW r \in Request, NEW s, NEW t, NEW u, NEW v
  PROVE  Stepped(With(r, s, t), u) = With(r, u, t) /\ With(With(r, s, t), u, v) = With(r, u, v)
<1> DEFINE q == With(r, s, t)
<1>1. /\ DOMAIN q = DOMAIN r /\ q.steps = s /\ q.tiling = t
      /\ \A f \in DOMAIN r \ {"steps", "tiling"} : q[f] = r[f]
  BY RequestTypes DEF With
<1>2. Stepped(q, u) = With(r, u, t)
  BY <1>1, RequestTypes DEF With, Stepped
<1>3. With(q, u, v) = With(r, u, v)
  BY <1>1, RequestTypes DEF With
<1> QED BY <1>2, <1>3

(* The steps of an admitted request: FLUX.2 dev's as chosen, else none.    *)
LEMMA StepsChosen ==
  ASSUME NEW r \in Request, Admissible(r)
  PROVE  /\ IF r.model = Dev THEN Chosen(r.steps, Steps(r)) ELSE r.steps = Absent /\ Steps(r) = Absent
         /\ Steps(r) # Error /\ ResolveSteps(r.model, Steps(r)) = Steps(r)
         /\ ParseSteps(r.model, Query(Steps(r))) = Steps(r)
<1>1. IF r.model = Dev THEN Chosen(r.steps, Steps(r)) ELSE r.steps = Absent /\ Steps(r) = Absent
  <2>1. r.steps \in Options
    BY RequestTypes
  <2>2. CASE r.route = "edit"
    <3>1. Steps(r) = ParseSteps(r.model, r.steps) /\ Steps(r) # Error
      BY <2>2 DEF Admissible, EditAccepted, Steps
    <3> QED BY <2>1, <3>1, ParseChooses
  <2>3. CASE r.route # "edit"
    <3>1. Steps(r) = ResolveSteps(r.model, r.steps) /\ Steps(r) # Error
      BY <2>3 DEF Admissible, GenerationAccepted, Steps
    <3> QED BY <2>1, <3>1, ResolveChooses
  <2> QED BY <2>2, <2>3
<1>2. CASE r.model = Dev
  BY <1>1, <1>2, NumbersResolve DEF Chosen
<1>3. CASE r.model # Dev
  BY <1>1, <1>3, OmissionResolves
<1> QED BY <1>1, <1>2, <1>3

(* Tiling is a truth value for every admitted request, true only where it  *)
(* was asked of FLUX.2 dev; and it is read as it was written.              *)
LEMMA TruthValues ==
  /\ Bool(TRUE) # Bool(FALSE) /\ Literally(TRUE) # Literally(FALSE)
  /\ \A a, b \in BOOLEAN : Bool(a) # Literally(b) /\ Bool(a) # Absent /\ Literally(b) # Absent
  /\ Bool(TRUE) # Error /\ Bool(FALSE) # Error
  BY DEF Bool, Literally, Absent, Error

LEMMA TruthOf ==
  ASSUME NEW P
  PROVE  /\ Bool(P) = IF P THEN Bool(TRUE) ELSE Bool(FALSE)
         /\ Literally(P) = IF P THEN Literally(TRUE) ELSE Literally(FALSE)
  BY DEF Bool, Literally

LEMMA TilingTravels ==
  ASSUME NEW r \in Request, Admissible(r)
  PROVE  /\ Tiled(r) => r.model = Dev
         /\ TilingAccepted(r.model, Bool(Tiled(r)))
         /\ r.route = "edit" =>
              /\ Literally(r.tiling = Literally(TRUE)) = Literally(Tiled(r))
              /\ Literally(Tiled(r)) \in {Literally(TRUE), Literally(FALSE)}
              /\ Bool(Literally(Tiled(r)) = Literally(TRUE)) = Bool(Tiled(r))
         /\ r.route # "edit" =>
              (IF r.tiling = Absent THEN Bool(FALSE) ELSE r.tiling) = Bool(Tiled(r))
<1>1. /\ Bool(Tiled(r)) = IF Tiled(r) THEN Bool(TRUE) ELSE Bool(FALSE)
      /\ Literally(Tiled(r)) = IF Tiled(r) THEN Literally(TRUE) ELSE Literally(FALSE)
  BY TruthOf
<1>2. CASE r.route = "edit"
  <2> DEFINE asked == r.tiling = Literally(TRUE)
  <2>1. r.tiling \in {Absent, Literally(FALSE), Literally(TRUE)} /\ TilingAccepted(r.model, Bool(asked))
    BY <1>2 DEF Admissible, EditAccepted
  <2>2. Tiled(r) <=> asked
    BY TruthValues, <2>1 DEF Tiled
  <2>3. /\ Bool(asked) = IF asked THEN Bool(TRUE) ELSE Bool(FALSE)
        /\ Literally(asked) = IF asked THEN Literally(TRUE) ELSE Literally(FALSE)
    BY TruthOf
  <2>4. Literally(asked) = Literally(Tiled(r)) /\ Bool(asked) = Bool(Tiled(r))
    <3> HIDE DEF asked
    <3> QED BY <1>1, <2>2, <2>3
  <2>5. TilingAccepted(r.model, Bool(Tiled(r)))
    <3> HIDE DEF asked
    <3> QED BY <2>1, <2>4
  <2>6. Tiled(r) => r.model = Dev
    BY <1>1, <2>5, TruthValues DEF TilingAccepted
  <2>7. Literally(Tiled(r)) = Literally(TRUE) <=> Tiled(r)
    BY <1>1, TruthValues
  <2>8. Bool(Literally(Tiled(r)) = Literally(TRUE)) = Bool(Tiled(r))
    <3> DEFINE read == Literally(Tiled(r)) = Literally(TRUE)
    <3>1. Bool(read) = IF read THEN Bool(TRUE) ELSE Bool(FALSE)
      BY TruthOf
    <3>2. read <=> Tiled(r)
      BY <2>7
    <3> HIDE DEF read
    <3>3. Bool(read) = Bool(Tiled(r))
      BY <1>1, <3>1, <3>2
    <3> QED BY <3>3 DEF read
  <2> QED BY <1>1, <1>2, <2>4, <2>5, <2>6, <2>8
<1>3. CASE r.route # "edit"
  <2> DEFINE t == IF r.tiling = Absent THEN Bool(FALSE) ELSE r.tiling
  <2>1. t \in {Bool(FALSE), Bool(TRUE)} /\ (t = Bool(TRUE) => r.model = Dev)
    BY <1>3 DEF Admissible, GenerationAccepted, TilingAccepted
  <2>2. Tiled(r) <=> t = Bool(TRUE)
    BY TruthValues, <2>1 DEF Tiled
  <2>3. t = Bool(Tiled(r))
    BY TruthValues, <1>1, <2>1, <2>2
  <2> QED BY <1>1, <1>3, <2>1, <2>2, <2>3 DEF TilingAccepted
<1> QED BY <1>2, <1>3

(* The message arrives as it was meant: the worker finds no fault with it  *)
(* and hands the delivered request to the child.                           *)
LEMMA WorkerUnderstands ==
  ASSUME NEW r \in Request, Admissible(r)
  PROVE  Read(Message(r)) = Delivered(r)
<1>1. CASE r.route = "edit"
  <2> DEFINE m == With(r, Query(Steps(r)), Literally(Tiled(r)))
  <2>1. Message(r) = m
    BY <1>1, TilingTravels DEF Message, Steps, With
  <2>2. m.route = "edit" /\ m.model = r.model /\ m.steps = Query(Steps(r)) /\ m.tiling = Literally(Tiled(r))
    BY <1>1, OptionsChanged
  <2>3. Read(m) = With(m, Steps(r), Bool(Tiled(r)))
    <3> HIDE DEF m
    <3>1. Literally(Tiled(r)) \in {Literally(TRUE), Literally(FALSE)}
          /\ Bool(Literally(Tiled(r)) = Literally(TRUE)) = Bool(Tiled(r))
      BY <1>1, TilingTravels
    <3>2. ParseSteps(m.model, m.steps) = Steps(r)
      BY <2>2, StepsChosen
    <3>3. Bool(m.tiling = Literally(TRUE)) = Bool(Tiled(r)) /\ m.tiling \in {Literally(TRUE), Literally(FALSE)}
      BY <2>2, <3>1
    <3> QED BY <2>2, <3>2, <3>3 DEF Read, With
  <2> QED BY <2>1, <2>3, OptionsChangedAgain DEF Delivered
<1>2. CASE r.route # "edit"
  <2>1. Message(r) = Delivered(r)
    BY <1>2, TilingTravels DEF Message, Steps, With, Delivered
  <2> QED BY <1>2, <2>1, OptionsChanged DEF Read, Delivered
<1> QED BY <1>1, <1>2

(* Every adapter accepts what the gateway admitted for its model.          *)
LEMMA AdapterAgrees ==
  ASSUME NEW r \in Request, Admissible(r)
  PROVE  AdapterAccepts(Delivered(r))
<1> DEFINE q == Delivered(r)
<1>1. /\ q.route = r.route /\ q.model = r.model /\ q.prompt = r.prompt
      /\ q.negative = r.negative /\ q.caption = r.caption /\ q.preset = r.preset
      /\ q.width = r.width /\ q.height = r.height /\ q.seed = r.seed
      /\ q.steps = Steps(r) /\ q.tiling = Bool(Tiled(r))
  BY OptionsChanged DEF Delivered
<1>2. Seeded(q) /\ q.negative # "long"
  BY <1>1 DEF Admissible, EditAccepted, GenerationAccepted, Seeded, Request
<1>3. q.tiling \in {Bool(FALSE), Bool(TRUE)}
  BY <1>1, TilingTravels DEF TilingAccepted
<1>4. q.model = Dev => ResolveSteps(Dev, q.steps) # Error
  BY <1>1, StepsChosen
<1>5. CASE r.route = "edit"
  <2>1. q.model \in {Longcat, Turbo, Klein, Dev} /\ q.prompt = "plain" /\ (q.model = Dev => q.negative = "absent")
    BY <1>1, <1>5 DEF Admissible, EditAccepted, EditModels
  <2> QED
       BY <1>1, <1>2, <1>3, <1>4, <1>5, <2>1, ModelAssumption
       DEF AdapterAccepts, IdeogramAccepts, LongcatAccepts, KleinAccepts, DevAccepts,
           Prompted
<1>6. CASE r.route # "edit"
  <2>1. Side(q.width) /\ Side(q.height) /\ q.negative = "absent"
    BY <1>1, <1>6 DEF Admissible, GenerationAccepted, Request
  <2>2. CASE r.model \in Flux
    <3>1. q.prompt = "plain" /\ q.model \in {Klein, Dev}
      BY <1>1, <1>6, <2>2 DEF Admissible, GenerationAccepted, Flux
    <3> QED
         BY <1>2, <1>3, <1>4, <2>1, <3>1, ModelAssumption
         DEF AdapterAccepts, IdeogramAccepts, LongcatAccepts, KleinAccepts, DevAccepts,
             Prompted
  <2>3. CASE r.model \notin Flux
    <3>1. /\ q.model = Ideogram /\ q.preset = "known"
          /\ \/ q.caption = "object" /\ q.prompt = "absent"
             \/ q.caption = "absent" /\ q.prompt = "plain"
      BY <1>1, <1>6, <2>3 DEF Admissible, GenerationAccepted
    <3> QED
         BY <1>2, <2>1, <3>1, ModelAssumption
         DEF AdapterAccepts, IdeogramAccepts, LongcatAccepts, KleinAccepts, DevAccepts,
             Prompted
  <2> QED BY <2>2, <2>3
<1> QED BY <1>5, <1>6

-----------------------------------------------------------------------------
(* What is known of the request at each stage: it is admissible once it is *)
(* validated, the message is its own, and the adapter has it as delivered. *)
Travels ==
  /\ request \in Requests
  /\ stage \in {"validate", "health", "gate", "send", "worker", "adapter", "load", "run", "done"}
  /\ stage = "validate" => result = "none"
  /\ stage \notin {"validate", "done"} => result = "none" /\ Admissible(request)
  /\ stage = "worker" => sent = Message(request)
  /\ stage \in {"adapter", "load", "run"} => sent = Delivered(request)
  /\ result \in {"ran", "failed"} => Admissible(request) /\ ran = Parameters(Delivered(request))
  /\ result # "refused"

LEMMA TravelsInit == Init => Travels
  BY DEF Init, Travels

(* Each step keeps it: validation establishes admissibility, sending the   *)
(* message, and the worker and the adapter find nothing to refuse.         *)
LEMMA TravelsNext == Travels /\ [Next]_vars => Travels'
<1> SUFFICES ASSUME Travels, [Next]_vars PROVE Travels'
  OBVIOUS
<1> USE DEF Travels
<1>1. request \in Request
  BY RequestAssumption
<1>2. CASE Restage
  BY <1>2 DEF Restage, world, Admissible, EditAccepted, GenerationAccepted
<1>3. CASE Validate
  <2>1. request' = request /\ (Accepted(request) => Admissible(request))
    BY <1>3 DEF Validate, world, Accepted, Admissible
  <2> QED BY <1>3, <2>1 DEF Validate, Finish
<1>4. CASE ReadHealth
  BY <1>4 DEF ReadHealth, world
<1>5. CASE Gate
  BY <1>5 DEF Gate, Finish, world
<1>6. CASE Send
  BY <1>6 DEF Send, Finish, world
<1>7. CASE WorkerReads
  <2> DEFINE q == Read(sent)
  <2>0. q = Delivered(request) /\ Admissible(request) /\ stage = "worker"
    BY <1>1, <1>7, WorkerUnderstands DEF WorkerReads
  <2>1. /\ q.model = request.model /\ q.steps = Steps(request) /\ q.tiling = Bool(Tiled(request))
        /\ Stepped(q, Steps(request)) = Delivered(request)
    BY <1>1, <2>0, OptionsChanged, OptionsChangedAgain DEF Delivered
  <2>2. q.steps # Error /\ ResolveSteps(q.model, q.steps) = Steps(request)
        /\ TilingAccepted(q.model, q.tiling)
    BY <1>1, <2>0, <2>1, StepsChosen, TilingTravels
  <2>3. stage' = "adapter" /\ sent' = Delivered(request) /\ result' = result
    BY <1>7, <2>1, <2>2 DEF WorkerReads, Stepped
  <2> QED BY <1>7, <2>3 DEF WorkerReads, world
<1>8. CASE AdapterReads
  <2>1. AdapterAccepts(sent)
    BY <1>1, <1>8, AdapterAgrees DEF AdapterReads
  <2> QED BY <1>8, <2>1 DEF AdapterReads, world
<1>9. CASE Load
  BY <1>9 DEF Load, Finish, world
<1>12. CASE Run
  BY <1>12 DEF Run, Finish, world
<1>10. CASE Done
  BY <1>10 DEF Done, vars
<1>11. CASE UNCHANGED vars
  BY <1>11 DEF vars
<1> QED BY <1>2, <1>3, <1>4, <1>5, <1>6, <1>7, <1>8, <1>9, <1>10, <1>11, <1>12
     DEF Next

(* What the gateway admits is refused by no one later.                     *)
THEOREM Admitted == Spec => []AdmittedIsAccepted
<1>1. Travels => AdmittedIsAccepted
  BY DEF Travels, AdmittedIsAccepted
<1> QED BY TravelsInit, TravelsNext, <1>1, PTL DEF Spec

(* The parameters a pipeline is run with are those the client asked for.   *)
LEMMA DeliveredAsAsked ==
  ASSUME NEW r \in Request, Admissible(r), NEW p, p = Parameters(Delivered(r))
  PROVE  /\ p.model = r.model /\ (p.source <=> r.route = "edit")
         /\ p.steps = StepsDue(r) /\ (r.model # Dev => r.steps = Absent)
         /\ p.tiling <=> r.tiling \in {Bool(TRUE), Literally(TRUE)}
         /\ r.negative = "plain" => r.model = Klein \/ p.negative
<1> DEFINE q == Delivered(r) w == Parameters(q)
<1>1. /\ q.route = r.route /\ q.model = r.model /\ q.negative = r.negative
      /\ q.steps = Steps(r) /\ q.tiling = Bool(Tiled(r))
  BY OptionsChanged DEF Delivered
<1>2. p = w
  OBVIOUS
<1> HIDE DEF q
<1>8. w.model = r.model /\ (w.source <=> r.route = "edit")
  BY <1>1 DEF Parameters
<1>3. ASSUME r.model = Dev
      PROVE w.steps = StepsDue(r) /\ (r.model # Dev => r.steps = Absent)
  <2>1. w.steps = q.steps
    BY <1>1, <1>3, ModelAssumption DEF Parameters
  <2>2. w.steps = IF r.steps = Absent THEN Number(25) ELSE Number(r.steps[2])
    BY <1>1, <1>3, <2>1, StepsChosen DEF Chosen
  <2>. QED  BY <1>3, <2>2, ModelAssumption DEF StepsDue
<1>4. ASSUME r.model # Dev
      PROVE w.steps = StepsDue(r) /\ (r.model # Dev => r.steps = Absent)
  <2>1. r.route \in {"generation", "edit"} /\ r.model \in Models
    BY RequestTypes
  <2>2. w.steps = StepsDue(r)
    BY <1>1, <1>4, <2>1, ModelAssumption DEF Parameters, StepsDue, Models
  <2>. QED  BY <1>4, <2>2, StepsChosen
<1>5. w.tiling <=> Tiled(r)
  BY <1>1, TilingTravels, TruthValues, TruthOf DEF Parameters
<1>7. r.negative = "plain" => r.model = Klein \/ w.negative
  <2>1. r.negative = "plain" => r.model \in {Longcat, Turbo, Klein}
    BY DEF Admissible, EditAccepted, EditModels, Request
  <2> QED BY <1>1, <2>1 DEF Parameters
<1>6. w.tiling <=> r.tiling \in {Bool(TRUE), Literally(TRUE)}
  BY <1>5 DEF Tiled
<1> HIDE DEF w
<1>9. w.steps = StepsDue(r) /\ (r.model # Dev => r.steps = Absent)
  BY <1>3, <1>4
<1> QED BY <1>2, <1>6, <1>7, <1>8, <1>9

(* Every pipeline is run as its client asked, with the steps that are due  *)
(* to the model and the route.                                             *)
THEOREM AsAsked == Spec => []RunsAsAsked
<1>1. Travels => RunsAsAsked
  <2> SUFFICES ASSUME Travels, result \in {"ran", "failed"} PROVE RunsAsAsked
    BY DEF RunsAsAsked
  <2>1. request \in Request /\ Admissible(request) /\ ran = Parameters(Delivered(request))
    BY RequestAssumption DEF Travels
  <2> QED BY <2>1, DeliveredAsAsked DEF RunsAsAsked
<1> QED BY TravelsInit, TravelsNext, <1>1, PTL DEF Spec

-----------------------------------------------------------------------------
(* The gate opens, on the worker's own answer, exactly for a model whose   *)
(* mount is available, and a GPU; and only on a literal claim.             *)
LEMMA HonestGate ==
  ASSUME NEW c \in BOOLEAN, NEW l \in BOOLEAN, NEW M, NEW m \in Models
  PROVE  LET s == GenerationStatus(GetHealth(WorkerHealth(M, c, l))) IN
         /\ m \in s.models <=> c /\ Available(m, M[m])
         /\ s.ready <=> c /\ \A n \in Required : Available(n, M[n])
<1> DEFINE h == WorkerHealth(M, c, l) g == GetHealth(h) s == GenerationStatus(g)
<1>1. /\ h.reached = TRUE /\ h.loaded \in {"true", "false"} /\ h.ready \in {"true", "false"}
      /\ h.weightsAvailable \in {"true", "false"}
      /\ h.device = IF c THEN "cuda" ELSE "unavailable"
      /\ h.weightsAvailable = "true" <=> \A n \in Required : Available(n, M[n])
      /\ h.ready = "true" <=> c /\ \A n \in Required : Available(n, M[n])
      /\ \A n \in Models : h.models[n] = "true" <=> Available(n, M[n])
  BY DEF WorkerHealth, Literal
<1> HIDE DEF h
<1>2. /\ g.valid /\ g.device = IF c THEN "cuda" ELSE "unavailable"
      /\ g.ready <=> h.ready = "true"
      /\ g.weights <=> h.weightsAvailable = "true"
      /\ \A n \in Models : n \in g.models <=> Available(n, M[n])
  BY <1>1 DEF GetHealth
<1> HIDE DEF g
<1>3. m \in s.models <=> c /\ Available(m, M[m])
  BY <1>2 DEF GenerationStatus
<1>4. Required \subseteq g.models <=> \A n \in Required : Available(n, M[n])
  BY <1>2 DEF Required
<1>5. s.ready <=> c /\ \A n \in Required : Available(n, M[n])
  BY <1>1, <1>2, <1>4 DEF GenerationStatus
<1> QED BY <1>3, <1>5 DEF g, h

(* What is known of the gate: the answer it acts on is the worker's own or *)
(* false, and it refuses only a model that is not ready by that answer.    *)
Gated ==
  /\ Travels
  /\ changes \in Nat /\ cuda \in BOOLEAN /\ request.model \in Models
  /\ stage \notin {"validate", "health"} /\ result # "rejected" =>
       changes > 0 \/ health \in Faulty \/ Honest(health)
  /\ result = "unready" => request.model \notin GenerationStatus(GetHealth(health)).models
  /\ stage \notin {"validate", "done"} => result = "none"

LEMMA GatedInit == Init => Gated
<1>1. Init => request.model \in Models
  BY RequestAssumption, RequestTypes DEF Init
<1> QED BY <1>1, TravelsInit DEF Init, Gated

LEMMA GatedNext == Gated /\ [Next]_vars => Gated'
<1> SUFFICES ASSUME Gated, [Next]_vars PROVE Gated'
  OBVIOUS
<1>1. Travels'
  BY TravelsNext DEF Gated
<1>2. request \in Request /\ Travels
  BY RequestAssumption DEF Gated, Travels
<1> USE DEF Gated
<1>3. CASE Restage
  BY <1>1, <1>2, <1>3 DEF Restage, world, Travels
<1>4. CASE Validate
  BY <1>1, <1>2, <1>4 DEF Validate, Finish, world, Honest, Travels
<1>5. CASE ReadHealth
  BY <1>1, <1>2, <1>5 DEF ReadHealth, world, Honest, Travels
<1>6. CASE Gate
  BY <1>1, <1>2, <1>6 DEF Gate, Finish, world, Honest, Travels
<1>7. CASE Send
  BY <1>1, <1>2, <1>7 DEF Send, Finish, world, Honest, Travels
<1>8. CASE WorkerReads
  BY <1>1, <1>2, <1>8 DEF WorkerReads, Finish, world, Honest, Travels
<1>9. CASE AdapterReads
  BY <1>1, <1>2, <1>9 DEF AdapterReads, Finish, world, Honest, Travels
<1>10. CASE Load \/ Run
  BY <1>1, <1>2, <1>10 DEF Load, Run, Finish, world, Honest, Travels
<1>11. CASE Done \/ UNCHANGED vars
  BY <1>1, <1>2, <1>11 DEF Done, vars, Honest, Travels
<1> QED BY <1>3, <1>4, <1>5, <1>6, <1>7, <1>8, <1>9, <1>10, <1>11 DEF Next

(* A refusal at the gate is due to the model itself.                       *)
THEOREM OwnMountOnly == Spec => []OthersDoNotMatter
<1>1. Gated => OthersDoNotMatter
  <2> SUFFICES ASSUME Gated, Honest(health)
               PROVE /\ result = "unready" => ~cuda \/ ~Available(request.model, mounts[request.model])
                     /\ GenerationStatus(GetHealth(health)).ready
                          <=> cuda /\ \A m \in Required : Available(m, mounts[m])
    BY DEF OthersDoNotMatter
  <2>1. PICK l \in BOOLEAN : health = WorkerHealth(mounts, cuda, l)
    BY DEF Honest
  <2> QED BY <2>1, HonestGate DEF Gated
<1> QED BY GatedInit, GatedNext, <1>1, PTL DEF Spec
=============================================================================
