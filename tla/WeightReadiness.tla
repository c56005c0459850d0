--------------------------- MODULE WeightReadiness ---------------------------
(***************************************************************************)
(* From the files of a model's mount to whether the gateway takes requests *)
(* for it: the checks of config.py, the generation worker's health route,  *)
(* what the gateway's client lets through of its answer (workers.py) and   *)
(* what the gateway makes of that (app.py).                                *)
(***************************************************************************)
CONSTANTS Ideogram, Longcat, Turbo, Klein, Dev   \* the generation models

Models == {Ideogram, Longcat, Turbo, Klein, Dev}
Required == Models \ {Dev}

(* A mount: the marker of its revision, whether its directory is named by  *)
(* the revision, and of each kind of required file the worst: JSON, text,  *)
(* the single weight file, or the index of shards and the shards; and      *)
(* whether there are weight files that the manifest does not name.         *)
Mount ==
  [ marker: {"pinned", "other", "absent", "oversized", "binary"},
    named:  BOOLEAN,
    json:   {"pinned", "other", "absent", "oversized", "empty", "malformed", "list"},
    text:   {"pinned", "other", "absent", "oversized", "blank", "binary"},
    file:   {"whole", "truncated", "absent"},
    index:  {"pinned", "absent", "oversized", "malformed", "no map", "outside"},
    shards: {"whole", "truncated", "lost"},
    extra:  BOOLEAN ]

(* _read_bounded.                                                          *)
Readable(file) == file \notin {"absent", "oversized"}

(* _json_object_available, of every file in a model's list.                *)
JsonAvailable(file) == Readable(file) /\ file \notin {"empty", "malformed", "list"}

(* _text_available.                                                        *)
TextAvailable(file) == Readable(file) /\ file \notin {"blank", "binary"}

(* _weight_index_available: a shard must be a file below the index, of     *)
(* whatever size.                                                          *)
IndexAvailable(m) ==
  Readable(m.index) /\ m.index \notin {"malformed", "no map", "outside"} /\ m.shards # "lost"

(* _weights_available.                                                     *)
WeightsAvailable(m) == m.file # "absent" \/ IndexAvailable(m)

(* ideogram_weights_available: refs/main must name a snapshot.             *)
IdeogramAvailable(m) == m.marker = "pinned" /\ JsonAvailable(m.json) /\ WeightsAvailable(m)

(* longcat_weights_available: only without a marker is the directory's     *)
(* name the installed revision; one that cannot be read is of no revision. *)
LongcatAvailable(m) ==
  /\ m.marker = "pinned" \/ (m.marker = "absent" /\ m.named)
  /\ JsonAvailable(m.json) /\ TextAvailable(m.text) /\ WeightsAvailable(m)

(* flux_2_klein_weights_available.                                         *)
KleinAvailable(m) ==
  /\ m.marker = "pinned"
  /\ JsonAvailable(m.json) /\ TextAvailable(m.text) /\ WeightsAvailable(m)

(* flux_2_dev_weights_available: the metadata are those of the manifest to *)
(* the byte, the weights those of the manifest in name and size.           *)
DevAvailable(m) ==
  /\ m.marker = "pinned" /\ ~m.extra
  /\ m.json = "pinned" /\ m.text = "pinned" /\ m.index = "pinned"
  /\ m.file = "whole" /\ m.shards = "whole"

Available(model, m) ==
  CASE model = Ideogram -> IdeogramAvailable(m)
    [] model = Klein    -> KleinAvailable(m)
    [] model = Dev      -> DevAvailable(m)
    [] OTHER            -> LongcatAvailable(m)

-----------------------------------------------------------------------------
(* A JSON value where a truth value is due.                                *)
Flag == {"true", "false", "other", "absent"}
Literal(b) == IF b THEN "true" ELSE "false"

(* An answer to GET /health: what arrives of it, if it does.               *)
Response ==
  [ reached: BOOLEAN, ready: Flag, loaded: Flag, weightsAvailable: Flag,
    device: {"cuda", "cpu-test", "unavailable", "other"}, models: [Models -> Flag] ]

(* The generation worker's health route.                                   *)
WorkerHealth(mounts, cuda, loaded) ==
  LET available(m) == Available(m, mounts[m])
      all == \A m \in Required : available(m)
  IN [ reached |-> TRUE,
       ready |-> Literal(cuda /\ all),
       loaded |-> Literal(loaded),
       weightsAvailable |-> Literal(all),
       device |-> IF cuda THEN "cuda" ELSE "unavailable",
       models |-> [m \in Models |-> Literal(available(m))] ]

(* HttpWorkerClient._get_health: only a literal true is true, and a worker *)
(* that gives no answer has nothing.                                       *)
GetHealth(h) ==
  [ ready |-> h.reached /\ h.ready = "true",
    device |-> IF h.reached /\ h.device # "other" THEN h.device ELSE "unavailable",
    valid |-> /\ h.reached
              /\ {h.ready, h.loaded} \subseteq {"true", "false"}
              /\ h.weightsAvailable # "other",
    weights |-> h.reached /\ h.weightsAvailable = "true",
    models |-> {m \in Models : h.reached /\ h.models[m] = "true"} ]

\* Mutant: a model is ready when all required models are.
StatusOfAll(s) ==
  [ ready |-> s.ready /\ s.weights /\ Required \subseteq s.models,
    models |-> IF s.ready /\ s.weights /\ Required \subseteq s.models THEN s.models ELSE {} ]

(* _generation_status: the summary needs the four required models, a model *)
(* its own mount, a valid answer and a device.                             *)
GenerationStatus(s) ==
  [ ready |-> s.ready /\ s.weights /\ Required \subseteq s.models,
    models |-> IF s.valid /\ s.device \in {"cuda", "cpu-test"} THEN s.models ELSE {} ]
=============================================================================
