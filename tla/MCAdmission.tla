----------------------------- MODULE MCAdmission -----------------------------
(* Requests that differ from a valid one in at most two fields, against    *)
(* sound mounts; and valid requests against mounts with one defect, lying  *)
(* answers and a mount restaged in between.                                *)
EXTENDS Admission, TLC

\* Sizes and numbers at and beyond every boundary, and between.
Sides == {240, 256, 264, 2048, 2064}
StepOptions == {Absent, Null, Blank, Other, Bool(TRUE), Literally(TRUE), Digits(25)}
                 \cup {Number(n) : n \in {0, 1, 25, 50, 51}} \cup {Digits(n) : n \in {0, 1, 50, 51}}
TilingOptions == {Absent, Null, Blank, Other, Number(1)}
                   \cup {Bool(b) : b \in BOOLEAN} \cup {Literally(b) : b \in BOOLEAN}
Seeds == {-1, 0, MaxSeed, MaxSeed + 1}

Fields ==
  [ steps |-> StepOptions, tiling |-> TilingOptions, seed |-> Seeds,
    prompt |-> {"absent", "blank", "plain", "long"} ]
GenerationFields ==
  Fields @@ [ caption |-> {"absent", "empty", "object", "large", "other"}, magic |-> BOOLEAN,
              preset |-> {"absent", "known", "other"}, width |-> Sides, height |-> Sides ]
EditFields == Fields @@ [ negative |-> {"absent", "plain", "long"} ]

Generation(m) ==
  [ route |-> "generation", model |-> m, steps |-> Absent, tiling |-> Absent,
    prompt |-> IF m = Ideogram THEN "absent" ELSE "plain", negative |-> "absent",
    caption |-> IF m = Ideogram THEN "object" ELSE "absent", magic |-> FALSE,
    preset |-> IF m = Ideogram THEN "known" ELSE "absent",
    width |-> 256, height |-> 2048, seed |-> 1 ]
Edit(m) ==
  [ route |-> "edit", model |-> m, steps |-> Absent, tiling |-> Absent,
    prompt |-> "plain", negative |-> "absent", caption |-> "absent", magic |-> FALSE,
    preset |-> "absent", width |-> 0, height |-> 0, seed |-> 1 ]
PlainIdeogram == [Generation(Ideogram) EXCEPT !.prompt = "plain", !.caption = "absent", !.magic = TRUE]

Bases == {Generation(m) : m \in Models} \cup {Edit(m) : m \in Models} \cup {PlainIdeogram}
FieldsOf(r) == IF r.route = "edit" THEN EditFields ELSE GenerationFields
Variants ==
  UNION { UNION { {[r EXCEPT ![f] = v, ![g] = w] : v \in FieldsOf(r)[f], w \in FieldsOf(r)[g]} :
                    f \in DOMAIN FieldsOf(r), g \in DOMAIN FieldsOf(r) } : r \in Bases }

Sound ==
  [ marker |-> "pinned", named |-> FALSE, json |-> "pinned", text |-> "pinned",
    file |-> "whole", index |-> "pinned", shards |-> "whole", extra |-> FALSE ]
Missing == [Sound EXCEPT !.marker = "absent", !.json = "absent", !.text = "absent", !.file = "absent",
                           !.index = "absent", !.shards = "lost"]
Defects ==
  [ marker |-> {"other", "absent", "oversized", "binary"},
    json   |-> {"other", "absent", "oversized", "empty", "malformed", "list"},
    text   |-> {"other", "absent", "oversized", "blank", "binary"},
    file   |-> {"truncated", "absent"}, named |-> {TRUE},
    index  |-> {"absent", "oversized", "malformed", "no map", "outside"},
    shards |-> {"truncated", "lost"}, extra |-> {TRUE} ]
Defective == UNION {{[Sound EXCEPT ![f] = v] : v \in Defects[f]} : f \in DOMAIN Defects}

\* Two defects that only together make a mount unavailable, and two that
\* together do not.
Stagings ==
  {Sound, Missing} \cup Defective
    \cup { [Sound EXCEPT !.file = "absent", !.shards = "lost"],
           [Sound EXCEPT !.marker = "absent", !.named = TRUE] }

\* Answers that differ in one thing from those of a worker with everything.
Ready == WorkerHealth([m \in Models |-> Sound], TRUE, TRUE)
Lies ==
  {Ready, [Ready EXCEPT !.reached = FALSE]}
    \cup {[Ready EXCEPT ![f] = v] : f \in {"ready", "loaded", "weightsAvailable"}, v \in Flag}
    \cup {[Ready EXCEPT !.device = d] : d \in {"cpu-test", "unavailable", "other"}}
    \cup {[Ready EXCEPT !.models[m] = v] : m \in Models, v \in Flag}

AllSound == [m \in Models |-> Sound]

\* Bound: out of the ordinary is either the request or its surroundings.
BoundedInit ==
  /\ \/ /\ request \in Requests /\ mounts = AllSound /\ cuda = TRUE /\ warm = FALSE
        /\ expander = "both" /\ changes = MaxChanges
     \/ /\ request \in Bases
        /\ \E m \in Models, s \in Staging : mounts = [AllSound EXCEPT ![m] = s]
        /\ cuda \in BOOLEAN /\ (mounts = AllSound \/ cuda) /\ warm \in BOOLEAN /\ changes = 0
        /\ expander \in IF request = PlainIdeogram THEN {"none", "gateway", "both"} ELSE {"both"}
  /\ stage = "validate"
  /\ health = Nothing /\ sent = Nothing /\ ran = Nothing
  /\ result = "none"
BoundedSpec == BoundedInit /\ [][Next]_vars

\* Bound: one mount at a time is defective, and a lie comes with sound
\* mounts, or hides that the model's own is not installed.
Surroundings ==
  /\ \E m \in Models : \A n \in Models \ {m} : mounts[n] = Sound
  /\ health \in Lies /\ ~Honest(health) =>
       changes = 0 /\ mounts \in {AllSound, [AllSound EXCEPT ![request.model] = Missing]}
=============================================================================
