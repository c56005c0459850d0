-------------------------- MODULE GenerationOptions --------------------------
(***************************************************************************)
(* generation_options.py, by which the gateway, the generation worker and  *)
(* the FLUX.2 dev adapter each check the same two options, which only that *)
(* model has.  A value is a pair of its type and its number, for the types *)
(* that have one.                                                          *)
(***************************************************************************)
EXTENDS Integers, WeightReadiness

MinInferenceSteps == 1
MaxInferenceSteps == 50
DefaultSteps == 25

Absent == <<"absent", 0>>
Error == <<"error", 0>>   \* a ValueError
Number(n) == <<"int", n>>
Digits(n) == <<"digits", n>>
Bool(b) == <<"bool", IF b THEN 1 ELSE 0>>

(* resolve_num_inference_steps: only omission has a default.               *)
ResolveSteps(model, value) ==
  IF value = Absent THEN IF model = Dev THEN Number(DefaultSteps) ELSE Absent
  ELSE IF value[1] = "int" /\ value[2] \in MinInferenceSteps .. MaxInferenceSteps /\ model = Dev
    THEN value
    ELSE Error

(* parse_num_inference_steps: the same of a text field.                    *)
ParseSteps(model, text) ==
  IF text = Absent THEN ResolveSteps(model, Absent)
  ELSE IF text[1] = "digits" THEN ResolveSteps(model, Number(text[2]))
  ELSE Error

(* validate_vae_tiling.                                                    *)
TilingAccepted(model, value) ==
  value \in {Bool(FALSE), Bool(TRUE)} /\ (value = Bool(TRUE) => model = Dev)
=============================================================================
