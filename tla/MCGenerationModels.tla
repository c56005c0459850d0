------------------------ MODULE MCGenerationModels ------------------------
(* Small instances of the generation worker's parent.                      *)
EXTENDS GenerationModels, TLC

CONSTANTS c1, c2, c3, c4, m1, m2

Models == {m1, m2}

\* A model, the same model again, another one, and an unload.
Calls == {c1, c2, c3, c4}
Targets == (c1 :> m1) @@ (c2 :> m1) @@ (c3 :> m2) @@ (c4 :> Unload)
=============================================================================
