-------------------------- MODULE MCUpscaleWorker --------------------------
(* A small instance of the upscale worker.                                 *)
EXTENDS UpscaleWorker, TLC

CONSTANTS c1, c2, c3, c4, x4plus, anime

Models == {x4plus, anime}

\* A model, the same one again, the other one, and an unload.
Calls == {c1, c2, c3, c4}
Targets == (c1 :> x4plus) @@ (c2 :> x4plus) @@ (c3 :> anime) @@ (c4 :> Unload)
=============================================================================
