------------------------- MODULE MCBackgroundWorker -------------------------
(* A small instance of the background worker.                              *)
EXTENDS BackgroundWorker, TLC

CONSTANTS c1, c2, c3, c4, m1, m2

Models == {m1, m2}

\* A guided and a plain call of one model, a plain call of the other, and
\* an unload.
Calls == {c1, c2, c3, c4}
Targets == (c1 :> m1) @@ (c2 :> m1) @@ (c3 :> m2) @@ (c4 :> Unload)
GuidedCalls == {c1}
=============================================================================
