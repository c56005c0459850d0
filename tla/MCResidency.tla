---------------------------- MODULE MCResidency ----------------------------
(* Small instances of the three workers and the lane: the jobs, the route  *)
(* and the generation model of each.                                       *)
EXTENDS Residency, TLC

CONSTANTS j1, j2, j3, j4, m1, m2

Models == {m1, m2}

\* The unload route, a worker whose release can fail half-way, and two jobs
\* of one generation model, the second of which may skip its evictions.
MixJob == {j1, j2, j3, j4}
MixRoute == (j1 :> "unload") @@ (j2 :> "background") @@ (j3 :> "generation") @@ (j4 :> "edit")
MixWanted == (j1 :> m1) @@ (j2 :> m1) @@ (j3 :> m1) @@ (j4 :> m1)

\* For liveness: an upscale, an edit, and the unload of both.
TrioJob == {j1, j2, j3}
TrioRoute == (j1 :> "unload") @@ (j2 :> "upscale") @@ (j3 :> "edit")
TrioWanted == (j1 :> m1) @@ (j2 :> m1) @@ (j3 :> m1)

\* For a gateway that forgets jobs: two of one worker, one of another.
TwinJob == {j1, j2, j3}
TwinRoute == (j1 :> "upscale") @@ (j2 :> "upscale") @@ (j3 :> "edit")
TwinWanted == (j1 :> m1) @@ (j2 :> m1) @@ (j3 :> m1)

\* Two jobs of different workers.
PairJob == {j1, j2}
PairRoute == (j1 :> "background") @@ (j2 :> "edit")
PairWanted == (j1 :> m1) @@ (j2 :> m1)
=============================================================================
