------------------------- MODULE MCWorkerProcesses -------------------------
(* Each process with a small list of calls, and the gateway with a small   *)
(* list of image checks, one process at a time.                            *)
EXTENDS WorkerProcesses, TLC

CONSTANTS c1, c2, c3, c4, m1, m2, t1, t2, t3, t4, t5, t6

Models == {m1, m2}

\* A model, the same one again, the other one, and an unload; the first
\* asks for guidance, which the background worker gives to one model only.
Calls == {c1, c2, c3, c4}
Targets == (c1 :> m1) @@ (c2 :> m1) @@ (c3 :> m2) @@ (c4 :> Unload)
GuidedCalls == {c1}

\* Two outputs in the pool, one beyond the library's limit; on the loop two
\* uploads alike, an output that is too long and an upload that is empty.
Checks == {t1, t2, t3, t4, t5, t6}
LoopChecks == {t3, t4, t5, t6}
Kinds ==
  (t1 :> "output") @@ (t2 :> "output") @@ (t3 :> "upload") @@ (t4 :> "upload")
    @@ (t5 :> "output") @@ (t6 :> "upload")
Sizes ==
  (t1 :> "huge") @@ (t2 :> "small") @@ (t3 :> "huge") @@ (t4 :> "small")
    @@ (t5 :> "long") @@ (t6 :> "empty")

\* Bound: only one of the processes is called, or checks pictures.
Called(at) == \E c \in Call : at[c] # "idle"
Checked == \E t \in Check : dpc[t] # "measure"
OneIsCalled ==
  Cardinality({at \in {<<"g", Called(pc)>>, <<"b", Called(bpc)>>, <<"u", Called(upc)>>,
                       <<"f", Called(fpc)>>, <<"d", Checked>>} : at[2]}) <= 1

OneNext == ProcessesNext /\ OneIsCalled'
OneSpec == ProcessesInit /\ [][OneNext]_<<vars, bvars, uvars, fvars, dvars>> /\ Fairness
=============================================================================
