----------------------------- MODULE MCGateway -----------------------------
(* Small instances of the gateway: the requests, and the route of each.    *)
EXTENDS Gateway, TLC

CONSTANTS r1, r2, r3, r4

\* Two async routes on the loop against a pooled one, all through the lane.
MixedRequest == {r1, r2, r3}
MixedRoute == (r1 :> "edit") @@ (r2 :> "upscale") @@ (r3 :> "generation")

\* Two async routes that may need the pool for their uploads and one of which
\* asks for the worker's health, a pooled route that needs the lane, and a
\* health probe, which fill the pool.
ProbeRequest == {r1, r2, r3, r4}
ProbeRoute ==
  (r1 :> "edit") @@ (r2 :> "background") @@ (r3 :> "unload") @@ (r4 :> "health")
=============================================================================
