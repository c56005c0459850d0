----------------------------- MODULE ModelSlot -----------------------------
(***************************************************************************)
(* What the generation worker promises about GPU memory: it holds at most  *)
(* one model, and holds another one only after it has held none.           *)
(***************************************************************************)
CONSTANTS Model, Empty

VARIABLE slot

Init == slot = Empty

Load(m) == slot = Empty /\ slot' = m

Drop == slot # Empty /\ slot' = Empty

Next == Drop \/ \E m \in Model : Load(m)

Spec == Init /\ [][Next]_slot
=============================================================================
