---------------------------- MODULE MattingCalls ----------------------------
(***************************************************************************)
(* The calls that reach the background worker: its models are the two      *)
(* matting backends, and some calls ask for SAM 2 guidance.                *)
(***************************************************************************)
EXTENDS WorkerCalls

CONSTANTS
  Bria,      \* bria-rmbg-2.0
  Birefnet,  \* birefnet-hr-matting
  Guided     \* the calls that ask for SAM 2 guidance

ASSUME MattingAssumption == Model = {Bria, Birefnet} /\ Bria # Birefnet
=============================================================================
