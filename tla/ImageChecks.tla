---------------------------- MODULE ImageChecks ----------------------------
(***************************************************************************)
(* The list of image checks the gateway makes, and the thread that makes   *)
(* each: uploads are checked on the event loop only.                       *)
(***************************************************************************)
CONSTANTS
  Check,      \* the checks that are made
  OnLoop,     \* those made by the event loop's thread, one after the other
  Kind,       \* "upload" or "output"
  Size,       \* of each picture: "empty", "small", "huge" (beyond the
              \* library's limit) or "long" (beyond the encoded byte limit)
  Nobody      \* no thread

ASSUME KindAssumption ==
  /\ Kind \in [Check -> {"upload", "output"}]
  /\ OnLoop \subseteq Check
  /\ \A t \in Check : Kind[t] = "upload" => t \in OnLoop
ASSUME SizeAssumption == Size \in [Check -> {"empty", "small", "huge", "long"}]
ASSUME NobodyAssumption == Nobody \notin Check
=============================================================================
