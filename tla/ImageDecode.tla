---------------------------- MODULE ImageDecode ----------------------------
(***************************************************************************)
(* The gateway's two image checks (images.py) and the setting they share:  *)
(* Image.MAX_IMAGE_PIXELS, a global of the Pillow library, above which     *)
(* Image.open refuses a picture.  validate_image decodes an upload under   *)
(* that limit, validate_png_output decodes a worker's picture without it.  *)
(* Uploads are checked on the event loop, outputs there and in the pool's  *)
(* threads, so the limit is changed only under _image_decode_lock.         *)
(***************************************************************************)
EXTENDS Integers, ImageChecks

VARIABLES
  pc,        \* where each check is
  pass,      \* 1 while the header is verified, 2 while the picture is loaded
  lock,      \* _image_decode_lock
  limit,     \* whether MAX_IMAGE_PIXELS is a number, or None
  previous,  \* previous_limit of each _output_decode_without_dimension_limit
  result

vars == <<pc, pass, lock, limit, previous, result>>

Goto(t, stage) == pc' = [pc EXCEPT ![t] = stage]

Decide(t, x) == result' = [result EXCEPT ![t] = x]

Init ==
  /\ pc = [t \in Check |-> "measure"]
  /\ pass = [t \in Check |-> 1]
  /\ lock = Nobody
  /\ limit = "number"
  /\ previous = [t \in Check |-> "number"]
  /\ result = [t \in Check |-> "none"]

\* The thread that is to make the check t is free.
ThreadFree(t) ==
  t \in OnLoop => \A u \in OnLoop : pc[u] \in {"measure", "done"}

(* The length is checked before the lock.                                  *)
Measure(t) ==
  /\ pc[t] = "measure" /\ ThreadFree(t)
  /\ CASE Size[t] = "empty" -> Goto(t, "done") /\ Decide(t, "invalid")
       [] Size[t] = "long"  -> Goto(t, "done") /\ Decide(t, "too_large")
       [] OTHER             -> Goto(t, "enter") /\ UNCHANGED result
  /\ UNCHANGED <<pass, lock, limit, previous>>

\* Mutant: the lock is not waited for.
EnterAtOnce(t) ==
  /\ pc[t] = "enter"
  /\ lock' = t
  /\ IF Kind[t] = "output"
       THEN Goto(t, "lift") /\ previous' = [previous EXCEPT ![t] = limit]
       ELSE Goto(t, "decode") /\ UNCHANGED previous
  /\ UNCHANGED <<pass, limit, result>>

(* with _image_decode_lock; an output then saves the limit.                *)
Enter(t) ==
  /\ pc[t] = "enter" /\ lock = Nobody
  /\ lock' = t
  /\ IF Kind[t] = "output"
       THEN Goto(t, "lift") /\ previous' = [previous EXCEPT ![t] = limit]
       ELSE Goto(t, "decode") /\ UNCHANGED previous
  /\ UNCHANGED <<pass, limit, result>>

Lift(t) ==
  /\ pc[t] = "lift"
  /\ limit' = "none"
  /\ Goto(t, "decode")
  /\ UNCHANGED <<pass, lock, previous, result>>

\* Mutant: the limit is put back after a success only.
AfterWithoutFinally(t, x) ==
  /\ Decide(t, x)
  /\ IF Kind[t] = "output" /\ x = "none" THEN Goto(t, "restore") /\ UNCHANGED pass
     ELSE IF x = "none" /\ pass[t] = 1
       THEN pass' = [pass EXCEPT ![t] = 2] /\ UNCHANGED pc
       ELSE Goto(t, "leave") /\ UNCHANGED pass

(* A pass over the picture ends with x: the limit is put back by an        *)
(* output, the lock given back; an upload makes both passes under it.      *)
After(t, x) ==
  /\ Decide(t, x)
  /\ IF Kind[t] = "output" THEN Goto(t, "restore") /\ UNCHANGED pass
     ELSE IF x = "none" /\ pass[t] = 1
       THEN pass' = [pass EXCEPT ![t] = 2] /\ UNCHANGED pc
       ELSE Goto(t, "leave") /\ UNCHANGED pass

(* Image.open with verify or load: a picture beyond the limit is refused;  *)
(* one that is not, if it is a picture at all and an upload is within the  *)
(* configured dimensions, passes.                                          *)
Decode(t) ==
  /\ pc[t] = "decode"
  /\ \/ Size[t] = "huge" /\ limit = "number"
        /\ After(t, IF Kind[t] = "output" THEN "invalid" ELSE "too_large")
     \/ /\ ~(Size[t] = "huge" /\ limit = "number")
        /\ After(t, IF pass[t] = 2 /\ Kind[t] = "upload" THEN "ok" ELSE "none")
     \/ After(t, "invalid")
     \/ Kind[t] = "upload" /\ After(t, "too_large")
  /\ UNCHANGED <<lock, limit, previous>>

Restore(t) ==
  /\ pc[t] = "restore"
  /\ limit' = previous[t]
  /\ Goto(t, "leave")
  /\ UNCHANGED <<pass, lock, previous, result>>

(* The lock is given back.  An output that passed takes it again for its   *)
(* second pass, and after that its format and mode are compared.           *)
LeaveLock(t) ==
  /\ pc[t] = "leave"
  /\ lock' = Nobody
  /\ IF result[t] # "none" THEN Goto(t, "done") /\ UNCHANGED <<pass, result>>
     ELSE IF pass[t] = 1
       THEN Goto(t, "enter") /\ pass' = [pass EXCEPT ![t] = 2] /\ UNCHANGED result
       ELSE /\ Goto(t, "done")
            /\ \E x \in {"ok", "invalid"} : Decide(t, x)
            /\ UNCHANGED pass
  /\ UNCHANGED <<limit, previous>>

Step(t) ==
  Measure(t) \/ Enter(t) \/ Lift(t) \/ Decode(t) \/ Restore(t) \/ LeaveLock(t)

Idle == (\A t \in Check : pc[t] = "done") /\ UNCHANGED vars

Next == Idle \/ \E t \in Check : Step(t)

(* Threads are scheduled.                                                  *)
Spec == Init /\ [][Next]_vars /\ \A t \in Check : WF_vars(Step(t))

-----------------------------------------------------------------------------
(* Every variable keeps its type.                                          *)
TypeOK ==
  /\ pc \in [Check -> {"measure", "enter", "lift", "decode", "restore", "leave", "done"}]
  /\ pass \in [Check -> {1, 2}]
  /\ lock \in Check \cup {Nobody}
  /\ limit \in {"number", "none"}
  /\ previous \in [Check -> {"number", "none"}]
  /\ result \in [Check -> {"none", "ok", "invalid", "too_large"}]

(* Nobody saves the lifted limit as if it were the original: outside the   *)
(* lock the library's limit is in force, for the whole life of the process. *)
LimitInForce == lock = Nobody => limit = "number"

(* No upload is decoded while another thread has lifted the limit, and     *)
(* every output is decoded with the limit lifted.                          *)
RightLimit ==
  \A t \in Check :
    pc[t] = "decode" => limit = IF Kind[t] = "upload" THEN "number" ELSE "none"

(* An upload beyond the library's limit is never admitted, at whatever     *)
(* moment of another thread's output check it is decoded.                  *)
HugeRefused ==
  \A t \in Check : Kind[t] = "upload" /\ Size[t] = "huge" => result[t] # "ok"

(* Every check ends.                                                       *)
EveryCheckEnds == \A t \in Check : <>(pc[t] = "done")
=============================================================================
