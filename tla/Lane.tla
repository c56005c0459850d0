-------------------------------- MODULE Lane --------------------------------
(***************************************************************************)
(* What the gateway promises of its execution lane, without threads, locks *)
(* or an event loop: at any time at most one job owns the lane, a job owns *)
(* it at most once (the service never replays a request), and whoever owns *)
(* it gives it back.                                                       *)
(***************************************************************************)
CONSTANTS
  Job,      \* the requests that want the lane
  Nobody    \* the holder of a free lane

VARIABLES
  holder,   \* the job that owns the lane, or Nobody
  served    \* the jobs that have owned it

vars == <<holder, served>>

Init == holder = Nobody /\ served = {}

Take(j) ==
  /\ holder = Nobody
  /\ j \notin served
  /\ holder' = j
  /\ UNCHANGED served

Give ==
  /\ holder # Nobody
  /\ holder' = Nobody
  /\ served' = served \cup {holder}

Next == Give \/ \E j \in Job : Take(j)

Spec == Init /\ [][Next]_vars /\ WF_vars(Give)
=============================================================================
