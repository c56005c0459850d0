-------------------------- MODULE GenerationModels --------------------------
(***************************************************************************)
(* GenerationModels of generation_models.py: the parent's side of the one  *)
(* child process that runs generation pipelines.  Request threads call     *)
(* __call__ with a model, the unload route calls unload; both run under    *)
(* one reentrant lock, so what interleaves is a thread's step, the child's *)
(* step, the death of a child, and the health route, which reads without   *)
(* the lock.                                                               *)
(***************************************************************************)
EXTENDS Integers, FiniteSets, GenerationCalls

Process == 1 .. MaxProcess

VARIABLES
  pc,       \* where each call is
  why,      \* why a call is in unload(): asked for, to switch, after a failure
  result,   \* how a call ended
  lock,     \* _lock: the call that holds it, or None
  child,    \* _child: a process, or 0
  channel,  \* the parent's end of the pipe: "none", "open", "closed"
  loaded,   \* loaded_model
  state,    \* what each process is doing
  work,     \* the model a process was last asked for
  holds,    \* the models a process has materialised
  message,  \* the child's answer in the pipe
  kills

vars == <<pc, why, result, lock, child, channel, loaded, state, work, holds, message, kills>>
callVars == <<pc, why, result, lock>>
parentVars == <<child, channel, loaded>>
childVars == <<state, work, holds, message>>

Stages == {"idle", "start", "send", "receive", "stop", "join", "terminate", "done"}
States == {"none", "unstarted", "idle", "busy", "running", "dead"}

Live(p) == state[p] \in {"idle", "busy", "running"}

Init ==
  /\ pc = [c \in Call |-> "idle"]
  /\ why = [c \in Call |-> "asked"]
  /\ result = [c \in Call |-> "none"]
  /\ lock = None
  /\ child = 0 /\ channel = "none" /\ loaded = None
  /\ state = [p \in Process |-> "none"]
  /\ work = [p \in Process |-> None]
  /\ holds = [p \in Process |-> {}]
  /\ message = "none"
  /\ kills = 0

Goto(c, stage) == pc' = [pc EXCEPT ![c] = stage]

\* Mutant: the lock is kept.
EndKeepsLock(c, x) ==
  /\ Goto(c, "done")
  /\ result' = [result EXCEPT ![c] = x]
  /\ UNCHANGED lock

End(c, x) ==
  /\ Goto(c, "done")
  /\ result' = [result EXCEPT ![c] = x]
  /\ lock' = None

Stop(c, reason) ==
  /\ Goto(c, "stop")
  /\ why' = [why EXCEPT ![c] = reason]
  /\ UNCHANGED <<result, lock>>

-----------------------------------------------------------------------------
\* Mutant: a change of model does not unload.
AcquireWithoutSwitch(c) ==
  /\ pc[c] = "idle" /\ lock = None
  /\ lock' = c
  /\ Goto(c, IF Target[c] = Unload THEN "stop" ELSE "start")
  /\ UNCHANGED <<why, result, parentVars, childVars, kills>>

\* Mutant: an unload is sent to the child as if it were a request.
AcquireToStart(c) ==
  /\ pc[c] = "idle" /\ lock = None
  /\ lock' = c
  /\ Goto(c, "start")
  /\ UNCHANGED <<why, result, parentVars, childVars, kills>>

(* __call__ and unload begin: with self._lock.  A call whose model is not  *)
(* the loaded one unloads first, if there is a child.                      *)
Acquire(c) ==
  /\ pc[c] = "idle" /\ lock = None
  /\ lock' = c
  /\ IF Target[c] = Unload THEN Goto(c, "stop") /\ why' = [why EXCEPT ![c] = "asked"]
     ELSE IF child # 0 /\ loaded # Target[c]
       THEN Goto(c, "stop") /\ why' = [why EXCEPT ![c] = "switch"]
       ELSE Goto(c, "start") /\ UNCHANGED why
  /\ UNCHANGED <<result, parentVars, childVars, kills>>

(* _child is assigned before start(), which can fail: the exception leaves *)
(* __call__ before its try block.                                          *)
Start(c) ==
  /\ pc[c] = "start"
  /\ IF child # 0
       THEN Goto(c, "send") /\ UNCHANGED <<why, result, lock, parentVars, childVars>>
       ELSE \E p \in Process :
              /\ state[p] = "none" /\ \A q \in Process : q < p => state[q] # "none"
              /\ child' = p /\ channel' = "open" /\ message' = "none"
              /\ \/ state' = [state EXCEPT ![p] = "idle"]
                    /\ Goto(c, "send") /\ UNCHANGED <<result, lock>>
                 \/ state' = [state EXCEPT ![p] = "unstarted"]
                    /\ End(c, "failed")
              /\ UNCHANGED <<why, loaded, work, holds>>
  /\ UNCHANGED kills

(* channel.send(request): a closed channel or a dead child raises.         *)
Send(c) ==
  /\ pc[c] = "send"
  /\ IF channel = "open" /\ Live(child)
       THEN /\ state' = [state EXCEPT ![child] = "busy"]
            /\ work' = [work EXCEPT ![child] = Target[c]]
            /\ Goto(c, "receive") /\ UNCHANGED <<why, result, lock, holds, message>>
       ELSE Stop(c, "failure") /\ UNCHANGED childVars
  /\ UNCHANGED <<parentVars, kills>>

(* channel.recv(), which has no timeout: an image, an adapter's error, or  *)
(* the end of the pipe of a dead child.                                    *)
Receive(c) ==
  /\ pc[c] = "receive"
  /\ \/ /\ message = "ok"
        /\ loaded' = Target[c]
        /\ End(c, "image") /\ UNCHANGED why
     \/ /\ message = "error" \/ (message = "none" /\ ~Live(child))
        /\ Stop(c, "failure") /\ UNCHANGED loaded
  /\ message' = "none"
  /\ UNCHANGED <<child, channel, state, work, holds, kills>>

-----------------------------------------------------------------------------
(* unload().                                                               *)

\* Mutant: loaded_model is not reset.
ClearedKeepsName(c) ==
  /\ child' = 0 /\ channel' = "none" /\ UNCHANGED loaded
  /\ CASE why[c] = "asked"   -> End(c, "unloaded")
       [] why[c] = "switch"  -> Goto(c, "start") /\ UNCHANGED <<result, lock>>
       [] why[c] = "failure" -> End(c, "failed")
  /\ UNCHANGED why

(* The assignments at its end, and what its caller does next.              *)
Cleared(c) ==
  /\ child' = 0 /\ channel' = "none" /\ loaded' = None
  /\ CASE why[c] = "asked"   -> End(c, "unloaded")
       [] why[c] = "switch"  -> Goto(c, "start") /\ UNCHANGED <<result, lock>>
       [] why[c] = "failure" -> End(c, "failed")
  /\ UNCHANGED why

(* send(None) and close(), whose errors are swallowed.                     *)
CloseChannel(c) ==
  /\ pc[c] = "stop"
  /\ IF child = 0
       THEN Cleared(c)
       ELSE /\ channel' = "closed"
            /\ Goto(c, "join")
            /\ UNCHANGED <<why, result, lock, child, loaded>>
  /\ UNCHANGED <<childVars, kills>>

\* Mutant: a child that has not ended in time is forgotten.
JoinForgets(c) ==
  /\ pc[c] = "join"
  /\ Cleared(c)
  /\ UNCHANGED <<childVars, kills>>

(* join(timeout): the child has ended, or the time has; a process that was *)
(* never started cannot be joined, and the assertion leaves unload().      *)
Join(c) ==
  /\ pc[c] = "join"
  /\ CASE state[child] = "unstarted" -> End(c, "failed") /\ UNCHANGED <<why, parentVars>>
       [] state[child] = "dead" -> Cleared(c)
       [] OTHER -> Goto(c, "terminate") /\ UNCHANGED <<why, result, lock, parentVars>>
  /\ UNCHANGED <<childVars, kills>>

\* Mutant: nobody looks whether the child survived terminate().
TerminateUnchecked(c) ==
  /\ pc[c] = "terminate"
  /\ Cleared(c)
  /\ UNCHANGED <<childVars, kills>>

(* terminate() and a second join: a child that does not die in time leaves *)
(* a RuntimeError, and _child as it was.                                   *)
Terminate(c) ==
  /\ pc[c] = "terminate"
  /\ \/ /\ state' = [state EXCEPT ![child] = "dead"]
        /\ holds' = [holds EXCEPT ![child] = {}]
        /\ Cleared(c)
     \/ /\ Live(child)
        /\ End(c, "failed")
        /\ UNCHANGED <<why, parentVars, state, holds>>
  /\ UNCHANGED <<work, message, kills>>

-----------------------------------------------------------------------------
(* The child, _generation_child.                                           *)

(* The adapter of the requested model builds its pipeline, or has it.      *)
ChildLoads(p) ==
  /\ state[p] = "busy"
  /\ holds' = [holds EXCEPT ![p] = @ \cup {work[p]}]
  /\ state' = [state EXCEPT ![p] = "running"]
  /\ UNCHANGED <<callVars, parentVars, work, message, kills>>

(* It answers with the image or an error; into a closed pipe it cannot,    *)
(* and dies of the exception.                                              *)
ChildAnswers(p) ==
  /\ state[p] \in {"busy", "running"}
  /\ IF channel = "open"
       THEN /\ state' = [state EXCEPT ![p] = "idle"]
            /\ message' \in IF state[p] = "running" THEN {"ok", "error"} ELSE {"error"}
            /\ UNCHANGED holds
       ELSE /\ state' = [state EXCEPT ![p] = "dead"]
            /\ holds' = [holds EXCEPT ![p] = {}]
            /\ UNCHANGED message
  /\ UNCHANGED <<callVars, parentVars, work, kills>>

(* It reads None, or the end of the pipe.                                  *)
ChildExits(p) ==
  /\ state[p] = "idle" /\ channel = "closed"
  /\ state' = [state EXCEPT ![p] = "dead"]
  /\ holds' = [holds EXCEPT ![p] = {}]
  /\ UNCHANGED <<callVars, parentVars, work, message, kills>>

(* It is killed, or runs out of memory, while it builds its adapters or    *)
(* later.                                                                  *)
ChildKilled(p) ==
  /\ Live(p) /\ kills < MaxKills
  /\ kills' = kills + 1
  /\ state' = [state EXCEPT ![p] = "dead"]
  /\ holds' = [holds EXCEPT ![p] = {}]
  /\ UNCHANGED <<callVars, parentVars, work, message>>

Serve(c) ==
  Acquire(c) \/ Start(c) \/ Send(c) \/ Receive(c) \/ CloseChannel(c) \/ Join(c) \/ Terminate(c)

Child(p) == ChildLoads(p) \/ ChildAnswers(p) \/ ChildExits(p)

Idle == (\A c \in Call : pc[c] = "done") /\ UNCHANGED vars

Next ==
  \/ \E c \in Call : Serve(c)
  \/ \E p \in Process : Child(p) \/ ChildKilled(p)
  \/ Idle

(* Threads are scheduled and an inference ends.                            *)
Fairness ==
  /\ \A c \in Call : WF_vars(Serve(c))
  /\ \A p \in Process : WF_vars(Child(p))

Spec == Init /\ [][Next]_vars /\ Fairness

-----------------------------------------------------------------------------
(* Every variable keeps its type.                                          *)
TypeOK ==
  /\ pc \in [Call -> Stages]
  /\ why \in [Call -> {"asked", "switch", "failure"}]
  /\ result \in [Call -> {"none", "image", "unloaded", "failed"}]
  /\ lock \in Call \cup {None}
  /\ child \in Process \cup {0}
  /\ channel \in {"none", "open", "closed"}
  /\ loaded \in Model \cup {None}
  /\ state \in [Process -> States]
  /\ work \in [Process -> Model \cup {None}]
  /\ holds \in [Process -> SUBSET Model]
  /\ message \in {"none", "ok", "error"}
  /\ kills \in 0 .. MaxKills

(* "Own exactly one model child": a process that is alive is the one       *)
(* _child names, whatever failed before, so there is never a second one    *)
(* and none is leaked.                                                     *)
OneChild == \A p \in Process : Live(p) => p = child

(* "Process exit is the cross-model memory boundary": no process ever      *)
(* materialises two models, although it can serve many requests.           *)
OneModelPerChild == \A p \in Process : Cardinality(holds[p]) <= 1

(* GET /health reads loaded_model and the child's liveness without the     *)
(* lock, and still names only the model the child has materialised.        *)
HealthHonest ==
  child # 0 /\ Live(child) /\ loaded # None => holds[child] = {loaded}

(* unload() returns normally only when no process is left; then the peers  *)
(* that asked may load.                                                    *)
UnloadedMeansNoChild ==
  [][\A c \in Call : result[c] = "none" /\ result'[c] = "unloaded"
       => \A p \in Process : ~Live(p)']_vars

(* An image comes from the model that was asked for, and from a child that *)
(* has no other.                                                           *)
ImageOfTarget ==
  [][\A c \in Call : result[c] = "none" /\ result'[c] = "image"
       => work[child] = Target[c] /\ holds[child] \subseteq {Target[c]}]_vars

(* Every call ends: the lock is not lost, even when unload() raises inside *)
(* __call__.                                                               *)
EveryCallEnds == \A c \in Call : <>(pc[c] = "done")

(* recv() has no timeout and the lock is not fair: a call that waits in    *)
(* recv() has an answer in the pipe, or a child that works on one or is    *)
(* dead, which ends the pipe; and the lock is held only by a call that is  *)
(* still going on.                                                         *)
AnswerToCome ==
  /\ \A c \in Call : pc[c] = "receive" =>
       message # "none" \/ state[child] \in {"busy", "running", "dead"}
  /\ lock # None => pc[lock] \notin {"idle", "done"}

Held == UNION {holds[p] : p \in {q \in Process : Live(q)}}

HeldSlot ==
  IF Held = {} THEN None
  ELSE IF \E m \in Model : Held = {m} THEN CHOOSE m \in Model : Held = {m}
  ELSE Many

S == INSTANCE ModelSlot WITH Empty <- None, slot <- HeldSlot

(* GPU memory goes from one model to another only through empty.           *)
ImplementsSlot == S!Spec

M == INSTANCE WorkerMemory WITH Caller <- Call, resident <- Held # {},
       outcome <- result, Skips <- TRUE

(* The worker keeps the account of its memory that Residency relies on: it *)
(* names no model it might not have before one has answered, and another   *)
(* model than the named one is gone before the next is loaded.             *)
GenerationMemory == M!Spec

-----------------------------------------------------------------------------
(* generation_models.py:487 gives the one reason for unload() to fail, "   *)
(* generation model child did not terminate": a call that fails in         *)
(* unload() leaves a live child behind.                                    *)
UnloadFailsOnlyIfAlive ==
  [][\A c \in Call :
       pc[c] \in {"join", "terminate"} /\ why[c] = "asked" /\ result'[c] = "failed"
         => Live(child)']_vars
=============================================================================
