------------------------ MODULE GenerationModels_proofs ------------------------
(***************************************************************************)
(* Proofs about the generation worker's parent and its child, for every    *)
(* set of calls and models, every number of processes and of kills.        *)
(***************************************************************************)
EXTENDS GenerationModels, FiniteSetTheorems, TLAPS

(* A call that has begun and not ended holds the lock.                     *)
Locked == \A c \in Call : pc[c] \notin {"idle", "done"} => lock = c

(* What a process has in memory, and what its parent knows of it.          *)
Children ==
  /\ OneChild
  /\ child = 0 => loaded = None /\ channel = "none"
  /\ child # 0 => state[child] # "none"
  /\ \A p \in Process : Live(p) \/ holds[p] = {}
  /\ \A p \in Process : holds[p] \subseteq {work[p]}
  /\ \A p \in Process : state[p] = "busy" => work[p] # None
  /\ \A p \in Process : state[p] = "running" => work[p] \in holds[p]
  /\ loaded # None => work[child] = loaded /\ (Live(child) => loaded \in holds[child])

(* A call that reaches the child finds one that serves its model already,  *)
(* or a new one.                                                           *)
Served ==
  \A c \in Call :
    /\ pc[c] = "start" /\ child # 0 => loaded = Target[c]
    /\ pc[c] = "send" => \/ loaded = Target[c]
                         \/ loaded = None /\ state[child] \in {"idle", "dead"} /\ holds[child] = {}
    /\ pc[c] = "receive" => work[child] = Target[c]
    /\ pc[c] \in {"send", "receive", "join", "terminate"} => child # 0
    /\ pc[c] \in {"start", "send", "receive"} => Target[c] # Unload
    /\ pc[c] \in {"stop", "join", "terminate"} /\ why[c] = "switch" => Target[c] # Unload

(* There is an answer in the pipe, or one to come, only while its call     *)
(* waits for it.                                                           *)
Expected ==
  /\ message # "none" => \E c \in Call : pc[c] = "receive"
  /\ message = "ok" /\ Live(child) => work[child] \in holds[child]
  /\ channel = "open" /\ state[child] \in {"busy", "running"}
       => message = "none" /\ \E c \in Call : pc[c] = "receive"

IInv == TypeOK /\ Locked /\ Children /\ Served /\ Expected

USE CallAssumption, ManyAssumption, BoundAssumption

LEMMA ProcessTypes == 0 \notin Process /\ \A p \in Process : p \in Nat
BY DEF Process

LEMMA InitInv == Init => IInv
<1> SUFFICES ASSUME Init PROVE IInv
  OBVIOUS
<1>1. TypeOK
  BY DEF Init, TypeOK, Stages, States
<1>2. Locked /\ Served
  BY DEF Init, Locked, Served
<1>3. Children
  BY DEF Init, Children, OneChild, Live
<1>4. Expected
  <2>1. channel = "none" /\ message = "none"
    BY DEF Init
  <2>. QED  BY <2>1 DEF Expected
<1>. QED  BY <1>1, <1>2, <1>3, <1>4 DEF IInv

-----------------------------------------------------------------------------
(* Only one call acts at a time, and it holds the lock.                    *)
LEMMA Alone ==
  ASSUME IInv, NEW c \in Call, pc[c] \notin {"idle", "done"} \/ lock = None
  PROVE  \A d \in Call : d # c => pc[d] \in {"idle", "done"}
BY DEF IInv, Locked

LEMMA AcquireInv ==
  ASSUME IInv, NEW c \in Call, Acquire(c) PROVE IInv'
<1>0. \A d \in Call : d # c => pc[d] \in {"idle", "done"}
  BY Alone DEF Acquire
<1>1. /\ UNCHANGED <<child, channel, loaded, state, work, holds, message, kills, result>>
      /\ pc[c] = "idle" /\ lock' = c
      /\ why' \in [Call -> {"asked", "switch", "failure"}]
  BY DEF Acquire, parentVars, childVars, IInv, TypeOK
<1>2. PICK s \in {"stop", "start"} :
        /\ pc' = [pc EXCEPT ![c] = s]
        /\ s = "start" => Target[c] # Unload /\ (child # 0 => loaded = Target[c])
        /\ s = "stop" => (Target[c] = Unload => why'[c] = "asked")
  BY DEF Acquire, Goto, IInv, TypeOK
<1>3. TypeOK'
  BY <1>1, <1>2 DEF IInv, TypeOK, Stages
<1>4. Locked'
  BY <1>0, <1>1, <1>2 DEF IInv, TypeOK, Locked
<1>5. Children'
  BY <1>1 DEF IInv, Children, OneChild, Live
<1>6. Served'
  BY <1>0, <1>1, <1>2 DEF IInv, TypeOK, Served
<1>7. Expected'
  BY <1>0, <1>1, <1>2 DEF IInv, TypeOK, Expected, Live
<1>. QED  BY <1>3, <1>4, <1>5, <1>6, <1>7 DEF IInv

LEMMA StartInv ==
  ASSUME IInv, NEW c \in Call, Start(c) PROVE IInv'
<1>0. pc[c] = "start" /\ \A d \in Call : d # c => pc[d] \in {"idle", "done"}
  BY Alone DEF Start
<1>1. CASE child # 0
  <2>1. pc' = [pc EXCEPT ![c] = "send"] /\ UNCHANGED <<why, result, lock, parentVars, childVars, kills>>
    BY <1>1 DEF Start, Goto
  <2>. USE DEF parentVars, childVars
  <2>2. TypeOK'
    BY <2>1 DEF IInv, TypeOK, Stages
  <2>3. Locked'
    BY <1>0, <2>1 DEF IInv, TypeOK, Locked
  <2>4. Children'
    BY <2>1 DEF IInv, Children, OneChild, Live
  <2>5. Served'
    BY <1>0, <1>1, <2>1 DEF IInv, TypeOK, Served
  <2>6. Expected'
    BY <1>0, <2>1 DEF IInv, TypeOK, Expected, Live
  <2>. QED  BY <2>2, <2>3, <2>4, <2>5, <2>6 DEF IInv
<1>2. CASE child = 0
  <2>1. PICK p \in Process :
          /\ state[p] = "none" /\ child' = p /\ channel' = "open" /\ message' = "none"
          /\ \/ state' = [state EXCEPT ![p] = "idle"]
                /\ Goto(c, "send") /\ UNCHANGED <<result, lock>>
             \/ state' = [state EXCEPT ![p] = "unstarted"]
                /\ End(c, "failed")
          /\ UNCHANGED <<why, loaded, work, holds, kills>>
    BY <1>2 DEF Start
  <2>2. PICK x \in {"idle", "unstarted"} :
          /\ state' = [state EXCEPT ![p] = x]
          /\ x = "idle" => pc' = [pc EXCEPT ![c] = "send"] /\ UNCHANGED <<result, lock>>
          /\ x = "unstarted" => End(c, "failed")
    BY <2>1 DEF Goto
  <2>3. loaded = None /\ p # 0 /\ holds[p] = {} /\ \A q \in Process : ~Live(q)
    BY <1>2, <2>1, ProcessTypes DEF IInv, Children, OneChild, Live
  <2>4. TypeOK'
    BY <2>1, <2>2 DEF IInv, TypeOK, Stages, States, End, Goto
  <2>5. Locked'
    BY <1>0, <2>2 DEF IInv, TypeOK, Locked, End, Goto
  <2>6. Children'
    BY <2>1, <2>2, <2>3 DEF IInv, TypeOK, Children, OneChild, Live
  <2>7. Served'
    BY <1>0, <2>1, <2>2, <2>3 DEF IInv, TypeOK, Served, End, Goto
  <2>8. Expected'
    BY <2>1, <2>2 DEF IInv, TypeOK, Expected
  <2>. QED  BY <2>4, <2>5, <2>6, <2>7, <2>8 DEF IInv
<1>. QED  BY <1>1, <1>2

(* A request reaches only a child that has no other model.                 *)
LEMMA SendInv ==
  ASSUME IInv, NEW c \in Call, Send(c) PROVE IInv'
<1>0. pc[c] = "send" /\ \A d \in Call : d # c => pc[d] \in {"idle", "done"}
  BY Alone DEF Send
<1>1. child \in Process /\ message = "none" /\ Target[c] \in Model
  BY <1>0 DEF IInv, TypeOK, Served, Expected
<1>2. CASE channel = "open" /\ Live(child)
  <2>1. /\ state' = [state EXCEPT ![child] = "busy"]
        /\ work' = [work EXCEPT ![child] = Target[c]]
        /\ pc' = [pc EXCEPT ![c] = "receive"]
        /\ UNCHANGED <<why, result, lock, holds, message, child, channel, loaded, kills>>
    BY <1>2 DEF Send, Goto, parentVars
  <2>2. TypeOK'
    BY <1>1, <2>1 DEF IInv, TypeOK, Stages, States
  <2>3. Locked'
    BY <1>0, <2>1 DEF IInv, TypeOK, Locked
  <2>4. \A p \in Process : holds[p] \subseteq {work'[p]}
    BY <1>0, <1>1, <2>1 DEF IInv, TypeOK, Children, Served
  <2>5. Children'
    BY <1>0, <1>1, <1>2, <2>1, <2>4 DEF IInv, TypeOK, Children, OneChild, Live, Served
  <2>6. Served'
    BY <1>0, <1>1, <2>1 DEF IInv, TypeOK, Served
  <2>7. Expected'
    BY <1>0, <1>1, <2>1 DEF IInv, TypeOK, Expected
  <2>. QED  BY <2>2, <2>3, <2>5, <2>6, <2>7 DEF IInv
<1>3. CASE ~(channel = "open" /\ Live(child))
  <2>1. /\ pc' = [pc EXCEPT ![c] = "stop"]
        /\ why' = [why EXCEPT ![c] = "failure"]
        /\ UNCHANGED <<result, lock, state, work, holds, message, child, channel, loaded, kills>>
    BY <1>3 DEF Send, Stop, Goto, parentVars, childVars
  <2>2. TypeOK'
    BY <2>1 DEF IInv, TypeOK, Stages
  <2>3. Locked'
    BY <1>0, <2>1 DEF IInv, TypeOK, Locked
  <2>4. Children'
    BY <2>1 DEF IInv, Children, OneChild, Live
  <2>5. Served'
    BY <1>0, <2>1 DEF IInv, TypeOK, Served
  <2>6. Expected'
    BY <1>0, <1>1, <1>3, <2>1 DEF IInv, TypeOK, Expected, Live
  <2>. QED  BY <2>2, <2>3, <2>4, <2>5, <2>6 DEF IInv
<1>. QED  BY <1>2, <1>3

LEMMA ReceiveInv ==
  ASSUME IInv, NEW c \in Call, Receive(c) PROVE IInv'
<1>0. pc[c] = "receive" /\ \A d \in Call : d # c => pc[d] \in {"idle", "done"}
  BY Alone DEF Receive
<1>1. /\ message' = "none" /\ UNCHANGED <<child, channel, state, work, holds, kills>>
      /\ child \in Process /\ work[child] = Target[c] /\ Target[c] \in Model
  BY <1>0 DEF Receive, IInv, TypeOK, Served
<1>2. channel = "open" => state[child] \notin {"busy", "running"}
  BY DEF Receive, IInv, Expected, Live
<1>3. CASE message = "ok" /\ loaded' = Target[c] /\ End(c, "image") /\ UNCHANGED why
  <2>1. TypeOK'
    BY <1>1, <1>3 DEF IInv, TypeOK, Stages, End, Goto
  <2>2. Locked'
    BY <1>0, <1>3 DEF IInv, TypeOK, Locked, End, Goto
  <2>3. Children'
    BY <1>1, <1>3, ProcessTypes DEF IInv, Children, OneChild, Live, Expected
  <2>4. Served'
    BY <1>0, <1>3 DEF IInv, TypeOK, Served, End, Goto
  <2>5. Expected'
    BY <1>1, <1>2 DEF Expected
  <2>. QED  BY <2>1, <2>2, <2>3, <2>4, <2>5 DEF IInv
<1>4. CASE Stop(c, "failure") /\ UNCHANGED loaded
  <2>1. TypeOK'
    BY <1>1, <1>4 DEF IInv, TypeOK, Stages, Stop, Goto
  <2>2. Locked'
    BY <1>0, <1>4 DEF IInv, TypeOK, Locked, Stop, Goto
  <2>3. Children'
    BY <1>1, <1>4 DEF IInv, Children, OneChild, Live
  <2>4. Served'
    BY <1>0, <1>4 DEF IInv, TypeOK, Served, Stop, Goto
  <2>5. Expected'
    BY <1>1, <1>2 DEF Expected
  <2>. QED  BY <2>1, <2>2, <2>3, <2>4, <2>5 DEF IInv
<1>. QED  BY <1>3, <1>4 DEF Receive

-----------------------------------------------------------------------------
(* unload() may forget the child when it is gone.                          *)
LEMMA ClearedInv ==
  ASSUME IInv, NEW c \in Call, pc[c] \in {"stop", "join", "terminate"}, Cleared(c),
         state' \in [Process -> States], holds' \in [Process -> SUBSET Model],
         \A p \in Process : ~Live(p)' /\ holds'[p] = {},
         UNCHANGED <<work, message, kills>>
  PROVE  IInv' /\ \A p \in Process : ~Live(p)'
<1>0. \A d \in Call : d # c => pc[d] \in {"idle", "done"}
  BY Alone
<1>1. child' = 0 /\ channel' = "none" /\ loaded' = None /\ UNCHANGED why
  BY DEF Cleared
<1>2. message = "none"
  BY <1>0 DEF IInv, Expected
<1>3. PICK s \in {"start", "done"} : pc' = [pc EXCEPT ![c] = s]
                 /\ (s = "start" => Target[c] # Unload /\ lock' = lock)
                 /\ (s = "done" => lock' = None)
                 /\ result' \in [Call -> {"none", "image", "unloaded", "failed"}]
  <2>1. CASE why[c] = "asked"
    BY <2>1 DEF Cleared, End, Goto, IInv, TypeOK
  <2>2. CASE why[c] = "switch"
    BY <2>2 DEF Cleared, Goto, IInv, TypeOK, Served
  <2>3. CASE why[c] = "failure"
    BY <2>3 DEF Cleared, End, Goto, IInv, TypeOK
  <2>. QED  BY <2>1, <2>2, <2>3 DEF IInv, TypeOK
<1>4. TypeOK'
  BY <1>1, <1>3 DEF IInv, TypeOK, Stages
<1>5. Locked'
  BY <1>0, <1>3 DEF IInv, TypeOK, Locked
<1>6. Children'
  <2>1. \A p \in Process : state'[p] \notin {"busy", "running"}
    BY DEF Live
  <2>. QED  BY <1>1, <2>1 DEF Children, OneChild
<1>7. Served'
  BY <1>0, <1>1, <1>3 DEF IInv, TypeOK, Served
<1>8. Expected'
  BY <1>1, <1>2 DEF Expected
<1>. QED  BY <1>4, <1>5, <1>6, <1>7, <1>8 DEF IInv

(* Nothing but the call itself changes.                                    *)
LEMMA MovesInv ==
  ASSUME IInv, NEW c \in Call, pc[c] \in {"stop", "join", "terminate"},
         NEW s \in {"join", "terminate", "done"}, pc' = [pc EXCEPT ![c] = s],
         s # "done" => child # 0 /\ lock' = lock,
         s = "done" => lock' = None,
         result' \in [Call -> {"none", "image", "unloaded", "failed"}],
         channel' \in {channel, "closed"}, child = 0 => channel' = channel,
         UNCHANGED <<why, child, loaded, childVars, kills>>
  PROVE  IInv'
<1>0. \A d \in Call : d # c => pc[d] \in {"idle", "done"}
  BY Alone
<1>. USE DEF childVars
<1>1. TypeOK'
  BY DEF IInv, TypeOK, Stages
<1>2. Locked'
  BY <1>0 DEF IInv, TypeOK, Locked
<1>3. Children'
  BY DEF IInv, Children, OneChild, Live
<1>4. Served'
  BY <1>0 DEF IInv, TypeOK, Served
<1>5. Expected'
  <2>1. message = "none" /\ (channel = "open" => state[child] \notin {"busy", "running"})
    BY <1>0 DEF IInv, Expected
  <2>. QED  BY <2>1 DEF Expected
<1>. QED  BY <1>1, <1>2, <1>3, <1>4, <1>5 DEF IInv

LEMMA NoneLives ==
  ASSUME IInv, child = 0 \/ state[child] = "dead"
  PROVE  \A p \in Process : ~Live(p) /\ holds[p] = {}
BY ProcessTypes DEF IInv, Children, OneChild, Live

LEMMA CloseChannelInv ==
  ASSUME IInv, NEW c \in Call, CloseChannel(c) PROVE IInv'
<1>1. CASE child = 0
  <2>1. Cleared(c) /\ UNCHANGED <<state, work, holds, message, kills>>
    BY <1>1 DEF CloseChannel, childVars
  <2>2. \A p \in Process : ~Live(p)' /\ holds'[p] = {}
    BY <1>1, <2>1, NoneLives DEF Live
  <2>. QED  BY <2>1, <2>2, ClearedInv DEF CloseChannel, IInv, TypeOK
<1>2. CASE child # 0
  BY <1>2, MovesInv DEF CloseChannel, Goto, IInv, TypeOK
<1>. QED  BY <1>1, <1>2

LEMMA JoinInv ==
  ASSUME IInv, NEW c \in Call, Join(c) PROVE IInv'
<1>0. pc[c] = "join" /\ child # 0 /\ UNCHANGED <<childVars, kills>>
  BY DEF Join, IInv, Served
<1>1. CASE state[child] = "unstarted"
  <2>1. End(c, "failed") /\ UNCHANGED <<why, parentVars>>
    BY <1>1 DEF Join
  <2>. QED  BY <1>0, <2>1, MovesInv DEF End, Goto, IInv, TypeOK, parentVars
<1>2. CASE state[child] = "dead"
  <2>1. Cleared(c) /\ UNCHANGED <<state, work, holds, message, kills>>
    BY <1>0, <1>2 DEF Join, childVars
  <2>2. \A p \in Process : ~Live(p)' /\ holds'[p] = {}
    BY <1>2, <2>1, NoneLives DEF Live
  <2>. QED  BY <1>0, <2>1, <2>2, ClearedInv DEF IInv, TypeOK
<1>3. CASE state[child] \notin {"unstarted", "dead"}
  <2>1. Goto(c, "terminate") /\ UNCHANGED <<why, result, lock, parentVars>>
    BY <1>3 DEF Join
  <2>. QED  BY <1>0, <2>1, MovesInv DEF Goto, IInv, TypeOK, parentVars
<1>. QED  BY <1>1, <1>2, <1>3

LEMMA TerminateInv ==
  ASSUME IInv, NEW c \in Call, Terminate(c) PROVE IInv'
<1>0. pc[c] = "terminate" /\ child \in Process /\ UNCHANGED <<work, message, kills>>
  BY DEF Terminate, IInv, TypeOK, Served
<1>1. CASE /\ state' = [state EXCEPT ![child] = "dead"]
           /\ holds' = [holds EXCEPT ![child] = {}]
           /\ Cleared(c)
  <2>1. \A p \in Process : ~Live(p)' /\ holds'[p] = {}
    BY <1>0, <1>1 DEF IInv, TypeOK, Children, OneChild, Live
  <2>2. state' \in [Process -> States] /\ holds' \in [Process -> SUBSET Model]
    BY <1>0, <1>1 DEF IInv, TypeOK, States
  <2>. QED  BY <1>0, <1>1, <2>1, <2>2, ClearedInv
<1>2. CASE /\ End(c, "failed")
           /\ UNCHANGED <<why, parentVars, state, holds>>
  BY <1>0, <1>2, MovesInv DEF End, Goto, IInv, TypeOK, parentVars, childVars
<1>. QED  BY <1>1, <1>2 DEF Terminate

-----------------------------------------------------------------------------
(* The child.  A process that acts is alive, hence the one _child names.   *)
LEMMA Acting ==
  ASSUME IInv, NEW p \in Process, Live(p)
  PROVE  p = child
BY DEF IInv, Children, OneChild

LEMMA ChildLoadsInv ==
  ASSUME IInv, NEW p \in Process, ChildLoads(p) PROVE IInv'
<1>0. p = child /\ Live(p)
  BY Acting DEF ChildLoads, Live
<1>1. /\ state[p] = "busy" /\ state' = [state EXCEPT ![p] = "running"]
      /\ holds' = [holds EXCEPT ![p] = holds[p] \cup {work[p]}]
      /\ UNCHANGED <<callVars, parentVars, work, message, kills>>
  BY DEF ChildLoads
<1>. USE DEF callVars, parentVars
<1>2. work[p] \in Model
  BY <1>0, <1>1 DEF IInv, TypeOK, Children
<1>3. TypeOK'
  BY <1>1, <1>2 DEF IInv, TypeOK, States
<1>4. Locked'
  BY <1>1 DEF IInv, Locked
<1>5. Children'
  BY <1>0, <1>1 DEF IInv, TypeOK, Children, OneChild, Live
<1>6. Served'
  BY <1>0, <1>1 DEF IInv, TypeOK, Served
<1>7. Expected'
  BY <1>0, <1>1 DEF IInv, TypeOK, Expected, Live
<1>. QED  BY <1>3, <1>4, <1>5, <1>6, <1>7 DEF IInv

(* A process ends, and its memory with it.                                 *)
LEMMA DeathInv ==
  ASSUME IInv, NEW p \in Process, Live(p),
         state' = [state EXCEPT ![p] = "dead"],
         holds' = [holds EXCEPT ![p] = {}],
         kills' \in 0 .. MaxKills,
         UNCHANGED <<callVars, parentVars, work, message>>
  PROVE  IInv'
<1>0. p = child
  BY Acting
<1>. USE DEF callVars, parentVars
<1>1. TypeOK'
  BY DEF IInv, TypeOK, States
<1>2. Locked'
  BY DEF IInv, Locked
<1>3. Children'
  BY <1>0 DEF IInv, TypeOK, Children, OneChild, Live
<1>4. Served'
  BY <1>0 DEF IInv, TypeOK, Served
<1>5. Expected'
  BY <1>0 DEF IInv, TypeOK, Expected, Live
<1>. QED  BY <1>1, <1>2, <1>3, <1>4, <1>5 DEF IInv

LEMMA ChildAnswersInv ==
  ASSUME IInv, NEW p \in Process, ChildAnswers(p) PROVE IInv'
<1>0. p = child /\ Live(p)
  BY Acting DEF ChildAnswers, Live
<1>1. CASE channel = "open"
  <2>1. /\ state[p] \in {"busy", "running"} /\ state' = [state EXCEPT ![p] = "idle"]
        /\ message' \in {"ok", "error"}
        /\ message' = "ok" => state[p] = "running"
        /\ UNCHANGED <<callVars, parentVars, work, holds, kills>>
    BY <1>1 DEF ChildAnswers
  <2>. USE DEF callVars, parentVars
  <2>2. TypeOK'
    BY <2>1 DEF IInv, TypeOK, States
  <2>3. Locked'
    BY <2>1 DEF IInv, Locked
  <2>4. Children'
    BY <1>0, <2>1 DEF IInv, TypeOK, Children, OneChild, Live
  <2>5. Served'
    BY <1>0, <2>1 DEF IInv, TypeOK, Served
  <2>6. Expected'
    BY <1>0, <1>1, <2>1 DEF IInv, TypeOK, Expected, Children
  <2>. QED  BY <2>2, <2>3, <2>4, <2>5, <2>6 DEF IInv
<1>2. CASE channel # "open"
  BY <1>0, <1>2, DeathInv DEF ChildAnswers, IInv, TypeOK
<1>. QED  BY <1>1, <1>2

LEMMA ChildExitsInv ==
  ASSUME IInv, NEW p \in Process, ChildExits(p) \/ ChildKilled(p) PROVE IInv'
<1>1. Live(p)
  BY DEF ChildExits, ChildKilled, Live
<1>2. kills' \in 0 .. MaxKills
  BY DEF ChildExits, ChildKilled, IInv, TypeOK
<1>. QED  BY <1>1, <1>2, DeathInv DEF ChildExits, ChildKilled

LEMMA NextInv ==
  ASSUME IInv, [Next]_vars PROVE IInv'
<1>1. ASSUME NEW c \in Call, Serve(c) PROVE IInv'
  BY <1>1, AcquireInv, StartInv, SendInv, ReceiveInv, CloseChannelInv, JoinInv, TerminateInv
     DEF Serve
<1>2. ASSUME NEW p \in Process, Child(p) \/ ChildKilled(p) PROVE IInv'
  BY <1>2, ChildLoadsInv, ChildAnswersInv, ChildExitsInv DEF Child
<1>3. CASE UNCHANGED vars
  <2>. USE DEF vars
  <2>1. TypeOK' /\ Locked'
    BY <1>3 DEF IInv, TypeOK, Locked
  <2>2. Children' /\ Served' /\ Expected'
    BY <1>3 DEF IInv, Children, OneChild, Live, Served, Expected
  <2>. QED  BY <2>1, <2>2 DEF IInv
<1>. QED  BY <1>1, <1>2, <1>3 DEF Next, Idle

-----------------------------------------------------------------------------
(* The inductive invariant holds in every reachable state.                 *)
THEOREM Invariant == Spec => []IInv
BY InitInv, NextInv, PTL DEF Spec

(* Every variable keeps its type.                                          *)
THEOREM TypeCorrect == Spec => []TypeOK
<1>1. IInv => TypeOK
  BY DEF IInv
<1>. QED  BY <1>1, Invariant, PTL

(* No process but the one _child names is alive.                           *)
THEOREM ChildUnique == Spec => []OneChild
<1>1. IInv => OneChild
  BY DEF IInv, Children
<1>. QED  BY <1>1, Invariant, PTL

(* No process ever has two models in memory.                               *)
THEOREM MemoryBoundary == Spec => []OneModelPerChild
<1>1. IInv => OneModelPerChild
  <2>1. SUFFICES ASSUME IInv, NEW p \in Process PROVE Cardinality(holds[p]) <= 1
    BY DEF OneModelPerChild
  <2>2. holds[p] = {} \/ holds[p] = {work[p]}
    BY <2>1 DEF IInv, Children
  <2>3. Cardinality({}) = 0 /\ Cardinality({work[p]}) = 1
    BY FS_EmptySet, FS_Singleton
  <2>. QED  BY <2>2, <2>3
<1>. QED  BY <1>1, Invariant, PTL

(* The health route names only what the child has in memory.               *)
THEOREM HealthTrue == Spec => []HealthHonest
<1>1. IInv => HealthHonest
  <2>1. SUFFICES ASSUME IInv, child # 0, Live(child), loaded # None PROVE holds[child] = {loaded}
    BY DEF HealthHonest
  <2>. QED  BY <2>1 DEF IInv, TypeOK, Children
<1>. QED  BY <1>1, Invariant, PTL

(* A call ends in one of the steps that give it a result.                  *)
LEMMA Unloaded ==
  ASSUME IInv, NEW c \in Call, Serve(c), NEW d \in Call,
         result[d] = "none", result'[d] = "unloaded"
  PROVE  \A p \in Process : ~Live(p)'
<1>1. \A x : End(c, x) => result' = [result EXCEPT ![c] = x]
  BY DEF End
<1>2. Cleared(c) => child' = 0
  BY DEF Cleared
<1>3. child' = 0
  <2>1. CASE Acquire(c)
    BY <2>1 DEF Acquire
  <2>2. CASE Start(c)
    BY <1>1, <2>2 DEF Start, IInv, TypeOK
  <2>3. CASE Send(c)
    BY <2>3 DEF Send, Stop
  <2>4. CASE Receive(c)
    BY <1>1, <2>4 DEF Receive, Stop, IInv, TypeOK
  <2>5. CASE CloseChannel(c)
    BY <1>2, <2>5 DEF CloseChannel
  <2>6. CASE Join(c)
    BY <1>1, <1>2, <2>6 DEF Join, IInv, TypeOK
  <2>7. CASE Terminate(c)
    BY <1>1, <1>2, <2>7 DEF Terminate, IInv, TypeOK
  <2>. QED  BY <2>1, <2>2, <2>3, <2>4, <2>5, <2>6, <2>7 DEF Serve
<1>4. IInv'
  BY NextInv DEF Next
<1>. QED  BY <1>3, <1>4, ProcessTypes DEF IInv, Children, OneChild

(* Only a call's own steps give it a result.                               *)
LEMMA ResultKept ==
  ASSUME Next, ~(\E c \in Call : Serve(c)) PROVE result' = result
<1>1. ASSUME NEW p \in Process, Child(p) \/ ChildKilled(p) PROVE result' = result
  BY <1>1 DEF Child, ChildKilled, ChildLoads, ChildAnswers, ChildExits, callVars
<1>2. Idle => result' = result
  BY DEF Idle, vars
<1>. QED  BY <1>1, <1>2 DEF Next

(* unload() returns normally only when no process is left.                 *)
THEOREM UnloadLeavesNothing == Spec => UnloadedMeansNoChild
<1>1. IInv /\ [Next]_vars =>
        [\A c \in Call : result[c] = "none" /\ result'[c] = "unloaded"
           => \A p \in Process : ~Live(p)']_vars
  <2>1. SUFFICES ASSUME IInv, Next, NEW c \in Call,
                        result[c] = "none", result'[c] = "unloaded"
                 PROVE  \A p \in Process : ~Live(p)'
    OBVIOUS
  <2>. QED  BY <2>1, ResultKept, Unloaded
<1>. QED  BY <1>1, Invariant, PTL DEF Spec, UnloadedMeansNoChild

LEMMA Imaged ==
  ASSUME IInv, NEW c \in Call, Serve(c), NEW d \in Call,
         result[d] = "none", result'[d] = "image"
  PROVE  work[child] = Target[d] /\ holds[child] \subseteq {Target[d]}
<1>1. \A x : End(c, x) => result' = [result EXCEPT ![c] = x]
  BY DEF End
<1>2. Cleared(c) => result'[d] # "image"
  <2>1. SUFFICES ASSUME Cleared(c) PROVE result'[d] # "image"
    OBVIOUS
  <2>2. UNCHANGED result \/ End(c, "unloaded") \/ End(c, "failed")
    BY <2>1 DEF Cleared, IInv, TypeOK
  <2>. QED  BY <1>1, <2>2 DEF IInv, TypeOK
<1>3. d = c /\ pc[c] = "receive"
  <2>1. CASE Acquire(c)
    BY <2>1 DEF Acquire
  <2>2. CASE Start(c)
    BY <1>1, <2>2 DEF Start, IInv, TypeOK
  <2>3. CASE Send(c)
    BY <2>3 DEF Send, Stop
  <2>4. CASE Receive(c)
    BY <1>1, <2>4 DEF Receive, Stop, IInv, TypeOK
  <2>5. CASE CloseChannel(c)
    BY <1>2, <2>5 DEF CloseChannel
  <2>6. CASE Join(c)
    BY <1>1, <1>2, <2>6 DEF Join, IInv, TypeOK
  <2>7. CASE Terminate(c)
    BY <1>1, <1>2, <2>7 DEF Terminate, IInv, TypeOK
  <2>. QED  BY <2>1, <2>2, <2>3, <2>4, <2>5, <2>6, <2>7 DEF Serve
<1>. QED  BY <1>3 DEF IInv, TypeOK, Served, Children

(* An image comes from the model that was asked for.                       *)
THEOREM ImageRight == Spec => ImageOfTarget
<1>1. IInv /\ [Next]_vars =>
        [\A c \in Call : result[c] = "none" /\ result'[c] = "image"
           => work[child] = Target[c] /\ holds[child] \subseteq {Target[c]}]_vars
  BY Imaged, ResultKept
<1>. QED  BY <1>1, Invariant, PTL DEF Spec, ImageOfTarget

-----------------------------------------------------------------------------
(* GPU memory seen from outside: that of the child, which is at most one   *)
(* model.                                                                  *)
LEMMA SlotOfChild ==
  IInv => /\ Held = IF child # 0 THEN holds[child] ELSE {}
          /\ Held = {} => HeldSlot = None
          /\ Held # {} => HeldSlot \in Model
<1>. SUFFICES ASSUME IInv
              PROVE  /\ Held = IF child # 0 THEN holds[child] ELSE {}
                     /\ Held = {} => HeldSlot = None
                     /\ Held # {} => HeldSlot \in Model
  OBVIOUS
<1>1. CASE child = 0
  <2>1. Held = {}
    BY <1>1, ProcessTypes DEF Held, IInv, Children, OneChild
  <2>. QED  BY <1>1, <2>1 DEF HeldSlot
<1>2. CASE child # 0
  <2>0. child \in Process
    BY <1>2 DEF IInv, TypeOK
  <2>1. Held = holds[child]
    <3>1. CASE Live(child)
      <4>1. {q \in Process : Live(q)} = {child}
        BY <2>0, <3>1 DEF IInv, Children, OneChild
      <4>2. {holds[p] : p \in {q \in Process : Live(q)}} = {holds[child]}
        BY <4>1
      <4>. QED  BY <4>2 DEF Held
    <3>2. CASE ~Live(child)
      <4>1. {q \in Process : Live(q)} = {}
        BY <3>2 DEF IInv, Children, OneChild
      <4>. QED  BY <2>0, <3>2, <4>1 DEF Held, IInv, Children
    <3>. QED  BY <3>1, <3>2
  <2>2. holds[child] = {} \/ (holds[child] = {work[child]} /\ work[child] \in Model)
    BY <2>0 DEF IInv, TypeOK, Children
  <2>3. ASSUME Held = {work[child]}, work[child] \in Model PROVE HeldSlot = work[child]
    <3>1. \E m \in Model : Held = {m}
      BY <2>3
    <3>2. HeldSlot = CHOOSE m \in Model : Held = {m}
      BY <2>3, <3>1 DEF HeldSlot
    <3>3. \A m \in Model : Held = {m} => m = work[child]
      BY <2>3
    <3>. QED  BY <3>1, <3>2, <3>3
  <2>4. Held = {} => HeldSlot = None
    BY DEF HeldSlot
  <2>. QED  BY <1>2, <2>1, <2>2, <2>3, <2>4
<1>. QED  BY <1>1, <1>2

(* A step that changes what is held empties it or, when nothing is held,   *)
(* fills it.                                                               *)
LEMMA HeldSteps ==
  ASSUME IInv, [Next]_vars
  PROVE  Held' = Held \/ Held' = {} \/ Held = {}
<1>0. IInv'
  BY NextInv
<1>1. (Held = IF child # 0 THEN holds[child] ELSE {}) /\ (Held' = IF child' # 0 THEN holds'[child'] ELSE {})
  <2>1. (IInv => /\ Held = IF child # 0 THEN holds[child] ELSE {}
                 /\ Held = {} => HeldSlot = None
                 /\ Held # {} => HeldSlot \in Model)'
    BY SlotOfChild, PTL
  <2>. QED  BY <1>0, <2>1, SlotOfChild
<1>2. CASE UNCHANGED <<child, holds>>
  BY <1>1, <1>2
<1>3. CASE child' = 0
  BY <1>1, <1>3
<1>4. CASE child = 0
  BY <1>1, <1>4
<1>5. ASSUME NEW c \in Call, Serve(c) PROVE UNCHANGED <<child, holds>> \/ child' = 0 \/ child = 0
  <2>1. Cleared(c) => child' = 0
    BY DEF Cleared
  <2>2. CASE Acquire(c) \/ Send(c) \/ Receive(c)
    BY <2>2 DEF Acquire, Send, Receive, parentVars, childVars
  <2>3. CASE Start(c)
    BY <2>3 DEF Start, parentVars, childVars
  <2>4. CASE CloseChannel(c) \/ Join(c)
    BY <2>1, <2>4 DEF CloseChannel, Join, childVars, parentVars
  <2>5. CASE Terminate(c)
    BY <2>1, <2>5 DEF Terminate, parentVars
  <2>. QED  BY <1>5, <2>2, <2>3, <2>4, <2>5 DEF Serve
<1>6. ASSUME NEW p \in Process, Child(p) \/ ChildKilled(p) PROVE Held' = Held \/ Held' = {} \/ Held = {}
  <2>1. p = child /\ child' = child /\ p # 0
    BY <1>6, Acting, ProcessTypes DEF Child, ChildKilled, ChildLoads, ChildAnswers, ChildExits, parentVars, Live
  <2>2. CASE ChildLoads(p)
    <3>1. holds'[p] = holds[p] \cup {work[p]} /\ holds[p] \subseteq {work[p]}
      BY <2>2 DEF ChildLoads, IInv, TypeOK, Children
    <3>2. holds'[p] = holds[p] \/ holds[p] = {}
      BY <3>1
    <3>. QED  BY <1>1, <2>1, <3>2
  <2>3. CASE ChildAnswers(p) \/ ChildExits(p) \/ ChildKilled(p)
    <3>1. holds' = holds \/ holds'[p] = {}
      BY <2>3 DEF ChildAnswers, ChildExits, ChildKilled, IInv, TypeOK
    <3>. QED  BY <1>1, <2>1, <3>1
  <2>. QED  BY <1>6, <2>2, <2>3 DEF Child
<1>7. CASE UNCHANGED vars
  BY <1>2, <1>7 DEF vars
<1>. QED  BY <1>2, <1>3, <1>4, <1>5, <1>6, <1>7 DEF Next, Idle

(* The worker implements the slot: its memory goes from one model to       *)
(* another only through empty.                                             *)
THEOREM Refinement == Spec => ImplementsSlot
<1>1. Init => S!Init
  <2>1. SUFFICES ASSUME Init PROVE HeldSlot = None
    BY DEF S!Init
  <2>2. \A p \in Process : ~Live(p)
    <3>1. \A p \in Process : state[p] = "none"
      BY <2>1 DEF Init
    <3>. QED  BY <3>1 DEF Live
  <2>3. Held = {}
    BY <2>2 DEF Held
  <2>. QED  BY <2>3 DEF HeldSlot
<1>2. IInv /\ [Next]_vars => [S!Next]_HeldSlot
  <2>1. SUFFICES ASSUME IInv, [Next]_vars, HeldSlot' # HeldSlot PROVE S!Next
    OBVIOUS
  <2>2. IInv'
    BY <2>1, NextInv
  <2>3. (IInv => /\ Held = IF child # 0 THEN holds[child] ELSE {}
                 /\ Held = {} => HeldSlot = None
                 /\ Held # {} => HeldSlot \in Model)'
    BY SlotOfChild, PTL
  <2>4. /\ Held = {} => HeldSlot = None
        /\ Held # {} => HeldSlot \in Model
    BY <2>1, SlotOfChild
  <2>5. Held' = Held => HeldSlot' = HeldSlot
    BY DEF HeldSlot
  <2>6. CASE Held = {}
    <3>1. HeldSlot = None /\ HeldSlot' \in Model
      BY <2>1, <2>2, <2>3, <2>4, <2>5, <2>6
    <3>. QED  BY <3>1 DEF S!Next, S!Load
  <2>7. CASE Held # {} /\ Held' = {}
    <3>1. HeldSlot \in Model /\ HeldSlot' = None
      BY <2>2, <2>3, <2>4, <2>7
    <3>. QED  BY <3>1 DEF S!Next, S!Drop
  <2>. QED  BY <2>1, <2>5, <2>6, <2>7, HeldSteps
<1>. QED  BY <1>1, <1>2, Invariant, PTL DEF Spec, ImplementsSlot, S!Spec

-----------------------------------------------------------------------------
(* What the account of the worker's memory adds to the invariant: only a   *)
(* call that has ended has a result, the name is none or that of the model *)
(* being used, and a child works only for the call that waits for it.      *)
Pending == \A c \in Call : pc[c] # "done" => result[c] = "none"

Named ==
  \A c \in Call :
    /\ pc[c] \in {"send", "receive"} => loaded \in {None, Target[c]}
    /\ pc[c] \in {"stop", "join", "terminate"} =>
         /\ why[c] = "asked" => Target[c] = Unload
         /\ why[c] = "switch" => loaded # Target[c]

Awaited ==
  /\ \A c \in Call : pc[c] = "receive" => channel = "open"
  /\ child # 0 /\ state[child] \in {"busy", "running"} => \E c \in Call : pc[c] = "receive"

MInv == IInv /\ Pending /\ Named /\ Awaited

(* A call's step concerns no other call.                                   *)
LEMMA CallFrame ==
  ASSUME IInv, NEW c \in Call, Serve(c)
  PROVE  /\ \A d \in Call : d # c => /\ pc[d] \in {"idle", "done"} /\ pc'[d] = pc[d]
                                       /\ result'[d] = result[d] /\ why'[d] = why[d]
         /\ pc[c] # "done" /\ (pc'[c] = "done" \/ result'[c] = result[c])
<1>0. \A d \in Call : d # c => pc[d] \in {"idle", "done"}
  BY Alone DEF Serve, Acquire, Start, Send, Receive, CloseChannel, Join, Terminate
<1>. USE DEF IInv, TypeOK, Goto, End, Stop
<1>1. CASE Acquire(c) \/ Start(c) \/ Send(c) \/ Receive(c)
  BY <1>0, <1>1 DEF Acquire, Start, Send, Receive
<1>2. ASSUME Cleared(c)
      PROVE  /\ \A d \in Call : d # c => pc'[d] = pc[d] /\ result'[d] = result[d] /\ why'[d] = why[d]
             /\ pc'[c] = "done" \/ result'[c] = result[c]
  BY <1>2 DEF Cleared
<1>3. CASE CloseChannel(c) \/ Join(c) \/ Terminate(c)
  BY <1>0, <1>2, <1>3 DEF CloseChannel, Join, Terminate
<1>. QED  BY <1>1, <1>3 DEF Serve

LEMMA NamedStep ==
  ASSUME MInv, NEW c \in Call, Serve(c)
  PROVE  Named'
<1>0. \A d \in Call : d # c => pc'[d] \in {"idle", "done"}
  BY CallFrame DEF MInv
<1>. SUFFICES /\ pc'[c] \in {"send", "receive"} => loaded' \in {None, Target[c]}
              /\ pc'[c] \in {"stop", "join", "terminate"} =>
                   /\ why'[c] = "asked" => Target[c] = Unload
                   /\ why'[c] = "switch" => loaded' # Target[c]
  BY <1>0 DEF Named
<1>. USE DEF MInv, IInv, TypeOK, Goto, End, Stop, parentVars
<1>1. CASE Acquire(c)
  BY <1>1 DEF Acquire
<1>2. CASE Start(c)
  BY <1>2 DEF Start, Served, Children
<1>3. CASE Send(c) \/ Receive(c)
  BY <1>3 DEF Send, Receive, Named
<1>4. Cleared(c) => pc'[c] \in {"start", "done"}
  BY DEF Cleared
<1>5. CASE CloseChannel(c) \/ Join(c) \/ Terminate(c)
  BY <1>4, <1>5 DEF CloseChannel, Join, Terminate, Named
<1>. QED  BY <1>1, <1>2, <1>3, <1>5 DEF Serve

LEMMA AwaitedStep ==
  ASSUME MInv, NEW c \in Call, Serve(c)
  PROVE  Awaited'
<1>0. \A d \in Call : d # c => pc[d] \in {"idle", "done"} /\ pc'[d] \in {"idle", "done"}
  BY CallFrame DEF MInv
<1>. USE DEF MInv, IInv, TypeOK, Goto, End, Stop, parentVars, childVars
<1>1. pc[c] # "receive" => child = 0 \/ state[child] \notin {"busy", "running"}
  BY <1>0 DEF Awaited
<1>2. CASE Acquire(c)
  BY <1>0, <1>1, <1>2 DEF Acquire, Awaited
<1>3. CASE Start(c)
  BY <1>0, <1>1, <1>3 DEF Start, Awaited
<1>4. CASE Send(c)
  BY <1>0, <1>1, <1>4 DEF Send, Awaited
<1>5. CASE Receive(c)
  <2>1. channel = "open" /\ pc[c] = "receive" /\ child' = child /\ state' = state
    BY <1>5 DEF Receive, Awaited
  <2>2. message # "none" \/ ~Live(child)
    BY <1>5 DEF Receive
  <2>3. state[child] \notin {"busy", "running"}
    BY <2>1, <2>2 DEF Expected, Live
  <2>4. pc'[c] # "receive"
    BY <1>5 DEF Receive
  <2>. QED  BY <1>0, <2>1, <2>3, <2>4 DEF Awaited
<1>6. Cleared(c) => child' = 0 /\ pc'[c] # "receive"
  BY DEF Cleared
<1>7. CASE CloseChannel(c) \/ Join(c) \/ Terminate(c)
  <2>1. \/ child' = 0 /\ pc'[c] # "receive"
        \/ UNCHANGED <<child, state>> /\ pc'[c] # "receive" /\ pc[c] # "receive"
    BY <1>6, <1>7 DEF CloseChannel, Join, Terminate
  <2>. QED  BY <1>0, <1>1, <2>1 DEF Awaited
<1>. QED  BY <1>2, <1>3, <1>4, <1>5, <1>7 DEF Serve

LEMMA MNext == MInv /\ [Next]_vars => MInv'
<1>. SUFFICES ASSUME MInv, [Next]_vars PROVE MInv'
  OBVIOUS
<1>0. IInv'
  BY NextInv DEF MInv
<1>1. ASSUME NEW c \in Call, Serve(c) PROVE MInv'
  <2>1. Pending'
    BY <1>1, CallFrame DEF MInv, Pending
  <2>. QED  BY <1>0, <1>1, <2>1, NamedStep, AwaitedStep DEF MInv
<1>2. ASSUME NEW p \in Process, Child(p) \/ ChildKilled(p) PROVE MInv'
  <2>1. UNCHANGED <<pc, why, result, lock, child, channel, loaded>>
    BY <1>2 DEF Child, ChildKilled, ChildLoads, ChildAnswers, ChildExits, callVars, parentVars
  <2>2. p = child
    BY <1>2, Acting DEF MInv, Child, ChildKilled, ChildLoads, ChildAnswers, ChildExits, Live
  <2>3. state'[child] \in {"busy", "running"} => state[child] \in {"busy", "running"}
    BY <1>2, <2>2 DEF Child, ChildKilled, ChildLoads, ChildAnswers, ChildExits, MInv, IInv, TypeOK
  <2>4. Pending' /\ Named'
    BY <2>1 DEF MInv, Pending, Named
  <2>5. Awaited'
    BY <2>1, <2>3 DEF MInv, Awaited
  <2>. QED  BY <1>0, <2>4, <2>5 DEF MInv
<1>3. CASE UNCHANGED vars
  BY <1>0, <1>3 DEF vars, MInv, Pending, Named, Awaited
<1>. QED  BY <1>1, <1>2, <1>3 DEF Next, Idle

(* In the states before and after a step, what is held is the child's.     *)
LEMMA HeldOfChild ==
  ASSUME IInv, [Next]_vars
  PROVE  /\ Held = IF child # 0 THEN holds[child] ELSE {}
         /\ Held' = IF child' # 0 THEN holds'[child'] ELSE {}
<1>1. IInv'
  BY NextInv
<1>2. (IInv => /\ Held = IF child # 0 THEN holds[child] ELSE {}
               /\ Held = {} => HeldSlot = None
               /\ Held # {} => HeldSlot \in Model)'
  BY SlotOfChild, PTL
<1>. QED  BY <1>1, <1>2, SlotOfChild

(* The end of unload() ends the call or makes room for another model.      *)
LEMMA ClearedStep ==
  ASSUME MInv, NEW c \in Call, pc[c] \in {"stop", "join", "terminate"}, Cleared(c), Held' = {}
  PROVE  M!Next
<1>0. lock = c /\ result[c] = "none" /\ loaded' = None
  BY DEF MInv, IInv, Locked, Pending, Cleared
<1>1. \A x : End(c, x) => M!Leave(c, x)
  BY <1>0 DEF End, M!Leave
<1>2. CASE why[c] = "asked"
  <2>1. End(c, "unloaded") /\ Target[c] = Unload
    BY <1>2 DEF Cleared, MInv, Named
  <2>. QED  BY <1>0, <1>1, <2>1 DEF M!Next, M!Unloaded, M!Serves
<1>3. CASE why[c] = "switch"
  <2>1. UNCHANGED <<result, lock>> /\ Target[c] # Unload /\ loaded # Target[c]
    BY <1>3 DEF Cleared, MInv, IInv, Named, Served
  <2>. QED  BY <1>0, <2>1 DEF M!Next, M!Replace, M!Serves
<1>4. CASE why[c] = "failure"
  <2>1. End(c, "failed")
    BY <1>4 DEF Cleared
  <2>. QED  BY <1>0, <1>1, <2>1 DEF M!Next, M!Fail
<1>. QED  BY <1>2, <1>3, <1>4 DEF MInv, IInv, TypeOK

LEMMA MemoryStep ==
  ASSUME MInv, NEW c \in Call, Serve(c)
  PROVE  [M!Next]_(M!vars)
<1>. IInv /\ Next
  BY DEF MInv, Next
<1>0. /\ Held = IF child # 0 THEN holds[child] ELSE {}
      /\ Held' = IF child' # 0 THEN holds'[child'] ELSE {}
  BY HeldOfChild
<1>1. ASSUME pc[c] \notin {"idle", "done"}, NEW x, End(c, x)
      PROVE  M!Leave(c, x)
  BY <1>1 DEF End, M!Leave, MInv, IInv, Locked, Pending
<1>. USE DEF parentVars, childVars, M!vars
<1>2. ASSUME UNCHANGED <<child, holds>>
      PROVE  Held' = Held
  BY <1>0, <1>2
<1>3. CASE Acquire(c)
  <2>1. /\ lock = None /\ result[c] = "none" /\ lock' = c /\ UNCHANGED <<result, loaded>>
        /\ Held' = Held
    BY <1>2, <1>3 DEF Acquire, MInv, Pending
  <2>. QED  BY <2>1 DEF M!Next, M!TakeLock
<1>4. CASE Start(c)
  <2>1. CASE child # 0
    <3>1. UNCHANGED <<result, lock, loaded, child, holds>>
      BY <1>4, <2>1 DEF Start
    <3>. QED  BY <1>2, <3>1
  <2>2. CASE child = 0
    <3>1. \A p \in Process : holds[p] = {}
      BY <2>2, NoneLives
    <3>2. /\ pc[c] = "start" /\ child' \in Process /\ UNCHANGED <<loaded, holds>>
          /\ UNCHANGED <<result, lock>> \/ End(c, "failed")
      BY <1>4, <2>2 DEF Start
    <3>3. Held = {} /\ Held' = {}
      BY <1>0, <2>2, <3>1, <3>2
    <3>. QED  BY <1>1, <3>2, <3>3 DEF M!Next, M!Fail
  <2>. QED  BY <2>1, <2>2
<1>5. CASE Send(c)
  <2>1. UNCHANGED <<result, lock, loaded, child, holds>>
    BY <1>5 DEF Send, Stop
  <2>. QED  BY <1>2, <2>1
<1>6. CASE Receive(c)
  <2>1. Held' = Held /\ pc[c] = "receive" /\ Target[c] # Unload
    BY <1>2, <1>6 DEF Receive, MInv, IInv, Served
  <2>2. CASE End(c, "image") /\ loaded' = Target[c]
    BY <1>1, <2>1, <2>2 DEF M!Next, M!Finish, M!Serves
  <2>3. CASE UNCHANGED <<result, lock, loaded>>
    BY <2>1, <2>3
  <2>. QED  BY <1>6, <2>2, <2>3 DEF Receive, Stop
<1>7. ASSUME Cleared(c), pc[c] \in {"stop", "join", "terminate"} PROVE M!Next
  BY <1>0, <1>7, ClearedStep DEF Cleared
<1>8. CASE CloseChannel(c) \/ Join(c)
  <2>1. /\ pc[c] \in {"stop", "join"}
        /\ \/ Cleared(c)
           \/ UNCHANGED <<result, lock, loaded, child, holds>>
           \/ End(c, "failed") /\ UNCHANGED <<loaded, child, holds>>
    BY <1>8 DEF CloseChannel, Join
  <2>. QED  BY <1>1, <1>2, <1>7, <2>1 DEF M!Next, M!Fail
<1>9. CASE Terminate(c)
  <2>1. /\ pc[c] = "terminate"
        /\ Cleared(c) \/ (End(c, "failed") /\ UNCHANGED <<loaded, child, holds>>)
    BY <1>9 DEF Terminate
  <2>. QED  BY <1>1, <1>2, <1>7, <2>1 DEF M!Next, M!Fail
<1>. QED  BY <1>3, <1>4, <1>5, <1>6, <1>8, <1>9 DEF Serve

LEMMA ChildStep ==
  ASSUME MInv, NEW p \in Process, Child(p) \/ ChildKilled(p)
  PROVE  [M!Next]_(M!vars)
<1>. IInv /\ Next
  BY DEF MInv, Next
<1>. USE DEF M!vars
<1>0. UNCHANGED <<lock, result, loaded, child>>
  BY DEF Child, ChildKilled, ChildLoads, ChildAnswers, ChildExits, callVars, parentVars
<1>1. p = child /\ p # 0
  BY Acting, ProcessTypes DEF Child, ChildKilled, ChildLoads, ChildAnswers, ChildExits, Live
<1>2. Held = holds[p] /\ Held' = holds'[p]
  BY <1>0, <1>1, HeldOfChild
<1>3. CASE ChildLoads(p)
  <2>1. PICK c \in Call : pc[c] = "receive"
    BY <1>1, <1>3 DEF ChildLoads, MInv, Awaited
  <2>2. lock = c /\ Target[c] # Unload /\ loaded \in {None, Target[c]}
    BY <2>1 DEF MInv, IInv, Locked, Served, Named
  <2>3. Held' # {}
    BY <1>2, <1>3 DEF ChildLoads, IInv, TypeOK
  <2>4. CASE Held = {}
    BY <1>0, <2>2, <2>3, <2>4 DEF M!Next, M!Load, M!Serves
  <2>. QED  BY <1>0, <2>3, <2>4
<1>4. CASE ChildAnswers(p) \/ ChildExits(p) \/ ChildKilled(p)
  <2>1. Held' = Held \/ Held' = {}
    BY <1>2, <1>4 DEF ChildAnswers, ChildExits, ChildKilled, IInv, TypeOK
  <2>. QED  BY <1>0, <2>1 DEF M!Next, M!Drop
<1>. QED  BY <1>3, <1>4 DEF Child

(* The generation worker keeps the account of its memory: whatever its     *)
(* child does, Residency may treat it as a worker with a lock, a model or  *)
(* none, and a name.                                                       *)
THEOREM MemoryAccount == Spec => GenerationMemory
<1>1. Init => MInv
  BY InitInv DEF Init, MInv, Pending, Named, Awaited
<1>2. Init => M!Init
  <2>1. SUFFICES ASSUME Init PROVE Held = {}
    BY DEF Init, M!Init
  <2>2. IInv /\ child = 0
    BY <2>1, InitInv DEF Init
  <2>. QED  BY <2>2, SlotOfChild
<1>3. MInv /\ [Next]_vars => [M!Next]_(M!vars)
  <2>1. CASE UNCHANGED vars
    BY <2>1 DEF vars, M!vars, Held, Live
  <2>. QED  BY <2>1, MemoryStep, ChildStep DEF Next, Idle
<1>. QED  BY <1>1, <1>2, <1>3, MNext, PTL DEF Spec, GenerationMemory, M!Spec

-----------------------------------------------------------------------------
LEMMA AnswerStep == MInv /\ AnswerToCome /\ [Next]_vars => AnswerToCome'
<1>. SUFFICES ASSUME MInv, AnswerToCome, [Next]_vars PROVE AnswerToCome'
  OBVIOUS
<1>. IInv /\ TypeOK
  BY DEF MInv, IInv
<1>1. ASSUME NEW c \in Call, Serve(c) PROVE AnswerToCome'
  <2>0. \A d \in Call : d # c => pc'[d] \in {"idle", "done"}
    BY <1>1, CallFrame
  <2>. USE DEF TypeOK, Goto, End, Stop
  <2>1. pc[c] # "idle" => lock = c
    BY <1>1, CallFrame DEF IInv, Locked
  <2>2. Cleared(c) => pc'[c] # "receive" /\ (lock' = None \/ (lock' = lock /\ pc'[c] = "start"))
    BY DEF Cleared
  <2>3. lock' = None \/ (lock' = c /\ pc'[c] \notin {"idle", "done"})
    <3>1. CASE Acquire(c) \/ Start(c) \/ Send(c) \/ Receive(c)
      BY <2>1, <3>1 DEF Acquire, Start, Send, Receive
    <3>2. CASE CloseChannel(c) \/ Join(c) \/ Terminate(c)
      BY <2>1, <2>2, <3>2 DEF CloseChannel, Join, Terminate
    <3>. QED  BY <1>1, <3>1, <3>2 DEF Serve
  <2>4. pc'[c] = "receive" => state'[child'] = "busy"
    <3>1. CASE Send(c)
      <4>1. child # 0
        BY <3>1 DEF Send, IInv, Served
      <4>. QED  BY <3>1, <4>1 DEF Send, parentVars
    <3>2. CASE Acquire(c) \/ Start(c) \/ Receive(c)
      BY <3>2 DEF Acquire, Start, Receive
    <3>3. CASE CloseChannel(c) \/ Join(c) \/ Terminate(c)
      BY <2>2, <3>3 DEF CloseChannel, Join, Terminate
    <3>. QED  BY <1>1, <3>1, <3>2, <3>3 DEF Serve
  <2>. QED  BY <2>0, <2>3, <2>4 DEF AnswerToCome
<1>2. ASSUME NEW p \in Process, Child(p) \/ ChildKilled(p) PROVE AnswerToCome'
  <2>1. UNCHANGED <<pc, lock, child>>
    BY <1>2 DEF Child, ChildKilled, ChildLoads, ChildAnswers, ChildExits, callVars, parentVars
  <2>2. \/ state'[p] \in {"running", "dead"} /\ message' = message
        \/ state'[p] = "idle" /\ message' # "none"
    BY <1>2 DEF Child, ChildKilled, ChildLoads, ChildAnswers, ChildExits, TypeOK
  <2>3. p = child
    BY <1>2, Acting DEF Child, ChildKilled, ChildLoads, ChildAnswers, ChildExits, Live
  <2>. QED  BY <2>1, <2>2, <2>3 DEF AnswerToCome
<1>3. CASE UNCHANGED vars
  BY <1>3 DEF vars, AnswerToCome
<1>. QED  BY <1>1, <1>2, <1>3 DEF Next, Idle

(* Nobody waits for an answer that will not come, nor for a lock that      *)
(* nobody will give back.                                                  *)
THEOREM AnswerComes == Spec => []AnswerToCome
<1>1. Init => MInv /\ AnswerToCome
  BY InitInv DEF Init, MInv, Pending, Named, Awaited, AnswerToCome
<1>. QED  BY <1>1, MNext, AnswerStep, PTL DEF Spec
==============================================================================
