-------------------------- MODULE Residency_proofs --------------------------
(***************************************************************************)
(* Proofs about the residency of models, for every set of jobs, routes and *)
(* generation models and any number of deaths of processes.  WInv is what  *)
(* holds whatever the gateway does.  IInv, and with it single residency,   *)
(* holds until the gateway restarts or gives a call up for the first time: *)
(* then a job that no longer owns the lane may still evict, load and run.  *)
(***************************************************************************)
EXTENDS Residency, TLAPS

(* Worker w holds nothing, and names nothing that would let the generation *)
(* worker skip its evictions.                                              *)
Gone(w) == ~resident[w] /\ (w = "generation" => loaded = None)

Busy == {"sent", "evict", "asked", "lock", "locked", "run", "replied"}
Using == {"lock", "locked", "run"}

(* What a job's history says of its response and its answer.               *)
HistoryInv ==
  \A j \in Job :
    /\ response[j] = "kept" => Unloads(j)
    /\ response[j] # "none" /\ ~Unloads(j) => phase[j] \in {"replied", "over"}
    /\ phase[j] = "replied" => response[j] # "none"
    /\ response[j] = "unavailable" \/ phase[j] \in {"new", "sent", "evict", "asked"}
         => ~ran[j]
    /\ Unloads(j) => ~ran[j] /\ phase[j] \notin Using
    /\ answer[j] = 503 => ~ran[j] /\ phase[j] = "over"

(* A worker's model lock is held by the one job that uses its model.       *)
LockKept ==
  /\ \A w \in Worker : lock[w] # None
       => phase[lock[w]] \in {"locked", "run"} /\ WorkerOf(lock[w]) = w
  /\ \A j \in Job : phase[j] \in {"locked", "run"} => lock[WorkerOf(j)] = j

(* The lane's owner is under way.                                          *)
OwnerKept == lane # None => phase[lane] \in Busy

(* A job that waits for a peer has asked it, and the peer has not served   *)
(* the call yet.                                                           *)
AskedKept ==
  \A j \in Job : phase[j] = "asked" => \E w \in Worker : IsNext(j, w) /\ <<j, w>> \in pending

WInv == TypeOK /\ HistoryInv /\ LockKept /\ OwnerKept /\ AskedKept

LaneKept == \A j \in Job : phase[j] \in Busy => lane = j

(* The peers a job has evicted so far stay empty, and by the time it waits *)
(* for the model lock they all are.                                        *)
EvictedStayGone ==
  \A j \in Job :
    /\ phase[j] \in {"new", "sent"} => tried[j] = {} /\ response[j] = "none"
    /\ phase[j] \in {"evict", "asked"} /\ response[j] # "kept"
         => \A w \in tried[j] : Gone(w)
    /\ phase[j] \in Using
         => ~Unloads(j) /\ \A w \in Worker : w # WorkerOf(j) => Gone(w)
    /\ phase[j] = "replied" /\ Unloads(j) /\ response[j] = "ok"
         => \A w \in Worker : Gone(w)

IInv ==
  /\ WInv
  /\ LaneKept
  /\ EvictedStayGone
  /\ SingleResident
  /\ SkipIsSound

(* The gateway has neither restarted nor given a call up so far.           *)
Undisturbed == giveUps = 0 /\ restarts = 0

USE RouteAssumption, ModelAssumption, BoundAssumption

LEMMA AskedFacts ==
  ASSUME NEW j \in Job
  PROVE  /\ Asked(j) \subseteq Worker
         /\ Unloads(j) => Asked(j) = Worker
         /\ ~Unloads(j) => WorkerOf(j) \in Worker /\ Worker \ {WorkerOf(j)} \subseteq Asked(j)
         /\ Generates(j) => Asked(j) = {"upscale", "background"}
         /\ \A w : IsNext(j, w) => w \in Asked(j)
<1>1. CASE Unloads(j)
  <2>1. Peers(j) = <<"upscale", "background", "generation">> /\ ~Generates(j)
    BY <1>1 DEF Peers, Generates, Unloads
  <2>. QED  BY <1>1, <2>1 DEF Asked, IsNext, Worker
<1>2. CASE Generates(j)
  <2>1. Peers(j) = <<"upscale", "background">> /\ ~Unloads(j)
    BY <1>2 DEF Peers, Generates, Unloads
  <2>. QED  BY <1>2, <2>1 DEF Asked, IsNext, Worker, WorkerOf
<1>3. CASE Route[j] = "upscale"
  <2>1. Peers(j) = <<"background", "generation">> /\ WorkerOf(j) = "upscale"
       /\ ~Unloads(j) /\ ~Generates(j)
    BY <1>3 DEF Peers, Generates, Unloads, WorkerOf
  <2>. QED  BY <1>3, <2>1 DEF Asked, IsNext, Worker
<1>4. CASE Route[j] = "background"
  <2>1. Peers(j) = <<"upscale", "generation">> /\ WorkerOf(j) = "background"
       /\ ~Unloads(j) /\ ~Generates(j)
    BY <1>4 DEF Peers, Generates, Unloads, WorkerOf
  <2>. QED  BY <1>4, <2>1 DEF Asked, IsNext, Worker
<1>. QED  BY <1>1, <1>2, <1>3, <1>4 DEF ImageRoutes, Generates, Unloads

LEMMA InitWInv == Init => WInv
<1> SUFFICES ASSUME Init PROVE WInv
  OBVIOUS
<1>1. TypeOK
  BY DEF Init, TypeOK, Phases
<1>2. HistoryInv /\ LockKept /\ OwnerKept /\ AskedKept
  BY DEF Init, HistoryInv, LockKept, OwnerKept, AskedKept, Using
<1>. QED  BY <1>1, <1>2 DEF WInv

LEMMA InitInv == Init => IInv
<1> SUFFICES ASSUME Init PROVE IInv
  OBVIOUS
<1>1. WInv
  BY InitWInv
<1>2. LaneKept /\ EvictedStayGone
  BY DEF Init, LaneKept, EvictedStayGone, Busy, Using
<1>3. SingleResident /\ SkipIsSound
  BY DEF Init, SingleResident, SkipIsSound
<1>. QED  BY <1>1, <1>2, <1>3 DEF IInv

-----------------------------------------------------------------------------
(* What a step of job j leaves alone.                                      *)
Mine(j) ==
  \/ Submit(j) \/ Step(j) \/ Ends(j)
  \/ \E w \in Worker : PeerTimeout(j, w)

(* Removing a model, or leaving it, keeps what was gone.                   *)
LEMMA Removal ==
  ASSUME resident \in [Worker -> BOOLEAN], NEW w, NEW b,
         w \in Worker => b \in {FALSE, resident[w]},
         resident' = [resident EXCEPT ![w] = b]
  PROVE  /\ resident' \in [Worker -> BOOLEAN]
         /\ \A v \in Worker : resident'[v] => resident[v]
         /\ w \in Worker /\ ~b => ~resident'[w]
<1>1. \A v \in Worker : resident'[v] = IF v = w THEN b ELSE resident[v]
  BY Zenon
<1>2. \A v \in Worker : resident'[v] \in BOOLEAN
  BY <1>1, Zenon
<1>3. resident' \in [Worker -> BOOLEAN]
  BY <1>2
<1>4. \A v \in Worker : resident'[v] => resident[v]
  BY <1>1, Zenon
<1>5. w \in Worker /\ ~b => ~resident'[w]
  BY <1>1, Zenon
<1>. QED  BY <1>3, <1>4, <1>5

LEMMA GoneKept ==
  ASSUME \A v \in Worker : resident'[v] => resident[v], loaded' \in {loaded, None}
  PROVE  \A v \in Worker : Gone(v) => Gone(v)'
BY DEF Gone

(* An unload never makes a model resident; a successful one leaves w empty. *)
LEMMA UnloadFacts ==
  ASSUME TypeOK, NEW j \in Job, NEW w \in Worker, Unload(j, w)
  PROVE  /\ resident' \in [Worker -> BOOLEAN]
         /\ \A v \in Worker : resident'[v] => resident[v]
         /\ loaded' \in {loaded, None}
         /\ Waits(j, w) => (EvictionSucceeds(j, w) /\ Gone(w)') \/ EvictionFails(j, w)
         /\ ~Waits(j, w) => UNCHANGED <<phase, tried, response>>
         /\ UNCHANGED <<lane, lock, ran, answer>>
<1>0. UNCHANGED <<lane, lock, ran, answer>> /\ resident \in [Worker -> BOOLEAN]
  BY DEF Unload, counters, TypeOK
<1>1. CASE /\ resident' = [resident EXCEPT ![w] = FALSE]
           /\ loaded' = IF w = "generation" THEN None ELSE loaded
           /\ IF Waits(j, w) THEN EvictionSucceeds(j, w)
                             ELSE UNCHANGED <<phase, tried, response>>
  <2>1. /\ resident' \in [Worker -> BOOLEAN]
        /\ \A v \in Worker : resident'[v] => resident[v]
        /\ ~resident'[w]
    BY <1>0, <1>1, Removal
  <2>. QED  BY <1>0, <1>1, <2>1 DEF Gone
<1>2. CASE /\ \E left \in LeftBehind(w) : resident' = [resident EXCEPT ![w] = left]
           /\ UNCHANGED loaded
           /\ IF Waits(j, w) THEN EvictionFails(j, w)
                             ELSE UNCHANGED <<phase, tried, response>>
  <2>1. PICK left \in LeftBehind(w) : resident' = [resident EXCEPT ![w] = left]
    BY <1>2
  <2>2. left \in {FALSE, resident[w]}
    <3>1. CASE w = "upscale"
      BY <3>1 DEF LeftBehind
    <3>2. CASE w = "background"
      BY <3>2 DEF LeftBehind
    <3>3. CASE w = "generation"
      BY <3>3 DEF LeftBehind
    <3>. QED  BY <3>1, <3>2, <3>3 DEF Worker
  <2>3. /\ resident' \in [Worker -> BOOLEAN]
        /\ \A v \in Worker : resident'[v] => resident[v]
    BY <1>0, <2>1, <2>2, Removal
  <2>. QED  BY <1>0, <1>2, <2>3
<1>. QED  BY <1>1, <1>2 DEF Unload

LEMMA FailFacts ==
  ASSUME TypeOK, NEW j \in Job, Fail(j)
  PROVE  /\ resident' \in [Worker -> BOOLEAN]
         /\ \A v \in Worker : resident'[v] => resident[v]
         /\ loaded' \in {loaded, None}
<1>0. resident \in [Worker -> BOOLEAN]
  BY DEF TypeOK
<1>1. CASE UNCHANGED <<resident, loaded>>
  BY <1>0, <1>1
<1>2. CASE resident' = [resident EXCEPT !["generation"] = FALSE] /\ loaded' = None
  BY <1>0, <1>2, Removal
<1>3. CASE resident' = [resident EXCEPT ![WorkerOf(j)] = FALSE] /\ loaded' = loaded
  BY <1>0, <1>3, Removal
<1>. QED  BY <1>1, <1>2, <1>3 DEF Fail

LEMMA StepType ==
  ASSUME WInv, NEW j \in Job, Mine(j)
  PROVE  TypeOK'
<1>. USE DEF Phases
<1>0. TypeOK /\ HistoryInv
  BY DEF WInv
<1>1. CASE Submit(j)
  BY <1>0, <1>1 DEF Submit, Goto, TypeOK, workerVars, counters
<1>2. CASE Enter(j)
  BY <1>0, <1>2 DEF Enter, Goto, Respond, TypeOK, workerVars, counters
<1>3. CASE AskPeer(j)
  BY <1>0, <1>3 DEF AskPeer, Goto, TypeOK, workerVars, counters
<1>4. ASSUME NEW w \in Worker, Unload(j, w) PROVE TypeOK'
  <2>1. resident' \in [Worker -> BOOLEAN]
    BY <1>0, <1>4, UnloadFacts
  <2>2. /\ phase' \in [Job -> Phases] /\ tried' \in [Job -> SUBSET Worker]
        /\ response' \in [Job -> {"none", "ok", "unavailable", "failed", "kept"}]
    BY <1>0, <1>4 DEF Unload, EvictionFails, EvictionSucceeds, Goto, Respond, TypeOK
  <2>3. loaded' \in Model \cup {None}
    BY <1>0, <1>4 DEF Unload, TypeOK
  <2>. QED
    BY <1>0, <1>4, <2>1, <2>2, <2>3 DEF Unload, TypeOK, counters
<1>5. CASE Evicted(j)
  BY <1>0, <1>5 DEF Evicted, Goto, Respond, TypeOK, workerVars, counters
<1>6. CASE TakeLock(j)
  BY <1>0, <1>6 DEF TakeLock, Goto, TypeOK, counters
<1>7. CASE Load(j)
  <2>1. resident' \in [Worker -> BOOLEAN]
    <3>1. PICK b \in BOOLEAN : resident' = [resident EXCEPT ![WorkerOf(j)] = b]
      <4>. DEFINE b == ~(Generates(j) /\ loaded = Wanted[j]) \/ resident[WorkerOf(j)]
      <4>1. b \in BOOLEAN
        OBVIOUS
      <4>2. resident' = [resident EXCEPT ![WorkerOf(j)] = b]
        BY <1>7, Zenon DEF Load
      <4>. HIDE DEF b
      <4>. QED  BY <4>1, <4>2
    <3>. QED  BY <1>0, <3>1 DEF TypeOK
  <2>2. loaded' \in Model \cup {None}
    BY <1>0, <1>7 DEF Load, TypeOK
  <2>. QED  BY <1>0, <1>7, <2>1, <2>2 DEF Load, Goto, TypeOK, counters
<1>8. CASE Receive(j)
  <2>1. StatusFor(j, response[j]) \in {200, 502, 503}
    BY <1>0, <1>8 DEF Receive, HistoryInv, TypeOK, StatusFor
  <2>. QED  BY <1>0, <1>8, <2>1 DEF Receive, Goto, TypeOK, workerVars, counters
<1>9. CASE Finish(j)
  BY <1>0, <1>9 DEF Finish, Goto, Respond, TypeOK, counters
<1>10. CASE Fail(j)
  <2>1. resident' \in [Worker -> BOOLEAN] /\ loaded' \in Model \cup {None}
    BY <1>0, <1>10, FailFacts DEF TypeOK
  <2>. QED  BY <1>0, <1>10, <2>1 DEF Fail, Goto, Respond, TypeOK, counters
<1>11. ASSUME NEW w \in Worker, PeerTimeout(j, w) PROVE TypeOK'
  BY <1>0, <1>11 DEF PeerTimeout, EvictionFails, Goto, Respond, TypeOK, workerVars, counters
<1>. QED
  BY <1>1, <1>2, <1>3, <1>4, <1>5, <1>6, <1>7, <1>8, <1>9, <1>10, <1>11 DEF Mine, Step, Ends

(* A step of job j moves no other job.                                     *)
LEMMA StepFrame ==
  ASSUME TypeOK, NEW j \in Job, Mine(j)
  PROVE  \A i \in Job \ {j} : /\ phase'[i] = phase[i] /\ tried'[i] = tried[i]
                              /\ response'[i] = response[i] /\ ran'[i] = ran[i]
                              /\ answer'[i] = answer[i]
<1>1. CASE Submit(j) \/ Enter(j) \/ AskPeer(j) \/ Evicted(j) \/ TakeLock(j)
  BY <1>1 DEF Submit, Enter, AskPeer, Evicted, TakeLock, Goto, Respond, TypeOK
<1>2. ASSUME NEW w \in Worker, Unload(j, w)
      PROVE  \A i \in Job \ {j} : /\ phase'[i] = phase[i] /\ tried'[i] = tried[i]
                                  /\ response'[i] = response[i] /\ ran'[i] = ran[i]
                                  /\ answer'[i] = answer[i]
  <2>1. UNCHANGED <<ran, answer>>
    BY <1>2, UnloadFacts
  <2>2. \/ EvictionSucceeds(j, w) \/ EvictionFails(j, w)
        \/ UNCHANGED <<phase, tried, response>>
    BY <1>2, UnloadFacts
  <2>. QED  BY <2>1, <2>2 DEF EvictionSucceeds, EvictionFails, Goto, Respond, TypeOK
<1>3. CASE Load(j) \/ Receive(j) \/ Finish(j) \/ Fail(j)
  BY <1>3 DEF Load, Receive, Finish, Fail, Goto, Respond, TypeOK
<1>4. CASE \E w \in Worker : PeerTimeout(j, w)
  BY <1>4 DEF PeerTimeout, EvictionFails, Goto, Respond, TypeOK
<1>. QED  BY <1>1, <1>2, <1>3, <1>4 DEF Mine, Step, Ends

(* Only the lane's owner moves, apart from the job that takes the lane and *)
(* an unload call whose asker does not wait.                               *)
LEMMA StepOwner ==
  ASSUME TypeOK, LaneKept, NEW j \in Job, Mine(j)
  PROVE  \/ phase[j] \in Busy /\ lane = j
         \/ Submit(j)
         \/ \E w \in Worker : Unload(j, w) /\ ~Waits(j, w)
<1>1. CASE phase[j] \in Busy
  BY <1>1 DEF LaneKept
<1>2. CASE \E w \in Worker : Unload(j, w)
  BY <1>1, <1>2 DEF Waits, Busy
<1>3. CASE ~Submit(j) /\ ~(\E w \in Worker : Unload(j, w))
  BY <1>1, <1>3 DEF Mine, Step, Ends, Enter, AskPeer, Evicted, TakeLock, Load, Receive, Finish,
                    Fail, PeerTimeout, Waits, Busy
<1>. QED  BY <1>1, <1>2, <1>3

LEMMA LoadFacts ==
  ASSUME TypeOK, NEW j \in Job, Load(j)
  PROVE  \A v \in Worker : v # WorkerOf(j) => resident'[v] = resident[v]
<1>1. PICK b : resident' = [resident EXCEPT ![WorkerOf(j)] = b]
  BY Zenon DEF Load
<1>. QED  BY <1>1 DEF TypeOK

LEMMA StepLane ==
  ASSUME IInv, NEW j \in Job, Mine(j)
  PROVE  LaneKept'
<1>. TypeOK /\ LaneKept
  BY DEF IInv, WInv
<1>1. CASE Submit(j)
  <2>1. \A i \in Job : phase[i] \notin Busy
    BY <1>1 DEF Submit, LaneKept, TypeOK
  <2>. QED  BY <1>1, <2>1, StepFrame DEF Submit, LaneKept
<1>2. CASE Receive(j)
  <2>1. phase'[j] = "over" /\ lane = j
    BY <1>2 DEF Receive, Goto, TypeOK, LaneKept, Busy
  <2>. QED  BY <1>2, <2>1, StepFrame DEF LaneKept, Busy
<1>3. CASE ~Submit(j) /\ ~Receive(j)
  <2>1. lane' = lane
    BY <1>3, UnloadFacts DEF Mine, Step, Ends, Enter, AskPeer, Evicted, TakeLock, Load, Finish, Fail,
                             PeerTimeout
  <2>2. CASE phase[j] \in Busy /\ lane = j
    BY <2>1, <2>2, StepFrame DEF LaneKept
  <2>3. CASE \E w \in Worker : Unload(j, w) /\ ~Waits(j, w)
    BY <2>1, <2>3, UnloadFacts DEF LaneKept
  <2>. QED  BY <1>3, <2>2, <2>3, StepOwner
<1>. QED  BY <1>1, <1>2, <1>3

(* Only Load makes a model resident and only Finish names one.             *)
LEMMA StepResident ==
  ASSUME TypeOK, NEW j \in Job, Mine(j)
  PROVE  /\ ~Load(j) => \A v \in Worker : resident'[v] => resident[v]
         /\ ~Finish(j) => loaded' \in {loaded, None}
<1>1. CASE \E w \in Worker : Unload(j, w)
  BY <1>1, UnloadFacts
<1>2. CASE Fail(j)
  BY <1>2, FailFacts
<1>3. CASE Submit(j) \/ Enter(j) \/ AskPeer(j) \/ Evicted(j) \/ TakeLock(j) \/ Receive(j)
           \/ (\E w \in Worker : PeerTimeout(j, w))
  BY <1>3 DEF Submit, Enter, AskPeer, Evicted, TakeLock, Receive, PeerTimeout, workerVars
<1>4. CASE Load(j) \/ Finish(j)
  BY <1>4 DEF Load, Finish
<1>. QED  BY <1>1, <1>2, <1>3, <1>4 DEF Mine, Step, Ends

LEMMA StepSingle ==
  ASSUME IInv, NEW j \in Job, Mine(j)
  PROVE  SingleResident' /\ SkipIsSound'
<1>. TypeOK /\ SingleResident /\ SkipIsSound /\ EvictedStayGone
  BY DEF IInv, WInv
<1>1. CASE Load(j)
  <2>1. \A w \in Worker : w # WorkerOf(j) => Gone(w)
    BY <1>1 DEF Load, EvictedStayGone, Using
  <2>2. \A w \in Worker : w # WorkerOf(j) => ~resident'[w]
    BY <1>1, <2>1, LoadFacts DEF Gone
  <2>3. SingleResident'
    BY <2>2 DEF SingleResident
  <2>4. loaded' \in {loaded, None}
    BY <1>1 DEF Load
  <2>5. SkipIsSound'
    BY <2>1, <2>2, <2>4 DEF SkipIsSound, Gone, Worker
  <2>. QED  BY <2>3, <2>5
<1>2. CASE Finish(j)
  <2>1. \A w \in Worker : w # WorkerOf(j) => Gone(w)
    BY <1>2 DEF Finish, EvictedStayGone, Using
  <2>2. resident' = resident /\ loaded' = IF Generates(j) THEN Wanted[j] ELSE loaded
    BY <1>2 DEF Finish
  <2>. QED  BY <2>1, <2>2 DEF SingleResident, SkipIsSound, Gone, WorkerOf
<1>3. CASE ~Load(j) /\ ~Finish(j)
  BY <1>3, StepResident DEF SingleResident, SkipIsSound
<1>. QED  BY <1>1, <1>2, <1>3

LEMMA StepEvicted ==
  ASSUME IInv, NEW j \in Job, Mine(j)
  PROVE  EvictedStayGone'
<1>. TypeOK /\ LaneKept /\ EvictedStayGone /\ SkipIsSound /\ HistoryInv
  BY DEF IInv, WInv
<1>. DEFINE Good(i) ==
              /\ phase'[i] \in {"new", "sent"} => tried'[i] = {} /\ response'[i] = "none"
              /\ phase'[i] \in {"evict", "asked"} /\ response'[i] # "kept"
                   => \A w \in tried'[i] : Gone(w)'
              /\ phase'[i] \in Using
                   => ~Unloads(i) /\ \A w \in Worker : w # WorkerOf(i) => Gone(w)'
              /\ phase'[i] = "replied" /\ Unloads(i) /\ response'[i] = "ok"
                   => \A w \in Worker : Gone(w)'
<1>1. CASE \E w \in Worker : Unload(j, w) /\ ~Waits(j, w)
  <2>1. UNCHANGED <<phase, tried, response>> /\ \A v \in Worker : Gone(v) => Gone(v)'
    BY <1>1, UnloadFacts, GoneKept
  <2>. QED  BY <2>1 DEF EvictedStayGone, TypeOK, Unloads, WorkerOf, Generates
<1>2. CASE ~ \E w \in Worker : Unload(j, w) /\ ~Waits(j, w)
  <2>1. \A i \in Job \ {j} : phase[i] \notin Busy
    <3>1. CASE Submit(j)
      BY <3>1 DEF Submit, LaneKept, TypeOK
    <3>2. CASE phase[j] \in Busy /\ lane = j
      BY <3>2 DEF LaneKept
    <3>. QED  BY <1>2, <3>1, <3>2, StepOwner
  <2>2. \A i \in Job \ {j} : Good(i)
    BY <2>1, StepFrame DEF EvictedStayGone, Busy, Using
  <2>3. ~Load(j) /\ ~Finish(j) => \A v \in Worker : Gone(v) => Gone(v)'
    BY StepResident, GoneKept
  <2>4. Good(j)
    <3>. USE DEF Using
    <3>1. CASE Submit(j)
      BY <3>1 DEF Submit, Goto, TypeOK, EvictedStayGone
    <3>2. CASE Enter(j)
      <4>1. tried[j] = {} /\ tried' = tried
        BY <3>2 DEF Enter, EvictedStayGone
      <4>2. CASE Respond(j, "failed")
        BY <4>2 DEF Respond, Goto, TypeOK
      <4>3. CASE Goto(j, "evict")
        BY <4>1, <4>3 DEF Goto, TypeOK
      <4>4. CASE Goto(j, "lock") /\ Generates(j) /\ loaded = Wanted[j]
        <5>1. loaded # None
          BY <4>4
        <5>2. \A w \in Worker : w # "generation" => Gone(w)
          BY <5>1 DEF SkipIsSound, Gone
        <5>. QED
          BY <2>3, <3>2, <4>4, <5>2 DEF Goto, TypeOK, WorkerOf, Unloads, Generates, Enter, Load,
                                      Finish
      <4>. QED  BY <3>2, <4>2, <4>3, <4>4 DEF Enter
    <3>3. CASE AskPeer(j)
      <4>1. phase[j] = "evict" /\ phase'[j] = "asked" /\ UNCHANGED <<tried, response, resident, loaded>>
        BY <3>3 DEF AskPeer, Goto, TypeOK, workerVars
      <4>. QED  BY <4>1 DEF EvictedStayGone, Gone, TypeOK
    <3>4. CASE \E w \in Worker : Unload(j, w) /\ Waits(j, w)
      <4>1. PICK w \in Worker : Unload(j, w) /\ Waits(j, w)
        BY <3>4
      <4>2. phase[j] = "asked" /\ \A v \in Worker : Gone(v) => Gone(v)'
        BY <4>1, UnloadFacts, GoneKept DEF Waits
      <4>3. CASE EvictionSucceeds(j, w) /\ Gone(w)'
        <5>1. phase'[j] = "evict" /\ response' = response /\ tried'[j] = tried[j] \cup {w}
          BY <4>3 DEF EvictionSucceeds, Goto, TypeOK
        <5>. QED  BY <4>2, <4>3, <5>1 DEF EvictedStayGone, TypeOK
      <4>4. CASE EvictionFails(j, w)
        BY <4>4 DEF EvictionFails, Goto, Respond, TypeOK
      <4>. QED  BY <4>1, <4>3, <4>4, UnloadFacts
    <3>5. CASE Evicted(j)
      <4>1. /\ phase[j] = "evict" /\ Asked(j) \subseteq tried[j]
            /\ UNCHANGED <<tried, resident, loaded>>
            /\ \A v \in Worker : Gone(v) => Gone(v)'
        BY <3>5 DEF Evicted, workerVars, Gone
      <4>2. response[j] # "kept" => \A w \in Asked(j) : Gone(w)'
        BY <4>1, AskedFacts DEF EvictedStayGone
      <4>3. CASE Unloads(j)
        BY <3>5, <4>2, <4>3, AskedFacts DEF Evicted, Respond, Goto, TypeOK
      <4>4. CASE ~Unloads(j)
        <5>1. response[j] # "kept"
          BY <4>4 DEF HistoryInv
        <5>2. phase'[j] = "lock" /\ response' = response
          BY <3>5, <4>4 DEF Evicted, Goto, TypeOK
        <5>. QED  BY <4>2, <4>4, <5>1, <5>2, AskedFacts
      <4>. QED  BY <4>3, <4>4
    <3>6. CASE TakeLock(j)
      BY <3>6, <2>3 DEF TakeLock, Goto, TypeOK, EvictedStayGone, Load, Finish
    <3>7. CASE Load(j)
      <4>1. phase[j] \in Using /\ phase'[j] = "run" /\ loaded' \in {loaded, None}
            /\ UNCHANGED <<tried, response>>
        BY <3>7 DEF Load, Goto, TypeOK
      <4>2. \A v \in Worker : v # WorkerOf(j) => resident'[v] = resident[v]
        BY <3>7, LoadFacts
      <4>. QED  BY <4>1, <4>2 DEF EvictedStayGone, Gone
    <3>8. CASE Receive(j)
      BY <3>8 DEF Receive, Goto, TypeOK
    <3>9. CASE Finish(j)
      <4>1. ~Unloads(j)
        BY <3>9 DEF Finish, EvictedStayGone
      <4>. QED  BY <3>9, <4>1 DEF Finish, Respond, Goto, TypeOK
    <3>10. CASE Fail(j)
      BY <3>10 DEF Fail, Respond, Goto, TypeOK
    <3>11. CASE \E w \in Worker : PeerTimeout(j, w)
      BY <3>11 DEF PeerTimeout, EvictionFails, Respond, Goto, TypeOK
    <3>. QED
      BY <1>2, <3>1, <3>2, <3>3, <3>4, <3>5, <3>6, <3>7, <3>8, <3>9, <3>10, <3>11
        DEF Mine, Step, Ends
  <2>. QED
    <3>1. \A i \in Job : Good(i)
      BY <2>2, <2>4
    <3>. QED  BY <3>1 DEF EvictedStayGone, Unloads, WorkerOf, Generates
<1>. QED  BY <1>1, <1>2

LEMMA StepHistory ==
  ASSUME WInv, NEW j \in Job, Mine(j)
  PROVE  HistoryInv'
<1>. TypeOK /\ HistoryInv
  BY DEF WInv
<1>. DEFINE Good(i) ==
              /\ response'[i] = "kept" => Unloads(i)
              /\ response'[i] # "none" /\ ~Unloads(i) => phase'[i] \in {"replied", "over"}
              /\ phase'[i] = "replied" => response'[i] # "none"
              /\ response'[i] = "unavailable" \/ phase'[i] \in {"new", "sent", "evict", "asked"}
                   => ~ran'[i]
              /\ Unloads(i) => ~ran'[i] /\ phase'[i] \notin Using
              /\ answer'[i] = 503 => ~ran'[i] /\ phase'[i] = "over"
<1>. USE DEF Using
<1>1. SUFFICES ASSUME Good(j) PROVE HistoryInv'
  <2>1. CASE Submit(j)
    BY <2>1 DEF Submit, Goto, TypeOK, HistoryInv
  <2>2. CASE Enter(j)
    BY <2>2 DEF Enter, Respond, Goto, TypeOK, HistoryInv, Generates, Unloads
  <2>3. CASE AskPeer(j)
    BY <2>3 DEF AskPeer, Goto, TypeOK, HistoryInv
  <2>4. ASSUME NEW w \in Worker, Unload(j, w) PROVE Good(j)
    <3>1. CASE Waits(j, w)
      <4>1. phase[j] = "asked" /\ UNCHANGED <<ran, answer>>
        BY <2>4, <3>1, UnloadFacts DEF Waits
      <4>2. EvictionSucceeds(j, w) \/ EvictionFails(j, w)
        BY <2>4, <3>1, UnloadFacts
      <4>. QED
        BY <4>1, <4>2 DEF EvictionSucceeds, EvictionFails, Respond, Goto, TypeOK, HistoryInv
    <3>2. CASE ~Waits(j, w)
      BY <2>4, <3>2, UnloadFacts DEF HistoryInv
    <3>. QED  BY <3>1, <3>2
  <2>5. CASE Evicted(j)
    BY <2>5 DEF Evicted, Respond, Goto, TypeOK, HistoryInv
  <2>6. CASE TakeLock(j)
    BY <2>6 DEF TakeLock, Goto, TypeOK, HistoryInv
  <2>7. CASE Load(j)
    <3>1. ~Unloads(j) /\ response[j] # "unavailable" => Good(j)
      BY <2>7 DEF Load, Goto, TypeOK, HistoryInv
    <3>2. ~Unloads(j)
      BY <2>7 DEF Load, HistoryInv
    <3>3. response[j] # "unavailable"
      BY <2>7, <3>2 DEF Load, HistoryInv
    <3>. QED  BY <3>1, <3>2, <3>3
  <2>8. CASE Receive(j)
    <3>1. phase[j] = "replied" /\ phase'[j] = "over" /\ UNCHANGED <<ran, response>>
      BY <2>8 DEF Receive, Goto, TypeOK
    <3>2. answer'[j] \in {answer[j], StatusFor(j, response[j])}
      BY <2>8 DEF Receive, TypeOK
    <3>3. StatusFor(j, response[j]) = 503 => ~ran[j]
      BY <3>1 DEF StatusFor, HistoryInv, TypeOK
    <3>. QED  BY <3>1, <3>2, <3>3 DEF HistoryInv
  <2>9. CASE Finish(j)
    BY <2>9 DEF Finish, Respond, Goto, TypeOK, HistoryInv
  <2>10. CASE Fail(j)
    BY <2>10 DEF Fail, Respond, Goto, TypeOK, HistoryInv
  <2>11. CASE \E w \in Worker : PeerTimeout(j, w)
    BY <2>11 DEF PeerTimeout, Waits, EvictionFails, Respond, Goto, TypeOK, HistoryInv
  <2>. QED
    BY <1>1, <2>1, <2>2, <2>3, <2>4, <2>5, <2>6, <2>7, <2>8, <2>9, <2>10, <2>11
      DEF Mine, Step, Ends
<1>2. \A i \in Job \ {j} : Good(i)
  BY StepFrame DEF HistoryInv
<1>. QED  BY <1>1, <1>2 DEF HistoryInv, Unloads

(* Which jobs hold a model lock changes in three actions only.             *)
LEMMA LockFrame ==
  ASSUME TypeOK, NEW j \in Job, Mine(j), ~TakeLock(j), ~Finish(j), ~Fail(j)
  PROVE  /\ lock' = lock
         /\ phase'[j] \in {"locked", "run"} <=> phase[j] \in {"locked", "run"}
<1>1. CASE Submit(j) \/ Enter(j) \/ AskPeer(j) \/ Evicted(j) \/ Load(j) \/ Receive(j)
  BY <1>1 DEF Submit, Enter, AskPeer, Evicted, Load, Receive, Goto, Respond, TypeOK, workerVars
<1>2. ASSUME NEW w \in Worker, Unload(j, w)
      PROVE  /\ lock' = lock
             /\ phase'[j] \in {"locked", "run"} <=> phase[j] \in {"locked", "run"}
  BY <1>2, UnloadFacts DEF Waits, EvictionSucceeds, EvictionFails, Goto, Respond, TypeOK
<1>3. CASE \E w \in Worker : PeerTimeout(j, w)
  BY <1>3 DEF PeerTimeout, Waits, EvictionFails, Goto, Respond, TypeOK, workerVars
<1>. QED  BY <1>1, <1>2, <1>3 DEF Mine, Step, Ends

LEMMA StepLock ==
  ASSUME WInv, NEW j \in Job, Mine(j)
  PROVE  LockKept'
<1>. TypeOK /\ HistoryInv /\ LockKept
  BY DEF WInv
<1>. DEFINE LR == {"locked", "run"}
<1>0. \A i \in Job \ {j} : phase'[i] = phase[i]
  BY StepFrame
<1>1. ASSUME phase[j] \in LR \/ phase[j] = "lock"
      PROVE  WorkerOf(j) \in Worker
  BY <1>1, AskedFacts DEF HistoryInv, Using
<1>2. CASE TakeLock(j)
  <2>1. /\ lock' = [lock EXCEPT ![WorkerOf(j)] = j] /\ phase'[j] = "locked"
        /\ phase[j] = "lock" /\ lock[WorkerOf(j)] = None
    BY <1>2 DEF TakeLock, Goto, TypeOK
  <2>. QED  BY <1>0, <1>1, <2>1 DEF LockKept, WorkerOf, Generates, TypeOK
<1>3. CASE Finish(j) \/ Fail(j)
  <2>1. /\ lock' = [lock EXCEPT ![WorkerOf(j)] = None] /\ phase'[j] = "replied"
        /\ phase[j] \in LR
    BY <1>3 DEF Finish, Fail, Respond, Goto, TypeOK
  <2>2. lock[WorkerOf(j)] = j
    BY <2>1 DEF LockKept
  <2>. QED  BY <1>0, <1>1, <2>1, <2>2 DEF LockKept, WorkerOf, Generates, TypeOK
<1>4. CASE ~TakeLock(j) /\ ~Finish(j) /\ ~Fail(j)
  <2>1. lock' = lock /\ \A i \in Job : phase'[i] \in LR <=> phase[i] \in LR
    BY <1>0, <1>4, LockFrame
  <2>. QED  BY <2>1 DEF LockKept, WorkerOf, Generates, TypeOK
<1>. QED  BY <1>2, <1>3, <1>4

(* The lane changes hands when a job takes it and when its owner is        *)
(* answered; until then the owner stays under way.                         *)
LEMMA LaneFrame ==
  ASSUME TypeOK, NEW j \in Job, Mine(j)
  PROVE  /\ ~Submit(j) /\ ~Receive(j)
              => lane' = lane /\ (phase'[j] = phase[j] \/ phase'[j] \in Busy)
         /\ ~Submit(j) => (phase'[j] = "new" <=> phase[j] = "new")
<1>. USE DEF Busy
<1>1. CASE Enter(j) \/ AskPeer(j) \/ Evicted(j) \/ TakeLock(j) \/ Load(j) \/ Finish(j) \/ Fail(j)
  BY <1>1 DEF Enter, AskPeer, Evicted, TakeLock, Load, Finish, Fail, Goto, Respond, TypeOK
<1>2. ASSUME NEW w \in Worker, Unload(j, w)
      PROVE  /\ lane' = lane /\ (phase'[j] = phase[j] \/ phase'[j] \in Busy)
             /\ phase'[j] = "new" <=> phase[j] = "new"
  BY <1>2, UnloadFacts DEF Waits, EvictionSucceeds, EvictionFails, Goto, Respond, TypeOK
<1>3. CASE \E w \in Worker : PeerTimeout(j, w)
  BY <1>3 DEF PeerTimeout, Waits, EvictionFails, Goto, Respond, TypeOK
<1>4. CASE Receive(j)
  BY <1>4 DEF Receive, Goto, TypeOK
<1>. QED  BY <1>1, <1>2, <1>3, <1>4 DEF Mine, Step, Ends

LEMMA StepOwnerKept ==
  ASSUME WInv, NEW j \in Job, Mine(j)
  PROVE  OwnerKept'
<1>. TypeOK /\ OwnerKept
  BY DEF WInv
<1>1. CASE Submit(j)
  BY <1>1 DEF Submit, Goto, TypeOK, OwnerKept, Busy
<1>2. CASE Receive(j)
  BY <1>2, StepFrame DEF Receive, Goto, TypeOK, OwnerKept, Busy
<1>3. CASE ~Submit(j) /\ ~Receive(j)
  BY <1>3, LaneFrame, StepFrame DEF TypeOK, OwnerKept
<1>. QED  BY <1>1, <1>2, <1>3

LEMMA StepAsked ==
  ASSUME WInv, NEW j \in Job, Mine(j)
  PROVE  AskedKept'
<1>. TypeOK /\ AskedKept
  BY DEF WInv
<1>. DEFINE Kept(i) == phase'[i] = "asked"
              => \E w \in Worker : IsNext(i, w)' /\ <<i, w>> \in pending'
<1>0. ASSUME NEW i \in Job, phase'[i] = phase[i], tried'[i] = tried[i],
             \A w \in Worker : Waits(i, w) /\ <<i, w>> \in pending => <<i, w>> \in pending'
      PROVE  Kept(i)
  BY <1>0 DEF AskedKept, IsNext, Waits, Peers, Generates, Unloads
<1>1. CASE AskPeer(j)
  <2>1. PICK w \in Worker : IsNext(j, w) /\ pending' = pending \cup {<<j, w>>}
    BY <1>1 DEF AskPeer
  <2>2. Kept(j)
    BY <1>1, <2>1 DEF AskPeer, IsNext, Peers, Generates, Unloads
  <2>3. \A i \in Job \ {j} : Kept(i)
    BY <1>0, <2>1, StepFrame
  <2>. QED  BY <2>2, <2>3 DEF AskedKept
<1>2. ASSUME NEW w \in Worker, Unload(j, w)
      PROVE  AskedKept'
  <2>1. pending' = pending \ {<<j, w>>}
    BY <1>2 DEF Unload
  <2>2. \A i \in Job \ {j} : Kept(i)
    BY <1>0, <2>1, StepFrame
  <2>3. CASE Waits(j, w)
    <3>1. phase'[j] # "asked"
      BY <1>2, <2>3, UnloadFacts DEF EvictionSucceeds, EvictionFails, Goto, Respond, TypeOK
    <3>. QED  BY <2>2, <3>1 DEF AskedKept
  <2>4. CASE ~Waits(j, w)
    <3>1. UNCHANGED <<phase, tried>>
      BY <1>2, <2>4, UnloadFacts
    <3>2. Kept(j)
      BY <1>0, <2>1, <2>4, <3>1
    <3>. QED  BY <2>2, <3>2 DEF AskedKept
  <2>. QED  BY <2>3, <2>4
<1>3. CASE ~AskPeer(j) /\ ~ \E w \in Worker : Unload(j, w)
  <2>1. pending' = pending
    BY <1>3 DEF Mine, Step, Ends, Submit, Enter, Evicted, TakeLock, Load, Receive, Finish, Fail,
                PeerTimeout
  <2>2. phase'[j] # "asked"
    BY <1>3 DEF Mine, Step, Ends, Submit, Enter, Evicted, TakeLock, Load, Receive, Finish, Fail,
                PeerTimeout, EvictionFails, Goto, Respond, TypeOK
  <2>3. \A i \in Job \ {j} : Kept(i)
    BY <1>0, <2>1, StepFrame
  <2>. QED  BY <2>2, <2>3 DEF AskedKept
<1>. QED  BY <1>1, <1>2, <1>3

-----------------------------------------------------------------------------
(* The gateway forgets a job, by its client's timeout or by a restart.     *)
LEMMA ForgetWInv ==
  ASSUME WInv, RestartGateway \/ \E j \in Job : GiveUp(j)
  PROVE  WInv'
<1>. TypeOK /\ HistoryInv /\ LockKept /\ OwnerKept /\ AskedKept
  BY DEF WInv
<1>1. ASSUME NEW j \in Job, GiveUp(j)
      PROVE  WInv'
  <2>1. TypeOK'
    BY <1>1 DEF GiveUp, TypeOK, workerVars
  <2>2. HistoryInv' /\ LockKept'
    BY <1>1 DEF GiveUp, TypeOK, HistoryInv, LockKept, workerVars, Unloads, WorkerOf, Generates
  <2>3. OwnerKept' /\ AskedKept'
    BY <1>1 DEF GiveUp, OwnerKept, AskedKept, IsNext, Peers, Generates, Unloads
  <2>. QED  BY <2>1, <2>2, <2>3 DEF WInv
<1>2. CASE RestartGateway
  <2>1. /\ phase' \in [Job -> Phases] /\ lane' = None /\ restarts' \in 0 .. MaxRestarts
        /\ \A i \in Job : phase'[i] = phase[i] \/ (Unloads(i) /\ phase'[i] = "over")
        /\ UNCHANGED <<tried, pending, lock, resident, loaded, ran, response, answer, deaths,
                       giveUps>>
    BY <1>2 DEF RestartGateway, TypeOK, Phases, workerVars
  <2>2. TypeOK'
    BY <2>1 DEF TypeOK
  <2>3. HistoryInv'
    BY <2>1 DEF HistoryInv, Using, Unloads
  <2>4. LockKept'
    BY <2>1 DEF LockKept, HistoryInv, TypeOK, Using, Unloads, WorkerOf, Generates
  <2>5. OwnerKept' /\ AskedKept'
    BY <2>1 DEF OwnerKept, AskedKept, IsNext, Peers, Generates, Unloads
  <2>. QED  BY <2>2, <2>3, <2>4, <2>5 DEF WInv
<1>. QED  BY <1>1, <1>2

LEMMA ChildDiesFacts ==
  ASSUME TypeOK, ChildDies
  PROVE  /\ TypeOK'
         /\ \A v \in Worker : resident'[v] => resident[v]
         /\ UNCHANGED <<lane, phase, tried, pending, lock, loaded, ran, response, answer>>
<1>1. resident' = [resident EXCEPT !["generation"] = FALSE] /\ resident \in [Worker -> BOOLEAN]
  BY DEF ChildDies, TypeOK
<1>2. /\ resident' \in [Worker -> BOOLEAN]
      /\ \A v \in Worker : resident'[v] => resident[v]
  BY <1>1, Removal
<1>3. /\ UNCHANGED <<lane, phase, tried, pending, lock, loaded, ran, response, answer,
                     giveUps, restarts>>
      /\ deaths' \in 0 .. MaxDeaths
  BY DEF ChildDies, TypeOK
<1>. QED  BY <1>2, <1>3 DEF TypeOK

LEMMA ChildDiesWInv ==
  ASSUME WInv, ChildDies
  PROVE  WInv'
<1>1. TypeOK' /\ UNCHANGED <<lane, phase, tried, pending, lock, loaded, ran, response, answer>>
  BY ChildDiesFacts DEF WInv
<1>2. HistoryInv' /\ OwnerKept'
  BY <1>1 DEF WInv, HistoryInv, OwnerKept, Unloads
<1>3. LockKept' /\ AskedKept'
  BY <1>1 DEF WInv, LockKept, AskedKept, IsNext, Peers, Generates, Unloads, WorkerOf
<1>. QED  BY <1>1, <1>2, <1>3 DEF WInv

LEMMA ChildDiesInv ==
  ASSUME IInv, ChildDies
  PROVE  IInv'
<1>1. /\ \A v \in Worker : resident'[v] => resident[v]
      /\ UNCHANGED <<lane, phase, tried, pending, lock, loaded, ran, response, answer>>
  BY ChildDiesFacts DEF IInv, WInv
<1>2. WInv'
  BY ChildDiesWInv DEF IInv
<1>3. \A v \in Worker : Gone(v) => Gone(v)'
  BY <1>1, GoneKept
<1>4. LaneKept'
  BY <1>1 DEF IInv, LaneKept
<1>5. EvictedStayGone'
  BY <1>1, <1>3 DEF IInv, WInv, EvictedStayGone, TypeOK, Unloads, WorkerOf, Generates
<1>6. SingleResident' /\ SkipIsSound'
  BY <1>1 DEF IInv, SingleResident, SkipIsSound
<1>. QED  BY <1>2, <1>4, <1>5, <1>6 DEF IInv

(* A worker that dies is empty afterwards.                                 *)
LEMMA WorkerDiesFacts ==
  ASSUME TypeOK, NEW w \in Worker, WorkerDies(w)
  PROVE  /\ resident' \in [Worker -> BOOLEAN]
         /\ \A v \in Worker : resident'[v] => resident[v]
         /\ loaded' \in {loaded, None} /\ Gone(w)'
         /\ UNCHANGED <<lane, ran, answer, giveUps, restarts>>
         /\ deaths' \in 0 .. MaxDeaths
<1>1. resident' = [resident EXCEPT ![w] = FALSE] /\ resident \in [Worker -> BOOLEAN]
  BY DEF WorkerDies, TypeOK
<1>2. /\ resident' \in [Worker -> BOOLEAN] /\ ~resident'[w]
      /\ \A v \in Worker : resident'[v] => resident[v]
  BY <1>1, Removal
<1>3. /\ loaded' = IF w = "generation" THEN None ELSE loaded
      /\ UNCHANGED <<lane, ran, answer, giveUps, restarts>>
      /\ deaths' \in 0 .. MaxDeaths
  BY DEF WorkerDies, TypeOK
<1>. QED  BY <1>2, <1>3 DEF Gone

(* What the death of worker w does to job j: a job it served, or that      *)
(* waited for it to unload, fails.                                         *)
Loses(w, j) ==
  \/ /\ phase'[j] = phase[j] /\ tried'[j] = tried[j] /\ response'[j] = response[j]
     /\ ~(~Unloads(j) /\ WorkerOf(j) = w /\ phase[j] \in AtWorker)
     /\ ~(Waits(j, w) /\ <<j, w>> \in pending)
  \/ /\ phase[j] \in AtWorker /\ phase'[j] = "replied" /\ ~Unloads(j)
     /\ response'[j] \in {"failed", "unavailable"}
     /\ response'[j] = "unavailable" => phase[j] = "asked"
  \/ /\ phase[j] = "asked" /\ phase'[j] = "evict" /\ response'[j] = "kept"
     /\ Unloads(j)

LEMMA WorkerDiesJobs ==
  ASSUME NEW w \in Worker, WorkerDies(w), NEW j \in Job
  PROVE  Loses(w, j)
<1>. USE DEF Loses
<1>. DEFINE Served == ~Unloads(j) /\ WorkerOf(j) = w /\ phase[j] \in AtWorker
            Cut == Waits(j, w) /\ <<j, w>> \in pending
<1>1. CASE Served
  <2>1. phase'[j] = "replied" /\ response'[j] = "failed"
    BY <1>1 DEF WorkerDies
  <2>. QED  BY <1>1, <2>1
<1>2. CASE ~Served /\ Cut /\ ~Unloads(j)
  <2>1. phase'[j] = "replied" /\ response'[j] \in {"failed", "unavailable"}
    BY <1>2 DEF WorkerDies
  <2>. QED  BY <1>2, <2>1 DEF Waits, AtWorker
<1>3. CASE ~Served /\ Cut /\ Unloads(j)
  <2>1. phase'[j] = "evict" /\ response'[j] = "kept"
    BY <1>3 DEF WorkerDies
  <2>. QED  BY <1>3, <2>1 DEF Waits
<1>4. CASE ~Served /\ ~Cut
  <2>1. phase'[j] = phase[j] /\ response'[j] = response[j] /\ tried'[j] = tried[j]
    BY <1>4 DEF WorkerDies
  <2>. QED  BY <1>4, <2>1
<1>. QED  BY <1>1, <1>2, <1>3, <1>4

LEMMA WorkerDiesWInv ==
  ASSUME WInv, NEW w \in Worker, WorkerDies(w)
  PROVE  WInv'
<1>. TypeOK /\ HistoryInv /\ LockKept /\ OwnerKept /\ AskedKept
  BY DEF WInv
<1>0. \A j \in Job : Loses(w, j)
  BY WorkerDiesJobs
<1>1. /\ resident' \in [Worker -> BOOLEAN] /\ loaded' \in {loaded, None}
      /\ UNCHANGED <<lane, ran, answer, giveUps, restarts>>
      /\ deaths' \in 0 .. MaxDeaths
  BY WorkerDiesFacts
<1>2. lock' = [lock EXCEPT ![w] = None] /\ pending' = {p \in pending : p[2] # w}
  BY DEF WorkerDies
<1>3. TypeOK'
  <2>1. /\ phase' \in [Job -> Phases]
        /\ response' \in [Job -> {"none", "ok", "unavailable", "failed", "kept"}]
    <3>1. phase' = [j \in Job |-> phase'[j]] /\ response' = [j \in Job |-> response'[j]]
      BY DEF WorkerDies
    <3>2. ASSUME NEW j \in Job
          PROVE  /\ phase'[j] \in Phases
                 /\ response'[j] \in {"none", "ok", "unavailable", "failed", "kept"}
      <4>1. Loses(w, j) /\ phase[j] \in Phases
        BY <1>0 DEF TypeOK
      <4>2. response[j] \in {"none", "ok", "unavailable", "failed", "kept"}
        BY DEF TypeOK
      <4>. QED  BY <4>1, <4>2 DEF Loses, Phases
    <3>. QED  BY <3>1, <3>2
  <2>2. tried' \in [Job -> SUBSET Worker]
    BY DEF WorkerDies, TypeOK
  <2>3. pending' \subseteq Job \X Worker /\ lock' \in [Worker -> Job \cup {None}]
    BY <1>2 DEF TypeOK
  <2>4. loaded' \in Model \cup {None}
    BY <1>1 DEF TypeOK
  <2>. QED  BY <1>1, <2>1, <2>2, <2>3, <2>4 DEF TypeOK
<1>4. HistoryInv'
  <2>1. ASSUME NEW j \in Job
        PROVE  /\ response'[j] = "kept" => Unloads(j)
               /\ response'[j] # "none" /\ ~Unloads(j) => phase'[j] \in {"replied", "over"}
               /\ phase'[j] = "replied" => response'[j] # "none"
               /\ response'[j] = "unavailable"
                  \/ phase'[j] \in {"new", "sent", "evict", "asked"} => ~ran[j]
               /\ Unloads(j) => ~ran[j] /\ phase'[j] \notin Using
               /\ answer[j] = 503 => ~ran[j] /\ phase'[j] = "over"
    <3>. USE DEF HistoryInv, Using
    <3>1. CASE phase'[j] = phase[j] /\ response'[j] = response[j]
      BY <3>1
    <3>2. CASE /\ phase[j] \in AtWorker /\ phase'[j] = "replied" /\ ~Unloads(j)
               /\ response'[j] \in {"failed", "unavailable"}
               /\ response'[j] = "unavailable" => phase[j] = "asked"
      BY <3>2 DEF AtWorker
    <3>3. CASE phase[j] = "asked" /\ phase'[j] = "evict" /\ response'[j] = "kept" /\ Unloads(j)
      BY <3>3
    <3>4. Loses(w, j)
      BY <1>0
    <3>. QED  BY <3>1, <3>2, <3>3, <3>4, Zenon DEF Loses
  <2>. QED  BY <1>1, <2>1 DEF HistoryInv, Unloads
<1>5. LockKept'
  <2>1. ASSUME NEW j \in Job, phase'[j] \in {"locked", "run"}
        PROVE  phase'[j] = phase[j] /\ WorkerOf(j) # w
    <3>1. /\ phase'[j] = phase[j]
          /\ ~(~Unloads(j) /\ WorkerOf(j) = w /\ phase[j] \in AtWorker)
      BY <1>0, <2>1 DEF Loses
    <3>2. ~Unloads(j)
      BY <2>1, <3>1 DEF HistoryInv, Using
    <3>. QED  BY <2>1, <3>1, <3>2 DEF AtWorker
  <2>2. \A j \in Job : phase[j] \in {"locked", "run"} /\ WorkerOf(j) # w => phase'[j] = phase[j]
    <3>. SUFFICES ASSUME NEW j \in Job, phase[j] \in {"locked", "run"}, WorkerOf(j) # w
                  PROVE  phase'[j] = phase[j]
      OBVIOUS
    <3>. QED  BY DEF WorkerDies, Waits
  <2>. QED  BY <1>2, <2>1, <2>2 DEF LockKept, TypeOK, WorkerOf, Generates
<1>6. OwnerKept'
  BY <1>1, <1>0 DEF Loses, OwnerKept, Busy, TypeOK
<1>7. AskedKept'
  <2>1. ASSUME NEW j \in Job, phase'[j] = "asked"
        PROVE  \E v \in Worker : IsNext(j, v)' /\ <<j, v>> \in pending'
    <3>1. phase[j] = "asked" /\ tried'[j] = tried[j] /\ ~(Waits(j, w) /\ <<j, w>> \in pending)
      BY <1>0, <2>1 DEF Loses
    <3>2. PICK v \in Worker : IsNext(j, v) /\ <<j, v>> \in pending
      BY <3>1 DEF AskedKept
    <3>3. v # w
      BY <3>1, <3>2 DEF Waits
    <3>. QED  BY <1>2, <3>1, <3>2, <3>3 DEF IsNext, Peers, Generates, Unloads
  <2>. QED  BY <2>1 DEF AskedKept
<1>. QED  BY <1>3, <1>4, <1>5, <1>6, <1>7 DEF WInv

LEMMA WorkerDiesInv ==
  ASSUME IInv, NEW w \in Worker, WorkerDies(w)
  PROVE  IInv'
<1>. TypeOK /\ LaneKept /\ EvictedStayGone /\ SingleResident /\ SkipIsSound
  BY DEF IInv, WInv
<1>0. \A j \in Job : Loses(w, j)
  BY WorkerDiesJobs
<1>1. /\ \A v \in Worker : resident'[v] => resident[v]
      /\ loaded' \in {loaded, None} /\ Gone(w)' /\ lane' = lane
  BY WorkerDiesFacts
<1>2. \A v \in Worker : Gone(v) => Gone(v)'
  BY <1>1, GoneKept
<1>3. WInv'
  BY WorkerDiesWInv DEF IInv
<1>4. LaneKept'
  BY <1>1, <1>0 DEF Loses, LaneKept, Busy, AtWorker
<1>5. SingleResident' /\ SkipIsSound'
  BY <1>1 DEF SingleResident, SkipIsSound
<1>6. EvictedStayGone'
  <2>1. ASSUME NEW j \in Job
        PROVE  /\ phase'[j] \in {"new", "sent"} => tried'[j] = {} /\ response'[j] = "none"
               /\ phase'[j] \in {"evict", "asked"} /\ response'[j] # "kept"
                    => \A v \in tried'[j] : Gone(v)'
               /\ phase'[j] \in Using
                    => ~Unloads(j) /\ \A v \in Worker : v # WorkerOf(j) => Gone(v)'
               /\ phase'[j] = "replied" /\ Unloads(j) /\ response'[j] = "ok"
                    => \A v \in Worker : Gone(v)'
    <3>1. CASE phase'[j] = phase[j] /\ tried'[j] = tried[j] /\ response'[j] = response[j]
      BY <1>2, <3>1 DEF EvictedStayGone, Using, TypeOK
    <3>2. CASE ~(phase'[j] = phase[j] /\ tried'[j] = tried[j] /\ response'[j] = response[j])
      BY <1>0, <3>2 DEF Loses, Using
    <3>. QED  BY <3>1, <3>2
  <2>. QED  BY <2>1 DEF EvictedStayGone, Unloads, WorkerOf, Generates
<1>. QED  BY <1>3, <1>4, <1>5, <1>6 DEF IInv

-----------------------------------------------------------------------------
LEMMA NextWInv == WInv /\ [Next]_vars => WInv'
<1>. SUFFICES ASSUME WInv, [Next]_vars PROVE WInv'
  OBVIOUS
<1>1. CASE \E j \in Job : Mine(j)
  <2>1. PICK j \in Job : Mine(j)
    BY <1>1
  <2>2. TypeOK' /\ HistoryInv' /\ LockKept'
    BY <2>1, StepType, StepHistory, StepLock
  <2>3. OwnerKept' /\ AskedKept'
    BY <2>1, StepOwnerKept, StepAsked
  <2>. QED  BY <2>2, <2>3 DEF WInv
<1>2. CASE ChildDies
  BY <1>2, ChildDiesWInv
<1>3. CASE \E w \in Worker : WorkerDies(w)
  BY <1>3, WorkerDiesWInv
<1>4. CASE UNCHANGED vars
  <2>1. TypeOK' /\ HistoryInv'
    BY <1>4 DEF vars, workerVars, counters, WInv, TypeOK, HistoryInv, Unloads
  <2>2. LockKept' /\ OwnerKept' /\ AskedKept'
    BY <1>4 DEF vars, workerVars, counters, WInv, LockKept, OwnerKept, AskedKept, IsNext, Peers,
                Generates, Unloads, WorkerOf
  <2>. QED  BY <2>1, <2>2 DEF WInv
<1>5. CASE RestartGateway \/ \E j \in Job : GiveUp(j)
  BY <1>5, ForgetWInv
<1>. QED  BY <1>1, <1>2, <1>3, <1>4, <1>5 DEF Next, Mine, Idle

(* What holds whatever the gateway gives up or forgets.                    *)
THEOREM WorkersInvariant == Init /\ [][Next]_vars => []WInv
<1>. QED  BY InitWInv, NextWInv, PTL

(* Every variable keeps its type.                                          *)
THEOREM TypeCorrect == Init /\ [][Next]_vars => []TypeOK
<1>1. WInv => TypeOK
  BY DEF WInv
<1>. QED  BY WorkersInvariant, <1>1, PTL

(* A worker's own lock serialises the use of its model, although after a   *)
(* timeout or a restart the gateway sends it a second job.                 *)
THEOREM RunsPerWorker == Init /\ [][Next]_vars => []OneRunPerWorker
<1>1. WInv => OneRunPerWorker
  BY DEF WInv, LockKept, OneRunPerWorker
<1>. QED  BY WorkersInvariant, <1>1, PTL

(* 503 means that no model ran, with every cause of a 503 considered.      *)
THEOREM Retries == Init /\ [][Next]_vars => []RetrySafe
<1>1. WInv => RetrySafe
  BY DEF WInv, HistoryInv, RetrySafe
<1>. QED  BY WorkersInvariant, <1>1, PTL

LEMMA BlockerNearer ==
  ASSUME WInv, NEW i \in Job, NEW j \in Job, Blocks(i, j)
  PROVE  Depth(i) < Depth(j)
<1>. TypeOK /\ LockKept /\ OwnerKept
  BY DEF WInv
<1>1. CASE phase[j] = "new" /\ lane = i
  <2>1. phase[i] \in Busy
    BY <1>1 DEF OwnerKept
  <2>. QED  BY <1>1, <2>1 DEF Depth, Busy
<1>2. CASE phase[j] = "sent" /\ HoldsLoop(i, WorkerOf(j))
  BY <1>2 DEF Depth, HoldsLoop, Generates, AtWorker
<1>3. ASSUME NEW w \in Worker, Waits(j, w), lock[w] = i
      PROVE  Depth(i) < Depth(j)
  <2>1. phase[i] \in {"locked", "run"}
    BY <1>3 DEF LockKept
  <2>. QED  BY <1>3, <2>1 DEF Depth, Waits
<1>4. ASSUME NEW w \in Worker, Waits(j, w), HoldsLoop(i, w)
      PROVE  Depth(i) < Depth(j)
  <2>1. ~Generates(j)
    BY <1>4, AskedFacts DEF Waits, HoldsLoop
  <2>. QED  BY <1>4, <2>1 DEF Depth, Waits, HoldsLoop, Generates, AtWorker
<1>5. CASE phase[j] = "lock" /\ lock[WorkerOf(j)] = i
  <2>1. phase[i] \in {"locked", "run"}
    BY <1>5, AskedFacts DEF LockKept, WInv, HistoryInv, Using
  <2>. QED  BY <1>5, <2>1 DEF Depth
<1>. QED  BY <1>1, <1>2, <1>3, <1>4, <1>5 DEF Blocks

(* No circular waiting among jobs, workers and unload calls.               *)
THEOREM NoCircle == Init /\ [][Next]_vars => []NobodyStuck
<1>1. ASSUME WInv, NEW j \in Job, phase[j] # "over", ~CanGo(j)
      PROVE  \E i \in Job : Blocks(i, j)
  <2>. TypeOK /\ HistoryInv /\ AskedKept
    BY <1>1 DEF WInv
  <2>1. CASE phase[j] = "new"
    BY <1>1, <2>1 DEF CanGo, Blocks, TypeOK
  <2>2. CASE phase[j] = "sent"
    BY <1>1, <2>2 DEF CanGo, Blocks, LoopFree
  <2>3. CASE phase[j] = "asked"
    <3>1. PICK w \in Worker : IsNext(j, w) /\ <<j, w>> \in pending
      BY <2>3 DEF AskedKept
    <3>2. Waits(j, w) /\ (lock[w] # None \/ ~LoopFree(w))
      BY <1>1, <2>3, <3>1 DEF CanGo, Waits
    <3>. QED  BY <3>2 DEF Blocks, LoopFree, TypeOK
  <2>4. CASE phase[j] = "lock"
    <3>1. WorkerOf(j) \in Worker
      BY <2>4, AskedFacts DEF HistoryInv, Using
    <3>. QED  BY <1>1, <2>4, <3>1 DEF CanGo, Blocks, TypeOK
  <2>. QED  BY <1>1, <2>1, <2>2, <2>3, <2>4 DEF CanGo, TypeOK, Phases
<1>2. WInv => NobodyStuck
  BY <1>1, BlockerNearer DEF NobodyStuck
<1>. QED  BY WorkersInvariant, <1>2, PTL

(* The lane of these jobs is the abstract lane, which the gateway's own    *)
(* coordinator implements: the two models meet there.                      *)
THEOREM LaneRefinement == Init /\ [][Next]_vars => L!Init /\ [][L!Next]_(L!vars)
<1>. DEFINE Served == {j \in Job : phase[j] # "new"} \ {lane}
<1>1. Init => L!Init
  BY DEF Init, L!Init
<1>2. ASSUME WInv, [Next]_vars
      PROVE  [L!Next]_(L!vars)
  <2>. TypeOK /\ OwnerKept
    BY <1>2 DEF WInv
  <2>1. ASSUME NEW j \in Job, Mine(j)
        PROVE  [L!Next]_(L!vars)
    <3>1. CASE Submit(j)
      <4>1. /\ lane = None /\ lane' = j /\ phase[j] = "new" /\ phase'[j] = "sent"
            /\ \A i \in Job \ {j} : phase'[i] = phase[i]
        BY <3>1 DEF Submit, Goto, TypeOK
      <4>2. j \notin Served /\ Served' = Served
        BY <4>1
      <4>. QED  BY <4>1, <4>2 DEF L!Next, L!Take
    <3>2. CASE ~Submit(j)
      <4>1. \A i \in Job : phase'[i] = "new" <=> phase[i] = "new"
        BY <2>1, <3>2, LaneFrame, StepFrame
      <4>2. CASE lane' = lane
        BY <4>1, <4>2 DEF L!vars
      <4>3. CASE lane' # lane
        <5>1. Receive(j)
          BY <2>1, <3>2, <4>3, LaneFrame
        <5>2. lane = j /\ lane' = None /\ phase[j] = "replied"
          BY <4>3, <5>1 DEF Receive
        <5>3. Served' = Served \cup {lane}
          BY <4>1, <5>2
        <5>. QED  BY <5>2, <5>3 DEF L!Next, L!Give
      <4>. QED  BY <4>2, <4>3
    <3>. QED  BY <3>1, <3>2
  <2>2. CASE RestartGateway \/ \E j \in Job : GiveUp(j)
    <3>1. /\ lane \in Job /\ lane' = None
          /\ \A i \in Job \ {lane} : phase'[i] = phase[i]
          /\ phase'[lane] \in {phase[lane], "over"}
      BY <2>2 DEF RestartGateway, GiveUp, TypeOK
    <3>2. phase[lane] # "new" /\ phase'[lane] # "new"
      BY <3>1 DEF OwnerKept, Busy
    <3>3. Served' = Served \cup {lane}
      BY <3>1, <3>2
    <3>. QED  BY <3>1, <3>3 DEF L!Next, L!Give
  <2>3. CASE ChildDies \/ UNCHANGED vars
    BY <2>3 DEF ChildDies, vars, L!vars
  <2>4. ASSUME NEW w \in Worker, WorkerDies(w)
        PROVE  [L!Next]_(L!vars)
    <3>1. lane' = lane /\ \A i \in Job : phase'[i] = "new" <=> phase[i] = "new"
      BY <2>4, WorkerDiesFacts, WorkerDiesJobs DEF Loses, AtWorker
    <3>. QED  BY <3>1 DEF L!vars
  <2>. QED  BY <1>2, <2>1, <2>2, <2>3, <2>4 DEF Next, Mine, Idle
<1>. QED  BY WorkersInvariant, <1>1, <1>2, PTL

-----------------------------------------------------------------------------
(* Once disturbed, the gateway stays disturbed.                            *)
LEMMA Calm ==
  ASSUME TypeOK, [Next]_vars, Undisturbed'
  PROVE  Undisturbed /\ ~RestartGateway /\ \A j \in Job : ~GiveUp(j)
<1>1. RestartGateway \/ (\E j \in Job : GiveUp(j)) => giveUps' > 0 \/ restarts' > 0
  BY DEF RestartGateway, GiveUp, TypeOK
<1>2. ~RestartGateway /\ (\A j \in Job : ~GiveUp(j)) => UNCHANGED <<giveUps, restarts>>
  <2>1. ASSUME NEW j \in Job,
               Submit(j) \/ Step(j) \/ Ends(j) \/ \E w \in Worker : PeerTimeout(j, w)
        PROVE  UNCHANGED <<giveUps, restarts>>
    <3>1. CASE Submit(j) \/ Ends(j) \/ \E w \in Worker : PeerTimeout(j, w)
      BY <3>1 DEF Submit, Ends, Finish, Fail, PeerTimeout, EvictionFails, counters
    <3>2. CASE Enter(j) \/ TakeLock(j) \/ Load(j) \/ Receive(j)
      BY <3>2 DEF Enter, TakeLock, Load, Receive, counters
    <3>3. CASE AskPeer(j) \/ Evicted(j) \/ \E w \in Worker : Unload(j, w)
      BY <3>3 DEF AskPeer, Evicted, Unload, EvictionFails, EvictionSucceeds, counters
    <3>. QED  BY <2>1, <3>1, <3>2, <3>3 DEF Step
  <2>2. (\E w \in Worker : WorkerDies(w)) \/ ChildDies => UNCHANGED <<giveUps, restarts>>
    BY DEF WorkerDies, ChildDies, counters
  <2>3. Idle \/ UNCHANGED vars => UNCHANGED <<giveUps, restarts>>
    BY DEF Idle, vars
  <2>. QED  BY <2>1, <2>2, <2>3 DEF Next
<1>. QED  BY <1>1, <1>2 DEF Undisturbed, TypeOK

LEMMA NextInv ==
  ASSUME IInv, [Next]_vars, Undisturbed'
  PROVE  IInv'
<1>0. WInv'
  BY NextWInv DEF IInv
<1>1. CASE \E j \in Job : Mine(j)
  <2>1. PICK j \in Job : Mine(j)
    BY <1>1
  <2>2. LaneKept' /\ EvictedStayGone'
    BY <2>1, StepLane, StepEvicted
  <2>3. SingleResident' /\ SkipIsSound'
    BY <2>1, StepSingle
  <2>. QED  BY <1>0, <2>2, <2>3 DEF IInv
<1>2. CASE ChildDies
  BY <1>2, ChildDiesInv
<1>3. CASE \E w \in Worker : WorkerDies(w)
  BY <1>3, WorkerDiesInv
<1>4. CASE UNCHANGED vars
  <2>1. LaneKept' /\ EvictedStayGone'
    BY <1>4 DEF vars, workerVars, IInv, LaneKept, EvictedStayGone, Gone, Unloads, WorkerOf,
                Generates
  <2>2. SingleResident' /\ SkipIsSound'
    BY <1>4 DEF vars, workerVars, IInv, SingleResident, SkipIsSound
  <2>. QED  BY <1>0, <2>1, <2>2 DEF IInv
<1>5. CASE RestartGateway \/ \E j \in Job : GiveUp(j)
  BY <1>5, Calm DEF IInv, WInv
<1>. QED  BY <1>1, <1>2, <1>3, <1>4, <1>5 DEF Next, Mine, Idle

(* The invariant the results rest on.                                      *)
THEOREM Invariant == Spec => [](Undisturbed => IInv)
<1>1. WInv /\ (Undisturbed => IInv) /\ [Next]_vars => (Undisturbed => IInv)'
  BY NextInv, Calm DEF WInv
<1>. QED  BY InitInv, WorkersInvariant, <1>1, PTL DEF Spec

(* No two workers ever hold a model at once, although each of them only    *)
(* asks its peers beforehand and nobody locks the GPU.                     *)
THEOREM Residents == Spec => [](Undisturbed => SingleResident)
<1>1. IInv => SingleResident
  BY DEF IInv
<1>. QED  BY Invariant, <1>1, PTL

(* A generation worker that names a model as loaded, alive or dead, has    *)
(* its peers empty: it may go to its lock without asking them.             *)
THEOREM SkipSound == Spec => [](Undisturbed => SkipIsSound)
<1>1. IInv => SkipIsSound
  BY DEF IInv
<1>. QED  BY Invariant, <1>1, PTL

(* At most one job uses the GPU.                                           *)
THEOREM Runs == Spec => [](Undisturbed => OneRun)
<1>1. IInv => OneRun
  BY DEF IInv, LaneKept, OneRun, Busy
<1>. QED  BY Invariant, <1>1, PTL

(* The unload route tells the truth when it says that nothing is loaded.   *)
THEOREM UnloadHonest == Spec /\ []Undisturbed => UnloadedMeansEmpty
<1>1. ASSUME IInv, [Next]_vars, NEW j \in Job, Unloads(j), answer'[j] = 200, answer[j] = 0
      PROVE  \A w \in Worker : ~resident[w]
  <2>1. Receive(j)
    <3>1. ASSUME NEW i \in Job, Mine(i) PROVE i = j /\ Receive(j)
      <4>1. i = j
        BY <1>1, <3>1, StepFrame DEF IInv, WInv
      <4>2. \A w \in Worker : ~Unload(j, w)
        BY <1>1, UnloadFacts DEF IInv, WInv
      <4>. QED
        BY <1>1, <3>1, <4>1, <4>2
          DEF Mine, Step, Ends, Submit, Enter, AskPeer, Evicted, TakeLock, Load, Finish, Fail,
              PeerTimeout
    <3>2. ~ChildDies /\ (\A w \in Worker : ~WorkerDies(w)) /\ ~UNCHANGED vars
      BY <1>1 DEF ChildDies, WorkerDies, vars
    <3>3. ~RestartGateway /\ \A i \in Job : ~GiveUp(i)
      BY <1>1 DEF RestartGateway, GiveUp, IInv, WInv, TypeOK
    <3>. QED  BY <1>1, <3>1, <3>2, <3>3 DEF Next, Mine, Idle
  <2>2. phase[j] = "replied" /\ StatusFor(j, response[j]) = 200
    BY <1>1, <2>1 DEF Receive, IInv, WInv, TypeOK
  <2>3. response[j] = "ok"
    BY <1>1, <2>2 DEF StatusFor, IInv, WInv, HistoryInv, TypeOK
  <2>. QED  BY <1>1, <2>2, <2>3 DEF IInv, EvictedStayGone, Gone
<1>2. IInv /\ [Next]_vars
        => [\A j \in Job : Unloads(j) /\ answer'[j] = 200 /\ answer[j] = 0
              => \A w \in Worker : ~resident[w]]_vars
  BY <1>1
<1>. QED  BY Invariant, <1>2, PTL DEF Spec, UnloadedMeansEmpty
=============================================================================
