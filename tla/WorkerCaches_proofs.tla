-------------------------- MODULE WorkerCaches_proofs --------------------------
(***************************************************************************)
(* Proofs about what the background worker and the upscale worker keep in  *)
(* memory, for every set of calls, whichever of their steps fail.          *)
(***************************************************************************)
EXTENDS WorkerProcesses, TLAPS

USE CallAssumption, MattingAssumption

-----------------------------------------------------------------------------
(* The background worker, the names of whose module are B!...              *)

(* A call that has begun and not ended holds the lock.                     *)
Locked == \A c \in Call : bpc[c] \notin {"idle", "done"} => block = c

(* Only a call that has ended has a result.                                *)
Pending == \A c \in Call : bpc[c] # "done" => bresult[c] = "none"

(* How far a release has come, unless it has met an error.                 *)
Released ==
  \A c \in Call :
    /\ bpc[c] \in {"birefnet", "bria", "forget"} => ~bsam2
    /\ bpc[c] = "bria" /\ ~berrors => Birefnet \notin bcached
    /\ bpc[c] = "forget" /\ ~berrors => bcached = {}

(* A call that is past the matting has its model in memory.                *)
Matted ==
  \A c \in Call :
    /\ bpc[c] \in {"validate", "matte", "post", "guide", "commit"} => Target[c] # Unload
    /\ bpc[c] \in {"post", "guide", "commit"} => Target[c] \in bcached

(* While no call has failed, _active_model tells what is in memory.        *)
Tidy ==
  bclean =>
    /\ ~(Bria \in bcached /\ Birefnet \in bcached) /\ (bsam2 => Bria \notin bcached)
    /\ (\A c \in Call : bpc[c] \in {"idle", "validate", "done"}) =>
         bcached \subseteq {bactive} /\ (bsam2 => bactive = Birefnet)
    /\ \A c \in Call : bpc[c] \in {"matte", "post", "guide", "commit"} =>
         bcached \subseteq {Target[c]} /\ (bsam2 => Target[c] = Birefnet)
    /\ \A c \in Call : bpc[c] = "guide" => Target[c] = Birefnet

IInv == B!TypeOK /\ Locked /\ Pending /\ B!ActiveIsCached /\ Released /\ Matted /\ Tidy

LEMMA InitInv == B!Init => IInv
<1> SUFFICES ASSUME B!Init PROVE IInv
  OBVIOUS
<1>1. B!TypeOK
  BY DEF B!Init, B!TypeOK
<1>2. Locked /\ Pending /\ Released /\ Matted
  BY DEF B!Init, Locked, Pending, Released, Matted
<1>3. B!ActiveIsCached
  BY DEF B!Init, B!ActiveIsCached
<1>4. Tidy
  BY DEF B!Init, Tidy
<1>. QED  BY <1>1, <1>2, <1>3, <1>4 DEF IInv

(* Every step is one of the call that holds the lock, or takes it.         *)
LEMMA Alone ==
  ASSUME IInv, NEW c \in Call, B!Step(c)
  PROVE  \A d \in Call : d # c => bpc[d] \in {"idle", "done"}
BY DEF IInv, Locked, B!Step, B!Acquire, B!Validate, B!ReleaseSam2, B!ClearBirefnet, B!ClearBria,
       B!Forget, B!Matte, B!Post, B!Guide, B!Commit

(* A call that ends leaves the model lock, and is clean or not.            *)
LEMMA Moves ==
  ASSUME IInv, NEW c \in Call, B!Step(c)
  PROVE  /\ B!TypeOK' /\ Locked' /\ Pending'
         /\ \A d \in Call : d # c => bpc'[d] = bpc[d] /\ bresult'[d] = bresult[d]
<1>0. \A d \in Call : d # c => bpc[d] \in {"idle", "done"}
  BY Alone
<1>. USE DEF IInv, B!TypeOK, Locked, Pending, B!Goto, B!End, B!Continue, B!memory
<1>1. CASE B!Acquire(c)
  BY <1>0, <1>1 DEF B!Acquire
<1>2. CASE B!Validate(c)
  BY <1>0, <1>2 DEF B!Validate
<1>3. CASE B!ReleaseSam2(c)
  BY <1>0, <1>3 DEF B!ReleaseSam2
<1>4. CASE B!ClearBirefnet(c)
  BY <1>0, <1>4 DEF B!ClearBirefnet, B!Clear
<1>5. CASE B!ClearBria(c)
  BY <1>0, <1>5 DEF B!ClearBria, B!Clear
<1>6. CASE B!Forget(c)
  <2>1. B!TypeOK'
    BY <1>6 DEF B!Forget
  <2>2. Locked' /\ Pending' /\ \A d \in Call : d # c => bpc'[d] = bpc[d] /\ bresult'[d] = bresult[d]
    BY <1>0, <1>6 DEF B!Forget
  <2>. QED  BY <2>1, <2>2
<1>7. CASE B!Matte(c)
  <2>1. Target[c] \in Model
    BY <1>7 DEF B!Matte, Matted
  <2>2. B!TypeOK'
    BY <1>7, <2>1 DEF B!Matte
  <2>3. Locked' /\ Pending' /\ \A d \in Call : d # c => bpc'[d] = bpc[d] /\ bresult'[d] = bresult[d]
    BY <1>0, <1>7 DEF B!Matte
  <2>. QED  BY <2>2, <2>3
<1>8. CASE B!Post(c)
  BY <1>0, <1>8 DEF B!Post
<1>9. CASE B!Guide(c)
  BY <1>0, <1>9 DEF B!Guide
<1>10. CASE B!Commit(c)
  <2>1. Target[c] \in Model
    BY <1>10 DEF B!Commit, Matted
  <2>. QED  BY <1>0, <1>10, <2>1 DEF B!Commit
<1>. QED  BY <1>1, <1>2, <1>3, <1>4, <1>5, <1>6, <1>7, <1>8, <1>9, <1>10 DEF B!Step

(* What a step of one call does to the facts about calls.                  *)
LEMMA StepInv ==
  ASSUME IInv, NEW c \in Call, B!Step(c)
  PROVE  IInv'
<1>0. /\ \A d \in Call : d # c => bpc[d] \in {"idle", "done"} /\ bpc'[d] = bpc[d]
      /\ B!TypeOK' /\ Locked' /\ Pending'
  BY Alone, Moves
<1>. USE DEF IInv, B!TypeOK, B!Goto, B!End, B!Continue, B!memory
<1>1. CASE B!Acquire(c)
  <2>1. /\ bpc'[c] = (IF Target[c] = Unload THEN "sam2" ELSE "validate") /\ bpc[c] = "idle"
        /\ UNCHANGED <<bactive, bcached, bsam2, berrors, bclean>>
    BY <1>1 DEF B!Acquire
  <2>2. B!ActiveIsCached'
    BY <1>0, <2>1 DEF B!ActiveIsCached, B!Releasing
  <2>3. Released' /\ Matted'
    BY <1>0, <2>1 DEF Released, Matted
  <2>4. Tidy'
    BY <1>0, <2>1 DEF Tidy
  <2>. QED  BY <1>0, <2>2, <2>3, <2>4
<1>2. CASE B!Validate(c)
  <2>1. /\ bpc[c] = "validate" /\ UNCHANGED <<bactive, bcached, bsam2, berrors>>
        /\ \/ bpc'[c] = "done" /\ ~bclean'
           \/ /\ bpc'[c] = (IF bactive # None /\ bactive # Target[c] THEN "sam2" ELSE "matte")
              /\ bclean' = bclean
    BY <1>2 DEF B!Validate
  <2>2. B!ActiveIsCached'
    BY <1>0, <2>1 DEF B!ActiveIsCached, B!Releasing
  <2>3. Released' /\ Matted'
    BY <1>0, <2>1 DEF Released, Matted
  <2>4. Tidy'
    BY <1>0, <2>1 DEF Tidy
  <2>. QED  BY <1>0, <2>2, <2>3, <2>4
<1>3. CASE B!ReleaseSam2(c)
  <2>1. /\ bpc[c] = "sam2" /\ bpc'[c] = "birefnet" /\ ~bsam2'
        /\ UNCHANGED <<bactive, bcached, bclean>>
    BY <1>3 DEF B!ReleaseSam2
  <2>2. B!ActiveIsCached'
    BY <1>0, <2>1 DEF B!ActiveIsCached, B!Releasing
  <2>3. Released' /\ Matted'
    BY <1>0, <2>1 DEF Released, Matted
  <2>4. Tidy'
    BY <1>0, <2>1 DEF Tidy
  <2>. QED  BY <1>0, <2>2, <2>3, <2>4
<1>4. CASE B!ClearBirefnet(c)
  <2>1. /\ bpc[c] = "birefnet" /\ bpc'[c] = "bria" /\ UNCHANGED <<bactive, bsam2, bclean>>
        /\ bcached' = bcached \ {Birefnet} \/ (bcached' = bcached /\ berrors')
    BY <1>4 DEF B!ClearBirefnet, B!Clear
  <2>2. B!ActiveIsCached'
    BY <1>0, <2>1 DEF B!ActiveIsCached, B!Releasing
  <2>3. Released' /\ Matted'
    BY <1>0, <2>1 DEF Released, Matted
  <2>4. Tidy'
    BY <1>0, <2>1 DEF Tidy
  <2>. QED  BY <1>0, <2>2, <2>3, <2>4
<1>5. CASE B!ClearBria(c)
  <2>1. /\ bpc[c] = "bria" /\ bpc'[c] = "forget" /\ UNCHANGED <<bactive, bsam2, bclean>>
        /\ (bcached' = bcached \ {Bria} /\ berrors' = berrors) \/ (bcached' = bcached /\ berrors')
    BY <1>5 DEF B!ClearBria, B!Clear
  <2>2. B!ActiveIsCached'
    BY <1>0, <2>1 DEF B!ActiveIsCached, B!Releasing
  <2>3. ~berrors' => bcached' = {}
    BY <2>1 DEF Released
  <2>4. Released' /\ Matted'
    BY <1>0, <2>1, <2>3 DEF Released, Matted
  <2>5. Tidy'
    BY <1>0, <2>1 DEF Tidy
  <2>. QED  BY <1>0, <2>2, <2>4, <2>5
<1>6. CASE B!Forget(c)
  <2>1. /\ bpc[c] = "forget" /\ bactive' = None /\ UNCHANGED <<bcached, bsam2>>
        /\ \/ bpc'[c] = "done" /\ ~bclean'
           \/ /\ ~berrors /\ (bclean' => bclean)
              /\ bpc'[c] = (IF Target[c] = Unload THEN "done" ELSE "matte")
    BY <1>6 DEF B!Forget
  <2>2. B!ActiveIsCached'
    BY <1>0, <2>1 DEF B!ActiveIsCached
  <2>3. ~bsam2 /\ (~berrors => bcached = {})
    BY <2>1 DEF Released
  <2>4. Released' /\ Matted'
    BY <1>0, <2>1 DEF Released, Matted
  <2>5. Tidy'
    BY <1>0, <2>1, <2>3 DEF Tidy
  <2>. QED  BY <1>0, <2>2, <2>4, <2>5
<1>7. CASE B!Matte(c)
  <2>1. /\ bpc[c] = "matte" /\ UNCHANGED <<bactive, bsam2, berrors>>
        /\ \/ bcached' = bcached \cup {Target[c]} /\ bpc'[c] = "post" /\ bclean' = bclean
           \/ bcached' \in {bcached, bcached \cup {Target[c]}} /\ bpc'[c] = "done" /\ ~bclean'
    BY <1>7 DEF B!Matte
  <2>2. B!ActiveIsCached'
    BY <1>0, <2>1 DEF B!ActiveIsCached, B!Releasing
  <2>3. Released' /\ Matted'
    BY <1>0, <2>1 DEF Released, Matted
  <2>4. bclean' => /\ bclean /\ bcached' \subseteq {Target[c]} /\ (bsam2 => Target[c] = Birefnet)
                  /\ bpc'[c] = "post"
    BY <2>1 DEF Tidy
  <2>5. bclean' => ~(Bria \in bcached' /\ Birefnet \in bcached') /\ (bsam2' => Bria \notin bcached')
    BY <2>1, <2>4
  <2>6. Tidy'
    BY <1>0, <2>1, <2>4, <2>5 DEF Tidy
  <2>. QED  BY <1>0, <2>2, <2>3, <2>6
<1>8. CASE B!Post(c)
  <2>1. /\ bpc[c] = "post" /\ UNCHANGED <<bactive, bsam2, berrors, bcached>>
        /\ \/ bpc'[c] = "done" /\ ~bclean'
           \/ bpc'[c] = "guide" /\ Target[c] = Birefnet /\ bclean' = bclean
           \/ bpc'[c] = "commit" /\ bclean' = bclean
    BY <1>8 DEF B!Post
  <2>2. B!ActiveIsCached'
    BY <1>0, <2>1 DEF B!ActiveIsCached, B!Releasing
  <2>3. Released' /\ Matted'
    BY <1>0, <2>1 DEF Released, Matted
  <2>4. Tidy'
    BY <1>0, <2>1 DEF Tidy
  <2>. QED  BY <1>0, <2>2, <2>3, <2>4
<1>9. CASE B!Guide(c)
  <2>1. /\ bpc[c] = "guide" /\ UNCHANGED <<bactive, berrors, bcached>>
        /\ \/ bpc'[c] = "done" /\ ~bclean'
           \/ bpc'[c] = "commit" /\ bclean' = bclean
    BY <1>9 DEF B!Guide
  <2>2. B!ActiveIsCached'
    BY <1>0, <2>1 DEF B!ActiveIsCached, B!Releasing
  <2>3. Released' /\ Matted'
    BY <1>0, <2>1 DEF Released, Matted
  <2>4. Tidy'
    BY <1>0, <2>1 DEF Tidy
  <2>. QED  BY <1>0, <2>2, <2>3, <2>4
<1>10. CASE B!Commit(c)
  <2>1. /\ bpc[c] = "commit" /\ bpc'[c] = "done" /\ UNCHANGED <<bsam2, berrors, bcached>>
        /\ \/ bactive' = Target[c] /\ bclean' = bclean
           \/ bactive' = bactive /\ ~bclean'
    BY <1>10 DEF B!Commit
  <2>2. B!ActiveIsCached'
    BY <1>0, <2>1 DEF B!ActiveIsCached, B!Releasing, Matted
  <2>3. Released' /\ Matted'
    BY <1>0, <2>1 DEF Released, Matted
  <2>4. Tidy'
    BY <1>0, <2>1 DEF Tidy
  <2>. QED  BY <1>0, <2>2, <2>3, <2>4
<1>. QED  BY <1>1, <1>2, <1>3, <1>4, <1>5, <1>6, <1>7, <1>8, <1>9, <1>10 DEF B!Step

LEMMA NextInv ==
  ASSUME IInv, [B!Next]_(B!vars) PROVE IInv'
<1>1. CASE UNCHANGED B!vars
  <2>. USE DEF B!vars
  <2>1. B!TypeOK' /\ Locked' /\ Pending' /\ Released' /\ Matted'
    BY <1>1 DEF IInv, B!TypeOK, Locked, Pending, Released, Matted
  <2>2. B!ActiveIsCached' /\ Tidy'
    BY <1>1 DEF IInv, B!ActiveIsCached, B!Releasing, Tidy
  <2>. QED  BY <2>1, <2>2 DEF IInv
<1>. QED  BY <1>1, StepInv DEF B!Next, B!Idle

(* The inductive invariant of the background worker.                       *)
THEOREM BackgroundInvariant == B!Init /\ [][B!Next]_(B!vars) => []IInv
BY InitInv, NextInv, PTL

(* _active_model never names a model that is not in memory.                *)
THEOREM ActiveCached == B!Init /\ [][B!Next]_(B!vars) => []B!ActiveIsCached
<1>1. IInv => B!ActiveIsCached
  BY DEF IInv
<1>. QED  BY <1>1, BackgroundInvariant, PTL

(* While no call has failed, one matting model at most is in memory.       *)
THEOREM SingleWhileClean == B!Init /\ [][B!Next]_(B!vars) => []CleanSingle
<1>1. IInv => CleanSingle
  <2>1. IInv /\ bclean => \A m, n \in bcached : m = n
    BY DEF IInv, B!TypeOK, Tidy
  <2>. QED  BY <2>1 DEF IInv, Tidy, CleanSingle, B!CleanSingle
<1>. QED  BY <1>1, BackgroundInvariant, PTL DEF B!Spec

Resident == bcached # {} \/ bsam2

(* A call that ends leaves the worker as its account says.                 *)
LEMMA Ends ==
  ASSUME IInv, NEW c \in Call, bpc[c] \notin {"idle", "done"}, NEW x, B!End(c, x)
  PROVE  B!M!Leave(c, x)
BY DEF IInv, Locked, Pending, B!End, B!M!Leave

LEMMA BackgroundStep ==
  ASSUME IInv, NEW c \in Call, B!Step(c)
  PROVE  [B!M!Next]_(B!M!vars)
<1>. USE DEF B!Continue, B!M!vars, B!memory
<1>1. CASE B!Acquire(c)
  <2>1. block = None /\ bresult[c] = "none" /\ block' = c /\ UNCHANGED <<bresult, bcached, bsam2>>
    BY <1>1 DEF B!Acquire, IInv, Pending
  <2>. QED  BY <2>1 DEF B!M!Next, B!M!TakeLock
<1>2. ASSUME bpc[c] \notin {"idle", "done"}, B!End(c, "failed"),
             Resident' => Resident \/ Target[c] # Unload
      PROVE  B!M!Next
  <2>1. B!M!Fail(c)
    BY <1>2, Ends DEF B!M!Fail, B!M!Serves, Resident
  <2>. QED  BY <2>1 DEF B!M!Next
<1>3. CASE B!Validate(c) \/ B!Post(c)
  <2>1. bpc[c] \notin {"idle", "done"} /\ UNCHANGED <<bcached, bsam2>>
    BY <1>3 DEF B!Validate, B!Post
  <2>2. B!End(c, "failed") \/ UNCHANGED <<bresult, block>>
    BY <1>3 DEF B!Validate, B!Post
  <2>. QED  BY <1>2, <2>1, <2>2 DEF Resident
<1>4. CASE B!ReleaseSam2(c) \/ B!ClearBirefnet(c) \/ B!ClearBria(c)
  <2>1. UNCHANGED <<bresult, block>> /\ (Resident' => Resident)
    <3>1. CASE B!ReleaseSam2(c)
      BY <3>1 DEF B!ReleaseSam2, Resident
    <3>2. CASE B!ClearBirefnet(c)
      BY <3>2 DEF B!ClearBirefnet, B!Clear, Resident
    <3>3. CASE B!ClearBria(c)
      BY <3>3 DEF B!ClearBria, B!Clear, Resident
    <3>. QED  BY <1>4, <3>1, <3>2, <3>3
  <2>2. block # None
    BY <1>4 DEF B!ReleaseSam2, B!ClearBirefnet, B!ClearBria, IInv, Locked
  <2>3. CASE Resident' <=> Resident
    <3>1. (bcached # {} \/ bsam2)' = (bcached # {} \/ bsam2)
      BY <2>3, Zenon DEF Resident
    <3>. QED  BY <2>1, <3>1
  <2>4. CASE Resident /\ ~Resident'
    BY <2>1, <2>2, <2>4 DEF B!M!Next, B!M!Drop, Resident
  <2>. QED  BY <2>1, <2>3, <2>4
<1>5. CASE B!Forget(c)
  <2>1. /\ bpc[c] = "forget" /\ UNCHANGED <<bcached, bsam2>>
        /\ ~berrors => ~Resident'
    BY <1>5 DEF B!Forget, IInv, Released, Resident
  <2>2. CASE B!End(c, "failed")
    BY <1>2, <2>1, <2>2 DEF Resident
  <2>3. CASE ~berrors /\ Target[c] = Unload /\ B!End(c, "unloaded")
    BY <2>1, <2>3, Ends DEF B!M!Next, B!M!Unloaded, B!M!Serves, Resident
  <2>4. CASE UNCHANGED <<bresult, block>>
    BY <2>1, <2>4
  <2>. QED  BY <1>5, <2>2, <2>3, <2>4 DEF B!Forget
<1>6. CASE B!Matte(c)
  <2>1. bpc[c] = "matte" /\ Target[c] # Unload /\ block = c /\ bsam2' = bsam2
    BY <1>6 DEF B!Matte, IInv, Matted, Locked
  <2>2. CASE B!End(c, "failed")
    BY <1>2, <2>1, <2>2
  <2>3. CASE bcached' = bcached \cup {Target[c]} /\ UNCHANGED <<bresult, block>>
    <3>1. bcached' # {}
      BY <2>3
    <3>2. CASE Resident
      <4>1. (bcached # {} \/ bsam2)' = (bcached # {} \/ bsam2)
        BY <3>1, <3>2, Zenon DEF Resident
      <4>. QED  BY <2>3, <4>1
    <3>3. CASE ~Resident
      BY <2>1, <2>3, <3>1, <3>3 DEF B!M!Next, B!M!Load, B!M!Serves, Resident
    <3>. QED  BY <3>2, <3>3
  <2>. QED  BY <1>6, <2>2, <2>3 DEF B!Matte
<1>7. CASE B!Guide(c) \/ B!Commit(c)
  <2>1. bpc[c] \in {"guide", "commit"} /\ Target[c] # Unload /\ bcached # {} /\ bcached' = bcached
    BY <1>7 DEF B!Guide, B!Commit, IInv, Matted
  <2>2. CASE B!End(c, "failed")
    BY <1>2, <2>1, <2>2
  <2>3. CASE B!End(c, "image")
    <3>1. B!M!Leave(c, "image")
      BY <2>1, <2>3, Ends
    <3>2. (bcached # {} \/ bsam2)' = (bcached # {} \/ bsam2) /\ (bcached # {} \/ bsam2)
      BY <2>1, Zenon
    <3>. QED  BY <2>1, <3>1, <3>2 DEF B!M!Next, B!M!Finish, B!M!Serves
  <2>4. CASE UNCHANGED <<bresult, block>>
    <3>1. (bcached # {} \/ bsam2)' = (bcached # {} \/ bsam2)
      BY <2>1, Zenon
    <3>. QED  BY <2>4, <3>1
  <2>. QED  BY <1>7, <2>2, <2>3, <2>4 DEF B!Guide, B!Commit
<1>. QED  BY <1>1, <1>3, <1>4, <1>5, <1>6, <1>7 DEF B!Step

(* The background worker keeps the account of its memory.                  *)
THEOREM BackgroundContract == B!Init /\ [][B!Next]_(B!vars) => B!BackgroundMemory
<1>1. B!Init => B!M!Init
  BY DEF B!Init, B!M!Init
<1>2. IInv /\ [B!Next]_(B!vars) => [B!M!Next]_(B!M!vars)
  <2>1. CASE UNCHANGED B!vars
    BY <2>1 DEF B!vars, B!M!vars
  <2>. QED  BY <2>1, BackgroundStep DEF B!Next, B!Idle
<1>. QED  BY <1>1, <1>2, BackgroundInvariant, PTL DEF B!BackgroundMemory, B!M!Spec

-----------------------------------------------------------------------------
(* The upscale worker, the names of whose module are U!...                 *)

ULocked == \A c \in Call : upc[c] \notin {"idle", "done"} => ulock = c

UPending == \A c \in Call : upc[c] # "done" => uresult[c] = "none"

(* A backend out of the cache belongs to the call that built it, and one   *)
(* in the cache has a name.                                                *)
UNamed ==
  /\ (\A c \in Call : upc[c] # "insert") => ubuilt = None
  /\ ucached # None => unamed # None
  /\ \A c \in Call :
       /\ upc[c] \in {"validate", "load", "build", "insert", "run", "enhance"}
            => Target[c] # Unload
       /\ upc[c] = "release" => Target[c] = Unload
       /\ upc[c] \in {"build", "insert"} => unamed = Target[c]
       /\ upc[c] = "insert" => ubuilt = Target[c]
       /\ upc[c] \in {"run", "enhance"} => ucached = Target[c]

UTiled ==
  /\ (\A c \in Call : upc[c] # "enhance") => utile = "default"
  /\ \A c \in Call : upc[c] = "enhance" => uold = "default"

UInv == U!TypeOK /\ ULocked /\ UPending /\ UNamed /\ UTiled

LEMMA UInit == U!Init => UInv
<1> SUFFICES ASSUME U!Init PROVE UInv
  OBVIOUS
<1>1. U!TypeOK
  BY DEF U!Init, U!TypeOK
<1>2. ULocked /\ UPending /\ UNamed /\ UTiled
  BY DEF U!Init, ULocked, UPending, UNamed, UTiled
<1>. QED  BY <1>1, <1>2 DEF UInv

LEMMA UAlone ==
  ASSUME UInv, NEW c \in Call, U!Step(c)
  PROVE  \A d \in Call : d # c => upc[d] \in {"idle", "done"}
BY DEF UInv, ULocked, U!Step, U!Acquire, U!Validate, U!LoadCached, U!LoadMissing, U!Build,
       U!Insert, U!SetTile, U!Enhance, U!Release

LEMMA UMoves ==
  ASSUME UInv, NEW c \in Call, U!Step(c)
  PROVE  /\ U!TypeOK' /\ ULocked' /\ UPending'
         /\ \A d \in Call : d # c => upc'[d] = upc[d] /\ uresult'[d] = uresult[d]
<1>0. \A d \in Call : d # c => upc[d] \in {"idle", "done"}
  BY UAlone
<1>t. upc[c] \in {"load", "build"} => Target[c] \in Model
  BY DEF UInv, UNamed
<1>. USE DEF UInv, U!TypeOK, ULocked, UPending, U!Goto, U!End, U!Continue, U!memory
<1>1. CASE U!Acquire(c) \/ U!Validate(c)
  BY <1>0, <1>1 DEF U!Acquire, U!Validate
<1>2. CASE U!LoadCached(c) \/ U!LoadMissing(c)
  BY <1>0, <1>t, <1>2 DEF U!LoadCached, U!LoadMissing
<1>3. CASE U!Build(c) \/ U!Insert(c)
  BY <1>0, <1>t, <1>3 DEF U!Build, U!Insert
<1>4. CASE U!SetTile(c)
  BY <1>0, <1>4 DEF U!SetTile
<1>5. CASE U!Enhance(c)
  BY <1>0, <1>5 DEF U!Enhance
<1>6. CASE U!Release(c)
  BY <1>0, <1>6 DEF U!Release
<1>. QED  BY <1>1, <1>2, <1>3, <1>4, <1>5, <1>6 DEF U!Step

LEMMA UStep ==
  ASSUME UInv, NEW c \in Call, U!Step(c)
  PROVE  UInv'
<1>0. /\ \A d \in Call : d # c => upc[d] \in {"idle", "done"} /\ upc'[d] = upc[d]
      /\ U!TypeOK' /\ ULocked' /\ UPending'
  BY UAlone, UMoves
<1>. USE DEF UInv, U!TypeOK, U!Goto, U!End, U!Continue, U!memory
<1>1. CASE U!Acquire(c)
  <2>1. /\ upc'[c] = (IF Target[c] = Unload THEN "release" ELSE "validate") /\ upc[c] = "idle"
        /\ UNCHANGED <<ucached, ubuilt, unamed, utile, uold>>
    BY <1>1 DEF U!Acquire
  <2>. QED  BY <1>0, <2>1 DEF UNamed, UTiled
<1>2. CASE U!Validate(c) \/ U!LoadCached(c)
  <2>1. /\ UNCHANGED <<ucached, ubuilt, unamed, utile, uold>>
        /\ \/ upc[c] = "validate" /\ upc'[c] \in {"done", "load"}
           \/ upc[c] = "load" /\ upc'[c] = "run" /\ ucached = Target[c]
    BY <1>2 DEF U!Validate, U!LoadCached
  <2>. QED  BY <1>0, <2>1 DEF UNamed, UTiled
<1>3. CASE U!LoadMissing(c)
  <2>1. /\ upc[c] = "load" /\ UNCHANGED <<ucached, ubuilt, utile, uold>>
        /\ \/ upc'[c] = "done" /\ unamed' = unamed
           \/ upc'[c] = "build" /\ unamed' = Target[c]
    BY <1>3 DEF U!LoadMissing
  <2>. QED  BY <1>0, <2>1 DEF UNamed, UTiled
<1>4. CASE U!Build(c)
  <2>1. /\ upc[c] = "build" /\ UNCHANGED <<ucached, unamed, utile, uold>>
        /\ \/ upc'[c] = "done" /\ ubuilt' = ubuilt
           \/ upc'[c] = "insert" /\ ubuilt' = Target[c]
    BY <1>4 DEF U!Build
  <2>. QED  BY <1>0, <2>1 DEF UNamed, UTiled
<1>5. CASE U!Insert(c)
  <2>1. /\ upc[c] = "insert" /\ upc'[c] = "run" /\ UNCHANGED <<unamed, uold>>
        /\ ucached' = ubuilt /\ ubuilt' = None /\ utile' = "default"
    BY <1>5 DEF U!Insert
  <2>. QED  BY <1>0, <2>1 DEF UNamed, UTiled
<1>6. CASE U!SetTile(c)
  <2>1. /\ upc[c] = "run" /\ upc'[c] = "enhance" /\ uold' = utile
        /\ UNCHANGED <<ucached, ubuilt, unamed>>
    BY <1>6 DEF U!SetTile
  <2>. QED  BY <1>0, <2>1 DEF UNamed, UTiled
<1>7. CASE U!Enhance(c)
  <2>1. /\ upc[c] = "enhance" /\ upc'[c] = "done" /\ utile' = uold
        /\ UNCHANGED <<ucached, ubuilt, unamed, uold>>
    BY <1>7 DEF U!Enhance
  <2>. QED  BY <1>0, <2>1 DEF UNamed, UTiled
<1>8. CASE U!Release(c)
  <2>1. /\ upc[c] = "release" /\ upc'[c] = "done" /\ UNCHANGED <<ubuilt, uold>>
        /\ ucached' = None /\ unamed' = None /\ utile' = "default"
    BY <1>8 DEF U!Release
  <2>. QED  BY <1>0, <2>1 DEF UNamed, UTiled
<1>. QED  BY <1>1, <1>2, <1>3, <1>4, <1>5, <1>6, <1>7, <1>8 DEF U!Step

LEMMA UNext ==
  ASSUME UInv, [U!Next]_(U!vars) PROVE UInv'
<1>1. CASE UNCHANGED U!vars
  BY <1>1 DEF UInv, U!TypeOK, ULocked, UPending, UNamed, UTiled, U!vars
<1>. QED  BY <1>1, UStep DEF U!Next, U!Idle

(* The inductive invariant of the upscale worker.                          *)
THEOREM UpscaleInvariant == U!Init /\ [][U!Next]_(U!vars) => []UInv
BY UInit, UNext, PTL

(* The health route never denies a backend that is in memory.              *)
THEOREM HealthOwns == U!Init /\ [][U!Next]_(U!vars) => []HealthOwnsUp
<1>1. UInv => HealthOwnsUp
  BY DEF UInv, UNamed, HealthOwnsUp, U!HealthOwnsUp, U!Held
<1>. QED  BY <1>1, UpscaleInvariant, PTL

(* A tile size does not reach the next request.                            *)
THEOREM TileBack == U!Init /\ [][U!Next]_(U!vars) => []TileRestored
<1>1. UInv => TileRestored
  BY DEF UInv, ULocked, UTiled, TileRestored, U!TileRestored
<1>. QED  BY <1>1, UpscaleInvariant, PTL

(* An image is made by the model that was asked for.                       *)
THEOREM TargetRuns == U!Init /\ [][U!Next]_(U!vars) => []RunsTarget
<1>1. UInv => RunsTarget
  <2>1. SUFFICES ASSUME UInv, NEW c \in Call, upc[c] \in {"run", "enhance"}
                 PROVE  U!Held = {Target[c]}
    BY DEF RunsTarget, U!RunsTarget
  <2>2. \A d \in Call : upc[d] # "insert"
    BY <2>1 DEF UInv, ULocked
  <2>3. ucached = Target[c] /\ ubuilt = None /\ Target[c] # None
    BY <2>1, <2>2 DEF UInv, UNamed
  <2>. QED  BY <2>3 DEF U!Held
<1>. QED  BY <1>1, UpscaleInvariant, PTL

(* A call that ends leaves the worker as its account says.                 *)
LEMMA UEnds ==
  ASSUME UInv, NEW c \in Call, upc[c] \notin {"idle", "done"}, NEW x, U!End(c, x)
  PROVE  U!M!Leave(c, x)
BY DEF UInv, ULocked, UPending, U!End, U!M!Leave

LEMMA UpscaleStep ==
  ASSUME UInv, NEW c \in Call, U!Step(c)
  PROVE  [U!M!Next]_(U!M!vars)
<1>. USE DEF U!Continue, U!M!vars, U!memory
<1>1. CASE U!Acquire(c)
  <2>1. ulock = None /\ uresult[c] = "none" /\ ulock' = c /\ uresult' = uresult
        /\ U!Held' = U!Held
    BY <1>1 DEF U!Acquire, U!Held, UInv, UPending
  <2>. QED  BY <2>1 DEF U!M!Next, U!M!TakeLock
<1>2. ASSUME upc[c] \notin {"idle", "done"}, U!End(c, "failed"), U!Held' \in {U!Held, {}}
      PROVE  U!M!Fail(c)
  BY <1>2, UEnds DEF U!M!Fail
<1>3. CASE U!Validate(c) \/ U!LoadCached(c) \/ U!LoadMissing(c)
  <2>1. upc[c] \notin {"idle", "done"} /\ U!Held' = U!Held
    BY <1>3 DEF U!Validate, U!LoadCached, U!LoadMissing, U!Held
  <2>2. U!End(c, "failed") \/ UNCHANGED <<uresult, ulock>>
    BY <1>3 DEF U!Validate, U!LoadCached, U!LoadMissing
  <2>. QED  BY <1>2, <2>1, <2>2 DEF U!M!Next
<1>4. CASE U!Build(c)
  <2>1. upc[c] = "build" /\ Target[c] \in Model /\ ulock = c /\ ucached' = ucached
    BY <1>4 DEF U!Build, UInv, ULocked, UNamed
  <2>2. CASE U!End(c, "failed") /\ ubuilt' = ubuilt
    BY <1>2, <2>1, <2>2 DEF U!Held, U!M!Next
  <2>3. CASE UNCHANGED <<uresult, ulock>> /\ ubuilt' = Target[c]
    <3>1. U!Held' # {} /\ Target[c] # Unload
      BY <2>1, <2>3 DEF U!Held
    <3>. QED  BY <2>1, <2>3, <3>1 DEF U!M!Next, U!M!Load, U!M!Serves
  <2>. QED  BY <1>4, <2>2, <2>3 DEF U!Build
<1>5. CASE U!Insert(c)
  <2>1. ubuilt = Target[c] /\ Target[c] \in Model
    BY <1>5 DEF U!Insert, UInv, UNamed
  <2>2. U!Held # {} /\ U!Held' # {} /\ UNCHANGED <<uresult, ulock>>
    BY <1>5, <2>1 DEF U!Insert, U!Held
  <2>. QED  BY <2>2
<1>6. CASE U!SetTile(c)
  BY <1>6 DEF U!SetTile, U!Held
<1>7. CASE U!Enhance(c)
  <2>1. upc[c] = "enhance" /\ ucached = Target[c] /\ Target[c] \in Model /\ U!Held' = U!Held
    BY <1>7 DEF U!Enhance, U!Held, UInv, UNamed
  <2>2. U!Held # {} /\ Target[c] # Unload
    BY <2>1 DEF U!Held
  <2>3. CASE U!End(c, "image")
    BY <2>1, <2>2, <2>3, UEnds DEF U!M!Next, U!M!Finish, U!M!Serves
  <2>4. CASE U!End(c, "failed")
    BY <1>2, <2>1, <2>4 DEF U!M!Next
  <2>. QED  BY <1>7, <2>3, <2>4 DEF U!Enhance
<1>8. CASE U!Release(c)
  <2>1. upc[c] = "release" /\ \A d \in Call : upc[d] # "insert"
    BY <1>8, UAlone DEF U!Release
  <2>2. Target[c] = Unload /\ ubuilt = None
    BY <2>1 DEF UInv, UNamed
  <2>3. U!Held' = {}
    BY <1>8, <2>2 DEF U!Release, U!Held
  <2>4. CASE U!End(c, "unloaded")
    BY <2>1, <2>2, <2>3, <2>4, UEnds DEF U!M!Next, U!M!Unloaded, U!M!Serves
  <2>5. CASE U!End(c, "failed")
    BY <1>2, <2>1, <2>3, <2>5 DEF U!M!Next
  <2>. QED  BY <1>8, <2>4, <2>5 DEF U!Release
<1>. QED  BY <1>1, <1>3, <1>4, <1>5, <1>6, <1>7, <1>8 DEF U!Step

(* The upscale worker keeps the account of its memory.                     *)
THEOREM UpscaleContract == U!Init /\ [][U!Next]_(U!vars) => U!UpscaleMemory
<1>1. U!Init => U!M!Init
  BY DEF U!Init, U!M!Init, U!Held
<1>2. UInv /\ [U!Next]_(U!vars) => [U!M!Next]_(U!M!vars)
  <2>1. CASE UNCHANGED U!vars
    BY <2>1 DEF U!vars, U!M!vars, U!Held
  <2>. QED  BY <2>1, UpscaleStep DEF U!Next, U!Idle
<1>. QED  BY <1>1, <1>2, UpscaleInvariant, PTL DEF U!UpscaleMemory, U!M!Spec

-----------------------------------------------------------------------------
(* Beside one another each process does what it does alone, so what its    *)
(* initial state and its steps imply holds of it there too.                *)
THEOREM Apart ==
  ProcessesSpec => /\ Spec
                   /\ B!Init /\ [][B!Next]_(B!vars)
                   /\ U!Init /\ [][U!Next]_(U!vars)
                   /\ F!Init /\ [][F!Next]_(F!vars)
                   /\ D!Init /\ [][D!Next]_(D!vars)
<1>1. ProcessesInit => Init /\ B!Init /\ U!Init /\ F!Init /\ D!Init
  BY DEF ProcessesInit
<1>2. [ProcessesNext]_<<vars, bvars, uvars, fvars, dvars>>
        => /\ [Next]_vars /\ [B!Next]_(B!vars) /\ [U!Next]_(U!vars)
           /\ [F!Next]_(F!vars) /\ [D!Next]_(D!vars)
  BY DEF ProcessesNext, bvars, uvars, fvars, dvars, B!vars, U!vars, F!vars, D!vars
<1>. QED  BY <1>1, <1>2, PTL DEF ProcessesSpec, Spec
=============================================================================
