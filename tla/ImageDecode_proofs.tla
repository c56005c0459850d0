------------------------- MODULE ImageDecode_proofs -------------------------
(***************************************************************************)
(* Proofs about the limit on pictures, for any number of checks in any     *)
(* threads.  The limit is lifted exactly while the lock's holder is        *)
(* between Lift and Restore, and what it saved is the library's number.    *)
(* The names of the module ImageDecode are D!..., beside the workers.      *)
(***************************************************************************)
EXTENDS WorkerProcesses, TLAPS

Inside == {"lift", "decode", "restore", "leave"}

HolderInside == \A t \in Check : dpc[t] \in Inside => dlock = t

(* What the limit is, told from where the holder of the lock is.           *)
LimitTold ==
  /\ \A t \in Check : dpc[t] = "lift" => Kind[t] = "output"
  /\ \A t \in Check : dpc[t] = "restore" => Kind[t] = "output"
  /\ \A t \in Check :
       dpc[t] \in {"lift", "leave"} \/ (dpc[t] = "decode" /\ Kind[t] = "upload")
         => dlimit = "number"
  /\ \A t \in Check :
       dpc[t] = "restore" \/ (dpc[t] = "decode" /\ Kind[t] = "output") => dlimit = "none"
  /\ dlock = Nobody => dlimit = "number"

Saved == dprevious = [t \in Check |-> "number"]

(* An upload has passed only after its second pass.                        *)
UploadResult ==
  \A t \in Check :
    /\ Kind[t] = "upload" /\ Size[t] = "huge" => dresult[t] # "ok"
    /\ Kind[t] = "upload" /\ dpc[t] = "leave" => dresult[t] # "none"

LockHeld == dlock # Nobody => dpc[dlock] \in Inside

IInv == D!TypeOK /\ HolderInside /\ LockHeld /\ LimitTold /\ Saved /\ UploadResult

USE KindAssumption, SizeAssumption, NobodyAssumption

LEMMA InitInv == D!Init => IInv
BY DEF D!Init, IInv, D!TypeOK, HolderInside, LockHeld, LimitTold, Saved, UploadResult, Inside

(* How a pass that ends with x moves the check t.                          *)
LEMMA AfterFacts ==
  ASSUME D!TypeOK, NEW t \in Check, NEW x \in {"none", "ok", "invalid", "too_large"},
         D!After(t, x)
  PROVE  /\ dpc' \in [Check -> {"measure", "enter", "lift", "decode", "restore", "leave", "done"}]
         /\ dpass' \in [Check -> {1, 2}]
         /\ dresult' = [dresult EXCEPT ![t] = x]
         /\ \A u \in Check \ {t} : dpc'[u] = dpc[u]
         /\ \/ Kind[t] = "output" /\ dpc'[t] = "restore"
            \/ Kind[t] = "upload" /\ dpc'[t] = dpc[t] /\ x = "none"
            \/ Kind[t] = "upload" /\ dpc'[t] = "leave" /\ (x = "none" => dpass[t] = 2)
BY DEF D!After, D!Goto, D!Decide, D!TypeOK

LEMMA DecodeFacts ==
  ASSUME IInv, NEW t \in Check, D!Decode(t)
  PROVE  IInv'
<1>. D!TypeOK /\ HolderInside /\ LockHeld /\ LimitTold /\ Saved /\ UploadResult
  BY DEF IInv
<1>1. PICK x \in {"none", "ok", "invalid", "too_large"} :
        /\ D!After(t, x)
        /\ Kind[t] = "upload" /\ x = "none" => dpass[t] # 2
        /\ x = "ok" => ~(Size[t] = "huge" /\ dlimit = "number")
  BY DEF D!Decode
<1>2. /\ dpc[t] = "decode" /\ dlock = t
      /\ UNCHANGED <<dlock, dlimit, dprevious>>
  BY DEF D!Decode, HolderInside, Inside
<1>3. D!TypeOK'
  BY <1>1, <1>2, AfterFacts DEF D!TypeOK
<1>4. HolderInside' /\ LockHeld'
  BY <1>1, <1>2, AfterFacts DEF HolderInside, LockHeld, Inside
<1>5. LimitTold' /\ Saved'
  BY <1>1, <1>2, AfterFacts DEF LimitTold, Saved, HolderInside, Inside
<1>6. UploadResult'
  BY <1>1, <1>2, AfterFacts DEF UploadResult, LimitTold, D!TypeOK
<1>. QED  BY <1>3, <1>4, <1>5, <1>6 DEF IInv

LEMMA StepInv ==
  ASSUME IInv, NEW t \in Check, D!Step(t)
  PROVE  IInv'
<1>. D!TypeOK /\ HolderInside /\ LockHeld /\ LimitTold /\ Saved /\ UploadResult
  BY DEF IInv
<1>. USE DEF Inside, D!Goto, D!Decide
<1>1. CASE D!Measure(t)
  <2>1. /\ dpc[t] = "measure"
        /\ \A u \in Check \ {t} : dpc'[u] = dpc[u] /\ dresult'[u] = dresult[u]
        /\ dpc'[t] \in {"done", "enter"} /\ dresult'[t] \in {dresult[t], "invalid", "too_large"}
        /\ UNCHANGED <<dpass, dlock, dlimit, dprevious>>
        /\ D!TypeOK'
    BY <1>1 DEF D!Measure, D!TypeOK
  <2>. QED
    BY <2>1 DEF IInv, HolderInside, LockHeld, LimitTold, Saved, UploadResult, D!TypeOK
<1>2. CASE D!Enter(t)
  <2>1. D!TypeOK' /\ HolderInside' /\ LockHeld'
    BY <1>2 DEF D!Enter, D!TypeOK, HolderInside, LockHeld
  <2>2. Saved'
    BY <1>2 DEF D!Enter, Saved, LimitTold, D!TypeOK
  <2>3. LimitTold' /\ UploadResult'
    BY <1>2 DEF D!Enter, LimitTold, UploadResult, D!TypeOK, HolderInside
  <2>. QED  BY <2>1, <2>2, <2>3 DEF IInv
<1>3. CASE D!Lift(t)
  <2>1. D!TypeOK' /\ HolderInside' /\ LockHeld' /\ Saved' /\ UploadResult'
    BY <1>3 DEF D!Lift, D!TypeOK, HolderInside, LockHeld, Saved, UploadResult
  <2>2. LimitTold'
    BY <1>3 DEF D!Lift, LimitTold, D!TypeOK, HolderInside
  <2>. QED  BY <2>1, <2>2 DEF IInv
<1>4. CASE D!Decode(t)
  BY <1>4, DecodeFacts
<1>5. CASE D!Restore(t)
  <2>1. D!TypeOK' /\ HolderInside' /\ LockHeld' /\ Saved' /\ UploadResult'
    BY <1>5 DEF D!Restore, D!TypeOK, HolderInside, LockHeld, Saved, UploadResult, LimitTold
  <2>2. dlimit' = "number"
    BY <1>5 DEF D!Restore, Saved
  <2>3. LimitTold'
    BY <1>5, <2>2 DEF D!Restore, LimitTold, D!TypeOK, HolderInside
  <2>. QED  BY <2>1, <2>3 DEF IInv
<1>6. CASE D!LeaveLock(t)
  <2>1. D!TypeOK'
    BY <1>6 DEF D!LeaveLock, D!TypeOK
  <2>2. /\ dpc[t] = "leave" /\ dpc'[t] \in {"enter", "done"} /\ dlimit = "number"
        /\ \A u \in Check \ {t} : dpc'[u] = dpc[u] /\ dresult'[u] = dresult[u]
        /\ dresult[t] # "none" \/ Kind[t] = "upload" => dresult'[t] = dresult[t]
        /\ dlock' = Nobody /\ UNCHANGED <<dlimit, dprevious>>
    BY <1>6 DEF D!LeaveLock, D!TypeOK, LimitTold, UploadResult
  <2>3. HolderInside' /\ LockHeld'
    BY <2>2 DEF HolderInside, LockHeld
  <2>4. LimitTold' /\ Saved' /\ UploadResult'
    BY <2>2 DEF LimitTold, Saved, UploadResult, HolderInside
  <2>. QED  BY <2>1, <2>3, <2>4 DEF IInv
<1>. QED  BY <1>1, <1>2, <1>3, <1>4, <1>5, <1>6 DEF D!Step

(* The invariant the results rest on.                                      *)
THEOREM Invariant == D!Init /\ [][D!Next]_(D!vars) => []IInv
<1>1. IInv /\ [D!Next]_(D!vars) => IInv'
  <2>1. IInv /\ UNCHANGED D!vars => IInv'
    BY DEF IInv, D!vars, D!TypeOK, HolderInside, LockHeld, LimitTold, Saved, UploadResult
  <2>. QED  BY <2>1, StepInv DEF D!Next, D!Idle
<1>. QED  BY InitInv, <1>1, PTL

(* Whenever nobody decodes, the library's limit is in force.               *)
THEOREM LimitKept == D!Init /\ [][D!Next]_(D!vars) => []D!LimitInForce
<1>1. IInv => D!LimitInForce
  BY DEF IInv, LimitTold, D!LimitInForce
<1>. QED  BY Invariant, <1>1, PTL

(* Every picture is decoded under the limit that is meant for it.          *)
THEOREM LimitRight == D!Init /\ [][D!Next]_(D!vars) => []RightLimit
<1>1. IInv => RightLimit
  BY DEF IInv, LimitTold, RightLimit, D!RightLimit
<1>. QED  BY Invariant, <1>1, PTL

(* No upload slips through while another thread has lifted the limit.      *)
THEOREM HugeNeverAdmitted == D!Init /\ [][D!Next]_(D!vars) => []HugeRefused
<1>1. IInv => HugeRefused
  BY DEF IInv, UploadResult, HugeRefused, D!HugeRefused
<1>. QED  BY Invariant, <1>1, PTL
=============================================================================
