---------------------------- MODULE Transfer_proofs ----------------------------
(***************************************************************************)
(* Proofs about the sizes of a request, for every set of requests and      *)
(* every choice of the limits that satisfies the assumptions of Transfer.  *)
(***************************************************************************)
EXTENDS Transfer, TLAPS

Stages == {"admit", "receive", "read", "validate", "send", "spool", "check",
           "run", "answer", "download", "output", "done"}

(* The stages at which the body has been received whole.                   *)
Received == Stages \ {"admit", "receive", "done"}

TypeOK ==
  /\ client \in Clients /\ stage \in Stages
  /\ consumed \in Nat /\ data \in Nat /\ got \in Nat
  /\ produced \in Nat /\ total \in Nat /\ returned \in Nat

(* What has been read so far, at each stage.                               *)
Read ==
  /\ consumed <= client.body /\ consumed <= BodyLimit
  /\ stage \in Received => consumed = client.body
  /\ stage \in {"read", "validate", "send", "spool", "check"} => client.route # "generation"
  /\ stage \in {"validate", "send", "spool"} => data = client.file /\ data <= FileLimit
  /\ stage \in {"admit", "receive", "read", "validate", "send"} => got = 0
  /\ stage = "spool" => got <= data
  /\ got <= FileLimit
  /\ stage \in {"check", "run", "answer", "download", "output"} => got = client.file

(* What the gateway has checked when the worker checks it again.           *)
Checked ==
  /\ stage = "check" => client.route \in Processing
  /\ stage \in {"send", "spool", "check"} /\ client.route \in Processing =>
       /\ ~DimensionsExceed(ProcessingLimits)
       /\ client.route = "upscale" => ~NativeExceeds(ProcessingLimits)

(* The answer on its way back.                                             *)
Answered ==
  /\ total <= MaxEncodedOutput
  /\ stage \in {"admit", "receive", "read", "validate", "send", "spool", "check",
                "run", "answer"} => total = 0
  /\ stage = "download" => total <= produced
  /\ stage = "output" => returned = produced
  /\ stage = "output" /\ client.route \in Processing => returned <= MaxEncodedOutput

Opened ==
  /\ stage \in {"admit", "receive", "validate", "send", "check", "answer", "output", "done"}
       => open = {}
  /\ stage = "read" => open = {"upload"}

Ended ==
  /\ WorkerAgrees
  /\ AnswerEntire
  /\ ProcessingNotBlamed
  /\ stage # "done" => result = "none"

IInv == TypeOK /\ Read /\ Checked /\ Answered /\ Opened /\ Ended

USE ClientAssumption, LimitAssumption

(* The limits of a request are numbers.                                    *)
LEMMA LimitTypes ==
  ASSUME client \in Clients
  PROVE  /\ BodyLimit \in Nat /\ FileLimit \in Nat /\ Ceiling \in Nat
         /\ client.body \in Nat /\ client.file \in Nat /\ client.file <= client.body
         /\ client.width \in Nat /\ client.height \in Nat
         /\ client.route \in Processing => FileLimit <= WorkerMaxUpload /\ Ceiling = MaxEncodedOutput
BY AgreementAssumption DEF BodyLimit, FileLimit, Ceiling

(* A picture within the gateway's limits is within a worker's.             *)
LEMMA WorkerAdmits ==
  ASSUME client \in Clients
  PROVE  /\ ~DimensionsExceed(ProcessingLimits) => ~DimensionsExceed(WorkerLimits)
         /\ ~NativeExceeds(ProcessingLimits) => ~NativeExceeds(WorkerLimits)
<1>. DEFINE pixels == client.width * client.height
            native == (client.width * 4) * (client.height * 4)
<1>1. client.width \in Nat /\ client.height \in Nat
  BY LimitTypes
<1>2. pixels \in Nat /\ native \in Nat
  BY <1>1
<1>3. ProcessingLimits \in Limits /\ WorkerLimits \in Limits
  OBVIOUS
<1>. HIDE DEF pixels, native
<1>4. \A l : DimensionsExceed(l) <=> \/ client.width > l.side \/ client.height > l.side
                                     \/ pixels > l.pixels \/ pixels * 4 > l.decoded
  BY DEF DimensionsExceed, pixels
<1>5. \A l : NativeExceeds(l) <=>
        \/ client.width * 4 > l.nativeSide \/ client.height * 4 > l.nativeSide
        \/ native > l.nativePixels \/ native * 12 > l.nativeBytes
  BY DEF NativeExceeds, native
<1>6. ~DimensionsExceed(ProcessingLimits) => ~DimensionsExceed(WorkerLimits)
  BY <1>1, <1>2, <1>3, <1>4, AgreementAssumption DEF Limits
<1>7. ~NativeExceeds(ProcessingLimits) => ~NativeExceeds(WorkerLimits)
  BY <1>1, <1>2, <1>3, <1>5, AgreementAssumption DEF Limits
<1>. QED  BY <1>6, <1>7

LEMMA InitInv == Init => IInv
<1> SUFFICES ASSUME Init PROVE IInv
  OBVIOUS
<1>1. TypeOK
  BY DEF Init, TypeOK, Stages
<1>2. Read
  BY LimitTypes DEF Init, Read, Received
<1>3. Checked /\ Answered /\ Opened
  BY DEF Init, Checked, Answered, Opened
<1>4. Ended
  BY DEF Init, Ended, WorkerAgrees, AnswerEntire, ProcessingNotBlamed
<1>. QED  BY <1>1, <1>2, <1>3, <1>4 DEF IInv

-----------------------------------------------------------------------------
(* The client of a request never changes, so neither do its limits.        *)
LEMMA Fixed ==
  ASSUME client' = client
  PROVE  /\ BodyLimit' = BodyLimit /\ FileLimit' = FileLimit /\ Ceiling' = Ceiling
         /\ \A l : DimensionsExceed(l)' <=> DimensionsExceed(l)
         /\ \A l : NativeExceeds(l)' <=> NativeExceeds(l)
BY DEF BodyLimit, FileLimit, Ceiling, DimensionsExceed, NativeExceeds

LEMMA NextClient == [Next]_vars => client' = client
BY DEF Next, vars, AdmitDeclared, Receive, Disconnect, Parse, ReadUpload, Validate, Send, Spool,
       SpoolDone, ReadWhole, Check, Run, Answer, Download, Lose, TakeBytes, CheckOutput, Done

LEMMA TypeInv ==
  ASSUME IInv, [Next]_vars PROVE TypeOK'
<1>. USE DEF IInv, TypeOK, Stages, Proceed, Finish
<1>1. CASE AdmitDeclared
  BY <1>1 DEF AdmitDeclared
<1>2. CASE Receive
  <2>1. PICK n \in 1 .. client.body - consumed :
          IF consumed + n > BodyLimit
            THEN (Finish("request_too_large") \/ Finish("unparsed")) /\ UNCHANGED consumed
            ELSE consumed' = consumed + n /\ UNCHANGED <<stage, result>>
    BY <1>2 DEF Receive
  <2>. QED  BY <1>2, <2>1, LimitTypes DEF Receive
<1>3. CASE Disconnect \/ Parse
  BY <1>3 DEF Disconnect, Parse
<1>4. CASE ReadUpload
  BY <1>4, LimitTypes DEF ReadUpload, Least
<1>5. CASE Validate \/ Send
  BY <1>5 DEF Validate, Send
<1>6. CASE Spool
  BY <1>6, LimitTypes DEF Spool, Least
<1>7. CASE SpoolDone \/ ReadWhole \/ Check
  BY <1>7 DEF SpoolDone, ReadWhole, Check
<1>8. CASE Run
  BY <1>8 DEF Run
<1>9. CASE Answer
  BY <1>9 DEF Answer
<1>10. CASE Download
  BY <1>10 DEF Download
<1>11. CASE Lose \/ TakeBytes \/ CheckOutput
  BY <1>11 DEF Lose, TakeBytes, CheckOutput
<1>12. CASE Done \/ UNCHANGED vars
  BY <1>12 DEF Done, vars
<1>. QED  BY <1>1, <1>2, <1>3, <1>4, <1>5, <1>6, <1>7, <1>8, <1>9, <1>10, <1>11, <1>12 DEF Next

(* The counters: each step that adds to one has compared the sum first.    *)
LEMMA ReadInv ==
  ASSUME IInv, [Next]_vars PROVE Read'
<1>0. client' = client /\ BodyLimit' = BodyLimit /\ FileLimit' = FileLimit
  BY NextClient, Fixed
<1>. USE DEF IInv, TypeOK, Stages, Proceed, Finish, Read, Received
<1>1. CASE AdmitDeclared
  BY <1>0, <1>1 DEF AdmitDeclared
<1>2. CASE Receive
  BY <1>0, <1>2, LimitTypes DEF Receive
<1>3. CASE Disconnect \/ Parse
  BY <1>0, <1>3 DEF Disconnect, Parse
<1>4. CASE ReadUpload
  BY <1>0, <1>4, LimitTypes DEF ReadUpload, Least
<1>5. CASE Validate
  <2>1. stage' \in {"send", "done"} /\ stage = "validate" /\ UNCHANGED <<consumed, data, got>>
    BY <1>5 DEF Validate
  <2>. QED  BY <1>0, <2>1, LimitTypes
<1>13. CASE Send
  <2>1. stage' = "spool" /\ stage = "send" /\ UNCHANGED <<consumed, data, got>>
    BY <1>13 DEF Send
  <2>2. consumed' = client.body /\ got' = 0 /\ data' = client.file /\ data' <= FileLimit
    BY <2>1
  <2>3. client.route # "generation" /\ data' \in Nat /\ got' <= data' /\ got' <= FileLimit
    BY <2>1, <2>2, LimitTypes
  <2>. QED  BY <1>0, <2>1, <2>2, <2>3
<1>6. CASE Spool
  BY <1>0, <1>6, LimitTypes DEF Spool, Least
<1>7. CASE SpoolDone \/ ReadWhole \/ Check
  BY <1>0, <1>7 DEF SpoolDone, ReadWhole, Check
<1>8. CASE Run
  BY <1>0, <1>8 DEF Run
<1>9. CASE Answer
  BY <1>0, <1>9 DEF Answer
<1>10. CASE Download
  BY <1>0, <1>10 DEF Download
<1>11. CASE Lose \/ TakeBytes \/ CheckOutput
  BY <1>0, <1>11 DEF Lose, TakeBytes, CheckOutput
<1>12. CASE Done \/ UNCHANGED vars
  BY <1>0, <1>12 DEF Done, vars
<1>. QED  BY <1>1, <1>2, <1>3, <1>4, <1>5, <1>6, <1>7, <1>8, <1>9, <1>10, <1>11, <1>12, <1>13 DEF Next

(* What the route has checked stays checked: the picture does not change.  *)
LEMMA CheckedInv ==
  ASSUME IInv, [Next]_vars PROVE Checked'
<1>0. /\ client' = client
      /\ DimensionsExceed(ProcessingLimits)' <=> DimensionsExceed(ProcessingLimits)
      /\ NativeExceeds(ProcessingLimits)' <=> NativeExceeds(ProcessingLimits)
  BY NextClient, Fixed
<1>. USE DEF IInv, TypeOK, Read, Proceed, Finish, Checked
<1>1. CASE Validate
  <2>1. CASE Proceed("send")
    <3>1. client.route \in Processing =>
            /\ ~DimensionsExceed(ProcessingLimits)
            /\ client.route = "upscale" => ~NativeExceeds(ProcessingLimits)
      BY <1>1, <2>1 DEF Validate, Processing
    <3>. QED  BY <1>0, <2>1, <3>1
  <2>2. CASE stage' = "done"
    BY <2>2
  <2>. QED  BY <1>1, <2>1, <2>2 DEF Validate
<1>2. CASE SpoolDone
  BY <1>0, <1>2 DEF SpoolDone, Processing
<1>3. CASE Send \/ Spool
  BY <1>0, <1>3 DEF Send, Spool
<1>4. CASE AdmitDeclared \/ Receive \/ Disconnect \/ Parse \/ ReadUpload
  BY <1>0, <1>4 DEF AdmitDeclared, Receive, Disconnect, Parse, ReadUpload
<1>5. CASE ReadWhole \/ Check \/ Run \/ Answer
  BY <1>0, <1>5 DEF ReadWhole, Check, Run, Answer
<1>6. CASE Download \/ Lose \/ TakeBytes \/ CheckOutput
  BY <1>0, <1>6 DEF Download, Lose, TakeBytes, CheckOutput
<1>7. CASE Done \/ UNCHANGED vars
  BY <1>0, <1>7 DEF Done, vars
<1>. QED  BY <1>1, <1>2, <1>3, <1>4, <1>5, <1>6, <1>7 DEF Next

LEMMA AnsweredInv ==
  ASSUME IInv, [Next]_vars PROVE Answered'
<1>0. client' = client
  BY NextClient
<1>. USE DEF IInv, TypeOK, Proceed, Finish, Answered
<1>1. CASE AdmitDeclared \/ Receive \/ Disconnect \/ Parse \/ ReadUpload
  BY <1>0, <1>1 DEF AdmitDeclared, Receive, Disconnect, Parse, ReadUpload
<1>2. CASE Validate \/ Send
  BY <1>0, <1>2 DEF Validate, Send
<1>3. CASE Spool \/ SpoolDone \/ ReadWhole \/ Check
  BY <1>0, <1>3 DEF Spool, SpoolDone, ReadWhole, Check
<1>4. CASE Run
  BY <1>0, <1>4 DEF Run
<1>5. CASE Answer
  BY <1>0, <1>5 DEF Answer, Processing
<1>6. CASE Download
  BY <1>0, <1>6 DEF Download
<1>7. CASE Lose \/ TakeBytes \/ CheckOutput
  BY <1>0, <1>7 DEF Lose, TakeBytes, CheckOutput
<1>8. CASE Done \/ UNCHANGED vars
  BY <1>0, <1>8 DEF Done, vars
<1>. QED  BY <1>1, <1>2, <1>3, <1>4, <1>5, <1>6, <1>7, <1>8 DEF Next

LEMMA OpenedInv ==
  ASSUME IInv, [Next]_vars PROVE Opened'
<1>. USE DEF IInv, TypeOK, Proceed, Finish, Opened
<1>1. CASE AdmitDeclared \/ Receive \/ Disconnect \/ Parse \/ ReadUpload
  BY <1>1 DEF AdmitDeclared, Receive, Disconnect, Parse, ReadUpload
<1>2. CASE Validate \/ Send
  BY <1>2 DEF Validate, Send
<1>3. CASE Spool \/ SpoolDone \/ ReadWhole \/ Check
  BY <1>3 DEF Spool, SpoolDone, ReadWhole, Check
<1>4. CASE Run \/ Answer
  BY <1>4 DEF Run, Answer
<1>5. CASE Download \/ Lose \/ TakeBytes \/ CheckOutput
  BY <1>5 DEF Download, Lose, TakeBytes, CheckOutput
<1>6. CASE Done \/ UNCHANGED vars
  BY <1>6 DEF Done, vars
<1>. QED  BY <1>1, <1>2, <1>3, <1>4, <1>5, <1>6 DEF Next

(* The results.  Each step that gives one of those the properties are      *)
(* about has a case of its own; the others give another, or none.          *)
LEMMA EndedInv ==
  ASSUME IInv, [Next]_vars PROVE Ended'
<1>0. /\ client' = client /\ Ceiling' = Ceiling
      /\ DimensionsExceed(ProcessingLimits)' <=> DimensionsExceed(ProcessingLimits)
  BY NextClient, Fixed
<1>. DEFINE Harmless ==
       result' \notin {"refused", "ok", "request_too_large", "image_too_large"}
<1>1. ASSUME Harmless, stage' # "done" => result' = "none" PROVE Ended'
  BY <1>1 DEF Ended, WorkerAgrees, AnswerEntire, ProcessingNotBlamed
<1>2. stage # "done" => result = "none"
  BY DEF IInv, Ended
<1>. USE DEF Proceed, Finish
<1>3. CASE AdmitDeclared
  <2>1. result' = "request_too_large" => client.body > BodyLimit
    BY <1>2, <1>3 DEF AdmitDeclared
  <2>2. result' \in {"none", "invalid_request", "request_too_large"} /\ (stage' # "done" => result' = "none")
    BY <1>2, <1>3 DEF AdmitDeclared
  <2>. QED  BY <1>0, <2>1, <2>2 DEF Ended, WorkerAgrees, AnswerEntire, ProcessingNotBlamed, BodyLimit
<1>4. CASE Receive
  <2>1. result' = "request_too_large" => client.body > BodyLimit
    BY <1>2, <1>4, LimitTypes DEF Receive, IInv, TypeOK
  <2>2. result' \in {"none", "unparsed", "request_too_large"} /\ (stage' # "done" => result' = "none")
    BY <1>2, <1>4 DEF Receive
  <2>. QED  BY <1>0, <2>1, <2>2 DEF Ended, WorkerAgrees, AnswerEntire, ProcessingNotBlamed, BodyLimit
<1>5. CASE ReadUpload
  <2>1. result' = "image_too_large" => client.file > FileLimit
    BY <1>2, <1>5, LimitTypes DEF ReadUpload, IInv, TypeOK, Least
  <2>2. result' \in {"none", "image_too_large"} /\ (stage' # "done" => result' = "none")
    BY <1>2, <1>5 DEF ReadUpload
  <2>. QED  BY <1>0, <2>1, <2>2 DEF Ended, WorkerAgrees, AnswerEntire, ProcessingNotBlamed, FileLimit
<1>6. CASE Validate
  <2>1. result' = "image_too_large" /\ client.route \in Processing => DimensionsExceed(ProcessingLimits)
    BY <1>2, <1>6 DEF Validate, Processing
  <2>2. /\ result' \in {"none", "invalid_image", "image_too_large", "crashed"}
        /\ stage' # "done" => result' = "none"
    BY <1>2, <1>6 DEF Validate
  <2>. QED  BY <1>0, <2>1, <2>2 DEF Ended, WorkerAgrees, AnswerEntire, ProcessingNotBlamed
<1>7. CASE Spool
  <2>1. client.route \in Processing /\ FileLimit <= WorkerMaxUpload
    BY <1>7, LimitTypes DEF Spool, IInv, TypeOK, Read, Processing
  <2>2. data <= FileLimit /\ got <= data
    BY <1>7 DEF Spool, IInv, Read
  <2>3. UNCHANGED <<stage, result>>
    BY <1>7, <2>1, <2>2, LimitTypes DEF Spool, Least, IInv, TypeOK
  <2>. QED  BY <1>1, <1>2, <1>7, <2>3 DEF Spool
<1>8. CASE Check
  <2>1. ~DimensionsExceed(WorkerLimits) /\ ~(client.route = "upscale" /\ NativeExceeds(WorkerLimits))
    BY <1>8, WorkerAdmits DEF Check, IInv, TypeOK, Checked
  <2>. QED  BY <1>1, <1>2, <1>8, <2>1 DEF Check
<1>9. CASE CheckOutput
  <2>1. returned \in Nat /\ Ceiling \in Nat /\ returned = produced
    BY <1>9, LimitTypes DEF CheckOutput, IInv, TypeOK, Answered
  <2>2. client.route \in Processing => ~(returned > Ceiling)
    BY <1>9, LimitTypes, <2>1 DEF CheckOutput, IInv, TypeOK, Answered
  <2>3. result' = "ok" => returned > 0 /\ returned <= Ceiling
    BY <1>9, <2>1 DEF CheckOutput
  <2>4. result' = "image_too_large" => client.route \notin Processing
    BY <1>9, <2>2 DEF CheckOutput
  <2>5. result' \in {"invalid_output", "image_too_large", "ok"} /\ stage' = "done"
    BY <1>9 DEF CheckOutput
  <2>6. UNCHANGED <<returned, produced>>
    BY <1>9 DEF CheckOutput
  <2>. QED  BY <1>0, <2>1, <2>3, <2>4, <2>5, <2>6 DEF Ended, WorkerAgrees, AnswerEntire, ProcessingNotBlamed
<1>10. CASE Disconnect \/ Parse \/ Send \/ SpoolDone \/ ReadWhole
  <2>. QED  BY <1>1, <1>2, <1>10 DEF Disconnect, Parse, Send, SpoolDone, ReadWhole
<1>11. CASE Run \/ Answer \/ Download \/ Lose \/ TakeBytes
  <2>. QED  BY <1>1, <1>2, <1>11 DEF Run, Answer, Download, Lose, TakeBytes
<1>12. CASE Done \/ UNCHANGED vars
  <2>1. UNCHANGED vars
    BY <1>12 DEF Done
  <2>. QED  BY <1>0, <2>1 DEF vars, IInv, Ended, WorkerAgrees, AnswerEntire, ProcessingNotBlamed
<1>. QED  BY <1>3, <1>4, <1>5, <1>6, <1>7, <1>8, <1>9, <1>10, <1>11, <1>12 DEF Next

-----------------------------------------------------------------------------
(* The inductive invariant holds in every reachable state.                 *)
THEOREM Invariant == Spec => []IInv
<1>1. IInv /\ [Next]_vars => IInv'
  BY TypeInv, ReadInv, CheckedInv, AnsweredInv, OpenedInv, EndedInv DEF IInv
<1>. QED  BY <1>1, InitInv, PTL DEF Spec

(* A model is given the file that was uploaded, whole.                     *)
THEOREM Entire == Spec => []EntireFile
<1>1. IInv => EntireFile
  BY DEF IInv, Read, EntireFile, Received, Stages, TypeOK
<1>. QED  BY <1>1, Invariant, PTL

(* No worker refuses for its size what the gateway admits.                 *)
THEOREM Agreement == Spec => []WorkerAgrees
<1>1. IInv => WorkerAgrees
  BY DEF IInv, Ended
<1>. QED  BY <1>1, Invariant, PTL

(* A picture is returned whole.                                            *)
THEOREM AnswerWhole == Spec => []AnswerEntire
<1>1. IInv => AnswerEntire
  BY DEF IInv, Ended
<1>. QED  BY <1>1, Invariant, PTL

(* No counter ever passes its limit.                                       *)
THEOREM Bounded == Spec => []BuffersBounded
<1>1. IInv => BuffersBounded
  BY DEF IInv, Read, Answered, BuffersBounded
<1>. QED  BY <1>1, Invariant, PTL

(* A 413 of a processing route is about the request.                       *)
THEOREM NotBlamed == Spec => []ProcessingNotBlamed
<1>1. IInv => ProcessingNotBlamed
  BY DEF IInv, Ended
<1>. QED  BY <1>1, Invariant, PTL

(* Every file and spool is closed in the end.                              *)
THEOREM AllClosed == Spec => []NothingLeftOpen
<1>1. IInv => NothingLeftOpen
  BY DEF IInv, Opened, NothingLeftOpen
<1>. QED  BY <1>1, Invariant, PTL
=============================================================================
