------------------------------- MODULE Transfer -------------------------------
(***************************************************************************)
(* The bytes of one request and of its answer, counted against the limits  *)
(* they meet on the way: the body as it streams in, the file in it, the    *)
(* picture's dimensions, the worker's copy of the file, the answer as it   *)
(* streams back, and the picture that is returned.  Gateway and worker are *)
(* configured apart.  Whatever fails, every file on the way is closed.     *)
(***************************************************************************)
EXTENDS Integers

CONSTANTS
  Clients,              \* the requests: [route, declared, body, file, width, height, valid]
  MaxRequest,           \* max_request_bytes and
  MaxUpload,            \* max_upload_bytes, of the edit and generation routes
  ProcessingMaxRequest, \* those of upscale and background-removal
  ProcessingMaxUpload,
  WorkerMaxUpload,      \* what the workers take for the latter
  MaxEncodedOutput,     \* processing_max_encoded_output_bytes
  OutputCeiling,        \* 100_000_000, of generated and edited pictures
  UploadChunk,          \* UPLOAD_CHUNK_BYTES
  EditLimits,           \* dimensions: those of the edit route,
  ProcessingLimits,     \* of the processing routes
  WorkerLimits,         \* and of their workers
  MaxOutput             \* bound: the longest answer of a worker

Processing == {"upscale", "background"}

(* How large a picture may be, and for upscale how large the network's own *)
(* picture, four times as wide and as high.                                *)
Limits == [ side: Nat, pixels: Nat, decoded: Nat,
            nativeSide: Nat, nativePixels: Nat, nativeBytes: Nat ]

ASSUME ClientAssumption ==
  \A c \in Clients :
    /\ c.route \in Processing \cup {"edit", "generation"}
    /\ c.declared \in {"absent", "malformed", "exact"}
    /\ c.body \in Nat /\ c.file \in 0 .. c.body
    /\ c.route = "generation" => c.file = 0
    /\ c.width \in Nat /\ c.height \in Nat /\ c.valid \in BOOLEAN
ASSUME LimitAssumption ==
  /\ {MaxRequest, MaxUpload, ProcessingMaxRequest, ProcessingMaxUpload, WorkerMaxUpload,
      MaxEncodedOutput, OutputCeiling, MaxOutput} \subseteq Nat
  /\ UploadChunk \in Nat \ {0}
  /\ {EditLimits, ProcessingLimits, WorkerLimits} \subseteq Limits

(* As deployed, no worker is configured below the gateway.                 *)
ASSUME AgreementAssumption ==
  /\ ProcessingMaxUpload <= WorkerMaxUpload
  /\ ProcessingLimits.side <= WorkerLimits.side
  /\ ProcessingLimits.pixels <= WorkerLimits.pixels
  /\ ProcessingLimits.decoded <= WorkerLimits.decoded
  /\ ProcessingLimits.nativeSide <= WorkerLimits.nativeSide
  /\ ProcessingLimits.nativePixels <= WorkerLimits.nativePixels
  /\ ProcessingLimits.nativeBytes <= WorkerLimits.nativeBytes

VARIABLES
  client,
  stage,
  consumed,  \* bytes of the body passed on to the parser
  data,      \* the length of what the route read of the file
  got,       \* the length of what the worker read of that
  produced,  \* the length of the worker's answer
  total,     \* bytes of it in the gateway's spool
  returned,  \* the length of what the route took from there
  open,      \* the files that are open
  result

vars == <<client, stage, consumed, data, got, produced, total, returned, open, result>>

Init ==
  /\ client \in Clients
  /\ stage = "admit"
  /\ consumed = 0 /\ data = 0 /\ got = 0 /\ produced = 0 /\ total = 0 /\ returned = 0
  /\ open = {} /\ result = "none"

Finish(x) == stage' = "done" /\ result' = x
Proceed(s) == stage' = s /\ UNCHANGED result

BodyLimit == IF client.route \in Processing THEN ProcessingMaxRequest ELSE MaxRequest
FileLimit == IF client.route \in Processing THEN ProcessingMaxUpload ELSE MaxUpload
Ceiling   == IF client.route \in Processing THEN MaxEncodedOutput ELSE OutputCeiling

-----------------------------------------------------------------------------
(* RequestBodyLimitMiddleware.                                             *)

(* The declared length.                                                    *)
AdmitDeclared ==
  /\ stage = "admit"
  /\ CASE client.declared = "malformed" -> Finish("invalid_request")
       [] client.declared = "exact" /\ client.body > BodyLimit -> Finish("request_too_large")
       [] OTHER -> Proceed("receive")
  /\ UNCHANGED <<client, consumed, data, got, produced, total, returned, open>>

\* Mutant: each piece is compared, not their sum.
ReceiveApart ==
  /\ stage = "receive"
  /\ \E n \in 1 .. client.body - consumed :
       IF n > BodyLimit
         THEN (Finish("request_too_large") \/ Finish("unparsed")) /\ UNCHANGED consumed
         ELSE consumed' = consumed + n /\ UNCHANGED <<stage, result>>
  /\ UNCHANGED <<client, data, got, produced, total, returned, open>>

(* limited_receive: a piece of the body.  The exception passes through the *)
(* framework's parser, which may turn it into a 400 of its own; no         *)
(* response has been started while a body is still read.                   *)
Receive ==
  /\ stage = "receive"
  /\ \E n \in 1 .. client.body - consumed :
       IF consumed + n > BodyLimit
         THEN (Finish("request_too_large") \/ Finish("unparsed")) /\ UNCHANGED consumed
         ELSE consumed' = consumed + n /\ UNCHANGED <<stage, result>>
  /\ UNCHANGED <<client, data, got, produced, total, returned, open>>

(* The client goes away with its body unsent: nobody is left to answer.    *)
Disconnect ==
  /\ stage = "receive" /\ consumed < client.body
  /\ Finish("gone")
  /\ UNCHANGED <<client, consumed, data, got, produced, total, returned, open>>

(* The body is complete and parsed; a generation has no file.              *)
Parse ==
  /\ stage = "receive" /\ consumed = client.body
  /\ IF client.route = "generation" THEN Proceed("run") /\ UNCHANGED open
     ELSE Proceed("read") /\ open' = {"upload"}
  /\ UNCHANGED <<client, consumed, data, got, produced, total, returned>>

-----------------------------------------------------------------------------
(* The route.                                                              *)

Least(a, b) == IF a < b THEN a ELSE b

\* Mutant: no more than the maximum is read.
ReadUploadMaximum ==
  /\ stage = "read"
  /\ data' = Least(client.file, FileLimit)
  /\ open' = open \ {"upload"}
  /\ IF data' > FileLimit THEN Finish("image_too_large") ELSE Proceed("validate")
  /\ UNCHANGED <<client, consumed, got, produced, total, returned>>

(* _read_upload reads one byte more than it accepts, and closes the file.  *)
ReadUpload ==
  /\ stage = "read"
  /\ data' = Least(client.file, FileLimit + 1)
  /\ open' = open \ {"upload"}
  /\ IF data' > FileLimit THEN Finish("image_too_large") ELSE Proceed("validate")
  /\ UNCHANGED <<client, consumed, got, produced, total, returned>>

(* validate_image and validate_dimensions: four bytes for every pixel.     *)
DimensionsExceed(l) ==
  LET pixels == client.width * client.height IN
  \/ client.width > l.side \/ client.height > l.side
  \/ pixels > l.pixels \/ pixels * 4 > l.decoded

(* admit_upscale_processing, and _run of the upscale worker.               *)
NativeExceeds(l) ==
  LET width == client.width * 4
      height == client.height * 4
  IN \/ width > l.nativeSide \/ height > l.nativeSide
     \/ width * height > l.nativePixels \/ width * height * 12 > l.nativeBytes

\* Mutant: the route admits any native size.
ValidateOnly ==
  /\ stage = "validate"
  /\ CASE data = 0 \/ ~client.valid \/ client.width = 0 \/ client.height = 0 -> Finish("invalid_image")
       [] OTHER ->
            IF DimensionsExceed(IF client.route = "edit" THEN EditLimits ELSE ProcessingLimits)
              THEN Finish("image_too_large") ELSE Proceed("send")
  /\ UNCHANGED <<client, consumed, data, got, produced, total, returned, open>>

(* The picture is checked, and for upscale its native size: a ValueError   *)
(* that no handler catches.                                                *)
Validate ==
  /\ stage = "validate"
  /\ CASE data = 0 \/ ~client.valid \/ client.width = 0 \/ client.height = 0 -> Finish("invalid_image")
       [] OTHER ->
            IF DimensionsExceed(IF client.route = "edit" THEN EditLimits ELSE ProcessingLimits)
              THEN Finish("image_too_large")
              ELSE IF client.route = "upscale" /\ NativeExceeds(ProcessingLimits)
              THEN Finish("crashed") ELSE Proceed("send")
  /\ UNCHANGED <<client, consumed, data, got, produced, total, returned, open>>

(* The file goes to the worker, whose parser holds it; all but the edit    *)
(* worker spool it.                                                        *)
Send ==
  /\ stage = "send" /\ Proceed("spool")
  /\ open' = IF client.route = "edit" THEN {"worker upload"} ELSE {"worker upload", "worker spool"}
  /\ UNCHANGED <<client, consumed, data, got, produced, total, returned>>

-----------------------------------------------------------------------------
(* The worker.  An error status of its is a 502 to the client.             *)

(* read_bounded_upload: chunk by chunk against the worker's own maximum.   *)
Spool ==
  /\ stage = "spool" /\ client.route # "edit" /\ got < data
  /\ LET chunk == Least(UploadChunk, data - got) IN
     IF chunk > WorkerMaxUpload - got
       THEN Finish("refused") /\ open' = {} /\ UNCHANGED got
       ELSE got' = got + chunk /\ UNCHANGED <<stage, open, result>>
  /\ UNCHANGED <<client, consumed, data, produced, total, returned>>

(* The spool is read, and both files are closed.                           *)
SpoolDone ==
  /\ stage = "spool" /\ client.route # "edit" /\ got = data
  /\ Proceed("check") /\ open' = {}
  /\ UNCHANGED <<client, consumed, data, got, produced, total, returned>>

(* The edit worker reads the file whole, and closes it after the run.      *)
ReadWhole ==
  /\ stage = "spool" /\ client.route = "edit"
  /\ got' = data /\ Proceed("run")
  /\ UNCHANGED <<client, consumed, data, produced, total, returned, open>>

(* Both workers check the dimensions once more.                            *)
Check ==
  /\ stage = "check"
  /\ IF DimensionsExceed(WorkerLimits) \/ (client.route = "upscale" /\ NativeExceeds(WorkerLimits))
       THEN Finish("refused") ELSE Proceed("run")
  /\ UNCHANGED <<client, consumed, data, got, produced, total, returned, open>>

(* The model runs, or fails; the edit worker closes its file.              *)
Run ==
  /\ stage = "run" /\ open' = {}
  /\ \/ produced' \in 0 .. MaxOutput /\ Proceed("answer")
     \/ Finish("unknown") /\ UNCHANGED produced
  /\ UNCHANGED <<client, consumed, data, got, total, returned>>

-----------------------------------------------------------------------------
(* The answer.                                                             *)

(* The headers arrive, or nothing does.  _post refuses a declared length   *)
(* beyond its limit, else it opens a spool; generation takes the content   *)
(* as it is.                                                               *)
Answer ==
  /\ stage = "answer"
  /\ \/ Finish("unknown") /\ UNCHANGED <<returned, open>>
     \/ /\ client.route = "generation"
        /\ returned' = produced /\ Proceed("output") /\ UNCHANGED open
     \/ /\ client.route # "generation" /\ UNCHANGED returned
        /\ \/ produced > MaxEncodedOutput /\ Finish("unknown") /\ UNCHANGED open
           \/ open' = {"output"} /\ Proceed("download")
  /\ UNCHANGED <<client, consumed, data, got, produced, total>>

\* Mutant: the spool is left to the garbage collector.
DownloadKept ==
  /\ stage = "download"
  /\ \E n \in 1 .. produced - total :
       IF n > MaxEncodedOutput - total
         THEN Finish("unknown") /\ UNCHANGED <<total, open>>
         ELSE total' = total + n /\ UNCHANGED <<stage, open, result>>
  /\ UNCHANGED <<client, consumed, data, got, produced, returned>>

(* A piece of the answer; whether or not a length was declared, their sum  *)
(* is what counts.                                                         *)
Download ==
  /\ stage = "download"
  /\ \E n \in 1 .. produced - total :
       IF n > MaxEncodedOutput - total
         THEN Finish("unknown") /\ open' = {} /\ UNCHANGED total
         ELSE total' = total + n /\ UNCHANGED <<stage, open, result>>
  /\ UNCHANGED <<client, consumed, data, got, produced, returned>>

\* Mutant: what has arrived is taken for the answer.
LosePartly ==
  /\ stage = "download" /\ total < produced
  /\ returned' = total /\ Proceed("output") /\ open' = {}
  /\ UNCHANGED <<client, consumed, data, got, produced, total>>

(* The connection breaks, or the timeout passes.                           *)
Lose ==
  /\ stage = "download" /\ total < produced
  /\ Finish("unknown") /\ open' = {}
  /\ UNCHANGED <<client, consumed, data, got, produced, total, returned>>

(* The spool is rewound, leaves the lane open, and _bytes reads it and     *)
(* closes it.                                                              *)
TakeBytes ==
  /\ stage = "download" /\ total = produced
  /\ returned' = total /\ Proceed("output") /\ open' = {}
  /\ UNCHANGED <<client, consumed, data, got, produced, total>>

\* Mutant: one ceiling for all routes.
CheckOutputOne ==
  /\ stage = "output"
  /\ CASE returned = 0 -> Finish("invalid_output")
       [] returned > OutputCeiling -> Finish("image_too_large")
       [] OTHER -> Finish("invalid_output") \/ Finish("ok")
  /\ UNCHANGED <<client, consumed, data, got, produced, total, returned, open>>

(* validate_png_output, with the ceiling of the route.                     *)
CheckOutput ==
  /\ stage = "output"
  /\ CASE returned = 0 -> Finish("invalid_output")
       [] returned > Ceiling -> Finish("image_too_large")
       [] OTHER -> Finish("invalid_output") \/ Finish("ok")
  /\ UNCHANGED <<client, consumed, data, got, produced, total, returned, open>>

Done == stage = "done" /\ UNCHANGED vars

Next ==
  \/ AdmitDeclared \/ Receive \/ Disconnect \/ Parse
  \/ ReadUpload \/ Validate \/ Send
  \/ Spool \/ SpoolDone \/ ReadWhole \/ Check \/ Run
  \/ Answer \/ Download \/ Lose \/ TakeBytes \/ CheckOutput \/ Done

Spec == Init /\ [][Next]_vars

-----------------------------------------------------------------------------
(* A model never sees part of a file: whichever of the four reads on the   *)
(* way stops early, the request is refused instead.  README.md:33.         *)
EntireFile ==
  stage \in {"check", "run", "answer", "download", "output"} =>
    got = client.file /\ got <= FileLimit /\ consumed = client.body

(* What the gateway admits, the worker does not refuse for its size: the   *)
(* checks of app.py and config.py are at least as strict as those of       *)
(* uploads.py and upscale.py, provided the workers are configured so.      *)
WorkerAgrees == result # "refused"

(* The client gets the picture as the model produced it, README.md:24, and *)
(* never a part of it.                                                     *)
AnswerEntire == result = "ok" => returned = produced /\ returned > 0 /\ returned <= Ceiling

(* No counter passes its limit even for a moment, so neither the parser    *)
(* nor a spool ever holds more than it may, however the pieces fall.       *)
BuffersBounded ==
  consumed <= BodyLimit /\ got <= FileLimit /\ total <= MaxEncodedOutput

(* On the processing routes a 413 is about the client's own request, never *)
(* about the answer: a too long one is found by the client of the workers  *)
(* before validate_png_output could blame it on the upload.                *)
ProcessingNotBlamed ==
  client.route \in Processing /\ result \in {"request_too_large", "image_too_large"} =>
    \/ client.body > ProcessingMaxRequest \/ client.file > ProcessingMaxUpload
    \/ DimensionsExceed(ProcessingLimits)

(* However a request ends, no file or spool of it is left open.            *)
NothingLeftOpen == stage = "done" => open = {}
=============================================================================
