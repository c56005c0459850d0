--------------------------- MODULE WorkerProcesses ---------------------------
(***************************************************************************)
(* The processes that keep something under a lock of their own: the        *)
(* generation worker with the child it owns, whose names are used as they  *)
(* are, the background and the upscale worker, the FLUX.2 dev adapter in   *)
(* the child, and the gateway's image checks.  They share no memory.  Each *)
(* worker serves the same list of calls.                                   *)
(***************************************************************************)
EXTENDS GenerationModels, MattingCalls, ImageChecks

VARIABLES bpc, bresult, block, bactive, bcached, bsam2, berrors, bclean
VARIABLES upc, uresult, ulock, ucached, ubuilt, unamed, utile, uold
VARIABLES fpc, fresult, flock, fframe, fkept, ftrace, fgarbage, ffailing
VARIABLES dpc, dpass, dlock, dlimit, dprevious, dresult

bvars == <<bpc, bresult, block, bactive, bcached, bsam2, berrors, bclean>>
uvars == <<upc, uresult, ulock, ucached, ubuilt, unamed, utile, uold>>
fvars == <<fpc, fresult, flock, fframe, fkept, ftrace, fgarbage, ffailing>>
dvars == <<dpc, dpass, dlock, dlimit, dprevious, dresult>>

B == INSTANCE BackgroundWorker WITH pc <- bpc, result <- bresult, lock <- block,
       active <- bactive, cached <- bcached, sam2 <- bsam2, errors <- berrors, clean <- bclean
U == INSTANCE UpscaleWorker WITH pc <- upc, result <- uresult, lock <- ulock,
       cached <- ucached, built <- ubuilt, named <- unamed, tile <- utile, old <- uold
F == INSTANCE Flux2Dev WITH pc <- fpc, result <- fresult, lock <- flock, frame <- fframe,
       kept <- fkept, trace <- ftrace, garbage <- fgarbage, failing <- ffailing
D == INSTANCE ImageDecode WITH pc <- dpc, pass <- dpass, lock <- dlock,
       limit <- dlimit, previous <- dprevious, result <- dresult

ProcessesInit == Init /\ B!Init /\ U!Init /\ F!Init /\ D!Init

ProcessesNext ==
  \/ Next /\ UNCHANGED <<bvars, uvars, fvars, dvars>>
  \/ B!Next /\ UNCHANGED <<vars, uvars, fvars, dvars>>
  \/ U!Next /\ UNCHANGED <<vars, bvars, fvars, dvars>>
  \/ F!Next /\ UNCHANGED <<vars, bvars, uvars, dvars>>
  \/ D!Next /\ UNCHANGED <<vars, bvars, uvars, fvars>>

(* Fairness of the generation worker only, for the one liveness property.  *)
ProcessesSpec ==
  ProcessesInit /\ [][ProcessesNext]_<<vars, bvars, uvars, fvars, dvars>> /\ Fairness

-----------------------------------------------------------------------------
\* See BackgroundWorker: while no call failed, one matting model is cached.
CleanSingle == B!CleanSingle
\* See UpscaleWorker: health never denies a backend that is in memory.
HealthOwnsUp == U!HealthOwnsUp
\* See UpscaleWorker: a tile size does not reach the next request.
TileRestored == U!TileRestored
\* See UpscaleWorker: an image is made by the model that was asked for.
RunsTarget == U!RunsTarget
\* See Flux2Dev: encoder and denoiser are never in memory together.
StagesApart == F!StagesApart
\* See Flux2Dev: nothing is in memory between two calls.
NothingSurvives == F!NothingSurvives
\* The upscale and the background worker keep the account of their memory
\* that Residency relies on, as the generation worker does (GenerationMemory).
MemoryContract == U!UpscaleMemory /\ B!BackgroundMemory
\* See ImageDecode: every picture is decoded under the limit meant for it.
RightLimit == D!RightLimit
\* See ImageDecode: an upload beyond the library's limit is never admitted.
HugeRefused == D!HugeRefused
=============================================================================
