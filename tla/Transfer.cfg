SPECIFICATION Spec
CONSTANTS
  Clients <- Requests
  MaxRequest = 6
  MaxUpload = 3
  ProcessingMaxRequest = 7
  ProcessingMaxUpload = 5
  WorkerMaxUpload = 5
  MaxEncodedOutput = 5
  OutputCeiling = 4
  UploadChunk = 2
  EditLimits <- Edit
  ProcessingLimits <- Gateway
  WorkerLimits <- Worker
  MaxOutput = 7
INVARIANTS EntireFile WorkerAgrees AnswerEntire BuffersBounded ProcessingNotBlamed NothingLeftOpen
