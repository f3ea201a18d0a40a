CONSTANTS
  Tenants = {demo}
  Sessions = {s1}
  Requests = {r1, r2, r3}
  NoTenant = NoTenant
  NoJob = NoJob
  NoRequest = NoRequest
  NoDoc = NoDoc
  Docs = {"cv"}
  Chunks = {"a"}
  Sources = {"cv.pdf"}
  SourceOf <- OneDocSource
  Batches <- OneDocBatches
  TopK = 1
  Ops = {"upload", "async", "delete"}
  Authenticated = FALSE
  PoolSize = 2
  Faults = {"vectors", "document"}
  MaxCrashes = 0
SPECIFICATION FairSpec
INVARIANTS
  NoUploadIsForgotten
PROPERTIES
  EveryRequestEnds
  AcceptedJobSettles
