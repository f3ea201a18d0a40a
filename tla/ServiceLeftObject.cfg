CONSTANTS
  Tenants = {demo}
  Sessions = {s1}
  Requests = {r1, r2, r3}
  NoTenant = NoTenant
  NoJob = NoJob
  NoRequest = NoRequest
  NoDoc = NoDoc
  Docs = {"cv"}
  Chunks = {"a"}
  Sources = {"cv.pdf"}
  SourceOf <- OneDocSource
  Batches <- OneDocBatches
  TopK = 1
  Ops = {"async", "delete"}
  Authenticated = TRUE
  PoolSize = 2
  Faults = {}
  MaxCrashes = 1
SPECIFICATION Spec
INVARIANTS
  NoObjectOutlivesItsSession
