CONSTANTS
  Tenants = {demo}
  Sessions = {s1}
  Requests = {r1, r2, r3}
  NoTenant = NoTenant
  NoJob = NoJob
  NoRequest = NoRequest
  NoDoc = NoDoc
  Docs = {"cv"}
  Chunks = {"a"}
  Sources = {"cv.pdf"}
  SourceOf <- OneDocSource
  Batches <- OneDocBatches
  TopK = 1
  Ops = {"upload", "list", "delete"}
  Authenticated = FALSE
  PoolSize = 2
  Faults = {}
  MaxCrashes = 0
SPECIFICATION Spec
PROPERTIES
  StaleUploadsNeverIngest
