CONSTANTS
  Tenants = {ta, tb}
  Sessions = {s1, s2}
  Requests = {r1, r2, r3}
  NoTenant = NoTenant
  NoJob = NoJob
  NoRequest = NoRequest
  NoDoc = NoDoc
  Docs = {"cv"}
  Chunks = {"a"}
  Sources = {"cv.pdf"}
  SourceOf <- OneDocSource
  Batches <- OneDocBatches
  TopK = 1
  Ops = {"upload", "async", "chat", "list", "delete"}
  Authenticated = TRUE
  PoolSize = 2
  Faults = {"vectors"}
  MaxCrashes = 0
SPECIFICATION Spec
SYMMETRY Symmetric
INVARIANTS
  TenantIsolation
  JobsBelongToOwners
PROPERTIES
  StaleUploadsNeverIngest
