CONSTANTS
  Tenants = {demo}
  Sessions = {s1}
  Requests = {r1, r2, r3}
  NoTenant = NoTenant
  NoJob = NoJob
  NoRequest = NoRequest
  NoDoc = NoDoc
  Docs = {"old", "new"}
  Chunks = {"a", "b", "c"}
  Sources = {"cv.pdf"}
  SourceOf <- VersionsSource
  Batches <- VersionsBatches
  TopK = 1
  Ops = {"upload", "async", "delete"}
  Authenticated = FALSE
  PoolSize = 2
  Faults = {"vectors", "document", "staging", "metadata"}
  MaxCrashes = 1
SPECIFICATION Spec
SYMMETRY SymmetricRequests
INVARIANTS
  ServiceInv
  NoOrphanVectors
  WorkersHaveTheirJob
PROPERTIES
  SuccessMeansStored
  ImplementsSessionContent
  DeletionIsComplete
