CONSTANTS
  chat = chat
  writer = writer
  reader = reader
  alpha = alpha
  beta = beta
  forged = forged
  here = here
  there = there
  Threads = {chat, writer, reader}
  Closer = closer
  Nobody = Nobody
  Points <- MCPoints
  Sessions = {alpha, beta}
  SessionOf <- MCSessionOf
  PageSize = 1
  TopK = 2
  Contents <- MCContents
  Workloads <- MCWorkloads
  Blank = {3}
  Unfit = {4}
  UnfitRaw = {4, 6}
  Forged = {forged}
  Metas = {here, there}
  MetaOf <- MCMetaOf
  MaxFallback = 1
  MaxCitations = 2
  NoAnswer = NoAnswer
SPECIFICATION FairSpec
INVARIANTS
  StoreInv
  ChatInv
  SourcesAreRetrieved
  StatusTellsGrounding
PROPERTIES
  ReadIsSnapshot
  EveryThreadEnds
