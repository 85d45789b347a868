\* Two calls and a blob reader, both settings of airGapped; nothing is pruned and
\* nobody gives up waiting, but any write of a manifest on a hit may fail; one crash.
CONSTANTS
  hub = hub
  library = library
  d1 = d1
  d2 = d2
  b1 = b1
  b2 = b2
  b3 = b3
  v1 = v1
  lts = lts
  c1 = c1
  c2 = c2
  r1 = r1
  Repos = {hub}
  NoRepo = NoRepo
  Alt <- DockerAlt
  Tags = {v1, lts}
  Latest = lts
  Digests = {d1, d2}
  Images = {d1, d2}
  Blobs = {b1, b2, b3}
  Layers <- SharedLayers
  WalkOrder <- NameOrder
  PullLatestSettings = {FALSE}
  MaxRefs = 0
  Calls = {c1, c2}
  MayTimeOut = {}
  Nobody = Nobody
  Requests <- TagsAndDigest
  Preloaded <- V1Preloaded
  Readers = {r1}
  NoBlob = NoBlob
  Pruners = {}
  AirGapSettings = {FALSE, TRUE}
  DiskMayFail = TRUE
  NoReply = NoReply
  Failed = Failed
  MaxPasses = 0
  MaxRestarts = 1
SPECIFICATION FairRegistrySpec
INVARIANTS
  AnsweredImageIsComplete
PROPERTIES
  EveryRequestIsAnswered
  KeepsPullPromises
CHECK_DEADLOCK FALSE
