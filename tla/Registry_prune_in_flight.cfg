\* An image is pruned while another that shares a blob is being pulled.
CONSTANTS
  hub = hub
  library = library
  d1 = d1
  d2 = d2
  b1 = b1
  b2 = b2
  b3 = b3
  v1 = v1
  lts = lts
  c1 = c1
  p1 = p1
  Repos = {hub}
  NoRepo = NoRepo
  Alt <- DockerAlt
  Tags = {v1, lts}
  Latest = lts
  Digests = {d1, d2}
  Images = {d1, d2}
  Blobs = {b1, b2, b3}
  Layers <- SharedLayers
  WalkOrder <- NameOrder
  PullLatestSettings = {FALSE}
  MaxRefs = 0
  Calls = {c1}
  MayTimeOut = {}
  Nobody = Nobody
  Requests <- TagsAndDigest
  Preloaded <- V1Preloaded
  Readers = {}
  NoBlob = NoBlob
  Pruners = {p1}
  AirGapSettings = {FALSE}
  DiskMayFail = FALSE
  NoReply = NoReply
  Failed = Failed
  MaxPasses = 1
  MaxRestarts = 0
SPECIFICATION RegistrySpec
INVARIANTS
  InsertFindsItsBlobs
CHECK_DEADLOCK FALSE
