\* Three calls against a pruner, both settings of alwaysPullLatest; any call may
\* give up waiting, and any write of a manifest on a hit may fail.
CONSTANTS
  hub = hub
  library = library
  d1 = d1
  d2 = d2
  b1 = b1
  b2 = b2
  b3 = b3
  v1 = v1
  lts = lts
  c1 = c1
  c2 = c2
  c3 = c3
  p1 = p1
  Repos = {hub}
  NoRepo = NoRepo
  Alt <- DockerAlt
  Tags = {v1, lts}
  Latest = lts
  Digests = {d1, d2}
  Images = {d1, d2}
  Blobs = {b1, b2, b3}
  Layers <- SharedLayers
  WalkOrder <- NameOrder
  PullLatestSettings = {FALSE, TRUE}
  MaxRefs = 0
  Calls = {c1, c2, c3}
  MayTimeOut = {c1, c2, c3}
  Nobody = Nobody
  Requests <- TagsAndDigest
  Preloaded <- LatestPreloaded
  Readers = {}
  NoBlob = NoBlob
  Pruners = {p1}
  AirGapSettings = {FALSE}
  DiskMayFail = TRUE
  NoReply = NoReply
  Failed = Failed
  MaxPasses = 1
  MaxRestarts = 0
SPECIFICATION RegistrySpec
SYMMETRY Symmetry
INVARIANTS
  SafeUnlessRaced
  AnswersAreHonest
CHECK_DEADLOCK FALSE
