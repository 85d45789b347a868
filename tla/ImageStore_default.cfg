\* Both spellings of a docker.io repository, two tags, two images, both settings of
\* alwaysPullLatest; one caller at a time.
CONSTANTS
  hub = hub
  library = library
  d1 = d1
  d2 = d2
  b1 = b1
  b2 = b2
  v1 = v1
  v2 = v2
  lts = lts
  Repos = {hub, library}
  NoRepo = NoRepo
  Alt <- DockerAlt
  Tags = {v1, lts}
  Latest = lts
  Digests = {d1, d2}
  Images = {d1, d2}
  Blobs = {b1, b2}
  Layers <- SharedLayers
  WalkOrder <- NameOrder
  PullLatestSettings = {FALSE, TRUE}
  MaxRefs = 2
SPECIFICATION StoreSpec
SYMMETRY Spellings
INVARIANTS
  NeverUndercounted
  CountedBlobsHaveFiles
  PrimaryIsServable
  DigestUrlsHonest
  FilesInTheirDirectory
PROPERTIES
  ExcessIsAccountedFor
CHECK_DEADLOCK FALSE
