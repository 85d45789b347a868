\* Two image lists with an image in common, two images with a common layer.
CONSTANTS
  x = x
  y = y
  v1 = v1
  lts = lts
  l1 = l1
  l2 = l2
  i1 = i1
  i2 = i2
  c1 = c1
  c2 = c2
  base = base
  Repos = {x, y}
  Tags = {v1, lts}
  Latest = lts
  Digests = {l1, l2, i1, i2}
  Images = {i1, i2}
  Blobs = {c1, c2, base}
  Layers <- TwoImages
  WalkOrder <- NameOrder
  Members <- ListMembers
  PlatformImage <- ListPlatform
  NoDigest = NoDigest
  Upstream <- Answered
  Tarred <- Tarballs
SPECIFICATION OfflineSpec
INVARIANTS
  PruneSparesOthers
  NoOrphanLeft
  NegativeOnlyIfTwice
PROPERTIES
  ToolsMakeNoOrphan
