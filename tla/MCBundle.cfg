CONSTANTS
  None = None
  b1 = b1  b2 = b2  b3 = b3  d1 = d1  d2 = d2  f = f  g = g  p = p  q = q
  Publishers = {p, q}
  Readers = {r}
  Digests = {d1, d2}
  Bundles = {b1, b2, b3}
  Accessions = {f, g}
  Uuids = {u1, u2, u3, u4}
  AccessionOf <- MCAccessionOf
  ArtifactsOf <- MCArtifactsOf
  FaultModels = {{"crash", "io"}, {"crash", "power"}, {"crash", "damage"}}
  MaxRestarts = 1
CHECK_DEADLOCK FALSE
SPECIFICATION MCFairSpec
INVARIANTS NoDuplicateBundle DirectoriesAreSound ReadersNeverTrip
PROPERTIES ReturnsPublishedBundle EveryPublishEnds
