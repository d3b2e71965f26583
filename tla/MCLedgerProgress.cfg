CONSTANTS
  None = None
  DateMin = 1
  DateMax = 1
  c1 = c1  m1 = m1  m2 = m2  a = a  b = b  v1 = v1  v2 = v2  h1 = h1  h2 = h2
  Concepts = {c1}
  Issuers = {a}
  Metrics = {m1}
  Hashes = {h1, h2}
  definition_hash <- MCHash
  Defs = {v1}
  Proposals <- MCOne
  Ids = {i1, i2, i3}
  Curators = {p, q}
  Syncers = {s}
SPECIFICATION FairSpec
PROPERTIES EveryCommandEnds
