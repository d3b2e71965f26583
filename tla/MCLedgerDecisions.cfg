CONSTANTS
  None = None
  DateMin = 1
  DateMax = 3
  c1 = c1  m1 = m1  m2 = m2  a = a  b = b  v1 = v1  v2 = v2  h1 = h1  h2 = h2
  Concepts = {c1}
  Issuers = {a, b}
  Metrics = {m1}
  Hashes = {h1, h2}
  definition_hash <- MCHash
  Defs = {v1, v2}
  Proposals <- MCProposals
  Ids = {i1, i2, i3, i4}
  Curators = {p, q}
  Syncers = {s, r}
SYMMETRY Interchangeable
SPECIFICATION CrewSpec
INVARIANTS NoAmbiguity ChainsAreSound MetricsStayDefined
PROPERTIES RefinesContract
