CONSTANTS
  None = None
  p = p  q = q
  f = f  g = g  i = i  b1 = b1  b2 = b2  b3 = b3  b4 = b4  v1 = v1  v2 = v2  c1 = c1  c2 = c2
  Extractors = {p, q}
  Readers = {r}
  Filings = {f, g}
  Issuers = {i}
  Concepts = {c1, c2}
  Bundles = {b1, b2, b3, b4}
  Inventories = {v1, v2}
  IssuerOf <- MCIssuerOf
  FilingOf <- MCFilingOf
  InventoryOf <- MCInventoryOf
  ConceptsOf <- MCConceptsOf
  MaxRuns = 2
  Nothing = Nothing
  Workers = {w1, w2}
  Accessions = {a1, a2, a3}
  MaxBatches = 3
CHECK_DEADLOCK FALSE
SPECIFICATION PersistenceSpec
INVARIANTS SnapshotsAreSound EvidenceMatchesCatalog LoadIsConsistent ReportIsFaithful
PROPERTIES EveryExtractEnds EveryBatchEnds
