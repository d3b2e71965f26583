CONSTANTS
  Nothing = Nothing
  Workers = {w1, w2}
  Accessions = {a1, a2, a3}
  MaxBatches = 3
CHECK_DEADLOCK FALSE
SYMMETRY Interchangeable
SPECIFICATION BatchSpec
INVARIANTS ReportAlwaysWritten
