SPECIFICATION AcquisitionSpec
CHECK_DEADLOCK FALSE
CONSTANTS
  None = None
  Names <- MCNames
  KindOf <- MCKindOf
  Rank <- MCRank
  CompleteSubmission = "acc.txt"
  Sites <- MCSites
  MaxFile = 3
  MaxBundle = 11
  MaxAttempts = 2
INVARIANTS AttemptsAreRecorded SafeguardsStayTyped PublishedIsSound InputIsTheInlineSet
