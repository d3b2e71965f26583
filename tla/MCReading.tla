----------------------------- MODULE MCReading ------------------------------
(* What is read out of an acquired filing: its text (Sections, Blocks), its *)
(* XBRL (Extraction), and the observations built from the stored facts      *)
(* (Financials), each on inputs of its own while the others rest.           *)
EXTENDS MCParsing, MCExtraction, MCFinancials

ParsingIdle == Attachment /\ page = NoPage /\ blocks = <<>> /\ parsed = "refused"
FinancialsIdle ==
  /\ world = World({}) /\ stored = <<{}>> /\ step = "idle" /\ nth = 1 /\ loaded = <<>>
  /\ observations = {} /\ findings = {} /\ output = Null /\ report = {}

ReadingInit ==
  \/ ParsingInit /\ ExtractionIdle /\ FinancialsIdle
  \/ ExtractionInit /\ ParsingIdle /\ FinancialsIdle
  \/ FinancialsInit /\ ParsingIdle /\ ExtractionIdle

ReadingNext ==
  \/ ParsingNext /\ UNCHANGED <<extractionVars, financialsVars>>
  \/ ExtractionNext /\ UNCHANGED <<sectionsVars, blocksVars, financialsVars>>
  \/ step # "idle" /\ FinancialsNext /\ UNCHANGED <<sectionsVars, blocksVars, extractionVars>>

ReadingSpec ==
  ReadingInit /\ [][ReadingNext]_<<sectionsVars, blocksVars, extractionVars, financialsVars>>
=============================================================================
