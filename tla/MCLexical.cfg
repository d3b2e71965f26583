SPECIFICATION ExtractionSpec
CHECK_DEADLOCK FALSE
CONSTANTS
    Filings <- MCFilings
    Surrogate = "surrogate"
    NoNamespace = {"Bare"}
INVARIANT LostLexicalValueIsFatal
