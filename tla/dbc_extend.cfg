SPECIFICATION Spec
CONSTANTS
    Text <- MCText
    TextLen <- MCTextLen
    Fields = 2
    Sources <- MCSources
    CsvData <- MCCsvData
    MaxAppends = 2
INVARIANTS
    HeaderFits
    ReadsBack
    KeepsRows
PROPERTY CleanIsExported
CHECK_DEADLOCK FALSE
