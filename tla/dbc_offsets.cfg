SPECIFICATION Spec
CONSTANTS
    Text <- MCText
    TextLen <- MCTextLen
    Fields = 2
    Sources <- MCGameSources
    CsvData <- MCCsvData
    MaxAppends = 2
INVARIANT OffsetsInBlock
CHECK_DEADLOCK FALSE
