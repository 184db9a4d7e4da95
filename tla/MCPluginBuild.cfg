SPECIFICATION Spec
CONSTANTS
    Configs <- MCConfigs
    NoID = "no id"
    EmbeddedFiles <- MCEmbeddedFiles
    PinnedFile <- MCPinnedFile
    PinnedReport <- MCPinnedReport
    CustomHeads <- MCCustomHeads
    RawRules <- MCRawRules
    MaxRules = 2
    Texts <- MCTexts
    NoMatch = NoMatch
    HardMaximum = 8
INVARIANTS ReportAccounts PolicyAsWritten
