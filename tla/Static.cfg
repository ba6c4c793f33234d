SPECIFICATION Spec
CONSTANTS
    Inputs = {"in.exe", "ref.exe"}
    Spaced = {}
    TypedTokens <- MCTypedTokens
    TypedLimit = 2
    Targets <- MCTargets
    Codes <- MCCodes
    Byte = 16
    Mark = 0
    CodeBase = 2
    ImportLists <- MCImportLists
    Place = 8
    RelocStreams <- MCRelocStreams
    RelocLimit = 44
    Page = 16
    Trees <- MCTrees
    SectionTables <- MCTables
    PageCount = 3
    Payloads <- MCPayloads
    FinalForm = 3
    MaxSamples = 3
INVARIANTS
    CommandsAreReadBack SuggestionPassesTheGate
    EveryMatchHasOneCode UnfilterRestores TablesReadBack
    SettledIsASnapshot SampleInHandIsWritten
CHECK_DEADLOCK FALSE
