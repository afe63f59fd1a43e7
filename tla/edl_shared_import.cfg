SPECIFICATION ToolSafety
CONSTANTS
    Decimals <- MCDecimals
    Hexes <- MCHexes
    Quoted <- MCQuoted
    Primitives <- MCPrimitives
    MaxU64 <- MCMaxU64
    Disk <- MCDisk
    Lists <- MCLists
    SnakeCase <- MCSnakeCase
    Projects <- MCProjects
    Upper <- MCUpper
    Path <- MCPath
    Absolute <- MCAbsolute
    EndOfText <- Eof
    NoSettings <- ToolUnset
    PathKind <- ToolKind
    ParseLine <- ToolParseArguments
    Generator <- ToolGenerator
    OpenFile <- ToolOpen
    NextToken <- ToolMove
    ThrowIf <- ToolThrow
    ExpectToken <- ToolExpect
    FunctionsBlock <- ToolParseFunctions
    EnumBlock <- ToolParseEnum
    StructBlock <- ToolParseStruct
    RemoveOuterQuotes <- ToolRemoveOuterQuotes
    Validate <- ToolValidations
    MergeInto <- ToolMergeEdl
    ParsedEdl <- ToolEdl
INVARIANT OnceIsEnough
