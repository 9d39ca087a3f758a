SPECIFICATION Spec
CONSTANTS
    none = none
    None = none
    Strings <- MCStrings
    FileSets <- MCFileSets
    Commands <- MCCommands
    Paths0 <- MCPaths
    RootCmdline <- MCRootCmdline
    RootWords = {"root=uuid", "root=other"}
    MaxDepth = 4
INVARIANTS
    LoadedInOrder
    ResolvableIsResolved
    ReplacedAgree
PROPERTY ConfigEnds
