\* Every operator, every percentage, one boolean flag.
CONSTANTS
    None = None
    FlagKeys = {k1}
    Users <- MCUsers
    Contexts <- MCContexts
    RuleLists <- MCRuleLists
    Percentages = {0, 1, 2, 3, 4}
    FlagScalars <- Booleans
    BUCKET_SPACE = 4
    Digest <- MCDigest
    Contains <- MCPairs
    StartsWith <- MCPairs
    EndsWith <- MCPairs
SPECIFICATION Spec
INVARIANTS TypeOK RolloutExtremes KillSwitch
PROPERTIES RolloutEditIsLocal MalformedRulesAreInert 
