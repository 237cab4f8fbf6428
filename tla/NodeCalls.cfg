\* One node call at a time, of any kind, while two workspaces change two credentials
\* and one node type.
SPECIFICATION Spec
CONSTANTS
    k1 = k1
    k2 = k2
    x = x
    y = y
    out1 = out1
    out2 = out2
    text = text
    Scalars = {x, y, out1, out2, text}
    Null = Null
    Segments <- MCSegments
    IndexOf <- MCIndexOf
    Calls = {c1}
    Workspaces = {w1, w2}
    Creds = {k1, k2}
    NoCred = NoCred
    BadId = BadId
    TypeIds = {t1}
    MaxVersion = 3
    Templates <- MCTemplates
    TokenOf <- MCTokenOf
    Decryptor = TRUE
    RefSets <- MCRefSets
    LowerASCII <- MCLowerASCII
    LowerOther <- MCLowerOther
    BuiltinTexts <- MCBuiltinTexts
    Queries <- MCQueries
    Config <- MCConfig
    Paths <- MCPaths
    Initial <- MCInitial
    ParentOut <- MCParentOut
    Faults = {"db", "io"}
INVARIANTS
    TypeOK
    SecretsAreOwn
    CallsHaveTheirSecrets
    CallsUseStoredDefinition
    CatalogIsUniform
    TemplatesLoseNothing
    InitialInputIsReachable
SYMMETRY NodeCallsSymmetry
