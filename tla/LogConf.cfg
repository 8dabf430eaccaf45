SPECIFICATION Spec
CONSTANTS
    root = root
    system = system
    dflt = dflt
    plain = plain
    short = short
    broken = broken
    f1 = f1
    Null = Null
    Root = root
    Default = dflt
    Name <- MCName
    GoodPattern <- MCGood
    BadPattern <- MCBad
    File <- MCFile
    Config <- MCConfig
INVARIANTS
    TypeOK
    LevelsFollowConfig
    FormattersFollowConfig
    AppendersOfOneDefinition
    UnconfiguredOwnNothing
