SPECIFICATION MCSpec
CONSTANTS
    root = root
    system = system
    dflt = dflt
    plain = plain
    f1 = f1
    Null = Null
    Absent = Absent
    NonText = NonText
    Root = root
    Default = dflt
    Name <- MCName
    GoodPattern <- MCGood
    BadPattern = {}
    File <- MCFile
    Config <- MCConfig
    Document <- MCDocument
    Type <- MCType
    Text <- MCText
    Key <- MCKey
    Nesting = 2
    Number <- MCNumber
    TextOf <- MCTextOf
INVARIANT
    AppenderLevelsInForce
