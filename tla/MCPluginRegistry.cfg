CONSTANTS
    cHost = cHost
    cFile = cFile
    cRegex = cRegex
    cRegexExt = cRegexExt
    cSplit = cSplit
    cSls = cSls
    Creators <- MCCreators
    NameOf <- MCNameOf
    StaticRegs <- MCStaticRegs
    DynamicRegs <- MCDynamicRegs
    Configs = {cfgA, cfgB, cfgC}
    Versions <- MCVersions
    NoPipeline = NoPipeline
    Null = Null

SPECIFICATION Spec

INVARIANT TypeOK
