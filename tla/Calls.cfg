CONSTANTS
    TypeInfo <- MCTypeInfo
    Envs <- MCEnvs
    Pairs <- MCPairs
    ArgNames <- MCArgNames
    MaxSteps = 5
SPECIFICATION Spec
INVARIANTS
    ArgumentsDelivered
    CallsAsInIL
    FramesUnwound
    SafeTailCalls
CHECK_DEADLOCK FALSE
