CONSTANTS
    Width <- MCWidth
    FloatRep <- MCFloatRep
    DoubleRep <- MCDoubleRep
    Constants <- MCConstants
    MaxStack = 2
SPECIFICATION Spec
INVARIANTS
    ArithmeticAsDocumented
    ConversionsAsDocumented
    ComparisonsAsDocumented
