CONSTANTS
    Width <- MCWidth
    FloatRep <- MCRep
    DoubleRep <- MCRep
    Layouts <- MCLayouts
    Stored32 <- MCStored32
SPECIFICATION Spec
INVARIANT BarriersKept
PROPERTY AccessesAsInIL
