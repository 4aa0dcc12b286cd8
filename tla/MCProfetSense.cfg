SPECIFICATION SenseSpec
CONSTANTS
    Samples <- MCSamples
INVARIANTS
    NoTruncation
PROPERTIES
    FilterSettles
