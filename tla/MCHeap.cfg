CONSTANTS
    Total = 6
    BlockSize = 4
    Word = 32
    Sizes <- MCSizes
    Holders = {h1, h2, h3}
SPECIFICATION Spec
INVARIANTS TypeOK Disjoint TableMatches OneOverrun
