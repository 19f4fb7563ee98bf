SPECIFICATION FairSpec
CONSTANTS
    Byte = {0, 1}
    Chunk = 2
    MaxWrite = 2
    MaxLen = 4
PROPERTY DigestIsContent DigestReturns
