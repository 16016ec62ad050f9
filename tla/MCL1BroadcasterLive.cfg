SPECIFICATION FairSpec
CONSTANTS
    Tx = {"commit"}
    Direct = {"commit"}
    Depth = 3
    MaxTroubles = 4
PROPERTIES
    EntrySettles
