SPECIFICATION Spec
CONSTANTS
    Slots = {1, 2}
    Leaves <- Tools
    Densities = {2}
    ChunkBlocks = 2
    MaxChunkExtent = 4
    MaxPendingEdits = 1
    Air = Air
    Nothing = Nothing
INVARIANTS MirrorIsWholesale
CHECK_DEADLOCK FALSE
