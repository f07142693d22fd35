SPECIFICATION Spec
CONSTANTS
    Slots = {1, 2}
    Leaves <- Tools
    Densities = {2}
    ChunkBlocks = 2
    MaxChunkExtent = 4
    MaxPendingEdits = 2
    Air = Air
    Nothing = Nothing
INVARIANTS ReassemblyIsWholesale
CHECK_DEADLOCK FALSE
