SPECIFICATION Spec
CONSTANTS
    Slots = {1, 2}
    Leaves <- Scopes
    Densities = {2}
    ChunkBlocks = 2
    MaxChunkExtent = 4
    MaxPendingEdits = 1
    Air = Air
    Nothing = Nothing
INVARIANTS ReassemblyIsWholesale
CHECK_DEADLOCK FALSE
