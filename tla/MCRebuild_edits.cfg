SPECIFICATION Spec
CONSTANTS
    Slots = {1, 2}
    Leaves <- FewTools
    Densities = {1, 2, 4}
    ChunkBlocks = 2
    MaxChunkExtent = 4
    MaxPendingEdits = 1
    Air = Air
    Nothing = Nothing
INVARIANTS ReassemblyIsWholesale MeshIsWholesale
PROPERTIES PatchKeepsMirrorExact HintNamesEveryChange
CHECK_DEADLOCK FALSE
