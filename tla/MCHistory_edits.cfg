SPECIFICATION Spec
CONSTANTS
    Stone = Stone
    Wood = Wood
    Square = Square
    Materials = {Wood}
    Producers = {}
    Placements <- BlockDrops
    Tilts <- Flat
    Measures <- WholeBlocks
    Densities <- TwoDensities
    CoordinateLimit = 2
    InitialScenes <- FromTool
    MaxCommands = 3
    Palettes <- EditPalettes
INVARIANTS
    SceneIsWellFormed
    SelectionIsLive
PROPERTY
    ImplementsLinearHistory
CHECK_DEADLOCK FALSE
