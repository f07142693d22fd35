SPECIFICATION Spec
CONSTANTS
    Stone = Stone
    Wood = Wood
    Square = Square
    Materials = {Stone}
    Producers = {}
    Placements <- BlockDrops
    Tilts <- MayTilt
    Measures <- WholeBlocks
    Densities <- OneDensity
    CoordinateLimit = 4
    InitialScenes <- FromTool
    MaxCommands = 2
    Palettes <- TiltPalettes
PROPERTY
    ImplementsLinearHistory
CHECK_DEADLOCK FALSE
