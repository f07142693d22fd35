SPECIFICATION Spec
CONSTANTS
    Stone = Stone
    Wood = Wood
    Square = Square
    Materials = {Stone}
    Producers = {}
    Placements <- NoDrops
    Tilts <- MayTilt
    Measures <- WholeBlocks
    Densities <- TwoDensities
    CoordinateLimit = 4
    InitialScenes <- FromTilted
    MaxCommands = 3
    Palettes <- MixedPalettes
PROPERTY
    ImplementsHistoryOfStructure
CHECK_DEADLOCK FALSE
