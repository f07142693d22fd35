SPECIFICATION SketchSpec
CONSTANTS
    Stone = Stone
    Wood = Wood
    Materials = {Wood}
    Producers <- Profiles
    Placements <- Unused
    Tilts <- Flat
    Measures <- Unused
    Densities <- OneDensity
    CoordinateLimit = 8
    InitialScenes <- FromSketch
    MaxCommands = 2
    Palettes <- PaintOnly
    Races = {"press"}
    MaxQueued = 2
    SeedScene <- OneTool
INVARIANTS
    HistoryExplainsTheDocument
CHECK_DEADLOCK FALSE
