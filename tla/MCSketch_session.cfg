SPECIFICATION SketchSpec
CONSTANTS
    Stone = Stone
    Wood = Wood
    Materials = {Wood}
    Producers <- Profiles
    Placements <- Unused
    Tilts <- Flat
    Measures <- Unused
    Densities <- OneDensity
    CoordinateLimit = 8
    InitialScenes <- FromSketch
    MaxCommands = 4
    Palettes <- PaintOnly
    Races = {}
    MaxQueued = 2
    SeedScene <- OneTool
INVARIANTS
    SessionTypeOK
    HistoryExplainsTheDocument
    ProfileStaysPut
PROPERTY
    ClosingIsOneStep
CHECK_DEADLOCK FALSE
