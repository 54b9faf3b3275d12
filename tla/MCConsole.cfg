CONSTANTS
    Width = 4
    Height = 2
    con_tab = 2
    Geometries <- MCGeometries
    EVERY = 2
    Leftovers <- MCLeftovers
    MaxExpirations = 2
    MaxKeys = 1
    Texts <- MCTexts
SPECIFICATION Spec
INVARIANTS TypeOK ScreenTrue
PROPERTIES StraysExplained EverythingServed
CHECK_DEADLOCK FALSE
