SPECIFICATION Spec
CONSTANTS
    PathInfo <- MCPathInfo
    TextInfo <- MCTextInfo
    MaxRuns = 2
    Diffs <- MCDiffs
    Shapes <- DashedShapes
    MaxHunks = 2
    MaxListed = 2
    Context = 1
    MaxFiles = 2
    FileLengths = {2, 4, 12}
CHECK_DEADLOCK FALSE
INVARIANTS ReviewIsOfItsChange
