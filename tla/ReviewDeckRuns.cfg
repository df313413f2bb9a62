SPECIFICATION Spec
CONSTANTS
    PathInfo <- MCPathInfo
    TextInfo <- MCTextInfo
    MaxRuns = 2
    Diffs <- MCDiffs
    Shapes <- MCShapes
    MaxHunks = 2
    MaxListed = 2
    Context = 1
    MaxFiles = 2
    FileLengths = {2, 4, 12}
CHECK_DEADLOCK FALSE
INVARIANTS TypeOK EveryHunkOnItsCard NoFindingLost ReviewIsOfItsChange
           AttentionFirst OrderOfFilesIrrelevant
           CardShowsItsChange CommentSitsOnTheDiff
