SPECIFICATION Spec
CONSTANTS
    Kind = {"heading", "paragraph", "table_row"}
    Path <- MCPath
    Length = {0, 3, 9}
    MaxElements = 4
    BlockTarget = 6
    BlockMax = 6
    ChunkMin = 2
    ChunkTarget = 4
    ChunkMax = 5
INVARIANTS TextPreserved WithinLimits SectionsRespected
CHECK_DEADLOCK FALSE
