SPECIFICATION FilesSpec
CONSTANTS
    p = p
    q = q
    f = f
    shared = shared
    Process = {p, q}
    File = {f, shared}
    NoProcess = NoProcess
    Closed = Closed
    Uses <- MCUses
    Disk <- MCDisk
    IdeSize <- MCIdeSize
    Image <- MCImage
    sector_size = 2
    SuperOffset = 4
    NDirect = 2
    Inline = 1
    Wrap = 13
    AllPaths <- MCAllPaths
    Paths <- MCPaths
    Sizes = {0, 5}
    Seeks = {10}
INVARIANTS
    ReadsContent
PROPERTIES
    ImplementsFiles
