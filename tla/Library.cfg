CONSTANTS
    BYTE = 8
    LONG = 64
    MAX_RAM_PAGE = 16
    PAGE = 2
    BITS = 4
    Bytes = {1, 6}
    MaxStr = 3
    MaxArr = 4
    MaxRoom = 5
    LongStr <- MCLongStr
    Pieces <- MCPieces
    Regions <- MCRegions
    Kernel <- MCKernel
    Machines <- MCMachines
SPECIFICATION LibSpec
INVARIANTS
    TextOK
    CopyOK
    PrintOK
    BitmapSound
    AcpiOK
