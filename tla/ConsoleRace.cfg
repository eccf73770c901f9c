CONSTANTS
    MAX_TTY = 2
    VGA_WIDTH = 2
    VGA_HEIGHT = 2
    STREAM_BUFF = 4
    SIZE_MAX_CMD = 5
    MAX_POLL = 2
    value_table <- KeyTable
    Firmware <- AcpiMachine
    MaxKeys = 4
SPECIFICATION ConsoleSpec
INVARIANTS
    InScreen
