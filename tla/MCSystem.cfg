CONSTANTS
    Cores = 3
    Core <- MCCore
    Firmware <- MCFirmware
    Present <- MCPresent
    Pid = {1, 2, 3, 4, 5, 6, 7, 8}
    NFILE = 6
    LineBytes = 19
    NameBytes = 5
    PipeBytes = 8
    CopyBytes = 3
    FgetsBytes = 4
    Users <- MCUsers
    NamesTyped <- MCNames
    PasswordsTyped <- MCPasswords
    LinesTyped <- MCLines
    MaxLines = 5
    Disk <- MCDisk
    Texts <- MCTexts
SPECIFICATION Spec
INVARIANTS
    StacksApart
    MachineReady
    OneReader
    AsTyped
    OutputRight
PROPERTY
    PromptReturns
CHECK_DEADLOCK FALSE
