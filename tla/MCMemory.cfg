SPECIFICATION Spec
CONSTANTS
    Process = {p, q}
    Initial = p
    Dirs = 3
    Entries = 2
    Frame = {1, 2, 3, 4, 5, 6, 7, 8, 9}
    Device = Device
    None = None
    Value = {0, 1}
    Zero = 0
    Linked = 1
    Choice <- Lowest
VIEW View
CHECK_DEADLOCK FALSE
PROPERTIES
    FramesAccounted
    OnlyOwnTouchUnmapsDevices
    ImplementsAddressSpaces
