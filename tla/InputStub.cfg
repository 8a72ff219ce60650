\* The stubs as interrupts.s has them; GS holds a data selector.
CONSTANTS
    STUB_PASSES = "saved_gs"
    GS = 24
    Keys <- MCKeys
    MaxBytes = 1
    Devices <- MCDevices
    Exceptions <- MCExceptions
SPECIFICATION Spec
PROPERTIES EveryKeyIsShown
CHECK_DEADLOCK FALSE
