CONSTANTS
    STUB_PASSES = "vector"
    GS = 24
    Keys <- MCKeys
    MaxBytes = 3
    Devices <- MCDevices
    Exceptions <- MCExceptions
SPECIFICATION Spec
INVARIANTS TypeOK BytesOnceInOrder WaitingByteIsPending AllRetired OnlyFaultsHalt ModifiersFollowKeys LettersShownInCase
PROPERTIES EveryKeyIsShown
\* After an exception the machine halts for good.
CHECK_DEADLOCK FALSE
