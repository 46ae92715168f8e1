CONSTANTS
    Phases <- EnterPhase
    Descs <- EnterDescs
    RegSets <- ZeroCountRegs
    Rets <- ExitRets
    MaxBuf = 3
    RecordCap = 22
    Mapped <- MCMapped
    NulAt <- MCNulAt
    WordAt <- MCWordAt
    IovAt <- MCIovAt
    MaskMod = 16
    U32 = 65536
SPECIFICATION Spec
INVARIANTS
    PayloadLengthsAsSpecified
CHECK_DEADLOCK FALSE
