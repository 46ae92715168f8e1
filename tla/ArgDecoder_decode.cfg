\* Both handlers' decode loops over every argument shape, against a memory
\* with faulting, tagged, NULL and page-boundary addresses.
CONSTANTS
    Phases <- BothPhases
    Descs <- AllDescs
    RegSets <- CountRegs
    Rets <- ExitRets
    MaxBuf = 3
    RecordCap = 22
    Mapped <- MCMapped
    NulAt <- MCNulAt
    WordAt <- MCWordAt
    IovAt <- MCIovAt
    MaskMod = 16
    U32 = 65536
SPECIFICATION Spec
INVARIANTS
    TypeOK
    PayloadLengthsAsSpecified
    StringFieldsAsScanned
    IndexAccounting
\* An invocation runs to completion and stops.
CHECK_DEADLOCK FALSE
