CONSTANTS
    Byte <- SomeBytes
    Answers <- AllAnswers
    BufferSize = 2
    SizeMod = 128
SPECIFICATION Spec
INVARIANTS TokensSuffice BodyIsSent
CHECK_DEADLOCK FALSE
