\* Indices, memory and content of a Buffer.
CONSTANTS
    zero = zero
    a = a
    Byte = {zero, a}
    Zero = zero
    kCheapPrepend = 2
    kInitialSize = 2
    ExtraBuf = 2
    Data <- Strings
    MaxBytes = 4
SPECIFICATION Spec
INVARIANTS TypeOK MovesOnlyToFront MemoryBounded
PROPERTIES ImplementsStream
CHECK_DEADLOCK FALSE
