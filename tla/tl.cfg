SPECIFICATION Spec
CONSTANTS
    Readers <- ReaderTable
    Wire <- WireOf
    Bits <- BitsOf
    Walked <- AllReaders
    MaxCount = 2
CHECK_DEADLOCK FALSE

INVARIANTS Aligned  NeverMisreads 
