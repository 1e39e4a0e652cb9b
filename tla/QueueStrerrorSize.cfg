\* Every code, with the buffer size the function itself gives.
SPECIFICATION Spec
CONSTANTS
    MaxBuffer = 64
INVARIANTS
    SizedBufferSuffices
