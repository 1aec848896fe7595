--------------------------- MODULE MCKernelMemory ---------------------------
\* Two runs of page frames with a gap; pages of four bytes, so that there are bins of
\* two and four bytes.
EXTENDS KernelMemory

MCMemoryMap == <<2, 3, 4, 5, 6, 8>>
=============================================================================
