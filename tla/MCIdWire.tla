------------------------------ MODULE MCIdWire ------------------------------
EXTENDS IdWire

\* Both sides of each boundary of the two codecs, and the CCL ids the library
\* loads: 6, 14 and one on either side of the reserved 32.
MCIds == {0, 1, 63, 64, 126, 127, 128, 129, 255, 256, 16383, 16384, 32766, 32767}
           \cup {CCL_DCCL_ID_PREFIX + n : n \in {6, 14, 31, 33, 255}}
           \cup {32768, CCL_DCCL_ID_PREFIX + 32, CCL_DCCL_ID_PREFIX + 256}

=============================================================================
