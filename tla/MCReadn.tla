------------------------------- MODULE MCReadn -------------------------------
EXTENDS LengthHeader

\* No, one and two bytes, every byte another, and the extremes.
MCLengths == {0, 11, 256, 4660, 32767, -1, -32768}
=============================================================================
