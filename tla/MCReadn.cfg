\* Header-sized requests (4 bytes), a stream with two bytes of the next message,
\* and the retry limit of the source; bytes of 16 values.
CONSTANTS
  MaxLen = 4
  StreamLen = 6
  RetryLimit = 10
  ByteBase = 16
  Lengths <- MCLengths
SPECIFICATION HeaderSpec
INVARIANTS TypeOK StoredInOrder NeverReadsAhead ResultIsHonest GivesUpForACause HeaderIsTheLength
PROPERTY Terminates
CHECK_DEADLOCK FALSE
