\* Writes and reads longer than the ring has room for; seven bytes go round it
\* nearly twice; the handshake with every order of its stores.
CONSTANTS
  max_size = 4
  MaxLen = 4
  MaxCount = 4
  MaxBytes = 7
  MCUL = MCUL
  ULOG = ULOG
  Other = Other
SPECIFICATION LogRingSpec
INVARIANT HandshakeHolds
PROPERTIES RefusedOnlyWhenFull Implements
CHECK_DEADLOCK FALSE
