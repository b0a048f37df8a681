SPECIFICATION FairSpec

CONSTANTS
  Lines = {1}
  Modulus = 6
  First = 4
  Capacity = 2
  PacketChunks = 2
  MaxWire <- Wires
  MaxVital <- ServerSends

INVARIANT TypeOK
INVARIANT KeptUntilTaken

PROPERTY ReliableStream
PROPERTY BufferDrains

CHECK_DEADLOCK FALSE
