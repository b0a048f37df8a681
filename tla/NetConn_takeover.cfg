SPECIFICATION TakeoverSpec

CONSTANTS
  Lines = {1, 2}
  Modulus = 6
  First = 4
  Capacity = 2
  PacketChunks = 2
  MaxWire <- OneEach
  MaxVital <- ServerSendsOne

INVARIANT GuaranteedDelivery

CHECK_DEADLOCK FALSE
