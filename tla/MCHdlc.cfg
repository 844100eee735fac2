SPECIFICATION Spec
CONSTANTS
  Packets <- MCPackets
  Fcs <- MCFcs
  Capacity = 16
  MaxSent = 3
INVARIANTS TypeOK PacketsInOrder NothingLeft EncoderFits
CHECK_DEADLOCK FALSE
