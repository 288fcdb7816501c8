SPECIFICATION Spec
CONSTANTS
    MaxLength = 6
    MaxPackets = 6
INVARIANTS AddsItsBytes ReassembledWhole
