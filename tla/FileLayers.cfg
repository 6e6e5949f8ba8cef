\* One byte of head and buffers of two or three bytes, so that every limit is met.
SPECIFICATION Spec
CONSTANTS
  Setups <- MCSetups
  BufferSize = 3
  ExtraSize = 2
  Capacity = 3
  StreamSize = 2
  HeadSize = 1
  Payload = 2
  Integers_ = {17}
  Lengths = {1, 4}
  MaxSize = 7
  MaxOps = 3
INVARIANTS
  NoOverrun
  ReadsSeeWrites
  OrderKept
  CloseKeepsAll
  CopyFaithful
CHECK_DEADLOCK FALSE
