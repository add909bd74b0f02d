\* A timeout of an earlier request is pending when a new one is made.
INIT Init
NEXT Next
CONSTANTS
  b0 = b0
  b1 = b1
  b2 = b2
  Bins = {b0}
  FirstBin = b0
  NoBin = NoBin
  nvvidconv1 = nvvidconv1
  nvvidconv2 = nvvidconv2
  Stream <- ShortStream
  tp_count <- ShortTp
  fp_count <- ShortFp
  BinCapacity = 2
  MaxTimers = 2
PROPERTIES
  TimeoutEndsItsOwnWindow
CHECK_DEADLOCK FALSE
