\* The filter is enabled behind the last frame.
SPECIFICATION Spec
CONSTANTS
  b0 = b0
  b1 = b1
  b2 = b2
  Bins = {b0, b1}
  FirstBin = b0
  NoBin = NoBin
  nvvidconv1 = nvvidconv1
  nvvidconv2 = nvvidconv2
  Stream <- ShortStream
  tp_count <- ShortTp
  fp_count <- ShortFp
  BinCapacity = 2
  MaxTimers = 1
PROPERTIES
  EndOfStreamArrives
CHECK_DEADLOCK FALSE
