\* The filter in use or not, one bin to be created, one timeout, two frames.
SPECIFICATION AppSpec
CONSTANTS
  b0 = b0
  b1 = b1
  Bins = {b0, b1}
  FirstBin = b0
  NoBin = NoBin
  nvvidconv1 = nvvidconv1
  nvvidconv2 = nvvidconv2
  Stream <- ShortStream
  tp_count <- Tp
  fp_count <- Fp
  BinCapacity = 2
  MaxTimers = 1
  Unwritable = {2}
  CloudWorks = TRUE
INVARIANTS
  FewLabelsMissing
  UploadsAreSelected
  OnlyLastPickedVanishes
PROPERTIES
  IsFrameSave
  ApplicationEnds
\* The process ends.
CHECK_DEADLOCK FALSE
