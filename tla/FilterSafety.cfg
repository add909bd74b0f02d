\* Requests in any order against a stream of four frames and an event.
INIT Init
NEXT Next
CONSTANTS
  b0 = b0
  b1 = b1
  b2 = b2
  Bins = {b0, b1, b2}
  FirstBin = b0
  NoBin = NoBin
  nvvidconv1 = nvvidconv1
  nvvidconv2 = nvvidconv2
  Stream <- MixedStream
  tp_count <- MixedTp
  fp_count <- MixedFp
  BinCapacity = 2
  MaxTimers = 2
SYMMETRY AddedBins
INVARIANTS
  IInv
  PipelineShape
  FlagAgreesWithPipeline
  DeliveredInOrder
  OrderInv
  AtMostOneLateFrame
  QueueFollowsDelivery
  FewItemsLost
  WindowEndsWithItsTimer
PROPERTIES
  ItemsGoAsRequested
  IsFrameChannel
\* The stream is finite.
CHECK_DEADLOCK FALSE
