CONSTANTS
  MaxFaults = 2
  Doc <- OnePage
  BlockCount = 2
  FrameCount = 2
  MaxRate = 1
  PageWrap = 256
  Configs <- OneConfig
  Format = "MMR"
  FlowLimit = 2
  MayAbort = FALSE
  Idents = 1
  MaxSlow = 0

SPECIFICATION Spec

INVARIANTS
  NullBlocksWhole
