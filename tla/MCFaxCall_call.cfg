CONSTANTS
  MaxFaults = 4
  Doc <- ThreePages
  BlockCount = 1
  FrameCount = 2
  MaxRate = 1
  PageWrap = 256
  Configs <- TwoConfigs
  Format = "MR"
  FlowLimit = 1
  MayAbort = TRUE
  Idents = 1
  MaxSlow = 1

SPECIFICATION Spec

INVARIANTS
  SavedInOrder

PROPERTIES
  NoSecondCopy
  CallEnds
  TransferSpec
