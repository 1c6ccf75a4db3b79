CONSTANTS
  SeqNoTH = 7
  MaxSeqNo = 15
  Setups <- TightSetup
  Payloads = 2
  Duplicating = FALSE
  MaxLoss = 1
SPECIFICATION FairSpec
PROPERTIES EverythingArrives
CHECK_DEADLOCK FALSE
