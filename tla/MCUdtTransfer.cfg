CONSTANTS
  SeqNoTH = 7
  MaxSeqNo = 15
  Setups <- AllSetups
  Payloads = 3
  Duplicating = TRUE
  MaxLoss = 0
SPECIFICATION Spec
CHECK_DEADLOCK FALSE
INVARIANTS NoFalseAlarm RetransmitsTheSame EveryPacketIsAccounted WindowIsHonoured
PROPERTIES ImplementsStream
