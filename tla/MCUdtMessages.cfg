CONSTANTS
  SeqNoTH = 15
  MaxSeqNo = 31
  MessageSetups <- AllSetups
SPECIFICATION MsgSpec
ACTION_CONSTRAINT OneDrop
CHECK_DEADLOCK FALSE
INVARIANTS DeliveredAsSent NoMessageMissed AcksAreTrue
PROPERTIES TimeoutTellsTheTruth
