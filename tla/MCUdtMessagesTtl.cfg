CONSTANTS
  SeqNoTH = 15
  MaxSeqNo = 31
  MessageSetups <- OnlyLimited
SPECIFICATION MsgSpec
INVARIANTS InfiniteIsDelivered
CHECK_DEADLOCK FALSE
