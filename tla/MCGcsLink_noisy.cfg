SPECIFICATION LinkSpec
CONSTANTS
  Seqs = {0, 1}
  CloudCap = 1
  Flight <- MCFlight
  Orders <- MCOrders
  Snapshots <- MCSnapshots
  Inbox = 2
  MaxCopies = 1
  MaxOrders = 2
INVARIANTS NothingInvented LastPressIsSent
PROPERTY DisplayCatchesUp
CHECK_DEADLOCK FALSE
