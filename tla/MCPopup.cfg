SPECIFICATION FairSpec
CONSTANTS
  connect = connect
  other = other
  Requests = {connect, other}
  Connects = {connect}
  MaxWindows = 2
  MaxChatter = 1
INVARIANTS HandedOver AlwaysPolled SettledIsSilent
PROPERTY ClosedPopupEndsAll
\* When every request is settled and every window closed there is nothing left to do.
CHECK_DEADLOCK FALSE
