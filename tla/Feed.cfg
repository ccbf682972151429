SPECIFICATION Spec
CONSTANTS
  Tab = {t1}
  MaxNotes = 2
  MaxTickets = 2
  MaxFetches = 1
  MaxMarks = 1
  Capacity = 1
  Limit = 2
INVARIANTS
  TypeOK
  ChannelsAreHeld
  FeedMatchesTable
PROPERTIES
  HubSettles
CHECK_DEADLOCK FALSE
