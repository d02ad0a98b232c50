CONSTANTS
  Clients = {c1, c2}
  Fds = {0, 1, 2}
  MaxRequests = 2
  MaxCuts = 1
SPECIFICATION FairSpec
INVARIANTS TypeOK OwnDescriptors ReadyIsCurrent Watched
PROPERTIES ImplementsService Answered Ends
CHECK_DEADLOCK FALSE
