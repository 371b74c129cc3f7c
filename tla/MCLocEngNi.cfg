SPECIFICATION FairSpec
CONSTANTS
  MaxRequests = 2
  MaxInits = 2
  CreateFails = TRUE
INVARIANT TypeOK
INVARIANT OneSession
INVARIANT AnsweredOnce
 
PROPERTY StatusClears
PROPERTY RespondReturns
PROPERTY SavedRequestAnswered
CHECK_DEADLOCK FALSE
