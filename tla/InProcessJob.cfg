CONSTANTS
  Topics = 2
  Batches = 2
  None = None
SPECIFICATION FairSpec
CHECK_DEADLOCK FALSE
INVARIANTS TypeOK RecordKeepsUp VerdictHolds
PROPERTIES ImplementsLifecycle JobSettles FeedSettles
