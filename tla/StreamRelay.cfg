SPECIFICATION FairSpec
CONSTANTS
  Calls <- MCCalls
CHECK_DEADLOCK FALSE
INVARIANTS
  BilledOnce
  TerminalComesLast
  ClientsLearnTheEnd
  WholeRepliesAreCharged
  ReportedUsageIsCharged
PROPERTIES
  StreamsEnd
