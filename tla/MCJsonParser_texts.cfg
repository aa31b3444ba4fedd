SPECIFICATION FairSpec
CONSTANTS
  Streams <- MCStreams
  Digits = {"1", "2", "3"}
  Failures = 1
  MayDrain = TRUE
  DrainsInToken = FALSE
INVARIANTS
  TypeOK
  DocumentsInOrder
  NothingLeftUnparsed
  LastReportComplete
  PrintedAsMeasured
PROPERTIES
  TextIsRead
  ParseErrorIsFinal
  ErrorsReported
CHECK_DEADLOCK FALSE
