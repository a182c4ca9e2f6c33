SPECIFICATION FairSpec
CONSTANT
  MaxLines = 5
INVARIANTS
  RequestsAreThoseOfTheStream
  OnlyTheLastCloses
  NoRequestWaits
PROPERTY
  OnMessageReturns
CHECK_DEADLOCK FALSE
