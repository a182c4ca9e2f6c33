SPECIFICATION PollerSpec
CONSTANTS
  a = a
  b = b
  c = c
  d = d
  PollChannels = {a, b, c, d}
  Fd <- MCFd
INVARIANTS
  NoFailure
  IndexConsistent
PROPERTY
  OnlyWantedIsReported
