SPECIFICATION Spec
CONSTANTS
  m1 = m1
  m2 = m2
  m3 = m3
  fd4 = fd4
  channel_ = channel_
  Channels = {channel_}
  Fds = {fd4}
  FdOf <- MCFdOf
  Messages = {m1}
  OtherMessages = {m1}
  Length <- MCLength
  SendSpace = 1
  MaxChunks = 0
  Modes = {FALSE}
INVARIANT
  StateAssertsHold
