SPECIFICATION FairSpec
CONSTANTS
  m1 = m1
  m2 = m2
  m3 = m3
  fd4 = fd4
  channel_ = channel_
  Channels = {channel_}
  Fds = {fd4}
  FdOf <- MCFdOf
  Messages = {m1, m2, m3}
  OtherMessages = {m1}
  Length <- MCLength
  SendSpace = 2
  MaxChunks = 1
  Modes = {TRUE, FALSE}
INVARIANTS
  StreamIntact
  WritingIffBacklog
  NoFailure
  ShutdownKeepsMessages
PROPERTIES
  PeerGoneIsNoticed
  ShutdownIsCarriedOut
