SPECIFICATION FairSpec
CONSTANTS
  c1 = c1
  c2 = c2
  c3 = c3
  fd4 = fd4
  fd5 = fd5
  acceptChannel_ = acceptChannel_
  Channels = {acceptChannel_, c1, c2, c3}
  ListenFd = fd3
  Fds = {fd3, fd4, fd5}
  FdOf <- MCFdOf
INVARIANTS
  TypeOK
  NoFailure
  NoDanglingChannel
PROPERTIES
  PeerGoneFreesConnection
  ClientsAreAccepted
