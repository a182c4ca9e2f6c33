SPECIFICATION Spec
CONSTANTS
  a = a
  b = b
  c = c
  fd1 = fd1
  fd2 = fd2
  Channels = {a, b, c}
  Fds = {fd1, fd2}
  FdOf <- MCFdOf
  kInitEventListSize = 1
INVARIANTS
  TypeOK
  NoFailure
  DeclaredIsWatched
  NoDanglingPointer
  ListIsBounded
