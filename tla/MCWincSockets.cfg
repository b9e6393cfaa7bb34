SPECIFICATION Spec
CONSTANTS
  TCP_SOCK_MAX = 2
  UDP_SOCK_MAX = 1
  SessionIds = 3
  Sizes = {1}
  Statuses = {0, 2}
  Commands = {"CONNECT", "SEND"}
  Receivers = {0, 1}
  MaxRequests = 2
  MaxPings = 1
INVARIANTS
  NoEventAfterClose
  PendingHasRequest
PROPERTIES
  SessionKept
