\* Two daemons started by two events over the socket file of a third that died.
SPECIFICATION Spec
CONSTANTS
  a = a
  b = b
  h = h
  f = f
  Shims = {s, t}
  Large = {t}
  Backlog = 1
  Daemons = {a, b}
  Hosts = {}
  Foreign = {}
  Casts <- Both
  Modes = {"auto"}
  Paths = {"stale"}
PROPERTIES RemovesNoLiveSocket
CHECK_DEADLOCK FALSE
