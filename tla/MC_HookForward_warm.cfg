\* Two events; two daemons they may start, one of them with a daemon of another version, or a forwarder in an MCP server.
SPECIFICATION FairSpec
CONSTANTS
  a = a
  b = b
  h = h
  f = f
  Shims = {s, t}
  Large = {t}
  Backlog = 1
  Daemons = {a, b, h, f}
  Hosts = {h}
  Foreign = {f}
  Casts <- Pairs
  Modes = {"auto", "always", "never"}
  Paths = {"none", "stale", "plain"}
INVARIANTS ColdStartSettlesToOne OutputMeansHandled TwiceOnlyAfterGivingUp
PROPERTIES HooksMoveOn OrphansAreReaped
CHECK_DEADLOCK FALSE
