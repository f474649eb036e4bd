\* Two handlers, of edits that begin alike, of one event or without observation, one of them with capture switched off; a daemon.
SPECIFICATION FairSpec
CONSTANTS
  h1 = h1
  h2 = h2
  h3 = h3
  h4 = h4
  e1 = e1
  e2 = e2
  e3 = e3
  NoEdit = NoEdit
  Handlers = {h1, h2, h3, h4}
  Replayers = {d}
  Edits = {e1, e2, e3}
  Target <- OneFile
  Signal <- Openings
  Silent = {e3}
  EditOf <- Calls
  Casts <- Pairs
  Mute = {h2}
  Leftovers = {"bad", "unreadable"}
  NumFiles = 3
  MaxItems = 2
  MaxOutages = 1
  MaxFaults = 2
INVARIANTS CapturedIsStored SpillsAreNotSetAside SkippedWasStored
PROPERTIES SpillsAreReplayed
