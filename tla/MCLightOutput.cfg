CONSTANTS
  b = b
  c = c
  u = u
  None = None
  Bridges = {b, c}
  Universes = {u, v}
  Levels = {"zero", "full"}
  Loop = loop
  Writers = {loop, worker}
  Reread = 2
  KeepAlive = 2
  ResumedAfter = 2
  Late = 1
  Archives <- MCArchives
  Changes = 2
  Contentions = 1
SPECIFICATION MCSpec
INVARIANTS RendersWhatReturned StreamsEnd GreenLamp
PROPERTIES EditsKept Settles
