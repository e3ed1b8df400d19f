SPECIFICATION Spec
CONSTANTS
  d1 = d1
  d2 = d2
  t1 = t1
  s1 = s1
  u1 = u1
  u2 = u2
  NoOne = NoOne
  vol1 = vol1
  vol2 = vol2
  Daemon = {d1, d2}
  Volume = {vol1, vol2}
  Thread = {t1}
  Session = {s1}
  Stopper = {u1, u2}
  OwnerOf <- MCOwnerOf
  Requests <- MCRequests
  Configured <- MCConfigured
  Size = 6
  Unit = 2
  MaxIo = 2
  Align = 1
  CanTrim = TRUE
  MaxSessions = 1
  MaxCalls = 1
  MaxVerbs = 1
  MaxFaults = 1
INVARIANTS DrainCovers RepliesEarned StopReleases
PROPERTIES SocketKept CallersAnswered
