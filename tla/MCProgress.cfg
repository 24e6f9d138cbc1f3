SPECIFICATION FairSpec
CONSTANTS
  r1 = r1  r2 = r2  l1 = l1
  k1 = k1  k2 = k2
  Reqs = {r1, r2}
  Lookers = {l1}
  Janitor = janitor
  Closer = closer
  Keys = {k1}
  Publics = {p1}
  Secrets = {s1}
  Entries = {1, 2, 3}
  MaxActive = 0
  MaxPerNamespace = 0
  TTL = 0
  Events = {"discard", "close"}
  None = None
  Namespace <- MCNamespace
PROPERTIES AcquireReturns LookupsReturn ShutdownEnds
