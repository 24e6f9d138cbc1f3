SPECIFICATION Spec
CONSTANTS
  r1 = r1  r2 = r2  l1 = l1
  k1 = k1  k2 = k2
  Reqs = {r1, r2}
  Lookers = {}
  Janitor = janitor
  Closer = closer
  Keys = {k1}
  Publics = {p1}
  Secrets = {s1}
  Entries = {1, 2, 3}
  MaxActive = 0
  MaxPerNamespace = 0
  TTL = 1
  Events = {"discard"}
  None = None
  Namespace <- MCNamespace
INVARIANTS LeaseIsBacked
