SPECIFICATION Spec
CONSTANTS
  r1 = r1  r2 = r2  l1 = l1
  k1 = k1  k2 = k2
  Reqs = {r1, r2}
  Lookers = {}
  Janitor = janitor
  Closer = closer
  Keys = {k1, k2}
  Publics = {p1, p2}
  Secrets = {s1}
  Entries = {1, 2, 3}
  MaxActive = 0
  MaxPerNamespace = 1
  TTL = 1
  Events = {"abandon", "disconnect", "crash", "forget", "ephemeral"}
  None = None
  Namespace <- MCNamespace
SYMMETRY TenantSymmetry
INVARIANTS LeaseIsRecorded LeaseIsBacked CapacityRespected
