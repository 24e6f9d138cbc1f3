SPECIFICATION FairSpec
CONSTANTS
  p1 = p1  p2 = p2  k1 = k1  k2 = k2  v1 = v1 
  Procs = {p1, p2}
  Keys = {k1, k2}
  Values = {v1}
  Absent = Absent
  Torn = Torn
  None = None
PROPERTIES AtomicSpec CallsReturn
