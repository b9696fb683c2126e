SPECIFICATION Spec
CONSTANTS
  r1 = r1
  r2 = r2
  r3 = r3
  v1 = v1
  v2 = v2
  Routers = {r1, r2, r3}
  Versions = {v1, v2}
  VersionOf <- MCVersionOf
  Unversioned = none
  Adders = {a1, a2}
  Readers = {g1, g2}
INVARIANT
  MountedIsDocumented
