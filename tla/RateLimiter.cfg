SPECIFICATION LimiterSpec
CONSTANTS
  u1 = u1
  u2 = u2
  u3 = u3
  Users = {u1, u2, u3}
  Creds <- TwoShareOne
  Ports = {"p1"}
  Callers = {h1, h2}
  Buckets = {b1, b2, b3, b4}
  Burst = 2
  Cleanup = 1
SYMMETRY LimiterSymmetry
INVARIANTS
  RefusedOnlyOverLimit
  ExcessBounded
