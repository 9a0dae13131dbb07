SPECIFICATION LimiterSpec
CONSTANTS
  h1 = h1  h2 = h2  h3 = h3  p1 = p1
  Clients = {c1}
  Replicas = {p1}
  Handlers = {h1, h2, h3}
  ReplicaOf <- MCReplicaOf
  Unit = 2
  Burst = 2
  MaxTime = 7
  NoLimiter = NoLimiter
  NoClient = NoClient
SYMMETRY MCSymmetry
INVARIANTS Balanced WithinRate
PROPERTIES PatientIsServed
