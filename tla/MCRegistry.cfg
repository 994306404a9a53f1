\* Two requests at a time on two local manifests and a cached blob.
CONSTANTS
  t1 = t1
  t2 = t2
  m1 = m1
  m2 = m2
  cached = cached
  Tasks <- Requests
  Digests <- All
  Remote <- Cached
  Tags = {g}
  Size = 2
  NoFile = NoFile
  NoDigest = NoDigest
  NoTag = NoTag
  MaxRequests = 3
  MaxFaults = 2
  MaxRestarts = 1
SPECIFICATION Spec
SYMMETRY Symmetry
INVARIANTS TypeOK WholeWhenAlone ReadIsWhole TagsResolve
\* Nothing is left to do once the requests are served.
CHECK_DEADLOCK FALSE
