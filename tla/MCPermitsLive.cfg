CONSTANTS
  a1 = a1
  a2 = a2
  a3 = a3
  global = global
  ann = ann
  bob = bob
  Activations = {a1, a3}
  Keys = {global, ann, bob}
  KeysOf <- MCKeysOf
  Limit <- OneEach
  Lease = 1
  Grace = 1
  MaxSkew = 1
  MaxBeats = 2
  MaxTime = 1
SPECIFICATION FairSpec
PROPERTY DroppedStops
CHECK_DEADLOCK FALSE
