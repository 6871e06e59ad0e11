CONSTANTS
  a1 = a1
  a2 = a2
  a3 = a3
  global = global
  ann = ann
  bob = bob
  Activations = {a1, a2}
  Keys = {global, ann, bob}
  KeysOf <- MCKeysOf
  Limit <- TwoInAll
  Lease = 2
  Grace = 1
  MaxSkew = 1
  MaxBeats = 1
  MaxTime = 4
SPECIFICATION Spec
INVARIANTS NeverOvercommitted PlacesComeTogether DeadHoldsBriefly
CHECK_DEADLOCK FALSE
