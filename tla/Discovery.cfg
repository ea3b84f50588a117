SPECIFICATION FairSpec
CONSTANTS
  s1 = s1
  s2 = s2
  a = a
  b = b
  c = c
  None = None
  Places <- MCPlaces
  Dongles = {a, b, c}
  NoSim = {c}
  Devices <- MCDevices
  Interval = 2
  MaxSwaps = 1
  MaxFaults = 1
  MaxWakes = 1
  MaxLosses = 1
INVARIANTS NoMixedIdentity 
PROPERTY DongleFound
