SPECIFICATION Spec
CONSTANTS
  N = 3
  MaxList = 3
  Callers = {c1, c2}
  c1 = c1
  c2 = c2
  rr = rr
  im = im
  Resources = {rr, im}
  Kind <- MCKind
  MembersOf <- MCMembersOf
  ActsFor <- MCActsFor
  Asks <- MCAsks
  MaxPassed = 7
  Unsteady = {1}
INVARIANTS
  OneDialing
  RefusedRightly
  EveryonesTurn
CHECK_DEADLOCK FALSE
