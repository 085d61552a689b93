SPECIFICATION Spec
CONSTANTS
  alice = alice
  bob = bob
  Users = {alice, bob}
  Policies = {1}
  MaxCalls = 4
  MaxCrashes = 1
SYMMETRY Symmetry
CHECK_DEADLOCK FALSE
INVARIANTS FlagsWritten NoPolicyOfRemoved  GrantKept
