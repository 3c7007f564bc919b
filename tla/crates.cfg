SPECIFICATION Spec
CONSTANTS
  Worker = {w1, w2, w3}
  Lockfile = {{}, {1}, {2, 3}, {1, 2, 3}}
  Cap = 2
  Gens = 4
  Turns = 4
  Deaths = 1
INVARIANT CratesHeld
CHECK_DEADLOCK FALSE
