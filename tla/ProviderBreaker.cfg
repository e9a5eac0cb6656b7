CONSTANTS
  Circuits = {c1, c2}
  Threshold = 3
  Window = 2
  Cooldown = 2
  MaxTime = 7
  MaxFailures = 4
  Never = Never
SPECIFICATION Spec
CHECK_DEADLOCK FALSE
INVARIANTS BurstOpens OpenIsEarned
PROPERTY CooldownHolds
