SPECIFICATION Spec
CONSTANTS
  Plan <- TwoSlots
  Platforms <- Everywhere
  Serial = FALSE
  MaxFailures = 0
  MaxCrashes = 1
  MaxVanished = 0
CHECK_DEADLOCK FALSE
INVARIANT UserSettingsHeld
