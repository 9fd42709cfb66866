SPECIFICATION Spec
CONSTANTS
  Plan <- TwoSlots
  Platforms <- Everywhere
  Serial = TRUE
  MaxFailures = 2
  MaxCrashes = 2
  MaxVanished = 1
CHECK_DEADLOCK FALSE
INVARIANTS UserSettingsHeld QuitReleases SignInWillRestore
PROPERTIES LaunchSettles
