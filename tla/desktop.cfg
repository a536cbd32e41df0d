SPECIFICATION Spec
CONSTANTS
  MaxRestarts = 5
  MaxAttempts = 3
INVARIANTS TypeOK SingleGuest RestartBudget NoServerLeak GuestSupervised
           WatchedGuestHasDisk DisplayFollowsGuest NoNativeBesideGuest
PROPERTIES NoUnwantedLaunch ImplementsWatchdog
