SPECIFICATION Spec
CONSTANTS
  Mirrors = 2
  Attempts = 2
  Whole = 2
  MaxEdition = 2
  MaxRelease = 2
  None = None
INVARIANTS TypeOK GuestReadsImage SeedFollowsRelease ImagesKept
PROPERTIES ImageStays
