SPECIFICATION Spec
CONSTANTS
  Characters <- MCCharacters
  Lower <- MCLower
  Upper <- MCUpper
  Visits <- NewFileVisits
  Platforms = {"posix", "windows"}
  Files <- MCFiles
  Directories <- MCDirectories
CHECK_DEADLOCK FALSE
INVARIANTS
  EveryHostIsSaved
