SPECIFICATION Spec
CONSTANTS
  Characters <- MCCharacters
  Lower <- MCLower
  Upper <- MCUpper
  Visits <- MCVisits
  Platforms = {"posix", "windows"}
  Files <- MCFiles
  Directories <- MCDirectories
\* One form, one save and one start are the whole run.
CHECK_DEADLOCK FALSE
INVARIANTS
  TypeOK
  RoundTrip
  ReadersAgree
  TakesExactlyRules
  FormsAreLaunched
  ArgumentsArrive
  ConnectsAsTyped
  EnvironmentIsTheHosts
  UploadsWhatWasNamed
