SPECIFICATION FairCredentialSpec
CONSTANTS
  Platforms = {"posix", "windows"}
  Programs = {"wtssh", "scpm"}
  AuthModes = {"auto", "key", "password"}
  HalfRange = 512
  Backends = {"windows", "macos", "libsecret", "none"}
  Targets = {"ann@old", "ann@new"}
  BlobMax = 12
  WideCharToMultiByte <- MCWideCharToMultiByte
  Typed <- MCTyped
\* A connection and a session that have ended stay so.
CHECK_DEADLOCK FALSE
INVARIANTS
  TypeOK
  OneAttempt
  ExitCodeIsTrue
  SelfTestIsClean
PROPERTIES
  ReleaseOnlyVerified
  NobodyHangs
  RightPassword
  PasswordUnaltered
