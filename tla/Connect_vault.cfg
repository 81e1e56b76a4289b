SPECIFICATION Spec
CONSTANTS
  Platforms = {"posix", "windows"}
  Programs = {"wtssh", "scpm"}
  AuthModes = {"auto", "key", "password"}
  HalfRange = 512
PROPERTIES
  VaultAfterVerification
