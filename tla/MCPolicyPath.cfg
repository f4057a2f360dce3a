SPECIFICATION PolicySpec
CONSTANTS
  COMM_MATCH_MAX = 1
  PATH_MATCH_MAX = 3
  ED25519_PUBLIC_KEY_HEX_LEN = 2
  HexDigit <- MCHexDigit
  U16_MAX = 5
  NotUtf8 <- MCNotUtf8
  PATH_LEN = 4
  COMM_LEN = 2
  KPATH_LEN = 2
  MAX_KERNEL_RULES = 4
  Policies <- MCPolicies
  Calls <- MCCalls
  Identities <- MCIdentities
  Probed <- MCProbed
  Earlier <- MCEarlier
INVARIANT
  OnlySignedPolicyLoads
  PlanesAgree
  AcceptedPolicyLoads
  KernelRefusesRightly
  PrefilterHidesNothing
  NothingUnderEnforced
CHECK_DEADLOCK FALSE
