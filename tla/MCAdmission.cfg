SPECIFICATION Spec
CONSTANTS
  MaxTime = 2
  StartTime = 1
  MaxMoves = 2
  MaxRotations = 2
  Configurations <- MCConfigurations
  Grant <- MCGrant
  IssuedAt <- MCIssuedAt
  ExpiresAt <- MCExpiresAt
  Attributed <- MCGrant
  MAX_GRANT_SECONDS = 2
  Pair <- MCPair
  Names <- MCNames
  IssuerOf <- MCIssuer
  NotAfter <- MCNotAfter
  SERVING_CERT_WARN_DAYS = 1
  Program <- MCProgramNames
  WaiverList <- MCWaiverNames
  NoWaivers = "empty"
  ProgramText <- MCProgramText
  WaiverText <- MCWaiverText
  BodyText <- MCBodyText
  Labels <- MCLabels
  PolicyName = "prod"
INVARIANTS
    AdmittedIsJustified
PROPERTIES
    RefinesSuspension
    WithdrawnEnds
    GoodBundleIsEnforced
    GoodPairIsServed
CHECK_DEADLOCK FALSE
