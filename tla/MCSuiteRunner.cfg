SPECIFICATION SuiteSpec
CONSTANTS
  g1 = g1
  g2 = g2
  Gates <- MCGates
  Selected = 2
  Claims <- MCClaims
  Archive <- MCArchive
  NoRecord = NoRecord
  MaxEdits = 1
CHECK_DEADLOCK FALSE
INVARIANTS
  SuiteTypeOK
  EvidenceIsOwn
  SummaryOfCompleteSuites
PROPERTIES
  SuiteEnds
