SPECIFICATION Spec
CONSTANTS
  acme = acme
  eu = eu
  iso = iso
  access = access
  RiskBased = RiskBased
  FullInstrument = FullInstrument
  TooLong = TooLong
  Blank = Blank
  Empty = Empty
  MaxFamilies = 2
  Words = {acme, eu, iso}
  None = None
  Requests = {r1, r2}
  Runs = {}
  Patches <- AuditPatches
  Docs <- InputDocs
  MaxRevision = 2
PROPERTIES
  ApprovalsAreKept
CHECK_DEADLOCK FALSE
