SPECIFICATION Spec
CONSTANTS
  acme = acme
  eu = eu
  iso = iso
  Words = {acme, eu, iso}
  access = access
  RiskBased = RiskBased
  FullInstrument = FullInstrument
  TooLong = TooLong
  Blank = Blank
  Empty = Empty
  MaxFamilies = 2
  None = None
  Requests = {r1, r2}
  Runs = {g1}
  Patches <- InputPatches
  Docs <- InputDocs
  MaxRevision = 3
SYMMETRY Symmetric
INVARIANTS
  OriginsAreTrue
  AskedNothingMeansApprovable
PROPERTIES
  SentIsApproved
  ImplementsPromise
CHECK_DEADLOCK FALSE
