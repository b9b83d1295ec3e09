SPECIFICATION FairSpec
CONSTANTS
  r1 = r1
  r2 = r2
  Requests = {r1, r2}
  Viewers = {v1}
  Generations = {g1}
  Configured <- MCConfigured
  Manifest <- MCManifest
  CollectionOf <- MCCollectionOf
  Families <- MCFamilies
  FamilyOf <- MCFamilyOf
  Stems = {"a", "b"}
  Editions = {"old", "new", "scan"}
  Textless = {"scan"}
  Folders <- MCFolders
  None = None
INVARIANTS
  OneIndexer
  CompletedIsFresh
  EvidenceIsCurrent
PROPERTIES
  ReadyIsTrue
  StartedJobEnds
CHECK_DEADLOCK FALSE
