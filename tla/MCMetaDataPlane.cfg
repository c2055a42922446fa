CONSTANTS
  Uid = {u1, u2}
  MaxRevision = 2
  MaxRequests = 1
  KeepsOther = TRUE
SPECIFICATION FairSpec
INVARIANTS
  TypeOK
  CatalogueFollows
PROPERTIES
  Catalogued
