CONSTANTS
  Client = {c1, c2, c3}
  Uid = {u1, u2}
  Separation = {100, 250}
  InitialSeparation = 250
SPECIFICATION Spec
SYMMETRY Symmetry
INVARIANTS
  TypeOK
  RefcountExact
  EdgeTriggered
  ToldIsInterest
PROPERTIES
  ImplementsSharedInterest
