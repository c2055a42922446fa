CONSTANTS
  Client = {c1, c2}
  Uid = {u1}
  MaxVersion = 3
  NotFinite = {2}
  RestReads = TRUE
  Pollers = {c1}
  MaxAnswers = 1
  Reading = {c1}
SPECIFICATION FairSpec
INVARIANTS
  TypeOK
  PushedOrTaken
  OnlyWanted
PROPERTIES
  ReachesBrowser
  PollingHeals
