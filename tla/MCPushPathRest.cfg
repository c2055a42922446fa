CONSTANTS
  Client = {c1}
  Uid = {u1}
  MaxVersion = 2
  NotFinite = {}
  RestReads = TRUE
  Pollers = {}
  MaxAnswers = 0
  Reading = {c1}
SPECIFICATION Spec
INVARIANTS
  NewSamplesForwarded
