\* Two interfaces; three trials: there, back, and there again.
SPECIFICATION Spec
CONSTANTS
  Interfaces = {"eth0", "wlo1"}
  Metrics = {50, 51, 100, 600}
  MaxTrials = 3
INVARIANTS
  NeverCutOff
  HandsOver
  ComesBack
  StampsInOrder
\* A trial is the last one at some time.
CHECK_DEADLOCK FALSE
