SPECIFICATION Spec
CONSTANTS
  Top = 1
  Signals = {NoSignal, 1}
  NoSignal = NoSignal
  Issues = {i1}
  Past = i0
  Stories = {i0, i1}
  MinSamples = 2
  Runs = {r1, r2}
  MaxAttempts = 2
INVARIANTS MergedGreen TopTried
SYMMETRY Interchangeable
CHECK_DEADLOCK FALSE
