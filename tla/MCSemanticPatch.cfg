\* A wave of three files, two edits of somebody else, three faults.
SPECIFICATION PatchSpec
CONSTANTS
  e1 = e1  e2 = e2
  NFiles = 3
  Edits = {e1, e2}
  MaxPatchFaults = 3
INVARIANTS
  VerdictIsTrue
  WavesDoNotMix
PROPERTIES
  UndisturbedRollbackSucceeds
SYMMETRY Symmetry
