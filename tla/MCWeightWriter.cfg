\* Two writers of one destination, a crash among their steps, and temporary
\* names short enough for Temporary::create to run out of attempts.
CONSTANTS
  Writers = {w1, w2}
  Names = {a, b}
  MaxElements = 2
  MaxTensors = 2
  MaxBlocks = 2
  Attempts = 2
  MaxNames = 5
  MaxCrashes = 1
  NoFile = NoFile
  Foreign = Foreign
SPECIFICATION Spec
INVARIANTS
  FinishedFilesVerify
  OutcomeTruthful
  NothingLeftBehind
PROPERTIES
  PublicationFinal
CHECK_DEADLOCK FALSE
SYMMETRY Symmetry
