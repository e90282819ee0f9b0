SPECIFICATION HierSpec
CONSTANTS
  NumLevels = 11
  WordBits = 3
INVARIANTS BitmapTypeOK BestExact SummaryExact
PROPERTIES OneLevelChanges
