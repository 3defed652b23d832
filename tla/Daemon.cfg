CONSTANTS
  Eaw = 4
  PsfInterval = 3
  MaxMoves = 2
SPECIFICATION DaemonSpec
INVARIANTS MifCentred MifGap TunedReady TapIsNotZero
PROPERTY MifSent
\* The process may exit.
CHECK_DEADLOCK FALSE
