SPECIFICATION Spec
CONSTANTS
  Input = {N, A}
  Neutral = N
  KeyframeInterval = 1
  KeyframeSlots = 1
  UndoDepth = 1
  MaxMovie = 2
  None = None
  Elsewhere = Elsewhere
PROPERTY EditsKeepScreen
