SPECIFICATION Spec
CONSTANTS
  Input = {N, A}
  Neutral = N
  KeyframeInterval = 1
  KeyframeSlots = 2
  UndoDepth = 1
  MaxMovie = 2
  None = None
  Elsewhere = Elsewhere
INVARIANTS TypeOK ScreenShowsList KeyframesShowList UndoDepthKept
PROPERTY EditsCanBeTakenBack
