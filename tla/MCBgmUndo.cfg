SPECIFICATION Spec
CONSTANTS
  Index <- MCIndex
  Primary <- MCPrimary
  Refusable <- MCRefusable
  Gain <- MCGain
  UserSource = {song}
  MaxBatch = 3
  None = None
PROPERTY UndoDeletesFile
