SPECIFICATION FairSpec
CONSTANTS
  Index <- MCIndex
  Primary <- MCPrimary
  Refusable <- MCRefusable
  Gain <- MCGain
  UserSource <- MCUserSource
  MaxBatch = 3
  None = None
INVARIANTS TypeOK PointerSafe RowMatchesPointer SettingsSurviveRestart
PROPERTIES ImplementsShelf
