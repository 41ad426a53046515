SPECIFICATION FairSpec
CONSTANTS
  Index <- MCIndex
  Primary <- MCPrimary
  Refusable <- MCRefusable
  Gain <- MCGain
  UserSource = {song}
  MaxBatch = 3
  None = None
INVARIANTS RowMatchesPointer ConvertingHasJob BatchAccountsForQueue ActiveIsChosenSong
PROPERTIES ConversionEnds WaitingRowsAdvance ImplementsShelf
